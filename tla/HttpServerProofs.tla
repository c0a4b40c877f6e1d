--------------------------- MODULE HttpServerProofs ----------------------------
(***************************************************************************)
(* The stream slots of src/http.c, for every pool size, every number of    *)
(* clients and every interleaving of their workers.                        *)
(***************************************************************************)
EXTENDS HttpServer, FiniteSetTheorems, TLAPS

(* The variables stay in their ranges under every step. *)
THEOREM TypeCorrect == Spec => []TypeOK
  <1>1. Init => TypeOK
    BY HttpAssumption DEF Init, TypeOK, Phases
  <1>2. TypeOK /\ [Next]_vars => TypeOK'
    <2> SUFFICES ASSUME TypeOK, [Next]_vars PROVE TypeOK'  OBVIOUS
    <2> USE DEF TypeOK
    <2>1. ASSUME NEW c \in Clients, Leave(c) PROVE TypeOK'
      BY <2>1 DEF Leave, worker
    <2>2. ASSUME NEW c \in Clients, NEW kind \in {"stream", "api"}, Connect(c, kind)
          PROVE  TypeOK'
      BY <2>2 DEF Connect, worker
    <2>3. ASSUME NEW w \in Workers, Take(w) PROVE TypeOK'
      <3>1. Head(queue) \in Clients /\ Tail(queue) \in Seq(Clients)
        BY <2>3 DEF Take
      <3>2. QED
        BY <2>3, <3>1 DEF Take, Goto, Phases
    <2>4. ASSUME NEW w \in Workers, Api(w) \/ Refuse(w) \/ Exit(w) \/ WaitOver(w)
          PROVE  TypeOK'
      BY <2>4 DEF Api, Refuse, Exit, WaitOver, Goto, Phases, net
    <2>5. ASSUME NEW w \in Workers, Load(w) \/ CasFails(w) PROVE TypeOK'
      <3>1. active' = [active EXCEPT ![w] = sse_active] /\ sse_active \in Int
        BY <2>5 DEF Load, CasFails
      <3>2. \E p \in Phases : phase' = [phase EXCEPT ![w] = p]
        BY <2>5 DEF Load, CasFails, Phases
      <3>3. active' \in [Workers -> Int] /\ phase' \in [Workers -> Phases]
        BY <3>1, <3>2
      <3>4. UNCHANGED <<sse_active, stopping, serving, tick, queue, asks, peer, main>>
        BY <2>5 DEF Load, CasFails, net
      <3>5. QED
        BY <3>3, <3>4
    <2>6. ASSUME NEW w \in Workers, CasOk(w) \/ Release(w) PROVE TypeOK'
      <3>0. sse_active' \in Int
        BY <2>6 DEF CasOk, Release
      <3>1. phase' \in [Workers -> Phases]
        BY <2>6 DEF CasOk, Release, Goto, Phases
      <3>2. UNCHANGED <<stopping, serving, active, tick, queue, asks, peer, main>>
        BY <2>6 DEF CasOk, Release, net
      <3>3. QED
        BY <3>0, <3>1, <3>2
    <2>7. ASSUME NEW w \in Workers, Header(w) PROVE TypeOK'
      BY <2>7 DEF Header, WriteOk, WriteFails, Goto, Phases
    <2>8. ASSUME NEW w \in Workers, Query(w) PROVE TypeOK'
      BY <2>8, HttpAssumption DEF Query, Phases, net
    <2>9. ASSUME NEW w \in Workers, Frame(w) PROVE TypeOK'
      BY <2>9 DEF Frame, WriteOk, WriteFails, Goto, Phases
    <2>10. ASSUME NEW w \in Workers, Wait(w) PROVE TypeOK'
      <3>1. tick[w] + 1 \in 0..Refresh
        BY <2>10, HttpAssumption DEF Wait
      <3>2. tick' \in [Workers -> 0..Refresh] /\ phase' \in [Workers -> Phases]
        BY <2>10, <3>1 DEF Wait, Phases
      <3>3. peer' \in [Clients -> {"here", "left", "reset"}]
        BY <2>10 DEF Wait, WriteOk, WriteFails
      <3>4. QED
        BY <2>10, <3>2, <3>3 DEF Wait
    <2>11. ASSUME NEW w \in Workers, Close(w) PROVE TypeOK'
      <3>1. /\ phase' \in [Workers -> Phases] /\ active' \in [Workers -> Int]
            /\ tick' \in [Workers -> 0..Refresh]
            /\ serving' \in [Workers -> Clients \cup {None}]
        BY <2>11, HttpAssumption DEF Close, Goto, Phases
      <3>2. /\ asks' \in [Clients -> {"none", "stream", "api"}]
            /\ peer' \in [Clients -> {"here", "left", "reset"}]
        BY <2>11 DEF Close
      <3>3. QED
        BY <2>11, <3>1, <3>2 DEF Close
    <2>12. CASE SetStopping \/ Stop
      BY <2>12 DEF SetStopping, Stop, MgStop, Joined, CloseDb, worker, net
    <2>13. CASE UNCHANGED vars
      BY <2>13 DEF vars
    <2>14. QED
      BY <2>1, <2>2, <2>3, <2>4, <2>5, <2>6, <2>7, <2>8, <2>9, <2>10, <2>11, <2>12, <2>13
      DEF Next, Stream
  <1>3. QED
    BY <1>1, <1>2, PTL DEF Spec
--------------------------------------------------------------------------------
(* The counter is exact, within the limit, and a worker about to try the   *)
(* exchange has read a count below the limit.                              *)
SlotInv ==
    /\ SlotsExact
    /\ sse_active <= MaxDashboards
    /\ \A w \in Workers : phase[w] = "cas" => active[w] < MaxDashboards

LEMMA HoldersFinite == IsFiniteSet(Holders) /\ Holders \subseteq Workers
  BY HttpAssumption, FS_Subset DEF Holders

(* A step that moves no worker into or out of a slot, and reaches the      *)
(* exchange only with a count below the limit, keeps the invariant.        *)
LEMMA SlotStutter ==
    ASSUME TypeOK, SlotInv, sse_active' = sse_active,
           \A w \in Workers : phase'[w] \in Holding <=> phase[w] \in Holding,
           \A w \in Workers : phase'[w] = "cas" => active'[w] < MaxDashboards
    PROVE  SlotInv'
  <1>1. Holders' = Holders
    BY DEF Holders
  <1>2. QED
    BY <1>1 DEF SlotInv, SlotsExact

(* Every step keeps it: only CasOk and Release change the counter, and     *)
(* each moves one worker into or out of Holders with it.                   *)
THEOREM SlotInductive == TypeOK /\ SlotInv /\ [Next]_vars => SlotInv'
  <1> SUFFICES ASSUME TypeOK, SlotInv, [Next]_vars PROVE SlotInv'  OBVIOUS
  <1>1. CASE UNCHANGED <<sse_active, phase, active>>
    BY <1>1, SlotStutter DEF SlotInv
  <1>2. ASSUME NEW w \in Workers,
               Take(w) \/ Api(w) \/ Refuse(w) \/ Exit(w) \/ Header(w) \/ Query(w)
                 \/ Frame(w) \/ Wait(w) \/ WaitOver(w)
        PROVE  SlotInv'
    <2>1. sse_active' = sse_active /\ active' = active
      BY <1>2 DEF Take, Api, Refuse, Exit, Header, Query, Frame, Wait, WaitOver
    <2>2. \A v \in Workers : phase'[v] \in Holding <=> phase[v] \in Holding
      BY <1>2 DEF Take, Api, Refuse, Exit, Header, Query, Frame, Wait, WaitOver,
                  Goto, Holding, TypeOK
    <2>3. \A v \in Workers : phase'[v] = "cas" => phase[v] = "cas"
      BY <1>2 DEF Take, Api, Refuse, Exit, Header, Query, Frame, Wait, WaitOver,
                  Goto, TypeOK
    <2>4. QED
      BY <2>1, <2>2, <2>3, SlotStutter DEF SlotInv
  <1>3. ASSUME NEW w \in Workers, Load(w) \/ CasFails(w) PROVE SlotInv'
    <2>1. /\ sse_active' = sse_active
          /\ active' = [active EXCEPT ![w] = sse_active]
          /\ phase[w] \in {"load", "cas"}
          /\ phase' = [phase EXCEPT ![w] =
                          IF sse_active >= MaxDashboards THEN "refuse" ELSE "cas"]
      BY <1>3 DEF Load, CasFails
    <2>2. \A v \in Workers : phase'[v] \in Holding <=> phase[v] \in Holding
      BY <2>1 DEF Holding, TypeOK
    <2>3. \A v \in Workers : phase'[v] = "cas" => active'[v] < MaxDashboards
      BY <2>1, HttpAssumption DEF SlotInv, TypeOK
    <2>4. QED
      BY <2>1, <2>2, <2>3, SlotStutter
  <1>4. ASSUME NEW w \in Workers, Close(w) PROVE SlotInv'
    <2>1. /\ sse_active' = sse_active /\ phase[w] = "done"
          /\ phase' = [phase EXCEPT ![w] = "idle"]
          /\ active' = [active EXCEPT ![w] = 0]
      BY <1>4 DEF Close, Goto
    <2>2. \A v \in Workers : phase'[v] \in Holding <=> phase[v] \in Holding
      BY <2>1 DEF Holding, TypeOK
    <2>3. \A v \in Workers : phase'[v] = "cas" => active'[v] < MaxDashboards
      BY <2>1, HttpAssumption DEF SlotInv, TypeOK
    <2>4. QED
      BY <2>1, <2>2, <2>3, SlotStutter
  <1>5. ASSUME NEW w \in Workers, CasOk(w) PROVE SlotInv'
    <2>1. /\ phase[w] = "cas" /\ phase' = [phase EXCEPT ![w] = "head"]
          /\ active' = active /\ active[w] = sse_active /\ sse_active' = sse_active + 1
      BY <1>5 DEF CasOk, Goto, TypeOK
    <2>2. w \notin Holders /\ Holders' = Holders \cup {w}
      BY <2>1 DEF Holders, Holding, TypeOK
    <2>3. Cardinality(Holders') = Cardinality(Holders) + 1
      BY <2>2, HoldersFinite, FS_AddElement
    <2>4. sse_active' <= MaxDashboards
      BY <2>1, HttpAssumption DEF SlotInv, TypeOK
    <2>5. QED
      BY <2>1, <2>3, <2>4 DEF SlotInv, SlotsExact, TypeOK
  <1>6. ASSUME NEW w \in Workers, Release(w) PROVE SlotInv'
    <2>1. /\ phase[w] = "release" /\ phase' = [phase EXCEPT ![w] = "done"]
          /\ active' = active /\ sse_active' = sse_active - 1
      BY <1>6 DEF Release, Goto, TypeOK
    <2>2. w \in Holders /\ Holders' = Holders \ {w}
      BY <2>1 DEF Holders, Holding, TypeOK
    <2>3. Cardinality(Holders') = Cardinality(Holders) - 1
      BY <2>2, HoldersFinite, FS_RemoveElement
    <2>4. QED
      BY <2>1, <2>3, HttpAssumption DEF SlotInv, SlotsExact, TypeOK
  <1>7. QED
    BY <1>1, <1>2, <1>3, <1>4, <1>5, <1>6
    DEF Next, Stream, Leave, Connect, SetStopping, Stop, MgStop, Joined, CloseDb, worker, vars

THEOREM SlotInvHolds == Spec => []SlotInv
  <1>1. Init => SlotInv
    <2> SUFFICES ASSUME Init PROVE SlotInv  OBVIOUS
    <2>1. Holders = {}
      BY DEF Init, Holders, Holding
    <2>2. Cardinality(Holders) = 0
      BY <2>1, FS_EmptySet
    <2>3. QED
      BY <2>2, HttpAssumption DEF Init, SlotInv, SlotsExact
  <1>2. QED
    BY <1>1, SlotInductive, TypeCorrect, PTL DEF Spec

(* sse_active is exact in every pool: however a stream ends, its slot is   *)
(* given back once.                                                        *)
THEOREM SlotsAlwaysExact == Spec => []SlotsExact
  <1>1. SlotInv => SlotsExact  BY DEF SlotInv
  <1>2. QED  BY <1>1, SlotInvHolds, PTL

(* The reserve http_start adds to the pool is never spent on streams.      *)
THEOREM ReserveAlwaysKept == Spec => []ReserveKept
  <1>1. SlotInv => ReserveKept
    <2> SUFFICES ASSUME SlotInv PROVE ReserveKept  OBVIOUS
    <2>1. /\ IsFiniteSet(Workers \ Holders)
          /\ Cardinality(Workers \ Holders)
               = Cardinality(Workers) - Cardinality(Workers \cap Holders)
      BY HttpAssumption, FS_Difference
    <2>2. Workers \cap Holders = Holders
      BY HoldersFinite
    <2>3. Cardinality(Holders) <= MaxDashboards /\ Cardinality(Holders) \in Nat
      BY HoldersFinite, FS_CardinalityType DEF SlotInv, SlotsExact
    <2>4. SseReserve(MaxDashboards) \in Int
      BY HttpAssumption DEF SseReserve
    <2>5. Cardinality(Workers) = MaxDashboards + SseReserve(MaxDashboards)
      BY HttpAssumption DEF PoolSize
    <2>6. Cardinality(Workers \ Holders)
            = (MaxDashboards + SseReserve(MaxDashboards)) - Cardinality(Holders)
      BY <2>1, <2>2, <2>5
    <2>7. MaxDashboards \in Int
      BY HttpAssumption
    <2>8. ASSUME NEW m \in Int, NEW r \in Int, NEW h \in Nat, h <= m
          PROVE  (m + r) - h >= r
      BY <2>8
    <2>9. QED
      BY <2>3, <2>4, <2>6, <2>7, <2>8 DEF ReserveKept
  <1>2. QED  BY <1>1, SlotInvHolds, PTL
--------------------------------------------------------------------------------
(* The stop has joined every worker, and none of them comes back. *)
Gone == main \in {"joined", "closed"} => \A w \in Workers : phase[w] = "exit"

(* A worker that has left the pool takes no step: each of its actions      *)
(* starts from another phase.                                              *)
LEMMA GoneInductive == TypeOK /\ Gone /\ [Next]_vars => Gone'
  <1> SUFFICES ASSUME TypeOK, Gone, [Next]_vars PROVE Gone'  OBVIOUS
  <1>1. ASSUME NEW w \in Workers,
               Take(w) \/ Api(w) \/ Stream(w) \/ CasOk(w) \/ Close(w) \/ Exit(w)
        PROVE  Gone'
    <2>1. phase[w] # "exit" /\ main' = main
      BY <1>1 DEF Take, Api, Stream, Load, CasFails, Refuse, Header, Query, Frame, Wait,
                  WaitOver, Release, CasOk, Close, Exit, Goto
    <2>2. QED
      BY <2>1 DEF Gone
  <1>2. CASE Joined
    BY <1>2 DEF Joined, worker, Gone
  <1>3. CASE MgStop \/ CloseDb \/ SetStopping
    BY <1>3 DEF MgStop, CloseDb, SetStopping, worker, Gone
  <1>4. ASSUME NEW c \in Clients, Leave(c) \/ \E kind \in {"stream", "api"} : Connect(c, kind)
        PROVE  Gone'
    BY <1>4 DEF Leave, Connect, worker, Gone
  <1>5. CASE UNCHANGED vars
    BY <1>5 DEF vars, Gone
  <1>6. QED
    BY <1>1, <1>2, <1>3, <1>4, <1>5 DEF Next, Stop

(* db_close(&db_ro) comes after the last read through it, in every pool    *)
(* and with any streams open at the stop; and by then every stream slot    *)
(* has been given back.                                                    *)
THEOREM DbAlwaysOutlives == Spec => []DbOutlivesWorkers
  <1>1. Init => Gone
    BY DEF Init, Gone
  <1>2. SlotInv /\ Gone => DbOutlivesWorkers
    <2> SUFFICES ASSUME SlotInv, Gone, main = "closed"
                 PROVE  \A w \in Workers : phase[w] = "exit" /\ sse_active = 0
      BY DEF DbOutlivesWorkers
    <2>1. \A w \in Workers : phase[w] = "exit"
      BY DEF Gone
    <2>2. Holders = {}
      BY <2>1 DEF Holders, Holding
    <2>3. sse_active = 0
      BY <2>2, FS_EmptySet DEF SlotInv, SlotsExact
    <2>4. QED  BY <2>1, <2>3
  <1>3. QED
    BY <1>1, <1>2, GoneInductive, SlotInvHolds, TypeCorrect, PTL DEF Spec
================================================================================
