------------------------------- MODULE HttpServer ------------------------------
(***************************************************************************)
(* The HTTP server of `serve` (src/http.c): a fixed pool of civetweb       *)
(* workers shared by the API and by the SSE streams, each of which parks   *)
(* its worker until the client leaves or the server stops; the count of    *)
(* open streams, claimed with a compare-and-swap; and the stop, which must *)
(* join every worker before the database they read is closed (src/main.c). *)
(*                                                                         *)
(* A client is one TCP connection, which carries one request.  What is     *)
(* written on it is not modelled, only whether the write fails.            *)
(***************************************************************************)
EXTENDS Integers, Sequences, FiniteSets

CONSTANTS
    Workers,         \* the civetweb workers
    Clients,         \* the connections that may be open at once
    None,            \* no client
    MaxDashboards,   \* cfg->max_dashboards
    ReserveMin,      \* SSE_RESERVE_MIN
    ReserveRatio,    \* SSE_RESERVE_RATIO
    Refresh,         \* cfg->refresh_seconds
    Keepalive        \* cfg->sse_keepalive_seconds

SseReserve(max_dashboards) ==
    LET reserve == max_dashboards \div ReserveRatio
    IN  IF reserve > ReserveMin THEN reserve ELSE ReserveMin

(* http_start sizes the pool: num_threads. *)
PoolSize == MaxDashboards + SseReserve(MaxDashboards)

ASSUME HttpAssumption ==
    /\ None \notin Clients
    /\ MaxDashboards \in Nat \ {0}
    /\ ReserveMin \in Nat \ {0}
    /\ ReserveRatio \in Nat \ {0}
    /\ Refresh \in Nat \ {0}
    /\ Keepalive \in Nat \ {0}
    /\ IsFiniteSet(Workers)
    /\ Cardinality(Workers) = PoolSize

VARIABLES
    sse_active,  \* ctx->sse_active
    stopping,    \* ctx->stopping
    phase,       \* where each worker is
    serving,     \* the client whose request a worker handles
    active,      \* sse_acquire's local: the count it last read
    tick,        \* stream_loop's local: seconds waited since the last frame
    queue,       \* accepted connections no worker has taken
    asks,        \* the request of each client that has not been answered
    peer,        \* "here", "left" (closed), "reset" (a write will fail)
    main         \* run_serve: serving, or how far its stop has come

vars == <<sse_active, stopping, phase, serving, active, tick, queue, asks,
          peer, main>>

worker == <<phase, serving, active, tick>>
net == <<queue, asks, peer>>

Phases == {"idle", "load", "cas", "refuse", "head", "query", "frame", "wait",
           "release", "done", "api", "exit"}

(* The phases in which a worker holds a stream slot. *)
Holding == {"head", "query", "frame", "wait", "release"}

Holders == {w \in Workers : phase[w] \in Holding}

Init ==
    /\ sse_active = 0
    /\ stopping = 0
    /\ phase = [w \in Workers |-> "idle"]
    /\ serving = [w \in Workers |-> None]
    /\ active = [w \in Workers |-> 0]
    /\ tick = [w \in Workers |-> 0]
    /\ queue = <<>>
    /\ asks = [c \in Clients |-> "none"]
    /\ peer = [c \in Clients |-> "here"]
    /\ main = "serve"
--------------------------------------------------------------------------------
(* Clients.  civetweb accepts until mg_stop is called. *)

Connect(c, kind) ==
    /\ main \in {"serve", "stopping"}
    /\ asks[c] = "none"
    /\ asks' = [asks EXCEPT ![c] = kind]
    /\ queue' = Append(queue, c)
    /\ UNCHANGED <<sse_active, stopping, worker, peer, main>>

Leave(c) ==
    /\ asks[c] # "none" /\ peer[c] = "here"
    /\ peer' = [peer EXCEPT ![c] = "left"]
    /\ UNCHANGED <<sse_active, stopping, worker, queue, asks, main>>

(* A write on a connection the client has closed may still be taken by the *)
(* kernel; the answer to it makes the next one fail.                       *)
WriteOk(c) ==
    /\ peer[c] # "reset"
    /\ peer' = [peer EXCEPT ![c] = IF peer[c] = "left" THEN "reset" ELSE "here"]

WriteFails(c) == peer[c] # "here" /\ UNCHANGED peer
--------------------------------------------------------------------------------
(* Workers *)

Goto(w, from, to) == phase[w] = from /\ phase' = [phase EXCEPT ![w] = to]

(* A free worker takes the oldest connection and dispatches on its route.  *)
Take(w) ==
    /\ queue # <<>> /\ main \in {"serve", "stopping"}
    /\ Goto(w, "idle", IF asks[Head(queue)] = "stream" THEN "load" ELSE "api")
    /\ serving' = [serving EXCEPT ![w] = Head(queue)]
    /\ queue' = Tail(queue)
    /\ UNCHANGED <<sse_active, stopping, active, tick, asks, peer, main>>

(* handler_root, handler_health, handler_current, handler_metrics: read    *)
(* the database, answer, return.                                           *)
Api(w) ==
    /\ Goto(w, "api", "done")
    /\ UNCHANGED <<sse_active, stopping, serving, active, tick, net, main>>

(* Mutant: the limit is not checked. *)
Load_NoLimit(w) ==
    /\ Goto(w, "load", "cas")
    /\ active' = [active EXCEPT ![w] = sse_active]
    /\ UNCHANGED <<sse_active, stopping, serving, tick, net, main>>

(* sse_acquire *)
Load(w) ==
    /\ phase[w] = "load"
    /\ active' = [active EXCEPT ![w] = sse_active]
    /\ phase' = [phase EXCEPT ![w] =
                    IF sse_active >= MaxDashboards THEN "refuse" ELSE "cas"]
    /\ UNCHANGED <<sse_active, stopping, serving, tick, net, main>>

(* Mutant: the limit is checked, then a slot claimed, in two steps. *)
CasOk_NoCompare(w) ==
    /\ Goto(w, "cas", "head")
    /\ sse_active' = sse_active + 1
    /\ UNCHANGED <<stopping, serving, active, tick, net, main>>

CasOk(w) ==
    /\ active[w] = sse_active
    /\ Goto(w, "cas", "head")
    /\ sse_active' = active[w] + 1
    /\ UNCHANGED <<stopping, serving, active, tick, net, main>>

(* The count has moved, or the weak exchange failed for no reason: it has  *)
(* reloaded the count, and the limit is checked again.                     *)
CasFails(w) ==
    /\ phase[w] = "cas"
    /\ active' = [active EXCEPT ![w] = sse_active]
    /\ phase' = [phase EXCEPT ![w] =
                    IF sse_active >= MaxDashboards THEN "refuse" ELSE "cas"]
    /\ UNCHANGED <<sse_active, stopping, serving, tick, net, main>>

(* handler_stream: 503, or the header and the stream.  Whether these       *)
(* writes succeed is not looked at.                                        *)
Refuse(w) ==
    /\ Goto(w, "refuse", "done")
    /\ UNCHANGED <<sse_active, stopping, serving, active, tick, net, main>>

Header(w) ==
    /\ Goto(w, "head", "query")
    /\ WriteOk(serving[w]) \/ WriteFails(serving[w])
    /\ UNCHANGED <<sse_active, stopping, serving, active, tick, queue, asks, main>>

(* stream_loop: db_current has a row to send, or it does not (the table is *)
(* empty, or the query failed).                                            *)
Query(w) ==
    /\ phase[w] = "query"
    /\ \E found \in {"frame", "wait"} : phase' = [phase EXCEPT ![w] = found]
    /\ tick' = [tick EXCEPT ![w] = 0]
    /\ UNCHANGED <<sse_active, stopping, serving, active, net, main>>

(* Mutant: the failed frame returns from the handler without the release. *)
Frame_LeaksSlot(w) ==
    /\ \/ Goto(w, "frame", "wait") /\ WriteOk(serving[w])
       \/ Goto(w, "frame", "wait") /\ UNCHANGED peer
       \/ Goto(w, "frame", "done") /\ WriteFails(serving[w])
    /\ UNCHANGED <<sse_active, stopping, serving, active, tick, queue, asks, main>>

(* stream_frame: a frame that overflowed its buffer is skipped. *)
Frame(w) ==
    /\ \/ Goto(w, "frame", "wait") /\ WriteOk(serving[w])
       \/ Goto(w, "frame", "wait") /\ UNCHANGED peer
       \/ Goto(w, "frame", "release") /\ WriteFails(serving[w])
    /\ UNCHANGED <<sse_active, stopping, serving, active, tick, queue, asks, main>>

(* Mutant: the test for an active keepalive is inverted. *)
KeepaliveDue_Inverted(i) == Keepalive >= Refresh /\ i % Keepalive = 0

KeepaliveDue(i) == Keepalive < Refresh /\ i % Keepalive = 0

(* One second of the wait, and the keepalive comment when it is due. *)
Wait(w) ==
    /\ phase[w] = "wait" /\ stopping = 0 /\ tick[w] < Refresh
    /\ \/ /\ ~KeepaliveDue(tick[w] + 1)
          /\ tick' = [tick EXCEPT ![w] = @ + 1]
          /\ UNCHANGED <<phase, peer>>
       \/ /\ KeepaliveDue(tick[w] + 1)
          /\ WriteOk(serving[w])
          /\ tick' = [tick EXCEPT ![w] = @ + 1]
          /\ UNCHANGED phase
       \/ /\ KeepaliveDue(tick[w] + 1)
          /\ WriteFails(serving[w])
          /\ phase' = [phase EXCEPT ![w] = "release"]
          /\ UNCHANGED tick
    /\ UNCHANGED <<sse_active, stopping, serving, active, queue, asks, main>>

(* Mutant: the stop only cuts the wait short. *)
WaitOver_Restarts(w) ==
    /\ stopping = 1 \/ tick[w] = Refresh
    /\ Goto(w, "wait", "query")
    /\ UNCHANGED <<sse_active, stopping, serving, active, tick, net, main>>

WaitOver(w) ==
    /\ stopping = 1 \/ tick[w] = Refresh
    /\ Goto(w, "wait", IF stopping = 1 THEN "release" ELSE "query")
    /\ UNCHANGED <<sse_active, stopping, serving, active, tick, net, main>>

(* atomic_fetch_sub, the one place a slot is given back. *)
Release(w) ==
    /\ Goto(w, "release", "done")
    /\ sse_active' = sse_active - 1
    /\ UNCHANGED <<stopping, serving, active, tick, net, main>>

(* The handler has returned, its locals with it: civetweb closes the       *)
(* connection.                                                             *)
Close(w) ==
    /\ Goto(w, "done", "idle")
    /\ active' = [active EXCEPT ![w] = 0]
    /\ tick' = [tick EXCEPT ![w] = 0]
    /\ asks' = [asks EXCEPT ![serving[w]] = "none"]
    /\ peer' = [peer EXCEPT ![serving[w]] = "here"]
    /\ serving' = [serving EXCEPT ![w] = None]
    /\ UNCHANGED <<sse_active, stopping, queue, main>>

(* mg_stop: a worker with no request in hand leaves the pool; connections  *)
(* still queued are dropped.                                               *)
Exit(w) ==
    /\ main = "mg_stop"
    /\ Goto(w, "idle", "exit")
    /\ UNCHANGED <<sse_active, stopping, serving, active, tick, net, main>>

Stream(w) ==
    \/ Load(w) \/ CasFails(w) \/ Refuse(w) \/ Header(w) \/ Query(w) \/ Frame(w)
    \/ Wait(w) \/ WaitOver(w) \/ Release(w)
--------------------------------------------------------------------------------
(* run_serve's stop *)

(* http_stop: ctx->stopping = 1, seen by the streams at their next second. *)
SetStopping ==
    /\ main = "serve"
    /\ main' = "stopping"
    /\ stopping' = 1
    /\ UNCHANGED <<sse_active, worker, net>>

MgStop ==
    /\ main = "stopping"
    /\ main' = "mg_stop"
    /\ UNCHANGED <<sse_active, stopping, worker, net>>

(* mg_stop has joined every worker. *)
Joined ==
    /\ main = "mg_stop"
    /\ \A w \in Workers : phase[w] = "exit"
    /\ main' = "joined"
    /\ UNCHANGED <<sse_active, stopping, worker, net>>

(* Mutant: db_ro is closed while the workers are being stopped. *)
CloseDb_Early ==
    /\ main = "mg_stop"
    /\ main' = "closed"
    /\ UNCHANGED <<sse_active, stopping, worker, net>>

(* db_close(&db_ro): the connection every handler reads through. *)
CloseDb ==
    /\ main = "joined"
    /\ main' = "closed"
    /\ UNCHANGED <<sse_active, stopping, worker, net>>

Stop == MgStop \/ Joined \/ CloseDb

Next ==
    \/ \E c \in Clients : Leave(c) \/ \E kind \in {"stream", "api"} : Connect(c, kind)
    \/ \E w \in Workers : Take(w) \/ Api(w) \/ Stream(w) \/ CasOk(w) \/ Close(w) \/ Exit(w)
    \/ SetStopping \/ Stop

Spec == Init /\ [][Next]_vars

(* Threads are scheduled, so a worker that can go on does; a weak exchange *)
(* that could succeed again and again succeeds once.  Nothing is assumed   *)
(* of clients, nor of when, if ever, a stop is asked for.                  *)
Fairness ==
    /\ \A w \in Workers :
         /\ WF_vars(Take(w))
         /\ WF_vars(Api(w) \/ Stream(w) \/ Close(w) \/ Exit(w))
         /\ SF_vars(CasOk(w))
    /\ WF_vars(Stop)

FairSpec == Spec /\ Fairness
--------------------------------------------------------------------------------
(* Properties *)

TypeOK ==
    /\ sse_active \in Int
    /\ stopping \in {0, 1}
    /\ phase \in [Workers -> Phases]
    /\ serving \in [Workers -> Clients \cup {None}]
    /\ active \in [Workers -> Int]
    /\ tick \in [Workers -> 0..Refresh]
    /\ queue \in Seq(Clients)
    /\ asks \in [Clients -> {"none", "stream", "api"}]
    /\ peer \in [Clients -> {"here", "left", "reset"}]
    /\ main \in {"serve", "stopping", "mg_stop", "joined", "closed"}

(* No slot leaks and none is given back twice: the counter is the number   *)
(* of workers between their claim and their release, whichever way each    *)
(* stream ended.                                                           *)
SlotsExact == sse_active = Cardinality(Holders)

(* The streams never eat into the reserve: at least sse_reserve() workers  *)
(* hold no stream slot, which is what keeps the API served (the comments   *)
(* on SSE_RESERVE_MIN and on sse_acquire).                                 *)
ReserveKept == Cardinality(Workers \ Holders) >= SseReserve(MaxDashboards)

(* db_ro outlives its readers: it is closed only when no worker can read   *)
(* through it any more.                                                    *)
DbOutlivesWorkers ==
    main = "closed" => \A w \in Workers : phase[w] = "exit" /\ sse_active = 0

(* "every other route keeps answering normally" (README, max_dashboards):  *)
(* an API request is answered however many streams are open or trying to   *)
(* open, unless the server is stopped.                                     *)
ApiAnswered ==
    \A c \in Clients : asks[c] = "api" ~> asks[c] = "none" \/ main # "serve"

(* A closed tab gives its slot back, with the keepalive active.            *)
LeaverFreesSlot ==
    \A w \in Workers, c \in Clients :
        (phase[w] \in Holding /\ serving[w] = c /\ peer[c] # "here")
           ~> ~(phase[w] \in Holding /\ serving[w] = c)

(* The stop always completes: no stream holds up mg_stop's join. *)
StopCompletes == main = "stopping" ~> main = "closed"
================================================================================
