---------------------------- MODULE MigrateExecProofs --------------------------
(***************************************************************************)
(* What MigrateExec promises for every size of the buffers and pipes, and  *)
(* every script the tool may run: the child's changes are made all or not  *)
(* at all, the caller's buffers have the beginning of what it printed, and *)
(* no descriptor and no process is left behind.                            *)
(***************************************************************************)
EXTENDS MigrateExec, TLAPS

Codes == {0, 1, 2, 127, Killed}

TypeOK ==
    /\ ppc \in {"start", "piped", "fork", "forked", "drain", "close", "wait", "done"}
    /\ cpc \in {"none", "exec", "open", "prepare", "step", "exit", "dead", "reaped"}
    /\ fds \subseteq [stream : Streams, end : {"r", "w"}]
    /\ polled \subseteq Streams /\ ready \subseteq Streams
    /\ read \in [Streams -> Nat] /\ len \in [Streams -> Nat]
    /\ due \in [Streams -> Nat] /\ wrote \in [Streams -> Nat]
    /\ result \in Int /\ broke \in {0, 1}
    /\ script \in Scripts /\ idx \in 0..NumStmts /\ status \in Codes

(* Which of the two processes is there, and what each holds open. *)
Lives ==
    /\ ppc \in {"start", "piped", "fork"} => cpc = "none"
    /\ ppc \in {"forked", "drain", "close", "wait"} => cpc \notin {"none", "reaped"}
    /\ ppc = "done" => cpc \in {"none", "reaped"}
    /\ ppc \in {"drain", "close", "wait"} => \A s \in Streams : End(s, "w") \notin fds
    /\ ppc \in {"wait", "done"} => fds = {}
    /\ Alive => ends = Streams
    /\ cpc \in {"none", "dead", "reaped"} => ends = {}

(* A stream is dropped only once all of it was read and the child has      *)
(* ended; what poll() reported is still so when it is served.              *)
Flow ==
    /\ \A s \in Streams : read[s] <= wrote[s]
    /\ ppc \in {"start", "piped", "fork", "forked"} => polled = Streams /\ ready = {}
    /\ ppc = "drain" => \A s \in ready : Readable(s)
    /\ \A s \in Streams \ polled : read[s] = wrote[s] /\ s \notin ends
    /\ ppc \in {"close", "wait"} /\ broke = 0 => polled = {}
    /\ ppc = "done" /\ result # -1 /\ broke = 0 => polled = {}

Kept(s) == len[s] = Least(read[s], IF Cap[s] = 0 THEN 0 ELSE Cap[s] - 1)

(* The child that ended by itself has written all it printed, and its      *)
(* status is what is returned.                                             *)
Told ==
    /\ cpc \in {"dead", "reaped"} /\ status \in {0, 1, 2} => \A s \in Streams : due[s] = 0
    /\ ppc # "done" => result = None
    /\ ppc = "done" => result = -1 \/ (cpc = "reaped" /\ result = Outcome)

PInv == TypeOK /\ Lives /\ Flow /\ (\A s \in Streams : Kept(s)) /\ Told

Made(p) == {k \in 1..p : script[k] = "write"}

HasCommitted(p) == \E k \in 1..p : script[k] = "commit"

(* The transaction after the first p statements of the script. *)
After(p) ==
    /\ begun \in {0, 1}
    /\ p = 0 => begun = 0 /\ changed = {} /\ committed = {}
    /\ Single(script) => begun = 0 /\ changed = {} /\ committed = Made(p)
    /\ Wrapped(script) /\ p > 0 /\ ~HasCommitted(p) =>
         begun = 1 /\ changed = Made(p) /\ committed = {}
    /\ Wrapped(script) /\ HasCommitted(p) =>
         begun = 0 /\ changed = {} /\ committed = Made(p)

(* Where the child is in its script, and what it has left when it leaves. *)
ScriptInv ==
    /\ cpc \in {"none", "exec", "open"} => idx = 0 /\ After(0)
    /\ cpc = "prepare" => After(idx)
    /\ cpc = "step" => idx > 0 /\ script[idx] # "blank" /\ After(idx - 1)
    /\ cpc \in {"exit", "dead", "reaped"} =>
         /\ status = 0 => committed = Made(NumStmts)
         /\ status \in {1, 2, 127} => committed = {}
--------------------------------------------------------------------------------
LEMMA InitPInv == Init => PInv
<1> SUFFICES ASSUME Init PROVE PInv
    OBVIOUS
<1>1. TypeOK
    BY ExecAssumption DEF Init, TypeOK, Codes, None
<1>2. Lives
    BY DEF Init, Lives, Alive
<1>3. Flow
    BY DEF Init, Flow
<1>4. \A s \in Streams : Kept(s)
    BY ExecAssumption DEF Init, Kept, Least
<1>5. Told
    BY DEF Init, Told
<1>6. QED
    BY <1>1, <1>2, <1>3, <1>4, <1>5 DEF PInv

(* One sink_read of a stream with inpipe units in its pipe. *)
LEMMA Taken ==
    ASSUME NEW inpipe \in Nat, NEW l \in Nat, NEW rd \in Nat, NEW cap \in Nat, NEW room, NEW n,
           l = Least(rd, IF cap = 0 THEN 0 ELSE cap - 1),
           room = IF l + 1 < cap THEN cap - 1 - l ELSE Scratch,
           n = Least(inpipe, room)
    PROVE  /\ n \in Nat /\ n <= inpipe /\ (n = 0 => inpipe = 0)
           /\ (IF l + 1 < cap THEN l + n ELSE l) \in Nat
           /\ (IF l + 1 < cap THEN l + n ELSE l) =
                Least(rd + n, IF cap = 0 THEN 0 ELSE cap - 1)
<1>1. room \in Nat \ {0}
    BY ExecAssumption
<1>2. n \in Nat /\ n <= inpipe /\ n <= room /\ (n = 0 => inpipe = 0)
    <2>1. CASE inpipe < room
        <3>1. n = inpipe
            BY <2>1 DEF Least
        <3>2. QED
            BY <1>1, <2>1, <3>1
    <2>2. CASE ~(inpipe < room)
        <3>1. n = room
            BY <2>2 DEF Least
        <3>2. QED
            BY <1>1, <2>2, <3>1
    <2>3. QED
        BY <2>1, <2>2
<1>3. CASE l + 1 < cap
    BY <1>2, <1>3 DEF Least
<1>4. CASE ~(l + 1 < cap)
    BY <1>2, <1>4 DEF Least
<1>5. QED
    BY <1>2, <1>3, <1>4

LEMMA ParentPInv ==
    ASSUME PInv, Parent \/ SetUpFail \/ PollFail
    PROVE  PInv'
<1> USE ExecAssumption DEF PInv, TypeOK, Lives, Flow, Kept, Told, Codes, Alive, Killed, None,
        Outcome, End, Ended, InPipe, Readable, vars, parent, child, sinks, db
<1>1. CASE Pipe(Out, "start", "piped")
    BY <1>1 DEF Pipe
<1>2. CASE Pipe(Err, "piped", "fork")
    BY <1>2 DEF Pipe
<1>3. CASE SetUpFail
    BY <1>3 DEF SetUpFail, Return
<1>4. CASE Fork
    BY <1>4 DEF Fork
<1>5. CASE CloseEnds("forked", "w", "drain")
    BY <1>5 DEF CloseEnds
<1>6. CASE Poll
    BY <1>6 DEF Poll
<1>7. CASE PollFail
    BY <1>7 DEF PollFail
<1>8. ASSUME NEW s \in Streams, SinkRead(s) PROVE PInv'
    <2> DEFINE n == Least(InPipe(s), Room(s))
               l == IF Keep(s) THEN len[s] + n ELSE len[s]
    <2>1. /\ read[s] \in Nat /\ wrote[s] \in Nat /\ len[s] \in Nat /\ Cap[s] \in Nat
          /\ wrote[s] - read[s] \in Nat /\ Kept(s)
        BY SMTT(30)
    <2>2. /\ n \in Nat /\ n <= wrote[s] - read[s]
          /\ n = 0 => wrote[s] - read[s] = 0
          /\ l \in Nat
          /\ l = Least(read[s] + n, IF Cap[s] = 0 THEN 0 ELSE Cap[s] - 1)
        <3>1. /\ len[s] = Least(read[s], IF Cap[s] = 0 THEN 0 ELSE Cap[s] - 1)
              /\ Room(s) = IF len[s] + 1 < Cap[s] THEN Cap[s] - 1 - len[s] ELSE Scratch
              /\ n = Least(wrote[s] - read[s], Room(s))
              /\ l = IF len[s] + 1 < Cap[s] THEN len[s] + n ELSE len[s]
            BY ONLY <2>1 DEF Room, Keep, InPipe, Kept
        <3> HIDE DEF n, l
        <3>2. QED
            BY ONLY <2>1, <3>1, Taken, SMTT(30)
    <2>3. /\ read' = [read EXCEPT ![s] = read[s] + n]
          /\ len' = [len EXCEPT ![s] = l]
          /\ ppc = "drain" /\ s \in ready /\ ready' = ready \ {s}
          /\ polled' = IF n = 0 THEN polled \ {s} ELSE polled
          /\ UNCHANGED <<ppc, fds, result, broke, child>>
        BY <1>8 DEF SinkRead
    <2> HIDE DEF n, l
    <2>4. /\ read' \in [Streams -> Nat] /\ len' \in [Streams -> Nat]
          /\ read'[s] = read[s] + n /\ len'[s] = l
          /\ \A t \in Streams : t # s => read'[t] = read[t] /\ len'[t] = len[t]
        <3>1. read \in [Streams -> Nat] /\ len \in [Streams -> Nat]
            OBVIOUS
        <3>2. read[s] + n \in Nat
            BY ONLY <2>1, <2>2
        <3>3. QED
            BY ONLY <1>8, <2>2, <2>3, <3>1, <3>2
    <2>5. TypeOK'
        BY <2>3, <2>4
    <2>6. Lives'
        BY <2>3
    <2>7. Flow'
        <3>1. \A t \in Streams : (read[t] <= wrote[t])'
            <4>1. wrote' = wrote /\ \A t \in Streams : read[t] <= wrote[t]
                BY <2>3
            <4>2. QED
                BY ONLY <2>1, <2>2, <2>4, <4>1
        <3>2. \A t \in ready' : Readable(t)'
            BY <2>3, <2>4
        <3>3. n = 0 => s \notin ends
            <4>1. Readable(s)
                BY <2>3
            <4>2. QED
                BY <2>1, <2>2, <4>1
        <3>4. \A t \in Streams \ polled' : (read[t] = wrote[t] /\ t \notin ends)'
            <4>1. /\ UNCHANGED <<wrote, ends>>
                  /\ \A t \in Streams \ polled : read[t] = wrote[t] /\ t \notin ends
                BY <2>3
            <4>2. polled' = IF n = 0 THEN polled \ {s} ELSE polled
                BY <2>3
            <4>3. QED
                BY ONLY <2>1, <2>2, <2>4, <3>3, <4>1, <4>2
        <3>5. QED
            BY <2>3, <3>1, <3>2, <3>4
    <2>8. \A t \in Streams : Kept(t)'
        <3>1. Kept(s)'
            BY ONLY <2>2, <2>4 DEF Kept
        <3>2. ASSUME NEW t \in Streams, t # s PROVE Kept(t)'
            BY <2>4, <3>2
        <3>3. QED
            BY <3>1, <3>2
    <2>9. Told'
        BY <2>3
    <2>10. QED
        BY <2>5, <2>6, <2>7, <2>8, <2>9
<1>9. CASE Drained
    BY <1>9 DEF Drained
<1>10. CASE CloseEnds("close", "r", "wait")
    BY <1>10 DEF CloseEnds
<1>11. CASE Wait
    BY <1>11 DEF Wait, Return
<1>12. QED
    BY <1>1, <1>2, <1>3, <1>4, <1>5, <1>6, <1>7, <1>8, <1>9, <1>10, <1>11 DEF Parent

LEMMA ChildPInv ==
    ASSUME PInv, \/ Child \/ ExecFail \/ OpenFail \/ PrepareFail \/ StepFail \/ Kill
    PROVE  PInv'
<1> USE ExecAssumption DEF PInv, TypeOK, Lives, Flow, Kept, Told, Codes, Alive, Killed, None,
        Outcome, End, Ended, InPipe, Readable, vars, parent, child, sinks, db, Goto
<1>1. CASE Begin("exec", "open") \/ Begin("open", "prepare")
    <2>0. /\ UNCHANGED <<ppc, fds, polled, ready, read, len, result, broke>>
          /\ UNCHANGED <<ends, script, idx, due, wrote, status>>
          /\ cpc \in {"exec", "open"} /\ cpc' \in {"open", "prepare"}
        BY ONLY <1>1 DEF Begin, Goto, parent, sinks
    <2>1. TypeOK'
        BY <2>0
    <2>2. Lives'
        BY <2>0
    <2>3. Flow'
        BY <2>0
    <2>4. (\A t \in Streams : Kept(t))'
        BY <2>0
    <2>5. Told'
        BY <2>0
    <2>6. QED
        BY <2>1, <2>2, <2>3, <2>4, <2>5
<1>2. CASE Prepare
    BY <1>2 DEF Prepare, More
<1>3. CASE Row
    <2>0. /\ UNCHANGED <<ppc, fds, polled, ready, read, len, result, broke>>
          /\ UNCHANGED <<cpc, ends, script, idx, wrote, status>>
          /\ cpc = "step" /\ due' = [due EXCEPT ![Out] = @ + RowSize]
        BY ONLY <1>3 DEF Row, Prints, parent, sinks
    <2>1. due' \in [Streams -> Nat]
        <3>1. due \in [Streams -> Nat] /\ Out \in Streams /\ RowSize \in Nat
            OBVIOUS
        <3>2. QED
            BY ONLY <2>0, <3>1
    <2>2. TypeOK'
        BY <2>0, <2>1
    <2>3. Lives'
        BY <2>0
    <2>4. Flow'
        BY <2>0
    <2>5. (\A t \in Streams : Kept(t))'
        BY <2>0
    <2>6. Told'
        BY <2>0
    <2>7. QED
        BY <2>2, <2>3, <2>4, <2>5, <2>6
<1>4. CASE Done
    <2>0. /\ UNCHANGED <<ppc, fds, polled, ready, read, len, result, broke>>
          /\ UNCHANGED <<ends, script, idx, due, wrote, status>>
          /\ cpc = "step" /\ cpc' = "prepare"
        BY ONLY <1>4 DEF Done, Goto, parent, sinks
    <2>1. TypeOK'
        BY <2>0
    <2>2. Lives'
        BY <2>0
    <2>3. Flow'
        BY <2>0
    <2>4. (\A t \in Streams : Kept(t))'
        BY <2>0
    <2>5. Told'
        BY <2>0
    <2>6. QED
        BY <2>1, <2>2, <2>3, <2>4, <2>5
<1>5. CASE Finish
    BY <1>5 DEF Finish, Leave
<1>6. CASE OpenFail \/ PrepareFail \/ StepFail
    <2>0. /\ UNCHANGED <<ppc, fds, polled, ready, read, len, result, broke>>
          /\ UNCHANGED <<ends, script, idx, wrote>>
          /\ cpc \in {"open", "prepare", "step"} /\ cpc' = "exit" /\ status' \in {1, 2}
          /\ due' = [due EXCEPT ![Err] = @ + RowSize]
        BY ONLY <1>6 DEF OpenFail, PrepareFail, StepFail, Fails, Leave, Goto, Prints, parent, sinks
    <2>1. due' \in [Streams -> Nat]
        <3>1. due \in [Streams -> Nat] /\ Err \in Streams /\ RowSize \in Nat
            OBVIOUS
        <3>2. QED
            BY ONLY <2>0, <3>1
    <2>2. TypeOK'
        BY <2>0, <2>1
    <2>3. Lives'
        BY <2>0
    <2>4. Flow'
        BY <2>0
    <2>5. (\A t \in Streams : Kept(t))'
        BY <2>0
    <2>6. Told'
        BY <2>0
    <2>7. QED
        BY <2>2, <2>3, <2>4, <2>5, <2>6
<1>7. ASSUME NEW s \in Streams, Write(s) PROVE PInv'
    <2>0. /\ UNCHANGED <<ppc, fds, polled, ready, read, len, result, broke>>
          /\ UNCHANGED <<cpc, ends, script, idx, status>>
          /\ Alive /\ due[s] > 0
          /\ due' = [due EXCEPT ![s] = @ - 1] /\ wrote' = [wrote EXCEPT ![s] = @ + 1]
        BY ONLY <1>7 DEF Write, parent, sinks
    <2>1. /\ due' \in [Streams -> Nat] /\ wrote' \in [Streams -> Nat]
          /\ \A t \in Streams : wrote[t] <= wrote'[t]
        <3>1. due \in [Streams -> Nat] /\ wrote \in [Streams -> Nat]
            OBVIOUS
        <3>2. due[s] - 1 \in Nat /\ wrote[s] + 1 \in Nat /\ wrote[s] <= wrote[s] + 1
            BY ONLY <2>0, <3>1
        <3>3. due' \in [Streams -> Nat] /\ wrote' \in [Streams -> Nat]
            BY ONLY <2>0, <3>1, <3>2
        <3>4. \A t \in Streams : wrote[t] <= wrote'[t]
            BY ONLY <2>0, <3>1, <3>2
        <3>5. QED
            BY ONLY <3>3, <3>4
    <2>2. TypeOK'
        BY <2>0, <2>1
    <2>3. Lives'
        BY <2>0
    <2>4. Flow'
        <3>1. polled = Streams
            <4>1. Alive /\ ends = Streams /\ \A t \in Streams \ polled : t \notin ends
                BY <2>0
            <4>2. polled \subseteq Streams
                OBVIOUS
            <4>3. QED
                BY ONLY <4>1, <4>2
        <3>2. \A t \in Streams : (read[t] <= wrote[t])'
            <4>1. /\ read \in [Streams -> Nat] /\ wrote \in [Streams -> Nat]
                  /\ \A t \in Streams : read[t] <= wrote[t]
                OBVIOUS
            <4>2. QED
                BY ONLY <2>0, <2>1, <4>1
        <3>3. ASSUME ppc = "drain", NEW t \in ready PROVE Readable(t)'
            <4>1. Readable(t) /\ t \in Streams
                BY <3>3
            <4>2. UNCHANGED <<read, ends, fds>>
                BY <2>0
            <4>3. read[t] \in Nat /\ wrote[t] \in Nat /\ wrote'[t] \in Nat /\ wrote[t] <= wrote'[t]
                BY <2>1, <4>1
            <4>4. QED
                BY ONLY <4>1, <4>2, <4>3 DEF Readable, InPipe, Ended, End
        <3>4. QED
            BY <2>0, <3>1, <3>2, <3>3
    <2>5. (\A t \in Streams : Kept(t))'
        BY <2>0
    <2>6. Told'
        BY <2>0
    <2>7. QED
        BY <2>2, <2>3, <2>4, <2>5, <2>6
<1>8. CASE Sigpipe \/ Kill \/ ExecFail
    <2>0. /\ UNCHANGED <<ppc, fds, polled, ready, read, len, result, broke>>
          /\ UNCHANGED <<script, idx, due, wrote>>
          /\ Alive /\ cpc' = "dead" /\ ends' = {} /\ status' \in {127, Killed}
        BY ONLY <1>8 DEF Sigpipe, Kill, ExecFail, Dies, Alive, parent, sinks
    <2>1. TypeOK'
        BY <2>0
    <2>2. Lives'
        BY <2>0
    <2>3. Flow'
        BY <2>0
    <2>4. (\A t \in Streams : Kept(t))'
        BY <2>0
    <2>5. Told'
        BY <2>0
    <2>6. QED
        BY <2>1, <2>2, <2>3, <2>4, <2>5
<1>9. CASE Exit
    BY <1>9 DEF Exit
<1>10. QED
    BY <1>1, <1>2, <1>3, <1>4, <1>5, <1>6, <1>7, <1>8, <1>9 DEF Child

LEMMA NextPInv == PInv /\ [Next]_vars => PInv'
<1> SUFFICES ASSUME PInv, [Next]_vars PROVE PInv'
    OBVIOUS
<1>1. CASE UNCHANGED vars
    BY <1>1 DEF PInv, TypeOK, Lives, Flow, Kept, Told, Alive, Outcome, Ended, InPipe, Readable,
       vars, parent, child, sinks, db
<1>2. QED
    BY <1>1, ParentPInv, ChildPInv DEF Next, Trouble

LEMMA PInvAlways == Spec => []PInv
<1>1. QED
    BY InitPInv, NextPInv, PTL DEF Spec
--------------------------------------------------------------------------------
(* How a script goes on with its statement p. *)
LEMMA NextStatement ==
    ASSUME TypeOK, NEW p \in 1..NumStmts
    PROVE  /\ Made(p) = IF script[p] = "write" THEN Made(p - 1) \cup {p} ELSE Made(p - 1)
           /\ HasCommitted(p) <=> HasCommitted(p - 1) \/ script[p] = "commit"
           /\ script[p] # "blank" /\ Wrapped(script) => ~HasCommitted(p - 1)
           /\ script[p] # "blank" /\ Single(script) => p = 1
           /\ Wrapped(script) => (script[p] = "begin" <=> p = 1)
           /\ Single(script) => script[p] \in {"write", "select", "blank"}
           /\ script[p] \in Statements
<1>1. 1..p = (1..(p - 1)) \cup {p} /\ NumStmts \in Nat
    BY ExecAssumption
<1>2. script \in [1..NumStmts -> Statements]
    BY ExecAssumption DEF TypeOK
<1>3. /\ Made(p) = IF script[p] = "write" THEN Made(p - 1) \cup {p} ELSE Made(p - 1)
      /\ HasCommitted(p) <=> HasCommitted(p - 1) \/ script[p] = "commit"
    BY <1>1 DEF Made, HasCommitted
<1>4. ASSUME script[p] # "blank", Wrapped(script) PROVE ~HasCommitted(p - 1)
    <2>1. PICK c \in 1..NumStmts : \A k \in 1..NumStmts :
            (script[k] = "commit" <=> k = c) /\ (script[k] # "blank" => k <= c)
        BY <1>4 DEF Wrapped
    <2>2. p <= c
        BY <1>4, <2>1
    <2>3. \A k \in 1..(p - 1) : script[k] # "commit"
        BY <2>1, <2>2, <1>1
    <2>4. QED
        BY <2>3 DEF HasCommitted
<1>5. script[p] # "blank" /\ Single(script) => p = 1
    BY <1>1 DEF Single
<1>6. Wrapped(script) => (script[p] = "begin" <=> p = 1)
    BY <1>1 DEF Wrapped
<1>7. Single(script) => script[p] \in {"write", "select", "blank"}
    BY <1>1 DEF Single
<1>8. QED
    BY <1>2, <1>3, <1>4, <1>5, <1>6, <1>7

(* What is committed before a statement that can still fail. *)
LEMMA FailsClean ==
    ASSUME TypeOK, NEW p \in 1..NumStmts, script[p] # "blank", After(p - 1)
    PROVE  committed = {}
<1>1. Wrapped(script) \/ Single(script)
    BY ExecAssumption DEF TypeOK
<1>2. CASE Wrapped(script)
    BY <1>2, NextStatement DEF After
<1>3. CASE Single(script)
    BY <1>3, NextStatement DEF After
<1>4. QED
    BY <1>1, <1>2, <1>3

(* And at the end of the script. *)
LEMMA EndsWhole ==
    ASSUME TypeOK, After(NumStmts)
    PROVE  committed = Made(NumStmts)
<1>1. Wrapped(script) \/ Single(script)
    BY ExecAssumption DEF TypeOK
<1>2. CASE Wrapped(script)
    BY <1>2 DEF After, Wrapped, HasCommitted
<1>3. CASE Single(script)
    BY <1>3 DEF After
<1>4. QED
    BY <1>1, <1>2, <1>3

LEMMA InitScriptInv == Init => ScriptInv
<1> SUFFICES ASSUME Init PROVE ScriptInv
    OBVIOUS
<1>1. ~HasCommitted(0) /\ Made(0) = {}
    BY DEF HasCommitted, Made
<1>2. QED
    BY <1>1 DEF Init, ScriptInv, After

LEMMA NextScriptInv == PInv /\ ScriptInv /\ [Next]_vars => ScriptInv'
<1> SUFFICES ASSUME PInv, ScriptInv, [Next]_vars PROVE ScriptInv'
    OBVIOUS
<1>0. TypeOK /\ NumStmts \in Nat \ {0}
    BY ExecAssumption DEF PInv
<1>a. ASSUME UNCHANGED <<script, idx, status, db>>,
             \/ cpc' = cpc
             \/ cpc' = "reaped" /\ cpc = "dead"
             \/ cpc' = "dead" /\ cpc = "exit"
             \/ cpc' = "exec" /\ cpc = "none"
             \/ cpc' = "open" /\ cpc = "exec"
             \/ cpc' = "prepare" /\ cpc = "open"
      PROVE  ScriptInv'
    BY <1>a DEF ScriptInv, After, Made, HasCommitted, db
<1>1. CASE Parent \/ SetUpFail \/ PollFail
    <2>1. UNCHANGED <<script, idx, status, db>>
        BY <1>1 DEF Parent, SetUpFail, PollFail, Pipe, Fork, CloseEnds, Poll, SinkRead, Drained,
           Wait, child, db
    <2>2. \/ cpc' = cpc
          \/ cpc' = "reaped" /\ cpc = "dead"
          \/ cpc' = "exec" /\ cpc = "none"
        BY <1>1 DEF Parent, SetUpFail, PollFail, Pipe, Fork, CloseEnds, Poll, SinkRead, Drained,
           Wait, child, PInv, Lives
    <2>3. QED
        BY <1>a, <2>1, <2>2
<1>2. CASE Begin("exec", "open") \/ Begin("open", "prepare") \/ Row \/ Exit
           \/ \E s \in Streams : Write(s)
    BY <1>a, <1>2 DEF Begin, Row, Exit, Write, Goto
<1>3. CASE Prepare
    <2>1. /\ idx' = idx + 1 /\ idx' \in 1..NumStmts /\ After(idx' - 1)
          /\ UNCHANGED <<script, begun, changed, committed>>
          /\ cpc' = IF script[idx'] = "blank" THEN "prepare" ELSE "step"
        BY <1>0, <1>3 DEF Prepare, More, Goto, TypeOK, ScriptInv, db
    <2>2. CASE script[idx'] = "blank"
        <3>1. Made(idx') = Made(idx' - 1) /\ (HasCommitted(idx') <=> HasCommitted(idx' - 1))
            BY <1>0, <2>1, <2>2, NextStatement
        <3>2. Single(script) \/ Wrapped(script) => idx' # 1
            BY <2>2 DEF Single, Wrapped
        <3>3. idx' # 1
            BY <1>0, <3>2, ExecAssumption DEF TypeOK
        <3>4. After(idx')
            BY <2>1, <3>1, <3>3 DEF After
        <3>5. QED
            BY <2>1, <2>2, <3>4 DEF ScriptInv, After, Made, HasCommitted
    <2>3. CASE script[idx'] # "blank"
        BY <2>1, <2>3 DEF ScriptInv, After, Made, HasCommitted
    <2>4. QED
        BY <2>2, <2>3
<1>4. CASE Done
    <2>1. /\ idx \in 1..NumStmts /\ After(idx - 1) /\ script[idx] # "blank"
          /\ UNCHANGED <<script, idx>> /\ cpc' = "prepare"
        BY <1>0, <1>4 DEF Done, Goto, TypeOK, ScriptInv
    <2>2. /\ script[idx] = "begin" => begun' = 1 /\ UNCHANGED <<changed, committed>>
          /\ script[idx] = "write" /\ begun = 1 =>
               changed' = changed \cup {idx} /\ UNCHANGED <<begun, committed>>
          /\ script[idx] = "write" /\ begun = 0 =>
               committed' = committed \cup {idx} /\ UNCHANGED <<begun, changed>>
          /\ script[idx] = "commit" =>
               begun' = 0 /\ changed' = {} /\ committed' = committed \cup changed
          /\ script[idx] = "select" => UNCHANGED <<begun, changed, committed>>
        BY <1>4 DEF Done
    <2>3. /\ Made(idx) = IF script[idx] = "write" THEN Made(idx - 1) \cup {idx} ELSE Made(idx - 1)
          /\ HasCommitted(idx) <=> HasCommitted(idx - 1) \/ script[idx] = "commit"
          /\ Wrapped(script) => ~HasCommitted(idx - 1)
          /\ Single(script) => idx = 1
          /\ Wrapped(script) => (script[idx] = "begin" <=> idx = 1)
          /\ Single(script) => script[idx] \in {"write", "select"}
          /\ script[idx] \in {"begin", "write", "commit", "select"}
        BY <1>0, <2>1, NextStatement DEF Statements
    <2>4. Made(0) = {}
        BY DEF Made
    <2>5. Wrapped(script) \/ Single(script)
        BY <1>0, ExecAssumption DEF TypeOK
    <2>6. ~(Wrapped(script) /\ Single(script))
        BY DEF Wrapped, Single
    <2>7. CASE Wrapped(script)
        <3>1. CASE idx = 1
            <4>1. begun' = 1 /\ changed' = {} /\ committed' = {} /\ Made(idx) = {}
                  /\ ~HasCommitted(idx)
                BY <2>1, <2>2, <2>3, <2>4, <2>7, <3>1 DEF After
            <4>2. QED
                BY <2>1, <2>6, <2>7, <4>1 DEF ScriptInv, After, Made, HasCommitted
        <3>2. CASE idx # 1
            <4>1. begun = 1 /\ changed = Made(idx - 1) /\ committed = {} /\ script[idx] # "begin"
                BY <2>1, <2>3, <2>7, <3>2 DEF After
            <4>2. IF script[idx] = "commit"
                  THEN begun' = 0 /\ changed' = {} /\ committed' = Made(idx) /\ HasCommitted(idx)
                  ELSE begun' = 1 /\ changed' = Made(idx) /\ committed' = {} /\ ~HasCommitted(idx)
                BY <2>2, <2>3, <2>7, <4>1
            <4>3. QED
                BY <2>1, <2>6, <2>7, <4>2 DEF ScriptInv, After, Made, HasCommitted
        <3>3. QED
            BY <3>1, <3>2
    <2>8. CASE Single(script)
        <3>1. begun = 0 /\ changed = {} /\ committed = {}
            BY <2>1, <2>3, <2>8 DEF After
        <3>2. begun' = 0 /\ changed' = {} /\ committed' = Made(idx)
            BY <2>2, <2>3, <2>4, <2>8, <3>1
        <3>3. QED
            BY <2>1, <2>6, <2>8, <3>2 DEF ScriptInv, After, Made, HasCommitted
    <2>9. QED
        BY <2>5, <2>7, <2>8
<1>5. CASE Finish
    <2>1. idx = NumStmts /\ After(NumStmts)
        BY <1>0, <1>5 DEF Finish, More, Leave, Goto, TypeOK, ScriptInv
    <2>2. committed = Made(NumStmts)
        BY <1>0, <2>1, EndsWhole
    <2>3. cpc' = "exit" /\ status' = 0 /\ UNCHANGED <<script, committed>>
        BY <1>5 DEF Finish, Leave, Goto
    <2>4. QED
        BY <2>2, <2>3 DEF ScriptInv, Made
<1>6. CASE OpenFail \/ PrepareFail \/ StepFail
    <2>1. committed = {}
        <3>1. CASE OpenFail
            BY <3>1 DEF OpenFail, Fails, Leave, Goto, ScriptInv, After
        <3>2. CASE PrepareFail
            <4>1. /\ idx + 1 \in 1..NumStmts /\ (idx + 1) - 1 = idx
                  /\ script[idx + 1] # "blank" /\ After(idx)
                BY <1>0, <3>2 DEF PrepareFail, More, Fails, Leave, Goto, TypeOK, ScriptInv
            <4>2. QED
                BY <1>0, <4>1, FailsClean
        <3>3. CASE StepFail
            <4>1. idx \in 1..NumStmts /\ script[idx] # "blank" /\ After(idx - 1)
                BY <1>0, <3>3 DEF StepFail, Fails, Leave, Goto, TypeOK, ScriptInv
            <4>2. QED
                BY <1>0, <4>1, FailsClean
        <3>4. QED
            BY <1>6, <3>1, <3>2, <3>3
    <2>2. cpc' = "exit" /\ status' \in {1, 2} /\ committed' = committed
        BY <1>6 DEF OpenFail, PrepareFail, StepFail, Fails, Leave, Goto
    <2>3. QED
        BY <2>1, <2>2 DEF ScriptInv
<1>7. CASE Sigpipe \/ Kill
    BY <1>7 DEF Sigpipe, Kill, Dies, ScriptInv, Killed
<1>8. CASE ExecFail
    BY <1>8 DEF ExecFail, Dies, ScriptInv, After
<1>9. CASE UNCHANGED vars
    BY <1>a, <1>9 DEF vars, child
<1>10. QED
    BY <1>1, <1>2, <1>3, <1>4, <1>5, <1>6, <1>7, <1>8, <1>9 DEF Next, Child, Trouble
--------------------------------------------------------------------------------
(* "any failure rolls back" (migrations.h): for every script of the shape  *)
(* the tool asks for, of any length, and wherever it fails, the exit       *)
(* status db exec returns tells whether all of its changes are there or    *)
(* none.                                                                   *)
THEOREM AlwaysAllOrNothing == Spec => []AllOrNothing
<1>1. PInv /\ ScriptInv => AllOrNothing
    <2> SUFFICES ASSUME PInv, ScriptInv PROVE AllOrNothing
        OBVIOUS
    <2>1. result \in {0, 1, 2, -2} => cpc = "reaped" /\ result = Outcome
        BY DEF PInv, TypeOK, Told, None
    <2>2. status \in Codes
        BY DEF PInv, TypeOK
    <2>3. (result = 0 => status = 0) /\ (result \in {1, 2, -2} => status \in {1, 2, 127})
        BY <2>1, <2>2 DEF Outcome, Codes, Killed
    <2>4. QED
        BY <2>1, <2>3 DEF ScriptInv, AllOrNothing, Made
<1>2. QED
    BY <1>1, InitScriptInv, NextScriptInv, PInvAlways, PTL DEF Spec

(* What the parent keeps is the beginning of what was printed, and all     *)
(* that was printed has been read when a status is returned, for any       *)
(* buffers and pipes.                                                      *)
THEOREM AlwaysExact == Spec => []OutputExact
<1>1. PInv => OutputExact
    <2> SUFFICES ASSUME PInv PROVE OutputExact
        OBVIOUS
    <2>1. ASSUME result >= 0, broke = 0, NEW s \in Streams PROVE read[s] = wrote[s] /\ due[s] = 0
        <3>1. ppc = "done" /\ cpc = "reaped" /\ result = Outcome /\ result # -1
            BY <2>1 DEF PInv, TypeOK, Told, None
        <3>2. status \in {0, 1, 2}
            BY <2>1, <3>1 DEF PInv, TypeOK, Codes, Outcome, Killed
        <3>3. QED
            BY <2>1, <3>1, <3>2 DEF PInv, Flow, Told
    <2>2. QED
        BY <2>1 DEF PInv, Kept, OutputExact
<1>2. QED
    BY <1>1, PInvAlways, PTL

(* Every way out of migrate_exec closes what it opened and reaps what it   *)
(* forked.                                                                 *)
THEOREM AlwaysNothingLeft == Spec => []NothingLeft
<1>1. PInv => NothingLeft
    BY DEF PInv, Lives, NothingLeft
<1>2. QED
    BY <1>1, PInvAlways, PTL
================================================================================
