------------------------------- MODULE MigrateExec -----------------------------
(***************************************************************************)
(* migrate_exec (src/migrate/exec.c): minimoni-migrate runs a script as a  *)
(* child process, `minimoni db exec`, and captures what it prints; with    *)
(* the child itself, db_cmd_exec (src/db_cmd.c).  Between the two are two  *)
(* kernel pipes of bounded size, and a child that cannot write waits.      *)
(*                                                                         *)
(* What is printed is counted, not spelled: a stream is the number of      *)
(* units the child has printed, written and the parent has read, and a     *)
(* sink the number it kept, always from the first on.  Of the database     *)
(* there is what the script's statements have changed.                     *)
(***************************************************************************)
EXTENDS Integers

CONSTANTS
    Streams,    \* the child's stdout and stderr
    Out, Err,
    Cap,        \* the size of the caller's buffer for each stream
    PipeSize,   \* what a pipe holds
    Scratch,    \* sizeof(scratch): a read past the buffer's end takes so much
    StdioSize,  \* stdout is flushed when so much is buffered
    NumStmts,   \* the length of a script
    Scripts,    \* the scripts minimoni-migrate has run
    RowSize,    \* what a row, and an error message, print
    MaxRows     \* bound: rows of a script

(* A script is one statement after the other: a "select" returns rows, and *)
(* "blank" is what a tail of spaces and comments is.                       *)
Statements == {"begin", "write", "commit", "select", "blank"}

(* "It MUST start with BEGIN and end with COMMIT" (migrations.h), as the   *)
(* consolidation does too.                                                 *)
Wrapped(sc) ==
    /\ sc[1] = "begin"
    /\ \A k \in 1..NumStmts : sc[k] = "begin" => k = 1
    /\ \E c \in 1..NumStmts : \A k \in 1..NumStmts :
         (sc[k] = "commit" <=> k = c) /\ (sc[k] # "blank" => k <= c)

(* The queries of the preflight, VACUUM and VACUUM INTO. *)
Single(sc) ==
    /\ sc[1] \in {"write", "select"}
    /\ \A k \in 2..NumStmts : sc[k] = "blank"

ASSUME ExecAssumption ==
    /\ Streams = {Out, Err} /\ Out # Err
    /\ Cap \in [Streams -> Nat]
    /\ PipeSize \in Nat \ {0} /\ Scratch \in Nat \ {0} /\ StdioSize \in Nat \ {0}
    /\ NumStmts \in Nat \ {0}
    /\ Scripts \subseteq [1..NumStmts -> Statements]
    /\ \A sc \in Scripts : Wrapped(sc) \/ Single(sc)
    /\ RowSize \in Nat \ {0} /\ MaxRows \in Nat

VARIABLES
    ppc,        \* where the parent is in migrate_exec
    fds,        \* its open descriptors, [stream, end]
    polled,     \* pfd: the streams whose descriptor is not -1
    ready,      \* those with revents not yet served
    read,       \* for each stream, the units read
    len,        \* and those kept: sink_t's len
    result,     \* what it returns
    broke,      \* ghost: 1 when poll failed
    cpc,        \* where the child is in db_cmd_exec
    ends,       \* the streams the child holds the write end of
    script,     \* its argument
    idx,        \* how far it has read the script
    rows,       \* rows printed
    due,        \* for each stream, units printed and not yet written
    wrote,      \* and those written
    status,     \* its exit status, or Killed
    begun,      \* 1 inside the transaction
    changed,    \* statements that changed something, not yet committed
    committed   \* and those committed

sinks == <<polled, ready, read, len>>
db == <<begun, changed, committed>>
parent == <<ppc, fds, sinks, result, broke>>
child == <<cpc, ends, script, idx, rows, due, wrote, status, db>>
vars == <<parent, child>>

Killed == -1
None == -9   \* not returned yet

Least(a, b) == IF a < b THEN a ELSE b

Init ==
    /\ ppc = "start"
    /\ fds = {}
    /\ polled = Streams
    /\ ready = {}
    /\ read = [s \in Streams |-> 0]
    /\ len = [s \in Streams |-> 0]
    /\ result = None
    /\ broke = 0
    /\ cpc = "none"
    /\ ends = {}
    /\ script \in Scripts
    /\ idx = 0
    /\ rows = 0
    /\ due = [s \in Streams |-> 0]
    /\ wrote = [s \in Streams |-> 0]
    /\ status = 0
    /\ begun = 0
    /\ changed = {}
    /\ committed = {}
--------------------------------------------------------------------------------
(* The parent *)

End(s, e) == [stream |-> s, end |-> e]

Return(r) == ppc' = "done" /\ result' = r

Pipe(s, from, to) ==
    /\ ppc = from /\ ppc' = to
    /\ fds' = fds \cup {End(s, "r"), End(s, "w")}
    /\ UNCHANGED <<sinks, result, broke, child>>

(* Mutant: when fork fails, only the second pipe is closed again. *)
SetUpFail_Leaks ==
    /\ ppc \in {"start", "piped", "fork"}
    /\ fds' = {End(Out, e) : e \in IF ppc = "fork" THEN {"r", "w"} ELSE {}}
    /\ Return(-1)
    /\ UNCHANGED <<sinks, broke, child>>

(* A pipe() or fork() fails, and what there is of the pipes is closed. *)
SetUpFail ==
    /\ ppc \in {"start", "piped", "fork"}
    /\ fds' = {}
    /\ Return(-1)
    /\ UNCHANGED <<sinks, broke, child>>

(* The child has the write ends as its stdout and stderr, and closes what  *)
(* else it was born with before anything else.                             *)
Fork ==
    /\ ppc = "fork" /\ ppc' = "forked"
    /\ cpc' = "exec"
    /\ ends' = Streams
    /\ UNCHANGED <<fds, sinks, result, broke, script, idx, rows, due, wrote, status, db>>

CloseEnds(from, e, to) ==
    /\ ppc = from /\ ppc' = to
    /\ fds' = fds \ {End(s, e) : s \in Streams}
    /\ UNCHANGED <<sinks, result, broke, child>>

InPipe(s) == wrote[s] - read[s]

(* No process has the write end any more. *)
Ended(s) == s \notin ends /\ End(s, "w") \notin fds

Readable(s) == InPipe(s) > 0 \/ Ended(s)

(* Mutant: stdout is read to its end first. *)
Poll_OutFirst ==
    /\ ppc = "drain" /\ ready = {}
    /\ LET first == IF Out \in polled THEN {Out} ELSE polled IN
       /\ \E s \in first : Readable(s)
       /\ ready' = {s \in first : Readable(s)}
    /\ UNCHANGED <<ppc, fds, polled, read, len, result, broke, child>>

(* poll() waits until a stream has something, or has ended.  Interrupted,  *)
(* it is called again.                                                     *)
Poll ==
    /\ ppc = "drain" /\ ready = {}
    /\ \E s \in polled : Readable(s)
    /\ ready' = {s \in polled : Readable(s)}
    /\ UNCHANGED <<ppc, fds, polled, read, len, result, broke, child>>

(* poll() fails otherwise: the loop is left, the streams as they are. *)
PollFail ==
    /\ ppc = "drain" /\ ready = {} /\ polled # {}
    /\ ppc' = "close"
    /\ broke' = 1
    /\ UNCHANGED <<fds, sinks, result, child>>

Keep(s) == len[s] + 1 < Cap[s]

(* Mutant: the room for the final NUL is not set aside. *)
Room_Full(s) == IF Keep(s) THEN Cap[s] - len[s] ELSE Scratch

(* What one read() asks for. *)
Room(s) == IF Keep(s) THEN Cap[s] - 1 - len[s] ELSE Scratch

(* sink_read, for a stream poll() reported. *)
SinkRead(s) ==
    LET n == Least(InPipe(s), Room(s)) IN
    /\ ppc = "drain" /\ s \in ready
    /\ ready' = ready \ {s}
    /\ read' = [read EXCEPT ![s] = @ + n]
    /\ len' = [len EXCEPT ![s] = IF Keep(s) THEN @ + n ELSE @]
    /\ polled' = IF n = 0 THEN polled \ {s} ELSE polled
    /\ UNCHANGED <<ppc, fds, result, broke, child>>

Drained ==
    /\ ppc = "drain" /\ ready = {} /\ polled = {}
    /\ ppc' = "close"
    /\ UNCHANGED <<fds, sinks, result, broke, child>>

Outcome == IF status = Killed THEN -3 ELSE IF status = 127 THEN -2 ELSE status

(* waitpid().  Where SIGCHLD is ignored the kernel reaps the child itself, *)
(* and waitpid() returns an error once it is dead.                         *)
Wait ==
    /\ ppc = "wait" /\ cpc = "dead"
    /\ cpc' = "reaped"
    /\ \E r \in {Outcome, -1} : Return(r)
    /\ UNCHANGED <<fds, sinks, broke, ends, script, idx, rows, due, wrote, status, db>>
--------------------------------------------------------------------------------
(* The child.  stderr is written as it is printed; stdout is written when  *)
(* its buffer is full, and at the exit.  Until then the child goes no      *)
(* further.                                                                *)

Goto(from, to) == cpc = from /\ cpc' = to

Runs == due[Err] = 0 /\ due[Out] < StdioSize

Prints(s) == due' = [due EXCEPT ![s] = @ + RowSize]

(* sqlite3_close rolls back what is not committed. *)
Leave(from, st) ==
    /\ Goto(from, "exit")
    /\ status' = st
    /\ begun' = 0
    /\ changed' = {}
    /\ UNCHANGED <<ends, script, idx, rows, wrote, committed, parent>>

(* An error at the open, at a prepare, for the parameters, or at a step:   *)
(* a line on stderr, and no further statement is tried.                    *)
Fails(from, st) == Runs /\ Leave(from, st) /\ Prints(Err)

Dies(st) ==
    /\ cpc' = "dead"
    /\ ends' = {}
    /\ status' = st
    /\ begun' = 0
    /\ changed' = {}

ExecFail ==
    /\ cpc = "exec"
    /\ Dies(127)
    /\ UNCHANGED <<script, idx, rows, due, wrote, committed, parent>>

(* execvp, then sqlite3_open_v2. *)
Begin(from, to) ==
    /\ Goto(from, to)
    /\ UNCHANGED <<ends, script, idx, rows, due, wrote, status, db, parent>>

OpenFail == Fails("open", 2)

More == idx < NumStmts

PrepareFail == More /\ script[idx + 1] # "blank" /\ Fails("prepare", 1)

(* A statement to step, or none in a blank tail. *)
Prepare ==
    /\ Runs /\ More
    /\ idx' = idx + 1
    /\ Goto("prepare", IF script[idx + 1] = "blank" THEN "prepare" ELSE "step")
    /\ UNCHANGED <<ends, script, rows, due, wrote, status, db, parent>>

(* SQLITE_ROW *)
Row ==
    /\ Runs
    /\ cpc = "step" /\ script[idx] = "select" /\ rows < MaxRows
    /\ rows' = rows + 1
    /\ Prints(Out)
    /\ UNCHANGED <<cpc, ends, script, idx, wrote, status, db, parent>>

(* SQLITE_DONE: outside a transaction a change is committed at once. *)
Done ==
    /\ Runs
    /\ Goto("step", "prepare")
    /\ CASE script[idx] = "begin" -> begun' = 1 /\ UNCHANGED <<changed, committed>>
         [] script[idx] = "write" /\ begun = 1 ->
              changed' = changed \cup {idx} /\ UNCHANGED <<begun, committed>>
         [] script[idx] = "write" /\ begun = 0 ->
              committed' = committed \cup {idx} /\ UNCHANGED <<begun, changed>>
         [] script[idx] = "commit" ->
              begun' = 0 /\ changed' = {} /\ committed' = committed \cup changed
         [] OTHER -> UNCHANGED <<begun, changed, committed>>
    /\ UNCHANGED <<ends, script, idx, rows, due, wrote, status, parent>>

(* Mutant: the next statement is tried after an error. *)
StepFail_Continues ==
    /\ Runs
    /\ Goto("step", "prepare")
    /\ Prints(Err)
    /\ UNCHANGED <<ends, script, idx, rows, wrote, status, db, parent>>

StepFail == Fails("step", 1)

(* The script is over. *)
Finish ==
    /\ Runs /\ ~More
    /\ Leave("prepare", 0)
    /\ UNCHANGED due

Alive == cpc \in {"exec", "open", "prepare", "step", "exit"}

Writes(s) == s = Err \/ cpc = "exit" \/ due[s] >= StdioSize

Write(s) ==
    /\ Alive /\ due[s] > 0 /\ Writes(s)
    /\ End(s, "r") \in fds /\ InPipe(s) < PipeSize
    /\ due' = [due EXCEPT ![s] = @ - 1]
    /\ wrote' = [wrote EXCEPT ![s] = @ + 1]
    /\ UNCHANGED <<cpc, ends, script, idx, rows, status, db, parent>>

(* SIGPIPE, when nobody reads the stream any more. *)
Sigpipe ==
    /\ Alive /\ \E s \in Streams : due[s] > 0 /\ Writes(s) /\ End(s, "r") \notin fds
    /\ Dies(Killed)
    /\ UNCHANGED <<script, idx, rows, due, wrote, committed, parent>>

(* The child crashes, or is killed. *)
Kill ==
    /\ Alive
    /\ Dies(Killed)
    /\ UNCHANGED <<script, idx, rows, due, wrote, committed, parent>>

Exit ==
    /\ cpc = "exit"
    /\ \A s \in Streams : due[s] = 0
    /\ cpc' = "dead"
    /\ ends' = {}
    /\ UNCHANGED <<script, idx, rows, due, wrote, status, db, parent>>
--------------------------------------------------------------------------------
Parent ==
    \/ Pipe(Out, "start", "piped") \/ Pipe(Err, "piped", "fork") \/ Fork
    \/ CloseEnds("forked", "w", "drain") \/ Poll \/ \E s \in Streams : SinkRead(s)
    \/ Drained \/ CloseEnds("close", "r", "wait") \/ Wait

Child ==
    \/ Begin("exec", "open") \/ Begin("open", "prepare")
    \/ Prepare \/ Row \/ Done \/ Finish \/ Exit
    \/ Sigpipe \/ \E s \in Streams : Write(s)

Trouble ==
    \/ SetUpFail \/ PollFail
    \/ ExecFail \/ OpenFail \/ PrepareFail \/ StepFail \/ Kill

Next == Parent \/ Child \/ Trouble

Spec == Init /\ [][Next]_vars

(* Both processes are scheduled.  That anything goes wrong is not assumed, *)
(* nor that it does not.                                                   *)
FairSpec == Spec /\ WF_vars(Parent) /\ WF_vars(Child)
--------------------------------------------------------------------------------
(* Properties *)

(* The call returns, whatever the child prints to which stream and however *)
(* it ends: neither process waits for ever for the other ("reading one to  *)
(* the end first deadlocks", drain_both).                                  *)
Returns == <>(ppc = "done")

(* What the caller finds in a buffer is the beginning of what the child    *)
(* printed, as much as fits with its NUL; and when the child's status is   *)
(* returned, of all it printed, unless poll() failed.                      *)
OutputExact ==
    /\ \A s \in Streams : len[s] = Least(read[s], IF Cap[s] = 0 THEN 0 ELSE Cap[s] - 1)
    /\ result >= 0 /\ broke = 0 =>
         \A s \in Streams : read[s] = wrote[s] /\ due[s] = 0

(* "any failure rolls back" (migrations.h): whatever exit status the       *)
(* script's child returns, its changes were made all or not at all, and    *)
(* they were exactly when it is 0.                                         *)
AllOrNothing ==
    /\ result = 0 => committed = {k \in 1..NumStmts : script[k] = "write"}
    /\ result \in {1, 2, -2} => committed = {}

(* Nothing of the call outlives it: no descriptor, and no child, running   *)
(* or a zombie.                                                            *)
NothingLeft == ppc = "done" => fds = {} /\ cpc \in {"none", "reaped"}
================================================================================
