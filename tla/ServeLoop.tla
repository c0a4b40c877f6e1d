-------------------------------- MODULE ServeLoop ------------------------------
(***************************************************************************)
(* run_serve (src/main.c): the configuration, the two connections and the  *)
(* server, then the loop, which sleeps to an absolute deadline on the      *)
(* monotonic clock, runs one collect cycle for each, and leaves when the   *)
(* handler of SIGTERM or SIGINT has set shutdown_flag.  A signal comes     *)
(* between any two steps, also between the test of the flag and the sleep, *)
(* and may be handled by a worker thread of the HTTP server, in which case *)
(* it does not cut the sleep short.                                        *)
(*                                                                         *)
(* The configuration is that of Config, and the deliveries of a cycle are  *)
(* those of Delivery, on the loop's own clock.  What a cycle stores is in  *)
(* Consolidation, when an alert fires in Alerts, the stop of the server in *)
(* HttpServer.                                                             *)
(***************************************************************************)
EXTENDS Delivery, Config

CONSTANTS
    Docs,        \* the configuration files to start with
    MaxInterval, \* bound: the loop is followed for intervals up to this
    MaxStore,    \* bound: seconds to sample and store
    MaxCommand,  \* bound: seconds of an alert's command
    MaxNow,      \* bound on the monotonic clock
    MaxSignal    \* bound: no signal comes later than this

ASSUME ServeAssumption ==
    /\ \A d \in Docs : IsDocument(d)
    /\ MaxInterval \in Nat /\ MaxStore \in Nat /\ MaxCommand \in Nat
    /\ MaxNow \in Nat /\ MaxSignal \in Nat

VARIABLES
    doc,            \* the configuration file, until it is loaded
    cfg,
    opened,         \* the connections, and the server
    next,           \* the deadline
    shutdown_flag,
    pc,             \* where run_serve is
    r,              \* clock_nanosleep's result: 0, or 1 for EINTR
    alert,          \* the index of alerts_evaluate's loop
    cycles,         \* ghost: cycles started
    term            \* ghost: whether a SIGTERM has come

loop == <<next, shutdown_flag, r, alert, cycles, term>>
vars == <<clock, dvars, doc, cfg, opened, pc, loop>>

NoDoc == [from |-> "nowhere"]

Init ==
    /\ PostInit
    /\ doc \in Docs
    /\ cfg = Defaults
    /\ opened = {}
    /\ next = 0
    /\ shutdown_flag = 0
    /\ pc = "load"
    /\ r = 0
    /\ alert = 1
    /\ cycles = 0
    /\ term = 0

Goto(from, to) == pc = from /\ pc' = to

(* config_open: where it fails, there is nothing to close. *)
Load ==
    /\ pc = "load"
    /\ \E c \in {config_open(doc)} :
         \/ c.rc = 0 /\ pc' = "db" /\ cfg' = c /\ UNCHANGED doc
         \/ c.rc # 0 /\ pc' = "exit" /\ doc' = NoDoc /\ UNCHANGED cfg
    /\ UNCHANGED <<clock, dvars, opened, loop>>

Actions(a) == {k \in {"webhook", "command"} : a[k] = "fits"}

(* db_open, with the interval and the retention.  From here on only the    *)
(* interval and the alerts' actions count of the configuration.            *)
OpenDb ==
    /\ Goto("db", "db_ro")
    /\ opened' = {"db"}
    /\ doc' = NoDoc
    /\ cfg' = [interval |-> cfg.interval,
               alerts |-> [k \in DOMAIN cfg.alerts |-> Actions(cfg.alerts[k])]]
    /\ UNCHANGED <<clock, dvars, loop>>

OpenReadonly ==
    /\ Goto("db_ro", "http")
    /\ opened' = opened \cup {"db_ro"}
    /\ UNCHANGED <<clock, dvars, doc, cfg, loop>>

(* http_start, and the first deadline. *)
Started ==
    /\ cfg.interval <= MaxInterval
    /\ Goto("http", "test")
    /\ opened' = opened \cup {"http"}
    /\ next' = now + cfg.interval
    /\ UNCHANGED <<clock, dvars, doc, cfg, shutdown_flag, r, alert, cycles, term>>

(* One of them fails, and those before it are closed. *)
StartFails ==
    /\ \E step \in {"db", "db_ro", "http"} : Goto(step, "exit")
    /\ opened' = {} /\ doc' = NoDoc /\ cfg' = Defaults
    /\ UNCHANGED <<clock, dvars, loop>>

(* http_stop, and the connections closed after it. *)
Stop ==
    /\ Goto("stopped", "exit")
    /\ opened' = {}
    /\ UNCHANGED <<clock, dvars, doc, cfg, loop>>
--------------------------------------------------------------------------------
env == <<doc, cfg, opened>>

(* Time passes; a thread that can run does not wait for the next second.   *)
Tick ==
    /\ now < MaxNow
    /\ \/ PostTick
       \/ /\ \/ pc = "sleep" /\ now < next
             \/ pc \in {"store", "command"} /\ now < until
          /\ now' = now + 1
          /\ UNCHANGED <<until, dvars>>
    /\ UNCHANGED <<env, pc, loop>>

(* while (!shutdown_flag) *)
Test ==
    /\ Goto("test", IF shutdown_flag = 1 THEN "stopped" ELSE "sleep")
    /\ UNCHANGED <<clock, dvars, env, loop>>

(* clock_nanosleep to the deadline, at once if it has passed; or EINTR     *)
(* from a signal of no concern to the loop.                                *)
Wake ==
    /\ now >= next
    /\ Goto("sleep", "woken")
    /\ r' = 0
    /\ UNCHANGED <<clock, dvars, env, next, shutdown_flag, alert, cycles, term>>

Interrupt ==
    /\ Goto("sleep", "woken")
    /\ r' = 1
    /\ UNCHANGED <<clock, dvars, env, next, shutdown_flag, alert, cycles, term>>

(* if (shutdown_flag) break; if (r != 0) continue; *)
Woken ==
    /\ Goto("woken", IF shutdown_flag = 1 THEN "stopped"
                     ELSE IF r # 0 THEN "test" ELSE "due")
    /\ UNCHANGED <<clock, dvars, env, loop>>

(* Mutant: the deadline is set from the clock, and drifts with it. *)
Cycle_Drifts ==
    /\ Goto("due", "store")
    /\ next' = now + cfg.interval
    /\ Blocks(MaxStore)
    /\ cycles' = cycles + 1
    /\ UNCHANGED <<dvars, env, shutdown_flag, r, alert, term>>

(* next.tv_sec += interval, and the cycle. *)
Cycle ==
    /\ Goto("due", "store")
    /\ next' = next + cfg.interval
    /\ Blocks(MaxStore)
    /\ cycles' = cycles + 1
    /\ UNCHANGED <<dvars, env, shutdown_flag, r, alert, term>>

(* The sample is stored, or could not be, and the loop continues. *)
Stored ==
    /\ \/ Goto("store", "alerts")
       \/ Goto("store", "test")
    /\ alert' = 1
    /\ until' = 0
    /\ UNCHANGED <<now, dvars, env, next, shutdown_flag, r, cycles, term>>

More == alert <= Len(cfg.alerts)

NextAlert ==
    /\ alert' = alert + 1
    /\ until' = 0
    /\ UNCHANGED <<now, dvars, env, next, shutdown_flag, r, cycles, term>>

(* The alert does not fire. *)
Skip == More /\ Goto("alerts", "alerts") /\ NextAlert

(* It fires: post_webhook, where it has one. *)
Fire ==
    /\ More
    /\ Goto("alerts", "webhook")
    /\ IF "webhook" \in cfg.alerts[alert] THEN Post \/ Refuse
       ELSE UNCHANGED <<clock, dvars>>
    /\ UNCHANGED <<env, loop>>

Deliver ==
    /\ pc = "webhook" /\ PostStep
    /\ UNCHANGED <<env, pc, loop>>

(* run_command, where it has one: system(). *)
Command ==
    /\ Goto("webhook", "command")
    /\ dpc = "off" /\ "command" \in cfg.alerts[alert]
    /\ Blocks(MaxCommand)
    /\ UNCHANGED <<dvars, env, loop>>

Settle ==
    /\ \/ Goto("webhook", "alerts") /\ dpc = "off" /\ "command" \notin cfg.alerts[alert]
       \/ Goto("command", "alerts")
    /\ NextAlert

CycleDone ==
    /\ ~More /\ Goto("alerts", "test")
    /\ UNCHANGED <<clock, dvars, env, loop>>

(* handle_signal, in the loop's own thread or in another.  A sleep it cuts *)
(* short returns EINTR.                                                    *)
Handled ==
    /\ shutdown_flag' = 1
    /\ IF pc = "sleep"
       THEN \/ UNCHANGED <<pc, r>>
            \/ pc' = "woken" /\ r' = 1
       ELSE UNCHANGED <<pc, r>>

(* Mutant: SIGTERM is ignored during a command as SIGINT is. *)
Sigterm_Ignored ==
    /\ now <= MaxSignal /\ term = 0 /\ pc \notin {"stopped", "exit"}
    /\ term' = 1
    /\ IF pc = "command" THEN UNCHANGED <<pc, r, shutdown_flag>> ELSE Handled
    /\ UNCHANGED <<clock, dvars, env, next, alert, cycles>>

Sigterm ==
    /\ now <= MaxSignal /\ term = 0 /\ pc \notin {"stopped", "exit"}
    /\ term' = 1
    /\ Handled
    /\ UNCHANGED <<clock, dvars, env, next, alert, cycles>>

(* SIGINT is lost while system() waits for a command. *)
Sigint ==
    /\ now <= MaxSignal /\ pc \notin {"stopped", "exit"}
    /\ IF pc = "command" THEN UNCHANGED <<pc, r, shutdown_flag>> ELSE Handled
    /\ UNCHANGED <<clock, dvars, env, next, alert, cycles, term>>

Start == Load \/ OpenDb \/ OpenReadonly \/ Started \/ StartFails

Loop ==
    \/ Test \/ Wake \/ Woken \/ Cycle \/ Stored \/ Skip \/ Fire \/ Deliver
    \/ Command \/ Settle \/ CycleDone \/ Stop

Next == Tick \/ Start \/ Loop \/ Interrupt \/ Sigterm \/ Sigint

Spec == Init /\ [][Next]_vars

(* Time passes, whatever is tried in no time; the thread is scheduled; and *)
(* what is asked of the kernel, of SQLite or of an alert's command is over *)
(* some time: the command has no limit in the code.  Nothing is assumed of *)
(* the resolver, the network and the endpoint but the limits of Delivery,  *)
(* and no signal needs to come.                                            *)
FairSpec == Spec /\ SF_vars(Tick) /\ WF_vars(Start) /\ WF_vars(Loop)
--------------------------------------------------------------------------------
(* Properties *)

(* "drift-free collect loop" (run_serve): however long the cycles took and *)
(* whatever interrupted the sleep, there is never more than one cycle for  *)
(* a deadline that has passed, and when the loop is asleep before its next *)
(* deadline, there has been one for each.                                  *)
DriftFree ==
    pc \notin {"load", "db", "db_ro", "http"} /\ opened # {} =>
      /\ cycles * cfg.interval <= now
      /\ pc = "sleep" /\ now < next => now - cycles * cfg.interval < cfg.interval

(* The daemon stops after a SIGTERM, wherever it finds the loop, also in   *)
(* the delivery to an endpoint that answers a byte at a time.              *)
StopsAfterTerm == term = 1 ~> pc = "exit"

(* Everything the other parts assume of a configuration holds of any that  *)
(* config_open accepts, and db_prune keeps the rows of the widest tab.     *)
ConfigSound == pc = "db" => Sound(cfg) /\ Kept(cfg)

(* "A value past its limit is never cut or dropped" (README), as far as    *)
(* the code keeps it: a path, a name, a range or an action that does not   *)
(* fit its field, and a range or an alert too many, fail the load wherever *)
(* in the file they are and whatever follows.  What was accepted is in the *)
(* configuration whole and in order, the entries of `ranges` that can be   *)
(* no tab aside.                                                           *)
ConfigWhole == pc = "db" /\ doc.from # "nowhere" => Whole(doc, cfg)

(* "A value past its limit is never cut or dropped: the config fails to    *)
(* load" (README): a file that loaded has no range past its unit's limit.  *)
(* The code skips it instead.                                              *)
NoneDropped ==
    pc = "db" /\ doc.from # "nowhere" /\ doc.ranges.t = "list" =>
       \A k \in DOMAIN doc.ranges.l :
          valid_range(doc.ranges.l[k]) => range_in_bounds(doc.ranges.l[k])
================================================================================
