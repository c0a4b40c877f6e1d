------------------------------ MODULE SampleStore ------------------------------
(***************************************************************************)
(* What the metrics table promises about the samples it was given, with no *)
(* word about rows, tiers or transactions: a stored sample stays available *)
(* until it expires, and it expires only when its age has passed the       *)
(* retention, give or take the resolution it is then kept at.              *)
(***************************************************************************)
EXTENDS Integers

CONSTANTS Retention,  \* seconds a sample is kept
          Blur        \* the coarsest resolution, in seconds

VARIABLES clock,  \* the wall clock
          kept,   \* samples a reader can still find
          gone    \* samples that expired

vars == <<clock, kept, gone>>

Init ==
    /\ clock \in Nat
    /\ kept \in SUBSET [n : Nat, at : 0..clock]
    /\ gone = {}

(* A new sample becomes available. *)
Store(s) ==
    /\ s \notin kept \cup gone
    /\ kept' = kept \cup {s}
    /\ UNCHANGED <<clock, gone>>

(* Samples older than the retention, less the resolution, stop being       *)
(* available.                                                              *)
Expire(E) ==
    /\ E # {}
    /\ \A s \in E : s.at < clock - Retention + Blur
    /\ kept' = kept \ E
    /\ gone' = gone \cup E
    /\ UNCHANGED clock

Pass == clock' \in Nat /\ clock' > clock /\ UNCHANGED <<kept, gone>>

Next ==
    \/ \E s \in kept' : Store(s)
    \/ Expire(kept \ kept')
    \/ Pass

Spec == Init /\ [][Next]_vars

================================================================================
