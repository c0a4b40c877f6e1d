-------------------------------- MODULE MCAlerts -------------------------------
(***************************************************************************)
(* Two alerts, one with a webhook and one with both actions, and cooldowns *)
(* the retention covers.                                                   *)
(***************************************************************************)
EXTENDS Alerts

CONSTANTS p1

Names == <<"disk", "load">>

Cooldowns == <<2, 3>>

================================================================================
