-------------------------------- MODULE MCUpgrade ------------------------------
(***************************************************************************)
(* The two migrations there are, and a few processes killed.               *)
(***************************************************************************)
EXTENDS Upgrade

================================================================================
