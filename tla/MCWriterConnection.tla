--------------------------- MODULE MCWriterConnection --------------------------
(***************************************************************************)
(* The daemon's connection on small instances: a checkpoint due after a    *)
(* few commits, two alerts, and no or few transactions of other processes. *)
(***************************************************************************)
EXTENDS WriterConnection

================================================================================
