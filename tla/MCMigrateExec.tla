------------------------------ MODULE MCMigrateExec ----------------------------
(***************************************************************************)
(* A script of each shape: two changes in a transaction, a query, VACUUM.  *)
(* The rows fill a pipe, stdio's buffer and the caller's, and the message  *)
(* is longer than the other pipe.                                          *)
(***************************************************************************)
EXTENDS MigrateExec

Caps == [s \in Streams |-> IF s = Out THEN 4 ELSE 0]

MCScripts == {
    <<"begin", "write", "select", "write", "commit", "blank">>,
    <<"select", "blank", "blank", "blank", "blank", "blank">>,
    <<"write", "blank", "blank", "blank", "blank", "blank">>}

================================================================================
