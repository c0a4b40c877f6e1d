------------------------------ MODULE MCHttpServer -----------------------------
(***************************************************************************)
(* A small pool for TLC.  The reserve is scaled down with the pool: its    *)
(* ratio of 16 and floor of 2 matter only through the number it yields.    *)
(***************************************************************************)
EXTENDS HttpServer

CONSTANTS t1, t2, c1, c2, c3

================================================================================
