-------------------------------- MODULE MCSampler ------------------------------
(***************************************************************************)
(* Two interfaces, a few events of the kernel, and CPU counters of 3 bits  *)
(* about to wrap.                                                          *)
(***************************************************************************)
EXTENDS Sampler, TLC

CONSTANTS eth, wlan

Sym == Permutations({eth, wlan})

================================================================================
