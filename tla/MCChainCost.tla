---------------------------- MODULE MCChainCost ----------------------------
(* ChainCost for TLC: boxes with cgroup v2 or v1 and a quota in quarters   *)
(* of a CPU.                                                               *)
EXTENDS ChainCost

QuarterCPUs ==
  LET f == [read : BOOLEAN, quota : 0 .. 7, period : {0, 4}]
  IN  f \X f
=============================================================================
