---------------------------- MODULE MCCudaExecutor ----------------------------
(* Three executions of one key, or two of one and one of another.             *)
EXTENDS CudaExecutor

CONSTANTS x1, x2, x3

MCExecutions == {x1, x2, x3}
MCKeyMaps == {[x \in MCExecutions |-> "a"], [x \in MCExecutions |-> IF x = x3 THEN "b" ELSE "a"]}
MCLimits == {-1, 0, 1}
=============================================================================
