---------------------------- MODULE MCWorkerPool ----------------------------
(* An instance of the worker's execution pool for TLC: three executions of two *)
(* transfers.                                                                  *)
EXTENDS WorkerPool

CONSTANTS t1, t2, c1
=============================================================================
