-------------------------- MODULE MCWorkerLifecycle --------------------------
(***************************************************************************)
(* Small instances of WorkerLifecycle for TLC.                             *)
(***************************************************************************)
EXTENDS WorkerLifecycle, TLC

CONSTANTS s1, t1, j1, b1, i1, e1, e2

MCIntentJob == [i \in Intents |-> j1]
MCIntentBuffers == [i \in Intents |-> {b1}]

Ids == Permutations(Executions)
=============================================================================
