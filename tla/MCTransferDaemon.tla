-------------------------- MODULE MCTransferDaemon --------------------------
(***************************************************************************)
(* Small instances of TransferDaemon for TLC.                              *)
(***************************************************************************)
EXTENDS TransferDaemon, TLC

CONSTANTS x1, x2, t1, t2, j1, j2, b1, i1, i2

MCIntentJob == [i \in Intents |-> j1]
MCIntentBuffers == [i \in Intents |-> {b1}]

Ids == Permutations(SessionIds) \cup Permutations(Transfers) \cup Permutations(Intents)
=============================================================================
