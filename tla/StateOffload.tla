---- MODULE StateOffload ----
(***************************************************************************)
(* Offloading of optimizer state: the adapter that wraps a torch optimizer *)
(* (state_offload/torch_optimizer.py), the transaction it runs a step in   *)
(* (transaction.py), the core that submits the transfers (core.py) and the *)
(* named blocks and handles below it (offload/store.py, handles.py).       *)
(*                                                                         *)
(* A state has three copies of its value: the optimizer's tensor, the CPU  *)
(* mirror, and the mirror's snapshot of the open transaction.  A value is  *)
(* the number of the optimizer step that wrote it.  The transfers run on   *)
(* the context's own pair of buffers: a failed one shows in its receipt,   *)
(* not in these copies.                                                    *)
(*                                                                         *)
(* One thread calls the adapter.  A call is cut where it may raise: in the *)
(* submission, in the wait, in the optimizer and in a copy.                *)
(***************************************************************************)
EXTENDS Integers, FiniteSets

CONSTANTS
    Names,     \* state buckets the optimizer may come to have
    MaxSteps,  \* bound on optimizer steps
    None

ASSUME StateAssumption == MaxSteps \in Nat /\ IsFiniteSet(Names)

Values == 0..MaxSteps
Operations == {"prefetch", "evict"}
Receipts == {"complete", "failed"}

Handles == [receipt : Receipts, waited : BOOLEAN]
Blocks == [state : {"cpu", "gpu", "prefetching", "evicting", "unknown"},
           op : Operations \cup {None}, handle : Handles \cup {None}]
Transactions == [phase : {"active", "prefetched"}, names : SUBSET Names, spoiled : BOOLEAN]
Batches == [op : Operations, names : SUBSET Names, waited : BOOLEAN]
Calls == [by : {"step", "transaction", "batch"}, op : Operations,
          stage : {"submit", "wait", "restore", "capture", "finish", "optimizer", "rollback"},
          names : SUBSET Names]

ASSUME NoneAssumption ==
    /\ None \notin Values /\ None \notin Operations /\ None \notin Handles
    /\ None \notin Blocks /\ None \notin Transactions /\ None \notin Batches
    /\ None \notin Calls /\ \A S \in SUBSET Names : S # None

VARIABLES
    steps,   \* optimizer steps taken
    exists,  \* names in optimizer.state
    tensor,  \* value of each bucket's tensor
    mirror,  \* _cpu_mirrors
    snap,    \* _transaction_mirrors
    block,   \* OffloadStore._blocks: state, last operation and last handle
    active,  \* _active_transaction: phase, names, and whether it must be undone
    batch,   \* a batch the caller holds: operation, names, waited
    call     \* the adapter call in progress

dataVars == <<steps, exists, tensor, mirror, snap>>
vars == <<dataVars, block, active, batch, call>>

Moving == [prefetch |-> "prefetching", evict |-> "evicting"]
Place == [prefetch |-> "gpu", evict |-> "cpu"]

Init ==
    /\ steps = 0 /\ exists = {}
    /\ tensor = [n \in Names |-> 0]
    /\ mirror = [n \in Names |-> None] /\ snap = [n \in Names |-> None]
    /\ block = [n \in Names |-> None]
    /\ active = None /\ batch = None /\ call = None

----------------------------------------------------------------------------
\* Copies between a tensor, its mirror and the snapshot

Idle == call = None

NewBlock == [state |-> "cpu", op |-> None, handle |-> None]

Unknown == {n \in exists : block[n] = None}

\* capture and restore, of the names already copied when one of them raises
Captured(S) == [n \in Names |-> IF n \in S THEN tensor[n] ELSE mirror[n]]

Restored(S) == [n \in Names |->
    IF n \in S /\ mirror[n] # None THEN mirror[n] ELSE tensor[n]]

\* Mutation of Undone: the mirrors are not put back
UndoneNothing(S) == mirror

\* The mirrors after _transaction_mirrors is put back
Undone(S) == [n \in Names |->
    IF n \in S /\ snap[n] # None THEN snap[n] ELSE mirror[n]]

\* register_optimizer_state: a mirror and a block for every new bucket
Register ==
    /\ mirror' = [n \in Names |-> IF n \in Unknown THEN tensor[n] ELSE mirror[n]]
    /\ block' = [n \in Names |-> IF n \in Unknown THEN NewBlock ELSE block[n]]

\* begin_state_transaction
BeginTransaction(S) ==
    /\ Register
    /\ snap' = [n \in Names |-> IF n \in S THEN mirror'[n] ELSE None]
    /\ active' = [phase |-> "active", names |-> S, spoiled |-> FALSE]

----------------------------------------------------------------------------
\* Calls and how they end.  `by' is the caller: the whole step(), a method of
\* the open transaction, or a batch outside of it.

Call(by, op, stage, S) == [by |-> by, op |-> op, stage |-> stage, names |-> S]

Stage(s) == call' = [call EXCEPT !.stage = s]

\* An exception leaves step() through its rollback, every other call at once
Raise ==
    IF call.by = "step" THEN Stage("rollback") ELSE call' = None

\* A copy or an optimizer step that raised may have done part of its work
SpoilWith ==
    IF active = None THEN UNCHANGED active
    ELSE active' = [active EXCEPT !.spoiled = TRUE]

\* What a caller may begin on: an abandoned transaction has done nothing yet
MayBegin ==
    Idle /\ IF active = None THEN TRUE ELSE active.phase = "active" /\ ~active.spoiled

CallStep ==
    /\ MayBegin
    /\ BeginTransaction(exists)
    /\ call' = Call("step", "prefetch", "submit", exists)
    /\ UNCHANGED <<steps, exists, tensor, batch>>

CallBegin(S) ==
    /\ MayBegin
    /\ BeginTransaction(S)
    /\ UNCHANGED <<steps, exists, tensor, batch, call>>

\* prefetch_before_step of the adapter begins a transaction when there is none
CallPrefetch ==
    /\ Idle
    /\ \/ /\ active = None
          /\ BeginTransaction(exists)
          /\ call' = Call("transaction", "prefetch", "submit", exists)
       \/ /\ active # None /\ active.phase = "active"
          /\ call' = Call("transaction", "prefetch", "submit", active.names)
          /\ UNCHANGED <<mirror, snap, block, active>>
    /\ UNCHANGED <<steps, exists, tensor, batch>>

\* commit_after_step.  A caller whose optimizer step raised rolls back instead.
CallCommit ==
    /\ Idle /\ active # None /\ active.phase = "prefetched" /\ ~active.spoiled
    /\ call' = Call("transaction", "evict", "capture", active.names)
    /\ UNCHANGED <<dataVars, block, active, batch>>

CallRollback ==
    /\ Idle /\ active # None
    /\ call' = Call("transaction", "evict", "rollback", active.names)
    /\ UNCHANGED <<dataVars, block, active, batch>>

\* prefetch_state and offload_state of the adapter
CallBatch(op, S) ==
    /\ Idle /\ batch = None
    /\ S # {} /\ \A n \in S : block[n] # None
    /\ call' = Call("batch", op, "submit", S)
    /\ UNCHANGED <<dataVars, block, active, batch>>

\* TorchOptimizerStateBatch.wait.  A caller does not bring state back between
\* an optimizer step and its commit.
CallWait ==
    /\ Idle /\ batch # None /\ active = None
    /\ call' = Call("batch", batch.op, "wait", batch.names)
    /\ UNCHANGED <<dataVars, block, active, batch>>

DropBatch ==
    /\ Idle /\ batch # None
    /\ batch' = None
    /\ UNCHANGED <<dataVars, block, active, call>>

\* mark_on_cpu and mark_on_gpu
Mark(n, place) ==
    /\ Idle /\ block[n] # None
    /\ block' = [block EXCEPT ![n] = [state |-> place, op |-> None, handle |-> None]]
    /\ UNCHANGED <<dataVars, active, batch, call>>

----------------------------------------------------------------------------
\* Submission: every block's transfer runs before any of them is recorded

RecordMany(S, outcome) ==
    block' = [n \in Names |->
        IF n \in S
        THEN [state |-> Moving[call.op], op |-> call.op,
              handle |-> [receipt |-> outcome[n], waited |-> FALSE]]
        ELSE block[n]]

AfterSubmit ==
    IF call.by = "batch"
    THEN /\ batch' = [op |-> call.op, names |-> call.names, waited |-> FALSE]
         /\ call' = None
    ELSE Stage("wait") /\ UNCHANGED batch

Submit ==
    /\ call # None /\ call.stage = "submit"
    /\ \E outcome \in [call.names -> Receipts] : RecordMany(call.names, outcome)
    /\ AfterSubmit
    /\ UNCHANGED <<dataVars, active>>

\* A submission raises: nothing is recorded on any block
SubmitRaises ==
    /\ call # None /\ call.stage = "submit" /\ call.names # {}
    /\ Raise
    /\ UNCHANGED <<dataVars, block, active, batch>>

\* The record of the submission's evidence raises
SubmitRecordRaises ==
    /\ call # None /\ call.stage = "submit" /\ call.names # {}
    /\ \E outcome \in [call.names -> Receipts] : RecordMany(call.names, outcome)
    /\ Raise
    /\ UNCHANGED <<dataVars, active, batch>>

----------------------------------------------------------------------------
\* Wait: each block's LAST handle, in turn

HandleOf(n) == block[n].handle

\* Mutation of WaitRaises: the receipt's state is not looked at
WaitNeverRaises(n) == FALSE

\* A handle that was waited before returns its receipt without looking at it
WaitRaises(n) ==
    /\ HandleOf(n) # None
    /\ ~HandleOf(n).waited /\ HandleOf(n).receipt = "failed"

\* _mark_waited
MarkWaited(b) ==
    IF b.op = None THEN [b EXCEPT !.state = "unknown"]
    ELSE [b EXCEPT !.state = Place[b.op], !.handle.waited = TRUE]

Waited(S) == [n \in Names |-> IF n \in S THEN MarkWaited(block[n]) ELSE block[n]]

AfterWait == IF call.op = "prefetch" THEN "restore" ELSE "finish"

Wait ==
    /\ call # None /\ call.stage = "wait"
    /\ ~ \E n \in call.names : WaitRaises(n)
    /\ block' = Waited(call.names)
    /\ Stage(IF call.by = "batch" /\ batch.waited THEN "finish"
             ELSE IF call.by = "batch" /\ call.op = "evict" THEN "capture"
             ELSE AfterWait)
    /\ UNCHANGED <<dataVars, active, batch>>

\* The blocks before a failed transfer are marked, those after it are not
WaitFails ==
    /\ call # None /\ call.stage = "wait"
    /\ \E n \in call.names, S \in SUBSET call.names :
           /\ WaitRaises(n) /\ n \notin S
           /\ ~ \E m \in S : WaitRaises(m)
           /\ block' = [Waited(S) EXCEPT ![n].handle.waited = TRUE]
    /\ Raise
    /\ UNCHANGED <<dataVars, active, batch>>

\* The daemon does not answer the wait, or the evidence of it: the first
\* leaves the handle as it was
WaitUnanswered ==
    /\ call # None /\ call.stage = "wait" /\ call.names # {}
    /\ \E S \in SUBSET call.names :
           /\ ~ \E m \in S : WaitRaises(m)
           /\ block' = Waited(S)
    /\ Raise
    /\ UNCHANGED <<dataVars, active, batch>>

----------------------------------------------------------------------------
\* Copies after the wait and before the commit

Restore ==
    /\ call # None /\ call.stage = "restore"
    /\ tensor' = Restored(call.names)
    /\ Stage("finish")
    /\ UNCHANGED <<steps, exists, mirror, snap, block, active, batch>>

Capture ==
    /\ call # None /\ call.stage = "capture"
    /\ mirror' = Captured(call.names)
    /\ Stage(IF call.by = "batch" THEN "finish" ELSE "submit")
    /\ UNCHANGED <<steps, exists, tensor, snap, block, active, batch>>

\* A copy raises after some of the names
CopyRaises ==
    /\ call # None /\ call.stage \in {"restore", "capture"}
    /\ \E S \in SUBSET call.names :
           IF call.stage = "restore"
           THEN tensor' = Restored(S) /\ UNCHANGED mirror
           ELSE mirror' = Captured(S) /\ UNCHANGED tensor
    /\ IF call.by # "batch" THEN SpoilWith ELSE UNCHANGED active
    /\ Raise
    /\ UNCHANGED <<steps, exists, snap, block, batch>>

\* The transfer and its copies are done: the phase moves
FinishPrefetch ==
    /\ call # None /\ call.stage = "finish" /\ call.op = "prefetch"
    /\ IF call.by = "batch"
       THEN batch' = [batch EXCEPT !.waited = TRUE] /\ UNCHANGED active
       ELSE active' = [active EXCEPT !.phase = "prefetched"] /\ UNCHANGED batch
    /\ IF call.by = "step" THEN Stage("optimizer") ELSE call' = None
    /\ UNCHANGED <<dataVars, block>>

FinishEvict ==
    /\ call # None /\ call.stage = "finish" /\ call.op = "evict"
    /\ IF call.by = "batch"
       THEN batch' = [batch EXCEPT !.waited = TRUE] /\ UNCHANGED active
       ELSE active' = None /\ UNCHANGED batch
    /\ call' = None
    /\ UNCHANGED <<dataVars, block>>

----------------------------------------------------------------------------
\* The optimizer, and the way out of a failed step

\* One step of the wrapped optimizer over every bucket, old and new
Stepped(done, new) ==
    /\ steps < MaxSteps
    /\ steps' = steps + 1
    /\ exists' = exists \cup new
    /\ tensor' = [n \in Names |-> IF n \in done THEN steps' ELSE tensor[n]]

OptimizerStep ==
    /\ call # None /\ call.stage = "optimizer"
    /\ \E new \in SUBSET (Names \ exists) : Stepped(exists \cup new, new)
    /\ call' = [call EXCEPT !.op = "evict", !.stage = "capture"]
    /\ UNCHANGED <<mirror, snap, block, active, batch>>

OptimizerRaises ==
    /\ call # None /\ call.stage = "optimizer"
    /\ \E new \in SUBSET (Names \ exists) :
           \E done \in SUBSET (exists \cup new) : Stepped(done, new)
    /\ Raise
    /\ UNCHANGED <<mirror, snap, block, active, batch>>

\* The trainer steps the optimizer itself: in a transaction once the state is
\* back, or outside of any
TrainerStep ==
    /\ Idle /\ (active # None => active.phase = "prefetched" /\ ~active.spoiled)
    /\ \E new \in SUBSET (Names \ exists) : Stepped(exists \cup new, new)
    /\ UNCHANGED <<mirror, snap, block, active, batch, call>>

TrainerStepRaises ==
    /\ Idle /\ active # None /\ active.phase = "prefetched"
    /\ \E new \in SUBSET (Names \ exists) :
           \E done \in SUBSET (exists \cup new) : Stepped(done, new)
    /\ SpoilWith
    /\ UNCHANGED <<mirror, snap, block, batch, call>>

\* rollback_on_error: the mirrors from the snapshot, the tensors from the mirrors
Rollback ==
    /\ call # None /\ call.stage = "rollback"
    /\ mirror' = Undone(call.names)
    /\ tensor' = [n \in Names |->
           IF n \in call.names /\ mirror'[n] # None THEN mirror'[n] ELSE tensor[n]]
    /\ active' = None
    /\ call' = None
    /\ UNCHANGED <<steps, exists, snap, block, batch>>

----------------------------------------------------------------------------
Begin ==
    \/ CallStep
    \/ \E S \in SUBSET exists : CallBegin(S)
    \/ CallPrefetch
    \/ CallCommit
    \/ CallRollback

BatchCalls ==
    \/ \E op \in Operations, S \in SUBSET Names : CallBatch(op, S)
    \/ CallWait
    \/ DropBatch
    \/ \E n \in Names, place \in {"cpu", "gpu"} : Mark(n, place)

Transfer ==
    \/ Submit \/ SubmitRaises \/ SubmitRecordRaises
    \/ Wait \/ WaitFails \/ WaitUnanswered
    \/ Restore \/ Capture \/ CopyRaises
    \/ FinishPrefetch \/ FinishEvict

Optimizer ==
    \/ OptimizerStep \/ OptimizerRaises \/ TrainerStep \/ TrainerStepRaises
    \/ Rollback

Next == Begin \/ BatchCalls \/ Transfer \/ Optimizer

Spec == Init /\ [][Next]_vars

----------------------------------------------------------------------------
\* Properties

\* What survives of each state: during a transaction, what its snapshot keeps
Surviving == [n \in Names |->
    IF active # None /\ n \in active.names THEN snap[n] ELSE mirror[n]]

Atomic == INSTANCE AtomicState WITH
    Steps <- Values, val <- Surviving,
    open <- IF active = None THEN None ELSE active.names

\* However a step fails - in a transfer, in the optimizer, in the middle of a
\* copy - its names keep the values from before it or all take those of one
\* later optimizer step (transaction.py, torch_optimizer.py:419-453).
StepIsAtomic == Atomic!Spec

\* A transaction reaches "prefetched", and is committed, only when each of its
\* blocks has just been moved by a transfer that completed; when it ends its tensors
\* and mirrors are equal, and after a rollback as they were when it began
\* (transaction.py:75-82, 109-114; handles.py:214-216; torch_optimizer.py:245-256).
PhaseIsEarned ==
    [][ /\ call # None /\ call.by # "batch" /\ call.stage = "finish" =>
            \A n \in call.names :
                /\ block[n].op = call.op /\ block[n].state = Place[call.op]
                /\ HandleOf(n).receipt = "complete"
        /\ active # None /\ active' = None =>
            \A n \in active.names :
                /\ tensor'[n] = mirror'[n]
                /\ call.stage = "rollback" => mirror'[n] = snap[n] ]_vars
====
