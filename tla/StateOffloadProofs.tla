------------------------- MODULE StateOffloadProofs -------------------------
(***************************************************************************)
(* Proofs about the offloading of optimizer state, for any set of states   *)
(* and any number of optimizer steps: the adapter implements AtomicState,  *)
(* and a transaction's phases are earned.                                  *)
(***************************************************************************)
EXTENDS StateOffload, TLAPS

Typed ==
    /\ steps \in Values
    /\ exists \in SUBSET Names
    /\ tensor \in [Names -> Values]
    /\ mirror \in [Names -> Values \cup {None}]
    /\ snap \in [Names -> Values \cup {None}]
    /\ block \in [Names -> Blocks \cup {None}]
    /\ active \in Transactions \cup {None}
    /\ batch \in Batches \cup {None}
    /\ call \in Calls \cup {None}

\* A registered name has a mirror and a block, and an operation has a handle.
Registered ==
    /\ \A n \in Names : mirror[n] # None <=> block[n] # None
    /\ \A n \in Names : block[n] # None /\ block[n].op # None => block[n].handle # None
    /\ batch # None => \A n \in batch.names : block[n] # None

InRollback == call # None /\ call.stage = "rollback"
Working == call # None /\ call.by # "batch" /\ call.stage # "rollback"

\* The open transaction keeps a snapshot of each of its names.  Until the state is
\* back the mirrors are as they were; from then on, unless something was left half
\* done, the tensors are those of one moment.
OneMoment(S) ==
    \/ \A n \in S : tensor[n] = snap[n]
    \/ \E v \in Values : \A n \in S : tensor[n] = v

Snapshot ==
    active # None =>
        /\ active.names \subseteq exists
        /\ \A n \in active.names : snap[n] # None /\ block[n] # None
        /\ active.phase = "active" => \A n \in active.names : mirror[n] = snap[n]
        /\ active.phase = "prefetched" /\ ~active.spoiled /\ ~InRollback => OneMoment(active.names)

\* How far the call in progress is.
Stages ==
    /\ call # None /\ call.by = "batch" =>
          /\ \A n \in call.names : block[n] # None
          /\ call.stage # "submit" => batch # None /\ active = None
          /\ call.stage \in {"submit", "wait", "restore", "capture", "finish"}
    /\ call # None /\ call.by # "batch" => active # None /\ call.names = active.names
    /\ Working /\ call.op = "prefetch" =>
          /\ call.stage \in {"submit", "wait", "restore", "finish", "optimizer"}
          /\ active.phase = IF call.stage = "optimizer" THEN "prefetched" ELSE "active"
          /\ call.stage = "finish" => \A n \in call.names : tensor[n] = mirror[n]
          /\ call.stage = "optimizer" => call.by = "step"
    /\ Working /\ call.op = "evict" =>
          /\ call.stage \in {"capture", "submit", "wait", "finish"}
          /\ active.phase = "prefetched"
          /\ call.stage # "capture" => \A n \in call.names : mirror[n] = tensor[n]
    /\ Working /\ (call.op = "evict" \/ call.by = "step") => ~active.spoiled

\* The blocks of the open transaction while its call waits, and after that.
Transferred ==
    Working => \A n \in call.names :
        /\ call.stage = "wait" =>
              block[n].op = call.op /\ HandleOf(n) # None /\ ~HandleOf(n).waited
        /\ call.stage \in {"restore", "finish"} =>
              /\ block[n].op = call.op /\ block[n].state = Place[call.op]
              /\ HandleOf(n) # None /\ HandleOf(n).receipt = "complete"

OffloadInv == Typed /\ Registered /\ Snapshot /\ Stages /\ Transferred

-----------------------------------------------------------------------------
\* What the helpers do to calls and blocks.

\* A call that moves to its next stage keeps its operation and its names.
LEMMA StageFields ==
    ASSUME call \in Calls,
           NEW s \in {"submit", "wait", "restore", "capture", "finish", "optimizer", "rollback"}
    PROVE  LET after == [call EXCEPT !.stage = s]
           IN /\ after \in Calls
              /\ after.stage = s /\ after.by = call.by
              /\ after.op = call.op /\ after.names = call.names
  BY DEF Calls

\* A call that raises is gone, or on its way to the rollback of its step.
LEMMA RaiseFields ==
    ASSUME call \in Calls, Raise
    PROVE  \/ call' = None
           \/ /\ call' \in Calls /\ call'.stage = "rollback" /\ call'.by = "step"
              /\ call.by = "step" /\ call'.names = call.names
  BY StageFields DEF Raise, Stage

\* The blocks of a submission have its operation and a handle nobody has waited for.
LEMMA RecordManyFields ==
    ASSUME Typed, call \in Calls, NEW outcome \in [call.names -> Receipts],
           RecordMany(call.names, outcome)
    PROVE  /\ block' \in [Names -> Blocks \cup {None}]
           /\ \A n \in call.names :
                 /\ block'[n] \in Blocks /\ block'[n].op = call.op
                 /\ block'[n].handle \in Handles /\ ~block'[n].handle.waited
           /\ \A n \in Names \ call.names : block'[n] = block[n]
<1>1. \A op \in Operations : Moving[op] \in {"prefetching", "evicting"}
  BY DEF Operations, Moving
<1>2. FALSE \in BOOLEAN
  OBVIOUS
<1>3. \A n \in call.names : [receipt |-> outcome[n], waited |-> FALSE] \in Handles
  BY <1>2 DEF Handles
<1>4. \A n \in call.names :
          [state |-> Moving[call.op], op |-> call.op,
           handle |-> [receipt |-> outcome[n], waited |-> FALSE]] \in Blocks
  BY <1>1, <1>3 DEF Blocks, Calls
<1>5. call.names \subseteq Names
  BY DEF Calls
<1>6. QED
  BY <1>3, <1>4, <1>5 DEF RecordMany, Typed

\* Waiting keeps a block's operation and what its receipt says.
LEMMA MarkWaitedFields ==
    ASSUME NEW b \in Blocks, b.op # None => b.handle # None
    PROVE  /\ MarkWaited(b) \in Blocks
           /\ MarkWaited(b).op = b.op
           /\ b.op = None => MarkWaited(b).handle = b.handle
           /\ b.op # None =>
                 /\ MarkWaited(b).state = Place[b.op]
                 /\ MarkWaited(b).handle \in Handles
                 /\ MarkWaited(b).handle.receipt = b.handle.receipt
<1>1. CASE b.op = None
  BY <1>1 DEF MarkWaited, Blocks
<1>2. CASE b.op # None
  <2>1. /\ b.handle \in Handles /\ b.op \in Operations
    BY <1>2 DEF Blocks
  <2>2. Place[b.op] \in {"cpu", "gpu"}
    BY <2>1 DEF Place, Operations
  <2>3. [b.handle EXCEPT !.waited = TRUE] \in Handles
    BY <2>1 DEF Handles
  <2>4. MarkWaited(b) = [b EXCEPT !.state = Place[b.op],
                                  !.handle = [b.handle EXCEPT !.waited = TRUE]]
    BY <1>2 DEF MarkWaited, Blocks
  <2>5. [b.handle EXCEPT !.waited = TRUE].receipt = b.handle.receipt
    BY <2>1 DEF Handles
  <2>6. QED
    BY <1>2, <2>2, <2>3, <2>4, <2>5 DEF Blocks
<1>3. QED
  BY <1>1, <1>2

\* A wait leaves the blocks registered, each with its operation and its receipt.
LEMMA WaitedFields ==
    ASSUME Typed, Registered, NEW S \in SUBSET Names, \A n \in S : block[n] # None
    PROVE  /\ Waited(S) \in [Names -> Blocks \cup {None}]
           /\ \A n \in Names :
                 /\ Waited(S)[n] # None <=> block[n] # None
                 /\ n \notin S => Waited(S)[n] = block[n]
                 /\ n \in S =>
                       /\ Waited(S)[n].op = block[n].op
                       /\ block[n].op # None =>
                             /\ Waited(S)[n].state = Place[block[n].op]
                             /\ Waited(S)[n].handle \in Handles
                             /\ Waited(S)[n].handle.receipt = block[n].handle.receipt
<1>1. ASSUME NEW n \in Names, n \in S
      PROVE  /\ Waited(S)[n] = MarkWaited(block[n])
             /\ block[n] \in Blocks /\ block[n].op # None => block[n].handle # None
             /\ block[n] \in Blocks
  BY <1>1 DEF Waited, Typed, Registered
<1>2. ASSUME NEW n \in Names, n \notin S
      PROVE  Waited(S)[n] = block[n]
  BY <1>2 DEF Waited
<1>3. ASSUME NEW n \in Names, n \in S
      PROVE  /\ Waited(S)[n] \in Blocks
             /\ Waited(S)[n].op = block[n].op
             /\ block[n].op # None =>
                   /\ Waited(S)[n].state = Place[block[n].op]
                   /\ Waited(S)[n].handle \in Handles
                   /\ Waited(S)[n].handle.receipt = block[n].handle.receipt
  BY <1>1, <1>3, MarkWaitedFields
<1>4. \A n \in Names : Waited(S)[n] \in Blocks \cup {None}
  BY <1>2, <1>3 DEF Typed
<1>5. Waited(S) = [n \in Names |-> Waited(S)[n]]
  BY DEF Waited
<1>6. QED
  BY <1>2, <1>3, <1>4, <1>5, NoneAssumption

\* The names of a call that waits are registered.
LEMMA CallNamesRegistered ==
    ASSUME OffloadInv, call # None
    PROVE  /\ call \in Calls /\ call.names \in SUBSET Names
           /\ \A n \in call.names : block[n] # None
  BY DEF OffloadInv, Typed, Stages, Snapshot, Calls

\* A transaction begins with a mirror and a snapshot of each of its names; what was
\* registered before is left alone.
LEMMA BeginFields ==
    ASSUME OffloadInv, NEW S \in SUBSET exists, BeginTransaction(S)
    PROVE  /\ mirror' \in [Names -> Values \cup {None}]
           /\ snap' \in [Names -> Values \cup {None}]
           /\ block' \in [Names -> Blocks \cup {None}]
           /\ active' \in Transactions
           /\ active'.names = S /\ active'.phase = "active" /\ ~active'.spoiled
           /\ \A n \in Names :
                 /\ mirror'[n] # None <=> block'[n] # None
                 /\ block[n] # None => mirror'[n] = mirror[n] /\ block'[n] = block[n]
                 /\ block'[n] # None /\ block'[n].op # None => block'[n].handle # None
                 /\ n \in S => snap'[n] = mirror'[n] /\ snap'[n] # None
<1> USE NoneAssumption
<1>1. NewBlock \in Blocks /\ NewBlock.op = None
  BY DEF NewBlock, Blocks
<1>2. exists \subseteq Names
  BY DEF OffloadInv, Typed
<1>3. [phase |-> "active", names |-> S, spoiled |-> FALSE] \in Transactions
  <2>1. FALSE \in BOOLEAN
    OBVIOUS
  <2>2. QED
    BY <1>2, <2>1 DEF Transactions
<1>4. /\ mirror' \in [Names -> Values \cup {None}]
      /\ block' \in [Names -> Blocks \cup {None}]
  BY <1>1 DEF BeginTransaction, Register, OffloadInv, Typed
<1>5. ASSUME NEW n \in Names
      PROVE  /\ mirror'[n] # None <=> block'[n] # None
             /\ block[n] # None => mirror'[n] = mirror[n] /\ block'[n] = block[n]
             /\ block'[n] # None /\ block'[n].op # None => block'[n].handle # None
  BY <1>1 DEF BeginTransaction, Register, Unknown, OffloadInv, Typed, Registered
<1>6. \A n \in S : mirror'[n] # None
  BY <1>1, <1>2 DEF BeginTransaction, Register, Unknown, OffloadInv, Typed, Registered
<1>7. /\ snap' \in [Names -> Values \cup {None}]
      /\ \A n \in S : snap'[n] = mirror'[n]
  BY <1>2, <1>4 DEF BeginTransaction
<1>8. QED
  BY <1>3, <1>4, <1>5, <1>6, <1>7 DEF BeginTransaction

\* The call of a transaction that has just begun.
LEMMA NewCall ==
    ASSUME NEW by \in {"step", "transaction", "batch"}, NEW op \in Operations,
           NEW s \in {"submit", "wait", "restore", "capture", "finish", "optimizer", "rollback"},
           NEW S \in SUBSET Names
    PROVE  /\ Call(by, op, s, S) \in Calls
           /\ Call(by, op, s, S).by = by /\ Call(by, op, s, S).op = op
           /\ Call(by, op, s, S).stage = s /\ Call(by, op, s, S).names = S
  BY DEF Call, Calls

-----------------------------------------------------------------------------
\* Each action keeps the invariant.

\* step() begins its transaction and submits the prefetch.
LEMMA CallStepKeeps ==
    ASSUME OffloadInv, CallStep
    PROVE  OffloadInv'
<1> USE NoneAssumption
<1>1. /\ call' \in Calls /\ call'.by = "step" /\ call'.op = "prefetch"
      /\ call'.stage = "submit" /\ call'.names = exists
  BY NewCall DEF CallStep, Operations, OffloadInv, Typed
<1>2. Typed'
  BY <1>1, BeginFields DEF CallStep, OffloadInv, Typed
<1>3. Registered'
  BY BeginFields DEF CallStep, OffloadInv, Typed, Registered, Batches
<1>4. Snapshot'
  BY BeginFields DEF CallStep, OffloadInv, Typed, Snapshot
<1>5. Stages'
  BY <1>1, BeginFields DEF CallStep, Stages, Working
<1>6. Transferred'
  BY <1>1 DEF Transferred
<1>7. QED
  BY <1>2, <1>3, <1>4, <1>5, <1>6 DEF OffloadInv

\* begin_state_transaction, also in place of a transaction that did nothing.
LEMMA CallBeginKeeps ==
    ASSUME OffloadInv, NEW S \in SUBSET exists, CallBegin(S)
    PROVE  OffloadInv'
<1> USE NoneAssumption
<1>1. call = None /\ call' = None
  BY DEF CallBegin, MayBegin, Idle
<1>2. Typed'
  BY <1>1, BeginFields DEF CallBegin, OffloadInv, Typed
<1>3. Registered'
  BY BeginFields DEF CallBegin, OffloadInv, Typed, Registered, Batches
<1>4. Snapshot'
  BY BeginFields DEF CallBegin, OffloadInv, Typed, Snapshot
<1>5. Stages' /\ Transferred'
  BY <1>1 DEF Stages, Transferred, Working
<1>6. QED
  BY <1>2, <1>3, <1>4, <1>5 DEF OffloadInv

\* prefetch_before_step, with a transaction of its own or in the open one.
LEMMA CallPrefetchKeeps ==
    ASSUME OffloadInv, CallPrefetch
    PROVE  OffloadInv'
<1> USE NoneAssumption
<1>1. CASE active = None /\ BeginTransaction(exists)
                         /\ call' = Call("transaction", "prefetch", "submit", exists)
  <2>1. /\ call' \in Calls /\ call'.by = "transaction" /\ call'.op = "prefetch"
        /\ call'.stage = "submit" /\ call'.names = exists
    BY <1>1, NewCall DEF Operations, OffloadInv, Typed
  <2>2. Typed'
    BY <1>1, <2>1, BeginFields DEF CallPrefetch, OffloadInv, Typed
  <2>3. Registered'
    BY <1>1, BeginFields DEF CallPrefetch, OffloadInv, Typed, Registered, Batches
  <2>4. Snapshot'
    BY <1>1, BeginFields DEF CallPrefetch, OffloadInv, Typed, Snapshot
  <2>5. Stages'
    BY <1>1, <2>1, BeginFields DEF Stages, Working
  <2>6. Transferred'
    BY <2>1 DEF Transferred
  <2>7. QED
    BY <2>2, <2>3, <2>4, <2>5, <2>6 DEF OffloadInv
<1>2. CASE /\ active # None /\ active.phase = "active"
           /\ call' = Call("transaction", "prefetch", "submit", active.names)
           /\ UNCHANGED <<mirror, snap, block, active>>
  <2>1. /\ call' \in Calls /\ call'.by = "transaction" /\ call'.op = "prefetch"
        /\ call'.stage = "submit" /\ call'.names = active.names
    BY <1>2, NewCall DEF Operations, OffloadInv, Typed, Transactions
  <2>2. Typed' /\ Registered'
    BY <1>2, <2>1 DEF CallPrefetch, OffloadInv, Typed, Registered
  <2>3. Snapshot'
    BY <1>2, <2>1 DEF CallPrefetch, OffloadInv, Snapshot
  <2>4. Stages' /\ Transferred'
    BY <1>2, <2>1 DEF Stages, Transferred, Working
  <2>5. QED
    BY <2>2, <2>3, <2>4 DEF OffloadInv
<1>3. QED
  BY <1>1, <1>2 DEF CallPrefetch

\* The calls that only start: their names are those of the transaction, of the
\* caller's batch, or registered ones.
LEMMA CallCommitKeeps ==
    ASSUME OffloadInv, CallCommit
    PROVE  OffloadInv'
<1> USE NoneAssumption DEF CallCommit, Idle, dataVars
<1>1. /\ call' \in Calls /\ call'.by = "transaction" /\ call'.op = "evict"
      /\ call'.stage = "capture" /\ call'.names = active.names
  BY NewCall DEF Operations, OffloadInv, Typed, Transactions
<1>2. Typed' /\ Registered'
  BY <1>1 DEF OffloadInv, Typed, Registered
<1>3. Snapshot'
  BY <1>1 DEF OffloadInv, Snapshot, InRollback, OneMoment
<1>4. Stages' /\ Transferred'
  BY <1>1 DEF Stages, Transferred, Working
<1>5. QED
  BY <1>2, <1>3, <1>4 DEF OffloadInv

\* The call of a rollback keeps the invariant,
LEMMA CallRollbackKeeps ==
    ASSUME OffloadInv, CallRollback
    PROVE  OffloadInv'
<1> USE NoneAssumption DEF CallRollback, Idle, dataVars
<1>1. /\ call' \in Calls /\ call'.by = "transaction" /\ call'.op = "evict"
      /\ call'.stage = "rollback" /\ call'.names = active.names
  BY NewCall DEF Operations, OffloadInv, Typed, Transactions
<1>2. Typed' /\ Registered'
  BY <1>1 DEF OffloadInv, Typed, Registered
<1>3. Snapshot'
  BY <1>1 DEF OffloadInv, Snapshot, InRollback
<1>4. Stages' /\ Transferred'
  BY <1>1 DEF Stages, Transferred, Working
<1>5. QED
  BY <1>2, <1>3, <1>4 DEF OffloadInv

\* that of a batch,
LEMMA CallBatchKeeps ==
    ASSUME OffloadInv, NEW op \in Operations, NEW S \in SUBSET Names, CallBatch(op, S)
    PROVE  OffloadInv'
<1> USE NoneAssumption DEF CallBatch, Idle, dataVars
<1>1. /\ call' \in Calls /\ call'.by = "batch" /\ call'.stage = "submit" /\ call'.names = S
  BY NewCall
<1>2. Typed' /\ Registered'
  BY <1>1 DEF OffloadInv, Typed, Registered
<1>3. Snapshot'
  BY <1>1 DEF OffloadInv, Snapshot, InRollback, OneMoment
<1>4. Stages' /\ Transferred'
  BY <1>1 DEF Stages, Transferred, Working
<1>5. QED
  BY <1>2, <1>3, <1>4 DEF OffloadInv

\* and that of a wait.
LEMMA CallWaitKeeps ==
    ASSUME OffloadInv, CallWait
    PROVE  OffloadInv'
<1> USE NoneAssumption DEF CallWait, Idle, dataVars
<1>1. /\ call' \in Calls /\ call'.by = "batch" /\ call'.stage = "wait"
      /\ call'.names = batch.names
  BY NewCall DEF OffloadInv, Typed, Batches
<1>2. Typed' /\ Registered'
  BY <1>1 DEF OffloadInv, Typed, Registered
<1>3. Snapshot'
  BY <1>1 DEF Snapshot
<1>4. Stages' /\ Transferred'
  BY <1>1 DEF OffloadInv, Registered, Stages, Transferred, Working
<1>5. QED
  BY <1>2, <1>3, <1>4 DEF OffloadInv

\* The caller lets go of a batch; no call is using it.
LEMMA DropBatchKeeps ==
    ASSUME OffloadInv, DropBatch
    PROVE  OffloadInv'
  BY DEF DropBatch, Idle, dataVars, OffloadInv, Typed, Registered, Snapshot, InRollback,
         OneMoment, Stages, Working, Transferred

\* mark_on_cpu and mark_on_gpu, while no call is under way.
LEMMA MarkKeeps ==
    ASSUME OffloadInv, NEW n \in Names, NEW place \in {"cpu", "gpu"}, Mark(n, place)
    PROVE  OffloadInv'
<1> USE NoneAssumption DEF Mark, Idle, dataVars
<1>1. [state |-> place, op |-> None, handle |-> None] \in Blocks
  BY DEF Blocks
<1>2. Typed' /\ Registered'
  BY <1>1 DEF OffloadInv, Typed, Registered, Batches
<1>3. Snapshot'
  BY <1>1 DEF OffloadInv, Typed, Snapshot, InRollback, OneMoment, Transactions
<1>4. Stages' /\ Transferred'
  BY DEF Stages, Transferred, Working
<1>5. QED
  BY <1>2, <1>3, <1>4 DEF OffloadInv

\* A call that raises without having touched the data leaves the transaction as it
\* was, or on its way to the rollback.
LEMMA RaisingKeeps ==
    ASSUME OffloadInv, call # None, call.stage # "rollback", Raise,
           UNCHANGED <<dataVars, active, batch>>,
           block' \in [Names -> Blocks \cup {None}],
           \A n \in Names : /\ block'[n] # None <=> block[n] # None
                            /\ block'[n] # None /\ block'[n].op # None => block'[n].handle # None
    PROVE  OffloadInv'
<1> USE NoneAssumption DEF dataVars
<1>1. \/ call' = None
      \/ /\ call' \in Calls /\ call'.stage = "rollback" /\ call'.by = "step"
         /\ call.by = "step" /\ call'.names = call.names
  BY RaiseFields DEF OffloadInv, Typed
<1>2. Typed'
  BY <1>1 DEF OffloadInv, Typed
<1>3. Registered'
  BY DEF OffloadInv, Typed, Registered, Batches
<1>4. Snapshot'
  BY <1>1 DEF OffloadInv, Typed, Snapshot, InRollback, OneMoment, Transactions
<1>5. Stages' /\ Transferred'
  BY <1>1 DEF OffloadInv, Stages, Transferred, Working
<1>6. QED
  BY <1>2, <1>3, <1>4, <1>5 DEF OffloadInv

\* A submission records its evidence on the blocks.
LEMMA SubmitKeeps ==
    ASSUME OffloadInv, Submit
    PROVE  OffloadInv'
<1> USE NoneAssumption DEF dataVars
<1>1. PICK outcome \in [call.names -> Receipts] : RecordMany(call.names, outcome)
  BY DEF Submit
<1>2. /\ block' \in [Names -> Blocks \cup {None}]
      /\ \A n \in call.names :
            /\ block'[n] \in Blocks /\ block'[n].op = call.op
            /\ block'[n].handle \in Handles /\ ~block'[n].handle.waited
      /\ \A n \in Names \ call.names : block'[n] = block[n]
  BY <1>1, RecordManyFields DEF Submit, OffloadInv, Typed
<1>3. call \in Calls /\ call.names \in SUBSET Names /\ \A n \in call.names : block[n] # None
  BY CallNamesRegistered DEF Submit
<1>4. \A n \in Names : block'[n] # None <=> block[n] # None
  BY <1>2, <1>3
<1>5. CASE call.by = "batch"
  <2>1. /\ batch' = [op |-> call.op, names |-> call.names, waited |-> FALSE]
        /\ call' = None
    BY <1>5 DEF Submit, AfterSubmit
  <2>2. batch' \in Batches /\ batch'.names = call.names
    <3>1. FALSE \in BOOLEAN
      OBVIOUS
    <3>2. QED
      BY <2>1, <3>1 DEF Batches, Calls, OffloadInv, Typed, Submit
  <2>3. Typed'
    BY <1>2, <2>1, <2>2 DEF Submit, OffloadInv, Typed
  <2>4. Registered'
    BY <1>2, <1>3, <1>4, <2>2 DEF Submit, OffloadInv, Registered
  <2>5. Snapshot'
    BY <1>4, <2>1 DEF Submit, OffloadInv, Typed, Snapshot, InRollback, OneMoment, Transactions
  <2>6. Stages' /\ Transferred'
    BY <2>1 DEF Stages, Transferred, Working
  <2>7. QED
    BY <2>3, <2>4, <2>5, <2>6 DEF OffloadInv
<1>6. CASE call.by # "batch"
  <2>1. /\ call' \in Calls /\ call'.stage = "wait" /\ call'.by = call.by
        /\ call'.op = call.op /\ call'.names = call.names
        /\ UNCHANGED batch
    BY <1>3, <1>6, StageFields DEF Submit, AfterSubmit, Stage
  <2>2. Typed'
    BY <1>2, <2>1 DEF Submit, OffloadInv, Typed
  <2>3. Registered'
    BY <1>2, <1>4, <2>1 DEF Submit, OffloadInv, Typed, Registered, Batches
  <2>4. Snapshot'
    BY <1>4, <2>1 DEF Submit, OffloadInv, Typed, Snapshot, InRollback, OneMoment, Transactions
  <2>5. Stages'
    BY <1>6, <2>1 DEF Submit, OffloadInv, Stages, Working
  <2>6. Transferred'
    BY <1>2, <2>1 DEF Transferred, HandleOf
  <2>7. QED
    BY <2>2, <2>3, <2>4, <2>5, <2>6 DEF OffloadInv
<1>7. QED
  BY <1>5, <1>6

\* One that raises records nothing,
LEMMA SubmitRaisesKeeps ==
    ASSUME OffloadInv, SubmitRaises
    PROVE  OffloadInv'
  BY RaisingKeeps DEF SubmitRaises, dataVars, OffloadInv, Typed, Registered

\* and one whose evidence cannot be recorded leaves the blocks to the rollback.
LEMMA SubmitRecordRaisesKeeps ==
    ASSUME OffloadInv, SubmitRecordRaises
    PROVE  OffloadInv'
<1> USE NoneAssumption
<1>1. PICK outcome \in [call.names -> Receipts] : RecordMany(call.names, outcome)
  BY DEF SubmitRecordRaises
<1>2. /\ block' \in [Names -> Blocks \cup {None}]
      /\ \A n \in call.names : block'[n] \in Blocks /\ block'[n].handle \in Handles
      /\ \A n \in Names \ call.names : block'[n] = block[n]
  BY <1>1, RecordManyFields DEF SubmitRecordRaises, OffloadInv, Typed
<1>3. \A n \in call.names : block[n] # None
  BY CallNamesRegistered DEF SubmitRecordRaises
<1>4. \A n \in Names : /\ block'[n] # None <=> block[n] # None
                       /\ block'[n] # None /\ block'[n].op # None => block'[n].handle # None
  BY <1>2, <1>3 DEF OffloadInv, Registered
<1>5. QED
  BY <1>2, <1>4, RaisingKeeps DEF SubmitRecordRaises

\* Every transfer is done and the call goes on to the copies.
LEMMA WaitKeeps ==
    ASSUME OffloadInv, Wait
    PROVE  OffloadInv'
<1> USE NoneAssumption DEF dataVars
<1>1. call \in Calls /\ call.names \in SUBSET Names /\ \A n \in call.names : block[n] # None
  BY CallNamesRegistered DEF Wait
<1>2. /\ block' \in [Names -> Blocks \cup {None}]
      /\ \A n \in Names :
            /\ block'[n] # None <=> block[n] # None
            /\ n \notin call.names => block'[n] = block[n]
            /\ n \in call.names =>
                  /\ block'[n].op = block[n].op
                  /\ block[n].op # None =>
                        /\ block'[n].state = Place[block[n].op]
                        /\ block'[n].handle \in Handles
                        /\ block'[n].handle.receipt = block[n].handle.receipt
  BY <1>1, WaitedFields DEF Wait, OffloadInv
<1>3. PICK s \in {"finish", "capture", "restore"} :
          /\ call' = [call EXCEPT !.stage = s]
          /\ call.by # "batch" => s = AfterWait
  BY DEF Wait, Stage, AfterWait
<1>4. /\ call' \in Calls /\ call'.stage = s /\ call'.by = call.by
      /\ call'.op = call.op /\ call'.names = call.names
  BY <1>1, <1>3, StageFields
<1>5. Typed'
  BY <1>2, <1>4 DEF Wait, OffloadInv, Typed
<1>6. Registered'
  BY <1>2 DEF Wait, OffloadInv, Typed, Registered, Batches
<1>7. Snapshot'
  BY <1>2, <1>4 DEF Wait, OffloadInv, Typed, Snapshot, InRollback, OneMoment, Transactions
<1>8. Stages'
  BY <1>1, <1>2, <1>3, <1>4 DEF Wait, OffloadInv, Stages, Working, AfterWait, Calls, Operations
<1>9. Transferred'
  <2> SUFFICES ASSUME Working', NEW n \in call.names
               PROVE  /\ block'[n].op = call.op /\ block'[n].state = Place[call.op]
                      /\ HandleOf(n)' # None /\ HandleOf(n)'.receipt = "complete"
    BY <1>3, <1>4 DEF Transferred
  <2>1. block[n].op = call.op /\ HandleOf(n) # None /\ ~HandleOf(n).waited
    BY <1>4 DEF Wait, OffloadInv, Transferred, Working
  <2>2. HandleOf(n).receipt = "complete"
    <3>1. HandleOf(n).receipt # "failed"
      BY <2>1 DEF Wait, WaitRaises
    <3>2. HandleOf(n) \in Handles
      BY <1>1, <2>1 DEF HandleOf, Blocks, OffloadInv, Typed
    <3>3. QED
      BY <3>1, <3>2 DEF Handles, Receipts
  <2>3. call.op # None /\ n \in Names
    BY <1>1 DEF Calls
  <2>4. QED
    BY <1>2, <2>1, <2>2, <2>3 DEF HandleOf
<1>10. QED
  BY <1>5, <1>6, <1>7, <1>8, <1>9 DEF OffloadInv

\* A failed transfer ends the wait; some of the blocks are marked.
LEMMA WaitFailsKeeps ==
    ASSUME OffloadInv, WaitFails
    PROVE  OffloadInv'
<1> USE NoneAssumption
<1>1. call \in Calls /\ call.names \in SUBSET Names /\ \A n \in call.names : block[n] # None
  BY CallNamesRegistered DEF WaitFails
<1>2. PICK m \in call.names, S \in SUBSET call.names :
          /\ WaitRaises(m) /\ m \notin S
          /\ block' = [Waited(S) EXCEPT ![m].handle.waited = TRUE]
  BY DEF WaitFails
<1>3. /\ Waited(S) \in [Names -> Blocks \cup {None}]
      /\ \A n \in Names : Waited(S)[n] # None <=> block[n] # None
      /\ \A n \in Names \ S : Waited(S)[n] = block[n]
      /\ \A n \in S : /\ Waited(S)[n].op = block[n].op
                      /\ block[n].op # None => Waited(S)[n].handle \in Handles
  BY <1>1, WaitedFields DEF OffloadInv
<1> DEFINE last == [block[m] EXCEPT !.handle = [block[m].handle EXCEPT !.waited = TRUE]]
<1>4. last \in Blocks /\ last.handle \in Handles
  <2>1. block[m] \in Blocks /\ block[m].handle \in Handles
    BY <1>1, <1>2 DEF WaitRaises, HandleOf, OffloadInv, Typed, Blocks
  <2>2. [block[m].handle EXCEPT !.waited = TRUE] \in Handles
    BY <2>1 DEF Handles
  <2>3. QED
    BY <2>1, <2>2 DEF Blocks
<1>5. block' = [Waited(S) EXCEPT ![m] = last]
  <2>1. Waited(S)[m] = block[m]
    BY <1>1, <1>2, <1>3
  <2>2. block' = [Waited(S) EXCEPT ![m] = [Waited(S)[m] EXCEPT !.handle =
                                              [Waited(S)[m].handle EXCEPT !.waited = TRUE]]]
    BY <1>2
  <2>3. QED
    BY <2>1, <2>2
<1> HIDE DEF last
<1>6. block' \in [Names -> Blocks \cup {None}]
  BY <1>3, <1>4, <1>5
<1>7. \A n \in Names : /\ block'[n] # None <=> block[n] # None
                       /\ block'[n] # None /\ block'[n].op # None => block'[n].handle # None
  <2> SUFFICES ASSUME NEW n \in Names
               PROVE  /\ block'[n] # None <=> block[n] # None
                      /\ block'[n] # None /\ block'[n].op # None => block'[n].handle # None
    OBVIOUS
  <2>1. CASE n = m
    BY <2>1, <1>1, <1>3, <1>4, <1>5
  <2>2. CASE n # m
    <3>1. block'[n] = Waited(S)[n]
      BY <2>2, <1>3, <1>5
    <3>2. QED
      BY <3>1, <1>1, <1>2, <1>3 DEF OffloadInv, Registered
  <2>3. QED
    BY <2>1, <2>2
<1>8. QED
  BY <1>6, <1>7, RaisingKeeps DEF WaitFails

\* A wait without an answer leaves the blocks as they are, or as recorded.
LEMMA WaitUnansweredKeeps ==
    ASSUME OffloadInv, WaitUnanswered
    PROVE  OffloadInv'
<1> USE NoneAssumption
<1>1. call.names \in SUBSET Names /\ \A n \in call.names : block[n] # None
  BY CallNamesRegistered DEF WaitUnanswered
<1>2. PICK S \in SUBSET call.names : block' = Waited(S)
  BY DEF WaitUnanswered
<1>3. /\ block' \in [Names -> Blocks \cup {None}]
      /\ \A n \in Names :
            /\ block'[n] # None <=> block[n] # None
            /\ n \notin S => block'[n] = block[n]
            /\ n \in S => /\ block'[n].op = block[n].op
                          /\ block[n].op # None => block'[n].handle \in Handles
  BY <1>1, <1>2, WaitedFields DEF OffloadInv
<1>4. \A n \in Names : block'[n] # None /\ block'[n].op # None => block'[n].handle # None
  BY <1>1, <1>3 DEF OffloadInv, Registered
<1>5. QED
  BY <1>3, <1>4, RaisingKeeps DEF WaitUnanswered

-----------------------------------------------------------------------------
\* The copies, and the end of a call.

\* A restore copies what was captured back to the tensors.
LEMMA RestoreKeeps ==
    ASSUME OffloadInv, Restore
    PROVE  OffloadInv'
<1> USE NoneAssumption
<1>1. call \in Calls /\ call.names \in SUBSET Names
  BY CallNamesRegistered DEF Restore
<1>2. /\ call' \in Calls /\ call'.stage = "finish" /\ call'.by = call.by
      /\ call'.op = call.op /\ call'.names = call.names
  BY <1>1, StageFields DEF Restore, Stage
<1>3. Typed'
  BY <1>2 DEF Restore, Restored, OffloadInv, Typed
<1>4. Registered'
  BY DEF Restore, OffloadInv, Registered
<1>5. Snapshot'
  BY <1>1, <1>2 DEF Restore, OffloadInv, Snapshot, Stages, Working, InRollback, Calls, Operations
<1>6. Stages'
  BY <1>1, <1>2, CallNamesRegistered DEF Restore, Restored, OffloadInv, Registered, Stages, Working
<1>7. Transferred'
  BY <1>2 DEF Restore, OffloadInv, Transferred, Working, HandleOf
<1>8. QED
  BY <1>3, <1>4, <1>5, <1>6, <1>7 DEF OffloadInv

\* A capture copies the tensors.
LEMMA CaptureKeeps ==
    ASSUME OffloadInv, Capture
    PROVE  OffloadInv'
<1> USE NoneAssumption
<1>1. /\ call \in Calls /\ call.names \in SUBSET Names
      /\ \A n \in call.names : block[n] # None
  BY CallNamesRegistered DEF Capture
<1>2. /\ call' \in Calls /\ call'.by = call.by /\ call'.op = call.op
      /\ call'.names = call.names
      /\ call'.stage = IF call.by = "batch" THEN "finish" ELSE "submit"
  BY <1>1, StageFields DEF Capture, Stage
<1>3. Typed'
  BY <1>2 DEF Capture, Captured, OffloadInv, Typed
<1>4. Registered'
  BY <1>1 DEF Capture, Captured, OffloadInv, Typed, Registered
<1>5. Snapshot'
  BY <1>1, <1>2
     DEF Capture, OffloadInv, Snapshot, Stages, Working, InRollback, OneMoment, Calls, Operations
<1>6. Stages'
  BY <1>1, <1>2 DEF Capture, Captured, OffloadInv, Stages, Working
<1>7. Transferred'
  BY <1>2 DEF Transferred, Working
<1>8. QED
  BY <1>3, <1>4, <1>5, <1>6, <1>7 DEF OffloadInv

\* What a copy left half done marks the transaction, which can then only be rolled back.
LEMMA SpoilFields ==
    ASSUME OffloadInv, active # None, SpoilWith
    PROVE  /\ active' \in Transactions
           /\ active'.phase = active.phase /\ active'.names = active.names /\ active'.spoiled
  BY DEF SpoilWith, OffloadInv, Typed, Transactions

\* A copy that raises has copied some of the names.
LEMMA CopyRaisesKeeps ==
    ASSUME OffloadInv, CopyRaises
    PROVE  OffloadInv'
<1> USE NoneAssumption
<1>1. /\ call \in Calls /\ call.names \in SUBSET Names
      /\ \A n \in call.names : block[n] # None
  BY CallNamesRegistered DEF CopyRaises
<1>2. \/ call' = None
      \/ /\ call' \in Calls /\ call'.stage = "rollback" /\ call'.by = "step"
         /\ call.by = "step" /\ call'.names = call.names
  BY <1>1, RaiseFields DEF CopyRaises
<1>3. /\ call.by = "batch" => active = None /\ active' = None
      /\ call.by # "batch" => /\ active # None /\ active' \in Transactions
                              /\ active'.phase = active.phase /\ active'.names = active.names
                              /\ active'.spoiled
  BY SpoilFields DEF CopyRaises, OffloadInv, Stages
<1>4. /\ tensor' \in [Names -> Values] /\ mirror' \in [Names -> Values \cup {None}]
      /\ \A n \in Names : mirror'[n] # None <=> mirror[n] # None
      /\ call.stage = "restore" => mirror' = mirror
  BY <1>1 DEF CopyRaises, Restored, Captured, OffloadInv, Typed, Registered
<1>5. Typed'
  BY <1>2, <1>3, <1>4 DEF CopyRaises, OffloadInv, Typed
<1>6. Registered'
  BY <1>4 DEF CopyRaises, OffloadInv, Registered
<1>7. Snapshot'
  BY <1>1, <1>3, <1>4 DEF CopyRaises, OffloadInv, Snapshot, Stages, Working, Calls, Operations
<1>8. Stages' /\ Transferred'
  BY <1>2, <1>3 DEF CopyRaises, OffloadInv, Stages, Transferred, Working
<1>9. QED
  BY <1>5, <1>6, <1>7, <1>8 DEF OffloadInv

\* A prefetch ends,
LEMMA FinishPrefetchKeeps ==
    ASSUME OffloadInv, FinishPrefetch
    PROVE  OffloadInv'
<1> USE NoneAssumption DEF dataVars
<1>1. call \in Calls /\ call.names \in SUBSET Names
  BY CallNamesRegistered DEF FinishPrefetch
<1>2. CASE call.by = "batch"
  <2>1. /\ batch' = [batch EXCEPT !.waited = TRUE] /\ active = None /\ active' = None
        /\ call' = None /\ batch \in Batches
    BY <1>2 DEF FinishPrefetch, OffloadInv, Stages, Typed
  <2>2. batch' \in Batches /\ batch'.names = batch.names
    BY <2>1 DEF Batches
  <2>3. Typed' /\ Registered'
    BY <2>1, <2>2 DEF FinishPrefetch, OffloadInv, Typed, Registered
  <2>4. Snapshot' /\ Stages' /\ Transferred'
    BY <2>1 DEF Snapshot, Stages, Transferred, Working
  <2>5. QED
    BY <2>3, <2>4 DEF OffloadInv
<1>3. CASE call.by # "batch"
  <2>1. /\ active \in Transactions /\ batch' = batch
        /\ active' = [active EXCEPT !.phase = "prefetched"]
    BY <1>3 DEF FinishPrefetch, OffloadInv, Stages, Typed
  <2>2. /\ active' \in Transactions /\ active'.phase = "prefetched"
        /\ active'.names = active.names /\ active'.spoiled = active.spoiled
    BY <2>1 DEF Transactions
  <2>3. \/ call' = None /\ call.by # "step"
        \/ /\ call' \in Calls /\ call'.stage = "optimizer" /\ call'.by = "step"
           /\ call'.op = "prefetch" /\ call'.names = call.names /\ call.by = "step"
    BY <1>1, StageFields DEF FinishPrefetch, Stage
  <2>4. Typed' /\ Registered'
    BY <2>1, <2>2, <2>3 DEF FinishPrefetch, OffloadInv, Typed, Registered
  <2>5. Snapshot'
    <3>1. \A n \in active.names : tensor[n] = snap[n]
      BY <1>3 DEF FinishPrefetch, OffloadInv, Stages, Working, Snapshot
    <3>2. QED
      BY <2>1, <2>2, <3>1 DEF FinishPrefetch, OffloadInv, Snapshot, OneMoment
  <2>6. Stages'
    BY <1>3, <2>1, <2>2, <2>3 DEF FinishPrefetch, OffloadInv, Stages, Working
  <2>7. Transferred'
    BY <2>3 DEF Transferred, Working
  <2>8. QED
    BY <2>4, <2>5, <2>6, <2>7 DEF OffloadInv
<1>4. QED
  BY <1>2, <1>3

\* and so does an eviction.
LEMMA FinishEvictKeeps ==
    ASSUME OffloadInv, FinishEvict
    PROVE  OffloadInv'
<1> USE NoneAssumption DEF dataVars
<1>1. call' = None
  BY DEF FinishEvict
<1>2. /\ active' = None
      /\ batch' \in Batches \cup {None}
      /\ batch' # None => batch # None /\ batch'.names = batch.names
  <2>1. CASE call.by = "batch"
    <3>1. batch \in Batches /\ batch' = [batch EXCEPT !.waited = TRUE]
      BY <2>1 DEF FinishEvict, OffloadInv, Stages, Typed
    <3>2. active' = None
      BY <2>1 DEF FinishEvict, OffloadInv, Stages
    <3>3. QED
      BY <3>1, <3>2 DEF Batches
  <2>2. CASE call.by # "batch"
    BY <2>2 DEF FinishEvict, OffloadInv, Typed
  <2>3. QED
    BY <2>1, <2>2
<1>3. Typed' /\ Registered'
  BY <1>1, <1>2 DEF FinishEvict, OffloadInv, Typed, Registered
<1>4. Snapshot' /\ Stages' /\ Transferred'
  BY <1>1, <1>2 DEF Snapshot, Stages, Transferred, Working
<1>5. QED
  BY <1>3, <1>4 DEF OffloadInv

-----------------------------------------------------------------------------
\* The optimizer and the rollback.

\* One optimizer step over a set of buckets gives each of them its number.
LEMMA SteppedFields ==
    ASSUME OffloadInv, NEW done, NEW new \in SUBSET (Names \ exists), Stepped(done, new)
    PROVE  /\ steps' \in Values
           /\ exists' \in SUBSET Names /\ exists \subseteq exists'
           /\ tensor' \in [Names -> Values]
           /\ \A n \in Names \cap done : tensor'[n] = steps'
<1>1. steps' \in Values
  BY StateAssumption DEF Stepped, Values, OffloadInv, Typed
<1>2. exists' \in SUBSET Names /\ exists \subseteq exists'
  BY DEF Stepped, OffloadInv, Typed
<1>3. /\ tensor' \in [Names -> Values]
      /\ \A n \in Names \cap done : tensor'[n] = steps'
  BY <1>1 DEF Stepped, OffloadInv, Typed
<1>4. QED
  BY <1>1, <1>2, <1>3

\* The optimizer steps, in the middle of a transaction,
LEMMA OptimizerStepKeeps ==
    ASSUME OffloadInv, OptimizerStep
    PROVE  OffloadInv'
<1> USE NoneAssumption
<1>1. PICK new \in SUBSET (Names \ exists) : Stepped(exists \cup new, new)
  BY DEF OptimizerStep
<1>2. /\ steps' \in Values /\ exists' \in SUBSET Names /\ exists \subseteq exists'
      /\ tensor' \in [Names -> Values]
      /\ \A n \in exists : tensor'[n] = steps'
  BY <1>1, SteppedFields DEF OffloadInv, Typed
<1>3. /\ call' \in Calls /\ call'.by = call.by /\ call'.op = "evict"
      /\ call'.stage = "capture" /\ call'.names = call.names
  BY DEF OptimizerStep, OffloadInv, Typed, Calls, Operations
<1>4. Typed' /\ Registered'
  BY <1>2, <1>3 DEF OptimizerStep, OffloadInv, Typed, Registered
<1>5. Snapshot'
  BY <1>2, <1>3 DEF OptimizerStep, OffloadInv, Snapshot, OneMoment
<1>6. Stages' /\ Transferred'
  BY <1>3 DEF OptimizerStep, OffloadInv, Stages, Transferred, Working, Typed, Calls, Operations
<1>7. QED
  BY <1>4, <1>5, <1>6 DEF OffloadInv

\* or raises there.
LEMMA OptimizerRaisesKeeps ==
    ASSUME OffloadInv, OptimizerRaises
    PROVE  OffloadInv'
<1> USE NoneAssumption
<1>1. PICK new \in SUBSET (Names \ exists) : \E done : Stepped(done, new)
  BY DEF OptimizerRaises
<1>2. /\ steps' \in Values /\ exists' \in SUBSET Names /\ exists \subseteq exists'
      /\ tensor' \in [Names -> Values]
  BY <1>1, SteppedFields
<1>3. /\ call' \in Calls /\ call'.stage = "rollback" /\ call'.by = "step"
      /\ call.by = "step" /\ call'.names = call.names
  BY StageFields
     DEF OptimizerRaises, Raise, Stage, OffloadInv, Typed, Stages, Working, Calls, Operations
<1>4. Typed' /\ Registered'
  BY <1>2, <1>3 DEF OptimizerRaises, OffloadInv, Typed, Registered
<1>5. Snapshot'
  BY <1>2, <1>3 DEF OptimizerRaises, OffloadInv, Snapshot, InRollback, Typed, Transactions,
                    Stages, Working, Calls, Operations
<1>6. Stages' /\ Transferred'
  BY <1>3 DEF OptimizerRaises, OffloadInv, Stages, Transferred, Working
<1>7. QED
  BY <1>4, <1>5, <1>6 DEF OffloadInv

\* It steps between two calls of the adapter,
LEMMA TrainerStepKeeps ==
    ASSUME OffloadInv, TrainerStep
    PROVE  OffloadInv'
<1> USE NoneAssumption
<1>1. PICK new \in SUBSET (Names \ exists) : Stepped(exists \cup new, new)
  BY DEF TrainerStep
<1>2. /\ steps' \in Values /\ exists' \in SUBSET Names /\ exists \subseteq exists'
      /\ tensor' \in [Names -> Values]
      /\ \A n \in exists : tensor'[n] = steps'
  BY <1>1, SteppedFields DEF OffloadInv, Typed
<1>3. Typed' /\ Registered'
  BY <1>2 DEF TrainerStep, OffloadInv, Typed, Registered
<1>4. Snapshot'
  BY <1>2 DEF TrainerStep, OffloadInv, Snapshot, OneMoment
<1>5. Stages' /\ Transferred'
  BY DEF TrainerStep, Idle, Stages, Transferred, Working
<1>6. QED
  BY <1>3, <1>4, <1>5 DEF OffloadInv

\* or raises there.
LEMMA TrainerStepRaisesKeeps ==
    ASSUME OffloadInv, TrainerStepRaises
    PROVE  OffloadInv'
<1> USE NoneAssumption
<1>1. PICK new \in SUBSET (Names \ exists) : \E done : Stepped(done, new)
  BY DEF TrainerStepRaises
<1>2. /\ steps' \in Values /\ exists' \in SUBSET Names /\ exists \subseteq exists'
      /\ tensor' \in [Names -> Values]
  BY <1>1, SteppedFields
<1>3. /\ active' \in Transactions /\ active'.phase = active.phase
      /\ active'.names = active.names /\ active'.spoiled
  BY SpoilFields DEF TrainerStepRaises
<1>4. Typed' /\ Registered'
  BY <1>2, <1>3 DEF TrainerStepRaises, OffloadInv, Typed, Registered
<1>5. Snapshot'
  BY <1>2, <1>3 DEF TrainerStepRaises, OffloadInv, Snapshot
<1>6. Stages' /\ Transferred'
  BY DEF TrainerStepRaises, Idle, Stages, Transferred, Working
<1>7. QED
  BY <1>4, <1>5, <1>6 DEF OffloadInv

\* A rollback ends the transaction.
LEMMA RollbackKeeps ==
    ASSUME OffloadInv, Rollback
    PROVE  OffloadInv'
<1> USE NoneAssumption
<1>1. /\ active # None /\ call.names = active.names
      /\ \A n \in call.names : n \in Names /\ snap[n] # None /\ block[n] # None
  BY DEF Rollback, OffloadInv, Typed, Stages, Snapshot, Transactions
<1>2. /\ mirror' \in [Names -> Values \cup {None}] /\ tensor' \in [Names -> Values]
      /\ \A n \in Names : mirror'[n] # None <=> mirror[n] # None
  BY <1>1 DEF Rollback, Undone, OffloadInv, Typed, Registered
<1>3. Typed' /\ Registered'
  BY <1>2 DEF Rollback, OffloadInv, Typed, Registered
<1>4. Snapshot' /\ Stages' /\ Transferred'
  BY DEF Rollback, Snapshot, Stages, Transferred, Working
<1>5. QED
  BY <1>3, <1>4 DEF OffloadInv

\* Optimizer state that nothing was done to satisfies the invariant.
LEMMA OffloadInit ==
    ASSUME Init
    PROVE  OffloadInv
<1>1. 0 \in Values
  BY StateAssumption DEF Values
<1>2. QED
  BY <1>1, NoneAssumption DEF Init, OffloadInv, Typed, Registered, Snapshot, Stages,
     Transferred, Working

\* Every step of the adapter and of the trainer keeps the invariant.
LEMMA OffloadStep ==
    ASSUME OffloadInv, [Next]_vars
    PROVE  OffloadInv'
<1>1. CASE UNCHANGED vars
  BY <1>1 DEF vars, dataVars, OffloadInv, Typed, Registered, Snapshot, InRollback, OneMoment,
              Stages, Working, Transferred, HandleOf
<1>2. CASE Begin
  BY <1>2, CallStepKeeps, CallBeginKeeps, CallPrefetchKeeps, CallCommitKeeps, CallRollbackKeeps
     DEF Begin
<1>3. CASE BatchCalls
  BY <1>3, CallBatchKeeps, CallWaitKeeps, DropBatchKeeps, MarkKeeps DEF BatchCalls
<1>4. CASE Transfer
  BY <1>4, SubmitKeeps, SubmitRaisesKeeps, SubmitRecordRaisesKeeps, WaitKeeps, WaitFailsKeeps,
     WaitUnansweredKeeps, RestoreKeeps, CaptureKeeps, CopyRaisesKeeps, FinishPrefetchKeeps,
     FinishEvictKeeps DEF Transfer
<1>5. CASE Optimizer
  BY <1>5, OptimizerStepKeeps, OptimizerRaisesKeeps, TrainerStepKeeps, TrainerStepRaisesKeeps,
     RollbackKeeps DEF Optimizer
<1>6. QED
  BY <1>1, <1>2, <1>3, <1>4, <1>5 DEF Next

-----------------------------------------------------------------------------
\* The invariant of a transaction (transaction.py, torch_optimizer.py) holds in every
\* state: what a call has done so far is what its stage says.
THEOREM OffloadInvariance == Spec => []OffloadInv
<1>1. Init => OffloadInv
  BY OffloadInit
<1>2. OffloadInv /\ [Next]_vars => OffloadInv'
  BY OffloadStep
<1>3. QED
  BY <1>1, <1>2, PTL DEF Spec

\* A transaction's phase is reached only by transfers that completed, and its tensors
\* and mirrors are equal when it ends (transaction.py:75-114, torch_optimizer.py:245-256).
THEOREM PhasesAreEarned == Spec => PhaseIsEarned
<1> DEFINE Moved == call # None /\ call.by # "batch" /\ call.stage = "finish" =>
                        \A n \in call.names :
                            /\ block[n].op = call.op /\ block[n].state = Place[call.op]
                            /\ HandleOf(n).receipt = "complete"
           Settled == active # None /\ active' = None =>
                          \A n \in active.names :
                              /\ tensor'[n] = mirror'[n]
                              /\ call.stage = "rollback" => mirror'[n] = snap[n]
<1>1. ASSUME OffloadInv
      PROVE  Moved
  BY <1>1 DEF OffloadInv, Transferred, Working
<1>2. ASSUME OffloadInv, Next
      PROVE  Settled
  <2> SUFFICES ASSUME active # None, active' = None, NEW n \in active.names
               PROVE  /\ tensor'[n] = mirror'[n]
                      /\ call.stage = "rollback" => mirror'[n] = snap[n]
    OBVIOUS
  <2>1. n \in Names
    BY <1>2 DEF OffloadInv, Typed, Transactions
  <2>2. FinishEvict \/ Rollback
    <3>1. OffloadInv /\ BeginTransaction(exists) => active' # None
      BY BeginFields, NoneAssumption
    <3>2. \A S \in SUBSET exists : OffloadInv /\ BeginTransaction(S) => active' # None
      BY BeginFields, NoneAssumption
    <3>3. SpoilWith => active' # None
      BY <1>2, SpoilFields, NoneAssumption
    <3>4. CASE Begin
      BY <1>2, <3>1, <3>2, <3>4 DEF Begin, CallStep, CallBegin, CallPrefetch, CallCommit, CallRollback
    <3>5. CASE BatchCalls
      BY <3>5 DEF BatchCalls, CallBatch, CallWait, DropBatch, Mark
    <3>6. FinishPrefetch => active' # None
      <4>1. FinishPrefetch /\ call.by # "batch" =>
                active' \in Transactions
        BY <1>2 DEF FinishPrefetch, OffloadInv, Typed, Transactions
      <4>2. QED
        BY <4>1, NoneAssumption DEF FinishPrefetch
    <3>7. CASE Transfer
      BY <3>3, <3>6, <3>7 DEF Transfer, Submit, SubmitRaises, SubmitRecordRaises, Wait, WaitFails,
         WaitUnanswered, Restore, Capture, CopyRaises
    <3>8. CASE Optimizer
      BY <3>3, <3>8 DEF Optimizer, OptimizerStep, OptimizerRaises, TrainerStep, TrainerStepRaises
    <3>9. QED
      BY <1>2, <3>4, <3>5, <3>7, <3>8 DEF Next
  <2>3. CASE FinishEvict
    BY <1>2, <2>3 DEF FinishEvict, OffloadInv, Stages, Working, dataVars
  <2>4. CASE Rollback
    BY <1>2, <2>1, <2>4, NoneAssumption
       DEF Rollback, Undone, OffloadInv, Typed, Stages, Snapshot
  <2>5. QED
    BY <2>2, <2>3, <2>4
<1>3. OffloadInv /\ [Next]_vars => [Moved /\ Settled]_vars
  BY <1>1, <1>2
<1>4. QED
  BY <1>3, OffloadInvariance, PTL DEF Spec, PhaseIsEarned

-----------------------------------------------------------------------------
\* The adapter implements AtomicState.

Open == IF active = None THEN None ELSE active.names

\* What a step that leaves the mirrors, the snapshot and the names of the open
\* transaction alone shows of the state.
LEMMA NothingMoves ==
    ASSUME OffloadInv, OffloadInv', UNCHANGED <<mirror, snap>>, Open' = Open
    PROVE  UNCHANGED <<Surviving, Open>>
  BY NoneAssumption DEF Surviving, Open, OffloadInv, Typed, Transactions

\* Beginning a transaction: the mirrors of the one it replaces are untouched, and new
\* names enter with the value they have.
LEMMA BeginIsAtomic ==
    ASSUME OffloadInv, NEW S \in SUBSET exists, BeginTransaction(S),
           active # None => active.phase = "active"
    PROVE  Atomic!Begin(S)
<1> USE NoneAssumption
<1>1. active' # None /\ active'.names = S
  BY BeginFields
<1>2. \A n \in Names : Surviving'[n] = mirror'[n]
  BY <1>1, BeginFields DEF Surviving
<1>3. \A n \in Names : Surviving[n] # None => block[n] # None /\ Surviving[n] = mirror[n]
  BY DEF Surviving, OffloadInv, Typed, Registered, Snapshot
<1>4. \A n \in Names : Surviving[n] # None => Surviving'[n] = Surviving[n]
  BY <1>2, <1>3, BeginFields
<1>5. \A n \in S : Surviving'[n] # None
  BY <1>2, BeginFields DEF OffloadInv, Typed
<1>6. QED
  BY <1>1, <1>4, <1>5 DEF Atomic!Begin

\* A capture outside of a transaction saves what the names of the batch hold.
LEMMA CaptureIsAtomic ==
    ASSUME OffloadInv, call # None, call.by = "batch", call.stage = "capture",
           NEW S \in SUBSET call.names,
           mirror' = Captured(S), UNCHANGED <<snap, active>>
    PROVE  /\ S \in SUBSET {n \in Names : Surviving[n] # None}
           /\ Atomic!Offload(S)
<1>1. active = None
  BY DEF OffloadInv, Stages
<1>2. \A n \in Names : Surviving[n] = mirror[n] /\ Surviving'[n] = mirror'[n]
  BY <1>1 DEF Surviving
<1>3. \A n \in S : n \in Names /\ mirror[n] # None
  BY CallNamesRegistered DEF OffloadInv, Registered
<1>4. \A n \in Names \ S : mirror'[n] = mirror[n]
  BY DEF Captured
<1>5. QED
  BY <1>1, <1>2, <1>3, <1>4 DEF Atomic!Offload

\* A capture in a transaction touches only what its snapshot keeps.
LEMMA CaptureIsHidden ==
    ASSUME OffloadInv, call # None, call.by # "batch", NEW S \in SUBSET call.names,
           mirror' = Captured(S), UNCHANGED snap, Open' = Open
    PROVE  UNCHANGED <<Surviving, Open>>
<1>1. active # None /\ call.names = active.names
  BY DEF OffloadInv, Stages
<1>2. active' # None /\ active'.names = active.names
  BY <1>1, NoneAssumption DEF Open, OffloadInv, Typed, Transactions
<1>3. \A n \in Names \ active.names : mirror'[n] = mirror[n]
  BY <1>1 DEF Captured
<1>4. QED
  BY <1>1, <1>2, <1>3 DEF Surviving

\* The end of a transaction's eviction commits: its mirrors are its tensors, and those
\* are of one moment.
LEMMA FinishEvictIsAtomic ==
    ASSUME OffloadInv, OffloadInv', FinishEvict
    PROVE  Atomic!Commit \/ UNCHANGED <<Surviving, Open>>
<1> USE NoneAssumption
<1>1. CASE call.by = "batch"
  BY <1>1, NothingMoves DEF FinishEvict, dataVars, Open
<1>2. CASE call.by # "batch"
  <2>1. /\ active # None /\ active' = None /\ active \in Transactions
        /\ UNCHANGED <<tensor, mirror, snap>>
    BY <1>2 DEF FinishEvict, dataVars, OffloadInv, Stages, Typed
  <2>2. \A n \in active.names : mirror[n] = tensor[n]
    BY <1>2 DEF FinishEvict, OffloadInv, Stages, Working
  <2>3. OneMoment(active.names)
    BY <1>2 DEF FinishEvict, OffloadInv, Stages, Working, InRollback, Snapshot
  <2>4. Surviving' = mirror
    BY <2>1 DEF Surviving, OffloadInv, Typed
  <2>5. Surviving = [n \in Names |-> IF n \in active.names THEN snap[n] ELSE mirror[n]]
    BY <2>1 DEF Surviving
  <2>6. CASE \A n \in active.names : tensor[n] = snap[n]
    <3>1. Surviving' = Surviving
      BY <2>2, <2>4, <2>5, <2>6 DEF OffloadInv, Typed
    <3>2. QED
      BY <2>1, <3>1 DEF Atomic!Commit, Transactions
  <2>7. CASE \E v \in Values : \A n \in active.names : tensor[n] = v
    <3>1. PICK v \in Values : \A n \in active.names : tensor[n] = v
      BY <2>7
    <3>2. Surviving' = [n \in Names |-> IF n \in active.names THEN v ELSE Surviving[n]]
      BY <2>2, <2>4, <2>5, <3>1 DEF OffloadInv, Typed
    <3>3. QED
      BY <2>1, <3>2 DEF Atomic!Commit, Transactions
  <2>8. QED
    BY <2>3, <2>6, <2>7 DEF OneMoment
<1>3. QED
  BY <1>1, <1>2

\* The rollback puts the snapshot back.
LEMMA RollbackIsAtomic ==
    ASSUME OffloadInv, Rollback
    PROVE  Atomic!Rollback
<1>1. /\ active # None /\ call.names = active.names /\ active' = None
      /\ active.names \in SUBSET Names
      /\ \A n \in active.names : snap[n] # None
  BY DEF Rollback, OffloadInv, Typed, Stages, Snapshot, Transactions
<1>2. Surviving' = mirror'
  BY <1>1 DEF Surviving, Rollback, Undone
<1>3. mirror' = Surviving
  BY <1>1 DEF Surviving, Rollback, Undone
<1>4. QED
  BY <1>1, <1>2, <1>3, NoneAssumption DEF Atomic!Rollback

\* Every step is a step of the atomic transactions, or a stutter.
LEMMA AtomicStep ==
    ASSUME OffloadInv, [Next]_vars
    PROVE  [Atomic!Next]_<<Surviving, Open>>
<1> USE NoneAssumption
<1>a. OffloadInv'
  BY OffloadStep
<1>1. CASE UNCHANGED vars
  BY <1>1, <1>a, NothingMoves DEF vars, dataVars, Open
<1>2. ASSUME NEW S \in SUBSET exists, BeginTransaction(S), active # None => active.phase = "active"
      PROVE  Atomic!Next
  <2>1. S \in SUBSET Names
    BY DEF OffloadInv, Typed
  <2>2. QED
    BY <1>2, <2>1, BeginIsAtomic DEF Atomic!Next
<1>3. CASE Begin
  <2>1. CASE CallStep \/ \E S \in SUBSET exists : CallBegin(S)
    BY <1>2, <2>1 DEF CallStep, CallBegin, MayBegin
  <2>2. CASE CallPrefetch
    <3>1. CASE active = None /\ BeginTransaction(exists)
      BY <1>2, <3>1
    <3>2. CASE UNCHANGED <<mirror, snap, block, active>>
      BY <3>2, <1>a, NothingMoves DEF Open
    <3>3. QED
      BY <2>2, <3>1, <3>2 DEF CallPrefetch
  <2>3. CASE CallCommit \/ CallRollback
    BY <2>3, <1>a, NothingMoves DEF CallCommit, CallRollback, dataVars, Open
  <2>4. QED
    BY <1>3, <2>1, <2>2, <2>3 DEF Begin
<1>4. CASE BatchCalls
  BY <1>4, <1>a, NothingMoves DEF BatchCalls, CallBatch, CallWait, DropBatch, Mark, dataVars, Open
<1>5. active # None /\ SpoilWith => Open' = Open
  BY SpoilFields DEF Open
<1>6. CASE Transfer
  <2>1. CASE \/ Submit \/ SubmitRaises \/ SubmitRecordRaises
             \/ Wait \/ WaitFails \/ WaitUnanswered \/ Restore
    BY <2>1, <1>a, NothingMoves DEF Submit, SubmitRaises, SubmitRecordRaises, Wait, WaitFails,
       WaitUnanswered, Restore, dataVars, Open
  <2>2. CASE Capture
    <3>1. CASE call.by = "batch"
      BY <2>2, <3>1, CaptureIsAtomic DEF Capture, Atomic!Next
    <3>2. CASE call.by # "batch"
      BY <2>2, <3>2, CaptureIsHidden DEF Capture, Open
    <3>3. QED
      BY <3>1, <3>2
  <2>3. CASE CopyRaises
    <3>1. Open' = Open
      BY <1>5, <2>3 DEF CopyRaises, OffloadInv, Stages, Open
    <3>2. CASE call.stage = "restore"
      BY <2>3, <3>1, <3>2, <1>a, NothingMoves DEF CopyRaises
    <3>3. CASE call.stage = "capture" /\ call.by = "batch"
      BY <2>3, <3>3, CaptureIsAtomic DEF CopyRaises, Atomic!Next
    <3>4. CASE call.stage = "capture" /\ call.by # "batch"
      BY <2>3, <3>1, <3>4, CaptureIsHidden DEF CopyRaises
    <3>5. QED
      BY <2>3, <3>2, <3>3, <3>4 DEF CopyRaises
  <2>4. CASE FinishPrefetch
    <3>1. Open' = Open
      BY <2>4 DEF FinishPrefetch, OffloadInv, Typed, Transactions, Stages, Open
    <3>2. QED
      BY <2>4, <3>1, <1>a, NothingMoves DEF FinishPrefetch, dataVars
  <2>5. CASE FinishEvict
    BY <2>5, <1>a, FinishEvictIsAtomic DEF Atomic!Next
  <2>6. QED
    BY <1>6, <2>1, <2>2, <2>3, <2>4, <2>5 DEF Transfer
<1>7. CASE Optimizer
  <2>1. CASE OptimizerStep \/ OptimizerRaises \/ TrainerStep
    BY <2>1, <1>a, NothingMoves DEF OptimizerStep, OptimizerRaises, TrainerStep, Open
  <2>2. CASE TrainerStepRaises
    BY <1>5, <2>2, <1>a, NothingMoves DEF TrainerStepRaises
  <2>3. CASE Rollback
    BY <2>3, RollbackIsAtomic DEF Atomic!Next
  <2>4. QED
    BY <1>7, <2>1, <2>2, <2>3 DEF Optimizer
<1>8. QED
  BY <1>1, <1>3, <1>4, <1>6, <1>7 DEF Next

\* However a step fails, the names of its transaction keep the values from before it or
\* all take those of one later optimizer step: the adapter implements AtomicState
\* (transaction.py, torch_optimizer.py:419-453).
THEOREM StepsAreAtomic == Spec => StepIsAtomic
<1>1. Init => Atomic!Init
  BY DEF Init, Atomic!Init, Surviving
<1>2. OffloadInv /\ [Next]_vars => [Atomic!Next]_<<Surviving, Open>>
  BY AtomicStep
<1>3. QED
  BY <1>1, <1>2, OffloadInvariance, PTL DEF Spec, StepIsAtomic, Atomic!Spec, Open
=============================================================================
