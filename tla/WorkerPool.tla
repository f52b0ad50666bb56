------------------------------ MODULE WorkerPool ------------------------------
(***************************************************************************)
(* WorkerAsyncExecutionPool (turbobus/worker/lifecycle.py): the threads of *)
(* a worker that execute transfers, against the callers that submit and    *)
(* cancel them and the one that closes the pool.                           *)
(*                                                                         *)
(* A step is one critical section of the pool's lock, or one operation on  *)
(* a Future, which the code performs without the lock.  The Future and the *)
(* ThreadPoolExecutor are Python's (external): a Future can be cancelled   *)
(* until a thread takes it, and threads take the oldest pending one.       *)
(* Executions are numbered in the order in which the pool accepted them.   *)
(***************************************************************************)
EXTENDS Integers, FiniteSets, Sequences, SequencesExt, Filters

CONSTANTS
    Transfers,      \* transfer ids
    Callers,        \* threads that call cancel_transfer
    MaxExecutions,  \* bound on accepted submissions
    MaxWorkers,     \* max_workers
    MaxCancels,     \* how often a client cancels the same handle
    HistoryLimit,   \* worker_terminal_history_entries
    None

Executions == 1..MaxExecutions

\* What a caller knows between future.cancel() and the lock.
Canceller == [execution : Executions, canceled : BOOLEAN]

ASSUME PoolAssumption ==
    /\ MaxExecutions \in Nat /\ MaxWorkers \in Nat \ {0}
    /\ MaxCancels \in Nat /\ HistoryLimit \in Nat
    /\ IsFiniteSet(Transfers)
    /\ None \notin Executions \cup Transfers \cup Canceller

VARIABLES
    transfer,   \* the transfer each execution is for
    future,     \* its Future and its thread: "none", "pending", Busy, "finished", or "cancelled"
    queued, running, futures,   \* _queued, _running and _futures
    terminal,   \* _terminal, in the order of the OrderedDict
    cancels,    \* how often each handle has been cancelled
    caller,     \* a caller between future.cancel() and the lock
    cancelQueued, \* the argument of close()
    phase,      \* close(): "open", "canceling", "joining", "closed"; _closed unless "open"
    snapshot,   \* queued_snapshot of close()
    targets     \* its futures_to_cancel

vars == <<transfer, future, queued, running, futures, terminal, cancels, caller,
          cancelQueued, phase, snapshot, targets>>
tables == <<queued, running, futures, terminal>>
closing == <<cancelQueued, phase, snapshot, targets>>
calls == <<cancels, caller>>

\* "recorded": the thread has left its last critical section, and has not yet
\* set the result of the Future.
Busy == {"starting", "executing", "recorded"}

Init ==
    /\ transfer = [k \in Executions |-> None]
    /\ future = [k \in Executions |-> "none"]
    /\ queued = [t \in Transfers |-> None]
    /\ running = [t \in Transfers |-> None]
    /\ futures = [t \in Transfers |-> None]
    /\ terminal = <<>>
    /\ cancels = [k \in Executions |-> 0]
    /\ caller = [c \in Callers |-> None]
    /\ phase = "open" /\ cancelQueued = FALSE
    /\ snapshot = [t \in Transfers |-> None]
    /\ targets = [t \in Transfers |-> None]

In(states) == {k \in Executions : future[k] \in states}

\* _record_terminal_locked: a transfer has one record, the newest ones are kept.
RecordTerminal(history, t, k, state) ==
    LET others == Filter(history, {i \in DOMAIN history : history[i].transfer # t})
        grown  == Append(others, [transfer |-> t, execution |-> k, state |-> state])
        excess == Len(grown) - HistoryLimit
    IN IF Len(grown) > HistoryLimit THEN SubSeq(grown, excess + 1, Len(grown)) ELSE grown

-----------------------------------------------------------------------------
\* Submission and execution.

\* Mutation of Submit: only the queue is looked at.
SubmitBesideRunning(t, k) ==
    /\ phase = "open"
    /\ queued[t] = None
    /\ future[k] = "none" /\ \A j \in 1..(k - 1) : future[j] # "none"
    /\ transfer' = [transfer EXCEPT ![k] = t]
    /\ future' = [future EXCEPT ![k] = "pending"]
    /\ queued' = [queued EXCEPT ![t] = k]
    /\ futures' = [futures EXCEPT ![t] = k]
    /\ UNCHANGED <<running, terminal, calls, closing>>

\* submit
Submit(t, k) ==
    /\ phase = "open"
    /\ queued[t] = None
    /\ running[t] = None
    /\ future[k] = "none" /\ \A j \in 1..(k - 1) : future[j] # "none"
    /\ transfer' = [transfer EXCEPT ![k] = t]
    /\ future' = [future EXCEPT ![k] = "pending"]
    /\ queued' = [queued EXCEPT ![t] = k]
    /\ futures' = [futures EXCEPT ![t] = k]
    /\ UNCHANGED <<running, terminal, calls, closing>>

\* Mutation of Take: the threads stop when the pool is closed.
TakeWhileOpen(k) ==
    /\ phase = "open"
    /\ future[k] = "pending"
    /\ \A j \in 1..(k - 1) : future[j] # "pending"
    /\ Cardinality(In(Busy)) < MaxWorkers
    /\ future' = [future EXCEPT ![k] = "starting"]
    /\ UNCHANGED <<transfer, tables, calls, closing>>

\* A free thread of the ThreadPoolExecutor takes the oldest pending execution.
Take(k) ==
    /\ future[k] = "pending"
    /\ \A j \in 1..(k - 1) : future[j] # "pending"
    /\ Cardinality(In(Busy)) < MaxWorkers
    /\ future' = [future EXCEPT ![k] = "starting"]
    /\ UNCHANGED <<transfer, tables, calls, closing>>

\* The first critical section of _run_transfer.
Start(k) ==
    /\ future[k] = "starting"
    /\ future' = [future EXCEPT ![k] = "executing"]
    /\ queued' = [queued EXCEPT ![transfer[k]] = None]
    /\ running' = [running EXCEPT ![transfer[k]] = k]
    /\ UNCHANGED <<transfer, futures, terminal, calls, closing>>

\* The last critical section of _run_transfer, which is reached by an exception
\* of the executor too ("failed").
Finish(k, result) ==
    /\ future[k] = "executing"
    /\ future' = [future EXCEPT ![k] = "recorded"]
    /\ running' = [running EXCEPT ![transfer[k]] = None]
    /\ futures' = [futures EXCEPT ![transfer[k]] = None]
    /\ terminal' = RecordTerminal(terminal, transfer[k], k, result)
    /\ UNCHANGED <<transfer, queued, calls, closing>>

\* The executor sets the result: wait() returns, and the thread is free.
Resolve(k) ==
    /\ future[k] = "recorded"
    /\ future' = [future EXCEPT ![k] = "finished"]
    /\ UNCHANGED <<transfer, tables, calls, closing>>

-----------------------------------------------------------------------------
\* Cancellation.

Cancel(k) == [future EXCEPT ![k] = IF @ = "pending" THEN "cancelled" ELSE @]

\* cancel_transfer, first half: future.cancel() succeeds on a pending Future
\* and on one that is already cancelled.
CancelFuture(c, k) ==
    /\ caller[c] = None
    /\ future[k] # "none" /\ cancels[k] < MaxCancels
    /\ cancels' = [cancels EXCEPT ![k] = @ + 1]
    /\ future' = Cancel(k)
    /\ caller' = [caller EXCEPT ![c] =
            [execution |-> k, canceled |-> future'[k] = "cancelled"]]
    /\ UNCHANGED <<transfer, tables, closing>>

\* Mutation of CancelRecord: a refused cancellation is recorded as well.
CancelRecordAlways(c) ==
    /\ caller[c] # None
    /\ LET k == caller[c].execution
           t == transfer[k]
       IN /\ queued' = [queued EXCEPT ![t] = None]
          /\ futures' = [futures EXCEPT ![t] = None]
          /\ terminal' = RecordTerminal(terminal, t, k, "canceled")
    /\ caller' = [caller EXCEPT ![c] = None]
    /\ UNCHANGED <<transfer, future, running, cancels, closing>>

\* cancel_transfer, second half: the entries of the transfer are dropped.
CancelRecord(c) ==
    /\ caller[c] # None
    /\ LET k == caller[c].execution
           t == transfer[k]
       IN IF caller[c].canceled
          THEN /\ queued' = [queued EXCEPT ![t] = None]
               /\ futures' = [futures EXCEPT ![t] = None]
               /\ terminal' = RecordTerminal(terminal, t, k, "canceled")
          ELSE UNCHANGED <<queued, futures, terminal>>
    /\ caller' = [caller EXCEPT ![c] = None]
    /\ UNCHANGED <<transfer, future, running, cancels, closing>>

DrainTerminal ==
    /\ terminal # <<>>
    /\ terminal' = <<>>
    /\ UNCHANGED <<transfer, future, queued, running, futures, calls, closing>>

-----------------------------------------------------------------------------
\* close

\* First critical section: nothing is accepted from here on.
CloseBegin(cancel) ==
    /\ phase = "open"
    /\ phase' = IF cancel THEN "canceling" ELSE "joining"
    /\ cancelQueued' = cancel
    /\ snapshot' = queued
    /\ targets' = [t \in Transfers |-> IF queued[t] # None THEN futures[t] ELSE None]
    /\ UNCHANGED <<transfer, future, tables, calls>>

\* The pending futures are cancelled one by one, by the loop over
\* futures_to_cancel and by the executor's shutdown(cancel_futures=True).
CloseCancel(k) ==
    /\ phase = "canceling"
    /\ future[k] = "pending"
    /\ future' = Cancel(k)
    /\ UNCHANGED <<transfer, tables, calls, closing>>

CloseCanceled ==
    /\ phase = "canceling"
    /\ In({"pending"}) = {}
    /\ phase' = "joining"
    /\ UNCHANGED <<transfer, future, tables, calls, cancelQueued, snapshot, targets>>

\* The transfers that _record_close_cancelled_queued_locked ends: still queued,
\* and cancelled as far as their Future is known.
CloseCancelled ==
    {t \in Transfers : /\ cancelQueued
                       /\ snapshot[t] # None /\ queued[t] # None
                       /\ targets[t] # None => future[targets[t]] = "cancelled"}

\* The records of _record_close_cancelled_queued_locked, one after the other.
CloseRecords(history, T) ==
    LET order == SetToSeq(T)
        recorded[i \in 0..Len(order)] ==
            IF i = 0 THEN history
            ELSE RecordTerminal(recorded[i - 1], order[i], snapshot[order[i]], "canceled")
    IN recorded[Len(order)]

\* Mutation of CloseEnd: shutdown does not wait for the threads.
CloseEndAtOnce ==
    /\ phase = "joining"
    /\ LET T == CloseCancelled
       IN /\ queued' = [t \in Transfers |-> IF t \in T THEN None ELSE queued[t]]
          /\ futures' = [t \in Transfers |-> IF t \in T THEN None ELSE futures[t]]
          /\ terminal' = CloseRecords(terminal, T)
    /\ phase' = "closed"
    /\ UNCHANGED <<transfer, future, running, calls, cancelQueued, snapshot, targets>>

\* shutdown(wait=True) returns when every thread is done; the last critical
\* section then drops what was cancelled in the queue.
CloseEnd ==
    /\ phase = "joining"
    /\ In({"pending"} \cup Busy) = {}
    /\ LET T == CloseCancelled
       IN /\ queued' = [t \in Transfers |-> IF t \in T THEN None ELSE queued[t]]
          /\ futures' = [t \in Transfers |-> IF t \in T THEN None ELSE futures[t]]
          /\ terminal' = CloseRecords(terminal, T)
    /\ phase' = "closed"
    /\ UNCHANGED <<transfer, future, running, calls, cancelQueued, snapshot, targets>>

-----------------------------------------------------------------------------
Thread(k) ==
    Take(k) \/ Start(k) \/ Resolve(k) \/ \E result \in {"complete", "failed"} : Finish(k, result)
Closer == CloseCanceled \/ CloseEnd \/ \E k \in Executions : CloseCancel(k)

Next ==
    \/ \E t \in Transfers, k \in Executions : Submit(t, k)
    \/ \E k \in Executions : Thread(k)
    \/ \E c \in Callers, k \in Executions : CancelFuture(c, k)
    \/ \E c \in Callers : CancelRecord(c)
    \/ DrainTerminal
    \/ \E cancel \in BOOLEAN : CloseBegin(cancel)
    \/ Closer

\* The operating system runs every thread, and a copy ends; nobody has to
\* submit, cancel or close.
Fairness ==
    /\ \A k \in Executions : WF_vars(Thread(k))
    /\ \A c \in Callers : WF_vars(CancelRecord(c))
    /\ WF_vars(Closer)

Spec == Init /\ [][Next]_vars /\ Fairness

-----------------------------------------------------------------------------
\* Properties.

\* The guard of submit does what its message says ("worker transfer is already
\* queued or running"): a transfer has at most one execution that waits or runs,
\* whatever cancels and threads do in between.
OneLiveExecution ==
    \A j, k \in In({"pending", "starting", "executing"}) :
        transfer[j] = transfer[k] => j = k

\* The tables that submit, describe and close rely on show the executions as
\* they are: a live one is alone and found under its transfer, and an entry that is
\* left behind belongs to an execution that some canceller or close is about to
\* drop (lifecycle.py:617-627).
TablesShowExecutions ==
    /\ OneLiveExecution
    /\ \A k \in In({"pending", "starting"}) : queued[transfer[k]] = k
    /\ \A k \in In({"pending", "starting", "executing"}) : futures[transfer[k]] = k
    /\ \A t \in Transfers :
        /\ futures[t] # None => futures[t] \in {queued[t], running[t]}
        /\ running[t] # None => future[running[t]] = "executing" /\ transfer[running[t]] = t
        /\ queued[t] # None /\ future[queued[t]] = "cancelled" =>
              \/ \E c \in Callers : caller[c] = [execution |-> queued[t], canceled |-> TRUE]
              \/ cancelQueued /\ phase # "closed"

\* The terminal history tells the truth and stays within its limit: a record
\* belongs to an execution of its transfer that ended in that way, and no later
\* execution of that transfer has ended.
HistoryIsTruthful ==
    /\ Len(terminal) <= HistoryLimit
    /\ \A i \in DOMAIN terminal :
        LET r == terminal[i]
        IN /\ transfer[r.execution] = r.transfer
           /\ future[r.execution] \in IF r.state = "canceled" THEN {"cancelled"}
                                      ELSE {"recorded", "finished"}
           /\ \A k \in In({"recorded", "finished"}) :
                 transfer[k] = r.transfer => k <= r.execution

\* When close returns, no thread executes anything, and the tables are empty but
\* for a transfer whose canceller has not come to record it: what was queued has
\* run or is recorded as canceled.
CloseLeavesNothing ==
    phase = "closed" =>
        /\ In({"pending"} \cup Busy) = {}
        /\ \A t \in Transfers :
              /\ running[t] = None
              /\ \/ queued[t] = None /\ futures[t] = None
                 \/ \E c \in Callers : caller[c] = [execution |-> queued[t], canceled |-> TRUE]

\* Every accepted execution ends, so that wait() returns, and so does close
\* (lifecycle.py:647, :732).
ExecutionsEnd ==
    /\ \A k \in Executions : future[k] = "pending" ~> future[k] \in {"cancelled", "finished"}
    /\ phase \in {"canceling", "joining"} ~> phase = "closed"
=============================================================================
