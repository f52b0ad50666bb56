-------------------------- MODULE WorkerPoolProofs --------------------------
(***************************************************************************)
(* Proofs about the worker's execution pool, for any number of executions, *)
(* transfers, threads and callers.  The hypothesis of the theorems is that *)
(* a handle is cancelled at most once: a second cancel of the same handle  *)
(* drops the entries of a newer execution of its transfer.                 *)
(***************************************************************************)
EXTENDS WorkerPool, DataLemmas

CancelOnce == MaxCancels <= 1

Entry == Executions \cup {None}

\* The type invariant, but for the history.
Typed ==
    /\ transfer \in [Executions -> Transfers \cup {None}]
    /\ future \in [Executions -> {"none", "pending", "finished", "cancelled"} \cup Busy]
    /\ queued \in [Transfers -> Entry]
    /\ running \in [Transfers -> Entry]
    /\ futures \in [Transfers -> Entry]
    /\ cancels \in [Executions -> Nat]
    /\ caller \in [Callers -> {None} \cup Canceller]
    /\ cancelQueued \in BOOLEAN
    /\ phase \in {"open", "canceling", "joining", "closed"}
    /\ snapshot \in [Transfers -> Entry]
    /\ targets \in [Transfers -> Entry]

\* An entry belongs to an execution of its transfer that is where the table says.
Listed ==
    \A t \in Transfers :
        /\ queued[t] # None =>
              /\ transfer[queued[t]] = t
              /\ future[queued[t]] \in {"pending", "starting", "cancelled"}
              /\ running[t] = None
        /\ running[t] # None => transfer[running[t]] = t /\ future[running[t]] = "executing"
        /\ futures[t] # None => futures[t] \in {queued[t], running[t]}

\* A live execution is found under its transfer, and so is one that close has
\* cancelled, until close ends.
Found ==
    \A k \in Executions :
        /\ future[k] # "none" => transfer[k] \in Transfers
        /\ future[k] \in {"pending", "starting"} => queued[transfer[k]] = k
        /\ future[k] = "executing" => running[transfer[k]] = k
        /\ future[k] \in {"pending", "starting", "executing"} => futures[transfer[k]] = k
        /\ future[k] = "cancelled" /\ cancels[k] = 0 =>
              queued[transfer[k]] = k \/ phase = "closed"

\* A canceller has its execution for itself, and finds the entry it is about to
\* drop unless close was there before.
Canceling ==
    \A c \in Callers : caller[c] # None =>
        LET k == caller[c].execution
        IN /\ future[k] # "none"
           /\ cancels[k] > 0
           /\ \A b \in Callers : caller[b] # None /\ caller[b].execution = k => b = c
           /\ caller[c].canceled =>
                 /\ future[k] = "cancelled"
                 /\ queued[transfer[k]] = k \/ phase = "closed"

\* A cancelled execution keeps its entry only as long as somebody is about to drop it.
Dropped ==
    \A t \in Transfers :
        queued[t] # None /\ future[queued[t]] = "cancelled" =>
            \/ \E c \in Callers : caller[c] = [execution |-> queued[t], canceled |-> TRUE]
            \/ cancelQueued /\ phase # "closed"

\* What close has seen is all that is still in the queue, and nothing is left to
\* execute once it has joined the threads.
Closing ==
    /\ phase = "open" => ~cancelQueued
    /\ phase = "canceling" => cancelQueued
    /\ phase # "open" =>
          \A t \in Transfers : /\ queued[t] # None => queued[t] = snapshot[t]
                               /\ targets[t] # None => targets[t] = snapshot[t]
    /\ phase = "closed" => In({"pending"} \cup Busy) = {}

PoolInv == Typed /\ Listed /\ Found /\ Canceling /\ Dropped /\ Closing

\* submit: the transfer had no entry in the queue and none in the running table.
LEMMA SubmitKeeps ==
    ASSUME PoolInv, NEW t \in Transfers, NEW k \in Executions, Submit(t, k)
    PROVE  PoolInv'
<1> USE PoolAssumption DEF PoolInv, Typed, Entry, Canceller, tables, closing, calls, Submit
<1>1. Typed'
  OBVIOUS
<1>2. Listed'
  BY DEF Listed
<1>3. Found'
  BY DEF Found
<1>4. Canceling'
  BY DEF Canceling
<1>5. Dropped'
  BY DEF Dropped
<1>6. Closing'
  BY DEF Closing
<1>7. QED
  BY <1>2, <1>3, <1>4, <1>5, <1>6

\* A thread takes a pending execution.
LEMMA TakeKeeps ==
    ASSUME PoolInv, NEW k \in Executions, Take(k)
    PROVE  PoolInv'
<1> USE PoolAssumption DEF PoolInv, Typed, Entry, Canceller, tables, closing, calls, Take
<1>1. Typed'
  BY DEF Busy
<1>2. Listed'
  BY DEF Listed
<1>3. Found'
  BY DEF Found
<1>4. Canceling'
  BY DEF Canceling
<1>5. Dropped'
  BY DEF Dropped
<1>6. Closing'
  BY DEF Closing, In
<1>7. QED
  BY <1>1, <1>2, <1>3, <1>4, <1>5, <1>6

\* The thread moves its entry from the queue to the running table.
LEMMA StartKeeps ==
    ASSUME PoolInv, NEW k \in Executions, Start(k)
    PROVE  PoolInv'
<1> USE PoolAssumption DEF PoolInv, Typed, Entry, Canceller, tables, closing, calls, Start
<1>1. Typed'
  BY DEF Busy
<1>2. Listed'
  BY DEF Listed, Found
<1>3. Found'
  BY DEF Found
<1>4. Canceling'
  BY DEF Canceling, Found
<1>5. Dropped'
  BY DEF Dropped
<1>6. Closing'
  BY DEF Closing, In
<1>7. QED
  BY <1>1, <1>2, <1>3, <1>4, <1>5, <1>6

\* The thread drops its entries.
LEMMA FinishKeeps ==
    ASSUME PoolInv, NEW k \in Executions, NEW result, Finish(k, result)
    PROVE  PoolInv'
<1> USE PoolAssumption DEF PoolInv, Typed, Entry, Canceller, tables, closing, calls, Finish
<1>1. Typed'
  BY DEF Busy
<1>2. Listed'
  BY DEF Listed
<1>3. Found'
  BY DEF Found
<1>4. Canceling'
  BY DEF Canceling
<1>5. Dropped'
  BY DEF Dropped
<1>6. Closing'
  BY DEF Closing, In
<1>7. QED
  BY <1>1, <1>2, <1>3, <1>4, <1>5, <1>6

\* The thread is free again; it has no entries any more.
LEMMA ResolveKeeps ==
    ASSUME PoolInv, NEW k \in Executions, Resolve(k)
    PROVE  PoolInv'
<1> USE PoolAssumption DEF PoolInv, Typed, Entry, Canceller, tables, closing, calls, Resolve
<1>1. Typed'
  OBVIOUS
<1>2. Listed'
  BY DEF Listed
<1>3. Found'
  BY DEF Found
<1>4. Canceling'
  BY DEF Canceling
<1>5. Dropped'
  BY DEF Dropped
<1>6. Closing'
  BY DEF Closing, In
<1>7. QED
  BY <1>2, <1>3, <1>4, <1>5, <1>6

\* future.cancel() of a caller, which may come too late.
LEMMA CancelFutureKeeps ==
    ASSUME PoolInv, CancelOnce, NEW c \in Callers, NEW k \in Executions, CancelFuture(c, k)
    PROVE  PoolInv'
<1> USE PoolAssumption DEF PoolInv, Typed, Entry, Canceller, tables, closing
<1>1. /\ caller[c] = None
      /\ future[k] # "none" /\ cancels[k] = 0
      /\ cancels' = [cancels EXCEPT ![k] = 1]
      /\ future' = [future EXCEPT ![k] = IF @ = "pending" THEN "cancelled" ELSE @]
      /\ UNCHANGED <<transfer, tables, closing>>
  <2>1. cancels[k] \in Nat /\ cancels[k] < MaxCancels
    BY DEF CancelFuture
  <2>2. cancels[k] = 0
    BY <2>1 DEF CancelOnce
  <2>3. QED
    BY <2>2 DEF CancelFuture, Cancel
<1>2. \E b \in BOOLEAN :
          /\ caller' = [caller EXCEPT ![c] = [execution |-> k, canceled |-> b]]
          /\ b => future'[k] = "cancelled"
          /\ ~b => future'[k] # "cancelled"
  <2>1. CASE future'[k] = "cancelled"
    <3>1. (future'[k] = "cancelled") = TRUE
      BY <2>1
    <3>2. caller' = [caller EXCEPT ![c] = [execution |-> k, canceled |-> TRUE]]
      BY <3>1, Zenon DEF CancelFuture
    <3>3. QED
      BY <2>1, <3>2
  <2>2. CASE future'[k] # "cancelled"
    <3>1. (future'[k] = "cancelled") = FALSE
      BY <2>2
    <3>2. caller' = [caller EXCEPT ![c] = [execution |-> k, canceled |-> FALSE]]
      BY <3>1, Zenon DEF CancelFuture
    <3>3. QED
      BY <2>2, <3>2
  <2>3. QED
    BY <2>1, <2>2
<1>3. PICK b \in BOOLEAN :
          /\ caller' = [caller EXCEPT ![c] = [execution |-> k, canceled |-> b]]
          /\ b => future'[k] = "cancelled"
          /\ ~b => future'[k] # "cancelled"
  BY <1>2
<1>4. Typed'
  BY <1>1, <1>3
<1>5. Listed'
  BY <1>1 DEF Listed
<1>6. Found'
  BY <1>1 DEF Found
<1>7. Canceling'
  <2> SUFFICES ASSUME NEW x \in Callers, caller'[x] # None
               PROVE  LET j == caller'[x].execution
                      IN /\ future'[j] # "none"
                         /\ cancels'[j] > 0
                         /\ \A y \in Callers :
                               caller'[y] # None /\ caller'[y].execution = j => y = x
                         /\ caller'[x].canceled =>
                               /\ future'[j] = "cancelled"
                               /\ queued[transfer[j]] = j \/ phase = "closed"
    BY <1>1 DEF Canceling
  <2>1. \A y \in Callers \ {c} : caller[y] # None => caller[y].execution # k
    BY <1>1 DEF Canceling
  <2>2. CASE x = c
    BY <2>1, <2>2, <1>1, <1>3 DEF Found
  <2>3. CASE x # c
    BY <2>3, <1>1, <1>3 DEF Canceling
  <2>4. QED
    BY <2>2, <2>3
<1>8. Dropped'
  <2> SUFFICES ASSUME NEW t \in Transfers, queued[t] # None,
                      future'[queued[t]] = "cancelled", ~(cancelQueued /\ phase # "closed")
               PROVE  \E y \in Callers :
                          caller'[y] = [execution |-> queued[t], canceled |-> TRUE]
    BY <1>1 DEF Dropped
  <2>1. CASE queued[t] = k
    BY <2>1, <1>3
  <2>2. CASE queued[t] # k
    <3>1. PICK y \in Callers : caller[y] = [execution |-> queued[t], canceled |-> TRUE]
      BY <2>2, <1>1 DEF Dropped
    <3>2. [execution |-> queued[t], canceled |-> TRUE] \in Canceller
      BY Zenon
    <3>3. y # c
      BY <3>1, <3>2, <1>1
    <3>4. QED
      BY <3>1, <3>3, <1>3
  <2>3. QED
    BY <2>1, <2>2
<1>9. Closing'
  BY <1>1 DEF Closing, In
<1>10. QED
  BY <1>4, <1>5, <1>6, <1>7, <1>8, <1>9

\* cancel_transfer drops the entries of the transfer, which by Canceling are those of
\* the execution it cancelled.
LEMMA CancelRecordKeeps ==
    ASSUME PoolInv, NEW c \in Callers, CancelRecord(c)
    PROVE  PoolInv'
<1> USE PoolAssumption DEF PoolInv, Typed, Entry, Canceller, tables, closing, calls, CancelRecord
<1>1. Typed'
  OBVIOUS
<1>2. Listed'
  BY DEF Listed
<1>3. Found'
  BY DEF Found, Listed, Canceling, Closing, In
<1>4. Canceling'
  BY DEF Canceling, Found
<1>5. Dropped'
  BY DEF Dropped, Listed
<1>6. Closing'
  BY DEF Closing, In
<1>7. QED
  BY <1>2, <1>3, <1>4, <1>5, <1>6

\* The history is no part of the invariant.
LEMMA DrainTerminalKeeps ==
    ASSUME PoolInv, DrainTerminal
    PROVE  PoolInv'
<1> USE PoolAssumption DEF PoolInv, Typed, Entry, Canceller, tables, closing, calls, DrainTerminal
<1>1. Typed'
  OBVIOUS
<1>2. Listed'
  BY DEF Listed
<1>3. Found'
  BY DEF Found
<1>4. Canceling'
  BY DEF Canceling
<1>5. Dropped'
  BY DEF Dropped
<1>6. Closing'
  BY DEF Closing, In
<1>7. QED
  BY <1>2, <1>3, <1>4, <1>5, <1>6

\* close takes its snapshot.
LEMMA CloseBeginKeeps ==
    ASSUME PoolInv, NEW cancel \in BOOLEAN, CloseBegin(cancel)
    PROVE  PoolInv'
<1> USE PoolAssumption DEF PoolInv, Typed, Entry, Canceller, tables, closing, calls, CloseBegin
<1>1. Typed'
  OBVIOUS
<1>2. Listed'
  BY DEF Listed
<1>3. Found'
  BY DEF Found
<1>4. Canceling'
  BY DEF Canceling
<1>5. Dropped'
  BY DEF Dropped, Closing
<1>6. Closing'
  BY DEF Closing, Listed
<1>7. QED
  BY <1>2, <1>3, <1>4, <1>5, <1>6

\* close cancels a pending execution, and is the one to drop its entry.
LEMMA CloseCancelKeeps ==
    ASSUME PoolInv, NEW k \in Executions, CloseCancel(k)
    PROVE  PoolInv'
<1> USE PoolAssumption DEF PoolInv, Typed, Entry, Canceller, tables, closing, calls, CloseCancel, Cancel
<1>1. Typed'
  OBVIOUS
<1>2. Listed'
  BY DEF Listed
<1>3. Found'
  BY DEF Found
<1>4. Canceling'
  BY DEF Canceling
<1>5. Dropped'
  BY DEF Dropped, Closing
<1>6. Closing'
  BY DEF Closing
<1>7. QED
  BY <1>2, <1>3, <1>4, <1>5, <1>6

\* close goes on to wait for the threads.
LEMMA CloseCanceledKeeps ==
    ASSUME PoolInv, CloseCanceled
    PROVE  PoolInv'
<1> USE PoolAssumption DEF PoolInv, Typed, Entry, Canceller, tables, closing, calls, CloseCanceled
<1>1. Typed'
  OBVIOUS
<1>2. Listed'
  BY DEF Listed
<1>3. Found'
  BY DEF Found
<1>4. Canceling'
  BY DEF Canceling
<1>5. Dropped'
  BY DEF Dropped
<1>6. Closing'
  BY DEF Closing
<1>7. QED
  BY <1>2, <1>3, <1>4, <1>5, <1>6

\* close drops what was cancelled: nothing is pending or running any more.
LEMMA CloseEndKeeps ==
    ASSUME PoolInv, CloseEnd
    PROVE  PoolInv'
<1> USE PoolAssumption DEF PoolInv, Typed, Entry, Canceller, tables, closing, calls, CloseEnd
<1>1. Typed'
  OBVIOUS
<1>2. Listed'
  BY DEF Listed
<1>3. Found'
  BY DEF Found, In
<1>4. Canceling'
  BY DEF Canceling
<1>5. Dropped'
  BY DEF Dropped, Closing, CloseCancelled
<1>6. Closing'
  BY DEF Closing, In
<1>7. QED
  BY <1>2, <1>3, <1>4, <1>5, <1>6

\* An empty pool satisfies the invariant.
LEMMA PoolInit ==
    ASSUME Init
    PROVE  PoolInv
<1> USE PoolAssumption DEF Init
<1>1. Typed
  BY DEF Typed, Entry
<1>2. Listed /\ Found /\ Canceling /\ Dropped
  BY DEF Listed, Found, Canceling, Dropped
<1>3. Closing
  BY DEF Closing
<1>4. QED
  BY <1>1, <1>2, <1>3 DEF PoolInv

\* Every step of the pool keeps the invariant.
LEMMA PoolStep ==
    ASSUME PoolInv, CancelOnce, [Next]_vars
    PROVE  PoolInv'
<1>1. CASE UNCHANGED vars
  BY <1>1 DEF PoolInv, Typed, Listed, Found, Canceling, Dropped, Closing, In, vars
<1>2. ASSUME NEW k \in Executions, Thread(k)
      PROVE  PoolInv'
  BY <1>2, TakeKeeps, StartKeeps, FinishKeeps, ResolveKeeps DEF Thread
<1>3. ASSUME Closer
      PROVE  PoolInv'
  BY <1>3, CloseCancelKeeps, CloseCanceledKeeps, CloseEndKeeps DEF Closer
<1>4. QED
  BY <1>1, <1>2, <1>3, SubmitKeeps, CancelFutureKeeps, CancelRecordKeeps,
     DrainTerminalKeeps, CloseBeginKeeps DEF Next

-----------------------------------------------------------------------------
\* The invariant of the pool (lifecycle.py:554-891) holds in every state, as long
\* as no handle is cancelled twice.
THEOREM PoolInvariance ==
    ASSUME CancelOnce
    PROVE  Spec => []PoolInv
<1>1. Init => PoolInv
  BY PoolInit
<1>2. PoolInv /\ [Next]_vars => PoolInv'
  BY PoolStep
<1>3. QED
  BY <1>1, <1>2, PTL DEF Spec

\* submit accepts an execution only when its transfer has none that waits or runs,
\* and the tables that submit, describe and close read show the executions as they
\* are (lifecycle.py:604-627).
THEOREM TablesTellTheTruth ==
    ASSUME CancelOnce
    PROVE  Spec => []TablesShowExecutions
<1>1. PoolInv => OneLiveExecution
  BY DEF PoolInv, OneLiveExecution, In, Found
<1>2. PoolInv => TablesShowExecutions
  BY <1>1 DEF PoolInv, TablesShowExecutions, In, Found, Listed, Dropped
<1>3. QED
  BY <1>2, PoolInvariance, CancelOnce, PTL

\* When close returns nothing runs, and what it left in the tables has a canceller
\* that is about to take it out (lifecycle.py:715-750).
THEOREM CloseIsComplete ==
    ASSUME CancelOnce
    PROVE  Spec => []CloseLeavesNothing
<1>1. PoolInv => CloseLeavesNothing
  <2> SUFFICES ASSUME PoolInv, phase = "closed"
               PROVE  /\ In({"pending"} \cup Busy) = {}
                      /\ \A t \in Transfers :
                            /\ running[t] = None
                            /\ \/ queued[t] = None /\ futures[t] = None
                               \/ \E c \in Callers :
                                     caller[c] = [execution |-> queued[t], canceled |-> TRUE]
    BY DEF CloseLeavesNothing
  <2>1. In({"pending"} \cup Busy) = {}
    BY DEF PoolInv, Closing
  <2>2. \A k \in Executions : future[k] \notin {"pending", "starting", "executing"}
    BY <2>1 DEF In, Busy
  <2>3. ASSUME NEW t \in Transfers
        PROVE  running[t] = None
    BY <2>2 DEF PoolInv, Listed, Typed, Entry
  <2>4. ASSUME NEW t \in Transfers, queued[t] = None
        PROVE  futures[t] = None
    BY <2>3, <2>4 DEF PoolInv, Listed
  <2>5. ASSUME NEW t \in Transfers, queued[t] # None
        PROVE  \E c \in Callers : caller[c] = [execution |-> queued[t], canceled |-> TRUE]
    <3>1. future[queued[t]] = "cancelled"
      BY <2>2, <2>5 DEF PoolInv, Listed, Typed, Entry
    <3>2. QED
      BY <2>5, <3>1 DEF PoolInv, Dropped
  <2>6. QED
    BY <2>1, <2>3, <2>4, <2>5
<1>2. QED
  BY <1>1, PoolInvariance, CancelOnce, PTL

-----------------------------------------------------------------------------
\* The terminal history.

Record == [transfer : Transfers, execution : Executions,
           state : {"complete", "failed", "canceled"}]

\* Executions are accepted in the order of their numbers.
Ordered ==
    \A j, k \in Executions : future[k] # "none" /\ j < k => future[j] # "none"

\* An execution that is running, that has the entry of its transfer, that a canceller
\* is about to record or that close has cancelled is the last one accepted for its
\* transfer.
Current(k) ==
    \/ future[k] = "executing"
    \/ transfer[k] \in Transfers /\ queued[transfer[k]] = k
    \/ \E c \in Callers : caller[c] # None /\ caller[c].execution = k /\ caller[c].canceled
    \/ future[k] = "cancelled" /\ cancels[k] = 0

Newest ==
    \A k \in Executions : Current(k) =>
        \A j \in Executions : future[j] # "none" /\ transfer[j] = transfer[k] => j <= k

Told(r) ==
    /\ transfer[r.execution] = r.transfer
    /\ future[r.execution] \in IF r.state = "canceled" THEN {"cancelled"}
                               ELSE {"recorded", "finished"}
    /\ \A k \in Executions : future[k] \in {"recorded", "finished"} /\ transfer[k] = r.transfer =>
          k <= r.execution

Recorded ==
    /\ terminal \in Seq(Record)
    /\ Len(terminal) <= HistoryLimit
    /\ \A r \in ToSet(terminal) : Told(r)

HistoryFacts == Ordered /\ Newest /\ Recorded

HistoryInv == PoolInv /\ HistoryFacts

\* What a record does to the history.
LEMMA RecordFacts ==
    ASSUME NEW history \in Seq(Record), NEW t \in Transfers, NEW k \in Executions,
           NEW state \in {"complete", "failed", "canceled"}
    PROVE  LET new == RecordTerminal(history, t, k, state)
               mine == [transfer |-> t, execution |-> k, state |-> state]
           IN /\ new \in Seq(Record) /\ Len(new) <= HistoryLimit
              /\ ToSet(new) \subseteq {mine} \cup {r \in ToSet(history) : r.transfer # t}
<1> DEFINE keep == {i \in DOMAIN history : history[i].transfer # t}
           others == Filter(history, keep)
           mine == [transfer |-> t, execution |-> k, state |-> state]
           grown == Append(others, mine)
           excess == Len(grown) - HistoryLimit
           new == RecordTerminal(history, t, k, state)
<1>1. new = IF Len(grown) > HistoryLimit THEN SubSeq(grown, excess + 1, Len(grown)) ELSE grown
  BY DEF RecordTerminal
<1>2. HistoryLimit \in Nat /\ mine \in Record
  BY PoolAssumption DEF Record
<1>3. /\ others \in Seq(Record)
      /\ \A e : (\E i \in DOMAIN others : others[i] = e) <=>
                   \E j \in DOMAIN history \cap keep : history[j] = e
  <2> HIDE DEF keep
  <2>1. /\ others \in Seq(Record)
        /\ \A e : (\E i \in DOMAIN others : others[i] = e) <=>
                     \E j \in DOMAIN history \cap keep : history[j] = e
        /\ Len(others) = Cardinality(keep \cap DOMAIN history)
        /\ Distinct(history) => Distinct(others)
    BY FilterFacts
  <2>2. QED
    BY <2>1
<1>4. \A i \in DOMAIN others :
          others[i].transfer # t /\ \E j \in DOMAIN history : others[i] = history[j]
  <2> HIDE DEF others
  <2>1. QED
    BY <1>3
<1> HIDE DEF others, mine
<1>5. /\ grown \in Seq(Record) /\ Len(grown) \in Nat /\ DOMAIN grown = 1..Len(grown)
      /\ \A i \in DOMAIN grown : grown[i] = mine \/ (i \in DOMAIN others /\ grown[i] = others[i])
  BY <1>2, <1>3
<1> HIDE DEF grown
<1>6. \A i \in DOMAIN grown :
          \/ grown[i] = mine
          \/ grown[i].transfer # t /\ \E j \in DOMAIN history : grown[i] = history[j]
  BY <1>4, <1>5
<1>7. CASE Len(grown) > HistoryLimit
  <2>1. excess + 1 \in Int /\ Len(grown) \in Int /\ excess >= 1 /\ excess \in Int
    BY <1>2, <1>5, <1>7
  <2> HIDE DEF excess
  <2>2. \A i \in (excess + 1)..Len(grown) : grown[i] \in Record
    BY <1>5, <2>1
  <2>3. /\ SubSeq(grown, excess + 1, Len(grown)) \in Seq(Record)
        /\ Len(SubSeq(grown, excess + 1, Len(grown))) =
              IF excess + 1 <= Len(grown) THEN Len(grown) - (excess + 1) + 1 ELSE 0
        /\ \A i \in 1..(Len(grown) - (excess + 1) + 1) :
              SubSeq(grown, excess + 1, Len(grown))[i] = grown[(excess + 1) + i - 1]
    BY <2>1, <2>2, SubSeqProperties
  <2>4. new = SubSeq(grown, excess + 1, Len(grown))
    BY <1>1, <1>7 DEF excess
  <2> HIDE DEF new
  <2>5. Len(grown) - (excess + 1) + 1 = HistoryLimit /\ excess + 1 <= Len(grown) + 1
    BY <1>2, <1>5, <2>1 DEF excess
  <2>6. new \in Seq(Record) /\ Len(new) = HistoryLimit
    BY <1>2, <2>1, <2>3, <2>4, <2>5
  <2>7. \A i \in 1..HistoryLimit : new[i] = grown[excess + i]
    BY <1>2, <2>1, <2>3, <2>4, <2>5
  <2>8. \A i \in 1..HistoryLimit : excess + i \in DOMAIN grown
    BY <1>2, <1>5, <1>7 DEF excess
  <2>9. DOMAIN new = 1..HistoryLimit
    BY <2>6
  <2>10. QED
    BY <1>2, <1>6, <2>6, <2>7, <2>8, <2>9 DEF new, mine, ToSet
<1>8. CASE Len(grown) <= HistoryLimit
  <2>1. new = grown
    BY <1>1, <1>2, <1>5, <1>8
  <2>2. QED
    BY <1>5, <1>6, <1>8, <2>1 DEF mine, ToSet
<1>9. QED
  BY <1>2, <1>5, <1>7, <1>8

\* A finite set can be put in order.
LEMMA OrderFacts ==
    ASSUME NEW T, IsFiniteSet(T)
    PROVE  SetToSeq(T) \in Seq(T)
<1>1. Cardinality(T) \in Nat /\ ExistsBijection(1..Cardinality(T), T)
  BY FS_CardinalityType
<1>2. PICK f \in [1..Cardinality(T) -> T] : IsInjective(f)
  BY <1>1 DEF ExistsBijection, Bijection, Injection, IsInjective
<1>3. SetToSeq(T) \in [1..Cardinality(T) -> T]
  BY <1>2 DEF SetToSeq
<1>4. QED
  BY <1>1, <1>3

\* What the records of close do to it.
LEMMA CloseRecordsFacts ==
    ASSUME NEW history \in Seq(Record), Len(history) <= HistoryLimit,
           NEW T \in SUBSET Transfers, \A t \in T : snapshot[t] \in Executions
    PROVE  LET new == CloseRecords(history, T)
           IN /\ new \in Seq(Record) /\ Len(new) <= HistoryLimit
              /\ ToSet(new) \subseteq ToSet(history) \cup
                    {[transfer |-> t, execution |-> snapshot[t], state |-> "canceled"] : t \in T}
<1> DEFINE order == SetToSeq(T)
           n == Len(order)
           Bounded == {h \in Seq(Record) : Len(h) <= HistoryLimit}
           op == [i \in 1..n |-> [h \in Bounded |->
                     RecordTerminal(h, order[i], snapshot[order[i]], "canceled")]]
           Step(f) == f = [i \in 0..n |->
                     IF i = 0 THEN history
                     ELSE RecordTerminal(f[i - 1], order[i], snapshot[order[i]], "canceled")]
<1>1. order \in Seq(T) /\ n \in Nat /\ \A i \in 1..n : order[i] \in T
  <2>1. IsFiniteSet(T)
    BY PoolAssumption, FS_Subset
  <2>2. order \in Seq(T)
    BY <2>1, OrderFacts
  <2> HIDE DEF order
  <2>3. QED
    BY <2>2
<1> HIDE DEF order
<1>2. history \in Bounded
  OBVIOUS
<1>3. ASSUME NEW i \in 1..n, NEW h \in Bounded
      PROVE  RecordTerminal(h, order[i], snapshot[order[i]], "canceled") \in Bounded
  BY <1>1, RecordFacts
<1>4. op \in [1..n -> [Bounded -> Bounded]]
  <2> HIDE DEF Bounded, n
  <2>1. QED
    BY <1>3
<1>5. PICK f : History(f, Bounded, history, n, op)
  <2> HIDE DEF Bounded, op, n
  <2>1. \E f : History(f, Bounded, history, n, op)
    BY <1>1, <1>2, <1>4, Iterates
  <2>2. QED
    BY <2>1
<1>6. ASSUME NEW i \in 1..n
      PROVE  f[i] = RecordTerminal(f[i - 1], order[i], snapshot[order[i]], "canceled")
  <2> HIDE DEF Bounded
  <2>1. f[i - 1] \in Bounded
    BY <1>1, <1>5 DEF History
  <2>2. QED
    BY <1>5, <2>1 DEF History
<1>7. Step(f)
  <2> HIDE DEF Bounded, op
  <2>1. f = [i \in 0..n |-> f[i]]
    BY <1>5 DEF History
  <2>2. ASSUME NEW i \in 0..n
        PROVE  f[i] = IF i = 0 THEN history
                      ELSE RecordTerminal(f[i - 1], order[i], snapshot[order[i]], "canceled")
    <3>1. CASE i = 0
      BY <1>5, <3>1 DEF History
    <3>2. CASE i # 0
      <4>1. i \in 1..n
        BY <1>1, <3>2
      <4>2. QED
        BY <1>6, <3>2, <4>1
    <3>3. QED
      BY <3>1, <3>2
  <2>3. QED
    BY <2>1, <2>2
<1> HIDE DEF Step
<1> DEFINE g == CHOOSE f_1 : Step(f_1)
<1>8. Step(g) /\ CloseRecords(history, T) = g[n]
  <2>1. CloseRecords(history, T) = g[n]
    BY DEF CloseRecords, Step, order
  <2>2. QED
    BY <1>7, <2>1
<1> HIDE DEF g
<1> DEFINE Mine == {[transfer |-> t, execution |-> snapshot[t], state |-> "canceled"] : t \in T}
           Good(h) == h \in Bounded /\ ToSet(h) \subseteq ToSet(history) \cup Mine
           P == {i \in 0..n : Good(g[i])}
<1>9. g[0] = history /\ \A i \in 1..n :
          g[i] = RecordTerminal(g[i - 1], order[i], snapshot[order[i]], "canceled")
  <2>1. \A i \in 0..n : g[i] = IF i = 0 THEN history
                ELSE RecordTerminal(g[i - 1], order[i], snapshot[order[i]], "canceled")
    BY <1>8 DEF Step
  <2>2. QED
    BY <1>1, <2>1
<1>10. 0 \in P
  BY <1>1, <1>2, <1>9
<1>11. ASSUME NEW i \in 0..(n - 1), Good(g[i])
       PROVE  Good(g[i + 1])
  <2> DEFINE h == g[i]
             t == order[i + 1]
             k == snapshot[t]
             new == g[i + 1]
  <2>1. i + 1 \in 1..n /\ (i + 1) - 1 = i
    BY <1>1
  <2>2. new = RecordTerminal(h, t, k, "canceled") /\ t \in T /\ k \in Executions /\ t \in Transfers
    BY <1>1, <1>9, <2>1
  <2>3. h \in Seq(Record) /\ Good(h)
    BY <1>11
  <2> HIDE DEF h, t, k, new
  <2>4. "canceled" \in {"complete", "failed", "canceled"}
    OBVIOUS
  <2>5. /\ new \in Seq(Record) /\ Len(new) <= HistoryLimit
        /\ ToSet(new) \subseteq {[transfer |-> t, execution |-> k, state |-> "canceled"]}
                                \cup {r \in ToSet(h) : r.transfer # t}
    BY <2>2, <2>3, <2>4, RecordFacts
  <2>6. [transfer |-> t, execution |-> k, state |-> "canceled"] \in Mine
    BY <2>2 DEF k
  <2> HIDE DEF Mine
  <2>7. Good(new)
    BY <2>3, <2>5, <2>6
  <2>8. QED
    BY <2>7 DEF new
<1> HIDE DEF Good
<1>12. \A i \in 0..(n - 1) : i \in P => i + 1 \in P
  BY <1>1, <1>11
<1> HIDE DEF P
<1>13. n \in Nat
  BY <1>1
<1>14. 0..n \subseteq P
  <2> HIDE DEF n
  <2>1. QED
    BY <1>10, <1>12, <1>13, InductionUpTo
<1>15. Good(g[n])
  BY <1>13, <1>14 DEF P
<1>16. QED
  BY <1>8, <1>15 DEF Good, Mine

\* The new execution is the last one, and its transfer had none that waits or runs.
LEMMA SubmitTells ==
    ASSUME HistoryInv, NEW t \in Transfers, NEW k \in Executions, Submit(t, k)
    PROVE  HistoryFacts'
<1> USE PoolAssumption DEF HistoryInv, HistoryFacts, PoolInv, Typed, Entry, Canceller, tables, closing, calls, Submit
<1>1. Ordered'
  BY DEF Ordered, Executions
<1>2. ASSUME NEW j \in Executions, future[j] # "none"
      PROVE  j <= k
  <2>1. future[k] = "none" /\ j \in Int /\ k \in Int
    BY DEF Executions
  <2>2. ~ (k < j)
    BY <1>2, <2>1 DEF Ordered
  <2>3. QED
    BY <2>1, <2>2
<1>3. \A x \in Executions : Current(x)' => x = k \/ (Current(x) /\ transfer[x] # t)
  BY DEF Current, Found, Listed, Canceling, Closing
<1>4. Newest'
  BY <1>2, <1>3 DEF Newest, Executions
<1>5. \A r \in Record : Told(r) => Told(r)'
  BY DEF Told, Record
<1>6. Recorded'
  BY <1>5 DEF Recorded, ToSet
<1>7. QED
  BY <1>1, <1>4, <1>6

\* A step that ends no execution tells nothing new.
LEMMA TakeTells ==
    ASSUME HistoryInv, NEW k \in Executions, Take(k)
    PROVE  HistoryFacts'
<1> USE PoolAssumption DEF HistoryInv, HistoryFacts, PoolInv, Typed, Entry, Canceller, tables, closing, calls, Take
<1>1. Ordered'
  BY DEF Ordered
<1>2. \A x \in Executions : Current(x)' => Current(x)
  BY DEF Current, Found
<1>3. Newest'
  BY <1>2 DEF Newest
<1>4. \A r \in Record : Told(r) => Told(r)'
  BY DEF Told, Record
<1>5. Recorded'
  BY <1>4 DEF Recorded, ToSet
<1>6. QED
  BY <1>1, <1>3, <1>5

\* An execution that starts leaves the history truthful,
LEMMA StartTells ==
    ASSUME HistoryInv, NEW k \in Executions, Start(k)
    PROVE  HistoryFacts'
<1> USE PoolAssumption DEF HistoryInv, HistoryFacts, PoolInv, Typed, Entry, Canceller, tables, closing, calls, Start
<1>1. Ordered'
  BY DEF Ordered
<1>2. \A x \in Executions : Current(x)' => Current(x)
  BY DEF Current, Found
<1>3. Newest'
  BY <1>2 DEF Newest
<1>4. \A r \in Record : Told(r) => Told(r)'
  BY DEF Told, Record
<1>5. Recorded'
  BY <1>4 DEF Recorded, ToSet
<1>6. QED
  BY <1>1, <1>3, <1>5

\* so does one whose future is resolved,
LEMMA ResolveTells ==
    ASSUME HistoryInv, NEW k \in Executions, Resolve(k)
    PROVE  HistoryFacts'
<1> USE PoolAssumption DEF HistoryInv, HistoryFacts, PoolInv, Typed, Entry, Canceller, tables, closing, calls, Resolve
<1>1. Ordered'
  BY DEF Ordered
<1>2. \A x \in Executions : Current(x)' => Current(x)
  BY DEF Current, Found
<1>3. Newest'
  BY <1>2 DEF Newest
<1>4. \A r \in Record : Told(r) => Told(r)'
  BY DEF Told, Record
<1>5. Recorded'
  BY <1>4 DEF Recorded, ToSet
<1>6. QED
  BY <1>1, <1>3, <1>5

\* and a drain of the results.
LEMMA DrainTerminalTells ==
    ASSUME HistoryInv, DrainTerminal
    PROVE  HistoryFacts'
<1> USE PoolAssumption DEF HistoryInv, HistoryFacts, PoolInv, Typed, Entry, Canceller, tables, closing, calls, DrainTerminal
<1>1. Ordered'
  BY DEF Ordered
<1>2. \A x \in Executions : Current(x)' => Current(x)
  BY DEF Current, Found
<1>3. Newest'
  BY <1>2 DEF Newest
<1>4. \A r \in Record : Told(r) => Told(r)'
  BY DEF Told, Record
<1>5. Recorded'
  BY <1>4 DEF Recorded, ToSet
<1>6. QED
  BY <1>1, <1>3, <1>5

\* A pool that begins to close tells the truth,
LEMMA CloseBeginTells ==
    ASSUME HistoryInv, NEW cancel \in BOOLEAN, CloseBegin(cancel)
    PROVE  HistoryFacts'
<1> USE PoolAssumption DEF HistoryInv, HistoryFacts, PoolInv, Typed, Entry, Canceller, tables, closing, calls, CloseBegin
<1>1. Ordered'
  BY DEF Ordered
<1>2. \A x \in Executions : Current(x)' => Current(x)
  BY DEF Current, Found
<1>3. Newest'
  BY <1>2 DEF Newest
<1>4. \A r \in Record : Told(r) => Told(r)'
  BY DEF Told, Record
<1>5. Recorded'
  BY <1>4 DEF Recorded, ToSet
<1>6. QED
  BY <1>1, <1>3, <1>5

\* and so it does while it cancels what has not started,
LEMMA CloseCancelTells ==
    ASSUME HistoryInv, NEW k \in Executions, CloseCancel(k)
    PROVE  HistoryFacts'
<1> USE PoolAssumption DEF HistoryInv, HistoryFacts, PoolInv, Typed, Entry, Canceller, tables, closing, calls, CloseCancel, Cancel
<1>1. Ordered'
  BY DEF Ordered
<1>2. \A x \in Executions : Current(x)' => Current(x)
  BY DEF Current, Found
<1>3. Newest'
  BY <1>2 DEF Newest
<1>4. \A r \in Record : Told(r) => Told(r)'
  BY DEF Told, Record
<1>5. Recorded'
  BY <1>4 DEF Recorded, ToSet
<1>6. QED
  BY <1>1, <1>3, <1>5

\* and once it has.
LEMMA CloseCanceledTells ==
    ASSUME HistoryInv, CloseCanceled
    PROVE  HistoryFacts'
<1> USE PoolAssumption DEF HistoryInv, HistoryFacts, PoolInv, Typed, Entry, Canceller, tables, closing, calls, CloseCanceled
<1>1. Ordered'
  BY DEF Ordered
<1>2. \A x \in Executions : Current(x)' => Current(x)
  BY DEF Current, Found
<1>3. Newest'
  BY <1>2 DEF Newest
<1>4. \A r \in Record : Told(r) => Told(r)'
  BY DEF Told, Record
<1>5. Recorded'
  BY <1>4 DEF Recorded, ToSet
<1>6. QED
  BY <1>1, <1>3, <1>5

\* Whom future.cancel() cancels had the entry of its transfer, or was cancelled by close.
LEMMA CancelFutureTells ==
    ASSUME HistoryInv, CancelOnce, NEW c \in Callers, NEW k \in Executions, CancelFuture(c, k)
    PROVE  HistoryFacts'
<1> USE PoolAssumption DEF HistoryInv, HistoryFacts, PoolInv, Typed, Entry, Canceller, tables, closing
<1>1. cancels[k] = 0
  <2>1. cancels[k] \in Nat /\ cancels[k] < MaxCancels
    BY DEF CancelFuture
  <2>2. QED
    BY <2>1 DEF CancelOnce
<1>2. /\ future' = [future EXCEPT ![k] = IF @ = "pending" THEN "cancelled" ELSE @]
      /\ cancels' = [cancels EXCEPT ![k] = 1]
      /\ caller' = [caller EXCEPT ![c] = [execution |-> k, canceled |-> future'[k] = "cancelled"]]
      /\ UNCHANGED <<transfer, tables, closing>>
  BY <1>1 DEF CancelFuture, Cancel
<1>3. Ordered'
  BY <1>2 DEF Ordered
<1>4. future'[k] = "cancelled" => Current(k)
  BY <1>1, <1>2 DEF Current, Found
<1>5. ASSUME NEW x \in Executions, Current(x)'
      PROVE  Current(x)
  <2>1. CASE future'[x] = "executing"
    BY <1>2, <2>1 DEF Current
  <2>2. CASE transfer[x] \in Transfers /\ queued[transfer[x]] = x
    BY <2>2 DEF Current
  <2>3. ASSUME NEW b \in Callers, caller'[b] # None, caller'[b].execution = x, caller'[b].canceled
        PROVE  Current(x)
    <3>1. CASE b = c
      BY <1>2, <1>4, <2>3, <3>1
    <3>2. CASE b # c
      BY <1>2, <2>3, <3>2 DEF Current
    <3>3. QED
      BY <3>1, <3>2
  <2>4. CASE future'[x] = "cancelled" /\ cancels'[x] = 0
    BY <1>2, <2>4 DEF Current
  <2>5. QED
    BY <1>2, <1>5, <2>1, <2>2, <2>3, <2>4 DEF Current
<1>6. Newest'
  BY <1>2, <1>5 DEF Newest
<1>7. \A r \in Record : Told(r) => Told(r)'
  BY <1>2 DEF Told, Record
<1>8. Recorded'
  BY <1>2, <1>7 DEF Recorded, ToSet
<1>9. QED
  BY <1>3, <1>6, <1>8

\* The thread records its own execution, the last one of the transfer.
LEMMA FinishTells ==
    ASSUME HistoryInv, NEW k \in Executions, NEW result \in {"complete", "failed"},
           Finish(k, result)
    PROVE  HistoryFacts'
<1> USE PoolAssumption DEF HistoryInv, HistoryFacts, PoolInv, Typed, Entry, Canceller, tables, closing, calls, Finish
<1>1. Ordered'
  BY DEF Ordered
<1>2. \A x \in Executions : Current(x)' => Current(x)
  BY DEF Current
<1>3. Newest'
  BY <1>2 DEF Newest
<1>4. PICK t \in Transfers : t = transfer[k]
  BY DEF Found
<1> DEFINE mine == [transfer |-> t, execution |-> k, state |-> result]
<1>5. \A r \in Record : Told(r) /\ r.transfer # t => Told(r)'
  BY <1>4 DEF Told, Record
<1>6. Told(mine)'
  <2>1. \A j \in Executions : future[j] # "none" /\ transfer[j] = t => j <= k
    BY <1>4 DEF Newest, Current
  <2>2. \A j \in Executions : future'[j] \in {"recorded", "finished"} => future[j] # "none"
    OBVIOUS
  <2>3. future'[k] = "recorded" /\ transfer' = transfer /\ result # "canceled"
    OBVIOUS
  <2>4. QED
    BY <1>4, <2>1, <2>2, <2>3 DEF Told
<1>7. /\ terminal' \in Seq(Record) /\ Len(terminal') <= HistoryLimit
      /\ ToSet(terminal') \subseteq {mine} \cup {r \in ToSet(terminal) : r.transfer # t}
  <2>1. terminal \in Seq(Record) /\ result \in {"complete", "failed", "canceled"}
    BY DEF Recorded
  <2>2. terminal' = RecordTerminal(terminal, t, k, result)
    BY <1>4
  <2>3. QED
    BY ONLY <2>1, <2>2, k \in Executions, t \in Transfers, RecordFacts DEF mine
<1>8. \A r \in ToSet(terminal) : r \in Record /\ Told(r)
  BY DEF Recorded, ToSet
<1> HIDE DEF mine
<1>9. \A r \in ToSet(terminal') : Told(r)'
  BY <1>5, <1>6, <1>7, <1>8
<1>10. ToSet(terminal)' = ToSet(terminal')
  BY DEF ToSet
<1>11. Recorded'
  BY <1>7, <1>9, <1>10 DEF Recorded
<1>12. QED
  BY <1>1, <1>3, <1>11

\* cancel_transfer records the execution it has cancelled, the last one of the transfer.
LEMMA CancelRecordTells ==
    ASSUME HistoryInv, NEW c \in Callers, CancelRecord(c)
    PROVE  HistoryFacts'
<1> USE PoolAssumption DEF HistoryInv, HistoryFacts, PoolInv, Typed, Entry, Canceller, tables, closing, calls, CancelRecord
<1>1. Ordered'
  BY DEF Ordered
<1>2. \A x \in Executions : Current(x)' => Current(x)
  BY DEF Current
<1>3. Newest'
  BY <1>2 DEF Newest
<1>4. \A r \in Record : Told(r) => Told(r)'
  BY DEF Told, Record
<1>5. CASE ~caller[c].canceled
  <2>1. terminal' = terminal
    BY <1>5
  <2>2. Recorded'
    BY <1>4, <2>1 DEF Recorded, ToSet
  <2>3. QED
    BY <1>1, <1>3, <2>2
<1>6. CASE caller[c].canceled
  <2>1. PICK k \in Executions, t \in Transfers :
            k = caller[c].execution /\ t = transfer[k] /\ future[k] = "cancelled"
    BY <1>6 DEF Canceling, Found
  <2> DEFINE mine == [transfer |-> t, execution |-> k, state |-> "canceled"]
  <2>2. \A j \in Executions : future[j] # "none" /\ transfer[j] = t => j <= k
    BY <1>6, <2>1 DEF Newest, Current
  <2>3. Told(mine)'
    BY <2>1, <2>2 DEF Told
  <2>4. terminal' = RecordTerminal(terminal, t, k, "canceled")
    BY <1>6, <2>1
  <2>5. terminal \in Seq(Record) /\ "canceled" \in {"complete", "failed", "canceled"}
    BY DEF Recorded
  <2>6. \A r \in ToSet(terminal) : r \in Record /\ Told(r)
    BY DEF Recorded, ToSet
  <2>7. /\ terminal' \in Seq(Record) /\ Len(terminal') <= HistoryLimit
        /\ ToSet(terminal') \subseteq {mine} \cup {r \in ToSet(terminal) : r.transfer # t}
    BY ONLY <2>4, <2>5, k \in Executions, t \in Transfers, RecordFacts DEF mine
  <2> HIDE DEF mine
  <2>8. \A r \in ToSet(terminal') : Told(r)'
    BY <1>4, <2>3, <2>6, <2>7
  <2>9. ToSet(terminal)' = ToSet(terminal')
    BY DEF ToSet
  <2>10. Recorded'
    BY <2>7, <2>8, <2>9 DEF Recorded
  <2>11. QED
    BY <1>1, <1>3, <2>10
<1>7. QED
  BY <1>5, <1>6

\* close records what it found in the queue and nobody has taken.
LEMMA CloseEndTells ==
    ASSUME HistoryInv, CloseEnd
    PROVE  HistoryFacts'
<1> USE PoolAssumption DEF HistoryInv, HistoryFacts, PoolInv, Typed, Entry, Canceller, tables, closing, calls, CloseEnd
<1>1. Ordered'
  BY DEF Ordered
<1>2. \A x \in Executions : Current(x)' => Current(x)
  BY DEF Current
<1>3. Newest'
  BY <1>2 DEF Newest
<1>4. \A r \in Record : Told(r) => Told(r)'
  BY DEF Told, Record
<1> DEFINE T == CloseCancelled
           Mine == {[transfer |-> t, execution |-> snapshot[t], state |-> "canceled"] : t \in T}
<1>5. T \in SUBSET Transfers
  BY DEF CloseCancelled
<1>6. \A t \in T : queued[t] # None /\ snapshot[t] = queued[t] /\ snapshot[t] \in Executions
  BY DEF CloseCancelled, Closing
<1>7. ASSUME NEW t \in T
      PROVE  Told([transfer |-> t, execution |-> snapshot[t], state |-> "canceled"])
  <2> DEFINE k == snapshot[t]
  <2>1. k \in Executions /\ queued[t] = k /\ t \in Transfers /\ k # None
    BY <1>5, <1>6
  <2>2. transfer[k] = t /\ future[k] = "cancelled"
    BY <2>1 DEF Listed, In, Busy
  <2>3. \A j \in Executions : future[j] # "none" /\ transfer[j] = t => j <= k
    BY <2>1, <2>2 DEF Newest, Current
  <2> HIDE DEF k
  <2>4. Told([transfer |-> t, execution |-> k, state |-> "canceled"])
    BY <2>2, <2>3 DEF Told
  <2>5. QED
    BY <2>4 DEF k
<1>8. /\ terminal' = CloseRecords(terminal, T)
      /\ terminal \in Seq(Record) /\ Len(terminal) <= HistoryLimit
  BY DEF Recorded
<1>9. \A r \in ToSet(terminal) : r \in Record /\ Told(r)
  BY DEF Recorded, ToSet
<1> HIDE DEF T
<1>10. /\ terminal' \in Seq(Record) /\ Len(terminal') <= HistoryLimit
       /\ ToSet(terminal') \subseteq ToSet(terminal) \cup Mine
  <2>1. \A t \in T : snapshot[t] \in Executions
    BY <1>6
  <2>2. LET new == CloseRecords(terminal, T)
        IN /\ new \in Seq(Record) /\ Len(new) <= HistoryLimit
           /\ ToSet(new) \subseteq ToSet(terminal) \cup
                 {[transfer |-> t, execution |-> snapshot[t], state |-> "canceled"] : t \in T}
    BY ONLY <1>5, <1>8, <2>1, CloseRecordsFacts
  <2>3. QED
    BY <1>8, <2>2
<1>11. \A r \in Mine : r \in Record /\ Told(r)
  BY <1>5, <1>6, <1>7 DEF Record
<1> HIDE DEF Mine
<1>12. \A r \in ToSet(terminal') : Told(r)'
  BY <1>4, <1>9, <1>10, <1>11
<1>13. ToSet(terminal)' = ToSet(terminal')
  BY DEF ToSet
<1>14. Recorded'
  BY <1>10, <1>12, <1>13 DEF Recorded
<1>15. QED
  BY <1>1, <1>3, <1>14

\* A pool that has told nothing yet has told nothing false.
LEMMA HistoryInit ==
    ASSUME Init
    PROVE  HistoryInv
<1> USE PoolAssumption DEF Init
<1>1. PoolInv
  BY PoolInit
<1>2. Ordered /\ Newest
  BY DEF Ordered, Newest, Current
<1>3. Recorded
  BY DEF Recorded, ToSet
<1>4. QED
  BY <1>1, <1>2, <1>3 DEF HistoryInv, HistoryFacts

\* Every step of the pool keeps its history truthful.
LEMMA HistoryStep ==
    ASSUME HistoryInv, CancelOnce, [Next]_vars
    PROVE  HistoryInv'
<1>1. PoolInv'
  BY PoolStep DEF HistoryInv
<1>2. HistoryFacts'
  <2>1. CASE UNCHANGED vars
    BY <2>1 DEF HistoryInv, HistoryFacts, Ordered, Newest, Current, Recorded, Told, ToSet, vars
  <2>2. ASSUME NEW k \in Executions, Thread(k)
        PROVE  HistoryFacts'
    BY <2>2, TakeTells, StartTells, FinishTells, ResolveTells DEF Thread
  <2>3. ASSUME Closer
        PROVE  HistoryFacts'
    BY <2>3, CloseCancelTells, CloseCanceledTells, CloseEndTells DEF Closer
  <2>4. QED
    BY <2>1, <2>2, <2>3, SubmitTells, CancelFutureTells, CancelRecordTells,
       DrainTerminalTells, CloseBeginTells DEF Next
<1>3. QED
  BY <1>1, <1>2 DEF HistoryInv

\* A record of the terminal history belongs to an execution of its transfer that ended
\* as it says, no later execution of that transfer has ended, and the history stays
\* within worker_terminal_history_entries (lifecycle.py:863-891).
THEOREM HistoryTellsTheTruth ==
    ASSUME CancelOnce
    PROVE  Spec => []HistoryIsTruthful
<1>1. Init => HistoryInv
  BY HistoryInit
<1>2. HistoryInv /\ [Next]_vars => HistoryInv'
  BY HistoryStep
<1>3. HistoryInv => HistoryIsTruthful
  <2> SUFFICES ASSUME HistoryInv
               PROVE  HistoryIsTruthful
    OBVIOUS
  <2>1. Len(terminal) <= HistoryLimit
    BY DEF HistoryInv, HistoryFacts, Recorded
  <2>2. ASSUME NEW i \in DOMAIN terminal
        PROVE  Told(terminal[i])
    BY DEF HistoryInv, HistoryFacts, Recorded, ToSet
  <2>3. QED
    BY <2>1, <2>2 DEF HistoryIsTruthful, Told, In
<1>4. QED
  BY <1>1, <1>2, <1>3, PTL DEF Spec
=============================================================================
