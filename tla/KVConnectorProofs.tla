------------------------- MODULE KVConnectorProofs -------------------------
(***************************************************************************)
(* Proofs about the KV connector, for any number of requests, backings,    *)
(* layers and keys and any size of the prefix store: a backing has one     *)
(* owner, and a restore gets what was promised.                            *)
(***************************************************************************)
EXTENDS KVConnector, DataLemmas

-----------------------------------------------------------------------------
\* The inductive invariant of the backings.

Typed ==
    /\ contexts \in [Requests -> Backings \cup {None}]
    /\ free \in SUBSET Backings
    /\ backing \in [Backings -> {"unused", "open", "closed"}]
    /\ store \in Seq(Range(store)) /\ Distinct(store)
    /\ pc \in {"idle", "load", "layers", "wait", "finish", "dead"}
    /\ engine \in {"up", "dead"} /\ (engine = "dead" <=> pc = "dead")
    /\ workerClosed \in BOOLEAN /\ runtimeClosed \in BOOLEAN

\* The saves that are recorded, queued and under way are those of requests.
Saves(S) == \A x \in S : x.req \in Requests

Requested ==
    /\ Saves(pendingSaves) /\ Saves(meta.saves)
    /\ queue \in Seq(Range(queue)) /\ \A m \in Range(queue) : Saves(m.saves)
    /\ pc \in {"layers", "wait"} => todo \subseteq SaveRequests(meta)

\* A save context is open from a layer of its step to the wait, unless the engine
\* died; a worker that has closed has given everything back.
Stages ==
    /\ \A r \in Requests : contexts[r] # None =>
          \/ pc = "layers" /\ r \in SaveRequests(meta)
          \/ pc = "wait" /\ r \in todo
          \/ pc = "dead"
    /\ workerClosed => /\ pc \in {"idle", "dead"} /\ store = <<>>
                       /\ \A r \in Requests : contexts[r] = None
    /\ workerClosed /\ runtimeClosed => free = {}

\* A stored prefix has a backing and the evidence of its save.
Prefix(p) == p.backing \in Backings /\ LifecycleOK(p.evidence)

InContext(b) == \E r \in Requests : contexts[r] = b
InStore(b) == \E p \in Range(store) : p.backing = b
Held(b) == InContext(b) \/ InStore(b) \/ b \in free

Exclusive ==
    /\ \A p \in Range(store) : Prefix(p)
    /\ \A q, r \in Requests : contexts[q] # None /\ contexts[q] = contexts[r] => q = r
    /\ \A p, q \in Range(store) : p.backing = q.backing => p = q
    /\ \A b \in Backings : /\ ~(InContext(b) /\ InStore(b))
                           /\ ~(InContext(b) /\ b \in free)
                           /\ ~(InStore(b) /\ b \in free)
                           /\ Held(b) => backing[b] = "open"

\* Only the save that kills the engine with incomplete layers loses its backing.
Lost(b) == backing[b] = "open" /\ ~Held(b)

Losses ==
    /\ \A b \in Backings : Lost(b) => engine = "dead" /\ meta.saves # {}
    /\ \A b, c \in Backings : Lost(b) /\ Lost(c) => b = c

BackingInv == Typed /\ Requested /\ Stages /\ Exclusive /\ Losses

-----------------------------------------------------------------------------
\* The inductive invariant of the restores, with one step at a time and without a limit.

OneStepAtATime == PipelineDepth = 1 /\ RestoreBlockLimit = 0

\* A save that covers its tokens has a block for each of those it is recorded with.
Sized(S) == \A x \in S : /\ Len(x.ids) \in Nat /\ x.tokens \in Nat
                         /\ Covers(x.req) => BlockCountForTokens(x.tokens) <= Len(x.ids)

Loads(S) == \A m \in S : /\ m.req \in Requests /\ m.count \in Nat
                         /\ m.count <= promised[m.req].blocks /\ req[m.req] # "waiting"

Scheduled ==
    /\ scheduled \in [Requests -> Seq(Nat)] /\ blocks \in [Requests -> Nat]
    /\ req = [r \in Requests |-> req[r]]
    /\ promised \in [Requests -> [computed : Nat, blocks : Nat]]
    /\ Sized(pendingSaves) /\ Sized(meta.saves) /\ \A m \in Range(queue) : Sized(m.saves)
    /\ Loads(pendingLoads) /\ \A m \in Range(queue) : Loads(m.loads)
    /\ pc = "load" => Loads(meta.loads) /\ todo \subseteq {m.req : m \in meta.loads}

\* While a step runs nothing is scheduled, and what is scheduled is built before the next.
InTurn ==
    /\ Len(queue) <= 1
    /\ pc # "idle" => queue = <<>>
    /\ queue # <<>> \/ pc # "idle" => pendingLoads = {}
    /\ schedClosed => pc \in {"idle", "dead"}

\* A prefix says what its backing holds.
Described(p) ==
    /\ p.key \in Keys /\ p.source \in Requests /\ KeyOf[p.source] = p.key
    /\ content[p.backing].source = p.source
    /\ p.count \in Nat /\ p.count <= slots[p.backing]
    /\ p.tokens \in Nat /\ (Covers(p.source) => BlockCountForTokens(p.tokens) <= p.count)

Stored ==
    /\ slots \in [Backings -> Nat] /\ content = [b \in Backings |-> content[b]]
    /\ \A p \in Range(store) : Described(p)
    /\ \A r \in Requests : contexts[r] # None /\ pc \in {"layers", "wait"} =>
          slots[contexts[r]] = Len(SaveOf(r).ids)
    /\ global = [k \in Keys |-> global[k]]
    /\ \A k \in Keys : global[k] # None => global[k] \in Range(store) /\ global[k].key = k

\* A load of n blocks for request r from a prefix of this source leaves nothing out.
Whole(r, source, n) ==
    promised[r].computed = 0 /\ Covers(source) => n = promised[r].blocks

Available(S) ==
    \A m \in S : /\ global[KeyOf[m.req]] # None
                 /\ m.count <= slots[global[KeyOf[m.req]].backing]
                 /\ Whole(m.req, global[KeyOf[m.req]].source, m.count)

Promises ==
    engine = "up" /\ ~schedClosed /\ ~workerClosed =>
        /\ Available(pendingLoads) /\ \A m \in Range(queue) : Available(m.loads)
        /\ pc = "load" => Available({m \in meta.loads : m.req \in todo})

Deliveries ==
    /\ delivered = [r \in Requests |-> delivered[r]]
    /\ \A r \in Requests : delivered[r] # None => KeyOf[delivered[r].from.source] = KeyOf[r]
    /\ recving \subseteq Requests
    /\ \A r \in recving : /\ delivered[r].count <= promised[r].blocks /\ req[r] # "waiting"
                          /\ Whole(r, delivered[r].from.source, delivered[r].count)

Restores == Scheduled /\ InTurn /\ Stored /\ Promises /\ Deliveries

RestoreInv == BackingInv /\ Restores

-----------------------------------------------------------------------------
\* Helpers.

\* The smallest of some numbers is one of them.
LEMMA SmallestIn ==
    ASSUME NEW S \in SUBSET Nat, S # {}
    PROVE  Smallest(S) \in S
<1>1. \E m \in S : \A n \in S : m <= n
  BY SmallestNumber
<1>2. QED
  BY <1>1 DEF Smallest

\* What a put does to a store.
PutResult(s, p, new, gone) ==
    /\ new \in Seq(Range(new)) /\ Distinct(new)
    /\ Range(new) \cup gone = Range(s) \cup {p}
    /\ Range(new) \cap gone = {} /\ p \in Range(new)

\* A sequence with something appended.
LEMMA AppendFacts ==
    ASSUME NEW S, NEW s \in Seq(S), NEW e \in S
    PROVE  /\ Append(s, e) \in Seq(S)
           /\ Len(Append(s, e)) = Len(s) + 1
           /\ Range(Append(s, e)) = Range(s) \cup {e}
           /\ Distinct(s) /\ e \notin Range(s) => Distinct(Append(s, e))
<1> DEFINE t == Append(s, e)
<1>1. /\ t \in Seq(S) /\ Len(t) = Len(s) + 1 /\ t[Len(s) + 1] = e
      /\ \A i \in 1..Len(s) : t[i] = s[i]
  BY AppendProperties
<1>2. Len(s) \in Nat /\ DOMAIN s = 1..Len(s)
  OBVIOUS
<1> HIDE DEF t
<1>3. DOMAIN t = 1..(Len(s) + 1)
  BY <1>1
<1>4. Range(t) = Range(s) \cup {e}
  BY <1>1, <1>2, <1>3 DEF Range
<1>5. ASSUME Distinct(s), e \notin Range(s)
      PROVE  Distinct(t)
  <2> SUFFICES ASSUME NEW i \in DOMAIN t, NEW j \in DOMAIN t, t[i] = t[j]
               PROVE  i = j
    BY DEF Distinct
  <2>1. \A k \in 1..Len(s) : s[k] # e
    BY <1>2, <1>5 DEF Range
  <2>2. QED
    BY <1>1, <1>2, <1>3, <1>5, <2>1 DEF Distinct
<1>6. QED
  BY <1>1, <1>4, <1>5 DEF t

\* A sequence cut in two.
LEMMA CutFacts ==
    ASSUME NEW S, NEW t \in Seq(S), Distinct(t), NEW n \in 0..Len(t)
    PROVE  LET old == SubSeq(t, 1, n)
               new == SubSeq(t, n + 1, Len(t))
           IN /\ new \in Seq(S) /\ Distinct(new)
              /\ Range(old) = {t[i] : i \in 1..n}
              /\ Range(new) = {t[i] : i \in (n + 1)..Len(t)}
<1> DEFINE old == SubSeq(t, 1, n)
           new == SubSeq(t, n + 1, Len(t))
<1>1. Len(t) \in Nat /\ DOMAIN t = 1..Len(t) /\ \A i \in 1..Len(t) : t[i] \in S
  OBVIOUS
<1>2. 1 \in Int /\ n \in Int /\ n + 1 \in Int /\ Len(t) \in Int
  BY <1>1
<1>3. /\ Len(old) = n /\ old \in Seq(S)
      /\ \A i \in 1..n : old[i] = t[i]
  <2>1. \A i \in 1..n : t[i] \in S
    BY <1>1
  <2>2. /\ old \in Seq(S)
        /\ Len(old) = IF 1 <= n THEN n - 1 + 1 ELSE 0
        /\ \A i \in 1..(n - 1 + 1) : old[i] = t[1 + i - 1]
    BY <1>2, <2>1, SubSeqProperties
  <2> HIDE DEF old
  <2>3. QED
    BY <1>1, <2>2
<1>4. /\ Len(new) = Len(t) - n /\ new \in Seq(S)
      /\ \A i \in 1..(Len(t) - n) : new[i] = t[n + i]
  <2>1. \A i \in (n + 1)..Len(t) : t[i] \in S
    BY <1>1
  <2>2. /\ new \in Seq(S)
        /\ Len(new) = IF n + 1 <= Len(t) THEN Len(t) - (n + 1) + 1 ELSE 0
        /\ \A i \in 1..(Len(t) - (n + 1) + 1) : new[i] = t[(n + 1) + i - 1]
    BY <1>2, <2>1, SubSeqProperties
  <2> HIDE DEF new
  <2>3. n \in Int /\ n <= Len(t) /\ Len(t) - (n + 1) + 1 = Len(t) - n
    BY <1>1
  <2>4. Len(new) = Len(t) - n
    <3>1. CASE n + 1 <= Len(t)
      BY <2>2, <2>3, <3>1
    <3>2. CASE ~(n + 1 <= Len(t))
      <4>1. Len(new) = 0
        BY <2>2, <3>2
      <4>2. Len(t) - n = 0
        <5> DEFINE l == Len(t)
        <5>1. l \in Nat /\ n \in Int /\ n <= l /\ ~(n + 1 <= l)
          BY <1>1, <2>3, <3>2
        <5> HIDE DEF l
        <5>2. l - n = 0
          BY <5>1
        <5>3. QED
          BY <5>2 DEF l
      <4>3. QED
        BY <4>1, <4>2
    <3>3. QED
      BY <3>1, <3>2
  <2>5. ASSUME NEW i \in 1..(Len(t) - n)
        PROVE  new[i] = t[n + i]
    <3>1. i \in Int /\ (n + 1) + i - 1 = n + i
      BY <1>1
    <3>2. QED
      BY <2>2, <2>3, <3>1
  <2>6. QED
    BY <2>2, <2>4, <2>5
<1> HIDE DEF old, new
<1>5. DOMAIN old = 1..n /\ DOMAIN new = 1..(Len(t) - n)
  BY <1>1, <1>3, <1>4
<1>6. Distinct(new)
  <2> SUFFICES ASSUME NEW i \in 1..(Len(t) - n), NEW j \in 1..(Len(t) - n), new[i] = new[j]
               PROVE  i = j
    BY <1>5 DEF Distinct
  <2>1. n + i \in DOMAIN t /\ n + j \in DOMAIN t /\ t[n + i] = t[n + j]
    BY <1>1, <1>4
  <2>2. n + i = n + j
    BY <2>1 DEF Distinct
  <2>3. QED
    BY <1>1, <2>2
<1>7. Range(old) = {t[i] : i \in 1..n}
  BY <1>3, <1>5 DEF Range
<1>8. Range(new) = {t[i] : i \in (n + 1)..Len(t)}
  <2>1. \A i \in (n + 1)..Len(t) : i - n \in 1..(Len(t) - n) /\ new[i - n] = t[i]
    <3> TAKE i \in (n + 1)..Len(t)
    <3>1. i - n \in 1..(Len(t) - n) /\ n + (i - n) = i
      BY <1>1
    <3>2. QED
      BY <1>4, <3>1
  <2>2. \A j \in 1..(Len(t) - n) : n + j \in (n + 1)..Len(t) /\ new[j] = t[n + j]
    BY <1>1, <1>4
  <2>3. Range(new) = {new[j] : j \in 1..(Len(t) - n)}
    BY <1>5 DEF Range
  <2>4. ASSUME NEW j \in 1..(Len(t) - n)
        PROVE  new[j] \in {t[i] : i \in (n + 1)..Len(t)}
    BY <2>2
  <2>5. ASSUME NEW i \in (n + 1)..Len(t)
        PROVE  t[i] \in {new[j] : j \in 1..(Len(t) - n)}
    <3>1. i - n \in 1..(Len(t) - n) /\ new[i - n] = t[i]
      BY <2>1
    <3>2. QED
      BY <3>1
  <2>6. QED
    BY <2>3, <2>4, <2>5
<1>9. QED
  BY <1>4, <1>6, <1>7, <1>8 DEF old, new

\* put_with_lifecycle: the new prefix is kept, and what leaves the store is what it
\* reports as removed.
LEMMA PutFacts ==
    ASSUME NEW s, s \in Seq(Range(s)), Distinct(s), NEW p, p \notin Range(s)
    PROVE  PutResult(s, p, PutPrefix(s, p), RemovedByPut(s, p))
<1> DEFINE S == Range(s) \cup {p}
           keep == {i \in DOMAIN s : s[i].key # p.key}
           others == WithoutKey(s, p.key)
           t == Append(others, p)
           n == Overflow(t)
           new == SubSeq(t, n + 1, Len(t))
           replaced == {q \in Range(s) : SameKey(q, p)}
           evicted == Range(SubSeq(t, 1, n))
<1>1. s \in Seq(S)
  <2>1. Range(s) \subseteq S
    OBVIOUS
  <2> HIDE DEF S
  <2>2. QED
    BY <2>1, SeqMonotonic
<1>2. others = Filter(s, keep)
  BY DEF WithoutKey
<1>3. /\ others \in Seq(S) /\ Distinct(others)
      /\ Range(others) = {q \in Range(s) : ~SameKey(q, p)}
  <2> HIDE DEF S, keep
  <2>1. /\ Filter(s, keep) \in Seq(S)
        /\ \A e : (\E i \in DOMAIN Filter(s, keep) : Filter(s, keep)[i] = e) <=>
                     \E j \in DOMAIN s \cap keep : s[j] = e
        /\ Len(Filter(s, keep)) = Cardinality(keep \cap DOMAIN s)
        /\ Distinct(s) => Distinct(Filter(s, keep))
    BY <1>1, FilterFacts
  <2> HIDE DEF others
  <2>2. Range(others) = {others[i] : i \in DOMAIN others}
    BY DEF Range
  <2>3. \A e : e \in Range(others) <=> \E j \in DOMAIN s \cap keep : s[j] = e
    BY <1>2, <2>1, <2>2
  <2>4. \A e : (\E j \in DOMAIN s \cap keep : s[j] = e) <=>
                  e \in {q \in Range(s) : ~SameKey(q, p)}
    BY DEF Range, keep, SameKey
  <2>5. QED
    BY <1>2, <2>1, <2>3, <2>4
<1> HIDE DEF others, keep
<1>4. p \in S /\ p \notin Range(others)
  BY <1>3
<1>5. /\ t \in Seq(S) /\ Distinct(t) /\ Len(t) = Len(others) + 1
      /\ Range(t) = Range(others) \cup {p}
  <2> HIDE DEF S
  <2>1. QED
    BY <1>3, <1>4, AppendFacts
<1>6. t[Len(t)] = p
  <2> HIDE DEF S
  <2>1. QED
    BY <1>3, <1>4, <1>5, AppendProperties
<1> HIDE DEF t
<1>7. Len(t) \in Nat /\ Len(t) > 0 /\ DOMAIN t = 1..Len(t)
  <2>1. Len(others) \in Nat
    BY <1>3
  <2>2. QED
    BY <1>5, <2>1
<1>8. n \in 0..Len(t) /\ n < Len(t)
  BY <1>7, KVAssumption DEF Overflow
<1> HIDE DEF n
<1>9. /\ new \in Seq(S) /\ Distinct(new)
      /\ evicted = {t[i] : i \in 1..n}
      /\ Range(new) = {t[i] : i \in (n + 1)..Len(t)}
  <2> HIDE DEF S
  <2>1. QED
    BY <1>5, <1>8, CutFacts
<1>10. PutPrefix(s, p) = new /\ RemovedByPut(s, p) = replaced \cup evicted
  BY DEF PutPrefix, RemovedByPut, t, n, others
<1> HIDE DEF new, evicted
<1>11. Range(new) \cup evicted = Range(t)
  <2>1. Range(t) = {t[i] : i \in 1..Len(t)}
    BY <1>7 DEF Range
  <2>2. QED
    BY <1>7, <1>8, <1>9, <2>1
<1>12. Range(new) \cap evicted = {}
  BY <1>5, <1>7, <1>8, <1>9 DEF Distinct
<1>13. p \notin evicted
  BY <1>5, <1>6, <1>7, <1>8, <1>9 DEF Distinct
<1>14. Range(new) \cap replaced = {}
  BY <1>3, <1>5, <1>11
<1>15. Range(new) \cup replaced \cup evicted = Range(s) \cup {p}
  BY <1>3, <1>5, <1>11
<1>16. new \in Seq(Range(new))
  BY <1>9, SeqOfRange
<1>17. p \in Range(new)
  BY <1>5, <1>11, <1>13
<1>18. QED
  BY <1>9, <1>10, <1>12, <1>14, <1>15, <1>16, <1>17 DEF PutResult

-----------------------------------------------------------------------------
\* The backings.

\* Before the first step nothing is held.
LEMMA BackingInit ==
    ASSUME Init
    PROVE  BackingInv
<1> USE DEF Init
<1>1. Range(<<>>) = {} /\ Distinct(<<>>)
  BY DEF Range, Distinct
<1>2. Typed
  <2>1. store \in Seq(Range(store)) /\ Distinct(store)
    BY <1>1
  <2>2. contexts \in [Requests -> Backings \cup {None}] /\ free \in SUBSET Backings
    OBVIOUS
  <2>3. backing \in [Backings -> {"unused", "open", "closed"}]
    OBVIOUS
  <2>4. QED
    BY <2>1, <2>2, <2>3 DEF Typed
<1>3. Requested
  BY <1>1 DEF Requested, Saves, NoMeta
<1>4. Stages
  BY DEF Stages
<1>5. Exclusive
  BY <1>1, KVAssumption DEF Exclusive, InContext, InStore, Held
<1>6. Losses
  BY DEF Losses, Lost
<1>7. QED
  BY <1>2, <1>3, <1>4, <1>5, <1>6 DEF BackingInv

\* Where no backing moves, it stays with its owner.
Unmoved == UNCHANGED <<contexts, store, free, backing>>

\* A step that moves no backing keeps them owned, and loses none.
LEMMA UnmovedKeeps ==
    ASSUME BackingInv, Unmoved, engine = "dead" => engine' = "dead" /\ meta' = meta
    PROVE  Exclusive' /\ Losses'
<1> USE DEF BackingInv, Unmoved
<1>1. Exclusive'
  BY DEF Exclusive, InContext, InStore, Held
<1>2. Losses'
  BY DEF Losses, Lost, InContext, InStore, Held
<1>3. QED
  BY <1>1, <1>2

\* The worker's side, as vLLM's scheduler leaves it.
WorkerIdles ==
    UNCHANGED <<contexts, store, free, backing, pc, engine, meta, todo, workerClosed,
                runtimeClosed>>

\* While it schedules, the saves it records are the requests'.
LEMMA SchedulingKeeps ==
    ASSUME BackingInv, WorkerIdles, Saves(pendingSaves'), queue' = queue
    PROVE  BackingInv'
<1>1. Exclusive' /\ Losses'
  <2>1. Unmoved /\ (engine = "dead" => engine' = "dead" /\ meta' = meta)
    BY DEF WorkerIdles, Unmoved
  <2>2. QED
    BY <2>1, UnmovedKeeps
<1>2. Typed'
  BY DEF BackingInv, WorkerIdles, Typed
<1>3. Requested'
  BY DEF BackingInv, WorkerIdles, Requested, Saves, SaveRequests
<1>4. Stages'
  BY DEF BackingInv, WorkerIdles, Stages, SaveRequests
<1>5. QED
  BY <1>1, <1>2, <1>3, <1>4 DEF BackingInv

\* Recording a save keeps one entry per request in the pending saves.
LEMMA RecordSaveKeeps ==
    ASSUME Saves(pendingSaves), NEW r \in Requests, NEW ids, RecordSave(r, ids)
    PROVE  Saves(pendingSaves')
  BY DEF Saves, RecordSave

\* update_state_after_alloc, request_finished and the chunk bookkeeping only touch what the
\* scheduler's side keeps: no backing moves.
LEMMA ScheduleKeeps ==
    ASSUME BackingInv, Schedule
    PROVE  BackingInv'
<1> USE DEF vllmVars, schedVars, callVars, saveVars, storeVars, poolVars, closeVars
<1>1. Saves(pendingSaves)
  BY DEF BackingInv, Requested
<1>2. ASSUME NEW r \in Requests, NEW n, ScheduleSaver(r, n)
      PROVE  WorkerIdles /\ Saves(pendingSaves') /\ queue' = queue
  <2>1. WorkerIdles /\ queue' = queue /\ RecordSave(r, [i \in 1..n |-> i])
    BY <1>2 DEF ScheduleSaver, WorkerIdles
  <2>2. QED
    BY <1>1, <2>1, RecordSaveKeeps
<1>3. ASSUME NEW r \in Requests, NEW n, ScheduleChunk(r, n)
      PROVE  WorkerIdles /\ Saves(pendingSaves') /\ queue' = queue
  BY <1>1, <1>3 DEF ScheduleChunk, WorkerIdles
<1>4. ASSUME NEW r \in Requests, NEW computed, ScheduleRestorer(r, computed)
      PROVE  WorkerIdles /\ Saves(pendingSaves') /\ queue' = queue
  BY <1>1, <1>4 DEF ScheduleRestorer, WorkerIdles
<1>5. ASSUME NEW r \in Requests, RequestFinished(r)
      PROVE  WorkerIdles /\ Saves(pendingSaves') /\ queue' = queue
  BY <1>1, <1>5 DEF RequestFinished, WorkerIdles
<1>6. WorkerIdles /\ Saves(pendingSaves') /\ queue' = queue
  BY <1>2, <1>3, <1>4, <1>5 DEF Schedule
<1>7. QED
  BY <1>6, SchedulingKeeps

\* Closing the scheduler's side leaves the worker's backings alone.
LEMMA CloseSchedulerKeeps ==
    ASSUME BackingInv, CloseScheduler
    PROVE  BackingInv'
<1> USE DEF vllmVars, schedVars, callVars, saveVars, storeVars, poolVars, closeVars
<1>1. WorkerIdles /\ Saves(pendingSaves') /\ queue' = queue
  BY DEF CloseScheduler, WorkerIdles, Saves
<1>2. QED
  BY <1>1, SchedulingKeeps

\* The metadata of a step joins the queue.
LEMMA BuildKeeps ==
    ASSUME BackingInv, BuildConnectorMeta
    PROVE  BackingInv'
<1> USE DEF vllmVars, schedVars, callVars, saveVars, storeVars, poolVars, closeVars
<1> DEFINE m == [loads |-> pendingLoads, finished |-> finished,
                 saves |-> pendingSaves \cup {SaveMeta(r) : r \in Collected}]
<1>1. WorkerIdles /\ queue' = Append(queue, m) /\ pendingSaves' = {}
  BY DEF BuildConnectorMeta, WorkerIdles
<1>2. Saves(m.saves)
  <2>1. \A x \in pendingSaves : x.req \in Requests
    BY DEF BackingInv, Requested, Saves
  <2>2. \A r \in Collected : SaveMeta(r).req \in Requests
    BY KVAssumption DEF Collected, SaveMeta
  <2>3. QED
    BY <2>1, <2>2 DEF Saves
<1> HIDE DEF m
<1>3. queue' \in Seq(Range(queue')) /\ \A x \in Range(queue') : Saves(x.saves)
  <2> DEFINE S == Range(queue) \cup {m}
  <2>1. queue \in Seq(S)
    <3>1. queue \in Seq(Range(queue)) /\ Range(queue) \subseteq S
      BY DEF BackingInv, Requested
    <3> HIDE DEF S
    <3>2. QED
      BY <3>1, SeqMonotonic
  <2>2. m \in S
    OBVIOUS
  <2> HIDE DEF S
  <2>3. Append(queue, m) \in Seq(S) /\ Range(Append(queue, m)) = Range(queue) \cup {m}
    BY <2>1, <2>2, AppendFacts
  <2>4. queue' \in Seq(Range(queue'))
    BY <1>1, <2>3, SeqOfRange
  <2>5. QED
    BY <1>1, <1>2, <2>3, <2>4 DEF BackingInv, Requested
<1>4. Exclusive' /\ Losses'
  <2>1. Unmoved /\ (engine = "dead" => engine' = "dead" /\ meta' = meta)
    BY <1>1 DEF WorkerIdles, Unmoved
  <2>2. QED
    BY <2>1, UnmovedKeeps
<1>5. Typed'
  BY <1>1 DEF BackingInv, WorkerIdles, Typed
<1>6. Requested'
  BY <1>1, <1>3 DEF BackingInv, WorkerIdles, Requested, Saves, SaveRequests
<1>7. Stages'
  BY <1>1 DEF BackingInv, WorkerIdles, Stages, SaveRequests
<1>8. QED
  BY <1>4, <1>5, <1>6, <1>7 DEF BackingInv

\* The worker's steps that move no backing.
LEMMA BeginStepKeeps ==
    ASSUME BackingInv, BeginStep
    PROVE  BackingInv'
<1> USE DEF vllmVars, schedVars, callVars, saveVars, storeVars, poolVars, closeVars
<1>1. /\ engine = "up" /\ pc = "idle" /\ ~workerClosed
      /\ meta' = Head(queue) /\ queue' = Tail(queue) /\ queue # <<>> /\ pc' = "load"
      /\ UNCHANGED <<contexts, store, free, backing, engine, workerClosed, runtimeClosed,
                     pendingSaves>>
  BY DEF BeginStep
<1>2. Exclusive' /\ Losses'
  BY <1>1, UnmovedKeeps DEF Unmoved
<1>3. Typed'
  BY <1>1 DEF BackingInv, Typed
<1>4. Requested'
  <2>1. queue \in Seq(Range(queue)) /\ \A m \in Range(queue) : Saves(m.saves)
    BY DEF BackingInv, Requested
  <2>2. Head(queue) \in Range(queue) /\ Tail(queue) \in Seq(Range(queue))
    BY <1>1, <2>1, HeadTailProperties
  <2>3. Range(Tail(queue)) \subseteq Range(queue)
    BY <2>2, RangeOfSeq
  <2>4. Tail(queue) \in Seq(Range(Tail(queue)))
    BY <2>2, SeqOfRange
  <2>5. QED
    BY <1>1, <2>1, <2>2, <2>3, <2>4 DEF BackingInv, Requested, Saves
<1>5. Stages'
  BY <1>1 DEF BackingInv, Stages
<1>6. QED
  BY <1>2, <1>3, <1>4, <1>5 DEF BackingInv

\* start_load_kv, for one request, reads a stored backing and moves none.
LEMMA LoadRequestKeeps ==
    ASSUME BackingInv, LoadRequest
    PROVE  BackingInv'
<1> USE DEF vllmVars, schedVars, callVars, saveVars, storeVars, poolVars, closeVars
<1>1. /\ UNCHANGED <<contexts, store, free, backing, meta, queue, pendingSaves, workerClosed,
                     runtimeClosed>>
      /\ pc = "load"
      /\ \/ pc' = pc /\ engine' = engine
         \/ pc' = "dead" /\ engine' = "dead"
  BY DEF LoadRequest, Raise
<1>2. engine = "up"
  BY <1>1 DEF BackingInv, Typed
<1>3. Exclusive' /\ Losses'
  BY <1>1, <1>2, UnmovedKeeps DEF Unmoved
<1>4. Typed'
  BY <1>1, <1>2 DEF BackingInv, Typed
<1>5. Requested'
  BY <1>1 DEF BackingInv, Requested, Saves
<1>6. Stages'
  BY <1>1 DEF BackingInv, Stages
<1>7. QED
  BY <1>3, <1>4, <1>5, <1>6 DEF BackingInv

\* The forward pass starts with every save of the step still to do.
LEMMA StartForwardKeeps ==
    ASSUME BackingInv, StartForward
    PROVE  BackingInv'
<1> USE DEF vllmVars, schedVars, callVars, saveVars, storeVars, poolVars, closeVars
<1>1. /\ UNCHANGED <<contexts, store, free, backing, meta, queue, pendingSaves, engine,
                     workerClosed, runtimeClosed>>
      /\ pc = "load" /\ pc' \in {"finish", "layers"} /\ todo' = SaveRequests(meta)
  BY DEF StartForward
<1>2. engine = "up"
  BY <1>1 DEF BackingInv, Typed
<1>3. Exclusive' /\ Losses'
  BY <1>1, <1>2, UnmovedKeeps DEF Unmoved
<1>4. Typed'
  BY <1>1, <1>2 DEF BackingInv, Typed
<1>5. Requested'
  BY <1>1 DEF BackingInv, Requested, Saves, SaveRequests
<1>6. Stages'
  BY <1>1 DEF BackingInv, Stages
<1>7. QED
  BY <1>3, <1>4, <1>5, <1>6 DEF BackingInv

\* The next layer starts with every save of the step still to do.
LEMMA NextLayerKeeps ==
    ASSUME BackingInv, NextLayer
    PROVE  BackingInv'
<1> USE DEF vllmVars, schedVars, callVars, saveVars, storeVars, poolVars, closeVars
<1>1. /\ UNCHANGED <<contexts, store, free, backing, meta, queue, pendingSaves, engine,
                     workerClosed, runtimeClosed>>
      /\ pc = "layers" /\ pc' \in {"layers", "wait"} /\ todo' = SaveRequests(meta)
  BY DEF NextLayer
<1>2. engine = "up"
  BY <1>1 DEF BackingInv, Typed
<1>3. Exclusive' /\ Losses'
  BY <1>1, <1>2, UnmovedKeeps DEF Unmoved
<1>4. Typed'
  BY <1>1, <1>2 DEF BackingInv, Typed
<1>5. Requested'
  BY <1>1 DEF BackingInv, Requested, Saves, SaveRequests
<1>6. Stages'
  BY <1>1 DEF BackingInv, Stages, SaveRequests
<1>7. QED
  BY <1>3, <1>4, <1>5, <1>6 DEF BackingInv

\* Leaving wait_for_save, no save of the step is left to do.
LEMMA SavesDoneKeeps ==
    ASSUME BackingInv, SavesDone
    PROVE  BackingInv'
<1> USE DEF vllmVars, schedVars, callVars, saveVars, storeVars, poolVars, closeVars
<1>1. /\ UNCHANGED <<contexts, store, free, backing, meta, queue, pendingSaves, engine, todo,
                     workerClosed, runtimeClosed>>
      /\ pc = "wait" /\ pc' = "finish" /\ todo = {}
  BY DEF SavesDone
<1>2. engine = "up"
  BY <1>1 DEF BackingInv, Typed
<1>3. Exclusive' /\ Losses'
  BY <1>1, <1>2, UnmovedKeeps DEF Unmoved
<1>4. Typed'
  BY <1>1, <1>2 DEF BackingInv, Typed
<1>5. Requested'
  BY <1>1 DEF BackingInv, Requested, Saves
<1>6. Stages'
  BY <1>1 DEF BackingInv, Stages
<1>7. QED
  BY <1>3, <1>4, <1>5, <1>6 DEF BackingInv

\* get_finished drops the step's metadata.
LEMMA GetFinishedKeeps ==
    ASSUME BackingInv, GetFinished
    PROVE  BackingInv'
<1> USE DEF vllmVars, schedVars, callVars, saveVars, storeVars, poolVars, closeVars
<1>1. /\ UNCHANGED <<contexts, store, free, backing, queue, pendingSaves, engine,
                     workerClosed, runtimeClosed>>
      /\ pc = "finish" /\ pc' = "idle" /\ meta' = NoMeta
  BY DEF GetFinished
<1>2. engine = "up"
  BY <1>1 DEF BackingInv, Typed
<1>3. Exclusive' /\ Losses'
  BY <1>1, <1>2, UnmovedKeeps DEF Unmoved
<1>4. Typed'
  BY <1>1, <1>2 DEF BackingInv, Typed
<1>5. Requested'
  BY <1>1 DEF BackingInv, Requested, Saves, NoMeta
<1>6. Stages'
  BY <1>1 DEF BackingInv, Stages
<1>7. QED
  BY <1>3, <1>4, <1>5, <1>6 DEF BackingInv

\* A backing that is acquired was free or is new.
LEMMA AcquirableFacts ==
    ASSUME NEW n, NEW b \in Acquirable(n), free \subseteq Backings
    PROVE  b \in Backings /\ (b \in free \/ backing[b] = "unused")
<1> DEFINE unused == {x \in Backings : backing[x] = "unused"}
<1>1. CASE unused # {}
  <2>1. unused \in SUBSET Nat
    BY KVAssumption
  <2> HIDE DEF unused
  <2>2. Smallest(unused) \in unused
    BY <1>1, <2>1, SmallestIn
  <2>3. b \in free \/ b \in unused
    BY <2>2 DEF Acquirable, unused
  <2>4. QED
    BY <2>3 DEF unused
<1>2. CASE unused = {}
  BY <1>2 DEF Acquirable
<1>3. QED
  BY <1>1, <1>2

\* save_kv_layer: a new context takes its backing from the pool, or the pool gets it.
LEMMA SaveLayerKeeps ==
    ASSUME BackingInv, SaveLayer
    PROVE  BackingInv'
<1> USE DEF vllmVars, schedVars, callVars, saveVars, storeVars, poolVars, closeVars
<1> DEFINE r == Smallest(todo)
<1>1. /\ UNCHANGED <<store, meta, queue, pendingSaves, workerClosed, runtimeClosed>>
      /\ pc = "layers" /\ todo # {} /\ todo \subseteq SaveRequests(meta)
      /\ engine = "up" /\ SaveRequests(meta) \subseteq Requests /\ ~workerClosed
  <2>1. pc = "layers" /\ todo # {}
    BY DEF SaveLayer
  <2>2. UNCHANGED <<store, meta, queue, pendingSaves, workerClosed, runtimeClosed>>
    BY DEF SaveLayer
  <2>3. engine = "up" /\ ~workerClosed
    BY <2>1 DEF BackingInv, Typed, Stages
  <2>4. todo \subseteq SaveRequests(meta) /\ SaveRequests(meta) \subseteq Requests
    BY <2>1 DEF BackingInv, Requested, Saves, SaveRequests
  <2>5. QED
    BY <2>1, <2>2, <2>3, <2>4
<1>2. r \in todo /\ r \in SaveRequests(meta) /\ r \in Requests
  <2>1. todo \in SUBSET Nat /\ todo # {}
    BY <1>1, KVAssumption
  <2>2. QED
    BY <1>1, <2>1, SmallestIn
<1>3. \/ /\ Unmoved /\ todo' \subseteq todo
         /\ \/ pc' = pc /\ engine' = engine
            \/ pc' = "dead" /\ engine' = "dead"
      \/ \E b \in Acquirable(Len(SaveOf(r).ids)), ok \in BOOLEAN :
            /\ contexts[r] = None
            /\ StartContext(r, b, ok) /\ todo' \subseteq todo
            /\ ok => pc' = pc /\ engine' = engine
            /\ ~ok => pc' = "dead" /\ engine' = "dead"
  <2> HIDE DEF r
  <2>1. CASE Unmoved
    BY <2>1 DEF SaveLayer, Raise
  <2>2. CASE ~Unmoved
    BY <1>1, <2>2 DEF SaveLayer, Raise, Unmoved, r
  <2>3. QED
    BY <2>1, <2>2
<1> HIDE DEF r
<1>4. Requested'
  <2>1. pc' \in {"layers", "dead"} /\ todo' \subseteq todo
    BY <1>1, <1>3
  <2>2. QED
    BY <1>1, <2>1 DEF BackingInv, Requested, Saves, SaveRequests
<1>5. CASE /\ Unmoved
           /\ \/ pc' = pc /\ engine' = engine
              \/ pc' = "dead" /\ engine' = "dead"
  <2>1. Exclusive' /\ Losses'
    BY <1>1, <1>5, UnmovedKeeps
  <2>2. Typed'
    BY <1>1, <1>5 DEF BackingInv, Typed, Unmoved
  <2>3. Stages'
    BY <1>1, <1>5 DEF BackingInv, Stages, Unmoved, SaveRequests
  <2>4. QED
    BY <1>4, <2>1, <2>2, <2>3 DEF BackingInv
<1>6. ASSUME NEW b \in Acquirable(Len(SaveOf(r).ids)), NEW ok \in BOOLEAN, contexts[r] = None,
             StartContext(r, b, ok), ok => pc' = pc /\ engine' = engine,
             ~ok => pc' = "dead" /\ engine' = "dead"
      PROVE  BackingInv'
  <2>1. /\ b \in Backings /\ (b \in free \/ backing[b] = "unused")
        /\ ~InContext(b) /\ ~InStore(b)
    <3>1. b \in Backings /\ (b \in free \/ backing[b] = "unused")
      BY <1>6, AcquirableFacts DEF BackingInv, Typed
    <3>2. QED
      BY <3>1 DEF BackingInv, Exclusive, Held
  <2>2. /\ contexts \in [Requests -> Backings \cup {None}] /\ free \subseteq Backings
        /\ backing \in [Backings -> {"unused", "open", "closed"}]
    BY DEF BackingInv, Typed
  <2>3. /\ backing' = [backing EXCEPT ![b] = "open"]
        /\ ok => free' = free \ {b} /\ contexts' = [contexts EXCEPT ![r] = b]
        /\ ~ok => free' = free \cup {b} /\ contexts' = contexts
    BY <1>6 DEF StartContext
  <2>4. Typed'
    <3>1. /\ contexts' \in [Requests -> Backings \cup {None}] /\ free' \subseteq Backings
          /\ backing' \in [Backings -> {"unused", "open", "closed"}]
      BY <2>1, <2>2, <2>3
    <3>2. QED
      BY <1>1, <1>6, <3>1 DEF BackingInv, Typed
  <2>5. \A x \in Requests : contexts'[x] = contexts[x] \/ (x = r /\ ok /\ contexts'[x] = b)
    BY <2>2, <2>3
  <2>6. Stages'
    BY <1>1, <1>2, <1>6, <2>5 DEF BackingInv, Stages, SaveRequests
  <2>7. b # None
    BY <2>1, KVAssumption
  <2>8. \A c \in Backings : /\ InContext(c)' <=> InContext(c) \/ (ok /\ c = b)
                            /\ InStore(c)' <=> InStore(c)
                            /\ c \in free' <=> (c \in free /\ c # b) \/ (~ok /\ c = b)
                            /\ backing'[c] = IF c = b THEN "open" ELSE backing[c]
    <3> TAKE c \in Backings
    <3>1. InContext(c)' <=> InContext(c) \/ (ok /\ c = b)
      <4>1. ASSUME ok
            PROVE  InContext(c)' <=> InContext(c) \/ c = b
        <5>1. contexts' = [contexts EXCEPT ![r] = b]
          BY <2>3, <4>1
        <5>2. \A x \in Requests : contexts'[x] = IF x = r THEN b ELSE contexts[x]
          BY <2>2, <5>1
        <5>3. c # None /\ contexts[r] = None
          BY <1>6, KVAssumption
        <5>4. QED
          BY <1>2, <5>2, <5>3 DEF InContext
      <4>2. ASSUME ~ok
            PROVE  InContext(c)' <=> InContext(c)
        BY <2>3, <4>2 DEF InContext
      <4>3. QED
        BY <4>1, <4>2
    <3>2. InStore(c)' <=> InStore(c)
      BY <1>1 DEF InStore
    <3>3. c \in free' <=> (c \in free /\ c # b) \/ (~ok /\ c = b)
      BY <2>3
    <3>4. backing'[c] = IF c = b THEN "open" ELSE backing[c]
      BY <2>2, <2>3
    <3>5. QED
      BY <3>1, <3>2, <3>3, <3>4
  <2>9. Exclusive'
    <3>1. \A p \in Range(store') : Prefix(p)
      BY <1>1 DEF BackingInv, Exclusive
    <3>2. \A q, x \in Requests : contexts'[q] # None /\ contexts'[q] = contexts'[x] => q = x
      <4>1. \A x \in Requests : contexts[x] # b
        BY <2>1 DEF InContext
      <4>2. QED
        BY <2>5, <4>1 DEF BackingInv, Exclusive
    <3>3. \A p, q \in Range(store') : p.backing = q.backing => p = q
      BY <1>1 DEF BackingInv, Exclusive
    <3>4. \A c \in Backings : /\ ~(InContext(c)' /\ InStore(c)')
                              /\ ~(InContext(c)' /\ c \in free')
                              /\ ~(InStore(c)' /\ c \in free')
                              /\ Held(c)' => backing'[c] = "open"
      BY <2>1, <2>8 DEF BackingInv, Exclusive, Held
    <3>5. QED
      BY <3>1, <3>2, <3>3, <3>4 DEF Exclusive
  <2>10. Losses'
    <3>1. \A c \in Backings : ~Lost(c)
      BY <1>1 DEF BackingInv, Losses
    <3>2. \A c \in Backings : ~Lost(c)'
      BY <2>1, <2>8, <3>1 DEF Lost, Held
    <3>3. QED
      BY <3>2 DEF Losses
  <2>11. QED
    BY <1>4, <2>4, <2>6, <2>9, <2>10 DEF BackingInv
<1>7. QED
  BY <1>3, <1>5, <1>6

\* wait_for_save: the context of a request is taken out, and its backing is stored,
\* closed, or lost when the layers are incomplete.
Kept(b, p) ==
    /\ store' = PutPrefix(store, p) /\ free' = free \cup BackingsOf(RemovedByPut(store, p))
    /\ backing' = backing /\ pc' = pc /\ engine' = engine /\ p.backing = b

Refused(b) ==
    /\ backing' = [backing EXCEPT ![b] = "closed"] /\ store' = store /\ free' = free
    /\ pc' = "dead" /\ engine' = "dead"

Incomplete ==
    /\ backing' = backing /\ store' = store /\ free' = free
    /\ pc' = "dead" /\ engine' = "dead"

\* The prefix that a save makes.
SavedPrefix(r, b, e) ==
    [key |-> KeyOf[r], backing |-> b, count |-> Len(SaveOf(r).ids), tokens |-> SaveOf(r).tokens,
     source |-> r, evidence |-> e]

\* What the store asks of a prefix, its save has shown, so a put never fails half way.
LEMMA FinishSaveFacts ==
    ASSUME BackingInv, NEW r \in Requests, NEW b \in Backings, FinishSave(r, b), ~InStore(b)
    PROVE  \/ Refused(b) /\ global' = global /\ todo' = todo
           \/ \E e \in EvidenceShapes :
                 LET p == SavedPrefix(r, b, e)
                 IN /\ LifecycleOK(e) /\ Kept(b, p) /\ StorePrefix(p)
                    /\ PutResult(store, p, PutPrefix(store, p), RemovedByPut(store, p))
                    /\ todo' = todo \ {r}
<1>1. PICK e \in EvidenceShapes :
          LET p == SavedPrefix(r, b, e)
          IN IF ~LifecycleOK(e)
             THEN /\ backing' = [backing EXCEPT ![b] = "closed"]
                  /\ Raise
                  /\ UNCHANGED <<store, global, free, savedIds, todo>>
             ELSE IF /\ \A q \in RemovedByPut(store, p) \cup {p} : StoreEvidenceOK(q)
                     /\ \A q \in RemovedByPut(store, p) : BackingEvidenceOK(q)
             THEN /\ StorePrefix(p)
                  /\ savedIds' = savedIds \cup {r}
                  /\ todo' = todo \ {r}
                  /\ UNCHANGED <<backing, pc, engine>>
             ELSE /\ store' = PutPrefix(store, p)
                  /\ backing' = [backing EXCEPT ![b] = "closed"]
                  /\ Raise
                  /\ UNCHANGED <<global, free, savedIds, todo>>
  BY Zenon DEF FinishSave, SavedPrefix
<1> DEFINE p == SavedPrefix(r, b, e)
<1>2. CASE ~LifecycleOK(e)
  <2>1. /\ backing' = [backing EXCEPT ![b] = "closed"] /\ Raise
        /\ UNCHANGED <<store, global, free, savedIds, todo>>
    BY <1>1, <1>2
  <2>2. QED
    BY <2>1 DEF Refused, Raise
<1>3. CASE LifecycleOK(e)
  <2>1. p.backing = b /\ p.evidence = e
    BY DEF SavedPrefix
  <2> HIDE DEF p
  <2>2. p \notin Range(store)
    BY <2>1 DEF InStore
  <2>3. PutResult(store, p, PutPrefix(store, p), RemovedByPut(store, p))
    BY <2>2, PutFacts DEF BackingInv, Typed
  <2>4. ASSUME NEW q \in RemovedByPut(store, p) \cup {p}
        PROVE  StoreEvidenceOK(q) /\ BackingEvidenceOK(q)
    <3>1. q \in Range(store) \/ q = p
      BY <2>3 DEF PutResult
    <3>2. LifecycleOK(q.evidence)
      BY <1>3, <2>1, <3>1 DEF BackingInv, Exclusive, Prefix
    <3>3. QED
      BY <3>2 DEF LifecycleOK, StoreEvidenceOK, BackingEvidenceOK
  <2>5. /\ StorePrefix(p)
        /\ savedIds' = savedIds \cup {r}
        /\ todo' = todo \ {r}
        /\ UNCHANGED <<backing, pc, engine>>
    <3>1. /\ \A q \in RemovedByPut(store, p) \cup {p} : StoreEvidenceOK(q)
          /\ \A q \in RemovedByPut(store, p) : BackingEvidenceOK(q)
      BY <2>4
    <3>2. QED
      BY <1>1, <1>3, <3>1 DEF p
  <2>6. Kept(b, p)
    BY <2>1, <2>5 DEF Kept, StorePrefix
  <2>7. QED
    BY <1>3, <2>3, <2>5, <2>6 DEF p
<1>4. QED
  BY <1>2, <1>3

\* wait_for_save takes one context out and either stores its backing or dies with it.
LEMMA WaitForSaveFacts ==
    ASSUME BackingInv, WaitForSave
    PROVE  \E r \in Requests :
               /\ r \in todo /\ r \in SaveRequests(meta)
               /\ contexts' = [contexts EXCEPT ![r] = None]
               /\ \/ contexts[r] # None /\ FinishSave(r, contexts[r])
                  \/ Incomplete /\ global' = global /\ todo' = todo /\ content' = content
<1> USE DEF vllmVars, schedVars, callVars, saveVars, storeVars, poolVars, closeVars
<1> DEFINE r == Smallest(todo)
<1>1. r \in todo
  <2>1. pc = "wait" /\ todo # {}
    BY DEF WaitForSave
  <2>2. todo \subseteq SaveRequests(meta) /\ SaveRequests(meta) \subseteq Requests
    BY <2>1 DEF BackingInv, Requested, Saves, SaveRequests
  <2>3. todo \in SUBSET Nat
    BY <2>2, KVAssumption
  <2>4. QED
    BY <2>1, <2>3, SmallestIn
<1>2. r \in SaveRequests(meta) /\ r \in Requests
  BY <1>1 DEF BackingInv, Requested, Saves, SaveRequests, WaitForSave
<1>3. contexts' = [contexts EXCEPT ![r] = None]
  BY DEF WaitForSave
<1>4. IF contexts[r] # None /\ Cardinality(ready[r]) = Layers
      THEN FinishSave(r, contexts[r])
      ELSE /\ Raise
           /\ UNCHANGED <<store, global, free, savedIds, todo, backing, content>>
  BY DEF WaitForSave
<1> HIDE DEF r
<1>5. \/ contexts[r] # None /\ FinishSave(r, contexts[r])
      \/ Incomplete /\ global' = global /\ todo' = todo /\ content' = content
  <2>1. CASE contexts[r] # None /\ Cardinality(ready[r]) = Layers
    BY <1>4, <2>1
  <2>2. CASE ~(contexts[r] # None /\ Cardinality(ready[r]) = Layers)
    <3>1. Raise /\ UNCHANGED <<store, global, free, savedIds, todo, backing, content>>
      BY <1>4, <2>2
    <3>2. QED
      BY <3>1 DEF Raise, Incomplete
  <2>3. QED
    BY <2>1, <2>2
<1>6. QED
  BY <1>1, <1>2, <1>3, <1>5

\* wait_for_save hands the backing on: stored, given back, or lost with the engine.
LEMMA WaitForSaveKeeps ==
    ASSUME BackingInv, WaitForSave
    PROVE  BackingInv'
<1> USE DEF vllmVars, schedVars, callVars, saveVars, storeVars, poolVars, closeVars
<1>1. PICK r \in Requests :
          /\ r \in todo /\ r \in SaveRequests(meta)
          /\ contexts' = [contexts EXCEPT ![r] = None]
          /\ \/ contexts[r] # None /\ FinishSave(r, contexts[r])
             \/ Incomplete /\ global' = global /\ todo' = todo /\ content' = content
  BY WaitForSaveFacts
<1>2. /\ UNCHANGED <<meta, queue, pendingSaves, workerClosed, runtimeClosed>>
      /\ pc = "wait" /\ engine = "up" /\ ~workerClosed
  BY DEF WaitForSave, BackingInv, Typed, Stages
<1> DEFINE b == contexts[r]
<1>3. /\ contexts \in [Requests -> Backings \cup {None}] /\ b \in Backings \cup {None}
      /\ free \subseteq Backings /\ backing \in [Backings -> {"unused", "open", "closed"}]
  BY DEF BackingInv, Typed
<1>4. b # None => b \in Backings /\ ~InStore(b) /\ b \notin free /\ backing[b] = "open"
  BY <1>3 DEF BackingInv, Exclusive, InContext, Held
<1>5. \A c \in Backings : InContext(c)' <=> InContext(c) /\ c # b
  <2> TAKE c \in Backings
  <2>1. \A x \in Requests : contexts'[x] = IF x = r THEN None ELSE contexts[x]
    BY <1>1, <1>3
  <2>2. c # None
    BY KVAssumption
  <2>3. \A x \in Requests : contexts[x] = c /\ contexts[r] = c => x = r
    BY <2>2 DEF BackingInv, Exclusive
  <2>4. QED
    BY <2>1, <2>2, <2>3 DEF InContext
<1>6. /\ contexts' \in [Requests -> Backings \cup {None}]
      /\ \A q, x \in Requests : contexts'[q] # None /\ contexts'[q] = contexts'[x] => q = x
      /\ \A x \in Requests : contexts'[x] # None => contexts[x] # None /\ x # r
  <2>1. \A x \in Requests : contexts'[x] = IF x = r THEN None ELSE contexts[x]
    BY <1>1, <1>3
  <2>2. contexts' \in [Requests -> Backings \cup {None}]
    BY <1>1, <1>3
  <2>3. QED
    BY <2>1, <2>2 DEF BackingInv, Exclusive
<1>7. meta.saves # {}
  BY <1>1 DEF SaveRequests
<1>8. \A c \in Backings : ~Lost(c)
  BY <1>2 DEF BackingInv, Losses
<1>9. CASE Incomplete
  <2>1. Typed'
    BY <1>2, <1>6, <1>9 DEF BackingInv, Typed, Incomplete
  <2>2. Requested'
    BY <1>2, <1>9 DEF BackingInv, Requested, Saves, Incomplete
  <2>3. Stages'
    BY <1>2, <1>9 DEF BackingInv, Stages, Incomplete
  <2>4. \A c \in Backings : /\ InStore(c)' <=> InStore(c)
                            /\ c \in free' <=> c \in free
                            /\ backing'[c] = backing[c]
    BY <1>9 DEF Incomplete, InStore
  <2>5. Exclusive'
    BY <1>5, <1>6, <1>9, <2>4 DEF BackingInv, Exclusive, Held, Incomplete
  <2>6. \A c \in Backings : Lost(c)' => c = b
    BY <1>5, <1>8, <2>4 DEF Lost, Held
  <2>7. Losses'
    BY <1>2, <1>7, <1>9, <2>6 DEF Losses, Incomplete
  <2>8. QED
    BY <2>1, <2>2, <2>3, <2>5, <2>7 DEF BackingInv
<1>10. CASE b # None /\ FinishSave(r, b)
  <2>1. b \in Backings /\ ~InStore(b) /\ b \notin free /\ backing[b] = "open"
    BY <1>4, <1>10
  <2>2. \/ Refused(b) /\ global' = global /\ todo' = todo
        \/ \E e \in EvidenceShapes :
              LET p == SavedPrefix(r, b, e)
              IN /\ LifecycleOK(e) /\ Kept(b, p) /\ StorePrefix(p)
                 /\ PutResult(store, p, PutPrefix(store, p), RemovedByPut(store, p))
                 /\ todo' = todo \ {r}
    <3> HIDE DEF b
    <3>1. QED
      BY <1>10, <2>1, FinishSaveFacts
  <2> HIDE DEF b
  <2>3. CASE Refused(b)
    <3>1. backing' \in [Backings -> {"unused", "open", "closed"}]
      BY <1>3, <2>1, <2>3 DEF Refused
    <3>2. Typed'
      BY <1>2, <1>6, <2>3, <3>1 DEF BackingInv, Typed, Refused
    <3>3. Requested'
      BY <1>2, <2>3 DEF BackingInv, Requested, Saves, Refused
    <3>4. Stages'
      BY <1>2, <2>3 DEF BackingInv, Stages, Refused
    <3>5. \A c \in Backings : /\ InStore(c)' <=> InStore(c)
                              /\ c \in free' <=> c \in free
                              /\ backing'[c] = IF c = b THEN "closed" ELSE backing[c]
      BY <1>3, <2>1, <2>3 DEF Refused, InStore
    <3>6. Exclusive'
      <4>1. \A p \in Range(store') : Prefix(p)
        BY <2>3 DEF BackingInv, Exclusive, Refused
      <4>2. \A p, q \in Range(store') : p.backing = q.backing => p = q
        BY <2>3 DEF BackingInv, Exclusive, Refused
      <4>3. \A c \in Backings : /\ ~(InContext(c)' /\ InStore(c)')
                                /\ ~(InContext(c)' /\ c \in free')
                                /\ ~(InStore(c)' /\ c \in free')
                                /\ Held(c)' => backing'[c] = "open"
        BY <1>5, <2>1, <3>5 DEF BackingInv, Exclusive, Held
      <4>4. QED
        BY <1>6, <4>1, <4>2, <4>3 DEF Exclusive
    <3>7. \A c \in Backings : ~Lost(c)'
      BY <1>5, <1>8, <3>5 DEF Lost, Held
    <3>8. Losses'
      BY <3>7 DEF Losses
    <3>9. QED
      BY <3>2, <3>3, <3>4, <3>6, <3>8 DEF BackingInv
  <2>4. ASSUME NEW e \in EvidenceShapes, NEW p, p = SavedPrefix(r, b, e), LifecycleOK(e),
               Kept(b, p), todo' = todo \ {r},
               PutResult(store, p, PutPrefix(store, p), RemovedByPut(store, p))
        PROVE  BackingInv'
    <3> DEFINE gone == RemovedByPut(store, p)
    <3>1. /\ store' \in Seq(Range(store')) /\ Distinct(store')
          /\ Range(store') \cup gone = Range(store) \cup {p}
          /\ Range(store') \cap gone = {}
      BY <2>4 DEF PutResult, Kept
    <3>2. p.backing = b /\ p.evidence = e
      BY <2>4 DEF SavedPrefix
    <3>3. free' = free \cup BackingsOf(gone) /\ backing' = backing /\ pc' = pc /\ engine' = engine
      BY <2>4 DEF Kept
    <3> HIDE DEF gone
    <3>4. \A q \in Range(store) \cup {p} : Prefix(q)
      BY <2>1, <2>4, <3>2 DEF BackingInv, Exclusive, Prefix
    <3>5. \A q, x \in Range(store) \cup {p} : q.backing = x.backing => q = x
      BY <2>1, <3>2 DEF BackingInv, Exclusive, InStore
    <3>6. BackingsOf(gone) \subseteq Backings
      BY <3>1, <3>4 DEF BackingsOf, Prefix
    <3>7. Typed'
      BY <1>2, <1>3, <1>6, <3>1, <3>3, <3>6 DEF BackingInv, Typed
    <3>8. Requested'
      BY <1>2, <2>4, <3>3 DEF BackingInv, Requested, Saves, SaveRequests
    <3>9. Stages'
      BY <1>2, <1>6, <2>4, <3>3 DEF BackingInv, Stages
    <3>10. \A c \in Backings : /\ InStore(c)' => InStore(c) \/ c = b
                               /\ c \in free' <=> c \in free \/ c \in BackingsOf(gone)
                               /\ c \in BackingsOf(gone) => InStore(c) \/ c = b
                               /\ ~(InStore(c)' /\ c \in BackingsOf(gone))
                               /\ InStore(c) \/ c = b => InStore(c)' \/ c \in BackingsOf(gone)
      <4> TAKE c \in Backings
      <4>1. InStore(c)' <=> \E q \in Range(store') : q.backing = c
        BY DEF InStore
      <4>2. c \in BackingsOf(gone) <=> \E q \in gone : q.backing = c
        BY DEF BackingsOf
      <4>3. InStore(c) \/ c = b <=> \E q \in Range(store) \cup {p} : q.backing = c
        BY <3>2 DEF InStore
      <4>4. QED
        BY <3>1, <3>3, <3>5, <4>1, <4>2, <4>3
    <3>11. Exclusive'
      <4>1. \A q \in Range(store') : Prefix(q)
        BY <3>1, <3>4
      <4>2. \A q, x \in Range(store') : q.backing = x.backing => q = x
        BY <3>1, <3>5
      <4>3. \A c \in Backings : /\ ~(InContext(c)' /\ InStore(c)')
                                /\ ~(InContext(c)' /\ c \in free')
                                /\ ~(InStore(c)' /\ c \in free')
                                /\ Held(c)' => backing'[c] = "open"
        BY <1>5, <2>1, <3>3, <3>10 DEF BackingInv, Exclusive, Held, b
      <4>4. QED
        BY <1>6, <4>1, <4>2, <4>3 DEF Exclusive
    <3>12. \A c \in Backings : ~Lost(c)'
      BY <1>5, <1>8, <3>3, <3>10 DEF Lost, Held
    <3>13. Losses'
      BY <3>12 DEF Losses
    <3>14. QED
      BY <3>7, <3>8, <3>9, <3>11, <3>13 DEF BackingInv
  <2>5. QED
    BY <2>2, <2>3, <2>4
<1>11. QED
  BY <1>1, <1>9, <1>10

\* The worker's close.
LEMMA CloseWorkerKeeps ==
    ASSUME BackingInv, CloseWorker
    PROVE  BackingInv'
<1> USE DEF vllmVars, schedVars, callVars, saveVars, storeVars, poolVars, closeVars
<1>1. /\ UNCHANGED <<pendingSaves, queue, pc, meta, todo, engine>>
      /\ pc \in {"idle", "dead"} /\ ~workerClosed /\ workerClosed'
      /\ store' = <<>> /\ contexts' = [r \in Requests |-> None] /\ workerClosed' \in BOOLEAN
  BY DEF CloseWorker
<1>2. PICK ok \in BOOLEAN :
          /\ runtimeClosed' = ok /\ free' = free \ ClosedFree(ok)
          /\ backing' = [b \in Backings |->
                IF b \in DrainedBackings \cup OpenContexts \cup ClosedFree(ok)
                THEN "closed" ELSE backing[b]]
  BY DEF CloseWorker
<1>3. Range(store') = {} /\ store' \in Seq(Range(store')) /\ Distinct(store')
  BY <1>1 DEF Range, Distinct
<1>4. Typed'
  <2>1. contexts' \in [Requests -> Backings \cup {None}] /\ free' \in SUBSET Backings
    BY <1>1, <1>2 DEF BackingInv, Typed
  <2>2. backing' \in [Backings -> {"unused", "open", "closed"}]
    <3>1. backing \in [Backings -> {"unused", "open", "closed"}]
      BY DEF BackingInv, Typed
    <3>2. QED
      BY <1>2, <3>1
  <2>3. QED
    BY <1>1, <1>2, <1>3, <2>1, <2>2 DEF BackingInv, Typed
<1>5. Requested'
  BY <1>1 DEF BackingInv, Requested, Saves
<1>6. Stages'
  <2>1. runtimeClosed' => free' = {}
    BY <1>2 DEF ClosedFree
  <2>2. QED
    BY <1>1, <2>1 DEF BackingInv, Stages
<1>7. \A b \in Backings : /\ ~InContext(b)' /\ ~InStore(b)'
                          /\ b \in OpenContexts <=> InContext(b)
                          /\ b \in DrainedBackings <=> InStore(b)
  <2>1. \A b \in Backings : b # None
    BY KVAssumption
  <2>2. QED
    BY <1>1, <1>3, <2>1 DEF InContext, InStore, OpenContexts, DrainedBackings, BackingsOf
<1>8. \A b \in Backings : /\ b \in free' <=> b \in free /\ ~ok
                          /\ backing'[b] = IF InContext(b) \/ InStore(b) \/ (b \in free /\ ok)
                                           THEN "closed" ELSE backing[b]
  BY <1>2, <1>7 DEF ClosedFree
<1>9. Exclusive'
  BY <1>1, <1>3, <1>7, <1>8 DEF BackingInv, Exclusive, Held
<1>10. \A b \in Backings : Lost(b)' => Lost(b)
  BY <1>7, <1>8 DEF Lost, Held
<1>11. Losses'
  BY <1>1, <1>10 DEF BackingInv, Losses
<1>12. QED
  BY <1>4, <1>5, <1>6, <1>9, <1>11 DEF BackingInv

\* Nothing happens.
LEMMA BackingStutters ==
    ASSUME BackingInv, UNCHANGED vars
    PROVE  BackingInv'
<1> USE DEF vars, vllmVars, schedVars, callVars, saveVars, storeVars, poolVars, closeVars
<1>1. WorkerIdles /\ Saves(pendingSaves') /\ queue' = queue
  BY DEF WorkerIdles, BackingInv, Requested
<1>2. QED
  BY <1>1, SchedulingKeeps

\* Every step keeps each backing with one owner.
LEMMA BackingStep ==
    ASSUME BackingInv, [Next]_vars
    PROVE  BackingInv'
<1>1. CASE Schedule
  BY <1>1, ScheduleKeeps
<1>2. CASE BuildConnectorMeta
  BY <1>2, BuildKeeps
<1>3. CASE WorkerStep
  <2>1. CASE BeginStep
    BY <2>1, BeginStepKeeps
  <2>2. CASE LoadRequest
    BY <2>2, LoadRequestKeeps
  <2>3. CASE StartForward
    BY <2>3, StartForwardKeeps
  <2>4. CASE SaveLayer
    BY <2>4, SaveLayerKeeps
  <2>5. CASE NextLayer
    BY <2>5, NextLayerKeeps
  <2>6. CASE WaitForSave
    BY <2>6, WaitForSaveKeeps
  <2>7. CASE SavesDone
    BY <2>7, SavesDoneKeeps
  <2>8. CASE GetFinished
    BY <2>8, GetFinishedKeeps
  <2>9. QED
    BY <1>3, <2>1, <2>2, <2>3, <2>4, <2>5, <2>6, <2>7, <2>8 DEF WorkerStep
<1>4. CASE CloseScheduler
  BY <1>4, CloseSchedulerKeeps
<1>5. CASE CloseWorker
  BY <1>5, CloseWorkerKeeps
<1>6. CASE UNCHANGED vars
  BY <1>6, BackingStutters
<1>7. QED
  BY <1>1, <1>2, <1>3, <1>4, <1>5, <1>6 DEF Next

\* Whatever fails on the way, the save contexts, the stored prefixes and the pool agree
\* on who holds which backing, and on what was lost.
THEOREM BackingInvariance == Spec => []BackingInv
<1>1. Init => BackingInv
  BY BackingInit
<1>2. BackingInv /\ [Next]_vars => BackingInv'
  BY BackingStep
<1>3. QED
  BY <1>1, <1>2, PTL DEF Spec

\* A set in which all are equal has at most one element.
LEMMA AtMostOne ==
    ASSUME NEW S, \A x, y \in S : x = y
    PROVE  Cardinality(S) = IF S = {} THEN 0 ELSE 1
<1>1. CASE S = {}
  BY <1>1, FS_EmptySet
<1>2. CASE S # {}
  <2>1. PICK x : S = {x}
    BY <1>2
  <2>2. QED
    BY <2>1, FS_Singleton
<1>3. QED
  BY <1>1, <1>2

\* A pinned backing is never held twice, and while the engine is up none is lost; the
\* close gives all back but the one of a save that failed (vllm_kv_connector.py:841-1072,
\* vllm_backing_pool.py:86-217).
THEOREM BackingsStayOwned == Spec => []BackingsHaveOneOwner
<1>1. ASSUME BackingInv
      PROVE  BackingsHaveOneOwner
  <2>1. Typed /\ Stages /\ Exclusive /\ Losses
    BY <1>1 DEF BackingInv
  <2>2. ASSUME NEW b \in Backings
        PROVE  Owners(b) = IF Held(b) THEN 1 ELSE 0
    <3> DEFINE C == {r \in Requests : contexts[r] = b}
               T == {i \in 1..Len(store) : store[i].backing = b}
    <3>1. Cardinality(C) = IF InContext(b) THEN 1 ELSE 0
      <4>1. \A x, y \in C : x = y
        BY <2>1, KVAssumption DEF Exclusive
      <4>2. C = {} <=> ~InContext(b)
        BY DEF InContext
      <4> HIDE DEF C
      <4>3. QED
        BY <4>1, <4>2, AtMostOne
    <3>2. Cardinality(T) = IF InStore(b) THEN 1 ELSE 0
      <4>1. DOMAIN store = 1..Len(store)
        BY <2>1 DEF Typed
      <4>2. \A i \in 1..Len(store) : store[i] \in Range(store)
        BY <4>1 DEF Range
      <4>3. \A x, y \in T : x = y
        BY <2>1, <4>1, <4>2 DEF Typed, Exclusive, Distinct
      <4>4. T = {} <=> ~InStore(b)
        BY <4>1 DEF InStore, Range
      <4> HIDE DEF T
      <4>5. QED
        BY <4>3, <4>4, AtMostOne
    <3> HIDE DEF C, T
    <3>3. Owners(b) = Cardinality(C) + Cardinality(T) + (IF b \in free THEN 1 ELSE 0)
      BY DEF Owners, C, T
    <3>4. /\ ~(InContext(b) /\ InStore(b)) /\ ~(InContext(b) /\ b \in free)
          /\ ~(InStore(b) /\ b \in free)
      BY <2>1 DEF Exclusive
    <3>5. QED
      BY <3>1, <3>2, <3>3, <3>4 DEF Held
  <2>3. \A b \in Backings :
            /\ Owners(b) <= 1
            /\ Owners(b) = 1 => backing[b] = "open"
            /\ engine = "up" /\ backing[b] = "open" /\ ~workerClosed => Owners(b) = 1
    <3> TAKE b \in Backings
    <3>1. Held(b) => backing[b] = "open"
      BY <2>1 DEF Exclusive
    <3>2. engine = "up" /\ backing[b] = "open" => Held(b)
      BY <2>1 DEF Losses, Lost
    <3>3. QED
      BY <2>2, <3>1, <3>2
  <2>4. ASSUME workerClosed, runtimeClosed
        PROVE  /\ free = {}
               /\ Cardinality({b \in Backings : backing[b] = "open"})
                   <= IF engine = "dead" /\ meta.saves # {} THEN 1 ELSE 0
    <3> DEFINE O == {b \in Backings : backing[b] = "open"}
    <3>1. /\ free = {} /\ store = <<>> /\ \A r \in Requests : contexts[r] = None
      BY <2>1, <2>4 DEF Stages
    <3>2. \A b \in Backings : ~Held(b)
      <4>1. Range(store) = {}
        BY <3>1 DEF Range
      <4>2. QED
        BY <3>1, <4>1, KVAssumption DEF Held, InContext, InStore
    <3>3. \A b \in O : Lost(b)
      BY <3>2 DEF Lost
    <3>4. \A b, c \in O : b = c
      BY <2>1, <3>3 DEF Losses
    <3>5. O # {} => engine = "dead" /\ meta.saves # {}
      BY <2>1, <3>3 DEF Losses
    <3> HIDE DEF O
    <3>6. Cardinality(O) = IF O = {} THEN 0 ELSE 1
      BY <3>4, AtMostOne
    <3>7. Cardinality(O) <= IF engine = "dead" /\ meta.saves # {} THEN 1 ELSE 0
      BY <3>5, <3>6
    <3>8. QED
      BY <3>1, <3>7 DEF O
  <2>5. QED
    BY <2>3, <2>4 DEF BackingsHaveOneOwner
<1>2. QED
  BY <1>1, BackingInvariance, PTL

-----------------------------------------------------------------------------
\* The restores.

\* Blocks for tokens.
LEMMA BlockCountNatural ==
    ASSUME NEW a \in Nat
    PROVE  BlockCountForTokens(a) \in Nat
<1> DEFINE x == a + BlockSize - 1
           d == BlockSize
<1>1. x \in Nat /\ d \in Nat \ {0}
  BY KVAssumption
<1> HIDE DEF x, d
<1>2. x \div d \in Int /\ x \div d >= 0
  BY <1>1
<1>3. QED
  BY <1>2 DEF BlockCountForTokens, x, d

\* More tokens never need fewer blocks.
LEMMA BlockCountGrows ==
    ASSUME NEW a \in Nat, NEW b \in Nat, a <= b
    PROVE  BlockCountForTokens(a) <= BlockCountForTokens(b)
<1> DEFINE x == a + BlockSize - 1
           y == b + BlockSize - 1
           d == BlockSize
           p == x \div d
           q == y \div d
<1>1. x \in Nat /\ y \in Nat /\ x <= y /\ d \in Nat \ {0}
  BY KVAssumption
<1> HIDE DEF x, y, d
<1>2. d * p <= x /\ y < d * q + d
  BY <1>1
<1>3. p \in Int /\ q \in Int /\ d * p < d * q + d
  BY <1>1, <1>2
<1> HIDE DEF p, q
<1>4. ~(q + 1 <= p)
  <2> SUFFICES ASSUME q + 1 <= p
               PROVE  FALSE
    OBVIOUS
  <2>1. d * (q + 1) <= d * p
    BY <1>1, <1>3
  <2>2. QED
    BY <1>1, <1>3, <2>1
<1>5. p <= q
  BY <1>3, <1>4
<1>6. QED
  BY <1>5 DEF BlockCountForTokens, p, q, x, y, d

\* The blocks and the tokens a request asks to save are numbers.
LEMMA SaveParameters ==
    ASSUME NEW r \in Requests
    PROVE  /\ RequestedBlocks(r) \in Nat /\ TokensForSave(r) \in Nat
           /\ \A have \in Nat : SaveBlockCount(r, have) \in Nat
<1>1. MatchedTokens[r] \in Nat /\ (SaveBlocks[r] # None => SaveBlocks[r] \in Nat)
      /\ BlockSize \in Nat
  BY KVAssumption
<1>2. RequestedBlocks(r) \in Nat
  BY <1>1, BlockCountNatural DEF RequestedBlocks
<1>3. TokensForSave(r) \in Nat
  <2> DEFINE a == RequestedBlocks(r)
             b == BlockSize
  <2>1. a \in Nat /\ b \in Nat
    BY <1>1, <1>2
  <2> HIDE DEF a, b
  <2>2. a * b \in Nat
    BY <2>1
  <2>3. QED
    BY <1>1, <2>2 DEF TokensForSave, a, b
<1>4. QED
  BY <1>2, <1>3 DEF SaveBlockCount

\* A save that has its blocks is sized.
LEMMA SaveIsSized ==
    ASSUME NEW r \in Requests, NEW s \in Seq(Nat), NEW k,
           k = SaveBlockCount(r, Len(s)), k <= Len(s), NEW x,
           x.req = r, x.tokens = TokensForSave(r), x.ids = SubSeq(s, 1, k)
    PROVE  Sized({x})
<1>1. TokensForSave(r) \in Nat /\ RequestedBlocks(r) \in Nat /\ Len(s) \in Nat /\ k \in Nat
  BY SaveParameters
<1>2. Covers(r) => BlockCountForTokens(TokensForSave(r)) <= k
  <2> DEFINE b == BlockCountForTokens(TokensForSave(r))
             q == RequestedBlocks(r)
  <2>1. b \in Nat /\ q \in Nat
    BY <1>1, BlockCountNatural
  <2>2. (Covers(r) <=> b <= q) /\ (q = 0 \/ k = q)
    BY DEF Covers, SaveBlockCount
  <2> HIDE DEF b, q
  <2>3. Covers(r) => b <= k
    BY <1>1, <2>1, <2>2
  <2>4. QED
    BY <2>3 DEF b
<1>3. Len(SubSeq(s, 1, k)) = k
  <2>1. 1 \in Int /\ k \in Int /\ \A i \in 1..k : s[i] \in Nat
    BY <1>1
  <2>2. Len(SubSeq(s, 1, k)) = IF 1 <= k THEN k - 1 + 1 ELSE 0
    BY <2>1, SubSeqProperties
  <2> DEFINE l == Len(SubSeq(s, 1, k))
  <2> HIDE DEF l
  <2>3. l = k
    BY <1>1, <2>2 DEF l
  <2>4. QED
    BY <2>3 DEF l
<1>4. QED
  BY <1>1, <1>2, <1>3 DEF Sized

\* Before the first step.
LEMMA RestoreInit ==
    ASSUME Init
    PROVE  Restores
<1> USE DEF Init
<1>1. Range(<<>>) = {}
  BY DEF Range
<1>2. Scheduled
  <2>1. scheduled \in [Requests -> Seq(Nat)] /\ blocks \in [Requests -> Nat]
    OBVIOUS
  <2>2. promised \in [Requests -> [computed : Nat, blocks : Nat]] /\ req = [r \in Requests |-> req[r]]
    OBVIOUS
  <2>3. Sized(pendingSaves) /\ Sized(meta.saves) /\ \A m \in Range(queue) : Sized(m.saves)
    BY <1>1 DEF Sized, NoMeta
  <2>4. Loads(pendingLoads) /\ \A m \in Range(queue) : Loads(m.loads)
    BY <1>1 DEF Loads
  <2>5. QED
    BY <2>1, <2>2, <2>3, <2>4 DEF Scheduled
<1>3. InTurn
  BY DEF InTurn
<1>4. Stored
  BY <1>1 DEF Stored
<1>5. Promises
  BY <1>1 DEF Promises, Available
<1>6. Deliveries
  BY DEF Deliveries
<1>7. QED
  BY <1>2, <1>3, <1>4, <1>5, <1>6 DEF Restores

\* No request goes back to where it may be promised something.
NoneWaitsAgain == /\ req' = [r \in Requests |-> req'[r]]
                  /\ \A r \in Requests : req[r] # "waiting" => req'[r] # "waiting"

\* What keeps each part.
LEMMA StoredKept ==
    ASSUME BackingInv, Stored, UNCHANGED <<contexts, store, global, slots, content>>,
           \/ pc \in {"idle", "load", "finish"}
           \/ meta' = meta /\ (pc = "dead" => pc' = "dead")
    PROVE  Stored'
<1>1. ASSUME NEW r \in Requests, contexts'[r] # None, pc' \in {"layers", "wait"}
      PROVE  slots'[contexts'[r]] = Len(SaveOf(r)'.ids)
  <2>1. pc \in {"layers", "wait", "dead"}
    BY <1>1 DEF BackingInv, Stages
  <2>2. pc \in {"layers", "wait"} /\ meta' = meta
    BY <1>1, <2>1
  <2>3. SaveOf(r)' = SaveOf(r)
    BY <2>2 DEF SaveOf
  <2>4. QED
    BY <1>1, <2>2, <2>3 DEF Stored
<1>2. \A p \in Range(store') : Described(p)'
  BY DEF Stored, Described
<1>3. QED
  BY <1>1, <1>2 DEF Stored

\* A step that stores and evicts nothing keeps the promises.
LEMMA PromisesKept ==
    ASSUME Promises, UNCHANGED <<pendingLoads, promised, queue, global, slots, schedClosed, workerClosed>>,
           engine' = "up" => engine = "up",
           pc' = "load" => pc = "load" /\ meta' = meta /\ todo' \subseteq todo
    PROVE  Promises'
  BY DEF Promises, Available, Whole

\* A step that delivers and reports nothing keeps the deliveries.
LEMMA DeliveriesKept ==
    ASSUME Deliveries, UNCHANGED <<delivered, recving, promised>>, NoneWaitsAgain
    PROVE  Deliveries'
  BY DEF Deliveries, Whole, NoneWaitsAgain

\* Recorded loads stay as long as the promises do.
LEMMA LoadsKept ==
    ASSUME NEW S, Loads(S), promised' = promised, NoneWaitsAgain
    PROVE  Loads(S)'
  BY DEF Loads, NoneWaitsAgain

\* A step that schedules nothing keeps what is scheduled.
LEMMA ScheduledKept ==
    ASSUME Scheduled,
           UNCHANGED <<scheduled, blocks, promised, pendingSaves, pendingLoads, queue>>,
           NoneWaitsAgain, Sized(meta'.saves),
           pc' = "load" => pc = "load" /\ meta' = meta /\ todo' \subseteq todo
    PROVE  Scheduled'
<1>1. Loads(pendingLoads)' /\ \A m \in Range(queue') : Loads(m.loads)'
  <2>1. \A m \in Range(queue) : Loads(m.loads)'
    <3> TAKE m \in Range(queue)
    <3>1. Loads(m.loads)
      BY DEF Scheduled
    <3> DEFINE S == m.loads
    <3> HIDE DEF S
    <3>2. Loads(S)'
      BY <3>1, LoadsKept DEF S
    <3>3. QED
      BY <3>2 DEF S, Loads
  <2>2. Loads(pendingLoads)'
    BY DEF Scheduled, Loads, NoneWaitsAgain
  <2>3. QED
    BY <2>1, <2>2
<1>2. pc' = "load" => Loads(meta.loads)' /\ todo' \subseteq {m.req : m \in meta'.loads}
  BY DEF Scheduled, Loads, NoneWaitsAgain
<1>3. Sized(pendingSaves)' /\ Sized(meta.saves)' /\ \A m \in Range(queue') : Sized(m.saves)'
  BY DEF Scheduled, Sized
<1>4. QED
  BY <1>1, <1>2, <1>3 DEF Scheduled, NoneWaitsAgain

\* With one step at a time vLLM schedules while nothing is queued or under way.
LEMMA MayScheduleFacts ==
    ASSUME OneStepAtATime, RestoreInv, MaySchedule
    PROVE  pc = "idle" /\ queue = <<>> /\ engine = "up" /\ ~schedClosed /\ ~workerClosed
<1>1. queue \in Seq(Range(queue))
  BY DEF RestoreInv, BackingInv, Requested
<1>2. Len(queue) \in Nat
  BY <1>1
<1>3. Len(queue) + (IF pc = "idle" THEN 0 ELSE 1) < 1
  BY DEF OneStepAtATime, MaySchedule
<1>4. pc = "idle" /\ Len(queue) = 0
  BY <1>2, <1>3
<1>5. queue = <<>>
  BY <1>1, <1>4, EmptySeq
<1>6. QED
  BY <1>4, <1>5 DEF MaySchedule

\* The scheduler's side, while nothing runs: the loads and saves that it records
\* decide what is promised.
OnlySchedules ==
    UNCHANGED <<contexts, store, global, slots, content, free, backing, pc, engine, meta, todo,
                queue, delivered, recving, schedClosed, workerClosed>>

\* What the scheduler records between two steps of the worker keeps the restores.
LEMMA RecordingKeeps ==
    ASSUME RestoreInv, OnlySchedules, pc = "idle", queue = <<>>,
           scheduled' \in [Requests -> Seq(Nat)], blocks' \in [Requests -> Nat],
           promised' \in [Requests -> [computed : Nat, blocks : Nat]], NoneWaitsAgain,
           \A r \in Requests : req[r] # "waiting" => promised'[r] = promised[r],
           Sized(pendingSaves'), Loads(pendingLoads)', Available(pendingLoads)'
    PROVE  Restores'
<1>1. Scheduled /\ InTurn /\ Stored /\ Promises /\ Deliveries /\ BackingInv
  BY DEF RestoreInv, Restores
<1>2. Range(queue') = {} /\ Range(queue) = {}
  BY DEF OnlySchedules, Range
<1>3. Scheduled'
  BY <1>1, <1>2 DEF Scheduled, OnlySchedules, NoneWaitsAgain, Sized
<1>4. InTurn'
  BY <1>1 DEF InTurn, OnlySchedules
<1>5. Stored'
  BY <1>1, StoredKept DEF OnlySchedules
<1>6. Promises'
  BY <1>1, <1>2 DEF Promises, OnlySchedules
<1>7. Deliveries'
  BY <1>1 DEF Deliveries, Whole, OnlySchedules, NoneWaitsAgain
<1>8. QED
  BY <1>3, <1>4, <1>5, <1>6, <1>7 DEF Restores

\* A recorded save names as many blocks as its tokens fill.
LEMMA RecordSaveSizes ==
    ASSUME Sized(pendingSaves), NEW r \in Requests, NEW ids \in Seq(Nat), RecordSave(r, ids)
    PROVE  Sized(pendingSaves')
<1> DEFINE need == SaveBlockCount(r, Len(ids))
           x == [req |-> r, ids |-> SubSeq(ids, 1, need), tokens |-> TokensForSave(r)]
<1>1. pendingSaves' = pendingSaves \/ (~(Len(ids) < need) /\ pendingSaves' = pendingSaves \cup {x})
  BY DEF RecordSave
<1>2. CASE pendingSaves' = pendingSaves
  BY <1>2
<1>3. CASE ~(Len(ids) < need) /\ pendingSaves' = pendingSaves \cup {x}
  <2>1. x.req = r /\ x.tokens = TokensForSave(r) /\ x.ids = SubSeq(ids, 1, need)
    OBVIOUS
  <2>2. need <= Len(ids)
    <3>1. Len(ids) \in Nat
      OBVIOUS
    <3>2. need \in Int
      BY <3>1, SaveParameters
    <3> HIDE DEF need
    <3>3. QED
      BY <1>3, <3>1, <3>2
  <2> HIDE DEF x
  <2>3. Sized({x})
    BY <2>1, <2>2, SaveIsSized
  <2>4. QED
    BY <1>3, <2>3 DEF Sized
<1>4. QED
  BY <1>1, <1>2, <1>3

\* Scheduling a request that saves.
LEMMA ScheduleSaverRestores ==
    ASSUME OneStepAtATime, RestoreInv, NEW r \in Requests, NEW n \in Nat, ScheduleSaver(r, n)
    PROVE  Restores'
<1> USE DEF vllmVars, schedVars, callVars, saveVars, storeVars, poolVars, closeVars
<1> DEFINE ids == [i \in 1..n |-> i]
<1>1. pc = "idle" /\ queue = <<>>
  BY MayScheduleFacts DEF ScheduleSaver
<1>2. Scheduled /\ Promises
  BY DEF RestoreInv, Restores
<1>3. /\ OnlySchedules /\ promised' = promised /\ pendingLoads' = pendingLoads
      /\ req' = [req EXCEPT ![r] = "running"] /\ blocks' = [blocks EXCEPT ![r] = n]
      /\ scheduled' = [scheduled EXCEPT ![r] = ids]
      /\ RecordSave(r, ids)
  BY DEF ScheduleSaver, OnlySchedules
<1>4. ids \in Seq(Nat)
  OBVIOUS
<1> HIDE DEF ids
<1>5. Sized(pendingSaves')
  BY <1>2, <1>3, <1>4, RecordSaveSizes DEF Scheduled
<1>6. NoneWaitsAgain
  BY <1>2, <1>3 DEF Scheduled, NoneWaitsAgain
<1>7. scheduled' \in [Requests -> Seq(Nat)] /\ blocks' \in [Requests -> Nat]
  BY <1>2, <1>3, <1>4 DEF Scheduled
<1>8. Loads(pendingLoads)'
  BY <1>2, <1>3, <1>6 DEF Scheduled, Loads, NoneWaitsAgain
<1>9. Available(pendingLoads)'
  <2>1. Available(pendingLoads)
    BY <1>2, MayScheduleFacts DEF Promises, ScheduleSaver
  <2>2. QED
    BY <1>3, <2>1 DEF Available, Whole, OnlySchedules
<1>10. promised' \in [Requests -> [computed : Nat, blocks : Nat]]
  BY <1>2, <1>3 DEF Scheduled
<1>11. QED
  BY <1>1, <1>3, <1>5, <1>6, <1>7, <1>8, <1>9, <1>10, RecordingKeeps

\* Scheduling a further chunk of a prompt.
LEMMA ScheduleChunkRestores ==
    ASSUME OneStepAtATime, RestoreInv, NEW r \in Requests, NEW n \in Nat, ScheduleChunk(r, n)
    PROVE  Restores'
<1> USE DEF vllmVars, schedVars, callVars, saveVars, storeVars, poolVars, closeVars
<1>1. pc = "idle" /\ queue = <<>>
  BY MayScheduleFacts DEF ScheduleChunk
<1>2. Scheduled /\ Promises
  BY DEF RestoreInv, Restores
<1> DEFINE ids == [i \in 1..n |-> blocks[r] + i]
<1>3. /\ OnlySchedules /\ promised' = promised /\ pendingLoads' = pendingLoads /\ req' = req
      /\ pendingSaves' = pendingSaves
      /\ blocks' = [blocks EXCEPT ![r] = @ + n] /\ scheduled' = [scheduled EXCEPT ![r] = ids]
  BY DEF ScheduleChunk, OnlySchedules
<1>4. ids \in Seq(Nat) /\ blocks[r] + n \in Nat
  <2> DEFINE a == blocks[r]
  <2>1. a \in Nat
    BY <1>2 DEF Scheduled
  <2> HIDE DEF a
  <2>2. [i \in 1..n |-> a + i] \in Seq(Nat) /\ a + n \in Nat
    BY <2>1
  <2>3. QED
    BY <2>2 DEF a
<1> HIDE DEF ids
<1>5. Sized(pendingSaves')
  BY <1>2, <1>3 DEF Scheduled, Sized
<1>6. NoneWaitsAgain
  BY <1>2, <1>3 DEF Scheduled, NoneWaitsAgain
<1>7. scheduled' \in [Requests -> Seq(Nat)] /\ blocks' \in [Requests -> Nat]
  BY <1>2, <1>3, <1>4 DEF Scheduled
<1>8. Loads(pendingLoads)'
  BY <1>2, <1>3, <1>6 DEF Scheduled, Loads, NoneWaitsAgain
<1>9. Available(pendingLoads)'
  <2>1. Available(pendingLoads)
    BY <1>2, MayScheduleFacts DEF Promises, ScheduleChunk
  <2>2. QED
    BY <1>3, <2>1 DEF Available, Whole, OnlySchedules
<1>10. promised' \in [Requests -> [computed : Nat, blocks : Nat]]
  BY <1>2, <1>3 DEF Scheduled
<1>11. QED
  BY <1>1, <1>3, <1>5, <1>6, <1>7, <1>8, <1>9, <1>10, RecordingKeeps

\* A finished request.
LEMMA RequestFinishedRestores ==
    ASSUME OneStepAtATime, RestoreInv, NEW r \in Requests, RequestFinished(r)
    PROVE  Restores'
<1> USE DEF vllmVars, schedVars, callVars, saveVars, storeVars, poolVars, closeVars
<1>1. pc = "idle" /\ queue = <<>>
  BY MayScheduleFacts DEF RequestFinished
<1>2. Scheduled /\ Promises
  BY DEF RestoreInv, Restores
<1>3. /\ OnlySchedules /\ promised' = promised /\ pendingLoads' = pendingLoads
      /\ pendingSaves' = pendingSaves /\ blocks' = blocks /\ scheduled' = scheduled
      /\ req' = [req EXCEPT ![r] = IF KeepsBlocks(r) THEN "deferred" ELSE "freed"]
  BY DEF RequestFinished, OnlySchedules
<1>4. NoneWaitsAgain
  BY <1>2, <1>3 DEF Scheduled, NoneWaitsAgain
<1>5. Sized(pendingSaves')
  BY <1>2, <1>3 DEF Scheduled, Sized
<1>6. scheduled' \in [Requests -> Seq(Nat)] /\ blocks' \in [Requests -> Nat]
  BY <1>2, <1>3 DEF Scheduled
<1>7. Loads(pendingLoads)'
  BY <1>2, <1>3, <1>4 DEF Scheduled, Loads, NoneWaitsAgain
<1>8. Available(pendingLoads)'
  <2>1. Available(pendingLoads)
    BY <1>2, MayScheduleFacts DEF Promises, RequestFinished
  <2>2. QED
    BY <1>3, <2>1 DEF Available, Whole, OnlySchedules
<1>9. promised' \in [Requests -> [computed : Nat, blocks : Nat]]
  BY <1>2, <1>3 DEF Scheduled
<1>10. QED
  BY <1>1, <1>3, <1>4, <1>5, <1>6, <1>7, <1>8, <1>9, RecordingKeeps

\* What the scheduler matches is stored: with the computed ones, the tokens are no more
\* than were saved.
LEMMA MatchedFacts ==
    ASSUME Stored, NEW r \in Requests, NEW computed \in Nat
    PROVE  /\ MatchedNewTokens(r, computed) \in Nat
           /\ MatchedNewTokens(r, computed) > 0 =>
                 /\ global[KeyOf[r]] # None /\ Described(global[KeyOf[r]])
                 /\ computed + MatchedNewTokens(r, computed) <= global[KeyOf[r]].tokens
<1> DEFINE saved == global[KeyOf[r]]
           asked == IF MatchedTokens[r] = 0 THEN saved.tokens ELSE MatchedTokens[r]
           matched == MinOf(asked, saved.tokens)
           tokens == MatchedNewTokens(r, computed)
<1>1. tokens = IF r \in Savers \/ saved = None \/ matched <= computed THEN 0
               ELSE IF computed = 0 /\ matched = Tokens[r] THEN matched - 1
               ELSE matched - computed
  BY DEF MatchedNewTokens
<1>2. KeyOf[r] \in Keys /\ MatchedTokens[r] \in Nat
  BY KVAssumption
<1>3. saved # None => Described(saved)
  BY <1>2 DEF Stored
<1> HIDE DEF tokens
<1>4. CASE saved = None
  BY <1>1, <1>4 DEF tokens
<1>5. CASE saved # None
  <2>1. saved.tokens \in Nat
    BY <1>3, <1>5 DEF Described
  <2> HIDE DEF saved
  <2>2. asked \in Nat
    BY <1>2, <2>1
  <2> HIDE DEF asked
  <2>3. matched \in Nat /\ matched <= saved.tokens
    BY <2>1, <2>2 DEF MinOf
  <2> HIDE DEF matched
  <2>4. tokens \in Nat /\ (tokens > 0 => computed + tokens <= saved.tokens)
    BY <1>1, <2>1, <2>3
  <2>5. QED
    BY <1>3, <1>5, <2>4 DEF tokens, saved
<1>6. QED
  BY <1>4, <1>5

\* A restore is promised the blocks of a prefix that is in the store.
LEMMA ScheduleRestorerRestores ==
    ASSUME OneStepAtATime, RestoreInv, NEW r \in Requests, NEW computed \in Nat,
           ScheduleRestorer(r, computed)
    PROVE  Restores'
<1> USE DEF vllmVars, schedVars, callVars, saveVars, storeVars, poolVars, closeVars
<1> DEFINE tokens == MatchedNewTokens(r, computed)
           saved == global[KeyOf[r]]
           wanted == BlockCountForTokens(tokens)
           filled == BlockCountForTokens(computed + tokens)
           n == MinOf(wanted, saved.count)
           load == [req |-> r, count |-> n]
           promise == [computed |-> computed, blocks |-> filled]
<1>1. pc = "idle" /\ queue = <<>> /\ engine = "up" /\ ~schedClosed /\ ~workerClosed
  BY MayScheduleFacts DEF ScheduleRestorer
<1>2. Scheduled /\ Promises /\ Stored
  BY DEF RestoreInv, Restores
<1>3. /\ tokens \in Nat
      /\ tokens > 0 => saved # None /\ Described(saved) /\ computed + tokens <= saved.tokens
  BY <1>2, MatchedFacts
<1>4. /\ OnlySchedules /\ pendingSaves' = pendingSaves /\ scheduled' = scheduled
      /\ req[r] = "waiting"
      /\ req' = [req EXCEPT ![r] = IF tokens > 0 THEN "loading" ELSE "running"]
      /\ blocks' = [blocks EXCEPT ![r] = IF tokens > 0 THEN filled ELSE PromptBlocks(r)]
      /\ promised' = IF tokens = 0 THEN promised ELSE [promised EXCEPT ![r] = promise]
      /\ RecordLoad(r, tokens)
  BY DEF ScheduleRestorer, OnlySchedules
<1> HIDE DEF tokens
<1>5. /\ wanted \in Nat /\ filled \in Nat /\ wanted <= filled /\ PromptBlocks(r) \in Nat
      /\ computed = 0 => wanted = filled
  <2>1. tokens \in Nat /\ computed + tokens \in Nat /\ tokens <= computed + tokens
        /\ (computed = 0 => computed + tokens = tokens)
    BY <1>3
  <2>2. Tokens[r] \in Nat
    BY KVAssumption
  <2>3. QED
    BY <2>1, <2>2, BlockCountNatural, BlockCountGrows DEF PromptBlocks
<1>6. ASSUME tokens > 0
      PROVE  /\ n \in Nat /\ n <= filled /\ n <= slots[saved.backing]
             /\ computed = 0 /\ Covers(saved.source) => n = filled
  <2>1. /\ saved.tokens \in Nat /\ computed + tokens <= saved.tokens /\ saved.count \in Nat
        /\ Covers(saved.source) => BlockCountForTokens(saved.tokens) <= saved.count
        /\ saved.count <= slots[saved.backing]
    BY <1>3, <1>6 DEF Described
  <2>2. filled <= BlockCountForTokens(saved.tokens) /\ BlockCountForTokens(saved.tokens) \in Nat
    BY <1>3, <2>1, BlockCountGrows, BlockCountNatural
  <2>3. slots[saved.backing] \in Nat
    <3>1. saved \in Range(store)
      BY <1>2, <1>3, <1>6, KVAssumption DEF Stored
    <3>2. QED
      BY <1>2, <3>1 DEF RestoreInv, BackingInv, Exclusive, Prefix, Stored
  <2> DEFINE c == saved.count
             k == BlockCountForTokens(saved.tokens)
             l == slots[saved.backing]
  <2>4. /\ c \in Nat /\ k \in Nat /\ l \in Nat /\ filled <= k /\ c <= l
        /\ Covers(saved.source) => k <= c
    BY <2>1, <2>2, <2>3
  <2> HIDE DEF wanted, filled, c, k, l
  <2>5. MinOf(wanted, c) \in Nat /\ MinOf(wanted, c) <= c /\ MinOf(wanted, c) <= wanted
        /\ (wanted <= c => MinOf(wanted, c) = wanted)
    BY <1>5, <2>4 DEF MinOf
  <2>6. n = MinOf(wanted, c)
    BY DEF c
  <2> HIDE DEF n, saved
  <2>7. n \in Nat /\ n <= filled /\ n <= l
        /\ (computed = 0 /\ Covers(saved.source) => n = filled)
    BY <1>5, <2>4, <2>5, <2>6
  <2>8. QED
    BY <2>7 DEF l
<1>7. pendingLoads' = IF tokens > 0 THEN pendingLoads \cup {load} ELSE pendingLoads
  <2>1. CASE tokens > 0
    <3>1. RestoreBlockLimit = 0
      BY DEF OneStepAtATime
    <3>2. QED
      BY <1>3, <1>4, <2>1, <3>1 DEF RecordLoad
  <2>2. CASE ~(tokens > 0)
    <3>1. tokens = 0
      BY <1>3, <2>2
    <3>2. QED
      BY <1>4, <2>2, <3>1 DEF RecordLoad
  <2>3. QED
    BY <2>1, <2>2
<1>8. /\ load.req = r /\ load.count = n
      /\ promise.computed = computed /\ promise.blocks = filled
      /\ promise \in [computed : Nat, blocks : Nat]
  BY <1>5
<1> HIDE DEF wanted, filled, n, load, promise
<1>9. NoneWaitsAgain /\ req'[r] # "waiting"
  BY <1>2, <1>4 DEF Scheduled, NoneWaitsAgain
<1>10. /\ promised' \in [Requests -> [computed : Nat, blocks : Nat]]
       /\ tokens > 0 => promised'[r] = promise
       /\ \A q \in Requests : req[q] # "waiting" => promised'[q] = promised[q]
  BY <1>2, <1>3, <1>4, <1>8 DEF Scheduled
<1>11. Sized(pendingSaves')
  BY <1>2, <1>4 DEF Scheduled, Sized
<1>12. scheduled' \in [Requests -> Seq(Nat)] /\ blocks' \in [Requests -> Nat]
  BY <1>2, <1>4, <1>5 DEF Scheduled
<1>13. Loads(pendingLoads)'
  <2>1. \A m \in pendingLoads : /\ m.req \in Requests /\ m.count \in Nat
                                /\ m.count <= promised'[m.req].blocks /\ req'[m.req] # "waiting"
    BY <1>2, <1>9, <1>10 DEF Scheduled, Loads, NoneWaitsAgain
  <2>2. tokens > 0 => /\ load.req \in Requests /\ load.count \in Nat
                      /\ load.count <= promised'[load.req].blocks /\ req'[load.req] # "waiting"
    BY <1>6, <1>8, <1>9, <1>10
  <2>3. QED
    BY <1>7, <2>1, <2>2 DEF Loads
<1>14. Available(pendingLoads)'
  <2>1. \A m \in pendingLoads : m.req \in Requests /\ promised'[m.req] = promised[m.req]
    BY <1>2, <1>10 DEF Scheduled, Loads
  <2>2. Available(pendingLoads)
    BY <1>1, <1>2 DEF Promises
  <2>4. tokens > 0 => /\ saved # None /\ n <= slots[saved.backing]
                      /\ promised'[r].computed = 0 /\ Covers(saved.source) =>
                            n = promised'[r].blocks
    BY <1>3, <1>6, <1>8, <1>10
  <2>5. \A m \in pendingLoads : promised'[m.req].computed = 0 /\ Covers(global[KeyOf[m.req]].source)
                               => m.count = promised'[m.req].blocks
    BY <2>1, <2>2 DEF Available, Whole
  <2>6. \A m \in pendingLoads' :
            /\ global[KeyOf[m.req]] # None
            /\ m.count <= slots[global[KeyOf[m.req]].backing]
            /\ promised'[m.req].computed = 0 /\ Covers(global[KeyOf[m.req]].source)
                  => m.count = promised'[m.req].blocks
    BY <1>7, <1>8, <2>2, <2>4, <2>5 DEF Available
  <2>7. QED
    BY <1>4, <2>6 DEF Available, Whole, OnlySchedules
<1>15. QED
  BY <1>1, <1>4, <1>9, <1>10, <1>11, <1>12, <1>13, <1>14, RecordingKeeps

\* Whatever vLLM schedules.
LEMMA ScheduleRestores ==
    ASSUME OneStepAtATime, RestoreInv, Schedule
    PROVE  Restores'
<1>1. \/ \E r \in Requests : \E n \in Nat : ScheduleSaver(r, n) \/ ScheduleChunk(r, n)
      \/ \E r \in Requests, computed \in Nat : ScheduleRestorer(r, computed)
      \/ \E r \in Requests : RequestFinished(r)
  <2>1. \A n, m : n \in 1..m => n \in Nat
    OBVIOUS
  <2>2. QED
    BY <2>1, KVAssumption DEF Schedule
<1>2. QED
  BY <1>1, ScheduleSaverRestores, ScheduleChunkRestores, ScheduleRestorerRestores,
     RequestFinishedRestores

\* The metadata of a step has the loads and saves that were recorded, and the saves
\* whose blocks came with this step.
LEMMA BuildRestores ==
    ASSUME OneStepAtATime, RestoreInv, BuildConnectorMeta
    PROVE  Restores'
<1> USE DEF vllmVars, schedVars, callVars, saveVars, storeVars, poolVars, closeVars
<1> DEFINE m == [loads |-> pendingLoads, finished |-> finished,
                 saves |-> pendingSaves \cup {SaveMeta(r) : r \in Collected}]
<1>1. pc = "idle" /\ queue = <<>> /\ engine = "up" /\ ~schedClosed /\ ~workerClosed
  BY MayScheduleFacts DEF BuildConnectorMeta
<1>2. Scheduled /\ InTurn /\ Promises /\ Stored /\ Deliveries /\ BackingInv
  BY DEF RestoreInv, Restores
<1>3. /\ UNCHANGED <<contexts, store, global, slots, content, pc, engine, meta, todo, req, blocks,
                     promised, delivered, recving, schedClosed, workerClosed>>
      /\ queue' = Append(queue, m) /\ pendingLoads' = {} /\ pendingSaves' = {}
      /\ scheduled' = [r \in Requests |-> <<>>]
  BY DEF BuildConnectorMeta
<1>4. m.loads = pendingLoads /\ m.saves = pendingSaves \cup {SaveMeta(r) : r \in Collected}
  OBVIOUS
<1> HIDE DEF m
<1>5. queue' = <<m>> /\ Range(queue') = {m} /\ Len(queue') = 1
  <2>1. queue' = <<m>>
    BY <1>1, <1>3
  <2>2. QED
    BY <2>1 DEF Range
<1>6. Sized(m.saves)
  <2>1. ASSUME NEW r \in Collected
        PROVE  Sized({SaveMeta(r)})
    <3> DEFINE k == SaveBlockCount(r, Len(scheduled[r]))
    <3>1. r \in Requests /\ Len(scheduled[r]) >= k
      BY KVAssumption DEF Collected
    <3>2. scheduled[r] \in Seq(Nat)
      BY <1>2, <3>1 DEF Scheduled
    <3>3. SaveMeta(r).req = r /\ SaveMeta(r).tokens = TokensForSave(r) /\ SaveMeta(r).ids = SubSeq(scheduled[r], 1, k)
      BY DEF SaveMeta
    <3>4. k \in Int /\ Len(scheduled[r]) \in Nat
      <4>1. Len(scheduled[r]) \in Nat
        BY <3>1, <3>2
      <4>2. QED
        BY <3>1, <4>1, SaveParameters
    <3>5. k = SaveBlockCount(r, Len(scheduled[r]))
      OBVIOUS
    <3> HIDE DEF k
    <3>6. k <= Len(scheduled[r])
      BY <3>1, <3>4
    <3>7. QED
      BY <3>1, <3>2, <3>3, <3>5, <3>6, SaveIsSized
  <2>2. Sized(pendingSaves)
    BY <1>2 DEF Scheduled
  <2>3. QED
    BY <1>4, <2>1, <2>2 DEF Sized
<1>7. Scheduled'
  <2>1. scheduled' \in [Requests -> Seq(Nat)] /\ blocks' \in [Requests -> Nat]
    BY <1>2, <1>3 DEF Scheduled
  <2>2. req' = [r \in Requests |-> req'[r]] /\ promised' \in [Requests -> [computed : Nat, blocks : Nat]]
    BY <1>2, <1>3 DEF Scheduled
  <2>3. Sized(pendingSaves') /\ Sized(meta'.saves) /\ \A x \in Range(queue') : Sized(x.saves)
    BY <1>2, <1>3, <1>5, <1>6 DEF Scheduled, Sized
  <2>4. Loads(pendingLoads)' /\ \A x \in Range(queue') : Loads(x.loads)'
    BY <1>2, <1>3, <1>4, <1>5 DEF Scheduled, Loads
  <2>5. pc' # "load"
    BY <1>1, <1>3
  <2>6. QED
    BY <2>1, <2>2, <2>3, <2>4, <2>5 DEF Scheduled
<1>8. InTurn'
  BY <1>1, <1>3, <1>5 DEF InTurn
<1>9. Stored'
  BY <1>1, <1>2, <1>3, StoredKept
<1>10. Promises'
  BY <1>1, <1>2, <1>3, <1>4, <1>5 DEF Promises, Available, Whole
<1>11. Deliveries'
  BY <1>2, <1>3 DEF Deliveries, Whole
<1>12. QED
  BY <1>7, <1>8, <1>9, <1>10, <1>11 DEF Restores

\* The model runner takes up the one step that is queued.
LEMMA BeginStepRestores ==
    ASSUME RestoreInv, BeginStep
    PROVE  Restores'
<1> USE DEF vllmVars, schedVars, callVars, saveVars, storeVars, poolVars, closeVars
<1>1. Scheduled /\ InTurn /\ Promises /\ Stored /\ Deliveries /\ BackingInv
  BY DEF RestoreInv, Restores
<1>2. /\ UNCHANGED <<contexts, store, global, slots, content, engine, req, blocks, scheduled,
                     pendingSaves, pendingLoads, promised, delivered, recving, schedClosed,
                     workerClosed>>
      /\ pc = "idle" /\ queue # <<>> /\ pc' = "load"
      /\ meta' = Head(queue) /\ queue' = Tail(queue) /\ todo' = {x.req : x \in Head(queue).loads}
      /\ engine = "up" /\ ~schedClosed /\ ~workerClosed
  BY DEF BeginStep
<1>3. Head(queue) \in Range(queue) /\ queue' = <<>>
  <2>1. queue \in Seq(Range(queue)) /\ Len(queue) <= 1
    BY <1>1 DEF BackingInv, Requested, InTurn
  <2>2. /\ Head(queue) \in Range(queue) /\ Tail(queue) \in Seq(Range(queue))
        /\ Len(Tail(queue)) = Len(queue) - 1
    BY <1>2, <2>1, HeadTailProperties
  <2>3. Len(queue) \in Nat /\ Len(Tail(queue)) \in Nat
    BY <2>1, <2>2
  <2>4. Len(Tail(queue)) = 0
    BY <2>1, <2>2, <2>3
  <2>5. Tail(queue) = <<>>
    BY <2>2, <2>4, EmptySeq
  <2>6. QED
    BY <1>2, <2>2, <2>5
<1>4. Range(queue') = {} /\ Len(queue') = 0
  BY <1>3 DEF Range
<1>5. pendingLoads = {}
  BY <1>1, <1>2 DEF InTurn
<1>6. Loads(meta'.loads) /\ Sized(meta'.saves) /\ Available(meta'.loads)
  BY <1>1, <1>2, <1>3 DEF Scheduled, Promises
<1>7. Scheduled'
  <2>1. Loads(meta.loads)'
    BY <1>2, <1>6 DEF Loads
  <2>2. Loads(pendingLoads)' /\ Sized(pendingSaves)'
    BY <1>1, <1>2 DEF Scheduled, Loads, Sized
  <2>3. QED
    BY <1>1, <1>2, <1>4, <1>6, <2>1, <2>2 DEF Scheduled
<1>8. InTurn'
  <2>1. pendingLoads' = {} /\ Len(queue') <= 1
    BY <1>2, <1>4, <1>5
  <2>2. QED
    BY <1>2, <1>3, <2>1 DEF InTurn
<1>9. Stored'
  BY <1>1, <1>2, StoredKept
<1>10. Promises'
  BY <1>2, <1>4, <1>5, <1>6 DEF Promises, Available, Whole
<1>11. Deliveries'
  BY <1>1, <1>2 DEF Deliveries, Whole
<1>12. QED
  BY <1>7, <1>8, <1>9, <1>10, <1>11 DEF Restores

\* A restore reads the KV of its own key, and all that it was promised.
LEMMA LoadRequestRestores ==
    ASSUME RestoreInv, LoadRequest
    PROVE  Restores'
<1> USE DEF vllmVars, schedVars, callVars, saveVars, storeVars, poolVars, closeVars
<1> DEFINE r == Smallest(todo)
           saved == global[KeyOf[r]]
           n == LoadOf(r).count
           got == [from |-> content[saved.backing], count |-> n]
<1>1. Scheduled /\ InTurn /\ Promises /\ Stored /\ Deliveries /\ BackingInv
  BY DEF RestoreInv, Restores
<1>2. /\ UNCHANGED <<contexts, store, global, slots, content, req, blocks, scheduled, meta, queue,
                     pendingSaves, pendingLoads, promised, schedClosed, workerClosed>>
      /\ pc = "load" /\ todo # {}
  BY DEF LoadRequest
<1>3. \/ /\ saved # None /\ delivered' = [delivered EXCEPT ![r] = got]
         /\ recving' = recving \cup {r} /\ todo' = todo \ {r} /\ pc' = pc /\ engine' = engine
      \/ /\ pc' = "dead" /\ engine' = "dead" /\ delivered' = delivered /\ recving' = recving
         /\ todo' = todo
  BY Zenon DEF LoadRequest, Raise, RestoreOK
<1>4. r \in todo
  <2>1. todo \subseteq {m.req : m \in meta.loads} /\ Loads(meta.loads)
    BY <1>1, <1>2 DEF Scheduled
  <2>2. todo \subseteq Requests
    BY <2>1 DEF Loads
  <2>3. todo \in SUBSET Nat
    BY <2>2, KVAssumption
  <2>4. QED
    BY <1>2, <2>3, SmallestIn
<1>5. LoadOf(r) \in meta.loads /\ LoadOf(r).req = r
  <2>1. \E x \in meta.loads : x.req = r
    BY <1>1, <1>2, <1>4 DEF Scheduled
  <2> HIDE DEF r
  <2>2. QED
    BY <2>1 DEF LoadOf
<1> HIDE DEF r
<1>6. r \in Requests /\ n <= promised[r].blocks /\ req[r] # "waiting"
  BY <1>1, <1>2, <1>5 DEF Scheduled, Loads
<1>7. NoneWaitsAgain
  BY <1>1, <1>2 DEF Scheduled, NoneWaitsAgain
<1>8. todo' \subseteq todo /\ (pc' = "load" => pc = "load") /\ (engine' = "up" => engine = "up")
  <2>1. engine = "up" \/ engine = "dead"
    BY <1>1 DEF BackingInv, Typed
  <2>2. QED
    BY <1>2, <1>3, <2>1
<1>9. Scheduled'
  <2>1. Sized(meta'.saves)
    BY <1>1, <1>2 DEF Scheduled
  <2>2. QED
    BY <1>1, <1>2, <1>7, <1>8, <2>1, ScheduledKept
<1>10. InTurn'
  BY <1>1, <1>2, <1>3 DEF InTurn
<1>11. Stored'
  BY <1>1, <1>2, StoredKept
<1>12. Promises'
  BY <1>1, <1>2, <1>8, PromisesKept
<1>13. Deliveries'
  <2>1. CASE delivered' = delivered /\ recving' = recving
    BY <1>1, <1>2, <1>7, <2>1, DeliveriesKept
  <2>2. CASE saved # None /\ delivered' = [delivered EXCEPT ![r] = got] /\ recving' = recving \cup {r}
    <3>1. KeyOf[r] \in Keys
      BY <1>6, KVAssumption
    <3>2. saved \in Range(store) /\ saved.key = KeyOf[r]
      BY <1>1, <2>2, <3>1 DEF Stored
    <3>3. KeyOf[content[saved.backing].source] = KeyOf[r]
      BY <1>1, <3>2 DEF Stored, Described
    <3>4. got.from = content[saved.backing] /\ got.count = n
      OBVIOUS
    <3>7. Whole(r, got.from.source, n)
      <4>1. engine = "up" /\ ~schedClosed /\ ~workerClosed
        BY <1>1, <1>2 DEF InTurn, BackingInv, Typed, Stages
      <4>2. Available({m \in meta.loads : m.req \in todo})
        BY <1>1, <1>2, <4>1 DEF Promises
      <4>3. LoadOf(r) \in {m \in meta.loads : m.req \in todo}
        BY <1>4, <1>5
      <4>4. Whole(r, saved.source, n)
        BY <1>5, <4>2, <4>3 DEF Available
      <4>5. got.from.source = saved.source
        BY <1>1, <3>2, <3>4 DEF Stored, Described
      <4> HIDE DEF got, saved, n
      <4>6. QED
        BY <4>4, <4>5
    <3> HIDE DEF got, saved, n
    <3>5. /\ delivered' = [q \in Requests |-> delivered'[q]]
          /\ \A q \in Requests : delivered'[q] = IF q = r THEN got ELSE delivered[q]
      BY <1>1, <1>6, <2>2 DEF Deliveries
    <3>6. QED
      BY <1>1, <1>2, <1>6, <2>2, <3>3, <3>4, <3>5, <3>7 DEF Deliveries, Whole
  <2>3. QED
    BY <1>3, <2>1, <2>2
<1>14. QED
  BY <1>9, <1>10, <1>11, <1>12, <1>13 DEF Restores

\* The steps that only go on.
LEMMA StartForwardRestores ==
    ASSUME RestoreInv, StartForward
    PROVE  Restores'
<1> USE DEF vllmVars, schedVars, callVars, saveVars, storeVars, poolVars, closeVars
<1>1. Scheduled /\ InTurn /\ Promises /\ Stored /\ Deliveries /\ BackingInv
  BY DEF RestoreInv, Restores
<1>2. /\ UNCHANGED <<contexts, store, global, slots, content, engine, req, blocks, scheduled, meta,
                     queue, pendingSaves, pendingLoads, promised, delivered, recving, schedClosed,
                     workerClosed>>
      /\ pc = "load" /\ pc' \in {"finish", "layers"}
  BY DEF StartForward
<1>3. NoneWaitsAgain /\ Sized(meta'.saves)
  BY <1>1, <1>2 DEF Scheduled, NoneWaitsAgain
<1>4. Scheduled'
  BY <1>1, <1>2, <1>3, ScheduledKept
<1>5. InTurn'
  BY <1>1, <1>2 DEF InTurn
<1>6. Stored'
  BY <1>1, <1>2, StoredKept
<1>7. Promises'
  BY <1>1, <1>2, PromisesKept
<1>8. Deliveries'
  BY <1>1, <1>2, <1>3, DeliveriesKept
<1>9. QED
  BY <1>4, <1>5, <1>6, <1>7, <1>8 DEF Restores

\* Entering the next layer.
LEMMA NextLayerRestores ==
    ASSUME RestoreInv, NextLayer
    PROVE  Restores'
<1> USE DEF vllmVars, schedVars, callVars, saveVars, storeVars, poolVars, closeVars
<1>1. Scheduled /\ InTurn /\ Promises /\ Stored /\ Deliveries /\ BackingInv
  BY DEF RestoreInv, Restores
<1>2. /\ UNCHANGED <<contexts, store, global, slots, content, engine, req, blocks, scheduled, meta,
                     queue, pendingSaves, pendingLoads, promised, delivered, recving, schedClosed,
                     workerClosed>>
      /\ pc = "layers" /\ pc' \in {"layers", "wait"}
  BY DEF NextLayer
<1>3. NoneWaitsAgain /\ Sized(meta'.saves)
  BY <1>1, <1>2 DEF Scheduled, NoneWaitsAgain
<1>4. Scheduled'
  BY <1>1, <1>2, <1>3, ScheduledKept
<1>5. InTurn'
  BY <1>1, <1>2 DEF InTurn
<1>6. Stored'
  BY <1>1, <1>2, StoredKept
<1>7. Promises'
  BY <1>1, <1>2, PromisesKept
<1>8. Deliveries'
  BY <1>1, <1>2, <1>3, DeliveriesKept
<1>9. QED
  BY <1>4, <1>5, <1>6, <1>7, <1>8 DEF Restores

\* Leaving wait_for_save.
LEMMA SavesDoneRestores ==
    ASSUME RestoreInv, SavesDone
    PROVE  Restores'
<1> USE DEF vllmVars, schedVars, callVars, saveVars, storeVars, poolVars, closeVars
<1>1. Scheduled /\ InTurn /\ Promises /\ Stored /\ Deliveries /\ BackingInv
  BY DEF RestoreInv, Restores
<1>2. /\ UNCHANGED <<contexts, store, global, slots, content, engine, req, blocks, scheduled, meta,
                     queue, pendingSaves, pendingLoads, promised, delivered, recving, schedClosed,
                     workerClosed>>
      /\ pc = "wait" /\ pc' = "finish"
  BY DEF SavesDone
<1>3. NoneWaitsAgain /\ Sized(meta'.saves)
  BY <1>1, <1>2 DEF Scheduled, NoneWaitsAgain
<1>4. Scheduled'
  BY <1>1, <1>2, <1>3, ScheduledKept
<1>5. InTurn'
  BY <1>1, <1>2 DEF InTurn
<1>6. Stored'
  BY <1>1, <1>2, StoredKept
<1>7. Promises'
  BY <1>1, <1>2, PromisesKept
<1>8. Deliveries'
  BY <1>1, <1>2, <1>3, DeliveriesKept
<1>9. QED
  BY <1>4, <1>5, <1>6, <1>7, <1>8 DEF Restores

\* get_finished: nobody is told to wait.
LEMMA GetFinishedRestores ==
    ASSUME RestoreInv, GetFinished
    PROVE  Restores'
<1> USE DEF vllmVars, schedVars, callVars, saveVars, storeVars, poolVars, closeVars
<1>1. Scheduled /\ InTurn /\ Promises /\ Stored /\ Deliveries /\ BackingInv
  BY DEF RestoreInv, Restores
<1>2. /\ UNCHANGED <<contexts, store, global, slots, content, engine, blocks, scheduled,
                     queue, pendingSaves, pendingLoads, promised, delivered, schedClosed,
                     workerClosed>>
      /\ pc = "finish" /\ pc' = "idle" /\ meta' = NoMeta /\ recving' = {}
  BY DEF GetFinished
<1>3. NoneWaitsAgain
  <2>1. req' = [r \in Requests |->
                   IF r \in savedIds \cap meta.finished /\ req[r] = "deferred" THEN "freed"
                   ELSE IF r \in recving /\ req[r] = "loading" THEN "running"
                   ELSE req[r]]
    BY Zenon DEF GetFinished
  <2>2. QED
    BY <2>1 DEF NoneWaitsAgain
<1>4. Sized(meta'.saves)
  BY <1>2 DEF Sized, NoMeta
<1>5. Scheduled'
  BY <1>1, <1>2, <1>3, <1>4, ScheduledKept
<1>6. InTurn'
  BY <1>1, <1>2 DEF InTurn
<1>7. Stored'
  BY <1>1, <1>2, StoredKept
<1>8. Promises'
  BY <1>1, <1>2, PromisesKept
<1>9. Deliveries'
  BY <1>1, <1>2 DEF Deliveries
<1>10. QED
  BY <1>5, <1>6, <1>7, <1>8, <1>9 DEF Restores

\* A context is opened on a backing of the size of its save.
LEMMA SaveLayerRestores ==
    ASSUME RestoreInv, SaveLayer
    PROVE  Restores'
<1> USE DEF vllmVars, schedVars, callVars, saveVars, storeVars, poolVars, closeVars
<1> DEFINE r == Smallest(todo)
           size == Len(SaveOf(r).ids)
<1>1. Scheduled /\ InTurn /\ Promises /\ Stored /\ Deliveries /\ BackingInv
  BY DEF RestoreInv, Restores
<1>2. /\ UNCHANGED <<store, global, content, req, blocks, scheduled, meta, queue, pendingSaves,
                     pendingLoads, promised, delivered, recving, schedClosed, workerClosed>>
      /\ pc = "layers" /\ todo # {}
  BY DEF SaveLayer
<1>3. engine = "up" /\ todo \subseteq SaveRequests(meta) /\ SaveRequests(meta) \subseteq Requests
  BY <1>1, <1>2 DEF BackingInv, Typed, Requested, Saves, SaveRequests
<1>4. r \in todo /\ r \in Requests
  <2>1. todo \in SUBSET Nat
    BY <1>3, KVAssumption
  <2>2. QED
    BY <1>2, <1>3, <2>1, SmallestIn
<1>5. SaveOf(r) \in meta.saves
  <2>1. \E x \in meta.saves : x.req = r
    BY <1>3, <1>4 DEF SaveRequests
  <2> HIDE DEF r
  <2>2. QED
    BY <2>1 DEF SaveOf
<1>6. size \in Nat
  BY <1>1, <1>5 DEF Scheduled, Sized
<1>7. \/ /\ contexts' = contexts /\ slots' = slots /\ todo' \subseteq todo /\ pc' \in {"layers", "dead"}
      \/ \E b \in Acquirable(size) :
            /\ slots' = [slots EXCEPT ![b] = size] /\ pc' \in {"layers", "dead"} /\ todo' \subseteq todo
            /\ contexts' = contexts \/ contexts' = [contexts EXCEPT ![r] = b]
  <2>1. \/ /\ contexts' = contexts /\ slots' = slots /\ todo' \subseteq todo
           /\ pc' \in {"layers", "dead"}
        \/ \E b \in Acquirable(size), ok \in BOOLEAN :
            /\ StartContext(r, b, ok) /\ pc' \in {"layers", "dead"} /\ todo' \subseteq todo
    <3> HIDE DEF r
    <3>1. CASE contexts' = contexts /\ slots' = slots
      BY <1>2, <3>1 DEF SaveLayer, Raise
    <3>2. CASE ~(contexts' = contexts /\ slots' = slots)
      BY <1>2, <3>2 DEF SaveLayer, Raise, r
    <3>3. QED
      BY <3>1, <3>2
  <2> HIDE DEF r
  <2>2. QED
    BY <2>1 DEF StartContext
<1>8. NoneWaitsAgain /\ Sized(meta'.saves)
  BY <1>1, <1>2 DEF Scheduled, NoneWaitsAgain
<1>9. pc' \in {"layers", "dead"}
  BY <1>7
<1>10. Scheduled'
  BY <1>1, <1>2, <1>8, <1>9, ScheduledKept
<1>11. InTurn'
  BY <1>1, <1>2, <1>9 DEF InTurn
<1>12. Deliveries'
  BY <1>1, <1>2, <1>8, DeliveriesKept
<1>13. Promises'
  <2>1. queue = <<>> /\ pendingLoads = {}
    BY <1>1, <1>2 DEF InTurn
  <2>2. Range(queue') = {}
    BY <1>2, <2>1 DEF Range
  <2>3. QED
    BY <1>2, <1>9, <2>1, <2>2 DEF Promises, Available
<1>14. Stored'
  <2>1. CASE contexts' = contexts /\ slots' = slots
    BY <1>1, <1>2, <2>1, StoredKept
  <2>2. ASSUME NEW b \in Acquirable(size), slots' = [slots EXCEPT ![b] = size],
               contexts' = contexts \/ contexts' = [contexts EXCEPT ![r] = b]
        PROVE  Stored'
    <3>1. b \in Backings /\ (b \in free \/ backing[b] = "unused")
      BY <1>1, <2>2, AcquirableFacts DEF BackingInv, Typed
    <3>2. ~InContext(b) /\ ~InStore(b)
      BY <1>1, <3>1 DEF BackingInv, Exclusive, Held
    <3> HIDE DEF r, size
    <3>3. /\ slots' \in [Backings -> Nat]
          /\ \A c \in Backings : c # b => slots'[c] = slots[c]
          /\ slots'[b] = size
      BY <1>1, <1>6, <2>2, <3>1 DEF Stored
    <3>4. \A p \in Range(store') : Described(p)'
      <4>1. \A p \in Range(store) : p.backing \in Backings /\ p.backing # b /\ Described(p)
        BY <1>1, <3>2 DEF BackingInv, Exclusive, Prefix, InStore, Stored
      <4>2. QED
        BY <1>2, <3>3, <4>1 DEF Described
    <3>5. ASSUME NEW q \in Requests, contexts'[q] # None
          PROVE  slots'[contexts'[q]] = Len(SaveOf(q)'.ids)
      <4>1. SaveOf(q)' = SaveOf(q)
        BY <1>2 DEF SaveOf
      <4>2. contexts \in [Requests -> Backings \cup {None}]
        BY <1>1 DEF BackingInv, Typed
      <4>3. CASE contexts'[q] = contexts[q]
        <5>1. contexts[q] \in Backings /\ contexts[q] # b
          BY <3>2, <3>5, <4>2, <4>3 DEF InContext
        <5>2. slots[contexts[q]] = Len(SaveOf(q).ids)
          BY <1>1, <1>2, <3>5, <4>3 DEF Stored
        <5>3. QED
          BY <3>3, <4>1, <4>3, <5>1, <5>2
      <4>4. CASE contexts'[q] # contexts[q]
        <5>1. q = r /\ contexts'[q] = b
          BY <1>4, <2>2, <4>2, <4>4
        <5>2. QED
          BY <3>3, <4>1, <5>1 DEF size
      <4>5. QED
        BY <4>3, <4>4
    <3>6. QED
      BY <1>1, <1>2, <3>3, <3>4, <3>5 DEF Stored
  <2>3. QED
    BY <1>7, <2>1, <2>2
<1>15. QED
  BY <1>10, <1>11, <1>12, <1>13, <1>14 DEF Restores

\* wait_for_save: a prefix is stored with what its save left in the backing, and what
\* the put removes leaves the global store with it.
LEMMA WaitForSaveRestores ==
    ASSUME RestoreInv, WaitForSave
    PROVE  Restores'
<1> USE DEF vllmVars, schedVars, callVars, saveVars, storeVars, poolVars, closeVars
<1>1. Scheduled /\ InTurn /\ Promises /\ Stored /\ Deliveries /\ BackingInv
  BY DEF RestoreInv, Restores
<1>2. /\ UNCHANGED <<slots, req, blocks, scheduled, meta, queue, pendingSaves, pendingLoads,
                     promised, delivered, recving, schedClosed, workerClosed>>
      /\ pc = "wait"
  BY DEF WaitForSave
<1>3. PICK r \in Requests :
          /\ r \in todo /\ r \in SaveRequests(meta)
          /\ contexts' = [contexts EXCEPT ![r] = None]
          /\ \/ contexts[r] # None /\ FinishSave(r, contexts[r])
             \/ Incomplete /\ global' = global /\ todo' = todo /\ content' = content
  BY <1>1, WaitForSaveFacts
<1> DEFINE b == contexts[r]
<1>4. contexts \in [Requests -> Backings \cup {None}] /\ b \in Backings \cup {None}
  BY <1>1, <1>3 DEF BackingInv, Typed
<1>5. b # None => b \in Backings /\ ~InStore(b)
  BY <1>1, <1>3, <1>4 DEF BackingInv, Exclusive, InContext
<1>6. b # None /\ FinishSave(r, b) =>
          /\ content' = [content EXCEPT ![b] = Written(r)]
          /\ \/ Refused(b) /\ global' = global /\ todo' = todo
             \/ \E e \in EvidenceShapes :
                   LET p == SavedPrefix(r, b, e)
                   IN /\ LifecycleOK(e) /\ Kept(b, p) /\ StorePrefix(p)
                      /\ PutResult(store, p, PutPrefix(store, p), RemovedByPut(store, p))
                      /\ todo' = todo \ {r}
  <2> HIDE DEF b
  <2> SUFFICES ASSUME b # None, FinishSave(r, b)
               PROVE  /\ content' = [content EXCEPT ![b] = Written(r)]
                      /\ \/ Refused(b) /\ global' = global /\ todo' = todo
                         \/ \E e \in EvidenceShapes :
                               LET p == SavedPrefix(r, b, e)
                               IN /\ LifecycleOK(e) /\ Kept(b, p) /\ StorePrefix(p)
                                  /\ PutResult(store, p, PutPrefix(store, p),
                                               RemovedByPut(store, p))
                                  /\ todo' = todo \ {r}
    OBVIOUS
  <2>1. content' = [content EXCEPT ![b] = Written(r)]
    BY Zenon DEF FinishSave
  <2>2. b \in Backings /\ ~InStore(b)
    BY <1>5
  <2>3. QED
    BY <1>1, <2>1, <2>2, FinishSaveFacts
<1>7. pc' \in {"wait", "dead"}
  BY <1>2, <1>3, <1>6 DEF Incomplete, Refused, Kept
<1>8. NoneWaitsAgain /\ Sized(meta'.saves)
  BY <1>1, <1>2 DEF Scheduled, NoneWaitsAgain
<1>9. Scheduled'
  BY <1>1, <1>2, <1>7, <1>8, ScheduledKept
<1>10. InTurn'
  BY <1>1, <1>2, <1>7 DEF InTurn
<1>11. Deliveries'
  BY <1>1, <1>2, <1>8, DeliveriesKept
<1>12. Promises'
  <2>1. queue = <<>> /\ pendingLoads = {}
    BY <1>1, <1>2 DEF InTurn
  <2>2. Range(queue') = {}
    BY <1>2, <2>1 DEF Range
  <2>3. QED
    BY <1>2, <1>7, <2>1, <2>2 DEF Promises, Available
<1>13. ASSUME NEW q \in Requests, contexts'[q] # None
       PROVE  slots'[contexts'[q]] = Len(SaveOf(q)'.ids)
  <2>1. contexts'[q] = contexts[q]
    BY <1>3, <1>4, <1>13
  <2>2. SaveOf(q)' = SaveOf(q)
    BY <1>2 DEF SaveOf
  <2>3. QED
    BY <1>1, <1>2, <1>13, <2>1, <2>2 DEF Stored
<1>14. ASSUME NEW p \in Range(store), p.backing \in Backings,
              content' = content \/ (content' = [content EXCEPT ![b] = Written(r)] /\ b \in Backings)
       PROVE  Described(p)'
  <2>1. Described(p)
    BY <1>1 DEF Stored
  <2>2. p.backing # b \/ content' = content
    BY <1>5, <1>14, KVAssumption DEF InStore
  <2> HIDE DEF b
  <2>3. content'[p.backing] = content[p.backing]
    BY <1>1, <1>14, <2>2 DEF Stored
  <2>4. QED
    BY <1>2, <2>1, <2>3 DEF Described
<1>15. \A p \in Range(store) : p.backing \in Backings
  BY <1>1 DEF BackingInv, Exclusive, Prefix
<1>16. Stored'
  <2>1. CASE /\ store' = store /\ global' = global
             /\ \/ content' = content
                \/ content' = [content EXCEPT ![b] = Written(r)] /\ b \in Backings
    <3>1. \A p \in Range(store') : Described(p)'
      BY <1>14, <1>15, <2>1
    <3>2. content' = [c \in Backings |-> content'[c]]
      BY <1>1, <2>1 DEF Stored
    <3>3. QED
      BY <1>1, <1>2, <1>13, <2>1, <3>1, <3>2 DEF Stored
  <2>2. ASSUME b \in Backings, content' = [content EXCEPT ![b] = Written(r)],
               NEW e \in EvidenceShapes, NEW p, p = SavedPrefix(r, b, e), StorePrefix(p),
               PutResult(store, p, PutPrefix(store, p), RemovedByPut(store, p))
        PROVE  Stored'
    <3> DEFINE gone == RemovedByPut(store, p)
    <3>1. /\ Range(store') \cup gone = Range(store) \cup {p} /\ Range(store') \cap gone = {}
          /\ store' = PutPrefix(store, p)
      BY <2>2 DEF PutResult, StorePrefix
    <3>2. global' = [k \in Keys |-> IF k = p.key THEN p
                                    ELSE IF \E q \in gone : q.key = k THEN None ELSE global[k]]
      BY <2>2 DEF StorePrefix
    <3>3. p \in Range(store')
      BY <2>2, <3>1 DEF PutResult
    <3> HIDE DEF gone
    <3>4. content' = [c \in Backings |-> content'[c]] /\ content'[b] = Written(r)
      BY <1>1, <2>2 DEF Stored
    <3>5. Described(p)'
      <4>1. SaveOf(r) \in meta.saves /\ SaveOf(r).req = r
        <5>1. \E x \in meta.saves : x.req = r
          BY <1>3 DEF SaveRequests
        <5>2. QED
          BY <5>1 DEF SaveOf
      <4>2. /\ Len(SaveOf(r).ids) \in Nat /\ SaveOf(r).tokens \in Nat
            /\ Covers(r) => BlockCountForTokens(SaveOf(r).tokens) <= Len(SaveOf(r).ids)
        BY <1>1, <4>1 DEF Scheduled, Sized
      <4>3. slots[b] = Len(SaveOf(r).ids)
        <5>1. contexts[r] # None
          BY <2>2, KVAssumption
        <5>2. QED
          BY <1>1, <1>2, <5>1 DEF Stored
      <4>4. /\ p.key = KeyOf[r] /\ p.backing = b /\ p.count = Len(SaveOf(r).ids)
            /\ p.tokens = SaveOf(r).tokens /\ p.source = r
        BY <2>2 DEF SavedPrefix
      <4>5. content'[p.backing].source = r
        BY <3>4, <4>4 DEF Written
      <4>6. KeyOf[r] \in Keys
        BY KVAssumption
      <4> HIDE DEF b
      <4>7. p.key \in Keys /\ p.source \in Requests /\ KeyOf[p.source] = p.key
        BY <4>4, <4>6
      <4>8. p.count \in Nat /\ p.count <= slots'[p.backing]
        BY <1>2, <4>2, <4>3, <4>4
      <4>9. p.tokens \in Nat /\ (Covers(p.source) => BlockCountForTokens(p.tokens) <= p.count)
        BY <4>2, <4>4
      <4>10. content'[p.backing].source = p.source
        BY <4>4, <4>5
      <4>11. QED
        BY <4>7, <4>8, <4>9, <4>10 DEF Described
    <3>6. \A q \in Range(store') : Described(q)'
      <4> TAKE q \in Range(store')
      <4>1. q \in Range(store) \/ q = p
        BY <3>1
      <4>2. CASE q \in Range(store)
        BY <1>14, <1>15, <2>2, <4>2
      <4>3. CASE q = p
        BY <3>5, <4>3
      <4>4. QED
        BY <4>1, <4>2, <4>3
    <3>7. ASSUME NEW k \in Keys, global'[k] # None
          PROVE  global'[k] \in Range(store') /\ global'[k].key = k
      <4>1. CASE k = p.key
        BY <3>2, <3>3, <4>1
      <4>2. CASE k # p.key
        <5>1. global'[k] = global[k] /\ ~ \E q \in gone : q.key = k
          BY <3>2, <3>7, <4>2
        <5>2. global[k] \in Range(store) /\ global[k].key = k
          BY <1>1, <3>7, <5>1 DEF Stored
        <5>3. QED
          BY <3>1, <5>1, <5>2
      <4>3. QED
        BY <4>1, <4>2
    <3>8. global' = [k \in Keys |-> global'[k]]
      BY <3>2
    <3>9. slots' \in [Backings -> Nat]
      BY <1>1, <1>2 DEF Stored
    <3>10. QED
      BY <1>13, <3>4, <3>6, <3>7, <3>8, <3>9 DEF Stored
  <2>3. CASE Incomplete /\ global' = global /\ content' = content
    BY <2>1, <2>3 DEF Incomplete
  <2>4. CASE b # None /\ FinishSave(r, b)
    <3>1. b \in Backings
      BY <1>5, <2>4
    <3>2. CASE Refused(b) /\ global' = global
      BY <1>6, <2>1, <2>4, <3>1, <3>2 DEF Refused
    <3> HIDE DEF b
    <3>3. QED
      BY <1>6, <2>2, <2>4, <3>1, <3>2
  <2>5. QED
    BY <1>3, <2>3, <2>4
<1>17. QED
  BY <1>9, <1>10, <1>11, <1>12, <1>16 DEF Restores

\* Closing the scheduler's side.
LEMMA CloseSchedulerRestores ==
    ASSUME RestoreInv, CloseScheduler
    PROVE  Restores'
<1> USE DEF vllmVars, schedVars, callVars, saveVars, storeVars, poolVars, closeVars
<1>1. Scheduled /\ InTurn /\ Promises /\ Stored /\ Deliveries /\ BackingInv
  BY DEF RestoreInv, Restores
<1>2. /\ UNCHANGED <<contexts, store, slots, content, pc, meta, todo, queue, req, blocks, scheduled,
                     promised, delivered, recving>>
      /\ schedClosed' /\ pendingLoads' = {} /\ pendingSaves' = {}
      /\ global' = [k \in Keys |-> None]
      /\ pc \in {"idle", "dead"}
  BY DEF CloseScheduler, ClearGlobal
<1>3. Scheduled'
  <2>1. /\ Sized(pendingSaves)' /\ Sized(meta.saves)' /\ \A m \in Range(queue') : Sized(m.saves)'
        /\ Loads(pendingLoads)' /\ \A m \in Range(queue') : Loads(m.loads)'
    BY <1>1, <1>2 DEF Scheduled, Sized, Loads
  <2>2. pc' = "load" => Loads(meta.loads)' /\ todo' \subseteq {m.req : m \in meta'.loads}
    BY <1>1, <1>2 DEF Scheduled, Loads
  <2>3. QED
    BY <1>1, <1>2, <2>1, <2>2 DEF Scheduled
<1>4. InTurn'
  BY <1>1, <1>2 DEF InTurn
<1>5. Stored'
  <2>1. \A p \in Range(store') : Described(p)'
    BY <1>1, <1>2 DEF Stored, Described
  <2>2. \A r \in Requests : SaveOf(r)' = SaveOf(r)
    BY <1>2 DEF SaveOf
  <2>3. QED
    BY <1>1, <1>2, <2>1, <2>2 DEF Stored
<1>6. Promises'
  BY <1>2 DEF Promises
<1>7. Deliveries'
  BY <1>1, <1>2 DEF Deliveries, Whole
<1>8. QED
  BY <1>3, <1>4, <1>5, <1>6, <1>7 DEF Restores

\* Closing the worker's side forgets the store and what it published.
LEMMA CloseWorkerRestores ==
    ASSUME RestoreInv, CloseWorker
    PROVE  Restores'
<1> USE DEF vllmVars, schedVars, callVars, saveVars, storeVars, poolVars, closeVars
<1>1. Scheduled /\ InTurn /\ Promises /\ Stored /\ Deliveries /\ BackingInv
  BY DEF RestoreInv, Restores
<1>2. /\ UNCHANGED <<pendingSaves, pendingLoads, slots, content, pc, meta, todo, queue, req, blocks,
                     scheduled, promised, delivered, schedClosed>>
      /\ workerClosed' /\ store' = <<>> /\ contexts' = [r \in Requests |-> None] /\ recving' = {}
      /\ global' = [k \in Keys |-> None]
  BY DEF CloseWorker, ClearGlobal
<1>3. NoneWaitsAgain /\ Sized(meta'.saves)
  BY <1>1, <1>2 DEF Scheduled, NoneWaitsAgain
<1>4. Scheduled'
  BY <1>1, <1>2, <1>3, ScheduledKept
<1>5. InTurn'
  BY <1>1, <1>2 DEF InTurn
<1>6. Range(store') = {}
  BY <1>2 DEF Range
<1>7. Stored'
  BY <1>1, <1>2, <1>6 DEF Stored
<1>8. Promises'
  BY <1>2 DEF Promises
<1>9. Deliveries'
  BY <1>1, <1>2 DEF Deliveries
<1>10. QED
  BY <1>4, <1>5, <1>7, <1>8, <1>9 DEF Restores

\* Nothing happens.
LEMMA RestoreStutters ==
    ASSUME RestoreInv, UNCHANGED vars
    PROVE  Restores'
<1> USE DEF vars, vllmVars, schedVars, callVars, saveVars, storeVars, poolVars, closeVars
<1>1. Scheduled /\ InTurn /\ Promises /\ Stored /\ Deliveries /\ BackingInv
  BY DEF RestoreInv, Restores
<1>2. /\ UNCHANGED <<contexts, store, global, slots, content, pc, meta, todo, queue, req, blocks,
                     scheduled, pendingSaves, pendingLoads, promised, delivered, recving,
                     engine, schedClosed, workerClosed>>
  OBVIOUS
<1>3. NoneWaitsAgain /\ Sized(meta'.saves)
  BY <1>1, <1>2 DEF Scheduled, NoneWaitsAgain
<1>4. Scheduled'
  BY <1>1, <1>2, <1>3, ScheduledKept
<1>5. InTurn'
  BY <1>1, <1>2 DEF InTurn
<1>6. Stored'
  BY <1>1, <1>2, StoredKept
<1>7. Promises'
  BY <1>1, <1>2, PromisesKept
<1>8. Deliveries'
  BY <1>1, <1>2, <1>3, DeliveriesKept
<1>9. QED
  BY <1>4, <1>5, <1>6, <1>7, <1>8 DEF Restores

\* Every step keeps what is matched, promised, stored and delivered together.
LEMMA RestoreStep ==
    ASSUME OneStepAtATime, RestoreInv, [Next]_vars
    PROVE  RestoreInv'
<1>1. BackingInv'
  BY BackingStep DEF RestoreInv
<1>2. CASE Schedule
  BY <1>2, ScheduleRestores, <1>1 DEF RestoreInv
<1>3. CASE BuildConnectorMeta
  BY <1>3, BuildRestores, <1>1 DEF RestoreInv
<1>4. CASE WorkerStep
  <2>1. CASE BeginStep
    BY <1>1, <2>1, BeginStepRestores DEF RestoreInv
  <2>2. CASE LoadRequest
    BY <1>1, <2>2, LoadRequestRestores DEF RestoreInv
  <2>3. CASE StartForward
    BY <1>1, <2>3, StartForwardRestores DEF RestoreInv
  <2>4. CASE SaveLayer
    BY <1>1, <2>4, SaveLayerRestores DEF RestoreInv
  <2>5. CASE NextLayer
    BY <1>1, <2>5, NextLayerRestores DEF RestoreInv
  <2>6. CASE WaitForSave
    BY <1>1, <2>6, WaitForSaveRestores DEF RestoreInv
  <2>7. CASE SavesDone
    BY <1>1, <2>7, SavesDoneRestores DEF RestoreInv
  <2>8. CASE GetFinished
    BY <1>1, <2>8, GetFinishedRestores DEF RestoreInv
  <2>9. QED
    BY <1>4, <2>1, <2>2, <2>3, <2>4, <2>5, <2>6, <2>7, <2>8 DEF WorkerStep
<1>5. CASE CloseScheduler
  BY <1>1, <1>5, CloseSchedulerRestores DEF RestoreInv
<1>6. CASE CloseWorker
  BY <1>1, <1>6, CloseWorkerRestores DEF RestoreInv
<1>7. CASE UNCHANGED vars
  BY <1>1, <1>7, RestoreStutters DEF RestoreInv
<1>8. QED
  BY <1>2, <1>3, <1>4, <1>5, <1>6, <1>7 DEF Next

\* What is matched, promised, stored and delivered of a prefix fits together, through
\* evictions, replacements and reused backings.
THEOREM RestoreInvariance ==
    ASSUME OneStepAtATime
    PROVE  Spec => []RestoreInv
<1>1. Init => RestoreInv
  BY BackingInit, RestoreInit DEF RestoreInv
<1>2. RestoreInv /\ [Next]_vars => RestoreInv'
  BY RestoreStep
<1>3. QED
  BY <1>1, <1>2, PTL DEF Spec

\* A restore is loaded with the KV of its own key, of a prefix that is stored, and with
\* no more than its blocks; it gets every block promised when vLLM had computed nothing
\* and the save covered its tokens (vllm_kv_connector.py:290-419, 715-839, 2157-2170).
THEOREM RestoresAreWhole ==
    ASSUME OneStepAtATime
    PROVE  Spec => []RestoreIsWhole
<1>1. ASSUME RestoreInv
      PROVE  RestoreIsWhole
  <2>1. Stored /\ Promises /\ Deliveries /\ BackingInv
    BY <1>1 DEF RestoreInv, Restores
  <2>2. \A k \in Keys : global[k] # None => global[k] \in Range(store)
    BY <2>1 DEF Stored
  <2>3. ASSUME engine = "up", ~schedClosed, ~workerClosed, NEW m \in UnderWay
        PROVE  /\ global[KeyOf[m.req]] # None
               /\ m.count <= slots[global[KeyOf[m.req]].backing]
    <3>1. /\ Available(pendingLoads) /\ \A x \in Range(queue) : Available(x.loads)
          /\ pc = "load" => Available({x \in meta.loads : x.req \in todo})
      BY <2>1, <2>3 DEF Promises
    <3>2. queue # <<>> => Head(queue) \in Range(queue)
      BY <2>1, HeadTailProperties DEF BackingInv, Requested
    <3>3. Available(UnderWay)
      BY <3>1, <3>2 DEF Available, UnderWay
    <3>4. QED
      BY <2>3, <3>3 DEF Available
  <2>4. /\ \A r \in Requests : delivered[r] # None => KeyOf[delivered[r].from.source] = KeyOf[r]
        /\ \A r \in recving :
              /\ delivered[r].count <= promised[r].blocks
              /\ promised[r].computed = 0 /\ Covers(delivered[r].from.source) =>
                    delivered[r].count = promised[r].blocks
    BY <2>1 DEF Deliveries, Whole
  <2>5. QED
    BY <2>2, <2>3, <2>4 DEF RestoreIsWhole
<1>2. QED
  BY <1>1, RestoreInvariance, PTL

=============================================================================
