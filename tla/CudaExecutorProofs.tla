------------------------- MODULE CudaExecutorProofs -------------------------
(***************************************************************************)
(* Proofs about the runtime caches and the locks of their keys, for any    *)
(* number of executions and keys and any limit.                            *)
(***************************************************************************)
EXTENDS CudaExecutor, DataLemmas

Buffers == SUBSET {"cpu", "ipc"}
Holding == {"waiting", "creating", "leaving", "leavingEmpty"}
Leaving == {"leaving", "leavingEmpty"}
DirectPCs == {"idle", "ready", "done"} \cup Holding
PCs == DirectPCs \cup {"bound", "submitted", "copying", "failing", "finished"}

Execution == [pc : PCs, lock : Executions \cup {NoLock}, open : Buffers, stuck : Buffers]

\* An execution that has still to give a runtime back, after which the cache is trimmed.
UnderWay == Holding \cup {"ready", "submitted", "copying", "failing"}

Holders(k) == {x \in Executions : exec[x].lock # NoLock /\ KeyOf(x) = k}

Typed ==
    /\ options \in [side : {"worker", "direct"}, limit : CacheLimits, key : KeyMaps,
                    closed : BOOLEAN]
    /\ cache \in Seq(Keys)
    /\ keyLock \in [Keys -> Executions \cup {NoLock}]
    /\ users \in [Keys -> Nat]
    /\ exec \in [Executions -> Execution]

\* What each side does not have, and which executions hold a lock, a handle or a buffer.
Sides ==
    /\ options.side = "worker" => ~options.closed
    /\ inflight = {x \in Executions : exec[x].pc = "copying"}
    /\ \A x \in Executions :
          /\ options.side = "direct" => exec[x].pc \in DirectPCs /\ exec[x].open = {}
          /\ exec[x].pc = "idle" => exec[x].open = {}
          /\ exec[x].pc = "done" => exec[x].open \subseteq exec[x].stuck
          /\ exec[x].lock # NoLock <=> exec[x].pc \in Holding

\* All that hold the lock of a key hold the same one, and one of them creates.
Locks ==
    \A x, y \in Executions :
        /\ exec[x].lock # NoLock /\ exec[y].lock # NoLock /\ KeyOf(x) = KeyOf(y) =>
              exec[x].lock = exec[y].lock
        /\ exec[x].pc = "creating" /\ exec[y].pc = "creating" /\ exec[x].lock = exec[y].lock =>
              x = y

\* The table knows the lock of a key as long as somebody holds it, and how many do;
\* after the close of the client it knows none.
Counted ==
    \A k \in Keys :
        IF options.closed THEN keyLock[k] = NoLock /\ users[k] = 0
        ELSE /\ users[k] = Cardinality(Holders(k))
             /\ keyLock[k] = NoLock <=> users[k] = 0
             /\ \A x \in Holders(k) : exec[x].lock = keyLock[k]

\* The cache has no key twice; the client's is never too large, and the worker's
\* only while an execution is under way.
Bounded ==
    /\ Distinct(cache)
    /\ \/ options.limit < 0
       \/ Len(cache) <= options.limit
       \/ options.side = "worker" /\ \E x \in Executions : exec[x].pc \in UnderWay

ExecutorInv == Typed /\ Sides /\ Locks /\ Counted /\ Bounded

-----------------------------------------------------------------------------
\* The cache.

\* The first n positions are n positions.
LEMMA IntervalUpTo ==
    ASSUME NEW n \in Nat
    PROVE  IsFiniteSet(1..n) /\ Cardinality(1..n) = n
<1>1. 1 \in Int /\ n \in Int
  OBVIOUS
<1>2. IsFiniteSet(1..n) /\ Cardinality(1..n) = IF 1 > n THEN 0 ELSE n - 1 + 1
  BY <1>1, FS_Interval
<1>3. QED
  BY <1>2

\* Moving a key to the end of the cache (move_to_end) keeps every entry, once.
LEMMA TouchedFacts ==
    ASSUME cache \in Seq(Keys), Distinct(cache), NEW k \in Keys, Cached(k)
    PROVE  /\ Touched(k) \in Seq(Keys) /\ Distinct(Touched(k))
           /\ ToSet(Touched(k)) = ToSet(cache)
           /\ Len(Touched(k)) = Len(cache)
<1> DEFINE keep == {i \in DOMAIN cache : cache[i] # k}
           rest == Filter(cache, keep)
<1>1. /\ rest \in Seq(Keys) /\ Distinct(rest)
      /\ \A e : (\E i \in DOMAIN rest : rest[i] = e) <=> \E j \in DOMAIN cache \cap keep : cache[j] = e
      /\ Len(rest) = Cardinality(keep \cap DOMAIN cache)
  <2> HIDE DEF keep
  <2>1. /\ rest \in Seq(Keys)
        /\ \A e : (\E i \in DOMAIN rest : rest[i] = e) <=>
                     \E j \in DOMAIN cache \cap keep : cache[j] = e
        /\ Len(rest) = Cardinality(keep \cap DOMAIN cache)
        /\ Distinct(cache) => Distinct(rest)
    BY FilterFacts
  <2>2. QED
    BY <2>1
<1>2. Touched(k) = Append(rest, k)
  BY DEF Touched
<1> HIDE DEF rest
<1>3. PICK p \in DOMAIN cache : cache[p] = k
  BY DEF Cached, ToSet
<1>4. keep \cap DOMAIN cache = (1..Len(cache)) \ {p}
  BY <1>3 DEF Distinct
<1>5. Len(rest) = Len(cache) - 1
  <2>1. /\ IsFiniteSet(1..Len(cache)) /\ Cardinality(1..Len(cache)) = Len(cache)
        /\ p \in 1..Len(cache) /\ Len(cache) \in Nat
    BY <1>3, IntervalUpTo
  <2>2. Cardinality((1..Len(cache)) \ {p}) = Cardinality(1..Len(cache)) - 1
    BY <2>1, FS_RemoveElement
  <2>3. QED
    BY <1>1, <1>4, <2>1, <2>2
<1>6. \A i \in DOMAIN rest : rest[i] # k
  BY <1>1
<1>7. /\ Append(rest, k) \in Seq(Keys) /\ Len(Append(rest, k)) = Len(rest) + 1
      /\ DOMAIN Append(rest, k) = 1..(Len(rest) + 1)
      /\ \A i \in DOMAIN rest : Append(rest, k)[i] = rest[i]
      /\ Append(rest, k)[Len(rest) + 1] = k
      /\ DOMAIN rest = 1..Len(rest) /\ Len(rest) \in Nat
  <2>1. rest \in Seq(Keys)
    BY <1>1
  <2>2. QED
    BY <2>1
<1>8. Distinct(Touched(k))
  BY <1>1, <1>2, <1>6, <1>7 DEF Distinct
<1>9. ToSet(Append(rest, k)) = ToSet(cache)
  <2>1. ASSUME NEW e
        PROVE  e \in ToSet(Append(rest, k)) <=> (\E i \in DOMAIN rest : rest[i] = e) \/ e = k
    BY <1>7 DEF ToSet
  <2>2. ASSUME NEW e
        PROVE  e \in ToSet(cache) <=> (\E j \in DOMAIN cache \cap keep : cache[j] = e) \/ e = k
    BY <1>3 DEF ToSet
  <2>3. QED
    BY <1>1, <2>1, <2>2
<1>10. QED
  BY <1>2, <1>5, <1>7, <1>8, <1>9

\* Trimming the cache evicts no context that an execution uses.
LEMMA TrimmedFacts ==
    ASSUME NEW c \in Seq(Keys), Distinct(c), NEW active
    PROVE  /\ Trimmed(c, active) \in Seq(Keys) /\ Distinct(Trimmed(c, active))
           /\ \A k \in active : k \in ToSet(c) => k \in ToSet(Trimmed(c, active))
<1>1. CASE options.limit < 0
  BY <1>1 DEF Trimmed
<1>2. CASE ~ (options.limit < 0)
  <2> DEFINE keep == {i \in DOMAIN c : c[i] \in active
                        \/ Cardinality({j \in 1..i : c[j] \notin active}) > Len(c) - options.limit}
  <2>1. Trimmed(c, active) = Filter(c, keep)
    BY <1>2 DEF Trimmed
  <2>2. \A i \in DOMAIN c : c[i] \in active => i \in keep
    OBVIOUS
  <2> HIDE DEF keep
  <2>3. /\ Filter(c, keep) \in Seq(Keys) /\ Distinct(Filter(c, keep))
        /\ \A e : (\E i \in DOMAIN Filter(c, keep) : Filter(c, keep)[i] = e) <=>
                     \E j \in DOMAIN c \cap keep : c[j] = e
    <3>1. /\ Filter(c, keep) \in Seq(Keys)
          /\ \A e : (\E i \in DOMAIN Filter(c, keep) : Filter(c, keep)[i] = e) <=>
                       \E j \in DOMAIN c \cap keep : c[j] = e
          /\ Len(Filter(c, keep)) = Cardinality(keep \cap DOMAIN c)
          /\ Distinct(c) => Distinct(Filter(c, keep))
      BY FilterFacts
    <3>2. QED
      BY <3>1
  <2>4. QED
    BY <2>1, <2>2, <2>3 DEF ToSet
<1>3. QED
  BY <1>1, <1>2

\* With nothing in use, trimming brings the cache back to its limit.
LEMMA TrimmedIdle ==
    ASSUME NEW c \in Seq(Keys), options.limit \in Nat
    PROVE  Len(Trimmed(c, {})) <= options.limit
<1> DEFINE n == Len(c)
           keep == {i \in DOMAIN c : c[i] \in {}
                        \/ Cardinality({j \in 1..i : c[j] \notin {}}) > Len(c) - options.limit}
<1>1. Len(Trimmed(c, {})) = Cardinality(keep \cap DOMAIN c)
  <2>1. Trimmed(c, {}) = Filter(c, keep)
    BY DEF Trimmed
  <2> HIDE DEF keep
  <2>2. QED
    BY <2>1, FilterFacts
<1>2. \A i \in DOMAIN c : Cardinality({j \in 1..i : c[j] \notin {}}) = i
  <2> TAKE i \in DOMAIN c
  <2>1. {j \in 1..i : c[j] \notin {}} = 1..i /\ i \in Nat
    OBVIOUS
  <2>2. Cardinality(1..i) = i
    BY <2>1, FS_Interval
  <2>3. QED
    BY <2>1, <2>2
<1>3. keep \cap DOMAIN c \subseteq (n - options.limit + 1)..n
  BY <1>2
<1>4. n \in Nat
  OBVIOUS
<1>5. keep \cap DOMAIN c \subseteq 1..n
  BY <1>4
<1>6. CASE n <= options.limit
  <2>1. IsFiniteSet(1..n) /\ Cardinality(1..n) = n
    BY <1>4, IntervalUpTo
  <2>2. Cardinality(keep \cap DOMAIN c) <= n
    BY <1>5, <2>1, FS_Subset
  <2>3. Cardinality(keep \cap DOMAIN c) \in Nat
    BY <1>5, <2>1, FS_Subset, FS_CardinalityType
  <2> HIDE DEF keep
  <2>4. QED
    BY <1>1, <1>4, <1>6, <2>2, <2>3
<1>7. CASE n > options.limit
  <2>1. /\ IsFiniteSet((n - options.limit + 1)..n)
        /\ Cardinality((n - options.limit + 1)..n) = options.limit
    <3> DEFINE m == n - options.limit + 1
    <3>1. m \in Int /\ n \in Int /\ m <= n + 1 /\ n - m + 1 = options.limit
      BY <1>4
    <3> HIDE DEF m, n
    <3>2. IsFiniteSet(m..n) /\ Cardinality(m..n) = IF m > n THEN 0 ELSE n - m + 1
      BY <3>1, FS_Interval
    <3>3. Cardinality(m..n) = options.limit
      BY <3>1, <3>2
    <3>4. QED
      BY <3>2, <3>3 DEF m
  <2>2. Cardinality(keep \cap DOMAIN c) <= options.limit
    <3> HIDE DEF keep, n
    <3>1. QED
      BY <1>3, <2>1, FS_Subset
  <2> HIDE DEF keep
  <2>3. QED
    BY <1>1, <2>2
<1>8. QED
  BY <1>4, <1>6, <1>7

\* So it does when the one context in use has just been added.
LEMMA TrimmedOne ==
    ASSUME NEW b \in Seq(Keys), NEW k \in Keys, k \notin ToSet(b),
           options.limit \in Nat, options.limit # 0, Len(b) <= options.limit
    PROVE  Len(Trimmed(Append(b, k), {k})) <= options.limit
<1> DEFINE c == Append(b, k)
           n == Len(c)
           keep == {i \in DOMAIN c : c[i] \in {k}
                        \/ Cardinality({j \in 1..i : c[j] \notin {k}}) > Len(c) - options.limit}
<1>1. /\ c \in Seq(Keys) /\ n = Len(b) + 1 /\ n \in Nat /\ DOMAIN c = 1..n
      /\ \A i \in 1..(n - 1) : c[i] \in ToSet(b)
  BY DEF ToSet
<1>2. Len(Trimmed(c, {k})) = Cardinality(keep \cap DOMAIN c)
  <2>1. Trimmed(c, {k}) = Filter(c, keep)
    <3> HIDE DEF c
    <3>1. QED
      BY DEF Trimmed
  <2> HIDE DEF keep, c
  <2>2. QED
    BY <1>1, <2>1, FilterFacts
<1> HIDE DEF c
<1>3. \A i \in 1..(n - 1) : c[i] # k /\ Cardinality({j \in 1..i : c[j] \notin {k}}) = i
  <2> TAKE i \in 1..(n - 1)
  <2>1. {j \in 1..i : c[j] \notin {k}} = 1..i /\ i \in Nat /\ c[i] # k
    BY <1>1
  <2>2. Cardinality(1..i) = i
    BY <2>1, FS_Interval
  <2>3. QED
    BY <2>1, <2>2
<1>4. keep \cap DOMAIN c \subseteq (IF n > options.limit THEN 2 ELSE 1)..n
  BY <1>1, <1>3
<1>5. CASE n <= options.limit
  <2>1. IsFiniteSet(1..n) /\ Cardinality(1..n) = n
    BY <1>1, IntervalUpTo
  <2>2. keep \cap DOMAIN c \subseteq 1..n
    BY <1>4, <1>5, <1>1
  <2> HIDE DEF keep, n
  <2>3. Cardinality(keep \cap DOMAIN c) <= n /\ Cardinality(keep \cap DOMAIN c) \in Nat
    BY <2>1, <2>2, FS_Subset, FS_CardinalityType
  <2>4. QED
    BY <1>1, <1>2, <1>5, <2>3 DEF c
<1>6. CASE n > options.limit
  <2> HIDE DEF keep, n
  <2>1. IsFiniteSet(2..n) /\ Cardinality(2..n) = n - 1
    <3>1. 2 \in Int /\ n \in Int
      BY <1>1
    <3>2. IsFiniteSet(2..n) /\ Cardinality(2..n) = IF 2 > n THEN 0 ELSE n - 2 + 1
      BY <3>1, FS_Interval
    <3>3. QED
      BY <1>1, <1>6, <3>2
  <2>2. keep \cap DOMAIN c \subseteq 2..n
    BY <1>4, <1>6
  <2>3. Cardinality(keep \cap DOMAIN c) <= n - 1 /\ Cardinality(keep \cap DOMAIN c) \in Nat
    BY <2>1, <2>2, FS_Subset, FS_CardinalityType
  <2>4. QED
    BY <1>1, <1>2, <1>6, <2>3 DEF c
<1>7. QED
  BY <1>1, <1>5, <1>6
-----------------------------------------------------------------------------
\* Every execution has a context key.
LEMMA KeysOfExecutions ==
    ASSUME Typed, NEW x \in Executions
    PROVE  KeyOf(x) \in Keys
  BY ExecutorAssumption DEF Typed, Keys, KeyOf

\* The executions that hold a key can be counted.
LEMMA HoldersAreFinite ==
    ASSUME NEW k
    PROVE  IsFiniteSet(Holders(k)) /\ Cardinality(Holders(k)) \in Nat
<1>1. Holders(k) \subseteq Executions
  BY DEF Holders
<1>2. QED
  BY <1>1, ExecutorAssumption, FS_Subset, FS_CardinalityType

\* A step that takes and leaves no lock keeps what is known of them.
LEMMA SameLocks ==
    ASSUME ExecutorInv, exec' \in [Executions -> Execution],
           \A x \in Executions : exec'[x].lock = exec[x].lock,
           \A x \in Executions : exec'[x].pc = "creating" =>
               \/ exec[x].pc = "creating"
               \/ \A y \in Executions : exec'[y].pc = "creating" /\ exec[y].lock = exec[x].lock => y = x,
           UNCHANGED <<options, keyLock, users>>
    PROVE  Locks' /\ Counted'
<1>1. Locks'
  BY DEF ExecutorInv, Locks, KeyOf
<1>2. \A k \in Keys : Holders(k)' = Holders(k)
  BY DEF Holders, KeyOf
<1>3. Counted'
  BY <1>2 DEF ExecutorInv, Counted, Holders
<1>4. QED
  BY <1>1, <1>3

\* The buffers are opened.
LEMMA BindKeeps ==
    ASSUME ExecutorInv, NEW x \in Executions, Bind(x)
    PROVE  ExecutorInv'
<1> USE DEF Bind
<1>1. exec' \in [Executions -> Execution]
  <2>1. "bound" \in PCs /\ {"cpu", "ipc"} \in Buffers
    BY DEF PCs, Buffers
  <2>2. QED
    BY <2>1 DEF ExecutorInv, Typed, Execution
<1>2. Typed'
  BY <1>1 DEF ExecutorInv, Typed
<1>3. Sides'
  BY DEF ExecutorInv, Sides, Typed, Execution, DirectPCs, Holding
<1>4. Locks' /\ Counted'
  <2>1. \A y \in Executions : exec'[y].lock = exec[y].lock /\ (exec'[y].pc = "creating" => exec[y].pc = "creating")
    BY DEF ExecutorInv, Typed, Execution
  <2>2. QED
    BY <1>1, <2>1, SameLocks
<1>5. Bounded'
  BY DEF ExecutorInv, Bounded, UnderWay, Holding, Typed, Execution
<1>6. QED
  BY <1>2, <1>3, <1>4, <1>5 DEF ExecutorInv

\* They are not, or not all.
LEMMA BindFailsKeeps ==
    ASSUME ExecutorInv, NEW x \in Executions, BindFails(x)
    PROVE  ExecutorInv'
<1> USE DEF BindFails
<1>1. exec' \in [Executions -> Execution]
  <2>1. "done" \in PCs
    BY DEF PCs, DirectPCs
  <2>2. PICK stuck \in Buffers :
            exec' = [exec EXCEPT ![x].pc = "done", ![x].open = stuck, ![x].stuck = stuck]
    BY DEF MayRaise, Buffers
  <2>3. exec'[x] \in Execution
    BY <2>1, <2>2 DEF ExecutorInv, Typed, Execution
  <2>4. QED
    BY <2>2, <2>3 DEF ExecutorInv, Typed
<1>2. Typed'
  BY <1>1 DEF ExecutorInv, Typed
<1>3. Sides'
  BY DEF ExecutorInv, Sides, Typed, Execution, DirectPCs, Holding, MayRaise
<1>4. Locks' /\ Counted'
  <2>1. \A y \in Executions : exec'[y].lock = exec[y].lock /\ (exec'[y].pc = "creating" => exec[y].pc = "creating")
    BY DEF ExecutorInv, Typed, Execution, MayRaise
  <2>2. QED
    BY <1>1, <2>1, SameLocks
<1>5. Bounded'
  BY DEF ExecutorInv, Bounded, UnderWay, Holding, Typed, Execution, MayRaise
<1>6. QED
  BY <1>2, <1>3, <1>4, <1>5 DEF ExecutorInv

\* They are closed.
LEMMA UnbindKeeps ==
    ASSUME ExecutorInv, NEW x \in Executions, Unbind(x)
    PROVE  ExecutorInv'
<1> USE DEF Unbind
<1>1. exec' \in [Executions -> Execution]
  <2>1. "done" \in PCs
    BY DEF PCs, DirectPCs
  <2>2. PICK raised \in Buffers, stuck \in Buffers :
            exec' = [exec EXCEPT ![x].pc = "done", ![x].open = stuck, ![x].stuck = raised]
    BY DEF MayRaise, Buffers
  <2>3. exec'[x] \in Execution
    BY <2>1, <2>2 DEF ExecutorInv, Typed, Execution
  <2>4. QED
    BY <2>2, <2>3 DEF ExecutorInv, Typed
<1>2. Typed'
  BY <1>1 DEF ExecutorInv, Typed
<1>3. Sides'
  BY DEF ExecutorInv, Sides, Typed, Execution, DirectPCs, Holding, MayRaise
<1>4. Locks' /\ Counted'
  <2>1. \A y \in Executions : exec'[y].lock = exec[y].lock /\ (exec'[y].pc = "creating" => exec[y].pc = "creating")
    BY DEF ExecutorInv, Typed, Execution, MayRaise
  <2>2. QED
    BY <1>1, <2>1, SameLocks
<1>5. Bounded'
  BY DEF ExecutorInv, Bounded, UnderWay, Holding, Typed, Execution, MayRaise
<1>6. QED
  BY <1>2, <1>3, <1>4, <1>5 DEF ExecutorInv

\* The request is refused.
LEMMA PrepareFailsKeeps ==
    ASSUME ExecutorInv, NEW x \in Executions, PrepareFails(x)
    PROVE  ExecutorInv'
<1> USE DEF PrepareFails, Goto
<1>1. exec' \in [Executions -> Execution]
  <2>1. "failing" \in PCs
    BY DEF PCs, DirectPCs, Holding
  <2>2. QED
    BY <2>1 DEF ExecutorInv, Typed, Execution
<1>2. Typed'
  BY <1>1 DEF ExecutorInv, Typed
<1>3. Sides'
  BY DEF ExecutorInv, Sides, Typed, Execution, DirectPCs, Holding
<1>4. Locks' /\ Counted'
  <2>1. \A y \in Executions : exec'[y].lock = exec[y].lock /\ (exec'[y].pc = "creating" => exec[y].pc = "creating")
    BY DEF ExecutorInv, Typed, Execution
  <2>2. QED
    BY <1>1, <2>1, SameLocks
<1>5. Bounded'
  BY DEF ExecutorInv, Bounded, UnderWay, Holding, Typed, Execution
<1>6. QED
  BY <1>2, <1>3, <1>4, <1>5 DEF ExecutorInv

\* The creation raises.
LEMMA CreateFailsKeeps ==
    ASSUME ExecutorInv, NEW x \in Executions, CreateFails(x)
    PROVE  ExecutorInv'
<1> USE DEF CreateFails, Goto
<1>1. exec' \in [Executions -> Execution]
  <2>1. "leavingEmpty" \in PCs
    BY DEF PCs, DirectPCs, Holding
  <2>2. QED
    BY <2>1 DEF ExecutorInv, Typed, Execution
<1>2. Typed'
  BY <1>1 DEF ExecutorInv, Typed
<1>3. Sides'
  BY DEF ExecutorInv, Sides, Typed, Execution, DirectPCs, Holding
<1>4. Locks' /\ Counted'
  <2>1. \A y \in Executions : exec'[y].lock = exec[y].lock /\ (exec'[y].pc = "creating" => exec[y].pc = "creating")
    BY DEF ExecutorInv, Typed, Execution
  <2>2. QED
    BY <1>1, <2>1, SameLocks
<1>5. Bounded'
  BY DEF ExecutorInv, Bounded, UnderWay, Holding, Typed, Execution
<1>6. QED
  BY <1>2, <1>3, <1>4, <1>5 DEF ExecutorInv

\* The copy is submitted, or not.
LEMMA SubmitNativeKeeps ==
    ASSUME ExecutorInv, NEW x \in Executions, SubmitNative(x)
    PROVE  ExecutorInv'
<1>1. PICK pc \in {"done", "submitted", "failing"} :
          exec' = [exec EXCEPT ![x].pc = pc] /\ (pc = "done" <=> options.side = "direct")
  BY DEF SubmitNative, Goto, ExecutorInv, Typed
<1>2. exec[x].pc = "ready" /\ UNCHANGED <<options, cache, keyLock, users, inflight>>
  BY DEF SubmitNative
<1>3. exec' \in [Executions -> Execution]
  <2>1. pc \in PCs
    BY DEF PCs, DirectPCs
  <2>2. QED
    BY <1>1, <2>1 DEF ExecutorInv, Typed, Execution
<1>4. Typed'
  BY <1>2, <1>3 DEF ExecutorInv, Typed
<1>5. Sides'
  BY <1>1, <1>2 DEF ExecutorInv, Sides, Typed, Execution, DirectPCs, Holding
<1>6. Locks' /\ Counted'
  <2>1. \A y \in Executions :
            exec'[y].lock = exec[y].lock /\ (exec'[y].pc = "creating" => exec[y].pc = "creating")
    BY <1>1 DEF ExecutorInv, Typed, Execution
  <2>2. QED
    BY <1>2, <1>3, <2>1, SameLocks
<1>7. Bounded'
  BY <1>1, <1>2 DEF ExecutorInv, Bounded, UnderWay, Holding, Typed, Execution
<1>8. QED
  BY <1>4, <1>5, <1>6, <1>7 DEF ExecutorInv

\* Its handle is in the table.
LEMMA RegisterKeeps ==
    ASSUME ExecutorInv, NEW x \in Executions, Register(x)
    PROVE  ExecutorInv'
<1> USE DEF Register, Goto
<1>1. exec' \in [Executions -> Execution]
  <2>1. "copying" \in PCs
    BY DEF PCs, DirectPCs, Holding
  <2>2. QED
    BY <2>1 DEF ExecutorInv, Typed, Execution
<1>2. Typed'
  BY <1>1 DEF ExecutorInv, Typed
<1>3. Sides'
  BY DEF ExecutorInv, Sides, Typed, Execution, DirectPCs, Holding
<1>4. Locks' /\ Counted'
  <2>1. \A y \in Executions : exec'[y].lock = exec[y].lock /\ (exec'[y].pc = "creating" => exec[y].pc = "creating")
    BY DEF ExecutorInv, Typed, Execution
  <2>2. QED
    BY <1>1, <2>1, SameLocks
<1>5. Bounded'
  BY DEF ExecutorInv, Bounded, UnderWay, Holding, Typed, Execution
<1>6. QED
  BY <1>2, <1>3, <1>4, <1>5 DEF ExecutorInv

\* A hit, or a share in the lock of the key.
LEMMA LookUpKeeps ==
    ASSUME ExecutorInv, NEW x \in Executions, LookUp(x)
    PROVE  ExecutorInv'
<1> DEFINE k == KeyOf(x)
           lock == IF keyLock[k] = NoLock THEN x ELSE keyLock[k]
<1>1. /\ exec[x].pc = IF options.side = "worker" THEN "bound" ELSE "idle"
      /\ ~options.closed /\ UNCHANGED <<options, inflight>> /\ exec[x].lock = NoLock
      /\ k \in Keys
  BY KeysOfExecutions DEF LookUp, ExecutorInv, Sides, Holding
<1>2. CASE Cached(k) /\ cache' = Touched(k) /\ Goto(x, "ready") /\ UNCHANGED <<keyLock, users>>
  <2>1. exec' \in [Executions -> Execution]
    <3>1. "ready" \in PCs
      BY DEF PCs, DirectPCs
    <3>2. QED
      BY <1>2, <3>1 DEF Goto, ExecutorInv, Typed, Execution
  <2>2. /\ cache' \in Seq(Keys) /\ Distinct(cache') /\ Len(cache') = Len(cache)
    BY <1>1, <1>2, TouchedFacts DEF ExecutorInv, Typed, Bounded
  <2>3. Typed'
    BY <1>1, <1>2, <2>1, <2>2 DEF ExecutorInv, Typed
  <2>4. Sides'
    BY <1>1, <1>2 DEF Goto, ExecutorInv, Sides, Typed, Execution, DirectPCs, Holding
  <2>5. Locks' /\ Counted'
    <3>1. \A y \in Executions :
              exec'[y].lock = exec[y].lock /\ (exec'[y].pc = "creating" => exec[y].pc = "creating")
      BY <1>2 DEF Goto, ExecutorInv, Typed, Execution
    <3>2. QED
      BY <1>1, <1>2, <2>1, <3>1, SameLocks
  <2>6. Bounded'
    BY <1>1, <1>2, <2>2 DEF Goto, ExecutorInv, Bounded, UnderWay, Holding, Typed, Execution
  <2>7. QED
    BY <2>3, <2>4, <2>5, <2>6 DEF ExecutorInv
<1>3. CASE /\ keyLock' = [keyLock EXCEPT ![k] = lock]
           /\ exec' = [exec EXCEPT ![x].pc = "waiting", ![x].lock = lock]
           /\ users' = [users EXCEPT ![k] = @ + 1]
           /\ UNCHANGED cache
  <2>1. lock \in Executions /\ lock # NoLock
    BY <1>1, ExecutorAssumption DEF ExecutorInv, Typed
  <2> HIDE DEF lock
  <2>2. exec' \in [Executions -> Execution]
    <3>1. "waiting" \in PCs
      BY DEF PCs, DirectPCs, Holding
    <3>2. QED
      BY <1>3, <2>1, <3>1 DEF ExecutorInv, Typed, Execution
  <2>3. Typed'
    BY <1>1, <1>3, <2>1, <2>2 DEF ExecutorInv, Typed
  <2>4. Sides'
    BY <1>1, <1>3, <2>1 DEF ExecutorInv, Sides, Typed, Execution, DirectPCs, Holding
  <2>5. /\ exec'[x].lock = lock /\ exec'[x].pc = "waiting"
        /\ \A y \in Executions : y # x => exec'[y] = exec[y]
    BY <1>3 DEF ExecutorInv, Typed, Execution
  <2>6. \A y \in Holders(k) : exec[y].lock = lock
    <3>1. ASSUME NEW y \in Holders(k), keyLock[k] = NoLock
          PROVE  FALSE
      BY <1>1, <3>1, ExecutorAssumption DEF ExecutorInv, Counted, Holders
    <3>2. QED
      BY <1>1, <3>1 DEF lock, ExecutorInv, Counted
  <2>7. Locks'
    BY <1>1, <2>5, <2>6 DEF ExecutorInv, Locks, Holders, KeyOf
  <2>8. Holders(k)' = Holders(k) \cup {x} /\ x \notin Holders(k)
    BY <1>1, <2>1, <2>5 DEF Holders, KeyOf
  <2>9. \A l \in Keys : l # k => Holders(l)' = Holders(l)
    BY <1>1, <2>5 DEF Holders, KeyOf
  <2>10. Cardinality(Holders(k)') = Cardinality(Holders(k)) + 1
    BY <2>8, HoldersAreFinite, FS_AddElement
  <2>11. Counted'
    <3> SUFFICES ASSUME NEW l \in Keys
                 PROVE  /\ users'[l] = Cardinality(Holders(l)')
                        /\ keyLock'[l] = NoLock <=> users'[l] = 0
                        /\ \A y \in Holders(l)' : exec'[y].lock = keyLock'[l]
      BY <1>1 DEF Counted
    <3>1. CASE l = k
      <4>1. users[k] = Cardinality(Holders(k)) /\ users[k] \in Nat
        BY <1>1 DEF ExecutorInv, Typed, Counted
      <4>2. keyLock'[k] = lock /\ users'[k] = users[k] + 1
        BY <1>1, <1>3 DEF ExecutorInv, Typed
      <4>3. users'[k] = Cardinality(Holders(k)') /\ users'[k] # 0
        BY <2>10, <4>1, <4>2
      <4>4. \A y \in Holders(k)' : exec'[y].lock = lock
        <5>1. \A y \in Holders(k) : y \in Executions
          BY DEF Holders
        <5>2. QED
          BY <2>5, <2>6, <2>8, <5>1
      <4>5. Holders(l)' = Holders(k)'
        BY <1>1, <3>1 DEF Holders, KeyOf
      <4>6. QED
        BY <2>1, <3>1, <4>2, <4>3, <4>4, <4>5
    <3>2. CASE l # k
      <4>1. keyLock'[l] = keyLock[l] /\ users'[l] = users[l]
        BY <1>1, <1>3, <3>2 DEF ExecutorInv, Typed
      <4>2. x \notin Holders(l)
        BY <1>1 DEF Holders
      <4>3. \A y \in Holders(l)' : exec'[y].lock = exec[y].lock
        <5>1. \A y \in Holders(l) : y \in Executions
          BY DEF Holders
        <5>2. QED
          BY <2>5, <2>9, <3>2, <4>2, <5>1
      <4>4. QED
        BY <1>1, <2>9, <3>2, <4>1, <4>3 DEF ExecutorInv, Counted
    <3>3. QED
      BY <3>1, <3>2
  <2>12. Bounded'
    BY <1>1, <1>3, <2>5 DEF ExecutorInv, Bounded, UnderWay, Holding
  <2>13. QED
    BY <2>3, <2>4, <2>7, <2>11, <2>12 DEF ExecutorInv
<1>4. QED
  BY <1>2, <1>3 DEF LookUp

\* The lock of the key is taken.
LEMMA EnterKeeps ==
    ASSUME ExecutorInv, NEW x \in Executions, Enter(x)
    PROVE  ExecutorInv'
<1>1. PICK pc \in {"leaving", "creating"} : Goto(x, pc)
  BY DEF Enter
<1>2. /\ exec[x].pc = "waiting" /\ KeyOf(x) \in Keys
      /\ \A y \in Executions : exec[y].lock = exec[x].lock => exec[y].pc # "creating"
      /\ UNCHANGED <<options, keyLock, users, inflight>>
  BY KeysOfExecutions DEF Enter, ExecutorInv
<1>3. /\ cache' \in Seq(Keys) /\ Distinct(cache') /\ Len(cache') = Len(cache)
  <2>1. cache \in Seq(Keys) /\ Distinct(cache)
    BY DEF ExecutorInv, Typed, Bounded
  <2>2. CASE Cached(KeyOf(x)) /\ cache' = Touched(KeyOf(x))
    BY <1>2, <2>1, <2>2, TouchedFacts
  <2>3. QED
    BY <2>1, <2>2 DEF Enter
<1>4. exec' \in [Executions -> Execution]
  <2>1. pc \in PCs
    BY DEF PCs, DirectPCs, Holding
  <2>2. QED
    BY <1>1, <2>1 DEF Goto, ExecutorInv, Typed, Execution
<1>5. Typed'
  BY <1>2, <1>3, <1>4 DEF ExecutorInv, Typed
<1>6. Sides'
  BY <1>1, <1>2 DEF Goto, ExecutorInv, Sides, Typed, Execution, DirectPCs, Holding
<1>7. Locks' /\ Counted'
  <2>1. /\ \A y \in Executions : exec'[y].lock = exec[y].lock
        /\ \A y \in Executions : y # x => exec'[y].pc = exec[y].pc
    BY <1>1 DEF Goto, ExecutorInv, Typed, Execution
  <2>2. QED
    BY <1>2, <1>4, <2>1, SameLocks
<1>8. Bounded'
  BY <1>1, <1>2, <1>3 DEF Goto, ExecutorInv, Bounded, UnderWay, Holding, Typed, Execution
<1>9. QED
  BY <1>5, <1>6, <1>7, <1>8 DEF ExecutorInv

\* A runtime is installed, and others are given up for it.
LEMMA InstallKeeps ==
    ASSUME ExecutorInv, NEW x \in Executions, Install(x)
    PROVE  ExecutorInv'
<1> DEFINE k == KeyOf(x)
           active == {k} \cup {KeyOf(y) : y \in inflight}
<1>1. /\ exec[x].pc = "creating" /\ Goto(x, "leaving")
      /\ UNCHANGED <<options, keyLock, users, inflight>>
      /\ k \in Keys /\ cache \in Seq(Keys) /\ Distinct(cache) /\ options.limit \in Int
  BY KeysOfExecutions, ExecutorAssumption DEF Install, ExecutorInv, Typed, Bounded
<1>2. exec' \in [Executions -> Execution]
  <2>1. "leaving" \in PCs
    BY DEF PCs, DirectPCs, Holding
  <2>2. QED
    BY <1>1, <2>1 DEF Goto, ExecutorInv, Typed, Execution
<1>3. /\ cache' \in Seq(Keys) /\ Distinct(cache')
      /\ options.side = "direct" => options.limit < 0 \/ Len(cache') <= options.limit
  <2>1. CASE options.limit = 0 /\ cache' = cache
    BY <1>1, <2>1 DEF ExecutorInv, Bounded
  <2>2. CASE options.limit # 0 /\ Cached(k) /\ cache' = Touched(k)
    BY <1>1, <2>2, TouchedFacts DEF ExecutorInv, Bounded
  <2>3. CASE options.limit # 0 /\ ~Cached(k) /\ cache' = Trimmed(Append(cache, k), active)
    <3>1. Append(cache, k) \in Seq(Keys) /\ Distinct(Append(cache, k))
      <4> HIDE DEF k
      <4>1. QED
        BY <1>1, <2>3 DEF Cached, ToSet, Distinct
    <3>2. ASSUME options.side = "direct", ~(options.limit < 0)
          PROVE  Len(cache') <= options.limit
      <4>1. active = {k}
        BY <3>2 DEF ExecutorInv, Sides, DirectPCs, Holding
      <4>2. k \notin ToSet(cache) /\ options.limit \in Nat /\ Len(cache) <= options.limit
        BY <1>1, <2>3, <3>2 DEF Cached, ExecutorInv, Bounded
      <4> HIDE DEF k, active
      <4>3. QED
        BY <1>1, <2>3, <4>1, <4>2, TrimmedOne
    <3> HIDE DEF k, active
    <3>3. cache' \in Seq(Keys) /\ Distinct(cache')
      BY <2>3, <3>1, TrimmedFacts
    <3>4. QED
      BY <3>2, <3>3
  <2>4. QED
    BY <2>1, <2>2, <2>3 DEF Install
<1>4. Typed'
  BY <1>1, <1>2, <1>3 DEF ExecutorInv, Typed
<1>5. Sides'
  BY <1>1 DEF Goto, ExecutorInv, Sides, Typed, Execution, DirectPCs, Holding
<1>6. Locks' /\ Counted'
  <2>1. \A y \in Executions :
            exec'[y].lock = exec[y].lock /\ (exec'[y].pc = "creating" => exec[y].pc = "creating")
    BY <1>1 DEF Goto, ExecutorInv, Typed, Execution
  <2>2. QED
    BY <1>1, <1>2, <2>1, SameLocks
<1>7. Bounded'
  <2>1. exec'[x].pc \in UnderWay
    BY <1>1 DEF Goto, UnderWay, Holding, ExecutorInv, Typed, Execution
  <2>2. options.side = "direct" \/ options.side = "worker"
    BY DEF ExecutorInv, Typed
  <2>3. QED
    BY <1>1, <1>3, <2>1, <2>2 DEF Bounded
<1>8. QED
  BY <1>4, <1>5, <1>6, <1>7 DEF ExecutorInv

\* The last that holds a lock takes it out of the table.
LEMMA LeaveKeeps ==
    ASSUME ExecutorInv, NEW x \in Executions, Leave(x)
    PROVE  ExecutorInv'
<1> DEFINE k == KeyOf(x)
<1>1. PICK pc \in {"ready", "failing", "done"} :
          /\ exec' = [exec EXCEPT ![x].lock = NoLock, ![x].pc = pc]
          /\ pc = "failing" => options.side = "worker"
          /\ pc = "done" => options.side = "direct"
  BY DEF Leave, ExecutorInv, Typed
<1>2. /\ exec[x].pc \in Leaving /\ exec[x].lock # NoLock /\ k \in Keys
      /\ UNCHANGED <<options, cache, inflight>>
  BY KeysOfExecutions DEF Leave, Leaving, Holding, ExecutorInv, Sides
<1>3. /\ exec'[x].lock = NoLock /\ exec'[x].pc = pc /\ exec'[x].open = exec[x].open
      /\ exec'[x].stuck = exec[x].stuck
      /\ \A y \in Executions : y # x => exec'[y] = exec[y]
  BY <1>1 DEF ExecutorInv, Typed, Execution
<1>4. /\ IF users[k] > 1
         THEN users' = [users EXCEPT ![k] = users[k] - 1] /\ UNCHANGED keyLock
         ELSE users' = [users EXCEPT ![k] = 0] /\ keyLock' = [keyLock EXCEPT ![k] = NoLock]
  BY DEF Leave
<1>5. exec' \in [Executions -> Execution]
  <2>1. pc \in PCs
    BY DEF PCs, DirectPCs, Holding
  <2>2. QED
    BY <1>1, <2>1 DEF ExecutorInv, Typed, Execution
<1>6. Typed'
  <2>1. users' \in [Keys -> Nat]
    BY <1>2, <1>4 DEF ExecutorInv, Typed
  <2>2. keyLock' \in [Keys -> Executions \cup {NoLock}]
    BY <1>2, <1>4 DEF ExecutorInv, Typed
  <2>3. QED
    BY <1>2, <1>5, <2>1, <2>2 DEF ExecutorInv, Typed
<1>7. Sides'
  BY <1>1, <1>2, <1>3 DEF ExecutorInv, Sides, DirectPCs, Holding, Leaving
<1>8. Locks'
  BY <1>2, <1>3 DEF ExecutorInv, Locks, KeyOf
<1>9. Holders(k)' = Holders(k) \ {x} /\ x \in Holders(k)
  BY <1>2, <1>3 DEF Holders, KeyOf
<1>10. \A l \in Keys : l # k => Holders(l)' = Holders(l) /\ x \notin Holders(l)
  BY <1>2, <1>3 DEF Holders, KeyOf
<1>11. Cardinality(Holders(k)') = Cardinality(Holders(k)) - 1
  BY <1>9, HoldersAreFinite, FS_RemoveElement
<1>12. Counted'
  <2> SUFFICES ASSUME NEW l \in Keys
               PROVE  IF options.closed THEN keyLock'[l] = NoLock /\ users'[l] = 0
                      ELSE /\ users'[l] = Cardinality(Holders(l)')
                           /\ keyLock'[l] = NoLock <=> users'[l] = 0
                           /\ \A y \in Holders(l)' : exec'[y].lock = keyLock'[l]
    BY <1>2 DEF Counted
  <2>1. \A y \in Holders(l)' : y \in Holders(l) /\ exec'[y] = exec[y]
    <3>1. \A y \in Holders(l) : y \in Executions
      BY DEF Holders
    <3>2. l = k => Holders(l)' = Holders(k)'
      BY <1>2 DEF Holders, KeyOf
    <3>3. QED
      BY <1>3, <1>9, <1>10, <3>1, <3>2
  <2>2. CASE l # k
    <3>1. keyLock'[l] = keyLock[l] /\ users'[l] = users[l]
      BY <1>2, <1>4, <2>2 DEF ExecutorInv, Typed
    <3>2. QED
      BY <1>10, <2>1, <2>2, <3>1 DEF ExecutorInv, Counted
  <2>3. CASE l = k /\ options.closed
    BY <1>4, <2>3 DEF ExecutorInv, Typed, Counted
  <2>4. CASE l = k /\ ~options.closed
    <3>0. Holders(l)' = Holders(k)'
      BY <1>2, <2>4 DEF Holders, KeyOf
    <3>1. users[k] = Cardinality(Holders(k)) /\ users[k] \in Nat /\ users[k] # 0
      <4>1. keyLock[k] # NoLock
        BY <1>2, <1>9, <2>4 DEF ExecutorInv, Counted
      <4>2. QED
        BY <1>2, <2>4, <4>1 DEF ExecutorInv, Typed, Counted
    <3>2. CASE users[k] > 1
      <4>1. users'[k] = users[k] - 1 /\ keyLock'[k] = keyLock[k]
        BY <1>2, <1>4, <3>2 DEF ExecutorInv, Typed
      <4>2. QED
        BY <1>2, <1>11, <2>1, <2>4, <3>0, <3>1, <3>2, <4>1 DEF ExecutorInv, Counted
    <3>3. CASE users[k] = 1
      <4>1. users'[k] = 0 /\ keyLock'[k] = NoLock
        BY <1>2, <1>4, <3>3 DEF ExecutorInv, Typed
      <4>2. IsFiniteSet(Holders(k)) /\ Holders(k) = {x}
        <5>1. IsFiniteSet(Holders(k) \ {x}) /\ Cardinality(Holders(k) \ {x}) = 0
          BY <1>9, <1>11, <3>1, <3>3, HoldersAreFinite, FS_RemoveElement
        <5>2. Holders(k) \ {x} = {}
          BY <5>1, FS_EmptySet
        <5>3. QED
          BY <1>9, <5>2, HoldersAreFinite
      <4>3. Holders(k)' = {} /\ Cardinality(Holders(k)') = 0
        BY <1>9, <4>2, FS_EmptySet
      <4>4. QED
        BY <2>4, <3>0, <4>1, <4>3
    <3>4. QED
      BY <3>1, <3>2, <3>3
  <2>5. QED
    BY <2>2, <2>3, <2>4
<1>13. Bounded'
  BY <1>1, <1>2, <1>3 DEF ExecutorInv, Bounded, UnderWay, Holding, Leaving
<1>14. QED
  BY <1>6, <1>7, <1>8, <1>12, <1>13 DEF ExecutorInv

\* The handle is taken out, and what is too much is given up.
LEMMA FinalizeKeeps ==
    ASSUME ExecutorInv, NEW x \in Executions, Finalize(x)
    PROVE  ExecutorInv'
<1> DEFINE active == {KeyOf(y) : y \in inflight'}
<1>1. /\ exec[x].pc \in {"copying", "failing"} /\ Goto(x, "finished")
      /\ inflight' = inflight \ {x} /\ cache' = Trimmed(cache, active)
      /\ UNCHANGED <<options, keyLock, users>>
      /\ cache \in Seq(Keys) /\ Distinct(cache) /\ options.limit \in Int
      /\ options.side = "worker"
  BY ExecutorAssumption DEF Finalize, ExecutorInv, Typed, Bounded, Sides, DirectPCs, Holding
<1>2. exec' \in [Executions -> Execution]
  <2>1. "finished" \in PCs
    BY DEF PCs
  <2>2. QED
    BY <1>1, <2>1 DEF Goto, ExecutorInv, Typed, Execution
<1>3. cache' \in Seq(Keys) /\ Distinct(cache')
  <2> HIDE DEF active
  <2>1. QED
    BY <1>1, TrimmedFacts
<1>4. Typed'
  BY <1>1, <1>2, <1>3 DEF ExecutorInv, Typed
<1>5. Sides'
  BY <1>1 DEF Goto, ExecutorInv, Sides, Typed, Execution, DirectPCs, Holding
<1>6. Locks' /\ Counted'
  <2>1. \A y \in Executions :
            exec'[y].lock = exec[y].lock /\ (exec'[y].pc = "creating" => exec[y].pc = "creating")
    BY <1>1 DEF Goto, ExecutorInv, Typed, Execution
  <2>2. QED
    BY <1>1, <1>2, <2>1, SameLocks
<1>7. Bounded'
  <2>1. CASE \E y \in Executions : exec'[y].pc \in UnderWay
    BY <1>1, <1>3, <2>1 DEF Bounded
  <2>2. CASE options.limit < 0
    BY <1>1, <1>3, <2>2 DEF Bounded
  <2>3. CASE ~ (\E y \in Executions : exec'[y].pc \in UnderWay) /\ ~ (options.limit < 0)
    <3>1. active = {}
      BY <1>5, <2>3 DEF Sides, UnderWay
    <3>2. options.limit \in Nat
      BY <1>1, <2>3
    <3>3. Len(cache') <= options.limit
      BY <1>1, <3>1, <3>2, TrimmedIdle
    <3>4. QED
      BY <1>1, <1>3, <3>3 DEF Bounded
  <2>4. QED
    BY <2>1, <2>2, <2>3
<1>8. QED
  BY <1>4, <1>5, <1>6, <1>7 DEF ExecutorInv

\* The client closes its cache.
LEMMA CloseDirectKeeps ==
    ASSUME ExecutorInv, CloseDirect
    PROVE  ExecutorInv'
<1> USE DEF CloseDirect
<1>1. /\ options'.closed = TRUE /\ options'.side = "direct" /\ options'.limit = options.limit
      /\ options'.key = options.key
      /\ options' \in [side : {"worker", "direct"}, limit : CacheLimits, key : KeyMaps,
                       closed : BOOLEAN]
  BY DEF ExecutorInv, Typed
<1>2. Typed'
  BY <1>1 DEF ExecutorInv, Typed
<1>3. Sides'
  BY <1>1 DEF ExecutorInv, Sides
<1>4. Locks'
  BY <1>1 DEF ExecutorInv, Locks, KeyOf
<1>5. Counted'
  BY <1>1 DEF Counted
<1>6. Bounded'
  <2>1. Len(cache') = 0 /\ Distinct(cache') /\ options.limit \in Int
    BY ExecutorAssumption DEF Distinct, ExecutorInv, Typed
  <2>2. QED
    BY <1>1, <2>1 DEF Bounded
<1>7. QED
  BY <1>2, <1>3, <1>4, <1>5, <1>6 DEF ExecutorInv

\* An executor without contexts satisfies the invariant.
LEMMA ExecutorInit ==
    ASSUME Init
    PROVE  ExecutorInv
<1> USE DEF Init
<1>1. Typed
  <2>1. "idle" \in PCs /\ {} \in Buffers
    BY DEF PCs, DirectPCs, Buffers
  <2>2. exec \in [Executions -> Execution]
    BY <2>1 DEF Execution
  <2>3. options \in [side : {"worker", "direct"}, limit : CacheLimits, key : KeyMaps,
                     closed : BOOLEAN]
    OBVIOUS
  <2>4. cache \in Seq(Keys)
    OBVIOUS
  <2>5. keyLock \in [Keys -> Executions \cup {NoLock}] /\ users \in [Keys -> Nat]
    OBVIOUS
  <2>6. QED
    BY <2>2, <2>3, <2>4, <2>5 DEF Typed
<1>2. Sides
  BY DEF Sides, DirectPCs, Holding
<1>3. Locks
  BY DEF Locks
<1>4. Counted
  <2>1. \A k \in Keys : Holders(k) = {}
    BY DEF Holders
  <2>2. Cardinality({}) = 0
    BY FS_EmptySet
  <2>3. QED
    BY <2>1, <2>2 DEF Counted
<1>5. Bounded
  <2>1. Len(cache) = 0 /\ Distinct(cache) /\ options.limit \in Int
    BY ExecutorAssumption DEF Distinct
  <2>2. QED
    BY <2>1 DEF Bounded
<1>6. QED
  BY <1>1, <1>2, <1>3, <1>4, <1>5 DEF ExecutorInv

\* Every step of the executions keeps the invariant.
LEMMA ExecutorStep ==
    ASSUME ExecutorInv, [Next]_vars
    PROVE  ExecutorInv'
<1>1. CASE UNCHANGED vars
  <2>1. \A k \in Keys : Holders(k)' = Holders(k)
    BY <1>1 DEF vars, Holders, KeyOf
  <2>2. Typed' /\ Sides' /\ Locks' /\ Bounded'
    BY <1>1 DEF vars, ExecutorInv, Typed, Sides, Locks, Bounded, KeyOf
  <2>3. Counted'
    BY <1>1, <2>1 DEF vars, ExecutorInv, Counted
  <2>4. QED
    BY <2>2, <2>3 DEF ExecutorInv
<1>2. ASSUME NEW x \in Executions, Step(x)
      PROVE  ExecutorInv'
  BY <1>2, BindKeeps, BindFailsKeeps, PrepareFailsKeeps, LookUpKeeps, EnterKeeps, InstallKeeps,
     CreateFailsKeeps, LeaveKeeps, SubmitNativeKeeps, RegisterKeeps, FinalizeKeeps, UnbindKeeps
     DEF Step
<1>3. QED
  BY <1>1, <1>2, CloseDirectKeeps DEF Next

-----------------------------------------------------------------------------
\* The invariant of the executor holds in every state.
THEOREM ExecutorInvariance == Spec => []ExecutorInv
<1>1. Init => ExecutorInv
  BY ExecutorInit
<1>2. ExecutorInv /\ [Next]_vars => ExecutorInv'
  BY ExecutorStep
<1>3. QED
  BY <1>1, <1>2, PTL DEF Spec

\* Two executions never create a runtime of the same key at a time: all that wait for
\* the key have the same lock object, until the last one drops it (cuda_executor.py:612).
THEOREM CreatorsAreAlone == Spec => []OneCreatorPerKey
<1>1. ExecutorInv => OneCreatorPerKey
  BY DEF ExecutorInv, Sides, Locks, OneCreatorPerKey, Holding
<1>2. QED
  BY <1>1, ExecutorInvariance, PTL

\* Once no execution is under way the cache is within its limit, and no lock, user,
\* handle or buffer is left behind (cuda_executor.py:588, intent_executor.py:229,
\* resources.py:365, :420).
THEOREM ExecutorSettles == Spec => []CachesSettle
<1>1. ExecutorInv => CachesSettle
  <2> SUFFICES ASSUME ExecutorInv, \A x \in Executions : exec[x].pc \in {"idle", "done"}
               PROVE  /\ options.limit < 0 \/ Len(cache) <= options.limit
                      /\ inflight = {}
                      /\ \A k \in Keys : keyLock[k] = NoLock /\ users[k] = 0
                      /\ \A x \in Executions : exec[x].open \subseteq exec[x].stuck
    BY DEF CachesSettle
  <2>1. \A k \in Keys : Holders(k) = {}
    BY DEF ExecutorInv, Sides, Holders, Holding
  <2>2. Cardinality({}) = 0
    BY FS_EmptySet
  <2>3. \A k \in Keys : keyLock[k] = NoLock /\ users[k] = 0
    BY <2>1, <2>2 DEF ExecutorInv, Counted
  <2>4. options.limit < 0 \/ Len(cache) <= options.limit
    BY DEF ExecutorInv, Bounded, UnderWay, Holding
  <2>5. inflight = {} /\ \A x \in Executions : exec[x].open \subseteq exec[x].stuck
    BY DEF ExecutorInv, Sides
  <2>6. QED
    BY <2>3, <2>4, <2>5
<1>2. QED
  BY <1>1, ExecutorInvariance, PTL

\* A runtime that a handle in flight copies with stays in the cache once it was
\* there (cuda_executor.py:628).
THEOREM RuntimesInUseStay == Spec => InUseIsKept
<1> DEFINE Kept == \A x \in inflight : Cached(KeyOf(x)) /\ x \in inflight' =>
                       KeyOf(x) \in ToSet(cache')
<1>1. ASSUME ExecutorInv, [Next]_vars
      PROVE  Kept
  <2>0. cache \in Seq(Keys) /\ Distinct(cache)
    BY <1>1 DEF ExecutorInv, Typed, Bounded
  <2>1. SUFFICES ASSUME NEW x \in inflight, Cached(KeyOf(x)), x \in inflight'
                 PROVE  KeyOf(x) \in ToSet(cache')
    OBVIOUS
  <2>2. KeyOf(x) \in Keys /\ x \in Executions
    BY <1>1, KeysOfExecutions DEF ExecutorInv, Sides
  <2>3. CASE UNCHANGED cache
    BY <2>1, <2>3 DEF Cached
  <2>4. CASE \E k \in Keys : Cached(k) /\ cache' = Touched(k)
    BY <2>0, <2>1, <2>4, TouchedFacts DEF Cached
  <2>5. ASSUME NEW y \in Executions, Install(y), ~Cached(KeyOf(y)),
               cache' = Trimmed(Append(cache, KeyOf(y)), {KeyOf(y)} \cup {KeyOf(z) : z \in inflight})
        PROVE  KeyOf(x) \in ToSet(cache')
    <3> DEFINE k == KeyOf(y)
               active == {k} \cup {KeyOf(z) : z \in inflight}
    <3>1. k \in Keys
      BY <1>1, KeysOfExecutions DEF ExecutorInv
    <3>2. KeyOf(x) \in active
      OBVIOUS
    <3>3. cache' = Trimmed(Append(cache, k), active) /\ ~Cached(k)
      BY <2>5
    <3> HIDE DEF k, active
    <3>4. /\ Append(cache, k) \in Seq(Keys) /\ Distinct(Append(cache, k))
          /\ KeyOf(x) \in ToSet(Append(cache, k))
      BY <2>0, <2>1, <3>1, <3>3 DEF Cached, ToSet, Distinct
    <3>5. QED
      BY <3>2, <3>3, <3>4, TrimmedFacts
  <2>6. ASSUME NEW y \in Executions, Finalize(y)
        PROVE  KeyOf(x) \in ToSet(cache')
    <3> DEFINE active == {KeyOf(z) : z \in inflight'}
    <3>1. cache' = Trimmed(cache, active) /\ KeyOf(x) \in active
      BY <2>1, <2>6 DEF Finalize
    <3> HIDE DEF active
    <3>2. QED
      BY <2>0, <2>1, <3>1, TrimmedFacts DEF Cached
  <2>7. ASSUME CloseDirect
        PROVE  FALSE
    BY <1>1, <2>1, <2>2, <2>7 DEF CloseDirect, ExecutorInv, Sides, DirectPCs, Holding
  <2>8. ASSUME NEW y \in Executions, Step(y)
        PROVE  \/ UNCHANGED cache
               \/ \E k \in Keys : Cached(k) /\ cache' = Touched(k)
               \/ /\ Install(y) /\ ~Cached(KeyOf(y))
                  /\ cache' = Trimmed(Append(cache, KeyOf(y)),
                                      {KeyOf(y)} \cup {KeyOf(z) : z \in inflight})
               \/ Finalize(y)
    <3>1. KeyOf(y) \in Keys
      BY <1>1, KeysOfExecutions DEF ExecutorInv
    <3>2. QED
      BY <2>8, <3>1 DEF Step, Bind, BindFails, PrepareFails, LookUp, Enter, Install, CreateFails,
                       Leave, SubmitNative, Register, Unbind
  <2>9. QED
    BY <1>1, <2>3, <2>4, <2>5, <2>6, <2>7, <2>8 DEF Next, vars
<1>2. QED
  BY <1>1, ExecutorInvariance, PTL DEF Spec, InUseIsKept
====
