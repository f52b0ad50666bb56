----------------------------- MODULE CudaExecutor -----------------------------
(***************************************************************************)
(* How an execution gets the CUDA runtime it copies with                   *)
(* (turbobus/worker/cuda_executor.py, worker/resources.py): it opens its   *)
(* buffers, takes a runtime from a cache or creates one under a lock of    *)
(* its key, copies, and gives everything back.  The direct path of the     *)
(* client has a cache of the same kind (intent_executor.py), without the   *)
(* table of handles in flight and without buffers of its own to open.      *)
(*                                                                         *)
(* A behaviour is about one of the two sides.  The worker's pool never     *)
(* runs a transfer twice at a time (WorkerPool), so an execution stands    *)
(* for its transfer, and the check of a transfer in flight never refuses.  *)
(* What is copied is DataPlane's matter.                                   *)
(***************************************************************************)
EXTENDS Integers, FiniteSets, SequencesExt, Filters

CONSTANTS
    Executions,
    KeyMaps,        \* runtime cache keys that the executions may have
    CacheLimits,    \* worker_runtime_cache_entries, negative for no limit
    NoLock,
    MaxRaised       \* bound: how many executions meet a close that raises

ASSUME ExecutorAssumption ==
    /\ IsFiniteSet(Executions) /\ IsFiniteSet(KeyMaps) /\ (\A f \in KeyMaps : DOMAIN f = Executions)
    /\ CacheLimits \subseteq Int
    /\ NoLock \notin Executions /\ MaxRaised \in Nat

Keys == UNION {{f[x] : x \in Executions} : f \in KeyMaps}

VARIABLES
    options,    \* [side, limit, key, closed]
    cache,      \* the keys of the cached runtimes, the least recent first
    keyLock,    \* the lock object of each key, named by who made it
    users,      \* how many executions have taken that object
    inflight,   \* the handles of the worker
    exec        \* [pc, lock, open, stuck] of each execution

vars == <<options, cache, keyLock, users, inflight, exec>>

\* `open` are the buffers an execution has opened, `stuck` those whose closing
\* raised.
Init ==
    /\ options \in [side: {"worker", "direct"}, limit: CacheLimits, key: KeyMaps,
                    closed: {FALSE}]
    /\ cache = <<>>
    /\ keyLock = [k \in Keys |-> NoLock]
    /\ users = [k \in Keys |-> 0]
    /\ inflight = {}
    /\ exec = [x \in Executions |-> [pc |-> "idle", lock |-> NoLock, open |-> {}, stuck |-> {}]]

\* The sets of opened buffers whose closing may raise now.
MayRaise(opened) ==
    IF Cardinality({x \in Executions : exec[x].stuck # {}}) < MaxRaised
    THEN SUBSET opened ELSE {{}}

KeyOf(x) == options.key[x]
Cached(k) == k \in ToSet(cache)
Touched(k) == Append(Filter(cache, {i \in DOMAIN cache : cache[i] # k}), k)
Goto(x, pc) == exec' = [exec EXCEPT ![x].pc = pc]

\* Mutation of Trimmed: runtimes in use are given up as well.
TrimmedInUse(c, active) ==
    IF options.limit < 0 THEN c
    ELSE Filter(c, {i \in DOMAIN c : i > Len(c) - options.limit})

\* _trim_runtime_cache_locked: the oldest runtimes whose key is not active are
\* given up while there are too many.
Trimmed(c, active) ==
    LET idleUpTo(i) == Cardinality({j \in 1..i : c[j] \notin active})
    IN IF options.limit < 0 THEN c
       ELSE Filter(c, {i \in DOMAIN c : c[i] \in active \/ idleUpTo(i) > Len(c) - options.limit})

-----------------------------------------------------------------------------
\* Buffers (WorkerDataPlaneResourceBinding).

\* __enter__
Bind(x) ==
    /\ options.side = "worker" /\ exec[x].pc = "idle"
    /\ exec' = [exec EXCEPT ![x].pc = "bound", ![x].open = {"cpu", "ipc"}]
    /\ UNCHANGED <<options, cache, keyLock, users, inflight>>

\* One of its calls fails: set device, open the memory, register it, open the IPC
\* handle, validate its span.  What was opened is closed again; a close that
\* raises is noted, and the other one is tried all the same.
BindFails(x) ==
    /\ options.side = "worker" /\ exec[x].pc = "idle"
    /\ \E opened \in {{}, {"cpu"}, {"cpu", "ipc"}} : \E stuck \in MayRaise(opened) :
          exec' = [exec EXCEPT ![x].pc = "done", ![x].open = stuck, ![x].stuck = stuck]
    /\ UNCHANGED <<options, cache, keyLock, users, inflight>>

\* __exit__: the IPC handle is closed also when closing the memory raises; when
\* either raised it is closed once more, which may help.
Unbind(x) ==
    /\ exec[x].pc = "finished"
    /\ \E raised \in MayRaise({"cpu", "ipc"}) :
         \E stuck \in {raised, raised \ {"ipc"}} :
            exec' = [exec EXCEPT ![x].pc = "done", ![x].open = stuck, ![x].stuck = raised]
    /\ UNCHANGED <<options, cache, keyLock, users, inflight>>

-----------------------------------------------------------------------------
\* The runtime of an execution (_runtime_for_request, _direct_runtime_for_intent).

\* The device or the plan of the request is refused.
PrepareFails(x) ==
    /\ exec[x].pc = "bound"
    /\ Goto(x, "failing")
    /\ UNCHANGED <<options, cache, keyLock, users, inflight>>

\* A hit under the lock of the tables, or a share in the lock of the key.
LookUp(x) ==
    LET k == KeyOf(x)
    IN /\ exec[x].pc = IF options.side = "worker" THEN "bound" ELSE "idle"
       /\ ~options.closed
       /\ \/ /\ Cached(k)
             /\ cache' = Touched(k)
             /\ Goto(x, "ready")
             /\ UNCHANGED <<keyLock, users>>
          \/ /\ ~Cached(k)
             /\ LET lock == IF keyLock[k] = NoLock THEN x ELSE keyLock[k]
                IN /\ keyLock' = [keyLock EXCEPT ![k] = lock]
                   /\ exec' = [exec EXCEPT ![x].pc = "waiting", ![x].lock = lock]
             /\ users' = [users EXCEPT ![k] = @ + 1]
             /\ UNCHANGED cache
       /\ UNCHANGED <<options, inflight>>

\* Mutation of Enter: an execution waits until it is the only user of the lock.
EnterAlone(x) ==
    /\ exec[x].pc = "waiting" /\ users[KeyOf(x)] <= 1
    /\ Goto(x, "creating")
    /\ UNCHANGED <<options, cache, keyLock, users, inflight>>

\* The lock of the key is taken, and the cache looked at again.
Enter(x) ==
    /\ exec[x].pc = "waiting"
    /\ \A y \in Executions : exec[y].lock = exec[x].lock => exec[y].pc # "creating"
    /\ IF Cached(KeyOf(x))
       THEN cache' = Touched(KeyOf(x)) /\ Goto(x, "leaving")
       ELSE Goto(x, "creating") /\ UNCHANGED cache
    /\ UNCHANGED <<options, keyLock, users, inflight>>

\* create_runtime and initialize_runtime return outside the lock of the tables;
\* the runtime is installed unless nothing is cached, or another got there first.
Install(x) ==
    LET k == KeyOf(x)
    IN /\ exec[x].pc = "creating"
       /\ Goto(x, "leaving")
       /\ cache' = IF options.limit = 0 THEN cache
                   ELSE IF Cached(k) THEN Touched(k)
                   ELSE Trimmed(Append(cache, k), {k} \cup {KeyOf(y) : y \in inflight})
       /\ UNCHANGED <<options, keyLock, users, inflight>>

\* They raise.
CreateFails(x) ==
    /\ exec[x].pc = "creating"
    /\ Goto(x, "leavingEmpty")
    /\ UNCHANGED <<options, cache, keyLock, users, inflight>>

\* Mutation of Leave: the first user to leave takes the lock away.
LeaveAlone(x) ==
    /\ exec[x].pc \in {"leaving", "leavingEmpty"}
    /\ users' = [users EXCEPT ![KeyOf(x)] = 0]
    /\ keyLock' = [keyLock EXCEPT ![KeyOf(x)] = NoLock]
    /\ exec' = [exec EXCEPT ![x].lock = NoLock,
                  ![x].pc = IF @ = "leaving" THEN "ready"
                            ELSE IF options.side = "worker" THEN "failing" ELSE "done"]
    /\ UNCHANGED <<options, cache, inflight>>

\* _release_runtime_key_lock_locked: the last user takes the lock out of the table.
Leave(x) ==
    LET k == KeyOf(x)
    IN /\ exec[x].pc \in {"leaving", "leavingEmpty"}
       /\ IF users[k] > 1
          THEN users' = [users EXCEPT ![k] = @ - 1] /\ UNCHANGED keyLock
          ELSE users' = [users EXCEPT ![k] = 0] /\ keyLock' = [keyLock EXCEPT ![k] = NoLock]
       /\ exec' = [exec EXCEPT ![x].lock = NoLock,
                     ![x].pc = IF @ = "leaving" THEN "ready"
                               ELSE IF options.side = "worker" THEN "failing" ELSE "done"]
       /\ UNCHANGED <<options, cache, inflight>>

-----------------------------------------------------------------------------
\* The copy.

\* submit_exact_plan, which may raise; the client copies and is done.
SubmitNative(x) ==
    /\ exec[x].pc = "ready"
    /\ IF options.side = "direct" THEN Goto(x, "done")
       ELSE Goto(x, "submitted") \/ Goto(x, "failing")
    /\ UNCHANGED <<options, cache, keyLock, users, inflight>>

\* The copy runs before its handle is in the table.
Register(x) ==
    /\ exec[x].pc = "submitted"
    /\ Goto(x, "copying")
    /\ inflight' = inflight \cup {x}
    /\ UNCHANGED <<options, cache, keyLock, users>>

\* Mutation of Finalize: the cache is only trimmed when a runtime is added.
FinalizeUntrimmed(x) ==
    /\ exec[x].pc \in {"copying", "failing"}
    /\ Goto(x, "finished")
    /\ inflight' = inflight \ {x}
    /\ UNCHANGED <<options, cache, keyLock, users>>

\* wait, or the failure before it: _finalize_terminal_handle_locked.
Finalize(x) ==
    /\ exec[x].pc \in {"copying", "failing"}
    /\ Goto(x, "finished")
    /\ inflight' = inflight \ {x}
    /\ cache' = Trimmed(cache, {KeyOf(y) : y \in inflight'})
    /\ UNCHANGED <<options, keyLock, users>>

\* close_direct_runtime_cache, when the session of the client closes: executions
\* that are under way keep their lock objects.
CloseDirect ==
    /\ options.side = "direct" /\ ~options.closed
    /\ options' = [options EXCEPT !.closed = TRUE]
    /\ cache' = <<>>
    /\ keyLock' = [k \in Keys |-> NoLock]
    /\ users' = [k \in Keys |-> 0]
    /\ UNCHANGED <<inflight, exec>>

-----------------------------------------------------------------------------
Step(x) ==
    \/ Bind(x) \/ BindFails(x) \/ PrepareFails(x) \/ LookUp(x) \/ Enter(x) \/ Install(x)
    \/ CreateFails(x) \/ Leave(x) \/ SubmitNative(x) \/ Register(x) \/ Finalize(x) \/ Unbind(x)

Next == CloseDirect \/ \E x \in Executions : Step(x)

\* Executions are threads that nobody stops, backend calls return, and a lock is
\* given to one of those that wait for it.
Spec == Init /\ [][Next]_vars /\ \A x \in Executions : WF_vars(Step(x))

-----------------------------------------------------------------------------
\* Properties.

\* Two executions never create a runtime of the same key at a time, also when
\* creations fail and locks come and go (cuda_executor.py:612).
OneCreatorPerKey ==
    \A x, y \in Executions :
        exec[x].pc = "creating" /\ exec[y].pc = "creating" /\ KeyOf(x) = KeyOf(y) => x = y

\* Once no execution is under way the cache is within its limit, however many
\* runtimes were in use at a time, and no lock, user or handle is left behind; a
\* buffer that stays open is one whose closing raised
\* (cuda_executor.py:588, intent_executor.py:229, resources.py:365, :420).
CachesSettle ==
    (\A x \in Executions : exec[x].pc \in {"idle", "done"}) =>
        /\ options.limit < 0 \/ Len(cache) <= options.limit
        /\ inflight = {}
        /\ \A k \in Keys : keyLock[k] = NoLock /\ users[k] = 0
        /\ \A x \in Executions : exec[x].open \subseteq exec[x].stuck

\* A runtime that a handle in flight copies with stays in the cache once it was
\* there, so that the next execution with its key does not create another
\* (cuda_executor.py:628).
InUseIsKept ==
    [][\A x \in inflight : Cached(KeyOf(x)) /\ x \in inflight' => KeyOf(x) \in ToSet(cache')]_vars

\* Every execution that waits for the lock of its key gets on, and ends.
ExecutionsReturn ==
    \A x \in Executions : exec[x].pc \notin {"idle", "done"} ~> exec[x].pc = "done"
=============================================================================
