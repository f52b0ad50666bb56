# TurboBus: a verification project

TurboBus moves tensors between host memory and GPUs over several PCIe paths at
once: the direct path of the target GPU and the paths of idle *relay* GPUs. One
daemon per host owns the shared resources; clients ask it for transfers, workers
execute them, and everybody talks to it over a Unix socket. Above that are the
sessions of a client runtime, an offload store, an optimizer-state adapter and a
KV connector for vLLM. This directory holds TLA+ models of the parts of that
system that carry its control logic, TLC runs that check them on small instances,
and TLAPS proofs about the daemon, the workers and their clients for any number of each.

## 1. Inventory

| Component | Source (`src/turbobus/`) | State it keeps | Operations | What makes it correct |
|---|---|---|---|---|
| Transfer control plane | `daemon/server.py` (and `transfer_lifecycle.py`, `planning_helpers.py`, `services.py`, `dispatch.py`) | sessions, jobs, buffers, intents, transfer statuses, plans and plan generations, admissions, tickets, leases, staging records, quotas, receipt archive | register, submit, retry, authorize, report, cleanup, close, reap, promote | one transfer per intent; terminal outcomes are final and survive cleanup; leases and quotas agree; nothing unfinished is unreachable |
| Socket server | `daemon/server.py` `serve_forever`, `daemon/client.py` | the accepted connection, the backlog | accept, recv, handle, disconnect | every request is answered |
| Scheduler | `scheduler/`, `planner_engine.py` | the load of the other transfers | select relays, weigh paths, spread chunks, lease, admit | chunks partition the transfer; paths end together; leases stay within quotas; nobody waits for nothing |
| Block runtime | `daemon/block_runtime.py`, `scheduler/block_plan.py` | a record per block of a transfer | register, advance | blocks are those of the present plan; completed means copied |
| Receipts, evidence, telemetry | `daemon/receipts.py`, `evidence.py`, `runtime_telemetry.py` | none of their own | build dictionaries | consistent with the statuses |
| Worker execution pool | `worker/lifecycle.py` 554-891 | queued, running, futures, terminal history | submit, cancel, run, close, drain | one live execution per transfer; every submission is accounted for |
| Worker lifecycle, staging | `worker/lifecycle.py`, `staging_pool.py` | staging slots | authorize, allocate, run, report, clean up, release | slots return; the order of reports |
| CUDA executor, resources | `worker/cuda_executor.py`, `resources.py`, `backends/` | cached runtimes, locks of their keys, handles in flight, open buffers | bind, look up, create, submit, finalize, unbind | one creation per key; caches return to their limit; everything opened is closed |
| Worker process and transport | `worker/process.py`, `transport.py` | the worker's thread and socket | start, serve, stop | start-up ends; failures are noticed |
| Runtime session | `runtime_session.py`, `runtime/`, `client.py` | session, buffers and their fingerprints, owned memory, active receipts, managed services | open, register, allocate, make a context, submit, wait, clean up, close | memory is released once; sessions close; what is submitted is registered |
| Intent executor | `intent_executor.py`, `intent_execution_support.py`, `direct_fallback.py` | the execution of one intent, a cache of direct runtimes | submit, validate, hand to the worker, copy directly, report, clean up | no completion without a copy; leases come back; what the caller was told is what the daemon keeps |
| Offload store, state offload | `offload/`, `state_offload/` | blocks and last handles, mirrors, snapshots, the open transaction | register, begin, prefetch, step, commit, roll back, batches | a step is saved whole or not at all |
| vLLM adapters | `adapters/` | prefix stores, pinned backings, save contexts, pending loads and saves | match, load, save, evict, finish, close | a backing has one owner; a load is what was promised |
| Topology, profiling | `topology/`, `profiling/` | measured graphs | probe | hardware |
| C++ extension | `cpp/` and bindings | streams, events, copies | issue, wait | hardware |

How they interact. A client opens a *session*, registers a *job* and its
*buffers*, and submits a *transfer intent*. The daemon plans it (scheduler), and
admits or delays it. An admitted transfer gets an *execution ticket* and one
*lease* per relay; a worker presents lease and ticket (`authorize_worker_transfer`),
stages, copies and reports with `transfer_status`; it then releases each lease
with `cleanup`. The client polls the *receipt* of its intent. Leases and plans
expire, sessions go stale, sockets close, and clients retry: the daemon discovers
all of it lazily, at the start of some later request. A runtime session may start
daemon and worker as threads of its own. State offload and the KV connector move
their data with transfer contexts of such a session and act on its receipts.

What is hard. The daemon's socket server handles one request at a time, and a
handler that takes the lock several times is not interleaved with another one, so
in the daemon the difficulty is the *order* of requests from clients, workers and
reapers, and the many tables one transfer is spread over. In the execution pool
and the runtime caches it is threads against cancel and close. Between executor,
worker and daemon it is everything that can happen between two calls: another
execution of the same intent, expiry, a closed session, a lost answer, a dead
process. In the session and the adapters it is a call that fails half way and has
to undo what it did. `PROJECT.json` lists these hazards at their lines.

## 2. The modules and how they correspond to the code

| Module | Models | Built on |
|---|---|---|
| `TransferDaemon` | the transfer control plane of the daemon | |
| `IntentLedger` | what the daemon promises about intents: an intent gets one transfer, a transfer one outcome, for ever | refined by `TransferDaemon` |
| `WorkerPool` | `WorkerAsyncExecutionPool` | |
| `WorkerLifecycle` | `submit_report_cleanup_lifecycle` of a worker | `TransferDaemon` |
| `IntentExecution` | `WorkerIntentTransferExecutor` and the direct fallback | `WorkerLifecycle` |
| `LoadFeedback` | what the load of the other transfers does to a path, a relay and a job | |
| `TransferPlanner` | relay selection, chunks, paths, leases, blocks, admission; the worker's exact plan | `LoadFeedback` |
| `DataPlane` | transfers from their plan to the copied bytes | `TransferPlanner` |
| `CudaExecutor` | the runtime caches of worker and client, locks, handles, buffers | |
| `Services` | managed services, the socket loop, clients that time out | |
| `RuntimeSession` | buffers, sessions, contexts, receipts and close of a runtime session | |
| `StateOffload` | the optimizer adapter, its transactions, the offload store | |
| `AtomicState` | what a transaction promises about the state it saves | refined by `StateOffload` |
| `KVConnector` | both roles of the vLLM connector, prefix stores, backing pool | |
| `Filters` | the items of a sequence at chosen positions, as a recursive function | |
| `MC...` | instances for TLC | one each |

The theorems are in modules of their own (section 4): `DataLemmas` on induction, filters, sums and
recursion over sets; `ControlPlaneProofs` on `TransferDaemon` (the quota counters last) and, in its second half,
on `WorkerLifecycle` and `IntentExecution`; `DataPlaneProofs` on `DataPlane` and the scheduler's modules under it;
`RuntimeSessionProofs`, `WorkerPoolProofs`, `StateOffloadProofs`, `CudaExecutorProofs` and `KVConnectorProofs` on the
modules they are named after.

**TransferDaemon.** The record `d` is the daemon's dictionaries. `d.transfer[t]`
collects what `_transfer_statuses`, `_transfer_admissions`,
`_transfer_plan_generations`, `_transfer_plan_expirations`, `_transfer_plans`,
`_transfer_queue` and `_transfer_tickets` hold for one transfer; `d.leases` is
`_reservations` with `_lease_tokens`, `_reservation_transfers` and the staging
records; `d.archive` is the receipt archive, which holds the outcomes of what has ended
and whatever status a recovery request (`RecoverTransferState`) found; `sessionChunks` and `relayChunks` are
the quota counters. Ids are constants that are issued once. Each request handler is
one action, with the reaping, promotion and archiving it does on the way. The clock
`now` ticks between requests. Handlers are built from operators on `d`
(`ReleaseLeases`, `RetireUnleased`, `PromoteDelayed`, `RefreshAdmission`...) that
keep the names and the order of the methods they stand for. Which relays and how
many chunks the scheduler grants is a nondeterministic choice within its limits;
`DataPlane` computes it.

**WorkerPool.** The tables `_queued`, `_running`, `_futures` and the terminal
history, one action per critical section and one per operation on a `Future`
(which belong to Python's library and are marked external).

**WorkerLifecycle.** `worker[x]` is one call of `submit_report_cleanup_lifecycle`;
`pc` says which daemon call comes next. `binding[t]` is the tuple `lease_ids` in the
`owner_binding` of the current ticket: since `ticket_id` is `"ticket-" +
transfer_id`, this tuple and the plan generation are what tells tickets apart when
the evidence of a report is matched (`MatchesTicket`). A ticket of the planner names
the leases in the order of their random ids, a worker's in the order of their relays,
so both orders of two leases are explored. `WorkerRaise` is a call that fails or whose
answer is lost, `WorkerCrash` the death of the process. `Environment` is what other
clients and the clock do to the same transfer.

**IntentExecution.** `executor[x]` is one call of `execute_transfer_intent` with the
worker execution it starts. `TransferStatus(t, g, k, state, ok)` is a report with
plan generation `g` and lease tuple `k`; `k = None` is evidence without an
`owner_binding`, which is what the direct path, `_mark_transfer_failed` and the merged
evidence of mixed plans (`MixedIntents`) send. A complete answer for a mixed intent is
never believed, because the worker copies the relay bytes only (`DataPlane` shows why),
and goes to the cleanup.

**LoadFeedback, TransferPlanner.** Functions of the requests in hand: pressure,
scheduler weight, fairness between jobs, relay admission; then relay candidates, paths,
the greedy spreading of chunks, leases, blocks, and what the worker makes of a plan. The
code's floating point numbers are thousandths, divisions round down. The relay bytes of
the runtime count twice in the resource pressure, because `relay_path_bytes_total` and
`p2p.bytes_total` both hold them (`runtime_telemetry.py:572`).

**DataPlane.** `xfer[t]` is a transfer with its plan, leases, staging and blocks,
`worker[t]` the plan and generation its worker holds, `copied[t]` the chunks that were
copied. The protocol is what `TransferDaemon` has, reduced to the steps that depend on
the contents of a plan. The reaper cancels a transfer without touching its blocks, which
stay `running`; a worker also marks the direct blocks of a mixed plan.

**CudaExecutor.** `exec[x]` is an execution on the worker (`submit_bound` ... `wait`) or
on the direct path of a client, `cache` the runtimes in least recently used order,
`keyLock`, `users` and `inflight` the tables of `_runtime_for_request`. `options` fixes
for a behaviour the side, the limit of the cache and the key of each execution.

**Services.** One connection at a time: `conn` is the one that `serve_forever` handles, `queue`
those it has not accepted, `control` the persistent one; `daemon` and `worker` say where the two
threads are, `call[c]` where each client is, `phase` what the session's thread does. An answer to a client that has gone ends the daemon. The
requests of the worker are single steps, at most one connection is abandoned at a time.

**RuntimeSession.** `w` is the session (`bufs`, `owned`, fingerprints `fp`, `active`,
`submitted`), the memory `mem`, and what the daemon has (`reg`, `open`, `job`, `transfer`). The methods call each other and any daemon
call in them may fail, so a method is an operator from a state to the set of its outcomes
`[w, ok]`, and an action is one call of the application. A method that does something for each of
several buffers does it in any order (`ForEach`). A submission is two actions.

**StateOffload.** Every state has an optimizer tensor, a CPU mirror and a snapshot;
a value is the number of the step that wrote it. `call` is the adapter call in progress and
its stage. It is cut where it may raise. The transfers run on the buffers of the context, not
on the optimizer's tensors: a failed one shows in its receipt only. `active.spoiled` marks
a transaction whose optimizer step raised: a caller rolls such a one back (it has to, there is
nothing in the code that makes it).

**KVConnector.** Scheduler role: `req`, `pendingLoads`, `pendingSaves`, the metadata
`queue`. Worker role: `store`, `free`, `contexts`, the stage of a step. Both share `global`.
`SaveBlocks` is the setting `turbobus.save_blocks` of each request; `promised` is what vLLM was
told that a restore will have, beyond what it had `computed` itself, which may be any of `ComputedTokens`.
vLLM itself is external, as the order in which it calls.

Mutated definitions stand directly before the definition they are a mutation of, and
their comment starts with "Mutation of". They are not used by any specification.

## 3. The runs

| Run | Instance | What it shows |
|---|---|---|
| `transfers` | 1 session with 2 chunks, 2 transfers, 1 relay with 3 | delay, promotion, expiry, late and mismatching reports, recovery requests, retried intents: nothing is stranded, outcomes are final, completions are valid, and `IntentLedger` is refined |
| `sessions` | 2 sessions, 2 transfers, 1 job, a shared buffer | stale, closed and disconnected sessions, recovery requests and cleanup of owners in every order: types, receipts, owners and quota counters |
| `pool` | 3 executions of 2 transfers, 2 threads, 1 cancelling caller, fair | tables and history tell the truth, close leaves nothing, every execution ends and close returns |
| `lifecycle` | 2 executions of 1 transfer over 2 relays | no lease outlives its transfer, session or generation; slot and leases are handed back; completion is earned under the current ticket; the record a worker returns is what the daemon has |
| `retry` | 2 executions of one intent over 2 relays, with expiry and one death | no false completion; what a caller was told is durable; leases come back however an execution ends; a relay-only completion is accepted |
| `data_plane` | 3 transfers of 2 jobs over 2 relays and the direct path | complete means every byte copied once; blocks follow the plan; the worker takes every plan; paths are balanced; leases stay within quotas; nobody waits alone |
| `mixed_plan` | the same | a worker reports success for a mixed plan that nobody copied in full (section 6) |
| `cuda_executor` | 3 executions, 2 keys, cache limits none, 0 and 1, both sides, fair | one creation per key, caches and tables settle, a runtime in use is kept, executions return |
| `services` | every way to start, 3 clients, fair | calls return unless the daemon is occupied for ever; a failed managed start-up leaves no thread |
| `session` | 2 CPU buffers of one id, one more, 1 CUDA buffer, 2 sessions, 1 intent | owned memory is never lost, no session is left open, what is submitted is registered |
| `offload` | 2 states, 2 optimizer steps | `AtomicState` is refined; a phase is reached only with transfers that completed |
| `kv_connector` | 3 saves and 1 restore, 2 keys, 2 layers, 3 backings, a store of 1, fair | backings have one owner; a restore gets its own prefix and, where the code sees to it, all that was promised; no request waits for ever |

Bounds. `MaxTime`, `MaxExecutions`, `MaxCancels`, `MaxFaults`, `LastFault`, `MaxBegun`, `MaxRaised`, `MaxSteps`,
`MaxSessions`, `HistoryLimit` and the sets of ids bound the state spaces. Two of a thing
(transfers, sessions, relays, executions) are enough for the interactions that the code
has, which are between pairs: the one that holds and the one that waits, the old and the
new generation, the first execution and its retry; three are used where a third matters
(an execution that finds a lock dropped too early, a transfer promoted between two others,
a save between an eviction and a restore).

- Leases and plans live one tick. In the runs of the daemon, the worker and the executor the clock has
  two more, so that a plan can be fresh, at its boundary, expired, and expired after a
  promotion.
- The transfers of `transfers` and `sessions` are empty (`TotalBytes = 0`), so that a report is either right or of a
  byte too many. Running reports of a part of the bytes (`ReportRunning`) are covered by the proofs only: the
  worker, with one byte, reports none and then all.
- Quotas of one make the limit be reached at once; `transfers` has larger ones, so that a
  transfer can hold several chunks or fewer than it asked for. `SessionTimeout = 0` means
  that sessions do not go stale.
- `pool` has one canceller and cancels a handle once: with a second cancel of the same
  handle the tables are wrong (section 6). An entry stays until its canceller has recorded it.
- `retry` has at most one death, before the clock ticks (`MaxFaults`, `LastFault`) and while only one execution has
  begun (`MaxBegun`): with deaths at any time, the state space is out of reach. What is proved of the executors
  (section 4) holds for every value of these bounds. All its intents are relay-only (`MixedIntents = {}`),
  because completions of other plans are never accepted (section 6).
- `data_plane` has sizes that are no multiples of the chunk, a request with two ranges whose
  destinations are in the other order, one mode that may use both paths and two that may not, and jobs of different weight.
  Telemetry shares are constants.
- `kv_connector` needs two layers for a save to be open between them, a store of one prefix to
  evict, three backings for one to be reused while another is stored. `PipelineDepth = 1`: vLLM
  builds the metadata of a step after the previous one ran; `RestoreIsWhole` relies on it. One save gives its
  blocks only, one its tokens, and one fewer blocks than its tokens fill; of a restore's prompt vLLM has computed
  nothing or the first of two blocks.
- `session` has two buffers under one id, because a cleanup decides by the id what to release.

Deadlock is not checked (`CHECK_DEADLOCK FALSE`): ids, clock and executions run out, and
an idle system is allowed to stop; where a wait matters there is a liveness property. Symmetry
is used for interchangeable ids in `transfers`, `sessions`, `lifecycle`, `retry` and `offload`,
whose properties are all safety properties.

Fairness. None is assumed of the daemon's tables: no property of them needs a request to come.
`WorkerPool` assumes weak fairness of its threads, of a canceller that has begun and of close;
`CudaExecutor` of every execution that has begun, whose backend calls return;
`Services` of the threads of daemon and worker, not of the worker's execution or of any client, so
that a transfer may stay unreported for ever (`Occupied` is the exception in `CallsReturn`);
`KVConnector` of the engine loop, which steps while it has requests. No client is obliged to submit,
retry, cancel, commit or close, no process to crash, and the clock need not advance.
`NobodyWaitsAlone` is the safety form of "a delayed transfer is promoted": in every state in which
one waits, another holds what it waits for.

## 4. What is proved

All theorems hold for every value of the constants that satisfies the named
assumptions of their modules (`ConstantsAssumption`, `PoolAssumption`,
`LifecycleAssumption`...): any number of sessions, transfers, relays, executions,
threads or states, any quotas, lifetimes and limits.

**Control plane** (`ControlPlaneProofs`). `Invariance`: the inductive invariant
`Inv`. From it `TypeCorrect`, `LeasesAreBound`, `NoneStranded`, `OwnersStay`,
`OneTransfer` (an intent id leads to one transfer), `OutcomesArchive` (whatever is no
longer live has its terminal outcome in the archive; a status that a recovery request archived
before the end is never ahead of the transfer, and does not survive it); the action properties `TerminalStates`
and `Completion`; and `Refinement`: the specification implements `IntentLedger`.
The properties are not inductive by themselves: that a lease is bound to its transfer
depends on what the tables say about plan generations, owners and the archive. `Base`
collects these facts. In the middle of a handler a transfer may be marked failed or
cancelled and not yet be retired; `Base` allows this and `Inv` is `Base` with no such
transfer (`Dead(s) = {}`), which is what holds between requests. As handlers are
compositions of operators on `d`, each operator has a lemma that says it preserves
`Base` and relates the state before and after: `Shrinks` (only releases), `Keeps`
(outcomes are kept), `AcceptsIntent` (an intent gets its transfer), `Completes` (one
transfer completes). Handler lemmas chain these relations, and the refinement and the
action properties are read off them.

**Quotas** (the last lemmas of the first half of `ControlPlaneProofs`). `CountersMatchLeases`: `QuotasExact`. The code keeps
each counter by adding and subtracting, cut off at zero; `Accounted` says that every counter
equals the sum over the leases, so that the cut never happens, for closed sessions and for
relays alike, and that the leases are finitely many. A promotion charges a lease once because
a delayed transfer holds none, and staging replaces a lease by one with the same session, relay
and chunks. The sums are `SumFunctionOnSet` of the community modules; `DataLemmas` proves
what it does with a union of disjoint sets. It is assumed that there are finitely many relays.

**Execution pool** (`WorkerPoolProofs`). `PoolInvariance` and `TablesTellTheTruth`,
`CloseIsComplete`, `HistoryTellsTheTruth`. `PoolInv` relates each entry of the tables to the
state of its future (`Listed`, `Found`) and says what each canceller that is between two of its
critical sections has left to do (`Canceling`, `Dropped`), and what close has collected
(`Closing`). `HistoryInv` adds that the records of a transfer come in the order in which its
executions ended and that the newest is kept. The theorems have the hypothesis `CancelOnce`
(no handle is cancelled twice): without it they are false (section 6). Finitely many transfers
are needed for the length of the history.

**State offload** (`StateOffloadProofs`). `OffloadInvariance`, `PhasesAreEarned` and
`StepsAreAtomic`: the adapter with its transactions, batches and blocks implements
`AtomicState`. `OffloadInv` says which copies of a state (tensor, mirror, snapshot) are equal in
each stage of a call, that the snapshot of a transaction is of one moment, and what a block's
handle tells about its transfer.

**Data plane** (`DataPlaneProofs`). `DataPlaneInvariance`, and from it `CompleteIsCopied`, `BlocksAreThePlan`,
`WorkersTakeThePlan`, `PlansStayBalanced` and `QuotasHold`, for any profile, requests, job weights, quotas, finite sets of
transfers and relays, and chunks of any size. The argument has three layers.
  - *Operators.* A sum over a sequence is a sum over its positions, so that bytes, lengths and elements of a
    concatenation are those of its parts (`Weight`, `WeightOfFlat`). Cutting a range writes the same bytes
    (`CutRangeSpots`). Pressures, penalties and scores are natural numbers and a score is positive, whatever the load, so a
    path's weight is defined. The least loaded path is chosen by cross-multiplication; giving it one chunk keeps `Balanced`
    (no path has more bytes for its weight than another with one chunk more) and `Placed` (the paths hold all chunks so far,
    none twice). By induction over the chunks, `DecisionFacts`: the scheduler decides on a plan of exactly the
    request's chunks, and its leases are the plan's own or none, in the second case with nothing on a relay.
  - *The daemon's tables.* `Sound(x)` says of every transfer that its plan is one for its request, that its blocks are the
    plan's chunks under the generation of its ticket, that its leases name the relays of its plan, and that the leases are
    within the quotas. Every handler is a chain of tables, each `Sound`: what a decision may lease was tested
    against the counters of the table it is committed to (`AdmissionBlocked`), also in a promotion, which happens in
    whatever order the code visits the delayed transfers.
  - *Workers and clients.* `GoodWorker` says that a worker that still holds a ticket has the exact plan of the
    transfer, that a copy is of the plan's chunks on relays, and that a transfer which is complete was copied by
    the worker and, where its plan is direct, by the client.
`NobodyIsForgotten` proves `NobodyWaitsAlone` under the hypothesis that each transfer alone has no more chunks than a
session's quota: without it the property is false (section 6, "Large plans"). The proof shows that a promotion with no transfer
under way, when nothing is leased, admits the first transfer that is visited, and that every handler which ends a transfer promotes.

**Runtime caches** (`CudaExecutorProofs`). `ExecutorInvariance`, `CreatorsAreAlone`,
`ExecutorSettles` and the action property `RuntimesInUseStay`. `ExecutorInv`: the executions that
hold the lock of a key hold the same lock object and one of them creates (`Locks`); the user count
of a key is the number of its holders and the lock stays in the table as long as there is one
(`Counted`); the cache repeats no key, and it is larger than its limit only while an execution is
under way that will trim it (`Bounded`).

**Workers and executors** (the second half of `ControlPlaneProofs`, over the handler lemmas of
the first). For workers alone: `LifecycleInvariance`, `HandsBack`,
`CompletionEarned`, `FinalTruthful`; with the intent executors, their deaths and retries:
`ExecutionInvariance`, `CompletionsCopied`, `ResultsDurable`, `LeasesReturned`, and the action
property `CompletionsAccepted`. What makes them hard is that an execution acts on what an earlier
answer told it, while other requests have changed the tables. Every handler of the daemon is therefore
shown to satisfy `Lasts`: a plan that no longer waits for its promotion (`Settled`) keeps its
generation and its relays as long as its transfer lives, and no lease that it lost is issued again;
and `Stays`: a terminal receipt is never replaced. An expired plan ends its transfer, so a
generation that a worker still holds is the last one or belongs to a transfer that is over. On the
other side each worker execution is `Formal` (its fields agree with its program counter) and `Sound` (what it
takes from the tables still holds: the leases it cleaned up are gone, the status it reported is recorded), every
completed transfer is `Earned` by a copy under the last ticket, and each executor is `Plain`, `Carried` by the
tables, and `Employs` a worker execution of its own transfer and generation. These predicates mention the tables
only through what `Lasts` and `Stays` preserve, so a step of somebody else preserves them by one lemma.
`LifecycleAssumption` says that there are a session and a job, which the initial state registers.

**KV connector** (`KVConnectorProofs`). `BackingInvariance` and `BackingsStayOwned`, for any number of
requests, layers, keys and backings and any pipeline depth; `RestoreInvariance` and `RestoresAreWhole`.
`BackingInv`: a save context exists only from a layer of its step to its wait (`Stages`); contexts, stored
prefixes and free pool hold disjoint backings, each once and open (`Exclusive`); an open backing that nobody
holds is the one of the save that took the engine down (`Losses`). It also says that every stored prefix has
lifecycle evidence that is in order, which is why a put never fails between unlinking the old prefix and giving
its backing back. `RestoreInv` adds what binds the two roles: what the scheduler recorded for a
load or a save covers as many blocks as the tokens need, where nothing was computed and the save has the blocks
of its tokens (`Covers`), and no more than the request has in any case (`Scheduled`), metadata is built and consumed in turn
(`InTurn`), a stored prefix is published with the slots of its backing and the content of its key (`Stored`),
everything that is recorded, queued or being loaded is still published with enough blocks (`Promises`), and what
was reported is within what was promised, and all of it under the same two conditions (`Deliveries`). `RestoresAreWhole` has the hypothesis `OneStepAtATime`
(`PipelineDepth = 1`, `RestoreBlockLimit = 0`), which the property itself presumes and its run has: with two steps
in flight, a save of the first may evict the prefix that the second was promised.

**Runtime session** (`RuntimeSessionProofs`). `SessionInvariance`, `OwnedMemoryTracked`,
`NoSessionForgotten` and, from the same invariant, the action property `IntentsGoOutRegistered`; for any number of
buffers, ids, intents and sessions. `Inv(x, A)` says of a state `x` that what is open at the daemon is
the session's own or was refused its close, and that the job is of the present session (`Sessions`); that a buffer is
held under its own id (`Named`); that a fingerprint of the present session is what the daemon has
registered (`Fresh`); and that live allocated memory in `A` is held and owned (`Tracked`). Between calls `A` is all
of it. In the middle of an allocation or of the rollback of a context there is memory that is not tracked yet, or no
longer, and `A` leaves it out; the lemma of the method then says that it has been released, or is tracked again, in each
outcome. Every method has one lemma that speaks of all its outcomes, returned and raised. Cleanups that go
through several buffers keep `Inv` in any order (`VisitsStay`), and take memory out of "live" only (`Wanes`, `Fades`).
`RuntimeSessionAssumption` says that an allocated buffer is no other kind of buffer, that the ids are finitely many and
that `None` is none of the values it stands beside.

**Data** (`DataLemmas`). `InductionUpTo` is induction up to a number, stated with a set instead of a
predicate. These are lemmas, listed here because the theorems rest on them: from it come induction over finite sets, `FilterFacts` (what `Filter`, which replaces
Python's comprehensions with a condition, keeps, how much, in which order), what
`SumFunctionOnSet` computes, and `SetRecursion` (a function defined by recursion on the subsets of a finite set
exists and satisfies its equation), on which `VisitsStay` rests. The induction theorems of the standard library take an operator as a
parameter, which the provers cannot instantiate; these do not.

Only model-checked:

- *Liveness*: `WaitersProceed`, `CallsReturn` and the progress properties of `WorkerPool`, `CudaExecutor` and
  `KVConnector`. They need `ENABLED`, which the provers do not treat. Liveness of
  `IntentExecution` is not even checked: with two relays, deciding whether each of its steps is enabled is beyond TLC.
- *`Services`*: what its run checks is liveness.
- `LeasesBound` in `lifecycle` is checked under the retries of that composition; `LeasesAreBound` proves it for the
  daemon's own specification, and `ExecutionInv` contains `Inv`, from which it follows there too.

## 5. What is not modelled

The dictionaries of receipts, evidence and telemetry; authentication of peers; field validation;
shared memory and CUDA copies themselves; topology and profiling. By module:

- **Control plane.** Of an archived receipt only the status is kept, not the ticket beside it (section 6, "Recovery").
- **Data plane.** The PCIe bandwidth pool (it scales all paths alike), requests that are not
  deferred, the expiry of delayed transfers, the relabelling of blocks after a partial failure
  (every failure the worker reports has no completed bytes, or comes after the cleanup that ended
  the transfer). Relay exclusivity is taken against running transfers only, as in the code. A request
  with mode `relay` falls back to the direct path when the session is saturated instead of waiting; so
  does the code.
- **CUDA executor.** Two submissions of one transfer at a time (only possible by the second cancel of
  section 6); a runtime that is evicted between its creation and its handle; the close of a
  handle that is closed already; look-ups after the direct cache was closed.
- **Services.** A worker request that takes long; more than one abandoned connection; peers.
- **Runtime session.** Lost replies (a call either has its effect and answers, or fails without it),
  `active_uses` after a failed submission, two threads opening or closing at once, profile contents, snapshots.
- **State offload.** Packed blobs, model weights and static registries; a batch over ranges is a batch of one.
  The caller keeps the discipline of section 2. `KeyboardInterrupt` in the middle of a step is not caught by the code.
- **KV connector.** A request that restores a prefix and saves another; the hook-based integration.

## 6. Where the code disagrees with what it says

Run:

- `mixed_plan`: a plan with direct and relay assignments ("mixed pooled chunked transfers",
  `src/README.md:11`) is copied in part: the worker skips the direct chunks
  (`worker/cuda_executor.py:1025`), nobody else copies them, and the client, which counts the bytes,
  throws the copy away.

Seen while modelling, and modelled as the code is (the properties of section 3 hold beside them):

- **Second cancel.** `cancel_transfer` on a handle that is already cancelled removes the entries of a
  newer execution of the same transfer (`worker/lifecycle.py:676`).
- **Owner binding.** The evidence of the direct path has no `owner_binding` (`direct_fallback.py:722`), so the
  daemon refuses its completion and the failure report that follows. Merging the evidence of a mixed plan drops the
  worker's (`intent_executor.py:1047`), and `_ticket_binding_from_payload` never has it (`:1436`): a transfer whose
  worker died after returning its leases stays unfinished.
- **Deferred failure.** The worker's cleanup with the reason `worker_failed` cancels the transfer, so the
  executor's FAILED report comes too late and raises (`intent_executor.py:1110`).
- **Control session.** A persistent control connection occupies `serve_forever` (`server.py:8421`), so a worker in
  another process cannot report and the session waits for itself.
- **Managed close.** Closing owned services raises a `NameError` (`runtime_session.py:2455`) after the worker was told
  to stop; the daemon keeps running.
- **Attached start-up.** A session that attached to a daemon and started a worker leaks it when it does not become
  ready (`managed_services.py:547-561`, unlike 498-508). A managed worker may ask for the topology before the daemon
  is bound. "ready" may overwrite "failed" in a startup record.
- **Waits.** `wait_transfer_receipt` polls in the handler, without a deadline if none is given. A client that timed out
  closes its socket, and the broken pipe ends the daemon. A persistent client that timed out reads the previous answer next.
- **Large plans.** `_leases_for_plan` does not sum over relays (`scheduler/daemon.py:577-592`), and admission does
  (`server.py:3250`): a plan over two relays that is larger than the session's maximum is delayed for ever, and the
  executor polls until its timeout. `NobodyWaitsAlone` holds because `SessionMaxChunks` of `data_plane` admits every plan.
- **IPC handles.** `__exit__` closes a handle again if only the close of the memory raised (`resources.py:420-433`);
  an IPC handle opened with a negative offset is not closed (486-502). `close_direct_runtime_cache` empties locks
  that executions hold (`intent_executor.py:301-310`); the executions end all the same.
- **Session receipts.** `_require_runtime_buffer_record` (`runtime/validation.py:385-396`) refuses receipts of transfers
  whose `allocate_cpu_buffer` buffer is still in use, as in `examples/torch_tensor_fetch.py:92`; receipts of unfinished
  transfers are never finalised (66-75).
- **Session buffers.** A registration pass that fails cleans up other pending buffers of the session; a failed
  `register_cpu_buffer` releases the application's memory; `cleanup_buffer` forgets memory even when the daemon refuses.
  A close whose answer was lost keeps the job bound, `_target_gpu` stays bound after close, and a stale `_session_id` is
  not noticed.
- **Offload waits.** `wait_many` waits for the *last* handle of each block, and a second wait of a handle that failed
  returns silently. A rollback does not undo parameters or buckets that the failed step created, and a plain
  `optimizer.step()` outside the adapter is reverted by the adapter's next step.
- **Recovery.** `recover_transfer_state` archives a transfer that is still to run, with its ticket (`server.py:7246`).
  The outcome replaces the status later; but the receipts of the live transfer show the archived ticket from
  then on (`server.py:4321`, before the current one at 4325), also after a worker got a new one, until a
  completion stores its own (1337).
- **KV promises.** `turbobus.save_blocks` is not compared with `turbobus.matched_tokens` (`vllm_kv_connector.py:2157-2170`):
  a prefix saved with fewer blocks than its tokens fill is promised in full, loaded in part and reported as finished.
  When vLLM has computed a part of the prompt itself, the load takes as many blocks as the *other* tokens fill, but
  the first ones of the request (385-392), so that the last are not loaded. `RestoreIsWhole` says what holds in
  these cases, and that a load is whole in the others.
- **KV saves.** A forward pass that ends before all layers were saved loses its backing, and a runtime that fails to
  close leaves the free backings open. A continued chunk saves the new blocks of its step only.

As the code stands only relay-only transfers reach `complete` through the executor; the
properties of `retry` are about these, and would also bind the other paths once their reports are accepted.

## 7. Plan

1. `TransferDaemon`, `IntentLedger` and their proofs; `WorkerPool`; `WorkerLifecycle` and `IntentExecution`. *Done.*
2. The data plane (`LoadFeedback`, `TransferPlanner`, `DataPlane`) and the runtime caches (`CudaExecutor`). *Done.*
3. `Services`, `RuntimeSession`, `StateOffload` with `AtomicState`, `KVConnector`. *Done.*
4. Proofs for any number of executions, transfers and states: the pool, the state offload, the runtime caches, the
   quota counters, workers and intent executors, the KV connector, the runtime session. *Done.*
5. Proofs about the data plane, with its sums as `SumFunction`, its selections as `Filter` and its promotions in any
   order as a function over sets. *Done.*
6. A packed offload store with its range batches; the partial-failure relabelling of blocks once failures carry bytes.
