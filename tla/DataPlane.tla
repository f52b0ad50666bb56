------------------------------- MODULE DataPlane -------------------------------
(***************************************************************************)
(* The transfers of one target device from their plan to the copied bytes: *)
(* the daemon plans and admits them against the leases of the others,      *)
(* promotes the delayed ones, and registers the blocks of a plan           *)
(* (turbobus/daemon/server.py, block_runtime.py); the worker takes the     *)
(* plan of its ticket and copies (worker/cuda_executor.py); the client     *)
(* judges the worker's completion and reports it (intent_executor.py).     *)
(*                                                                         *)
(* TransferDaemon, WorkerLifecycle and IntentExecution have the protocol   *)
(* of leases, tickets and reports in full, and leave the plan a set of     *)
(* relays.  Here the plan is what the scheduler computes, chunk by chunk,  *)
(* and of the protocol only the steps that depend on it remain.            *)
(***************************************************************************)
EXTENDS TransferPlanner

CONSTANTS
    Transfers,
    RequestOf       \* what each transfer asks for; its job has one session

Request == [job: DOMAIN JobWeight, dir: {"h2d", "d2h"}, mode: Modes, ranges: Seq(Chunk),
            chunk: Nat \ {0}, bytes: Nat,
            workload: {"generic", "kv_cache", "model_weights", "training_state",
                       "optimizer_state"},
            priority: Nat]

ASSUME DataPlaneAssumption ==
    /\ DOMAIN RequestOf = Transfers /\ IsFiniteSet(Transfers)
    /\ \A t \in Transfers : /\ RequestOf[t] \in Request
                            /\ RequestOf[t].bytes = BytesOf(RequestOf[t].ranges)

VARIABLES
    xfer,       \* the daemon's record of each transfer
    worker,     \* the worker's execution of its ticket
    copied      \* the chunks that were copied for it, in order

vars == <<xfer, worker, copied>>

NoTransfer == [state |-> "none", plan |-> <<>>, leases |-> {}, staging |-> {},
               generation |-> 0, blocks |-> <<>>]
NoWorker == [pc |-> "idle", plan |-> <<>>, generation |-> 0]

Init ==
    /\ xfer = [t \in Transfers |-> NoTransfer]
    /\ worker = [t \in Transfers |-> NoWorker]
    /\ copied = [t \in Transfers |-> <<>>]

-----------------------------------------------------------------------------
\* What the daemon knows when it plans.

Unfinished(x) == {t \in Transfers : x[t].state \in {"delayed", "admitted", "running"}}
LeasedRelays(rec) == {l.relay : l \in rec.leases}

\* _runtime_resource_state_locked, of the given transfers
View(x, transfers) ==
    {[id |-> t, job |-> RequestOf[t].job, dir |-> RequestOf[t].dir,
      bytes |-> RequestOf[t].bytes, state |-> x[t].state,
      paths |-> {[relay |-> a.relay, chunks |-> Len(a.chunks), bytes |-> BytesOf(a.chunks)] :
                    a \in ToSet(x[t].plan)},
      leases |-> LeasedRelays(x[t]), staging |-> x[t].staging] : t \in transfers}

ChunksLeased(x, transfers, relays) ==
    SumFunction([t \in transfers |->
        SumFunction([l \in {m \in x[t].leases : m.relay \in relays} |-> l.chunks])])
OfSession(job) == {t \in Transfers : RequestOf[t].job = job}

\* Session.inflight_chunks and RelayQuota.inflight_chunks
QuotasFor(x, t) ==
    [session  |-> ChunksLeased(x, OfSession(RequestOf[t].job), Relays),
     relay    |-> [r \in Relays |-> ChunksLeased(x, Transfers, {r})],
     assigned |-> Relays, capable |-> TRUE]

\* Mutation of Issue: a promoted transfer keeps the blocks of its first plan.
IssueOldBlocks(rec, decision) ==
    [rec EXCEPT !.state = "admitted", !.plan = decision.plan, !.leases = decision.leases,
                !.generation = @ + 1,
                !.blocks = IF rec.blocks # <<>> THEN @ ELSE BlocksOf(decision.plan, 1)]

\* _commit_scheduler_leases_locked, _register_block_runtime_records_locked and
\* the ticket
Issue(rec, decision) ==
    [rec EXCEPT !.state = "admitted", !.plan = decision.plan, !.leases = decision.leases,
                !.generation = @ + 1, !.blocks = BlocksOf(decision.plan, rec.generation + 1)]

\* A delayed transfer keeps its plan, without leases.
Delay(rec, decision) ==
    [rec EXCEPT !.state = "delayed", !.plan = decision.plan, !.generation = @ + 1,
                !.blocks = BlocksOf(decision.plan, rec.generation + 1)]

\* _promote_delayed_transfer_locked: planned anew without its own record, and
\* admitted if its relays have become free.
PromotedBy(x, t, decision) ==
    IF AdmissionBlocked(View(x, Unfinished(x)), RequestOf[t], QuotasFor(x, t), decision.leases, FALSE)
    THEN x ELSE [x EXCEPT ![t] = Issue(@, decision)]

Promoted(x, t) ==
    PromotedBy(x, t, Decision(View(x, Unfinished(x) \ {t}), RequestOf[t], QuotasFor(x, t)))

\* _promote_delayed_transfers_locked, in any order of priority and age
Refreshed(x) ==
    LET delayed == {t \in Transfers : x[t].state = "delayed"}
        after[done \in SUBSET delayed] ==
            IF done = {} THEN {x}
            ELSE UNION {{Promoted(y, t) : y \in after[done \ {t}]} : t \in done}
    IN after[delayed]

\* The leases and staging records of a transfer go when it ends.
Retired(x, t, state) == [x EXCEPT ![t].state = state, ![t].leases = {}, ![t].staging = {}]

-----------------------------------------------------------------------------
\* Admission.

\* _plan_transfer and _admission_for_decision_locked
AdmittedBy(x, t, decision) ==
    [x EXCEPT ![t] =
        IF AdmissionBlocked(View(x, Unfinished(x)), RequestOf[t], QuotasFor(x, t),
                            decision.leases, TRUE)
        THEN Delay(@, decision) ELSE Issue(@, decision)]

Planned(x, t) == AdmittedBy(x, t, Decision(View(x, Unfinished(x)), RequestOf[t], QuotasFor(x, t)))

Submit(t) ==
    /\ xfer[t].state = "none"
    /\ \E x \in Refreshed(xfer) : xfer' = Planned(x, t)
    /\ UNCHANGED <<worker, copied>>

\* A client asks for its delayed transfer: describe_transfer refreshes admission.
Poll ==
    /\ xfer' \in Refreshed(xfer)
    /\ UNCHANGED <<worker, copied>>

\* The leases of an admitted transfer expire, or its session is reaped.
Expire(t) ==
    /\ xfer[t].state \in {"admitted", "running"}
    /\ xfer' \in Refreshed(Retired(xfer, t, "canceled"))
    /\ UNCHANGED <<worker, copied>>

-----------------------------------------------------------------------------
\* The worker.

\* authorize_worker_transfer and _exact_daemon_plan_payload: the staging records
\* are there before the worker looks at the plan.
Authorize(t) ==
    LET rec    == xfer[t]
        relays == LeasedRelays(rec)
        taken  == /\ LeasesMatch(rec.plan, rec.leases)
                  /\ PlanAccepted(rec.plan, relays, RelayRanges(rec.plan, relays))
    IN /\ worker[t].pc = "idle" /\ rec.state = "admitted" /\ rec.leases # {}
       /\ xfer' = [xfer EXCEPT ![t].staging = relays]
       /\ worker' = [worker EXCEPT ![t] =
             [pc |-> IF taken THEN "accepted" ELSE "refused", plan |-> ExactPlan(rec.plan),
              generation |-> rec.generation]]
       /\ UNCHANGED copied

\* The report is about the ticket that the daemon holds for the transfer.
Current(t) ==
    xfer[t].state \in {"admitted", "running"} /\ worker[t].generation = xfer[t].generation

\* advance_for_status, advance_from_worker_progress: _running_record and
\* _completed_record.  A reader of `complete` finds every block completed.
BlocksRunning(blocks) ==
    [i \in DOMAIN blocks |-> IF blocks[i].state \in {"completed", "failed", "canceled"}
                             THEN blocks[i] ELSE [blocks[i] EXCEPT !.state = "running"]]
BlocksCompleted(blocks) == [i \in DOMAIN blocks |-> [blocks[i] EXCEPT !.state = "completed"]]

\* The running report comes before the copy; refused, the worker fails.
ReportRunning(t) ==
    /\ worker[t].pc = "accepted"
    /\ IF Current(t)
       THEN /\ xfer' = [xfer EXCEPT ![t].state = "running", ![t].blocks = BlocksRunning(@)]
            /\ worker' = [worker EXCEPT ![t].pc = "copying"]
       ELSE /\ worker' = [worker EXCEPT ![t].pc = "failed"]
            /\ UNCHANGED xfer
    /\ UNCHANGED copied

\* submit_exact_plan: every chunk of the assignments, or some and a failure.
Copy(t) ==
    LET chunks == ChunksOn(worker[t].plan, Relays)
    IN /\ worker[t].pc = "copying"
       /\ \/ /\ copied' = [copied EXCEPT ![t] = @ \o chunks]
             /\ worker' = [worker EXCEPT ![t].pc = "complete"]
          \/ /\ \E k \in 0..(Len(chunks) - 1) :
                    copied' = [copied EXCEPT ![t] = @ \o SubSeq(chunks, 1, k)]
             /\ worker' = [worker EXCEPT ![t].pc = "failed"]
       /\ UNCHANGED xfer

-----------------------------------------------------------------------------
\* The client.

\* Mutation of WorkerCompletionValid: the bytes are not compared.
WorkerCompletionUnchecked(t) == worker[t].pc = "complete"

\* require_worker_completion_matches_request: as many bytes as the intent has
WorkerCompletionValid(t) ==
    worker[t].pc = "complete" /\ BytesOf(ChunksOn(worker[t].plan, Relays)) = RequestOf[t].bytes

\* Mutation of ReportComplete: the delayed transfers are not looked at.
ReportCompleteAlone(t) ==
    /\ WorkerCompletionValid(t)
    /\ worker' = [worker EXCEPT ![t].pc = "done"]
    /\ IF Current(t)
       THEN xfer' = [Retired(xfer, t, "complete") EXCEPT ![t].blocks = BlocksCompleted(@)]
       ELSE UNCHANGED xfer
    /\ UNCHANGED copied

\* _report_worker_completion; the daemon takes it while the ticket is current.
ReportComplete(t) ==
    /\ WorkerCompletionValid(t)
    /\ worker' = [worker EXCEPT ![t].pc = "done"]
    /\ IF Current(t)
       THEN xfer' \in Refreshed([Retired(xfer, t, "complete") EXCEPT
                                     ![t].blocks = BlocksCompleted(@)])
       ELSE UNCHANGED xfer
    /\ UNCHANGED copied

\* cleanup_planned_relay_leases after a failure, or after a completion that the
\* client does not believe: the transfer is canceled, its blocks stay as they are.
CleanUp(t) ==
    /\ \/ worker[t].pc \in {"failed", "refused"}
       \/ worker[t].pc = "complete" /\ ~WorkerCompletionValid(t)
    /\ worker' = [worker EXCEPT ![t].pc = "done"]
    /\ IF Current(t) THEN xfer' \in Refreshed(Retired(xfer, t, "canceled")) ELSE UNCHANGED xfer
    /\ UNCHANGED copied

\* execute_direct_fallback_transfer copies the ranges of the intent.  Its reports
\* are refused for want of an owner binding (IntentExecution), so that the
\* transfer stays admitted until it expires.
CopyDirect(t) ==
    /\ worker[t].pc = "idle" /\ xfer[t].state = "admitted" /\ RelaysOf(xfer[t].plan) = {}
    /\ copied' = [copied EXCEPT ![t] = @ \o RequestOf[t].ranges]
    /\ worker' = [worker EXCEPT ![t].pc = "done"]
    /\ UNCHANGED xfer

-----------------------------------------------------------------------------
WorkerStep(t) == Authorize(t) \/ ReportRunning(t) \/ Copy(t)
ClientStep(t) == ReportComplete(t) \/ CleanUp(t) \/ CopyDirect(t)

Next ==
    \/ Poll
    \/ \E t \in Transfers : Submit(t) \/ Expire(t) \/ WorkerStep(t) \/ ClientStep(t)

Spec == Init /\ [][Next]_vars

-----------------------------------------------------------------------------
\* Properties.

\* The addresses a copy of the chunks writes, with what it writes there.
Written(chunks) ==
    UNION {{<<c.dst + k, c.src + k>> : k \in 0..(c.bytes - 1)} : c \in ToSet(chunks)}

\* Every byte of the request was copied to its place, once.
CopiedOnce(t) ==
    /\ Written(copied[t]) = Written(RequestOf[t].ranges)
    /\ BytesOf(copied[t]) = RequestOf[t].bytes

\* A transfer the daemon calls complete was copied in full, by relays that were
\* planned one by one; a block called completed was copied (block_runtime.py:181).
CompleteMeansCopied ==
    \A t \in Transfers :
        /\ xfer[t].state = "complete" => CopiedOnce(t)
        /\ \A b \in ToSet(xfer[t].blocks) : b.state = "completed" => b.chunk \in ToSet(copied[t])

\* The blocks that the daemon shows of a transfer are the chunks of its present
\* plan, under the generation of its ticket, also after a promotion that chose
\* other relays (server.py:4212).
BlocksFollowPlan ==
    \A t \in Transfers : xfer[t].state # "none" =>
        LET blocks == xfer[t].blocks
        IN /\ \A b \in ToSet(blocks) : b.generation = xfer[t].generation
           /\ [i \in DOMAIN blocks |-> blocks[i].chunk]
                  = ChunksOn(xfer[t].plan, Relays \cup {Direct})

\* No worker refuses the plan of a ticket: what the scheduler, the leases and the
\* authorisation each derive from the plan agree (cuda_executor.py:1052).
WorkerTakesPlan == \A t \in Transfers : worker[t].pc # "refused"

\* No path of a plan ends later than another would with one chunk more
\* (planner_engine.py:206).
PlansAreBalanced ==
    \A t \in Transfers : \A a, b \in ToSet(xfer[t].plan) :
        BytesOf(a.chunks) * b.weight <= (BytesOf(b.chunks) + RequestOf[t].chunk) * a.weight

\* What is leased stays within the quotas of the sessions and the relays, although
\* every plan is made before its leases are admitted (server.py:3250).
LeasesWithinQuotas ==
    /\ \A j \in DOMAIN JobWeight : ChunksLeased(xfer, OfSession(j), Relays) <= SessionMaxChunks
    /\ \A r \in Relays : ChunksLeased(xfer, Transfers, {r}) <= RelayMaxChunks

\* A delayed transfer waits for another one that holds leases or copies.  Once the
\* last of those has ended, it has been promoted: no load feedback keeps relays
\* closed that nobody uses, and no end of a transfer forgets those that wait
\* (server.py:1404).
NobodyWaitsAlone ==
    \A t \in Transfers : xfer[t].state = "delayed" =>
        \E u \in Transfers : xfer[u].state \in {"admitted", "running"}

\* A worker that reports success has copied the whole transfer (README.md:11).
WorkerCopiesPlan == \A t \in Transfers : worker[t].pc = "complete" => CopiedOnce(t)
=============================================================================
