--------------------------- MODULE IntentExecution ---------------------------
(***************************************************************************)
(* A client that executes a transfer intent (turbobus/intent_executor.py,  *)
(* intent_execution_support.py, direct_fallback.py) with the worker and    *)
(* the daemon.  The executor submits the intent, waits for its admission,  *)
(* and either copies on the direct path itself or hands the leases to the  *)
(* worker, which defers the terminal status to the executor.               *)
(*                                                                         *)
(* The daemon asks for the owner_binding of its ticket in every report.    *)
(* The executor sends it only where it passes on the evidence of a worker  *)
(* for a plan that is relays only: the evidence of a mixed plan is merged  *)
(* without it, and that of the direct path and of _mark_transfer_failed    *)
(* never has it.                                                           *)
(***************************************************************************)
EXTENDS WorkerLifecycle

CONSTANTS
    MixedIntents,       \* intents whose relay plans also have direct bytes
    MaxFaults,          \* bound: clients and worker executions that die
    LastFault,          \* bound: when they die at the latest
    MaxBegun            \* bound: executions that have begun when one dies

ASSUME IntentExecutionAssumption ==
    /\ MixedIntents \subseteq Intents
    /\ MaxFaults \in Nat /\ LastFault \in Nat /\ MaxBegun \in Nat

VARIABLE executor

executionVars == <<d, now, binding, worker, executor>>

NoExecutor ==
    [pc |-> "idle", intent |-> None, transfer |-> None,
     planned |-> {},                    \* relays of the payload's plan
     relays |-> {}, left |-> {},        \* lease tokens of the payload
     generation |-> 0, expires |-> 0,   \* of the payload's ticket
     copied |-> FALSE, end |-> "none"]

AtWork == {x \in Executions : executor[x].pc \notin {"idle", "ended", "dead"}}

Faults == {x \in Executions : executor[x].pc = "dead" \/ worker[x].pc = "crashed"}

ExecutionInit == LifecycleInit /\ executor = [x \in Executions |-> NoExecutor]

\* An execution ends with a completion or a failure the daemon accepted, with the
\* receipt of an intent that had ended before, or with an exception (not admitted,
\* a lease refused, a report refused).
EndWith(x, end) == executor' = [executor EXCEPT ![x].pc = "ended", ![x].end = end]

-----------------------------------------------------------------------------
\* Admission.

\* What the executor does with the execution payload of the response: wait, give
\* up, copy directly, fail a relay plan without leases, or go to the worker.
\* Without a worker client it returns the leases and fails the transfer.
Payloads(i) ==
    LET t == d'.intents[i]
        r == d'.transfer[t]
        tokens == {l.relay : l \in LeasesOf(d', {t})}
        p == [NoExecutor EXCEPT !.intent = i, !.transfer = t, !.planned = r.relays,
                !.relays = tokens, !.left = tokens, !.generation = r.generation,
                !.expires = r.expires]
        lapsed == r.admission = "expired" \/ (r.admission = "admitted" /\ now > r.expires)
        next == IF r.admission = "delayed" THEN {"delayed"}
                ELSE IF lapsed THEN {"ended"}
                ELSE IF tokens # {} THEN {"validate", "cleanup"}
                ELSE IF r.relays = {} THEN {"direct"} ELSE {"markFailed"}
    IN {[p EXCEPT !.pc = pc, !.end = IF pc = "ended" THEN "unadmitted" ELSE "none"] : pc \in next}

\* submit_transfer_intent and execute_transfer_intent, up to the first decision.
SubmitIntent(x, i, y) ==
    /\ executor[x].pc \in {"idle", "delayed"}
    /\ executor[x].intent \in {None, i}
    /\ Faults = {} \/ AtWork \subseteq {x}
    /\ \/ /\ HasTerminalReceipt(d, i)
          /\ EndWith(x, "receipt")
          /\ UNCHANGED <<d, now, binding>>
       \/ /\ ~HasTerminalReceipt(d, i)
          /\ \/ \E t \in Transfers : SubmitTransferIntent(i, y, t) /\ PlanTickets
             \/ ResubmitTransferIntent(i, y) /\ RetryTickets(d.intents[i])
          /\ \E p \in Payloads(i) : executor' = [executor EXCEPT ![x] = p]
       \/ /\ ~HasTerminalReceipt(d, i)
          /\ \E s \in {d} \cup RefreshAdmission(ReapStaleSessions(d)) :
                ~OwnersRegistered(s, i, y) /\ d' = s
          /\ EndWith(x, "unadmitted")
          /\ PlanTickets
          /\ UNCHANGED now
    /\ UNCHANGED worker

\* The admission retry timeout of _admitted_intent_execution_payload.
GiveUp(x) ==
    /\ executor[x].pc = "delayed"
    /\ EndWith(x, "unadmitted")
    /\ UNCHANGED <<d, now, binding, worker>>

-----------------------------------------------------------------------------
\* The relay path.

\* validate_lease, for one lease token.  A refusal is raised; the leases stay.
ValidateLease(x) ==
    LET e == executor[x]
        s == ReapStaleSessions(d)
    IN /\ e.pc = "validate"
       /\ \E r \in e.left :
            LET L == LeaseOn(s, e.transfer, r, e.generation)
                valid == L # {} /\ AdmissionValid(s, e.transfer)
                            /\ e.transfer \notin Finished(s)
            IN /\ IF \E l \in L : now > l.expires
                  THEN \E l \in L : PresentExpiredLease(l)
                  ELSE d' = s /\ UNCHANGED now
               /\ IF valid THEN executor' = [executor EXCEPT ![x].left = @ \ {r}]
                           ELSE EndWith(x, "unvalidated")
       /\ UNCHANGED <<binding, worker>>

\* submit_worker_execution with the first lease token; the worker must not
\* report the terminal status.
SubmitWorkerExecution(x) ==
    LET e == executor[x]
    IN /\ e.pc = "validate" /\ e.left = {} /\ e.relays = e.planned
       /\ executor' = [executor EXCEPT ![x].pc = "worker", ![x].left = e.relays]
       /\ \E r \in e.relays : WorkerSubmit(x, e.transfer, r, e.generation, TRUE)
       /\ UNCHANGED <<d, now, binding>>

\* require_worker_plan_matches_leases: some lease of the plan is gone already.
PlanWithoutLeases(x) ==
    LET e == executor[x]
    IN /\ e.pc = "validate" /\ e.left = {} /\ e.relays # e.planned
       /\ executor' = [executor EXCEPT ![x].pc = "cleanup", ![x].left = e.relays]
       /\ UNCHANGED <<d, now, binding, worker>>

\* require_worker_completion_matches_request: the worker's word is taken only
\* with the cleanup of every lease, and only if it copied as many bytes as the
\* intent has.  A worker copies none of the direct bytes of a mixed plan.
ValidCompletion(w, i) ==
    /\ w.pc = "returned"
    /\ w.final \in {"complete", "failed"}
    /\ w.cleaned = w.scope
    /\ w.final = "complete" => i \notin MixedIntents

\* _receipt_for_worker_terminal_state, and the exceptions of
\* _submit_worker_managed_execution
WorkerAnswer(x) ==
    LET w == worker[x]
    IN /\ executor[x].pc = "worker"
       /\ w.pc \in {"returned", "crashed"}
       /\ executor' = [executor EXCEPT ![x].pc =
             IF ~ValidCompletion(w, executor[x].intent) THEN "cleanup"
             ELSE IF w.final = "complete" THEN "reportComplete" ELSE "reportFailure"]
       /\ UNCHANGED <<d, now, binding, worker>>

\* Mutation of WorkerProof: the owner_binding is never passed on.
WorkerProofUnbound(x) == None

\* _relay_only_completion_evidence keeps the owner_binding of the worker's
\* evidence; _merge_mixed_completion_evidence does not.  The same of failures.
WorkerProof(x) ==
    IF executor[x].intent \in MixedIntents THEN None ELSE worker[x].ticket

\* Mutation of ReportWorkerCompletion: the answer is not looked at.
ReportWorkerCompletionUnchecked(x) ==
    LET e == executor[x]
    IN /\ e.pc = "reportComplete"
       /\ \E ok \in BOOLEAN :
            TransferStatus(e.transfer, e.generation, WorkerProof(x), "complete", ok)
       /\ EndWith(x, "complete")
       /\ PlanTickets
       /\ UNCHANGED worker

\* _report_worker_completion
ReportWorkerCompletion(x) ==
    LET e == executor[x]
    IN /\ e.pc = "reportComplete"
       /\ \E ok \in BOOLEAN :
            /\ TransferStatus(e.transfer, e.generation, WorkerProof(x), "complete", ok)
            /\ EndWith(x, IF ok THEN "complete" ELSE "unreported")
       /\ PlanTickets
       /\ UNCHANGED worker

\* _report_deferred_worker_failure
ReportWorkerFailure(x) ==
    LET e == executor[x]
    IN /\ e.pc = "reportFailure"
       /\ \E ok \in BOOLEAN :
            /\ TransferStatus(e.transfer, e.generation, WorkerProof(x), "failed", ok)
            /\ EndWith(x, IF ok THEN "failed" ELSE "unreported")
       /\ PlanTickets
       /\ UNCHANGED worker

\* Mutation of CleanupPlannedLease: the leases are left to expire.
CleanupPlannedLeaseSkipped(x) ==
    /\ executor[x].pc = "cleanup"
    /\ executor[x].left # {}
    /\ executor' = [executor EXCEPT ![x].left = {}]
    /\ UNCHANGED <<d, now, binding, worker>>

\* cleanup_planned_relay_leases
CleanupPlannedLease(x) ==
    LET e == executor[x]
    IN /\ e.pc = "cleanup"
       /\ \E r \in e.left :
            /\ CleanupRelay(e.transfer, r, e.generation, FALSE)
            /\ executor' = [executor EXCEPT ![x].left = @ \ {r}]
       /\ PlanTickets
       /\ UNCHANGED worker

\* _mark_transfer_failed: a failure report that names no owner
FailTransfer(x) ==
    LET e == executor[x]
    IN /\ \E ok \in BOOLEAN :
            /\ TransferStatus(e.transfer, e.generation, None, "failed", ok)
            /\ EndWith(x, IF ok THEN "failed" ELSE "unreported")
       /\ PlanTickets
       /\ UNCHANGED worker

\* _fail_transfer_without_worker_client and _without_relay_leases, and the same
\* after a worker that is not believed: once what leases there are have been
\* cleaned up.
MarkTransferFailed(x) ==
    /\ executor[x].pc = "markFailed" \/ (executor[x].pc = "cleanup" /\ executor[x].left = {})
    /\ FailTransfer(x)

-----------------------------------------------------------------------------
\* The direct path (execute_direct_fallback_transfer).

\* An expired ticket is found before the copy; the failure is then reported
\* without evidence, which the daemon refuses.
DirectCopy(x) ==
    /\ executor[x].pc = "direct"
    /\ IF now > executor[x].expires
       THEN EndWith(x, "unreported")
       ELSE \E ok \in BOOLEAN :
              executor' = [executor EXCEPT ![x].pc = "directCopied", ![x].copied = ok]
    /\ UNCHANGED <<d, now, binding, worker>>

\* The first report.  A failure is raised after its report, whatever the answer.
DirectReport(x) ==
    LET e == executor[x]
    IN /\ e.pc = "directCopied"
       /\ \E ok \in BOOLEAN :
            /\ TransferStatus(e.transfer, e.generation, None,
                              IF e.copied THEN "complete" ELSE "failed", ok)
            /\ CASE e.copied /\ ok -> EndWith(x, "complete")
                 [] e.copied /\ ~ok -> executor' = [executor EXCEPT ![x].pc = "directRefused"]
                 [] OTHER -> EndWith(x, IF ok THEN "failed" ELSE "unreported")
       /\ PlanTickets
       /\ UNCHANGED worker

\* A refused completion is followed by a failure report.
DirectRefused(x) == executor[x].pc = "directRefused" /\ FailTransfer(x)

-----------------------------------------------------------------------------
\* The client process dies with all it knew; its sessions close when the daemon
\* notices.
ClientCrash(x) ==
    /\ x \in AtWork
    /\ executor' = [executor EXCEPT ![x] = [NoExecutor EXCEPT !.pc = "dead"]]
    /\ UNCHANGED <<d, now, binding, worker>>

ExecutorStep(x) ==
    \/ GiveUp(x) \/ ValidateLease(x) \/ SubmitWorkerExecution(x)
    \/ PlanWithoutLeases(x) \/ WorkerAnswer(x)
    \/ ReportWorkerCompletion(x) \/ ReportWorkerFailure(x)
    \/ CleanupPlannedLease(x) \/ MarkTransferFailed(x)
    \/ DirectCopy(x) \/ DirectReport(x) \/ DirectRefused(x)

\* Bounds: MaxFaults deaths, until LastFault, while at most MaxBegun executions have
\* begun.  With MaxBegun = 1 a retry comes either beside the first execution, and
\* nobody dies, or after its death.  (With one worker execution under way a call of the worker
\* that raises, WorkerRaise, is to the executor what the death of the worker is.)
MayFail ==
    /\ Cardinality(Faults) < MaxFaults /\ now <= LastFault
    /\ Cardinality({x \in Executions : executor[x].pc # "idle"}) <= MaxBegun

ExecutionNext ==
    \/ \E x \in Executions :
         \/ \E i \in Intents, y \in SessionIds : SubmitIntent(x, i, y)
         \/ ExecutorStep(x)
         \/ MayFail /\ ClientCrash(x)
         \/ WorkerStep(x) /\ UNCHANGED executor
         \/ MayFail /\ WorkerRaise(x) /\ UNCHANGED executor
    \/ MayFail /\ WorkerCrash /\ UNCHANGED executor
    \/ Environment /\ UNCHANGED executor

ExecutionSpec == ExecutionInit /\ [][ExecutionNext]_executionVars

-----------------------------------------------------------------------------
\* Properties.

\* A receipt only says complete if some execution copied every byte: an executor
\* on the direct path, or a worker under a ticket that covers the same leases as
\* the one the daemon last issued for the transfer.
NoFalseCompletion ==
    \A t \in Transfers : Outcome(d, t).state = "complete" =>
        \E x \in Executions :
            \/ executor[x].transfer = t /\ executor[x].copied
            \/ /\ worker[x].transfer = t /\ worker[x].result = "complete"
               /\ worker[x].ticket = binding[t]

\* Once the executor has told its caller that the transfer completed or failed,
\* the daemon's receipt says the same, for ever after.
ResultIsDurable ==
    \A x \in Executions : executor[x].end \in {"complete", "failed"} =>
        Outcome(d, executor[x].transfer).state = executor[x].end

\* An execution that got past the validation of its leases, and ended, has
\* returned every lease its payload named, also where the worker crashed.
NoLeaseLeftBehind ==
    \A x \in Executions :
        executor[x].pc = "ended" /\ executor[x].end \in {"complete", "failed", "unreported"} =>
            \A r \in executor[x].relays :
                LeaseOn(d, executor[x].transfer, r, executor[x].generation) = {}

\* The transfer is unfinished and its plan has not expired.
Reportable(t) == Unfinished(t) /\ AdmissionValid(d, t)

\* The completion that an executor reports for its worker is recorded, unless the
\* transfer ended, its plan expired or its ticket was replaced meanwhile
\* (intent_executor.py:540, :566).
CompletionAccepted ==
    [][\A x \in Executions :
         /\ executor[x].pc = "reportComplete" /\ executor'[x].pc = "ended"
         /\ Reportable(executor[x].transfer)
         /\ worker[x].ticket = binding[executor[x].transfer]
         => executor'[x].end = "complete"]_executionVars
=============================================================================
