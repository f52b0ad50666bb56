--------------------------- MODULE WorkerLifecycle ---------------------------
(***************************************************************************)
(* A worker that executes relay transfers, talking to the daemon           *)
(* (turbobus/worker/lifecycle.py, submit_report_cleanup_lifecycle).        *)
(* Each call to the daemon is one step, so that anything may happen        *)
(* between two calls: another execution of the same transfer, a client     *)
(* that closes its session, the reapers, the clock.                        *)
(*                                                                         *)
(* The ticket_id of a ticket only names its transfer, so the evidence of a *)
(* report is matched by the plan generation and the owner_binding of the   *)
(* ticket.  What can differ in the owner_binding is the tuple lease_ids:   *)
(* the leases of the plan when the ticket was issued, in the order of      *)
(* their (random) ids in a ticket of the planner and in the order of their *)
(* relays in a ticket of an authorization.                                 *)
(***************************************************************************)
EXTENDS TransferDaemon, SequencesExt

CONSTANT Executions     \* calls of submit_report_cleanup_lifecycle

\* There is a session and a job to register first.
ASSUME LifecycleAssumption == SessionIds # {} /\ Jobs # {}

VARIABLES
    binding,    \* lease_ids of the current ticket of each transfer, as relays
    worker      \* the state of each execution

lifecycleVars == <<d, now, binding, worker>>

NoExecution ==
    [pc |-> "idle", transfer |-> None, relay |-> None, generation |-> 0,
     defers |-> FALSE,                  \* not report_terminal_status
     ticket |-> <<>>, expires |-> 0,    \* of the authorization
     scope |-> {},                      \* the leases the authorization covers,
     left |-> {},                       \* those still to clean up,
     cleaned |-> {},                    \* and those whose cleanup was no noop
     result |-> "none",
     slot |-> FALSE,                    \* a slot of the WorkerStagingPool is held
     final |-> "none"]

\* A capable session with its job and buffers is already registered.
Registered ==
    LET x == CHOOSE y \in SessionIds : TRUE
    IN [session         |-> [y \in SessionIds |->
                                IF y = x THEN [state |-> "open", capable |-> TRUE, seen |-> 1]
                                         ELSE NoSession],
        sessionChunks   |-> [y \in SessionIds |-> 0],
        attached        |-> [r \in Relays |-> {x}],
        relayChunks     |-> [r \in Relays |-> 0],
        jobs            |-> [j \in Jobs |-> x],
        buffers         |-> [b \in Buffers |-> CHOOSE j \in Jobs : TRUE],
        issued          |-> {},
        transfer        |-> [t \in Transfers |-> NoTransfer],
        intents         |-> [i \in Intents |-> None],
        leases          |-> {},
        archive         |-> [t \in Transfers |-> NoArchive],
        archivedIntents |-> [i \in Intents |-> None]]

LifecycleInit ==
    /\ now = 1
    /\ d = Registered
    /\ binding = [t \in Transfers |-> <<>>]
    /\ worker = [x \in Executions |-> NoExecution]

LeaseOn(s, t, r, g) ==
    {l \in s.leases : l.transfer = t /\ l.relay = r /\ l.generation = g}

\* _execution_ticket_for_intent_locked, for the transfers in T: the ticket names
\* the leases that the transfer still has, sorted by their ids.
IssueTickets(T) ==
    \E b \in [T -> SetToAllKPermutations(Relays)] :
        /\ \A t \in T : b[t] \in SetToSeqs({l.relay : l \in LeasesOf(d', {t})})
        /\ binding' = [t \in Transfers |-> IF t \in T THEN b[t] ELSE binding[t]]

\* A step of the daemon that issues a ticket only with a new plan.
PlanTickets ==
    IssueTickets({t \in Transfers :
                    d'.transfer[t].generation > d.transfer[t].generation})

\* A retry also replaces the ticket of its plan once that has run out
\* (_active_execution_ticket_for_transfer_locked).
RetryTickets(t) ==
    IssueTickets({u \in Transfers :
        \/ d'.transfer[u].generation > d.transfer[u].generation
        \/ u = t /\ d'.transfer[t].admission = "admitted" /\ now >= d'.transfer[t].expires})

\* _leases_for_worker_plan_locked: the leases of a plan, sorted by relay.
WorkerLeases(relays) == SetToSortSeq(relays, <)

-----------------------------------------------------------------------------
\* transfer_status, as the worker and the client's executor see it: a report of
\* state whose evidence has the plan generation g and the lease_ids k (None: it
\* has no owner_binding) is answered ok or refused.

Unfinished(t) == t \in Live(d) \ Finished(d)

\* Mutation of MatchesTicket: the plan generation alone will do.
MatchesTicketPlan(t, g, k) == g = d.transfer[t].generation

\* _normalize_ticket_binding and _normalize_evidence_owner_binding
MatchesTicket(t, g, k) == g = d.transfer[t].generation /\ k = binding[t]

Accepts(t, g, k, state) ==
    /\ d.transfer[t].ticket # 0
    /\ MatchesTicket(t, g, k)
    /\ state \in {"running", "complete"} => AdmissionValid(d, t)

\* A report on an unfinished transfer is recorded, or it is refused and may find
\* out that the plan has expired.
ReportUnfinished(t, g, k, state, ok) ==
    /\ Unfinished(t)
    /\ ok = Accepts(t, g, k, state)
    /\ \/ ok /\ state = "running"  /\ ReportRunning(t, 0)
       \/ ok /\ state = "complete" /\ ReportComplete(t, TotalBytes)
       \/ ok /\ state = "failed"   /\ ReportFailure(t, "failed", 0)
       \/ /\ ~ok
          /\ d' = IF state # "failed" /\ PlanExpired(d, t) THEN ExpireAdmission(d, t) ELSE d
          /\ UNCHANGED now

\* _handle_terminal_transfer_status_update_locked: a finished transfer only takes
\* the same report again, from the ticket that ended it, and so of the last plan.
\* (A second failure must also have the same error text.)
ReportFinished(t, g, k, state, ok) ==
    /\ ~Unfinished(t)
    /\ LET repeats == Outcome(d, t).state = state /\ k = binding[t]
       IN IF state = "failed" THEN ok => repeats ELSE ok = repeats
    /\ d' = IF ok THEN Archive(d, {t}) ELSE d
    /\ UNCHANGED now

TransferStatus(t, g, k, state, ok) ==
    ReportUnfinished(t, g, k, state, ok) \/ ReportFinished(t, g, k, state, ok)

\* cleanup of the lease on relay r; a lease that is gone is a noop.
CleanupRelay(t, r, g, workerComplete) ==
    LET L == LeaseOn(d, t, r, g)
    IN /\ L = {} => UNCHANGED <<d, now>>
       /\ \A l \in L : CleanupReservation(l, workerComplete)

-----------------------------------------------------------------------------
\* submit_report_cleanup_lifecycle, one call to the daemon at a time.

WorkerSubmit(x, t, r, g, defers) ==
    /\ worker[x].pc = "idle"
    /\ worker' = [worker EXCEPT ![x] =
          [NoExecution EXCEPT !.pc = "authorize", !.transfer = t, !.relay = r,
                              !.generation = g, !.defers = defers]]

\* Authorized: the daemon issues a ticket for all the leases of the plan.
WorkerAuthorized(x) ==
    LET w == worker[x]
        s == ReapStaleSessions(d)
    IN /\ w.pc = "authorize"
       /\ \E l \in LeaseOn(s, w.transfer, w.relay, w.generation) :
            /\ AuthorizeWorkerTransfer(w.transfer, l, FALSE)
            /\ LET relays == s.transfer[w.transfer].relays
               IN /\ binding' = [binding EXCEPT ![w.transfer] = WorkerLeases(relays)]
                  /\ worker' = [worker EXCEPT ![x].pc = "allocate",
                                   ![x].ticket = WorkerLeases(relays),
                                   ![x].expires = l.expires, ![x].scope = relays]

\* Refused.  The refusals a lease of the transfer itself can meet carry no
\* cleanup payload, so nothing is cleaned up.
WorkerUnauthorized(x) ==
    LET w == worker[x]
        s == ReapStaleSessions(d)
        L == LeaseOn(s, w.transfer, w.relay, w.generation)
    IN /\ w.pc = "authorize"
       /\ \A l \in L : ~Authorizable(s, w.transfer, l, FALSE)
       /\ IF w.transfer \in Live(s) \ Finished(s) /\ \E l \in L : now > l.expires
          THEN \E l \in L : PresentExpiredLease(l)
          ELSE d' = s /\ UNCHANGED now
       /\ worker' = [worker EXCEPT ![x].pc = "returned", ![x].final = "authorization_failed"]
       /\ UNCHANGED binding

\* The worker checks the ticket it was given, then takes a staging slot.
WorkerAllocate(x) ==
    LET w == worker[x]
    IN /\ w.pc = "allocate"
       /\ worker' = [worker EXCEPT ![x] =
             IF now > w.expires
             THEN [w EXCEPT !.pc = "cleanup", !.left = w.scope, !.final = "authorization_failed"]
             ELSE [w EXCEPT !.pc = "running", !.slot = TRUE]]
       /\ UNCHANGED <<d, now, binding>>

\* Mutation of StatusFailed: the slot is kept.
StatusFailedKeepingSlot(w) ==
    [w EXCEPT !.pc = "cleanup", !.left = w.scope, !.final = "status_failed"]

\* A refused report releases the slot first and the leases next.
StatusFailed(w) ==
    [w EXCEPT !.pc = "cleanup", !.left = w.scope, !.slot = FALSE, !.final = "status_failed"]

WorkerReportRunning(x) ==
    LET w == worker[x]
    IN /\ w.pc = "running"
       /\ \E ok \in BOOLEAN :
            /\ TransferStatus(w.transfer, w.generation, w.ticket, "running", ok)
            /\ worker' = [worker EXCEPT ![x] =
                  IF ok THEN [w EXCEPT !.pc = "execute"] ELSE StatusFailed(w)]
       /\ PlanTickets

Executed(w, result) ==
    [w EXCEPT !.result = result,
              !.pc = IF w.defers THEN "cleanup" ELSE "report", !.left = w.scope]

\* _execute: an expired ticket, or a transfer that the pool already runs, fails.
WorkerExecute(x) ==
    LET w == worker[x]
        busy == \E y \in Executions : /\ worker[y].pc = "copying"
                                      /\ worker[y].transfer = w.transfer
    IN /\ w.pc = "execute"
       /\ worker' = [worker EXCEPT ![x] =
             IF now > w.expires \/ busy THEN Executed(w, "failed")
                                        ELSE [w EXCEPT !.pc = "copying"]]
       /\ UNCHANGED <<d, now, binding>>

WorkerCopied(x) ==
    /\ worker[x].pc = "copying"
    /\ \E result \in {"complete", "failed"} :
         worker' = [worker EXCEPT ![x] = Executed(worker[x], result)]
    /\ UNCHANGED <<d, now, binding>>

\* Mutation of WorkerReport: a refusal goes unnoticed.
WorkerReportUnchecked(x) ==
    LET w == worker[x]
    IN /\ w.pc = "report"
       /\ \E ok \in BOOLEAN : TransferStatus(w.transfer, w.generation, w.ticket, w.result, ok)
       /\ worker' = [worker EXCEPT ![x].pc = "cleanup"]
       /\ PlanTickets

WorkerReport(x) ==
    LET w == worker[x]
    IN /\ w.pc = "report"
       /\ \E ok \in BOOLEAN :
            /\ TransferStatus(w.transfer, w.generation, w.ticket, w.result, ok)
            /\ worker' = [worker EXCEPT ![x] =
                  IF ok THEN [w EXCEPT !.pc = "cleanup"] ELSE StatusFailed(w)]
       /\ PlanTickets

\* The reason is "worker_complete" only for a copy that succeeded and whose
\* reports were accepted.
CleanupReason(w) == w.final = "none" /\ w.result = "complete"

\* _cleanup_lease_ids
WorkerCleanup(x) ==
    LET w == worker[x]
    IN /\ w.pc = "cleanup"
       /\ \E r \in w.left :
            /\ CleanupRelay(w.transfer, r, w.generation, CleanupReason(w))
            /\ worker' = [worker EXCEPT ![x].left = @ \ {r},
                   ![x].cleaned = IF LeaseOn(d, w.transfer, r, w.generation) = {}
                                  THEN @ ELSE @ \cup {r}]
       /\ PlanTickets

\* The record of an execution that went through; a refused one has released its
\* slot already.
Returned(w) ==
    [w EXCEPT !.pc = "returned",
              !.slot = w.slot /\ w.final # "none",
              !.final = IF w.final = "none" THEN w.result ELSE w.final]

\* The lifecycle record is returned, or first the cleanup evidence is reported.
WorkerCleaned(x) ==
    LET w == worker[x]
    IN /\ w.pc = "cleanup" /\ w.left = {}
       /\ worker' = [worker EXCEPT ![x] =
             IF w.result = "none" \/ w.defers THEN Returned(w)
                                              ELSE [w EXCEPT !.pc = "evidence"]]
       /\ UNCHANGED <<d, now, binding>>

\* _report_cleanup_evidence: the terminal report once more; the answer is kept
\* but not looked at.
WorkerEvidence(x) ==
    LET w == worker[x]
    IN /\ w.pc = "evidence"
       /\ \E ok \in BOOLEAN : TransferStatus(w.transfer, w.generation, w.ticket, w.result, ok)
       /\ worker' = [worker EXCEPT ![x] = Returned(w)]
       /\ PlanTickets

WorkerStep(x) ==
    \/ WorkerAuthorized(x) \/ WorkerUnauthorized(x)
    \/ WorkerAllocate(x) \/ WorkerReportRunning(x)
    \/ WorkerExecute(x) \/ WorkerCopied(x) \/ WorkerReport(x)
    \/ WorkerCleanup(x) \/ WorkerCleaned(x) \/ WorkerEvidence(x)

WorkerEnded == {"idle", "returned", "crashed"}

\* A call to the daemon fails, or its answer is lost: only a failure to report
\* the evidence of a refused report is caught; the slot is not released.
WorkerRaise(x) ==
    LET w == worker[x]
    IN /\ w.pc \notin WorkerEnded \cup {"copying"}
       /\ worker' = [worker EXCEPT ![x] =
             IF w.pc = "evidence" /\ w.final # "none" THEN Returned(w)
                                                      ELSE [w EXCEPT !.pc = "crashed"]]
       /\ UNCHANGED <<d, now, binding>>

\* The worker process dies with everything it runs.
WorkerCrash ==
    /\ \E x \in Executions : worker[x].pc \notin WorkerEnded
    /\ worker' = [x \in Executions |->
          IF worker[x].pc \in WorkerEnded THEN [worker[x] EXCEPT !.slot = FALSE]
          ELSE [worker[x] EXCEPT !.pc = "crashed", !.slot = FALSE]]
    /\ UNCHANGED <<d, now, binding>>

\* What else happens at the daemon meanwhile.
Environment ==
    /\ \/ ReapStale
       \/ Refresh
       \/ \E x \in SessionIds : CloseSession(x)
       \/ \E j \in Jobs : CleanupJob(j)
       \/ \E t \in Transfers : RecoverTransferState(t)
       \/ Tick
    /\ PlanTickets
    /\ UNCHANGED worker

\* A client that hands its leases to the worker itself; the worker reports the
\* terminal status (report_terminal_status is true unless the caller says so).
ClientSubmit(i, x, t) ==
    /\ SubmitTransferIntent(i, x, t)
    /\ PlanTickets
    /\ UNCHANGED worker

ClientRetry(i, x) ==
    /\ ResubmitTransferIntent(i, x)
    /\ RetryTickets(d.intents[i])
    /\ UNCHANGED worker

ClientExecute(x) ==
    /\ \E l \in d.leases : WorkerSubmit(x, l.transfer, l.relay, l.generation, FALSE)
    /\ UNCHANGED <<d, now, binding>>

LifecycleNext ==
    \/ \E i \in Intents, x \in SessionIds, t \in Transfers : ClientSubmit(i, x, t)
    \/ \E i \in Intents, x \in SessionIds : ClientRetry(i, x)
    \/ \E x \in Executions : ClientExecute(x) \/ WorkerStep(x) \/ WorkerRaise(x)
    \/ WorkerCrash
    \/ Environment

LifecycleSpec == LifecycleInit /\ [][LifecycleNext]_lifecycleVars

-----------------------------------------------------------------------------
\* Properties.

\* However the execution went (refused, failed, overtaken by another one, its
\* session closed), a worker that returns holds no staging slot, and none of the
\* leases its ticket covered is still out (lifecycle.py:1029).
WorkerHandsBack ==
    \A x \in Executions : worker[x].pc = "returned" =>
        /\ ~worker[x].slot
        /\ \A r \in worker[x].scope :
              LeaseOn(d, worker[x].transfer, r, worker[x].generation) = {}

\* A transfer is only ever complete because an execution copied it, under a ticket
\* that covers the same leases as the one the daemon last issued for it: a retry
\* that replaces the ticket takes the transfer away from the worker
\* (server.py:1500, evidence.py:432).
CompletionIsEarned ==
    \A t \in Transfers : Outcome(d, t).state = "complete" =>
        \E x \in Executions : /\ worker[x].transfer = t
                              /\ worker[x].result = "complete"
                              /\ worker[x].ticket = binding[t]

\* What a reporting worker returns is what the daemon recorded.
FinalIsTruthful ==
    \A x \in Executions :
        worker[x].pc = "returned" /\ ~worker[x].defers
            /\ worker[x].final \in {"complete", "failed"} =>
        Outcome(d, worker[x].transfer).state = worker[x].final

=============================================================================
