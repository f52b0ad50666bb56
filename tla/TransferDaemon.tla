--------------------------- MODULE TransferDaemon ---------------------------
(***************************************************************************)
(* The TurboBus daemon's transfer control plane (turbobus/daemon/server.py)*)
(* The socket server handles one request at a time, under the daemon's     *)
(* lock, so a handler is one atomic step, also where it takes the lock more*)
(* than once.  The daemon's dictionaries are the fields of the one         *)
(* variable d; the private `..._locked` helpers of the code are operators  *)
(* from such a state to the next, and a handler composes them in the order *)
(* the code calls them.  A loop over leases or transfers is the operator   *)
(* applied to the whole set: its iterations touch disjoint entries.        *)
(*                                                                         *)
(* The cost model, the load feedback and the fairness heuristics, which    *)
(* work on measured bandwidths, are a nondeterministic choice among the    *)
(* decisions the chunk quotas allow.                                       *)
(***************************************************************************)
EXTENDS Integers, FiniteSets, Functions

CONSTANTS
    SessionIds, Transfers,     \* the uuids handed out; an id is never reused
    Jobs, Buffers, Intents,    \* identifiers the clients choose
    Relays,                    \* the relay GPUs of the one target device
    IntentJob, IntentBuffers,  \* what a transfer intent names
    SessionMaxChunks,          \* Session.max_inflight_chunks
    RelayMaxChunks,            \* RelayQuota.max_inflight_chunks
    RelayMaxSessions,          \* RelayQuota.max_sessions
    LeaseSeconds,              \* lifetime of a scheduler lease
    PlanSeconds,               \* lifetime of a plan that holds no lease
    SessionTimeout,            \* session_timeout_seconds; 0 disables the reaper
    TotalBytes,                \* bytes_total of every transfer
    MaxTime,                   \* bound on the clock
    None

ASSUME ConstantsAssumption ==
    /\ IsFiniteSet(Relays)
    /\ IntentJob \in [Intents -> Jobs]
    /\ IntentBuffers \in [Intents -> SUBSET Buffers]
    /\ SessionMaxChunks \in Nat /\ RelayMaxChunks \in Nat /\ RelayMaxSessions \in Nat
    /\ LeaseSeconds \in Nat \ {0} /\ PlanSeconds \in Nat \ {0}
    /\ SessionTimeout \in Nat /\ TotalBytes \in Nat /\ MaxTime \in Nat
    /\ None \notin SessionIds \cup Transfers \cup Jobs \cup Intents

VARIABLES
    d,      \* the dictionaries of TurboBusDaemon
    now     \* time.time()

vars == <<d, now>>

-----------------------------------------------------------------------------
\* The dictionaries.

Terminal == {"complete", "failed", "canceled"}
States   == {"submitted", "running"} \cup Terminal
AdmissionStates == {"none", "admitted", "delayed", "expired", "failed", "canceled"}

\* _transfer_statuses, _transfer_plan_requests, _transfer_admissions,
\* _transfer_plan_generations, _transfer_plan_expirations, _transfer_plans,
\* _transfer_queue and _transfer_tickets of one transfer; retiring a transfer
\* pops it from all of them.
TransferRec ==
    [state: States \cup {"absent"}, bytes: 0..TotalBytes,
     session: SessionIds \cup {None}, intent: Intents \cup {None},
     admission: AdmissionStates, generation: Nat, expires: Nat,
     relays: SUBSET Relays, queued: BOOLEAN, ticket: Nat]

NoTransfer ==
    [state |-> "absent", bytes |-> 0, session |-> None, intent |-> None,
     admission |-> "none", generation |-> 0, expires |-> 0,
     relays |-> {}, queued |-> FALSE, ticket |-> 0]

\* _reservations, _lease_tokens, _lease_plan_generations, _staging_records and
\* _reservation_transfers of one lease.  A plan takes at most one lease per
\* relay, so transfer, relay and generation identify it.
LeaseRec ==
    [transfer: Transfers, relay: Relays, generation: Nat, session: SessionIds,
     chunks: Nat, expires: Nat, staged: Transfers \cup {None}]

SessionRec ==
    [state: {"unused", "open", "closed"}, capable: BOOLEAN, seen: Nat]

NoSession == [state |-> "unused", capable |-> FALSE, seen |-> 0]

\* The frozen status of a transfer in _transfer_receipt_archive.  A transfer that
\* still runs has one too once its recovery state was asked for.
ArchiveRec == [state: States \cup {"absent"}, bytes: 0..TotalBytes]
NoArchive  == [state |-> "absent", bytes |-> 0]

Init ==
    /\ now = 1
    /\ d = [session         |-> [x \in SessionIds |-> NoSession],
            sessionChunks   |-> [x \in SessionIds |-> 0],
            attached        |-> [r \in Relays |-> {}],
            relayChunks     |-> [r \in Relays |-> 0],
            jobs            |-> [j \in Jobs |-> None],
            buffers         |-> [b \in Buffers |-> None],
            issued          |-> {},
            transfer        |-> [t \in Transfers |-> NoTransfer],
            intents         |-> [i \in Intents |-> None],
            leases          |-> {},
            archive         |-> [t \in Transfers |-> NoArchive],
            archivedIntents |-> [i \in Intents |-> None]]

Open(s)      == {x \in SessionIds : s.session[x].state = "open"}
Live(s)      == {t \in Transfers : s.transfer[t].state # "absent"}
Finished(s)  == {t \in Live(s) : s.transfer[t].state \in Terminal}
Leased(s)    == {l.transfer : l \in s.leases}
LeasesOf(s, T) == {l \in s.leases : l.transfer \in T}
JobOf(s, t)     == IntentJob[s.transfer[t].intent]
BuffersOf(s, t) == IntentBuffers[s.transfer[t].intent]

ChunksOf(L) == SumFunction([l \in L |-> l.chunks])
AtLeast0(n) == IF n < 0 THEN 0 ELSE n

-----------------------------------------------------------------------------
\* Terminal bookkeeping.

\* Mutation of Archive: the record that is already there wins the merge.
ArchiveOnce(s, T) ==
    LET A == {t \in T \cap Live(s) : s.intents[s.transfer[t].intent] = t}
    IN [s EXCEPT
          !.archive = [t \in Transfers |->
              IF t \in A /\ s.archive[t] = NoArchive
              THEN [state |-> s.transfer[t].state, bytes |-> s.transfer[t].bytes]
              ELSE s.archive[t]],
          !.archivedIntents = [i \in Intents |->
              IF s.intents[i] \in A THEN s.intents[i] ELSE s.archivedIntents[i]]]

\* _archive_transfer_receipt_state_locked, merge_archive_record
Archive(s, T) ==
    LET A == {t \in T \cap Live(s) : s.intents[s.transfer[t].intent] = t}
    IN [s EXCEPT
          !.archive = [t \in Transfers |->
              IF t \in A THEN [state |-> s.transfer[t].state, bytes |-> s.transfer[t].bytes]
                         ELSE s.archive[t]],
          !.archivedIntents = [i \in Intents |->
              IF s.intents[i] \in A THEN s.intents[i] ELSE s.archivedIntents[i]]]

\* Mutation of MarkTerminal: a finished transfer is marked again.
MarkTerminalAgain(s, T, final) ==
    [s EXCEPT !.transfer = [t \in Transfers |->
        IF t \in T \cap Live(s)
        THEN [s.transfer[t] EXCEPT !.state = final, !.admission = final, !.ticket = 0]
        ELSE s.transfer[t]]]

\* _mark_transfer_terminal_locked: a transfer that already ended keeps its end.
MarkTerminal(s, T, final) ==
    [s EXCEPT !.transfer = [t \in Transfers |->
        IF t \in (T \cap Live(s)) \ Finished(s)
        THEN [s.transfer[t] EXCEPT !.state = final, !.admission = final, !.ticket = 0]
        ELSE s.transfer[t]]]

\* _retire_transfer_runtime_state_locked
RetireRuntime(s, T) ==
    LET a == Archive(s, T)
    IN [a EXCEPT
          !.transfer = [t \in Transfers |-> IF t \in T THEN NoTransfer ELSE a.transfer[t]],
          !.intents  = [i \in Intents |-> IF a.intents[i] \in T THEN None ELSE a.intents[i]]]

\* _retire_completed_transfer_lease_state_locked
RetireCompleted(s, T) ==
    LET a == Archive(s, T)
    IN [a EXCEPT !.transfer = [t \in Transfers |->
            IF t \in T THEN [a.transfer[t] EXCEPT !.ticket = 0, !.queued = FALSE]
                       ELSE a.transfer[t]]]

\* _retire_terminal_transfer_without_reservations_locked, and the tail of
\* _finalize_transfer_after_reservation_release_locked.
RetireUnleased(s, T) ==
    LET F == (T \cap Finished(s)) \ Leased(s)
        C == {t \in F : s.transfer[t].state = "complete"}
    IN RetireRuntime(RetireCompleted(s, C), F \ C)

-----------------------------------------------------------------------------
\* Leases and quotas.

\* _drop_active_reservation_state_locked
DropLeases(s, L) ==
    [s EXCEPT
       !.leases = @ \ L,
       !.sessionChunks = [x \in SessionIds |->
                       AtLeast0(s.sessionChunks[x] - ChunksOf({l \in L : l.session = x}))],
       !.relayChunks = [r \in Relays |->
                       AtLeast0(s.relayChunks[r] - ChunksOf({l \in L : l.relay = r}))]]

\* Mutation of ReleaseLeases: the transfer ends with the first lease it loses.
ReleaseLeasesEagerly(s, L, final) ==
    LET dropped == DropLeases(s, L)
        freed   == {l.transfer : l \in L}
    IN RetireUnleased(MarkTerminal(dropped, freed, final), freed)

\* _release_reservation_locked with mark_terminal: when the last lease of a
\* transfer goes, the transfer ends in state final.
ReleaseLeases(s, L, final) ==
    LET dropped == DropLeases(s, L)
        freed   == {l.transfer : l \in L} \ Leased(dropped)
    IN RetireUnleased(MarkTerminal(dropped, freed, final), freed)

\* _reap_expired_leases_locked
ReapExpiredLeases(s) ==
    LET expired == {l \in s.leases : now > l.expires}
    IN IF expired = {} THEN s ELSE ReleaseLeases(s, expired, "canceled")

\* Cancel and forget every transfer of T, as the cleanup of its owner does.
CancelTransfers(s, T) == RetireRuntime(MarkTerminal(s, T, "canceled"), T)

\* Mutation of CloseSessions: the sessions stay attached to the relays.
CloseSessionsAttached(s, S) ==
    LET T == {t \in Live(s) : s.transfer[t].session \in S}
        c == CancelTransfers(
                ReleaseLeases(s, {l \in s.leases : l.session \in S}, "canceled"), T)
        J == {j \in Jobs : s.jobs[j] \in S}
    IN [c EXCEPT
          !.session  = [x \in SessionIds |->
              IF x \in S THEN [NoSession EXCEPT !.state = "closed"] ELSE c.session[x]],
          !.sessionChunks = [x \in SessionIds |-> IF x \in S THEN 0 ELSE c.sessionChunks[x]],
          !.jobs     = [j \in Jobs |-> IF j \in J THEN None ELSE c.jobs[j]],
          !.buffers  = [b \in Buffers |-> IF c.buffers[b] \in J THEN None ELSE c.buffers[b]]]

\* _close_session_locked with _remove_session_jobs_and_buffers_locked
CloseSessions(s, S) ==
    LET T == {t \in Live(s) : s.transfer[t].session \in S}
        c == CancelTransfers(
                ReleaseLeases(s, {l \in s.leases : l.session \in S}, "canceled"), T)
        J == {j \in Jobs : s.jobs[j] \in S}
    IN [c EXCEPT
          !.session  = [x \in SessionIds |->
              IF x \in S THEN [NoSession EXCEPT !.state = "closed"] ELSE c.session[x]],
          !.sessionChunks = [x \in SessionIds |-> IF x \in S THEN 0 ELSE c.sessionChunks[x]],
          !.attached = [r \in Relays |-> c.attached[r] \ S],
          !.jobs     = [j \in Jobs |-> IF j \in J THEN None ELSE c.jobs[j]],
          !.buffers  = [b \in Buffers |-> IF c.buffers[b] \in J THEN None ELSE c.buffers[b]]]

\* _reap_stale_sessions_locked
StaleSessions(s) ==
    {x \in Open(s) : SessionTimeout > 0 /\ now - s.session[x].seen > SessionTimeout}
ReapStaleSessions(s) ==
    IF StaleSessions(s) = {} THEN s ELSE CloseSessions(s, StaleSessions(s))

-----------------------------------------------------------------------------
\* Planning and admission.

Grants == [Relays -> 0..RelayMaxChunks]
GrantSize(g) == SumFunction(g)
HoldsLease(g) == \E r \in Relays : g[r] > 0

\* DaemonScheduler._leases_for_plan: how many chunks a decision may lease on
\* each relay.  Each lease is cut to what the session and the relay have left;
\* a session that is not worker-relay capable only gets the direct path.
Decisions(s, x) ==
    {g \in Grants : \A r \in Relays : g[r] > 0 =>
        /\ s.session[x].capable
        /\ g[r] <= SessionMaxChunks - s.sessionChunks[x]
        /\ g[r] <= RelayMaxChunks - s.relayChunks[r]}

PlanExpiry(g) == now + IF HoldsLease(g) THEN LeaseSeconds ELSE PlanSeconds

\* _commit_scheduler_leases_locked, for the grants g[t] of the transfers of T,
\* and _touch_session_locked of their sessions.
CommitLeases(s, T, g) ==
    LET new == {[transfer |-> p[1], relay |-> p[2],
                 generation |-> s.transfer[p[1]].generation,
                 session |-> s.transfer[p[1]].session, chunks |-> g[p[1]][p[2]],
                 expires |-> now + LeaseSeconds, staged |-> None] :
                p \in {q \in T \X Relays : g[q[1]][q[2]] > 0}}
    IN [s EXCEPT
          !.leases = @ \cup new,
          !.session = [x \in SessionIds |->
              IF \E t \in T : s.transfer[t].session = x
              THEN [s.session[x] EXCEPT !.seen = now] ELSE s.session[x]],
          !.sessionChunks = [x \in SessionIds |->
              s.sessionChunks[x] + ChunksOf({l \in new : l.session = x})],
          !.relayChunks = [r \in Relays |->
              s.relayChunks[r] + ChunksOf({l \in new : l.relay = r})]]

\* Mutation of PromoteTransfers: no ticket is issued for the new plan.
PromoteTransfersWithoutTicket(s, P, g) ==
    LET planned == [s EXCEPT !.transfer = [t \in Transfers |->
            IF t \in P
            THEN [s.transfer[t] EXCEPT !.admission = "admitted",
                    !.generation = @ + 1, !.expires = PlanExpiry(g[t]),
                    !.relays = {r \in Relays : g[t][r] > 0}]
            ELSE s.transfer[t]]]
    IN CommitLeases(planned, P, g)

\* _commit_delayed_promotion_locked: a new plan generation, its leases, and a
\* ticket of that generation.
PromoteTransfers(s, P, g) ==
    LET planned == [s EXCEPT !.transfer = [t \in Transfers |->
            IF t \in P
            THEN [s.transfer[t] EXCEPT !.admission = "admitted",
                    !.generation = @ + 1, !.ticket = s.transfer[t].generation + 1,
                    !.expires = PlanExpiry(g[t]),
                    !.relays = {r \in Relays : g[t][r] > 0}]
            ELSE s.transfer[t]]]
    IN CommitLeases(planned, P, g)

DelayedTransfers(s) ==
    {t \in Live(s) \ Finished(s) : s.transfer[t].admission = "delayed"}

\* The grants under which the transfers of P are promoted one after the other,
\* each within what the quotas have left.
PromotionGrants(s, P) ==
    {g \in [P -> Grants] :
        /\ \A t \in P : HoldsLease(g[t]) => s.session[s.transfer[t].session].capable
        /\ \A r \in Relays :
              (\E t \in P : g[t][r] > 0) =>
              s.relayChunks[r] + SumFunction([t \in P |-> g[t][r]]) <= RelayMaxChunks
        /\ \A x \in SessionIds :
              LET mine == {t \in P : s.transfer[t].session = x}
              IN (\E t \in mine : HoldsLease(g[t])) =>
                 s.sessionChunks[x] + SumFunction([t \in mine |-> GrantSize(g[t])])
                     <= SessionMaxChunks}

\* _promote_delayed_transfers_locked: any of the delayed transfers may get
\* through, in whatever order the priorities give.
PromoteDelayed(s) ==
    {s} \cup UNION {{PromoteTransfers(s, P, g) : g \in PromotionGrants(s, P)} :
                    P \in (SUBSET DelayedTransfers(s)) \ {{}}}

\* _refresh_admission_state_locked
RefreshAdmission(s) == PromoteDelayed(ReapExpiredLeases(s))

-----------------------------------------------------------------------------
\* Registration.

\* register_session
RegisterSession(x, capable) ==
    /\ d.session[x].state = "unused"
    /\ \E s \in RefreshAdmission(ReapStaleSessions(d)) :
        /\ capable => \A r \in Relays : Cardinality(s.attached[r]) < RelayMaxSessions
        /\ d' = [s EXCEPT
               !.session[x] = [state |-> "open", capable |-> capable, seen |-> now],
               !.attached = [r \in Relays |->
                   IF capable THEN s.attached[r] \cup {x} ELSE s.attached[r]]]
        /\ UNCHANGED now

\* Mutation of RegisterJob: a job moves to the session that names it last.
RegisterJobAgain(j, x) ==
    /\ x \in Open(d)
    /\ d' = [d EXCEPT !.jobs[j] = x]
    /\ UNCHANGED now

\* register_job: a registered job cannot be bound to another session
\* (job_identity_conflicts).
RegisterJob(j, x) ==
    /\ x \in Open(d)
    /\ d.jobs[j] \in {None, x}
    /\ d' = [d EXCEPT !.jobs[j] = x]
    /\ UNCHANGED now

\* _active_buffer_protection_record_locked
Protected(s, b) ==
    \E t \in Live(s) : b \in BuffersOf(s, t) /\ (t \in Leased(s) \/ s.transfer[t].ticket # 0)

\* register_buffer
RegisterBuffer(b, j) ==
    \E s \in RefreshAdmission(ReapStaleSessions(d)) :
        /\ s.jobs[j] # None
        /\ s.buffers[b] = None
        /\ ~Protected(s, b)
        /\ d' = [s EXCEPT !.buffers[b] = j]
        /\ UNCHANGED now

-----------------------------------------------------------------------------
\* Intents.

\* _validate_transfer_buffers_locked, and the session lookup of
\* _scheduler_decision_for_transfer_locked
OwnersRegistered(s, i, x) ==
    /\ x \in Open(s)
    /\ s.jobs[IntentJob[i]] = x
    /\ \A b \in IntentBuffers[i] : s.buffers[b] = IntentJob[i]

\* Mutation of HasTerminalReceipt: the archive is not looked at.
HasTerminalReceiptLive(s, i) == s.intents[i] # None /\ s.intents[i] \in Finished(s)

\* The receipt of an intent that already ended is returned as it is.
HasTerminalReceipt(s, i) ==
    \/ s.intents[i] # None /\ s.intents[i] \in Finished(s)
    \/ /\ s.intents[i] = None /\ s.archivedIntents[i] # None
       /\ s.archive[s.archivedIntents[i]].state \in Terminal

\* _register_planned_transfer_state_locked and the last part of
\* _submit_transfer_intent_impl
RegisterTransfer(s, t, i, x, g, admission) ==
    LET admitted   == admission = "admitted"
        registered ==
          [s EXCEPT
             !.issued = @ \cup {t},
             !.intents[i] = t,
             !.transfer[t] =
                [state |-> "submitted", bytes |-> 0, session |-> x, intent |-> i,
                 admission |-> admission, generation |-> 1, expires |-> PlanExpiry(g),
                 relays |-> {r \in Relays : g[r] > 0}, queued |-> TRUE,
                 ticket |-> IF admitted THEN 1 ELSE 0]]
    IN CommitLeases(registered, {t},
           [u \in {t} |-> IF admitted THEN g ELSE [r \in Relays |-> 0]])

\* _admission_for_decision_locked: a decision with leases is delayed when the
\* session's quota cannot carry them all, or when the fairness or the load
\* heuristics say so.
Admits(s, x, g, admission) ==
    /\ admission = "delayed" => HoldsLease(g)
    /\ admission = "admitted" =>
         ~HoldsLease(g) \/ s.sessionChunks[x] + GrantSize(g) <= SessionMaxChunks

\* submit_transfer_intent of a new intent (with _plan_transfer).
SubmitTransferIntent(i, x, t) ==
    /\ ~HasTerminalReceipt(d, i)
    /\ d.intents[i] = None
    /\ t \notin d.issued
    /\ \E s \in RefreshAdmission(ReapStaleSessions(d)) :
        /\ OwnersRegistered(s, i, x)
        /\ \E g \in Decisions(s, x), admission \in {"admitted", "delayed"} :
             /\ Admits(s, x, g, admission)
             /\ d' = RegisterTransfer(s, t, i, x, g, admission)
    /\ UNCHANGED now

\* _active_execution_ticket_for_transfer_locked
ReissueTicket(s, t) ==
    IF s.transfer[t].admission = "admitted"
    THEN [s EXCEPT !.transfer[t].ticket = s.transfer[t].generation]
    ELSE s

\* submit_transfer_intent of an intent that has a live transfer
\* (_intent_execution_payload_response_locked).
ResubmitTransferIntent(i, x) ==
    /\ d.intents[i] # None
    /\ ~HasTerminalReceipt(d, i)
    /\ d.transfer[d.intents[i]].session = x
    /\ OwnersRegistered(d, i, x)
    /\ LET t == d.intents[i]
       IN IF d.transfer[t].admission = "delayed"
          THEN \E s \in RefreshAdmission(d) : d' = ReissueTicket(s, t)
          ELSE d' = ReissueTicket(d, t)
    /\ UNCHANGED now

-----------------------------------------------------------------------------
\* Worker authorization.

\* The lazy expiry of _validate_transfer_admission_locked.
PlanExpired(s, t) == s.transfer[t].admission = "admitted" /\ now > s.transfer[t].expires
ExpireAdmission(s, t) == [s EXCEPT !.transfer[t].admission = "expired"]
AdmissionValid(s, t) == s.transfer[t].admission = "admitted" /\ now <= s.transfer[t].expires

\* validate_lease and authorize_worker_transfer on a lease that has expired.
PresentExpiredLease(l) ==
    LET s == ReapStaleSessions(d)
    IN /\ l \in s.leases
       /\ now > l.expires
       /\ d' = ReleaseLeases(s, {l}, "canceled")
       /\ UNCHANGED now

\* The requests that look at the admission of an unfinished transfer whose plan
\* has run out: transfer_status, and authorize_worker_transfer (which reaps
\* first) with a lease of the same owner that is still good.
PresentExpiredPlan(t) ==
    \E s \in {d, ReapStaleSessions(d)} :
        /\ t \in Live(s) \ Finished(s)
        /\ PlanExpired(s, t)
        /\ s # d => \E l \in s.leases :
                        /\ l.session = s.transfer[t].session
                        /\ JobOf(s, l.transfer) = JobOf(s, t)
                        /\ now <= l.expires
        /\ d' = ExpireAdmission(s, t)
        /\ UNCHANGED now

\* _leases_for_worker_plan_locked: without explicit ranges the request stands
\* for every relay of the plan.
RelatedLeases(s, t, l, explicit) ==
    IF explicit \/ l.relay \notin s.transfer[t].relays
    THEN {l}
    ELSE {k \in LeasesOf(s, {t}) : k.relay \in s.transfer[t].relays} \cup {l}

\* The checks of authorize_worker_transfer.  The lease is looked up by its id and
\* matched on session, job, buffers and plan generation.
Authorizable(s, t, l, explicit) ==
    LET related == RelatedLeases(s, t, l, explicit)
    IN /\ t \in Live(s) \ Finished(s)
       /\ l \in s.leases
       /\ l.session = s.transfer[t].session
       /\ JobOf(s, l.transfer) = JobOf(s, t)
       /\ AdmissionValid(s, t)
       /\ l.generation = s.transfer[t].generation
       /\ l.relay \in s.transfer[t].relays
       /\ ~explicit => {k.relay : k \in related} = s.transfer[t].relays
       /\ Cardinality(related) > 1 => \A k \in related : k.transfer = t
       /\ BuffersOf(s, l.transfer) = BuffersOf(s, t)
       /\ OwnersRegistered(s, s.transfer[t].intent, l.session)
       /\ \A k \in related : now < k.expires

\* authorize_worker_transfer: a new ticket, and a staging record for each lease.
AuthorizeWorkerTransfer(t, l, explicit) ==
    LET s == ReapStaleSessions(d)
        related == RelatedLeases(s, t, l, explicit)
    IN /\ Authorizable(s, t, l, explicit)
       /\ d' = [s EXCEPT
                  !.transfer[t].ticket = s.transfer[t].generation,
                  !.leases = {IF k \in related THEN [k EXCEPT !.staged = t] ELSE k :
                              k \in s.leases}]
       /\ UNCHANGED now

-----------------------------------------------------------------------------
\* transfer_status: what a worker reports about a live transfer.  Accepted
\* reports carry evidence that matches the current ticket; a report whose
\* evidence does not match is refused and changes nothing.

Reported(s, t, bytes) == IF bytes > s.transfer[t].bytes THEN bytes ELSE s.transfer[t].bytes

\* A report of SUBMITTED is not checked against admission or ticket.
ReportSubmitted(t, bytes) ==
    /\ t \in Live(d) \ Finished(d)
    /\ Reported(d, t, bytes) <= TotalBytes
    /\ d' = [d EXCEPT !.transfer[t].state = "submitted",
                      !.transfer[t].bytes = Reported(d, t, bytes)]
    /\ UNCHANGED now

\* Mutation of ReportRunning: the reported count is not held against the total.
ReportRunningUnchecked(t, bytes) ==
    /\ t \in Live(d) \ Finished(d)
    /\ AdmissionValid(d, t)
    /\ d.transfer[t].ticket # 0
    /\ d' = [d EXCEPT !.transfer[t].state = "running",
                      !.transfer[t].bytes = Reported(d, t, bytes)]
    /\ UNCHANGED now

ReportRunning(t, bytes) ==
    /\ t \in Live(d) \ Finished(d)
    /\ AdmissionValid(d, t)
    /\ d.transfer[t].ticket # 0
    /\ Reported(d, t, bytes) <= TotalBytes
    /\ d' = [d EXCEPT !.transfer[t].state = "running",
                      !.transfer[t].bytes = Reported(d, t, bytes)]
    /\ UNCHANGED now

\* Mutation of ReportComplete: the admission is not checked, so a late report
\* under an expired plan is believed.
ReportCompleteLate(t, bytes) ==
    /\ t \in Live(d) \ Finished(d)
    /\ d.transfer[t].ticket # 0
    /\ Reported(d, t, bytes) = TotalBytes
    /\ d' = RetireUnleased([d EXCEPT !.transfer[t].state = "complete",
                                     !.transfer[t].bytes = TotalBytes,
                                     !.transfer[t].ticket = 0], {t})
    /\ UNCHANGED now

\* Completion keeps the leases; without any, the transfer leaves the queue and
\* delayed transfers are reconsidered.
ReportComplete(t, bytes) ==
    /\ t \in Live(d) \ Finished(d)
    /\ AdmissionValid(d, t)
    /\ d.transfer[t].ticket # 0
    /\ Reported(d, t, bytes) = TotalBytes
    /\ LET done == [d EXCEPT !.transfer[t].state = "complete",
                             !.transfer[t].bytes = TotalBytes,
                             !.transfer[t].ticket = 0]
       IN IF t \notin Leased(done) /\ d.transfer[t].queued
          THEN d' \in PromoteDelayed(RetireUnleased(done, {t}))
          ELSE d' = RetireUnleased(done, {t})
    /\ UNCHANGED now

\* _handle_transfer_status_mismatch_locked: COMPLETE with the wrong byte count.
ReportMismatch(t, bytes) ==
    /\ t \in Live(d) \ Finished(d)
    /\ AdmissionValid(d, t)
    /\ d.transfer[t].ticket # 0
    /\ Reported(d, t, bytes) # TotalBytes
    /\ LET released == ReleaseLeases(MarkTerminal(d, {t}, "failed"),
                                     LeasesOf(d, {t}), "failed")
       IN d' \in PromoteDelayed(RetireUnleased(released, {t}))
    /\ UNCHANGED now

\* FAILED and CANCELED need the current ticket but not a valid admission.
ReportFailure(t, final, bytes) ==
    /\ t \in Live(d) \ Finished(d)
    /\ d.transfer[t].ticket # 0
    /\ Reported(d, t, bytes) <= TotalBytes
    /\ LET updated  == [d EXCEPT !.transfer[t].bytes = Reported(d, t, bytes)]
           released == ReleaseLeases(MarkTerminal(updated, {t}, final),
                                     LeasesOf(d, {t}), final)
       IN d' \in PromoteDelayed(RetireUnleased(released, {t}))
    /\ UNCHANGED now

\* _supplement_terminal_completion_evidence_locked: the same terminal report
\* again, with more evidence, rewrites the archived receipt.
SupplementEvidence(t) ==
    /\ t \in Finished(d)
    /\ d' = Archive(d, {t})
    /\ UNCHANGED now

\* recover_transfer_state of a transfer that is live or archived: it archives the
\* status as it is, also that of a transfer that is still to run
\* (_transfer_recovery_state_locked).
RecoverTransferState(t) ==
    /\ t \in Live(d) \/ d.archive[t].state # "absent"
    /\ d' = Archive(d, {t})
    /\ UNCHANGED now

-----------------------------------------------------------------------------
\* Cleanup and maintenance.  _finalize_cleanup_response_locked ends each
\* cleanup with a refresh.

\* cleanup(reservation); the reason "worker_complete" leaves the transfer's
\* status to the worker's own report.
CleanupReservation(l, workerComplete) ==
    /\ l \in d.leases
    /\ d' \in RefreshAdmission(IF workerComplete THEN DropLeases(d, {l})
                                                 ELSE ReleaseLeases(d, {l}, "canceled"))
    /\ UNCHANGED now

\* cleanup(buffer): refused while an execution uses the buffer.
CleanupBuffer(b) ==
    LET T == {t \in Live(d) : b \in BuffersOf(d, t)}
        c == CancelTransfers(ReleaseLeases(d, LeasesOf(d, T), "canceled"), T)
    IN /\ d.buffers[b] # None
       /\ ~Protected(d, b)
       /\ d' \in RefreshAdmission([c EXCEPT !.buffers[b] = None])
       /\ UNCHANGED now

\* cleanup(job), _cleanup_job_locked
CleanupJob(j) ==
    LET T == {t \in Live(d) : JobOf(d, t) = j}
        c == CancelTransfers(ReleaseLeases(d, LeasesOf(d, T), "canceled"), T)
    IN /\ d.jobs[j] # None
       /\ d' \in RefreshAdmission(
                [c EXCEPT !.jobs[j] = None,
                          !.buffers = [b \in Buffers |->
                              IF c.buffers[b] = j THEN None ELSE c.buffers[b]]])
       /\ UNCHANGED now

\* cleanup(session)
CleanupSession(x) ==
    /\ x \in Open(d)
    /\ d' \in RefreshAdmission(CloseSessions(d, {x}))
    /\ UNCHANGED now

\* close_session: no refresh follows.
CloseSession(x) ==
    LET s == ReapStaleSessions(d)
    IN /\ x \in Open(s)
       /\ d' = CloseSessions(s, {x})
       /\ UNCHANGED now

\* _cleanup_connection_scoped_sessions_locked when a client's socket closes.
Disconnect(S) ==
    /\ S # {} /\ S \subseteq Open(d)
    /\ d' = CloseSessions(d, S)
    /\ UNCHANGED now

\* reap_stale_sessions, and every request that fails after calling it.
ReapStale ==
    /\ d' = ReapStaleSessions(d)
    /\ UNCHANGED now

\* reap_expired_leases, discover_relays, and every registration or submission
\* that fails after its refresh.
Refresh ==
    /\ \E s \in {d, ReapStaleSessions(d)} : d' \in RefreshAdmission(s)
    /\ UNCHANGED now

Tick ==
    /\ now < MaxTime
    /\ now' = now + 1
    /\ UNCHANGED d

-----------------------------------------------------------------------------
Next ==
    \/ \E x \in SessionIds, capable \in BOOLEAN : RegisterSession(x, capable)
    \/ \E j \in Jobs, x \in SessionIds : RegisterJob(j, x)
    \/ \E b \in Buffers, j \in Jobs : RegisterBuffer(b, j)
    \/ \E i \in Intents, x \in SessionIds, t \in Transfers : SubmitTransferIntent(i, x, t)
    \/ \E i \in Intents, x \in SessionIds : ResubmitTransferIntent(i, x)
    \/ \E l \in d.leases : PresentExpiredLease(l)
    \/ \E t \in Transfers : PresentExpiredPlan(t)
    \/ \E t \in Transfers, l \in d.leases, explicit \in BOOLEAN :
          AuthorizeWorkerTransfer(t, l, explicit)
    \/ \E t \in Transfers, bytes \in 0..TotalBytes + 1 :
          \/ ReportSubmitted(t, bytes) \/ ReportRunning(t, bytes)
          \/ ReportComplete(t, bytes)  \/ ReportMismatch(t, bytes)
          \/ \E final \in {"failed", "canceled"} : ReportFailure(t, final, bytes)
    \/ \E t \in Transfers : SupplementEvidence(t) \/ RecoverTransferState(t)
    \/ \E l \in d.leases, workerComplete \in BOOLEAN : CleanupReservation(l, workerComplete)
    \/ \E b \in Buffers : CleanupBuffer(b)
    \/ \E j \in Jobs : CleanupJob(j)
    \/ \E x \in SessionIds : CleanupSession(x)
    \/ \E x \in SessionIds : CloseSession(x)
    \/ \E S \in SUBSET SessionIds : Disconnect(S)
    \/ ReapStale
    \/ Refresh
    \/ Tick

Spec == Init /\ [][Next]_vars

-----------------------------------------------------------------------------
\* Properties.

\* The invariants are stated of a state s of the dictionaries, so that they can
\* be followed through the steps of one handler.

Types(s) ==
    /\ s.session \in [SessionIds -> SessionRec]
    /\ s.attached \in [Relays -> SUBSET SessionIds]
    /\ s.jobs \in [Jobs -> SessionIds \cup {None}]
    /\ s.buffers \in [Buffers -> Jobs \cup {None}]
    /\ s.issued \in SUBSET Transfers
    /\ s.transfer \in [Transfers -> TransferRec]
    /\ s.intents \in [Intents -> Transfers \cup {None}]
    /\ s.leases \in SUBSET LeaseRec
    /\ s.archive \in [Transfers -> ArchiveRec]
    /\ s.archivedIntents \in [Intents -> Transfers \cup {None}]

BoundLeases(s) ==
    /\ \A l \in s.leases :
        LET r == s.transfer[l.transfer]
        IN /\ r.state \in {"submitted", "running", "complete"}
           /\ r.admission \in {"admitted", "expired"}
           /\ l.session = r.session
           /\ l.session \in Open(s)
           /\ l.generation = r.generation
           /\ l.expires = r.expires
           /\ l.relay \in r.relays
    /\ \A k, l \in s.leases : k.transfer = l.transfer /\ k.relay = l.relay => k = l

NotStranded(s) ==
    \A t \in Live(s) :
        LET r == s.transfer[t]
        IN \/ /\ r.state = "submitted" /\ r.admission = "delayed"
              /\ r.ticket = 0 /\ t \notin Leased(s)
           \/ /\ r.state \in {"submitted", "running"}
              /\ r.admission \in {"admitted", "expired"}
              /\ r.ticket = r.generation
           \/ r.state = "complete" /\ r.ticket = 0

RegisteredOwners(s) ==
    \A t \in Live(s) :
        /\ s.transfer[t].intent \in Intents
        /\ OwnersRegistered(s, s.transfer[t].intent, s.transfer[t].session)

\* The transfer an intent is bound to, live or archived.
Owner(s, i) == IF s.intents[i] # None THEN s.intents[i] ELSE s.archivedIntents[i]

BoundIntents(s) ==
    /\ \A t \in Live(s) : t \in s.issued /\ s.intents[s.transfer[t].intent] = t
    /\ \A i \in Intents :
        /\ s.intents[i] # None => /\ s.intents[i] \in Live(s)
                                  /\ s.transfer[s.intents[i]].intent = i
        /\ s.archivedIntents[i] # None => /\ s.archivedIntents[i] \in s.issued
                                          /\ s.archivedIntents[i] = Owner(s, i)
    /\ \A i, k \in Intents : Owner(s, i) # None /\ Owner(s, i) = Owner(s, k) => i = k

\* What a receipt shows of a transfer: its status while it is live, then the
\* archived one (_receipt_for_intent_locked).
Outcome(s, t) == IF t \in Live(s)
                 THEN [state |-> s.transfer[t].state, bytes |-> s.transfer[t].bytes]
                 ELSE s.archive[t]

ArchivedOutcomes(s) ==
    \A t \in Transfers :
        /\ t \in s.issued <=> Outcome(s, t).state # "absent"
        /\ t \notin Live(s) => /\ s.transfer[t] = NoTransfer
                               /\ s.archive[t].state \in Terminal \cup {"absent"}
        /\ s.archive[t].state \in Terminal => s.archive[t] = Outcome(s, t)
        /\ s.archive[t].state # "absent" => s.archive[t].bytes <= Outcome(s, t).bytes

\* Every dictionary of the daemon holds what its handlers expect of it.  (The
\* chunk counters are pinned to their exact values by QuotasExact.)
TypeOK == now \in Nat /\ Types(d)

\* A lease always belongs to a live transfer of an open session and to that
\* transfer's current plan, and a transfer has at most one per relay: no release,
\* promotion, session close or reaper leaves a lease behind (server.py:2664, 4130,
\* 7555).
LeasesBound == BoundLeases(d)

\* No unfinished transfer is stranded: it waits for promotion, without a lease or
\* a ticket that would let a worker run it, or it has a ticket of its current plan
\* with which a worker can end it.  A finished transfer has no ticket.
NoTransferStranded == NotStranded(d)

\* The session, the job and the buffers of a live transfer stay registered for
\* as long as it lives: their cleanup takes the transfer with it.
OwnersStayRegistered == RegisteredOwners(d)

\* The intent table, the live transfers and the archive agree, so a retry always
\* finds the transfer of its intent and never executes it twice.
OneTransferPerIntent == BoundIntents(d)

\* A transfer that is no longer live has its terminal outcome in the receipt
\* archive and no trace elsewhere: what a recovery request archived of it while it
\* ran (server.py:7246) has been replaced.  Until then the archive lags behind the
\* live status at most: it never shows an end the transfer did not have, nor more
\* bytes.
OutcomesArchived == ArchivedOutcomes(d)

\* The chunk counters of sessions and relays are exactly what the live leases
\* hold, and stay within the quotas, however leases are released.
QuotasExact ==
    /\ \A x \in Open(d) :
          /\ d.sessionChunks[x] = ChunksOf({l \in d.leases : l.session = x})
          /\ d.sessionChunks[x] <= SessionMaxChunks
    /\ \A r \in Relays :
          /\ d.relayChunks[r] = ChunksOf({l \in d.leases : l.relay = r})
          /\ d.relayChunks[r] <= RelayMaxChunks
          /\ d.attached[r] = {x \in Open(d) : d.session[x].capable}
          /\ Cardinality(d.attached[r]) <= RelayMaxSessions

\* A terminal outcome is final: no late report, lease expiry, cleanup or retry
\* changes the state or the byte count a receipt shows, also once archived.
TerminalIsFinal ==
    [][\A t \in Transfers :
         Outcome(d, t).state \in Terminal => Outcome(d', t) = Outcome(d, t)]_vars

\* Completion is only ever recorded for a plan that is still valid, under a
\* ticket of that plan, with every byte reported.
CompletionIsValid ==
    [][\A t \in Transfers :
         Outcome(d', t).state = "complete" /\ Outcome(d, t).state # "complete" =>
            /\ Outcome(d', t).bytes = TotalBytes
            /\ AdmissionValid(d, t)
            /\ d.transfer[t].ticket = d.transfer[t].generation]_vars

-----------------------------------------------------------------------------
\* The promise to clients (IntentLedger): a receipt's outcome by transfer, and
\* the transfer of each intent.
LedgerOutcome ==
    [t \in Transfers |-> LET shown == Outcome(d, t).state
                         IN CASE shown = "absent" -> "unknown"
                              [] shown \in Terminal -> shown
                              [] OTHER -> "pending"]
LedgerOwner == [i \in Intents |-> Owner(d, i)]

Ledger == INSTANCE IntentLedger WITH outcome <- LedgerOutcome, owner <- LedgerOwner

\* The daemon implements the ledger.
LedgerSpec == Ledger!Spec

=============================================================================
