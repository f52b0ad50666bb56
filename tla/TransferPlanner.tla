---------------------------- MODULE TransferPlanner ----------------------------
(***************************************************************************)
(* The daemon's scheduler (turbobus/scheduler/daemon.py, block_plan.py,    *)
(* turbobus/planner_engine.py): which relays a transfer may use, how       *)
(* its ranges are cut and spread over the paths, which leases and blocks   *)
(* the plan asks for, and whether the daemon admits it.  The last part is  *)
(* what a worker makes of a plan (daemon/planning_helpers.py, worker/      *)
(* cuda_executor.py).                                                      *)
(*                                                                         *)
(* Every request is planned with defer_relay_admission, as intents are.    *)
(***************************************************************************)
EXTENDS LoadFeedback, SequencesExt, Filters

CONSTANTS
    Relays,                     \* the relay GPUs of the target device
    Profile,                    \* the daemon's profile of that device; order lists its relays
    SessionMaxChunks,           \* Session.max_inflight_chunks
    RelayMaxChunks,             \* RelayQuota.max_inflight_chunks
    MinChunksForRelay,          \* planner options
    MinPoolBytes,
    RelayMinBandwidth,
    RelayMinDirectRatio         \* in thousandths

Link == [h2d: Nat, d2h: Nat]

ASSUME PlannerAssumption ==
    /\ Relays \subseteq Nat \ {Direct} /\ IsFiniteSet(Relays)
    /\ Profile \in [known: BOOLEAN, direct: Link, relay: [Relays -> Link], p2p: [Relays -> Nat],
                    order: Seq(Relays)]
    /\ SessionMaxChunks \in Nat /\ RelayMaxChunks \in Nat
    /\ MinChunksForRelay \in Nat /\ MinPoolBytes \in Nat
    /\ RelayMinBandwidth \in Nat /\ RelayMinDirectRatio \in Nat

Modes == {"auto", "pool", "relay", "direct"}

\* A piece of memory to copy; a request lists them, a plan cuts them.
Chunk == [src: Nat, dst: Nat, bytes: Nat \ {0}]

BytesOf(chunks) == SumFunction([i \in DOMAIN chunks |-> chunks[i].bytes])

\* Quotas are what is leased when a plan is made, of the session and of each relay,
\* with the relays assigned to the session and whether it may use any.

-----------------------------------------------------------------------------
\* Cutting the ranges.

\* plan_ranges and _make_chunks: pieces of at most `size` bytes
CutRange(range, size) ==
    [k \in 1..((range.bytes + size - 1) \div size) |->
        [src |-> range.src + (k - 1) * size, dst |-> range.dst + (k - 1) * size,
         bytes |-> UpTo(size, range.bytes - (k - 1) * size)]]

Chunks(req) == FlattenSeq([i \in DOMAIN req.ranges |-> CutRange(req.ranges[i], req.chunk)])

-----------------------------------------------------------------------------
\* The paths a request may take.

\* _direct_bandwidth, _relay_effective_bandwidth
Bandwidth(link, dir) == IF dir = "h2d" \/ link.d2h = 0 THEN link.h2d ELSE link.d2h

\* Without a usable profile, or for a session whose workers relay nothing, only
\* the direct path remains.
RelaysKnown(req, q) ==
    /\ Profile.known /\ q.capable
    /\ req.dir = "h2d" => Profile.direct.h2d > 0

\* _static_relay_filter_reason
Fit(q) == {r \in q.assigned : Profile.p2p[r] > 0}

\* _relay_unavailable_reason
Unavailable(view, req, q, relay) ==
    \/ q.session >= SessionMaxChunks
    \/ q.relay[relay] >= RelayMaxChunks
    \/ RelayBlocked(view, relay, req.dir)

\* _relay_candidates_for_profile and _profile_for_planning: relays that are
\* closed now are planned for if none is open.
Available(view, req, q) == {r \in Fit(q) : ~Unavailable(view, req, q, r)}
Candidates(view, req, q) ==
    IF ~RelaysKnown(req, q) THEN {}
    ELSE IF Available(view, req, q) # {} THEN Available(view, req, q) ELSE Fit(q)

\* _build_paths
Worthwhile(req, relay) ==
    LET bandwidth == Bandwidth(Profile.relay[relay], req.dir)
        direct    == Bandwidth(Profile.direct, req.dir)
    IN /\ bandwidth > 0 /\ bandwidth >= RelayMinBandwidth
       /\ direct > 0 => 1000 * bandwidth >= direct * RelayMinDirectRatio

\* AUTO plans like POOL, and POOL needs enough chunks and bytes.
PlanningMode(req) ==
    LET mode == IF req.mode = "auto" THEN "pool" ELSE req.mode
    IN IF mode = "pool" /\ (Len(Chunks(req)) < MinChunksForRelay \/ req.bytes < MinPoolBytes)
       THEN "direct" ELSE mode

\* direct_scheduler_weights, direct_fallback_profile
DirectPath(view, req, q) ==
    LET bandwidth == AtLeast(Bandwidth(Profile.direct, req.dir), 1)
    IN <<[relay  |-> Direct,
          weight |-> IF RelaysKnown(req, q)
                     THEN SchedulerWeight(view, req, Direct, FALSE, bandwidth) ELSE 1000]>>

\* relay_profile_with_load_feedback
PathsOver(view, req, relays, deferred) ==
    [i \in DOMAIN relays |->
        [relay  |-> relays[i],
         weight |-> SchedulerWeight(view, req, relays[i], deferred,
                                    Bandwidth(Profile.relay[relays[i]], req.dir))]]

\* In the order of the profile.
Worth(view, req, q) ==
    {i \in DOMAIN Profile.order : /\ Profile.order[i] \in Candidates(view, req, q)
                                 /\ Worthwhile(req, Profile.order[i])}

RelayPaths(view, req, q) ==
    PathsOver(view, req, Filter(Profile.order, Worth(view, req, q)), Available(view, req, q) = {})

\* _build_paths, and the direct plan of _plan_or_direct where it finds none
OrElse(paths, others) == IF paths = <<>> THEN others ELSE paths

Paths(view, req, q) ==
    LET mode == PlanningMode(req)
    IN OrElse((IF mode # "relay" /\ (~Profile.known \/ Bandwidth(Profile.direct, req.dir) > 0)
               THEN DirectPath(view, req, q) ELSE <<>>)
              \o (IF mode = "direct" THEN <<>> ELSE RelayPaths(view, req, q)),
              DirectPath(view, req, q))

-----------------------------------------------------------------------------
\* Spreading the chunks.

\* Mutation of LeastLoaded: the weights are not looked at.
LeastLoadedUnweighted(paths, load, bytes) ==
    CHOOSE i \in DOMAIN paths : \A j \in DOMAIN paths : load[i] <= load[j]

\* The first path on which the chunk would end soonest.
LeastLoaded(paths, load, bytes) ==
    CHOOSE i \in DOMAIN paths : \A j \in DOMAIN paths :
        LET own == (load[i] + bytes) * paths[j].weight
            its == (load[j] + bytes) * paths[i].weight
        IN own < its \/ (own = its /\ i <= j)

\* _plan_chunks: one chunk after the other.
Place(paths, given, c) ==
    [given EXCEPT ![LeastLoaded(paths, [j \in DOMAIN paths |-> BytesOf(given[j])], c.bytes)] =
        Append(@, c)]

\* The paths that got chunks, with them.
Assignments(paths, given) ==
    Filter([j \in DOMAIN paths |->
              [relay |-> paths[j].relay, weight |-> paths[j].weight, chunks |-> given[j]]],
           {j \in DOMAIN paths : given[j] # <<>>})

Spread(chunks, paths) ==
    LET given[n \in 0..Len(chunks)] ==
            IF n = 0 THEN [j \in DOMAIN paths |-> <<>>]
            ELSE Place(paths, given[n - 1], chunks[n])
    IN Assignments(paths, given[Len(chunks)])

RelaysOf(plan) == {plan[i].relay : i \in DOMAIN plan} \ {Direct}
ChunksOn(plan, relays) ==
    FlattenSeq([i \in DOMAIN plan |-> IF plan[i].relay \in relays THEN plan[i].chunks ELSE <<>>])
On(plan, relay) == CHOOSE a \in ToSet(plan) : a.relay = relay

-----------------------------------------------------------------------------
\* Leases and decision.

\* _relay_reservation_chunks
LeaseChunks(n, relay, q) ==
    UpTo(UpTo(n, AtLeast(SessionMaxChunks - q.session, 0)), AtLeast(RelayMaxChunks - q.relay[relay], 0))

\* _leases_for_plan
LeasesFor(plan, q) ==
    {[relay |-> r, chunks |-> LeaseChunks(Len(On(plan, r).chunks), r, q),
      bytes |-> BytesOf(On(plan, r).chunks)] : r \in RelaysOf(plan)}

\* _direct_plan
DirectPlan(view, req, q) == Spread(Chunks(req), DirectPath(view, req, q))

\* _plan_with_admission: a plan that gets no leases, or that is not fair, becomes
\* a direct one.
PlanOrDirect(view, req, q, plan, leases) ==
    IF \/ \E l \in leases : l.chunks = 0
       \/ leases # {} /\ PrefersDirect(view, req)
    THEN [plan |-> DirectPlan(view, req, q), leases |-> {}]
    ELSE [plan |-> plan, leases |-> leases]

WithLeases(view, req, q, plan) == PlanOrDirect(view, req, q, plan, LeasesFor(plan, q))

Decision(view, req, q) == WithLeases(view, req, q, Spread(Chunks(req), Paths(view, req, q)))

\* Mutation of AdmissionBlocked: the chunks of the session are not added up.
AdmissionBlockedPerRelay(view, req, q, leases, enforceFairness) ==
    \E l \in leases : \/ l.relay \notin q.assigned
                     \/ q.relay[l.relay] + l.chunks > RelayMaxChunks
                     \/ RelayBlocked(view, l.relay, req.dir)

\* _relay_admission_blocked_reason_locked
AdmissionBlocked(view, req, q, leases, enforceFairness) ==
    /\ leases # {}
    /\ \/ q.session + SumFunction([l \in leases |-> l.chunks]) > SessionMaxChunks
       \/ enforceFairness /\ PrefersDirect(view, req)
       \/ \E l \in leases : \/ l.relay \notin q.assigned
                            \/ q.relay[l.relay] + l.chunks > RelayMaxChunks
                            \/ RelayBlocked(view, l.relay, req.dir)

\* block_plan_for_transfer_plan: the blocks of a plan in the order of its paths
BlockPlan(plan) ==
    FlattenSeq([i \in DOMAIN plan |->
        [k \in DOMAIN plan[i].chunks |-> [relay |-> plan[i].relay, chunk |-> plan[i].chunks[k]]]])

\* runtime_records_for_block_plan: as the daemon registers them, with the
\* generation of the plan's ticket
BlocksOf(plan, generation) ==
    LET blocks == BlockPlan(plan)
    IN [i \in DOMAIN blocks |->
           [relay |-> blocks[i].relay, chunk |-> blocks[i].chunk, state |-> "queued",
            generation |-> generation]]

-----------------------------------------------------------------------------
\* The plan at the worker.

\* Mutation of RelayRanges: in the order of the offsets.
RelayRangesSorted(plan, relays) ==
    SetToSortSeq(ToSet(ChunksOn(plan, relays)), LAMBDA c, e : c.src > e.src)

\* relay_ranges_from_plan: what the leases authorise to copy
RelayRanges(plan, relays) == ChunksOn(plan, relays)

\* _related_worker_leases_locked: the leases must be those of the plan
LeasesMatch(plan, leases) == {l.relay : l \in leases} = RelaysOf(plan)

\* _exact_daemon_plan_payload: the assignments to the direct path are skipped.
ExactPlan(plan) == Filter(plan, {i \in DOMAIN plan : plan[i].relay # Direct})

\* Its checks.
PlanAccepted(plan, relays, ranges) ==
    LET exact == ExactPlan(plan)
    IN /\ exact # <<>>
       /\ \A i \in DOMAIN exact : exact[i].relay \in relays
       /\ ChunksOn(exact, Relays) = ranges
=============================================================================
