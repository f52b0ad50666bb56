----------------------------- MODULE LoadFeedback -----------------------------
(***************************************************************************)
(* The load feedback of the daemon's scheduler (turbobus/scheduler/        *)
(* load_feedback.py, cost_model.py, daemon/runtime_state.py): how the      *)
(* transfers in hand make a path less attractive, close a relay to further *)
(* transfers, or send a job that has more than its share to the direct     *)
(* path.                                                                   *)
(*                                                                         *)
(* The code computes with floating point numbers.  Here pressures,         *)
(* multipliers and scores are thousandths, and divisions round down.  The  *)
(* counters of completion sources and runtime metrics, which the daemon    *)
(* folds into one share per source, are the constants WorkerShare and      *)
(* BackendShare.  The PCIe bandwidth pool scales all paths alike and is    *)
(* left out.                                                               *)
(***************************************************************************)
EXTENDS Integers, Sequences, FiniteSets, Functions

CONSTANTS
    JobWeight,       \* the weight of each registered job
    WorkerShare,     \* completion_source_pressure, in thousandths
    BackendShare

ASSUME LoadAssumption ==
    /\ IsFiniteSet(DOMAIN JobWeight)
    /\ \A j \in DOMAIN JobWeight : JobWeight[j] \in Nat \ {0}
    /\ WorkerShare \in 0..1000 /\ BackendShare \in 0..1000

Direct == 0          \* the direct path, among the relay devices

\* A view is a set of unfinished transfers, as the runtime state shows them: records
\* with id, job, dir, bytes, state ("delayed", "admitted" or "running"), the paths of
\* the plan (relay, chunks and bytes of each) and the relays on which the transfer
\* has leases and staging records.

-----------------------------------------------------------------------------
\* Arithmetic of thousandths.

UpTo(n, cap) == IF n < cap THEN n ELSE cap
AtLeast(n, low) == IF n < low THEN low ELSE n

\* min(a / b, cap), in thousandths
Share(a, b, cap) == UpTo((1000 * a) \div AtLeast(b, 1), 1000 * cap)

-----------------------------------------------------------------------------
\* The runtime state (runtime_state_summary, runtime_view).

Loaded(view, states) == {r \in view : r.state \in states}
Running(view)  == Loaded(view, {"running"})
Admitted(view) == Loaded(view, {"admitted"})
Delayed(view)  == Loaded(view, {"delayed"})
Active(view)   == Loaded(view, {"admitted", "running"})
Queued(view)   == Loaded(view, {"delayed", "admitted"})

BytesIn(recs)     == SumFunction([r \in recs |-> r.bytes])
Toward(recs, dir) == {r \in recs : r.dir = dir}
OfJob(recs, job)  == {r \in recs : r.job = job}

\* Only a running transfer has active paths.
Crossing(view, relay) == {r \in Running(view) : \E p \in r.paths : p.relay = relay}
PathOn(r, relay) == CHOOSE p \in r.paths : p.relay = relay
PathBytes(recs, relay)  == SumFunction([r \in recs |-> PathOn(r, relay).bytes])
PathChunks(recs, relay) == SumFunction([r \in recs |-> PathOn(r, relay).chunks])

LeasesOn(view, relay)  == Cardinality({r \in view : relay \in r.leases})
StagingOn(view, relay) == Cardinality({r \in view : relay \in r.staging})
LeaseCount(view)   == SumFunction([r \in view |-> Cardinality(r.leases)])
StagingCount(view) == SumFunction([r \in view |-> Cardinality(r.staging)])

\* busy_relays of relay_activity_from_runtime_state
BusyRelays(view) ==
    UNION {r.leases \cup r.staging : r \in view}
        \cup ({p.relay : p \in UNION {r.paths : r \in Running(view)}} \ {Direct})

-----------------------------------------------------------------------------
\* Pressures.

\* relay_pressure: every lease is a reservation and a lease token.
RelayPressure(view, relay, dir) ==
    LET on == Toward(Crossing(view, relay), dir)
    IN 200 * UpTo(Cardinality(on), 8) + 15 * UpTo(PathChunks(on, relay), 32)
       + (60 + 50) * UpTo(LeasesOn(view, relay), 8) + 80 * UpTo(StagingOn(view, relay), 8)
       + WorkerShare \div 10
       + (140 * Share(PathBytes(on, relay), BytesIn(Active(view)), 1)) \div 1000
       + 15 * UpTo(Cardinality(Queued(view)), 8) + 20 * UpTo(Cardinality(Admitted(view)), 8)
       + 25 * UpTo(Cardinality(Delayed(view)), 8)

\* direct_pressure
DirectPressure(view, dir) ==
    LET total == BytesIn(Active(view))
    IN (80 * BackendShare) \div 1000
       + 20 * UpTo(Cardinality(Running(view)), 8) + 10 * UpTo(Cardinality(Queued(view)), 8)
       + 15 * UpTo(Cardinality(Admitted(view)), 8)
       + (120 * Share(BytesIn(Toward(Active(view), dir)), total, 1)) \div 1000
       + (100 * Share(PathBytes(Crossing(view, Direct), Direct), total, 1)) \div 1000

\* The worker runs every active path of a plan that has relays, the backend
\* those of a direct plan.
WorkerBytes(view)  == BytesIn({r \in Running(view) : r.leases # {}})
BackendBytes(view) == BytesIn({r \in Running(view) : r.leases = {}})

\* scheduler_pressure_summary
QueuePressure(view) ==
    12 * UpTo(Cardinality(Queued(view)), 16) + 18 * UpTo(Cardinality(Admitted(view)), 16)
        + 30 * UpTo(Cardinality(Delayed(view)), 16)
RunningPressure(view) ==
    30 * UpTo(Cardinality(Running(view)), 16) + 18 * UpTo(Cardinality(Active(view)), 16)
DirectionPressure(view, dir) ==
    LET total == BytesIn(Active(view))
    IN (80 * Share(BytesIn(Toward(Active(view), dir)), total, 2)
        + 50 * Share(BytesIn(Toward(Queued(view), dir)), total, 2)) \div 1000
WorkerPressure(view) ==
    (120 * WorkerShare + 80 * Share(WorkerBytes(view), BytesIn(Active(view)), 2)) \div 1000
BackendPressure(view) ==
    (100 * BackendShare + 80 * Share(BackendBytes(view), BytesIn(Active(view)), 2)) \div 1000

-----------------------------------------------------------------------------
\* Fairness between jobs.

\* workload_charge_multiplier and the priority discount: the bytes a request is
\* charged with, in hundredths of a byte
Charge(req) ==
    LET percent == CASE req.workload = "kv_cache" -> 75
                     [] req.workload \in {"training_state", "optimizer_state"} -> 125
                     [] OTHER -> 100
    IN (10 * req.bytes * percent) \div (10 + UpTo(req.priority, 9))

\* _job_delayed_backlog_bytes counts half
FairBytes(recs) == 100 * BytesIn(Loaded(recs, {"admitted", "running"})) + 50 * BytesIn(Delayed(recs))
TotalWeight == SumFunction(JobWeight)

\* projected_weighted_fairness_bytes and fairness_threshold_bytes, both times
\* the weights of the job and of all jobs
Projected(view, req) == (FairBytes(OfJob(view, req.job)) + Charge(req)) * TotalWeight
Threshold(view, req) == (5 * (FairBytes(view) + Charge(req)) * JobWeight[req.job]) \div 4

\* fairness_overage / fairness_threshold_bytes, up to 2
Overage(view, req) ==
    Share(AtLeast(Projected(view, req) - Threshold(view, req), 0), Threshold(view, req), 2)

RelayBytes(view) ==
    SumFunction([r \in Running(view) |-> BytesIn({p \in r.paths : p.relay # Direct})])

\* resource_pressure of runtime_view; the bytes on relays are in two summaries, and
\* count twice
ResourcePressure(view) ==
    20 * UpTo(Cardinality(Active(view)), 8) + 50 * UpTo(Cardinality(Running(view)), 8)
    + 30 * UpTo(Cardinality(Admitted(view)), 8) + (30 + 30) * UpTo(LeaseCount(view), 8)
    + 40 * UpTo(StagingCount(view), 8) + 20 * UpTo(Cardinality(BusyRelays(view)), 8)
    + (30 * Share(2 * RelayBytes(view), BytesIn(Active(view)), 4)) \div 1000

\* fairness_fallback_for_plan, for a plan with a relay
PrefersDirect(view, req) ==
    /\ view # {}
    /\ Projected(view, req) * (1000 + ResourcePressure(view)) > 1000 * Threshold(view, req)

-----------------------------------------------------------------------------
\* Admission to a relay.

\* relay_admission_blocked_reason: a running transfer that crosses the relay in
\* the same direction, or more pressure than the load allows
PressureBlocks(view, relay, pressure) ==
    \/ pressure >= 950
    \/ Delayed(view) # {} /\ pressure >= 650
    \/ Cardinality(Admitted(view)) >= 2 /\ pressure >= 580
    \/ Cardinality(Running(view)) >= 3 /\ LeasesOn(view, relay) > 0 /\ pressure >= 500
    \/ LeasesOn(view, relay) >= 2 /\ pressure >= 450

RelayBlocked(view, relay, dir) ==
    \/ Toward(Crossing(view, relay), dir) # {}
    \/ PressureBlocks(view, relay, RelayPressure(view, relay, dir))

-----------------------------------------------------------------------------
\* Scheduler weights (cost_model.py).

\* direct_cost_pressure and relay_cost_pressure
CostPressure(view, req, relay) ==
    QueuePressure(view) + RunningPressure(view) + (250 * Overage(view, req)) \div 1000
    + (IF relay = Direct
       THEN DirectPressure(view, req.dir) + DirectionPressure(view, req.dir) + BackendPressure(view)
       ELSE RelayPressure(view, relay, req.dir) + WorkerPressure(view))

\* workload_path_multiplier
WorkloadBias(req, relay) ==
    CASE req.workload = "kv_cache"      -> IF relay = Direct THEN 980 ELSE 1080
      [] req.workload = "model_weights" -> IF relay = Direct THEN 990 ELSE 1060
      [] req.workload \in {"training_state", "optimizer_state"} /\ relay # Direct -> 980
      [] OTHER -> 1000

\* the bonus of an idle path and the penalty for what waits on it
IdleBonus(view, relay) ==
    IF relay = Direct THEN IF BackendBytes(view) = 0 THEN 100 ELSE 0
    ELSE IF relay \in BusyRelays(view) THEN 0 ELSE 180

BacklogPenalty(view, relay, dir) ==
    IF relay = Direct THEN 18 * UpTo(Cardinality(Running(view)), 16)
    ELSE 35 * UpTo(Cardinality(Toward(Crossing(view, relay), dir))
                   + LeasesOn(view, relay) + StagingOn(view, relay), 16)

\* adaptive_policy_for_path, given the cost pressure
Multiplier(view, req, relay, deferred, pressure) ==
    LET penalty == pressure + BacklogPenalty(view, relay, req.dir)
                   + (200 * Overage(view, req)) \div 1000 + IF deferred THEN 180 ELSE 0
        source  == IF relay = Direct THEN BackendPressure(view) ELSE WorkerPressure(view)
    IN AtLeast(((1000 + IdleBonus(view, relay)) * WorkloadBias(req, relay))
                   \div (1000 + penalty + source), 50)

\* scheduler_cost_score, given the cost pressure
CostScore(req, relay, deferred, pressure) ==
    LET admitted == ((1000 + UpTo(pressure, 4000)) * IF deferred THEN 1180 ELSE 1000) \div 1000
        discount == 100000 \div (100 + 8 * UpTo(req.priority, 9))
    IN AtLeast((admitted * discount) \div WorkloadBias(req, relay), 1)

\* scheduler_cost_adjusted_bandwidth
Adjusted(view, req, relay, deferred, bandwidth, pressure) ==
    (1000 * bandwidth * Multiplier(view, req, relay, deferred, pressure))
        \div CostScore(req, relay, deferred, pressure)

SchedulerWeight(view, req, relay, deferred, bandwidth) ==
    IF bandwidth = 0 THEN 0
    ELSE Adjusted(view, req, relay, deferred, bandwidth, CostPressure(view, req, relay))
=============================================================================
