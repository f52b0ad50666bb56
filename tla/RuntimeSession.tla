---- MODULE RuntimeSession ----
(***************************************************************************)
(* The buffers and the daemon session of a runtime session                 *)
(* (runtime_session.py, runtime/*.py, client.py): registration, allocation,*)
(* transfer contexts and their rollback, cleanup, receipts and close, with *)
(* every daemon call refused or failing at any point.  The services behind *)
(* a session are in Services, the daemon is in TransferDaemon; here it is  *)
(* reduced to what it has registered.                                      *)
(*                                                                         *)
(* The session's methods call each other, and each may raise at any daemon *)
(* call.  A method is therefore an operator from the state it starts in to *)
(* the set of outcomes [w |-> state, ok |-> it returned], and an action is *)
(* one call of the application.  Only a submission is split, where it      *)
(* waits for the execution: other threads may use the session meanwhile.   *)
(***************************************************************************)
EXTENDS Naturals, FiniteSets

CONSTANTS
    Allocated,   \* CPU buffers of allocate_cpu_buffer
    Users,       \* CPU buffers the application made
    Cuda,        \* CUDA buffers
    Ids, IdOf,   \* buffer ids, and the id of each buffer
    Intents,
    MaxSessions, \* bound on the sessions the daemon registers
    None

Cpu == Allocated \cup Users
Buffers == Cpu \cup Cuda
SessionIds == 1 .. MaxSessions

ASSUME RuntimeSessionAssumption ==
    /\ IdOf \in [Buffers -> Ids] /\ IsFiniteSet(Ids)
    /\ Allocated \cap (Users \cup Cuda) = {} /\ Users \cap Cuda = {}
    /\ MaxSessions \in Nat
    /\ None \notin Buffers \cup SessionIds /\ None \notin {"executing", "returned", "raised"}
    /\ None \notin [buffer: Buffers, sid: SessionIds \cup {None}, owned: BOOLEAN]

VARIABLES
    w,     \* the session, the memory and what the daemon has registered
    call   \* each intent's submit call: None, "executing", "returned", "raised"

vars == <<w, call>>

Init ==
    /\ w = [closed |-> FALSE, sid |-> None, target |-> FALSE, bufs |-> [b \in Ids |-> None],
            owned |-> {}, fp |-> [b \in Ids |-> None], active |-> {}, submitted |-> {},
            mem |-> [o \in Buffers |-> IF o \in Allocated THEN "none" ELSE "live"],
            \* the daemon
            next |-> 1, open |-> {}, lost |-> {}, job |-> None,
            reg |-> [b \in Ids |-> None], transfer |-> [i \in Intents |-> None]]
    /\ call = [i \in Intents |-> None]

Ok(x) == [w |-> x, ok |-> TRUE]
Raise(x) == [w |-> x, ok |-> FALSE]
States(outcomes) == {o.w : o \in outcomes}

\* The outcomes of a second step, taken where the first one returned
Then(outcomes, Step(_)) ==
    {o \in outcomes : ~o.ok} \cup UNION {Step(o.w) : o \in {p \in outcomes : p.ok}}

\* ... and of a handler, run where it raised
Except(outcomes, Handler(_)) ==
    {o \in outcomes : o.ok}
    \cup {Raise(y) : y \in UNION {Handler(o.w) : o \in {p \in outcomes : ~p.ok}}}

\* The states in which a step has been taken for each of the ids, in any order
ForEach(ids, x, Step(_, _)) ==
    LET after[done \in SUBSET ids] ==
            IF done = {} THEN {x}
            ELSE UNION {UNION {Step(y, b) : y \in after[done \ {b}]} : b \in done}
    IN  after[ids]

(***************************************************************************)
(* The daemon.                                                             *)
(***************************************************************************)
Running(x, b) ==
    \E i \in Intents : /\ x.transfer[i] # None
                       /\ x.transfer[i].state = "running"
                       /\ b \in {x.transfer[i].cpu, x.transfer[i].gpu}

\* Closing a session ends its transfers and removes its job with the job's buffers
DaemonCloses(x, n) ==
    [x EXCEPT !.open = @ \ {n},
              !.job = IF @ = n THEN None ELSE @,
              !.reg = IF x.job = n THEN [b \in Ids |-> None] ELSE @,
              !.transfer = [i \in Intents |->
                  IF @[i] # None /\ @[i].sid = n
                  THEN [@[i] EXCEPT !.state = "ended"] ELSE @[i]]]

CloseRemote(x, n) == {DaemonCloses(x, n), [x EXCEPT !.lost = @ \cup {n}]}

(***************************************************************************)
(* Memory.  close and release raise while a view of the memory is exported;*)
(* release unlinks it all the same.                                        *)
(***************************************************************************)
CloseMemory(x, o) ==
    IF x.mem[o] = "live" THEN {Ok([x EXCEPT !.mem[o] = "closed"]), Raise(x)} ELSE {Ok(x)}

ReleaseMemory(x, o) ==
    {Ok([x EXCEPT !.mem[o] = "released"])}
    \cup IF x.mem[o] = "live" THEN {Raise([x EXCEPT !.mem[o] = "unlinked"])} ELSE {}

LocalCleanup(x, o, owned) ==
    IF o \notin Cpu THEN {Ok(x)}
    ELSE IF owned THEN ReleaseMemory(x, o) ELSE CloseMemory(x, o)

(***************************************************************************)
(* Sessions, registration, cleanup.                                        *)
(***************************************************************************)
\* Mutation of OpenSession: a session whose job or profile fails is not closed
OpenSessionUnclosed(x) ==
    IF x.sid # None THEN {Ok(x)}
    ELSE IF ~x.target \/ x.next \notin SessionIds THEN {Raise(x)}
    ELSE LET n == x.next
             registered == [x EXCEPT !.next = n + 1, !.open = @ \cup {n}]
         IN  {Raise(x), Raise(registered)}
             \cup IF x.job = None THEN {Ok([registered EXCEPT !.job = n, !.sid = n])} ELSE {}

OpenSession(x) ==
    IF x.sid # None THEN {Ok(x)}
    ELSE IF ~x.target \/ x.next \notin SessionIds THEN {Raise(x)}
    ELSE LET n == x.next
             registered == [x EXCEPT !.next = n + 1, !.open = @ \cup {n}]
             bound == [registered EXCEPT !.job = n]
             failed == {registered} \cup IF x.job = None THEN {bound} ELSE {}
         IN  {Raise(x)}
             \cup {Raise(y) : y \in UNION {CloseRemote(z, n) : z \in failed}}
             \cup IF x.job = None THEN {Ok([bound EXCEPT !.sid = n])} ELSE {}

Registration(x, b) ==
    [buffer |-> x.bufs[b], sid |-> x.sid, owned |-> b \in x.owned]

Forget(x, b) ==
    [x EXCEPT !.bufs[b] = None, !.fp[b] = None, !.owned = @ \ {b}]

\* The release evidence reaches the receipts of the transfers that used the buffer
Retain(x, b, owned) ==
    [x EXCEPT !.transfer = [i \in Intents |->
        IF owned /\ @[i] # None /\ @[i].cpu = b
        THEN [@[i] EXCEPT !.released = TRUE] ELSE @[i]]]

\* The daemon refuses while a transfer runs, and without force what it does not know
DaemonCleanup(x, b, force) ==
    IF x.fp[b] = None THEN {Ok(x)}
    ELSE {Raise(x)}
         \cup IF ~Running(x, b) /\ (force \/ x.reg[b] # None)
              THEN {Ok([x EXCEPT !.reg[b] = None])} ELSE {}

\* Mutation of CleanupBuffer: the owner is read after the buffer is forgotten
CleanupBufferDisowned(x, b, force) ==
    LET object == x.bufs[b]
        registered == x.fp[b] # None
        Local(y) == LET f == Forget(y, b) IN LocalCleanup(f, object, b \in f.owned)
        Retention(d, l) ==
            IF d.ok /\ registered THEN {Raise(l.w), l} ELSE {[w |-> l.w, ok |-> d.ok /\ l.ok]}
    IN  UNION {UNION {Retention(d, l) : l \in Local(d.w)} : d \in DaemonCleanup(x, b, force)}

CleanupBuffer(x, b, force) ==
    LET object == x.bufs[b]
        owned == b \in x.owned
        registered == x.fp[b] # None
        Local(y) == LocalCleanup(Forget(y, b), object, owned)
        Retention(d, l) ==
            IF d.ok /\ registered
            THEN {Raise(l.w), [w |-> IF l.ok THEN Retain(l.w, b, owned) ELSE l.w, ok |-> l.ok]}
            ELSE {[w |-> l.w, ok |-> d.ok /\ l.ok]}
    IN  UNION {UNION {Retention(d, l) : l \in Local(d.w)} : d \in DaemonCleanup(x, b, force)}

CleanupAll(x, ids) == ForEach(ids, x, LAMBDA y, b : States(CleanupBuffer(y, b, TRUE)))

Registered(x, ids) ==
    LET new == [b \in Ids |-> IF b \in ids THEN Registration(x, b) ELSE None]
    IN  [x EXCEPT !.fp = [b \in Ids |-> IF b \in ids THEN new[b] ELSE @[b]],
                  !.reg = [b \in Ids |-> IF b \in ids THEN new[b] ELSE @[b]]]

\* Mutation of Pending: a registration is not tied to the session it was made in
PendingAnySession(x) ==
    {b \in Ids : /\ x.bufs[b] # None
                 /\ \/ x.fp[b] = None
                    \/ x.fp[b].buffer # x.bufs[b]
                    \/ x.fp[b].owned # (b \in x.owned)}

Pending(x) == {b \in Ids : x.bufs[b] # None /\ x.fp[b] # Registration(x, b)}

\* A call that fails has the buffers registered before it in this pass cleaned up
RegisterPending(x) ==
    LET todo == Pending(x)
        able == {b \in todo : x.job # None /\ x.reg[b] \in {None, Registration(x, b)}}
    IN  IF todo = {} THEN {Ok(x)}
        ELSE {Raise(y) : y \in UNION {CleanupAll(Registered(x, done), done) :
                                          done \in SUBSET able \ {todo}}}
             \cup IF able = todo THEN {Ok(Registered(x, todo))} ELSE {}

RegisterBuffer(x, o) ==
    LET b == IdOf[o]
        entered == [x EXCEPT !.bufs[b] = o, !.target = @ \/ o \in Cuda]
        Restore(y) == {[y EXCEPT !.bufs[b] = x.bufs[b]]}
    IN  IF \/ o \in Cpu /\ x.mem[o] # "live"
           \/ x.bufs[b] \notin {None, o} /\ b \in x.owned
        THEN {Raise(x)}
        ELSE IF ~entered.target THEN {Ok(entered)}
        ELSE Except(Then(OpenSession(entered), RegisterPending), Restore)

RegisterCpuBuffer(x, o, owned) ==
    LET b == IdOf[o]
        entered == IF owned THEN [x EXCEPT !.owned = @ \cup {b}] ELSE x
        Undo(y) == States(ReleaseMemory(IF owned /\ b \notin x.owned
                                        THEN [y EXCEPT !.owned = @ \ {b}] ELSE y, o))
    IN  Except(RegisterBuffer(entered, o), Undo)

AllocateCpuBuffer(x, o) == RegisterCpuBuffer([x EXCEPT !.mem[o] = "live"], o, TRUE)

RollbackContextBuffer(x, b) ==
    IF x.sid # None /\ x.fp[b] # None
    THEN States(CleanupBuffer(x, b, TRUE))
    ELSE States(LocalCleanup(Forget(x, b), x.bufs[b], b \in x.owned))

MakeTransferContext(x, c, g) ==
    LET new == {b \in {IdOf[c], IdOf[g]} : x.bufs[b] = None}
        RegisterCpu(y) == RegisterCpuBuffer(y, c, FALSE)
        \* The values of the context may be refused at last
        Build(y) == {Ok(y), Raise(y)}
        Close(y) ==
            IF x.sid = None /\ y.sid # None
            THEN {[z EXCEPT !.sid = None] : z \in CloseRemote(y, y.sid)} ELSE {y}
        Handler(y) == UNION {Close(z) : z \in ForEach(new, y, RollbackContextBuffer)}
    IN  Except(Then(Then(Then(RegisterBuffer(x, g), OpenSession), RegisterCpu), Build), Handler)

(***************************************************************************)
(* Intents and receipts.  A receipt is taken when the transfer has ended,  *)
(* names the session as it is now, and, for a runtime-owned buffer, shows  *)
(* that its memory was released (runtime/validation.py).                   *)
(***************************************************************************)
Acceptable(x, i) ==
    LET t == x.transfer[i]
    IN  ~x.closed /\ t # None /\ t.state = "ended" /\ t.sid = x.sid /\ (t.owned => t.released)

Finalize(x, i) == [x EXCEPT !.active = @ \ {i}]

TakeReceipts(x) == [x EXCEPT !.active = {i \in @ : ~Acceptable(x, i)}]

RecordSubmitted(x, i) == [x EXCEPT !.submitted = @ \cup {i}, !.active = @ \cup {i}]

Transfer(x, c, g) ==
    [state |-> "running", sid |-> x.sid, cpu |-> c, gpu |-> g,
     owned |-> x.reg[c].owned, released |-> FALSE]

PrepareIntent(x) == Then(OpenSession(x), RegisterPending)

(***************************************************************************)
(* Actions.                                                                *)
(***************************************************************************)
Call(outcomes) ==
    /\ ~w.closed
    /\ w' \in States(outcomes)
    /\ UNCHANGED call

\* A buffer that the application made, or was given by allocate_cpu_buffer
Register(o, owned) == w.mem[o] # "none" /\ Call(RegisterCpuBuffer(w, o, owned))

RegisterCuda(o) == Call(RegisterBuffer(w, o))

Allocate(o) == w.mem[o] \in {"none", "released"} /\ Call(AllocateCpuBuffer(w, o))

Context(c, g) == w.mem[c] # "none" /\ Call(MakeTransferContext(w, c, g))

Cleanup(b, force) == Call(CleanupBuffer(w, b, force))

Submit(i, c, g) ==
    /\ ~w.closed /\ call[i] = None
    /\ w.bufs[c] \in Cpu /\ w.bufs[g] \in Cuda
    /\ \E o \in PrepareIntent(w) :
        LET x == RecordSubmitted(o.w, i)
            known == x.sid \in x.open /\ {x.reg[c], x.reg[g]} \cap {None} = {}
        IN  \/ ~o.ok /\ w' = o.w /\ UNCHANGED call
            \/ /\ o.ok /\ known
               /\ w' = [x EXCEPT !.transfer[i] = Transfer(x, c, g)]
               /\ call' = [call EXCEPT ![i] = "executing"]
            \/ /\ o.ok
               /\ w' = [x EXCEPT !.active = @ \ {i}]
               /\ call' = [call EXCEPT ![i] = "raised"]

SubmitReturns(i) ==
    /\ call[i] = "executing"
    /\ w.transfer[i].state = "ended"
    /\ IF Acceptable(w, i)
       THEN w' = Finalize(w, i) /\ call' = [call EXCEPT ![i] = "returned"]
       ELSE /\ w' = [w EXCEPT !.active = @ \ {i}]
            /\ call' = [call EXCEPT ![i] = "raised"]

\* wait_transfer_receipt and recover_transfer_state
Receive(i) ==
    /\ ~w.closed /\ i \in w.submitted /\ Acceptable(w, i)
    /\ w' = Finalize(w, i) /\ UNCHANGED call

LocalCleanups(x) ==
    ForEach({b \in Ids : x.bufs[b] # None}, x,
            LAMBDA y, b : States(LocalCleanup(y, y.bufs[b], b \in y.owned)))

\* clear_runtime_session_state
Clear(x) ==
    [x EXCEPT !.sid = None, !.target = FALSE, !.bufs = [b \in Ids |-> None], !.owned = {},
              !.fp = [b \in Ids |-> None], !.active = {}, !.submitted = {}]

Close ==
    LET received == TakeReceipts(w)
        cleaned == CleanupAll(received, {b \in Ids : w.fp[b] # None})
        remote == IF w.sid = None THEN {w}
                  ELSE UNION {CloseRemote(x, w.sid) : x \in cleaned}
        ended == UNION {LocalCleanups(TakeReceipts(x)) : x \in remote}
    IN  /\ ~w.closed
        /\ \E x \in ended : w' = [Clear(x) EXCEPT !.closed = TRUE]
        /\ UNCHANGED call

\* The transfer ends at the daemon
Executed(i) ==
    /\ w.transfer[i] # None /\ w.transfer[i].state = "running"
    /\ w' = [w EXCEPT !.transfer[i].state = "ended"] /\ UNCHANGED call

\* The daemon reaps a stale session
Reap(n) ==
    n \in w.open /\ w' = DaemonCloses(w, n) /\ UNCHANGED call

Next ==
    \/ \E o \in Cpu, owned \in BOOLEAN : Register(o, owned)
    \/ \E o \in Cuda : RegisterCuda(o)
    \/ \E o \in Allocated : Allocate(o)
    \/ \E c \in Cpu, g \in Cuda : Context(c, g)
    \/ \E b \in Ids, force \in BOOLEAN : Cleanup(b, force)
    \/ \E i \in Intents : \/ \E c, g \in Ids : Submit(i, c, g)
                          \/ SubmitReturns(i) \/ Receive(i) \/ Executed(i)
    \/ Close
    \/ \E n \in w.open : Reap(n)

Spec == Init /\ [][Next]_vars

(***************************************************************************)
(* Properties.                                                             *)
(***************************************************************************)
\* The memory that allocate_cpu_buffer made is either owned by the session,
\* which will release it, or was released: whichever call failed where, and
\* after close.
OwnedMemoryIsTracked ==
    \A o \in Allocated :
        w.mem[o] = "live" => w.bufs[IdOf[o]] = o /\ IdOf[o] \in w.owned

\* When an intent goes out, a daemon that still has the session has every buffer
\* registered as the session holds it now: the object, the session and the
\* ownership.  The fingerprints that skip a registration outlive cleanups,
\* refused cleanups, closed sessions and failed contexts.
SubmittedAsRegistered ==
    [][\A i \in Intents :
          call[i] = None /\ call'[i] # None /\ w'.sid \in w'.open =>
              \A b \in Ids : w'.bufs[b] # None => w'.reg[b] = Registration(w', b)]_vars

\* The daemon holds no session the runtime no longer knows, except those whose
\* close it refused: a start that fails half way closes what it opened.
NoSessionLeftOpen == w.open \subseteq {w.sid} \cup w.lost

====
