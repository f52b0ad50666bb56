------------------------ MODULE RuntimeSessionProofs ------------------------
(***************************************************************************)
(* Proofs about the runtime session, for any number of buffers, ids and    *)
(* intents and any sequence of calls: no memory that the session allocated *)
(* is lost, no daemon session is forgotten, and what goes out with an      *)
(* intent is registered as the session holds it.                           *)
(*                                                                         *)
(* A method is a set of outcomes, so its lemma says what holds in each of  *)
(* them, whether it returned or raised; methods that call each other have  *)
(* their lemmas chained.  Where a method undoes what it did for each of    *)
(* several buffers, in whatever order, ForEach keeps a set of states.      *)
(***************************************************************************)
EXTENDS RuntimeSession, DataLemmas

-----------------------------------------------------------------------------
\* The inductive invariant.

MaybeSession == SessionIds \cup {None}

TransferRecord ==
    [state: {"running", "ended"}, sid: MaybeSession, cpu: Ids, gpu: Ids,
     owned: BOOLEAN, released: BOOLEAN]

RegistrationRecord == [buffer: Buffers, sid: MaybeSession, owned: BOOLEAN]

World ==
    [closed: BOOLEAN, sid: MaybeSession, target: BOOLEAN,
     bufs: [Ids -> Buffers \cup {None}], owned: SUBSET Ids,
     fp: [Ids -> RegistrationRecord \cup {None}],
     active: SUBSET Intents, submitted: SUBSET Intents,
     mem: [Buffers -> {"none", "live", "closed", "unlinked", "released"}],
     next: Nat, open: SUBSET SessionIds, lost: SUBSET SessionIds, job: MaybeSession,
     reg: [Ids -> RegistrationRecord \cup {None}],
     transfer: [Intents -> TransferRecord \cup {None}]]

\* Session ids are given out once.  The job of the session is the session's own as long
\* as the daemon has it, so that no other session's end takes its buffers along.
Sessions(x) ==
    /\ x.open \subseteq {x.sid} \cup x.lost
    /\ x.sid \in x.open => x.job = x.sid
    /\ x.sid # None => x.sid < x.next
    /\ \A n \in x.open : n < x.next
    /\ \A b \in Ids : x.fp[b] # None /\ x.fp[b].sid # None => x.fp[b].sid < x.next

Named(x) == \A b \in Ids : x.bufs[b] # None => IdOf[x.bufs[b]] = b

\* A fingerprint of the present session is what the daemon has.
Fresh(x) ==
    x.sid \in x.open =>
        \A b \in Ids : x.fp[b] # None /\ x.fp[b].sid = x.sid => x.reg[b] = x.fp[b]

Tracked(x, A) ==
    \A o \in A : x.mem[o] = "live" => x.bufs[IdOf[o]] = o /\ IdOf[o] \in x.owned

\* The invariant in the middle of a call, when memory outside A is not tracked yet
Inv(x, A) == x \in World /\ Sessions(x) /\ Named(x) /\ Fresh(x) /\ Tracked(x, A)

SessionInv ==
    /\ Inv(w, Allocated)
    /\ call \in [Intents -> {None, "executing", "returned", "raised"}]

Memory == {"none", "live", "closed", "unlinked", "released"}

\* Memory only leaves "live", and the session stays.
Wanes(x, y) ==
    y.sid = x.sid /\ \A o \in Buffers : y.mem[o] = "live" => x.mem[o] = "live"

-----------------------------------------------------------------------------
\* Memory and the daemon.

\* Memory that is closed, unlinked or released needs no tracking any more.
LEMMA MemoryLeaves ==
    ASSUME NEW B \in SUBSET Allocated, NEW y, Inv(y, B), NEW o \in Buffers,
           NEW v \in {"closed", "unlinked", "released"}
    PROVE  /\ Inv([y EXCEPT !.mem[o] = v], B \cup {o})
           /\ Wanes(y, [y EXCEPT !.mem[o] = v])
<1> DEFINE z == [y EXCEPT !.mem[o] = v]
<1>1. y \in World
  BY DEF Inv
<1>2. z \in World
  BY <1>1 DEF World
<1>3. \A u \in Buffers : z.mem[u] = IF u = o THEN v ELSE y.mem[u]
  BY <1>1 DEF World
<1>4. /\ z.sid = y.sid /\ z.open = y.open /\ z.lost = y.lost /\ z.job = y.job
      /\ z.next = y.next /\ z.fp = y.fp /\ z.reg = y.reg /\ z.bufs = y.bufs
      /\ z.owned = y.owned
  BY <1>1 DEF World
<1> HIDE DEF z
<1>5. Sessions(z)
  BY <1>4 DEF Inv, Sessions
<1>6. Named(z) /\ Fresh(z)
  BY <1>4 DEF Inv, Named, Fresh
<1>7. Tracked(z, B \cup {o})
  BY <1>3, <1>4 DEF Inv, Tracked, Buffers, Cpu
<1>8. Wanes(y, z)
  BY <1>3, <1>4 DEF Wanes
<1>9. QED
  BY <1>2, <1>5, <1>6, <1>7, <1>8 DEF Inv, z

\* The local cleanup of an object takes memory that the session owned out of use.
LEMMA LocalCleanupKeeps ==
    ASSUME NEW A \in SUBSET Allocated, NEW y, NEW object, NEW owned \in BOOLEAN,
           Inv(y, A \ {object}), owned \/ Inv(y, A),
           NEW l \in LocalCleanup(y, object, owned)
    PROVE  Inv(l.w, A) /\ Wanes(y, l.w)
<1>1. Wanes(y, y)
  BY DEF Wanes
<1>2. CASE object \notin Cpu
  <2>1. l = Ok(y)
    BY <1>2 DEF LocalCleanup
  <2>2. A \ {object} = A
    BY <1>2 DEF Cpu
  <2>3. QED
    BY <1>1, <2>1, <2>2 DEF Ok
<1>3. CASE object \in Cpu
  <2>1. object \in Buffers
    BY <1>3 DEF Buffers
  <2> DEFINE Dead(v) == [y EXCEPT !.mem[object] = v]
  <2>2. ASSUME NEW v \in {"closed", "unlinked", "released"}
        PROVE  Inv(Dead(v), A) /\ Wanes(y, Dead(v))
    <3>1. Inv(Dead(v), (A \ {object}) \cup {object}) /\ Wanes(y, Dead(v))
      BY <2>1, MemoryLeaves
    <3> HIDE DEF Dead
    <3>2. QED
      BY <3>1 DEF Inv, Tracked
  <2>3. CASE owned
    <3>1. l.w \in {Dead("released"), Dead("unlinked")}
      BY <1>3, <2>3 DEF LocalCleanup, ReleaseMemory, Ok, Raise
    <3>2. QED
      BY <2>2, <3>1
  <2>4. CASE ~owned
    <3>1. l.w \in {y, Dead("closed")}
      BY <1>3, <2>4 DEF LocalCleanup, CloseMemory, Ok, Raise
    <3>2. QED
      BY <1>1, <2>2, <2>4, <3>1
  <2>5. QED
    BY <2>3, <2>4
<1>4. QED
  BY <1>2, <1>3

\* The daemon may have forgotten the buffer, or not.
Unregister(x, b) == [x EXCEPT !.reg[b] = None]

\* A session that forgets a buffer no longer tracks the memory of its object, which it did
\* track if it owned it.
LEMMA ForgetKeeps ==
    ASSUME NEW A \in SUBSET Allocated, NEW x, Inv(x, A), NEW b \in Ids,
           NEW r \in {x, Unregister(x, b)}
    PROVE  LET y == Forget(r, b)
           IN  /\ Inv(y, A \ {x.bufs[b]}) /\ (b \in x.owned \/ Inv(y, A))
               /\ y.sid = x.sid /\ y.mem = x.mem
<1> DEFINE y == Forget(r, b)
<1>1. x \in World
  BY DEF Inv
<1>2. r \in World
  BY <1>1 DEF World, Unregister
<1>3. /\ r.sid = x.sid /\ r.open = x.open /\ r.lost = x.lost /\ r.job = x.job
      /\ r.next = x.next /\ r.fp = x.fp /\ r.bufs = x.bufs /\ r.owned = x.owned
      /\ r.mem = x.mem /\ \A c \in Ids : c # b => r.reg[c] = x.reg[c]
  BY <1>1 DEF World, Unregister
<1>4. y \in World
  BY <1>2 DEF World, Forget
<1>5. /\ y.sid = x.sid /\ y.open = x.open /\ y.lost = x.lost /\ y.job = x.job
      /\ y.next = x.next /\ y.mem = x.mem /\ y.reg = r.reg /\ y.owned = x.owned \ {b}
      /\ \A c \in Ids : /\ y.fp[c] = IF c = b THEN None ELSE x.fp[c]
                        /\ y.bufs[c] = IF c = b THEN None ELSE x.bufs[c]
  BY <1>2, <1>3 DEF World, Forget
<1> HIDE DEF y
<1>6. Sessions(y)
  BY <1>5 DEF Inv, Sessions
<1>7. Named(y)
  BY <1>5 DEF Inv, Named
<1>8. Fresh(y)
  BY <1>3, <1>5 DEF Inv, Fresh
<1>9. ASSUME NEW o \in A, y.mem[o] = "live", o # x.bufs[b] \/ b \notin x.owned
      PROVE  y.bufs[IdOf[o]] = o /\ IdOf[o] \in y.owned
  <2>1. x.bufs[IdOf[o]] = o /\ IdOf[o] \in x.owned
    BY <1>5, <1>9 DEF Inv, Tracked
  <2>2. IdOf[o] \in Ids /\ IdOf[o] # b
    BY <1>9, <2>1, RuntimeSessionAssumption DEF Buffers, Cpu
  <2>3. QED
    BY <1>5, <2>1, <2>2
<1>10. Tracked(y, A \ {x.bufs[b]}) /\ (b \in x.owned \/ Tracked(y, A))
  BY <1>9 DEF Tracked
<1>11. QED
  BY <1>4, <1>5, <1>6, <1>7, <1>8, <1>10 DEF Inv, y

\* The release evidence changes nothing that the session tracks.
LEMMA RetainKeeps ==
    ASSUME NEW A \in SUBSET Allocated, NEW x, Inv(x, A), NEW b \in Ids, NEW owned \in BOOLEAN
    PROVE  Inv(Retain(x, b, owned), A) /\ Wanes(x, Retain(x, b, owned))
<1> DEFINE y == Retain(x, b, owned)
<1>1. x \in World
  BY DEF Inv
<1>2. \A i \in Intents : x.transfer[i] # None => [x.transfer[i] EXCEPT !.released = TRUE] \in TransferRecord
  BY <1>1 DEF World, TransferRecord
<1>3. y \in World
  BY <1>1, <1>2 DEF World, Retain
<1>4. /\ y.sid = x.sid /\ y.open = x.open /\ y.lost = x.lost /\ y.job = x.job
      /\ y.next = x.next /\ y.fp = x.fp /\ y.reg = x.reg /\ y.bufs = x.bufs
      /\ y.owned = x.owned /\ y.mem = x.mem
  BY <1>1 DEF World, Retain
<1> HIDE DEF y
<1>5. Sessions(y) /\ Named(y)
  BY <1>4 DEF Inv, Sessions, Named
<1>6. Fresh(y) /\ Tracked(y, A) /\ Wanes(x, y)
  BY <1>4 DEF Inv, Fresh, Tracked, Wanes
<1>7. QED
  BY <1>3, <1>5, <1>6 DEF Inv, y

\* However the cleanup of a buffer ends, what the session owned is tracked or released.
LEMMA CleanupBufferKeeps ==
    ASSUME NEW A \in SUBSET Allocated, NEW x, Inv(x, A), NEW b \in Ids,
           NEW force \in BOOLEAN, NEW o \in CleanupBuffer(x, b, force)
    PROVE  Inv(o.w, A) /\ Wanes(x, o.w)
<1> DEFINE owned == b \in x.owned
<1>1. PICK d \in DaemonCleanup(x, b, force) :
        \E l \in LocalCleanup(Forget(d.w, b), x.bufs[b], owned) :
            o.w = l.w \/ o.w = Retain(l.w, b, owned)
  BY DEF CleanupBuffer, Raise
<1>2. d.w \in {x, Unregister(x, b)}
  BY DEF DaemonCleanup, Ok, Raise, Unregister
<1> DEFINE y == Forget(d.w, b)
<1>3. /\ Inv(y, A \ {x.bufs[b]}) /\ (owned \/ Inv(y, A))
      /\ y.sid = x.sid /\ y.mem = x.mem
  BY <1>2, ForgetKeeps
<1> HIDE DEF y
<1>4. owned \in BOOLEAN
  OBVIOUS
<1> HIDE DEF owned
<1>l. PICK l \in LocalCleanup(y, x.bufs[b], owned) : o.w = l.w \/ o.w = Retain(l.w, b, owned)
  BY <1>1 DEF y
<1>5. Inv(l.w, A) /\ Wanes(y, l.w)
  BY <1>3, <1>4, LocalCleanupKeeps DEF y
<1>6. Wanes(x, l.w)
  BY <1>3, <1>5 DEF Wanes
<1> DEFINE r == Retain(l.w, b, owned)
<1>7. Inv(r, A) /\ Wanes(l.w, r)
  BY <1>4, <1>5, RetainKeeps
<1>8. Wanes(x, r)
  BY <1>6, <1>7 DEF Wanes
<1>9. QED
  BY <1>l, <1>5, <1>6, <1>7, <1>8

\* So does the rollback of a buffer that the daemon may not know.
LEMMA RollbackKeeps ==
    ASSUME NEW A \in SUBSET Allocated, NEW x, Inv(x, A), NEW b \in Ids,
           NEW z \in RollbackContextBuffer(x, b)
    PROVE  Inv(z, A) /\ Wanes(x, z)
<1> DEFINE owned == b \in x.owned
           y == Forget(x, b)
<1>1. \/ \E o \in CleanupBuffer(x, b, TRUE) : z = o.w
      \/ \E l \in LocalCleanup(y, x.bufs[b], owned) : z = l.w
  BY Zenon DEF RollbackContextBuffer, States
<1>2. ASSUME NEW o \in CleanupBuffer(x, b, TRUE), z = o.w
      PROVE  Inv(z, A) /\ Wanes(x, z)
  BY <1>2, CleanupBufferKeeps
<1>3. ASSUME NEW l \in LocalCleanup(y, x.bufs[b], owned), z = l.w
      PROVE  Inv(z, A) /\ Wanes(x, z)
  <2>1. /\ Inv(y, A \ {x.bufs[b]}) /\ (owned \/ Inv(y, A))
        /\ y.sid = x.sid /\ y.mem = x.mem
    BY ForgetKeeps
  <2>2. owned \in BOOLEAN
    OBVIOUS
  <2> HIDE DEF y, owned
  <2>3. Inv(l.w, A) /\ Wanes(y, l.w)
    BY <2>1, <2>2, LocalCleanupKeeps
  <2>4. QED
    BY <1>3, <2>1, <2>3 DEF Wanes
<1>4. QED
  BY <1>1, <1>2, <1>3

-----------------------------------------------------------------------------
\* One buffer after the other.

\* The cleanup of several buffers, in any order.
LEMMA CleanupAllKeeps ==
    ASSUME NEW A \in SUBSET Allocated, NEW x, Inv(x, A), NEW ids \in SUBSET Ids,
           NEW z \in CleanupAll(x, ids)
    PROVE  Inv(z, A) /\ Wanes(x, z)
<1> DEFINE W == {y \in World : Inv(y, A) /\ Wanes(x, y)}
           Step(y, b) == States(CleanupBuffer(y, b, TRUE))
           op == [b \in ids |-> [y \in W |-> Step(y, b)]]
           At(g, done) == IF done = {} THEN {x}
                          ELSE UNION {UNION {Step(y, b) : y \in g[done \ {b}]} : b \in done}
           After(g) == [done \in SUBSET ids |-> At(g, done)]
           f == CHOOSE g : g = After(g)
           V == [S \in SUBSET ids |-> W]
<1>1. IsFiniteSet(ids)
  BY RuntimeSessionAssumption, FS_Subset
<1>2. x \in W
  BY DEF Inv, Wanes
<1>3. ASSUME NEW b \in ids, NEW y \in W
      PROVE  Step(y, b) \subseteq W
  <2>1. ASSUME NEW o \in CleanupBuffer(y, b, TRUE)
        PROVE  o.w \in W
    <3>1. Inv(o.w, A) /\ Wanes(y, o.w)
      BY CleanupBufferKeeps
    <3>2. Wanes(x, o.w)
      BY <3>1 DEF Wanes
    <3>3. QED
      BY <3>1, <3>2 DEF Inv
  <2>2. QED
    BY <2>1 DEF States
<1> HIDE DEF Step, W
<1>4. op \in [ids -> [W -> SUBSET W]]
  BY <1>3
<1>5. \E g : g = After(g)
  <2>1. PICK g \in [SUBSET ids -> SUBSET W] : Visiting(g, ids, x, op)
    <3> HIDE DEF op
    <3>1. QED
      BY <1>1, <1>2, <1>4, VisitsExist
  <2>2. ASSUME NEW done \in SUBSET ids, NEW b \in done
        PROVE  UNION {op[b][y] : y \in g[done \ {b}]} = UNION {Step(y, b) : y \in g[done \ {b}]}
    <3>1. b \in ids /\ g[done \ {b}] \subseteq W
      OBVIOUS
    <3>2. \A y \in g[done \ {b}] : op[b][y] = Step(y, b)
      BY <3>1
    <3> HIDE DEF op
    <3>3. QED
      BY <3>2
  <2> DEFINE Bt(done) == IF done = {} THEN {x}
                         ELSE UNION {UNION {op[b][y] : y \in g[done \ {b}]} : b \in done}
  <2>3. ASSUME NEW done \in SUBSET ids
        PROVE  Bt(done) = At(g, done)
    <3> DEFINE By(b) == UNION {op[b][y] : y \in g[done \ {b}]}
               To(b) == UNION {Step(y, b) : y \in g[done \ {b}]}
    <3>1. \A b \in done : By(b) = To(b)
      BY <2>2
    <3>2. {By(b) : b \in done} = {To(b) : b \in done}
      <4> HIDE DEF By, To
      <4>1. {By(b) : b \in done} \subseteq {To(b) : b \in done}
        BY <3>1
      <4>2. {To(b) : b \in done} \subseteq {By(b) : b \in done}
        BY <3>1
      <4>3. QED
        BY <4>1, <4>2
    <3>3. QED
      BY <3>2
  <2>4. g = [done \in SUBSET ids |-> Bt(done)]
    BY <2>1 DEF Visiting
  <2> HIDE DEF At, Bt
  <2>5. [done \in SUBSET ids |-> Bt(done)] = After(g)
    BY <2>3
  <2>6. QED
    BY <2>4, <2>5
<1>6. f = After(f)
  <2> HIDE DEF After
  <2>1. QED
    BY <1>5
<1> HIDE DEF f
<1>7. \A S \in SUBSET ids : f[S] = At(f, S)
  <2> HIDE DEF At
  <2>1. QED
    BY <1>6
<1>8. f[{}] \subseteq V[{}]
  BY <1>2, <1>7
<1>9. ASSUME NEW S \in SUBSET ids, S # {}, NEW y \in f[S]
      PROVE  \E b \in S : \E u \in f[S \ {b}] : u \in V[S \ {b}] => y \in V[S]
  <2>a. y \in UNION {UNION {Step(u, b) : u \in f[S \ {b}]} : b \in S}
    BY <1>7, <1>9
  <2>1. PICK b \in S : y \in UNION {Step(u, b) : u \in f[S \ {b}]}
    BY <2>a
  <2>2. PICK u \in f[S \ {b}] : y \in Step(u, b)
    BY <2>1
  <2>3. u \in W => y \in W
    BY <1>3, <2>2
  <2>4. QED
    BY <2>2, <2>3
<1>10. f[ids] \subseteq V[ids]
  <2> HIDE DEF V
  <2>1. QED
    BY <1>1, <1>8, <1>9, VisitsStay
<1>11. CleanupAll(x, ids) = f[ids]
  BY DEF CleanupAll, ForEach, f, Step
<1>12. z \in W
  BY <1>10, <1>11
<1>13. QED
  BY <1>12 DEF W

\* The rollback of several buffers, in any order.
LEMMA RollbackAllKeeps ==
    ASSUME NEW A \in SUBSET Allocated, NEW x, Inv(x, A), NEW ids \in SUBSET Ids,
           NEW z \in ForEach(ids, x, RollbackContextBuffer)
    PROVE  Inv(z, A) /\ Wanes(x, z)
<1> DEFINE W == {y \in World : Inv(y, A) /\ Wanes(x, y)}
           Step(y, b) == RollbackContextBuffer(y, b)
           op == [b \in ids |-> [y \in W |-> Step(y, b)]]
           At(g, done) == IF done = {} THEN {x}
                          ELSE UNION {UNION {Step(y, b) : y \in g[done \ {b}]} : b \in done}
           After(g) == [done \in SUBSET ids |-> At(g, done)]
           f == CHOOSE g : g = After(g)
           V == [S \in SUBSET ids |-> W]
<1>1. IsFiniteSet(ids)
  BY RuntimeSessionAssumption, FS_Subset
<1>2. x \in W
  BY DEF Inv, Wanes
<1>3. ASSUME NEW b \in ids, NEW y \in W
      PROVE  Step(y, b) \subseteq W
  <2>1. ASSUME NEW u \in Step(y, b)
        PROVE  u \in W
    <3>1. Inv(u, A) /\ Wanes(y, u)
      BY RollbackKeeps
    <3>2. Wanes(x, u)
      BY <3>1 DEF Wanes
    <3>3. QED
      BY <3>1, <3>2 DEF Inv
  <2>2. QED
    BY <2>1
<1> HIDE DEF Step, W
<1>4. op \in [ids -> [W -> SUBSET W]]
  BY <1>3
<1>5. \E g : g = After(g)
  <2>1. PICK g \in [SUBSET ids -> SUBSET W] : Visiting(g, ids, x, op)
    <3> HIDE DEF op
    <3>1. QED
      BY <1>1, <1>2, <1>4, VisitsExist
  <2>2. ASSUME NEW done \in SUBSET ids, NEW b \in done
        PROVE  UNION {op[b][y] : y \in g[done \ {b}]} = UNION {Step(y, b) : y \in g[done \ {b}]}
    <3>1. b \in ids /\ g[done \ {b}] \subseteq W
      OBVIOUS
    <3>2. \A y \in g[done \ {b}] : op[b][y] = Step(y, b)
      BY <3>1
    <3> HIDE DEF op
    <3>3. QED
      BY <3>2
  <2> DEFINE Bt(done) == IF done = {} THEN {x}
                         ELSE UNION {UNION {op[b][y] : y \in g[done \ {b}]} : b \in done}
  <2>3. ASSUME NEW done \in SUBSET ids
        PROVE  Bt(done) = At(g, done)
    <3> DEFINE By(b) == UNION {op[b][y] : y \in g[done \ {b}]}
               To(b) == UNION {Step(y, b) : y \in g[done \ {b}]}
    <3>1. \A b \in done : By(b) = To(b)
      BY <2>2
    <3>2. {By(b) : b \in done} = {To(b) : b \in done}
      <4> HIDE DEF By, To
      <4>1. {By(b) : b \in done} \subseteq {To(b) : b \in done}
        BY <3>1
      <4>2. {To(b) : b \in done} \subseteq {By(b) : b \in done}
        BY <3>1
      <4>3. QED
        BY <4>1, <4>2
    <3>3. QED
      BY <3>2
  <2>4. g = [done \in SUBSET ids |-> Bt(done)]
    BY <2>1 DEF Visiting
  <2> HIDE DEF At, Bt
  <2>5. [done \in SUBSET ids |-> Bt(done)] = After(g)
    BY <2>3
  <2>6. QED
    BY <2>4, <2>5
<1>6. f = After(f)
  <2> HIDE DEF After
  <2>1. QED
    BY <1>5
<1> HIDE DEF f
<1>7. \A S \in SUBSET ids : f[S] = At(f, S)
  <2> HIDE DEF At
  <2>1. QED
    BY <1>6
<1>8. f[{}] \subseteq V[{}]
  BY <1>2, <1>7
<1>9. ASSUME NEW S \in SUBSET ids, S # {}, NEW y \in f[S]
      PROVE  \E b \in S : \E u \in f[S \ {b}] : u \in V[S \ {b}] => y \in V[S]
  <2>a. y \in UNION {UNION {Step(u, b) : u \in f[S \ {b}]} : b \in S}
    BY <1>7, <1>9
  <2>1. PICK b \in S : y \in UNION {Step(u, b) : u \in f[S \ {b}]}
    BY <2>a
  <2>2. PICK u \in f[S \ {b}] : y \in Step(u, b)
    BY <2>1
  <2>3. u \in W => y \in W
    BY <1>3, <2>2
  <2>4. QED
    BY <2>2, <2>3
<1>10. f[ids] \subseteq V[ids]
  <2> HIDE DEF V
  <2>1. QED
    BY <1>1, <1>8, <1>9, VisitsStay
<1>11. ForEach(ids, x, RollbackContextBuffer) = f[ids]
  BY DEF ForEach, f, Step
<1>12. z \in W
  BY <1>10, <1>11
<1>13. QED
  BY <1>12 DEF W

\* What close leaves alone when it takes the local memory out of use.
SameBut(x, y) ==
    /\ y.bufs = x.bufs /\ y.owned = x.owned /\ y.open = x.open /\ y.lost = x.lost
    /\ y.next = x.next

\* The memory of a buffer that the session owned.
Dropped(x, y, b) ==
    b \in x.owned /\ x.bufs[b] \in Cpu => y.mem[x.bufs[b]] # "live"

LEMMA DropKeeps ==
    ASSUME NEW x \in World, NEW b \in Ids, NEW object,
           NEW owned \in BOOLEAN, NEW l \in LocalCleanup(x, object, owned)
    PROVE  /\ l.w \in World /\ SameBut(x, l.w) /\ Wanes(x, l.w)
           /\ owned /\ object \in Cpu => l.w.mem[object] # "live"
<1>1. CASE object \notin Cpu
  <2>1. l = Ok(x)
    BY <1>1 DEF LocalCleanup
  <2>2. l.w = x
    BY <2>1 DEF Ok
  <2>3. QED
    BY <1>1, <2>2 DEF SameBut, Wanes
<1>2. CASE object \in Cpu
  <2>1. object \in Buffers
    BY <1>2 DEF Buffers
  <2>2. \/ ~owned /\ l.w = x
        \/ \E v \in {"closed", "unlinked", "released"} : l.w = [x EXCEPT !.mem[object] = v]
    BY <1>2 DEF LocalCleanup, ReleaseMemory, CloseMemory, Ok, Raise
  <2>3. ASSUME NEW v \in {"closed", "unlinked", "released"}, l.w = [x EXCEPT !.mem[object] = v]
        PROVE  /\ l.w \in World /\ SameBut(x, l.w) /\ Wanes(x, l.w)
               /\ l.w.mem[object] # "live"
    <3>1. l.w \in World
      BY <2>1, <2>3 DEF World
    <3>2. /\ l.w.sid = x.sid
          /\ \A u \in Buffers : l.w.mem[u] = IF u = object THEN v ELSE x.mem[u]
      BY <2>1, <2>3 DEF World
    <3>3. SameBut(x, l.w)
      BY <2>3 DEF SameBut, World
    <3>4. QED
      BY <2>1, <3>1, <3>2, <3>3 DEF Wanes
  <2>4. QED
    BY <2>2, <2>3 DEF SameBut, Wanes
<1>3. QED
  BY <1>1, <1>2

\* Close takes what the session owned out of use, in any order.
LEMMA LocalCleanupsDrop ==
    ASSUME NEW x \in World, NEW z \in LocalCleanups(x)
    PROVE  /\ z \in World /\ SameBut(x, z) /\ Wanes(x, z)
           /\ \A b \in Ids : Dropped(x, z, b)
<1> DEFINE ids == {b \in Ids : x.bufs[b] # None}
           W == {y \in World : SameBut(x, y) /\ Wanes(x, y)}
           Step(y, b) == States(LocalCleanup(y, y.bufs[b], b \in y.owned))
           op == [b \in ids |-> [y \in W |-> Step(y, b)]]
           At(g, done) == IF done = {} THEN {x}
                          ELSE UNION {UNION {Step(y, b) : y \in g[done \ {b}]} : b \in done}
           After(g) == [done \in SUBSET ids |-> At(g, done)]
           f == CHOOSE g : g = After(g)
           V == [S \in SUBSET ids |-> {y \in W : \A b \in S : Dropped(x, y, b)}]
<1>1. IsFiniteSet(ids)
  BY RuntimeSessionAssumption, FS_Subset
<1>2. x \in W
  BY DEF SameBut, Wanes
<1>a. ASSUME NEW b \in ids, NEW y \in W, NEW u \in Step(y, b)
      PROVE  /\ u \in W /\ Dropped(x, u, b)
             /\ \A c \in ids : Dropped(x, y, c) => Dropped(x, u, c)
  <2> DEFINE owned == b \in y.owned
             object == y.bufs[b]
  <2>1. owned \in BOOLEAN /\ y \in World /\ b \in Ids
    OBVIOUS
  <2>2. PICK l \in LocalCleanup(y, object, owned) : u = l.w
    BY DEF States
  <2> HIDE DEF owned, object
  <2>3. /\ u \in World /\ SameBut(y, u) /\ Wanes(y, u)
        /\ owned /\ object \in Cpu => u.mem[object] # "live"
    BY <2>1, <2>2, DropKeeps
  <2>4. SameBut(x, u) /\ Wanes(x, u)
    BY <2>3 DEF SameBut, Wanes
  <2>5. Dropped(x, u, b)
    BY <2>3 DEF Dropped, SameBut, owned, object
  <2>6. \A c \in ids : Dropped(x, y, c) => Dropped(x, u, c)
    BY <2>3 DEF Dropped, Wanes, Buffers
  <2>7. QED
    BY <2>3, <2>4, <2>5, <2>6
<1> HIDE DEF ids
<1>3. ASSUME NEW b \in ids, NEW y \in W
      PROVE  Step(y, b) \subseteq W
  <2> HIDE DEF Step, W
  <2>1. QED
    BY <1>a
<1> HIDE DEF Step, W
<1>4. op \in [ids -> [W -> SUBSET W]]
  BY <1>3
<1>5. \E g : g = After(g)
  <2>1. PICK g \in [SUBSET ids -> SUBSET W] : Visiting(g, ids, x, op)
    <3> HIDE DEF op
    <3>1. QED
      BY <1>1, <1>2, <1>4, VisitsExist
  <2>2. ASSUME NEW done \in SUBSET ids, NEW b \in done
        PROVE  UNION {op[b][y] : y \in g[done \ {b}]} = UNION {Step(y, b) : y \in g[done \ {b}]}
    <3>1. b \in ids /\ g[done \ {b}] \subseteq W
      OBVIOUS
    <3>2. \A y \in g[done \ {b}] : op[b][y] = Step(y, b)
      BY <3>1
    <3> HIDE DEF op
    <3>3. QED
      BY <3>2
  <2> DEFINE Bt(done) == IF done = {} THEN {x}
                         ELSE UNION {UNION {op[b][y] : y \in g[done \ {b}]} : b \in done}
  <2>3. ASSUME NEW done \in SUBSET ids
        PROVE  Bt(done) = At(g, done)
    <3> DEFINE By(b) == UNION {op[b][y] : y \in g[done \ {b}]}
               To(b) == UNION {Step(y, b) : y \in g[done \ {b}]}
    <3>1. \A b \in done : By(b) = To(b)
      BY <2>2
    <3>2. {By(b) : b \in done} = {To(b) : b \in done}
      <4> HIDE DEF By, To
      <4>1. {By(b) : b \in done} \subseteq {To(b) : b \in done}
        BY <3>1
      <4>2. {To(b) : b \in done} \subseteq {By(b) : b \in done}
        BY <3>1
      <4>3. QED
        BY <4>1, <4>2
    <3>3. QED
      BY <3>2
  <2>4. g = [done \in SUBSET ids |-> Bt(done)]
    BY <2>1 DEF Visiting
  <2> HIDE DEF At, Bt
  <2>5. [done \in SUBSET ids |-> Bt(done)] = After(g)
    BY <2>3
  <2>6. QED
    BY <2>4, <2>5
<1>6. f = After(f)
  <2> HIDE DEF After
  <2>1. QED
    BY <1>5
<1> HIDE DEF f
<1>7. \A S \in SUBSET ids : f[S] = At(f, S)
  <2> HIDE DEF At
  <2>1. QED
    BY <1>6
<1>8. f[{}] \subseteq V[{}]
  <2>1. f[{}] = {x}
    BY <1>7
  <2>2. QED
    BY <1>2, <2>1
<1>9. ASSUME NEW S \in SUBSET ids, S # {}, NEW y \in f[S]
      PROVE  \E b \in S : \E u \in f[S \ {b}] : u \in V[S \ {b}] => y \in V[S]
  <2>a. y \in UNION {UNION {Step(u, b) : u \in f[S \ {b}]} : b \in S}
    BY <1>7, <1>9
  <2>1. PICK b \in S : y \in UNION {Step(u, b) : u \in f[S \ {b}]}
    BY <2>a
  <2>2. PICK u \in f[S \ {b}] : y \in Step(u, b)
    BY <2>1
  <2>3. b \in ids /\ S \ {b} \in SUBSET ids
    OBVIOUS
  <2>4. u \in V[S \ {b}] => y \in V[S]
    <3>1. ASSUME u \in W, \A c \in S \ {b} : Dropped(x, u, c)
          PROVE  y \in W /\ \A c \in S : Dropped(x, y, c)
      BY <1>a, <2>2, <2>3, <3>1
    <3>2. QED
      BY <2>3, <3>1
  <2>5. QED
    BY <2>2, <2>4
<1>10. f[ids] \subseteq V[ids]
  <2> HIDE DEF V
  <2>1. QED
    BY <1>1, <1>8, <1>9, VisitsStay
<1>11. LocalCleanups(x) = f[ids]
  BY DEF LocalCleanups, ForEach, f, Step, ids
<1>12. z \in W /\ \A b \in ids : Dropped(x, z, b)
  BY <1>10, <1>11
<1>13. \A b \in Ids : Dropped(x, z, b)
  <2>1. ASSUME NEW b \in Ids, b \notin ids
        PROVE  x.bufs[b] \notin Cpu
    BY <2>1, RuntimeSessionAssumption DEF ids, Buffers
  <2>2. QED
    BY <1>12, <2>1 DEF Dropped
<1>14. QED
  BY <1>12, <1>13 DEF W

-----------------------------------------------------------------------------
\* The sessions of the daemon.

\* What the daemon leaves alone in the session.
Unmoved(x, y) ==
    /\ y.sid = x.sid /\ y.next = x.next /\ y.fp = x.fp /\ y.bufs = x.bufs
    /\ y.owned = x.owned /\ y.mem = x.mem

\* The end of a daemon session takes along the job that is its own, and no other.
LEMMA DaemonClosesKeeps ==
    ASSUME NEW x \in World, NEW n \in SessionIds
    PROVE  LET y == DaemonCloses(x, n)
           IN  /\ y \in World /\ Unmoved(x, y)
               /\ y.open = x.open \ {n} /\ y.lost = x.lost
               /\ x.job # n => y.job = x.job /\ y.reg = x.reg
<1> DEFINE y == DaemonCloses(x, n)
<1>1. \A i \in Intents : x.transfer[i] # None => [x.transfer[i] EXCEPT !.state = "ended"] \in TransferRecord
  BY DEF World, TransferRecord
<1>2. y \in World
  BY <1>1 DEF World, DaemonCloses, MaybeSession
<1>3. Unmoved(x, y) /\ y.open = x.open \ {n} /\ y.lost = x.lost
  BY DEF World, DaemonCloses, Unmoved
<1>4. x.job # n => y.job = x.job /\ y.reg = x.reg
  BY DEF World, DaemonCloses
<1>5. QED
  BY <1>2, <1>3, <1>4

\* The close of a session ends it, or is refused.
LEMMA CloseRemoteKeeps ==
    ASSUME NEW x \in World, NEW n \in SessionIds, NEW y \in CloseRemote(x, n)
    PROVE  /\ y \in World /\ Unmoved(x, y)
           /\ y.open \subseteq x.open /\ x.lost \subseteq y.lost /\ (n \in y.open => n \in y.lost)
           /\ x.job # n => y.job = x.job /\ y.reg = x.reg
<1>1. CASE y = DaemonCloses(x, n)
  BY <1>1, DaemonClosesKeeps
<1>2. CASE y = [x EXCEPT !.lost = @ \cup {n}]
  <2>1. y \in World
    BY <1>2 DEF World
  <2>2. Unmoved(x, y) /\ y.open = x.open /\ y.job = x.job /\ y.reg = x.reg
    BY <1>2 DEF World, Unmoved
  <2>3. y.lost = x.lost \cup {n}
    BY <1>2 DEF World
  <2>4. QED
    BY <2>1, <2>2, <2>3
<1>3. QED
  BY <1>1, <1>2 DEF CloseRemote

\* A session that is left behind is lost or no longer there.
LEMMA DisownKeeps ==
    ASSUME NEW A \in SUBSET Allocated, NEW x, Inv(x, A), x.sid \in SessionIds,
           NEW y \in CloseRemote(x, x.sid)
    PROVE  Inv([y EXCEPT !.sid = None], A)
<1> DEFINE z == [y EXCEPT !.sid = None]
<1>1. x \in World
  BY DEF Inv
<1>2. /\ y \in World /\ Unmoved(x, y)
      /\ y.open \subseteq x.open /\ x.lost \subseteq y.lost /\ (x.sid \in y.open => x.sid \in y.lost)
  BY <1>1, CloseRemoteKeeps
<1>3. z \in World
  BY <1>2 DEF World, MaybeSession
<1>4. /\ z.sid = None /\ z.open = y.open /\ z.lost = y.lost /\ z.next = y.next /\ z.fp = y.fp
      /\ z.bufs = y.bufs /\ z.owned = y.owned /\ z.mem = y.mem
  BY <1>2 DEF World
<1> HIDE DEF z
<1>5. None \notin z.open
  BY <1>3, RuntimeSessionAssumption DEF World
<1>6. Sessions(z)
  BY <1>2, <1>4, <1>5 DEF Inv, Sessions, Unmoved
<1>7. Named(z) /\ Fresh(z) /\ Tracked(z, A)
  BY <1>2, <1>4, <1>5 DEF Inv, Named, Fresh, Tracked, Unmoved
<1>8. QED
  BY <1>3, <1>6, <1>7 DEF Inv, z

\* A start that fails half way closes what it opened; one that succeeds is the session's.
LEMMA OpenSessionKeeps ==
    ASSUME NEW A \in SUBSET Allocated, NEW x, Inv(x, A), NEW o \in OpenSession(x)
    PROVE  /\ Inv(o.w, A) /\ o.w.mem = x.mem
           /\ o.w.bufs = x.bufs /\ o.w.owned = x.owned
<1> DEFINE n == x.next
           opened == [x EXCEPT !.next = n + 1, !.open = @ \cup {n}]
           bound == [opened EXCEPT !.job = n]
           started == [bound EXCEPT !.sid = n]
<1>1. x \in World /\ n \in Nat
  BY DEF Inv, World
<1>2. CASE o.w = x
  BY <1>2
<1>3. ASSUME x.sid = None, n \in SessionIds
      PROVE  /\ \A z \in {opened, bound} :
                   /\ z \in World /\ z.sid = None /\ z.next = n + 1
                   /\ z.open = x.open \cup {n} /\ z.lost = x.lost
                   /\ z.fp = x.fp /\ z.bufs = x.bufs /\ z.owned = x.owned /\ z.mem = x.mem
             /\ /\ started \in World /\ started.sid = n /\ started.next = n + 1
                /\ started.open = x.open \cup {n} /\ started.lost = x.lost /\ started.job = n
                /\ started.fp = x.fp /\ started.bufs = x.bufs /\ started.owned = x.owned
                /\ started.mem = x.mem
  <2>a. n + 1 \in Nat /\ x.open \cup {n} \in SUBSET SessionIds
    BY <1>1, <1>3 DEF World
  <2>1. opened \in World
    <3> HIDE DEF n
    <3>1. QED
      BY <1>1, <2>a DEF World
  <2>2. bound \in World
    BY <2>1, <1>3 DEF World, MaybeSession
  <2>3. started \in World
    BY <2>2, <1>3 DEF World, MaybeSession
  <2>4. /\ opened.sid = None /\ opened.next = n + 1
        /\ opened.open = x.open \cup {n} /\ opened.lost = x.lost /\ opened.fp = x.fp
        /\ opened.bufs = x.bufs /\ opened.owned = x.owned /\ opened.mem = x.mem
    BY <1>1, <1>3 DEF World
  <2> HIDE DEF opened
  <2>5. /\ bound.sid = opened.sid /\ bound.next = opened.next
        /\ bound.open = opened.open /\ bound.lost = opened.lost /\ bound.fp = opened.fp
        /\ bound.bufs = opened.bufs /\ bound.owned = opened.owned /\ bound.mem = opened.mem
        /\ bound.job = n
    BY <2>1 DEF World
  <2> HIDE DEF bound
  <2>6. /\ started.sid = n /\ started.next = bound.next
        /\ started.open = bound.open /\ started.lost = bound.lost /\ started.fp = bound.fp
        /\ started.bufs = bound.bufs /\ started.owned = bound.owned /\ started.mem = bound.mem
        /\ started.job = bound.job
    BY <2>2 DEF World
  <2>7. QED
    BY <2>1, <2>2, <2>3, <2>4, <2>5, <2>6
<1> HIDE DEF opened, bound, started
<1>4. ASSUME x.sid = None, n \in SessionIds, NEW z \in {opened, bound},
             NEW y \in CloseRemote(z, n)
      PROVE  /\ Inv(y, A) /\ y.mem = x.mem
             /\ y.bufs = x.bufs /\ y.owned = x.owned
  <2>1. /\ z \in World /\ z.sid = None /\ z.next = n + 1
        /\ z.open = x.open \cup {n} /\ z.lost = x.lost
        /\ z.fp = x.fp /\ z.bufs = x.bufs /\ z.owned = x.owned /\ z.mem = x.mem
    BY <1>3, <1>4
  <2>2. /\ y \in World /\ Unmoved(z, y)
        /\ y.open \subseteq z.open /\ z.lost \subseteq y.lost /\ (n \in y.open => n \in y.lost)
    BY <1>4, <2>1, CloseRemoteKeeps
  <2> HIDE DEF n
  <2>3. None \notin y.open
    BY <2>2, RuntimeSessionAssumption DEF World
  <2>4. y.open \subseteq y.lost /\ \A m \in y.open : m < y.next
    <3>1. \A m \in x.open : m < n /\ m \in Int
      BY <1>1 DEF Inv, Sessions, World, SessionIds, n
    <3>2. ASSUME NEW m \in y.open
          PROVE  m \in y.lost /\ m < n + 1
      <4>1. m = n \/ m \in x.open
        BY <2>1, <2>2
      <4>2. m \in x.open => m \in x.lost
        BY <1>4, RuntimeSessionAssumption DEF Inv, Sessions, World
      <4>3. QED
        BY <1>1, <2>1, <2>2, <3>1, <4>1, <4>2
    <3>3. QED
      BY <2>1, <2>2, <3>2 DEF Unmoved
  <2>5. \A b \in Ids : y.fp[b] # None /\ y.fp[b].sid # None => y.fp[b].sid < y.next
    <3>1. \A b \in Ids : x.fp[b] # None /\ x.fp[b].sid # None => x.fp[b].sid \in Int /\ x.fp[b].sid < n
      BY <1>1 DEF Inv, Sessions, World, RegistrationRecord, MaybeSession, SessionIds, n
    <3>2. QED
      BY <1>1, <2>1, <2>2, <3>1 DEF Unmoved
  <2>6. Sessions(y)
    BY <2>1, <2>2, <2>3, <2>4, <2>5 DEF Sessions, Unmoved
  <2>7. Named(y) /\ Fresh(y) /\ Tracked(y, A)
    BY <2>1, <2>2, <2>3 DEF Inv, Named, Fresh, Tracked, Unmoved
  <2>8. QED
    BY <2>1, <2>2, <2>6, <2>7 DEF Inv, Unmoved
<1>5. ASSUME x.sid = None, n \in SessionIds
      PROVE  Inv(started, A)
  <2>1. /\ started \in World /\ started.sid = n /\ started.next = n + 1
        /\ started.open = x.open \cup {n} /\ started.lost = x.lost /\ started.job = n
        /\ started.fp = x.fp /\ started.bufs = x.bufs /\ started.owned = x.owned
        /\ started.mem = x.mem
    BY <1>3, <1>5
  <2>2. \A b \in Ids : x.fp[b] # None /\ x.fp[b].sid # None => x.fp[b].sid \in Int /\ x.fp[b].sid < n
    BY <1>1 DEF Inv, Sessions, World, RegistrationRecord, MaybeSession, SessionIds
  <2>3. n # None
    BY <1>5, RuntimeSessionAssumption
  <2>4. \A m \in x.open : m < n /\ m \in Int /\ m \in x.lost
    BY <1>1, <1>5, RuntimeSessionAssumption DEF Inv, Sessions, World, SessionIds
  <2> HIDE DEF n
  <2>5. Sessions(started)
    BY <1>1, <2>1, <2>2, <2>4 DEF Sessions
  <2>6. Fresh(started)
    BY <1>1, <2>1, <2>2, <2>3 DEF Fresh
  <2>7. Named(started) /\ Tracked(started, A)
    BY <2>1 DEF Inv, Named, Tracked
  <2>8. QED
    BY <2>1, <2>5, <2>6, <2>7 DEF Inv
<1>6. CASE x.sid = None /\ n \in SessionIds /\ \E z \in {opened, bound} : o.w \in CloseRemote(z, n)
  BY <1>4, <1>6
<1>7. CASE x.sid = None /\ n \in SessionIds /\ o.w = started
  BY <1>3, <1>5, <1>7
<1>8. QED
  BY <1>2, <1>6, <1>7 DEF OpenSession, Ok, Raise, opened, bound, started

-----------------------------------------------------------------------------
\* Registration.

\* A registration is new on both sides.
LEMMA RegisteredKeeps ==
    ASSUME NEW A \in SUBSET Allocated, NEW x, Inv(x, A), NEW ids \in SUBSET Pending(x)
    PROVE  LET y == Registered(x, ids)
           IN  /\ Inv(y, A) /\ y.sid = x.sid /\ y.open = x.open
               /\ y.mem = x.mem /\ y.bufs = x.bufs /\ y.owned = x.owned
               /\ \A b \in Ids : b \in ids => y.reg[b] = Registration(x, b)
               /\ \A b \in Ids \ ids : y.fp[b] = x.fp[b] /\ y.reg[b] = x.reg[b]
<1> DEFINE y == Registered(x, ids)
<1>1. x \in World
  BY DEF Inv
<1>2. \A b \in ids : b \in Ids /\ Registration(x, b) \in RegistrationRecord
  <2>1. ASSUME NEW b \in ids
        PROVE  b \in Ids /\ x.bufs[b] \in Buffers
    BY <1>1 DEF Pending, World
  <2>2. x.sid \in MaybeSession
    BY <1>1 DEF World
  <2>3. ASSUME NEW b \in ids
        PROVE  Registration(x, b) \in RegistrationRecord
    <3>1. x.bufs[b] \in Buffers /\ (b \in x.owned) \in BOOLEAN
      BY <2>1
    <3>2. QED
      BY <2>2, <3>1 DEF Registration, RegistrationRecord
  <2>4. QED
    BY <2>1, <2>3
<1>3. \A b \in Ids : /\ y.fp[b] = IF b \in ids THEN Registration(x, b) ELSE x.fp[b]
                     /\ y.reg[b] = IF b \in ids THEN Registration(x, b) ELSE x.reg[b]
  BY <1>1 DEF Registered, World
<1>4. /\ y.sid = x.sid /\ y.open = x.open /\ y.lost = x.lost /\ y.job = x.job
      /\ y.next = x.next /\ y.bufs = x.bufs /\ y.owned = x.owned /\ y.mem = x.mem
  BY <1>1 DEF Registered, World
<1>5. y \in World
  BY <1>1, <1>2 DEF Registered, World
<1> HIDE DEF y
<1>6. \A b \in Ids : y.fp[b] # None /\ y.fp[b].sid # None => y.fp[b].sid < y.next
  <2>1. ASSUME NEW b \in Ids, b \in ids, y.fp[b].sid # None
        PROVE  y.fp[b].sid < y.next
    <3>1. y.fp[b] = Registration(x, b)
      BY <1>3, <2>1
    <3>2. y.fp[b].sid = x.sid
      BY <3>1 DEF Registration
    <3>3. QED
      BY <1>4, <2>1, <3>2 DEF Inv, Sessions
  <2>2. QED
    BY <1>3, <1>4, <2>1 DEF Inv, Sessions
<1>7. Sessions(y)
  BY <1>4, <1>6 DEF Inv, Sessions
<1>8. Named(y) /\ Fresh(y) /\ Tracked(y, A)
  BY <1>3, <1>4 DEF Inv, Named, Fresh, Tracked
<1>9. QED
  BY <1>3, <1>4, <1>5, <1>7, <1>8 DEF Inv, y

\* When the buffers have been registered, the daemon that still has the session has each
\* of them as the session holds it; otherwise what the pass registered is cleaned up.
AllRegistered(y) ==
    y.sid \in y.open =>
        \A b \in Ids : y.bufs[b] # None => y.reg[b] = Registration(y, b)

LEMMA RegisterPendingKeeps ==
    ASSUME NEW A \in SUBSET Allocated, NEW x, Inv(x, A), NEW o \in RegisterPending(x)
    PROVE  /\ Inv(o.w, A) /\ Wanes(x, o.w)
           /\ o.ok => AllRegistered(o.w) /\ o.w.bufs = x.bufs /\ o.w.owned = x.owned
<1> DEFINE todo == Pending(x)
<1>1. ASSUME NEW b \in Ids \ todo, x.bufs[b] # None, x.sid \in x.open
      PROVE  x.fp[b] = Registration(x, b) /\ x.reg[b] = Registration(x, b)
  <2>1. x.fp[b] = Registration(x, b)
    BY <1>1 DEF Pending
  <2>2. x.fp[b] \in [buffer: Buffers, sid: SessionIds \cup {None}, owned: BOOLEAN]
    BY <1>1, <2>1 DEF Inv, World, Registration, MaybeSession
  <2>3. x.fp[b] # None
    BY <2>2, RuntimeSessionAssumption
  <2>4. x.fp[b].sid = x.sid
    BY <2>1 DEF Registration
  <2>5. QED
    BY <1>1, <2>1, <2>3, <2>4 DEF Inv, Fresh
<1>2. CASE todo = {} /\ o = Ok(x)
  <2>1. o.w = x
    BY <1>2 DEF Ok
  <2>2. AllRegistered(x)
    BY <1>1, <1>2 DEF AllRegistered
  <2>3. QED
    BY <2>1, <2>2 DEF Wanes
<1>3. ASSUME NEW done \in SUBSET todo, NEW z \in CleanupAll(Registered(x, done), done), o = Raise(z)
      PROVE  /\ Inv(o.w, A) /\ Wanes(x, o.w) /\ ~o.ok
  <2> DEFINE y == Registered(x, done)
  <2>1. Inv(y, A) /\ y.sid = x.sid /\ y.mem = x.mem
    BY RegisteredKeeps
  <2>2. done \in SUBSET Ids
    BY DEF Pending
  <2> HIDE DEF y
  <2>3. Inv(z, A) /\ Wanes(y, z)
    BY <2>1, <2>2, CleanupAllKeeps DEF y
  <2>4. QED
    BY <1>3, <2>1, <2>3 DEF Wanes, Raise
<1>4. CASE o = Ok(Registered(x, todo))
  <2> DEFINE y == Registered(x, todo)
  <2>1. /\ Inv(y, A) /\ y.sid = x.sid /\ y.open = x.open
        /\ y.mem = x.mem /\ y.bufs = x.bufs /\ y.owned = x.owned
        /\ \A b \in Ids : b \in todo => y.reg[b] = Registration(x, b)
        /\ \A b \in Ids \ todo : y.fp[b] = x.fp[b] /\ y.reg[b] = x.reg[b]
    BY RegisteredKeeps
  <2>2. o.w = y
    BY <1>4 DEF Ok
  <2> HIDE DEF y, todo
  <2>3. \A b \in Ids : Registration(y, b) = Registration(x, b)
    BY <2>1 DEF Registration
  <2>4. AllRegistered(y)
    BY <1>1, <2>1, <2>3 DEF AllRegistered
  <2>5. QED
    BY <2>1, <2>2, <2>4 DEF Wanes
<1>5. \/ todo = {} /\ o = Ok(x)
      \/ \E done \in SUBSET todo : \E z \in CleanupAll(Registered(x, done), done) : o = Raise(z)
      \/ o = Ok(Registered(x, todo))
  BY DEF RegisterPending
<1>6. QED
  BY <1>2, <1>3, <1>4, <1>5

\* Memory only leaves "live", in a call that may start a session.
Fades(x, y) == \A u \in Buffers : y.mem[u] = "live" => x.mem[u] = "live"

\* A buffer enters under its id only where no other memory is owned, so that a registration
\* that fails can put back what was there.
LEMMA RegisterBufferKeeps ==
    ASSUME NEW o \in Buffers, NEW x, Inv(x, Allocated \ {o}), NEW r \in RegisterBuffer(x, o)
    PROVE  /\ Inv(r.w, Allocated \ {o}) /\ Fades(x, r.w)
           /\ r.ok => r.w.bufs[IdOf[o]] = o /\ r.w.owned = x.owned
<1> DEFINE b == IdOf[o]
           A == Allocated \ {o}
           entered == [x EXCEPT !.bufs[b] = o, !.target = @ \/ o \in Cuda]
           Restore(y) == {[y EXCEPT !.bufs[b] = x.bufs[b]]}
           all == Then(OpenSession(entered), RegisterPending)
           taken == x.bufs[b] \notin {None, o} /\ b \in x.owned
<1>1. x \in World /\ b \in Ids /\ A \in SUBSET Allocated
  BY RuntimeSessionAssumption DEF Inv
<1>2. CASE r = Raise(x)
  BY <1>2 DEF Fades, Raise
<1>3. /\ entered.sid = x.sid /\ entered.open = x.open /\ entered.lost = x.lost
      /\ entered.job = x.job /\ entered.next = x.next /\ entered.fp = x.fp
      /\ entered.reg = x.reg /\ entered.owned = x.owned /\ entered.mem = x.mem
      /\ \A c \in Ids : entered.bufs[c] = IF c = b THEN o ELSE x.bufs[c]
  BY <1>1 DEF World
<1>4. ASSUME ~taken
      PROVE  Inv(entered, A)
  <2>1. entered \in World
    BY <1>1 DEF World
  <2> HIDE DEF entered
  <2>2. Sessions(entered) /\ Fresh(entered)
    BY <1>3 DEF Inv, Sessions, Fresh
  <2>3. Named(entered)
    BY <1>3 DEF Inv, Named
  <2>4. ASSUME NEW u \in A, entered.mem[u] = "live"
        PROVE  entered.bufs[IdOf[u]] = u /\ IdOf[u] \in entered.owned
    <3>1. x.bufs[IdOf[u]] = u /\ IdOf[u] \in x.owned
      BY <1>3, <2>4 DEF Inv, Tracked
    <3>2. IdOf[u] \in Ids /\ u # None
      BY RuntimeSessionAssumption DEF Buffers, Cpu
    <3>3. IdOf[u] # b
      BY <1>4, <3>1, <3>2
    <3>4. QED
      BY <1>3, <3>1, <3>2, <3>3
  <2>5. QED
    BY <2>1, <2>2, <2>3, <2>4 DEF Inv, Tracked
<1> HIDE DEF entered, A
<1>5. CASE ~taken /\ r = Ok(entered)
  BY <1>1, <1>3, <1>4, <1>5 DEF Ok, Fades, A
<1>6. ASSUME ~taken, NEW q \in all
      PROVE  /\ Inv(q.w, A) /\ Fades(x, q.w)
             /\ q.ok => q.w.bufs[b] = o /\ q.w.owned = x.owned
  <2>1. ASSUME NEW p \in OpenSession(entered)
        PROVE  /\ Inv(p.w, A) /\ p.w.mem = x.mem
               /\ p.w.bufs = entered.bufs /\ p.w.owned = x.owned
    BY <1>1, <1>3, <1>4, <1>6, OpenSessionKeeps
  <2>2. ASSUME NEW p \in OpenSession(entered), NEW s \in RegisterPending(p.w)
        PROVE  /\ Inv(s.w, A) /\ Fades(x, s.w)
               /\ s.ok => s.w.bufs[b] = o /\ s.w.owned = x.owned
    <3>1. Inv(p.w, A) /\ p.w.mem = x.mem /\ p.w.bufs = entered.bufs /\ p.w.owned = x.owned
      BY <2>1
    <3>2. /\ Inv(s.w, A) /\ Wanes(p.w, s.w)
          /\ s.ok => s.w.bufs = p.w.bufs /\ s.w.owned = p.w.owned
      BY <1>1, <3>1, RegisterPendingKeeps
    <3>3. QED
      BY <1>1, <1>3, <3>1, <3>2 DEF Fades, Wanes
  <2>3. \/ q \in OpenSession(entered)
        \/ \E p \in OpenSession(entered) : q \in RegisterPending(p.w)
    BY DEF Then
  <2>4. CASE q \in OpenSession(entered)
    <3>1. Inv(q.w, A) /\ q.w.mem = x.mem /\ q.w.bufs = entered.bufs /\ q.w.owned = x.owned
      BY <2>1, <2>4
    <3>2. QED
      BY <1>1, <1>3, <3>1 DEF Fades
  <2>5. QED
    BY <2>2, <2>3, <2>4
<1>7. ASSUME ~taken, NEW q \in all, NEW z \in Restore(q.w)
      PROVE  Inv(z, A) /\ Fades(x, z)
  <2> DEFINE y == q.w
  <2>1. Inv(y, A) /\ Fades(x, y)
    BY <1>6, <1>7
  <2> HIDE DEF y
  <2>2. z = [y EXCEPT !.bufs[b] = x.bufs[b]]
    BY DEF y
  <2>3. z \in World
    BY <1>1, <2>1, <2>2 DEF Inv, World
  <2>4. /\ z.sid = y.sid /\ z.open = y.open /\ z.lost = y.lost
        /\ z.job = y.job /\ z.next = y.next /\ z.fp = y.fp
        /\ z.reg = y.reg /\ z.owned = y.owned /\ z.mem = y.mem
        /\ \A c \in Ids : z.bufs[c] = IF c = b THEN x.bufs[c] ELSE y.bufs[c]
    BY <1>1, <2>1, <2>2 DEF Inv, World
  <2>5. Sessions(z) /\ Fresh(z)
    BY <2>1, <2>4 DEF Inv, Sessions, Fresh
  <2>6. Named(z)
    BY <2>1, <2>4 DEF Inv, Named
  <2>7. ASSUME NEW u \in A, z.mem[u] = "live"
        PROVE  z.bufs[IdOf[u]] = u /\ IdOf[u] \in z.owned
    <3>1. u \in Buffers /\ IdOf[u] \in Ids
      BY RuntimeSessionAssumption DEF Buffers, Cpu, A
    <3>2. y.bufs[IdOf[u]] = u /\ IdOf[u] \in y.owned
      BY <2>1, <2>4, <2>7 DEF Inv, Tracked
    <3>3. x.bufs[IdOf[u]] = u
      BY <2>1, <2>4, <2>7, <3>1 DEF Inv, Tracked, Fades, A
    <3>4. QED
      BY <2>4, <3>1, <3>2, <3>3
  <2>8. QED
    BY <2>1, <2>3, <2>4, <2>5, <2>6, <2>7 DEF Inv, Tracked, Fades
<1>8. CASE ~taken /\ r \in Except(all, Restore)
  <2>1. \/ r \in all
        \/ \E q \in all : \E z \in Restore(q.w) : r = Raise(z)
    <3> HIDE DEF all, Restore
    <3>1. QED
      BY <1>8 DEF Except
  <2>2. ASSUME NEW q \in all, NEW z \in Restore(q.w), r = Raise(z)
        PROVE  r.w = z /\ ~r.ok
    BY <2>2 DEF Raise
  <2> HIDE DEF all, Restore
  <2>3. QED
    BY <1>6, <1>7, <1>8, <2>1, <2>2 DEF A
<1>9. \/ r = Raise(x)
      \/ ~taken /\ r = Ok(entered)
      \/ ~taken /\ r \in Except(all, Restore)
  BY Zenon DEF RegisterBuffer, entered
<1>10. QED
  BY <1>2, <1>5, <1>8, <1>9

\* A CPU buffer whose registration fails is disowned, and its memory released, unless the
\* session owned the id before.
LEMMA RegisterCpuBufferKeeps ==
    ASSUME NEW o \in Cpu, NEW owned \in BOOLEAN, NEW x, Inv(x, Allocated \ {o}),
           owned \/ Inv(x, Allocated), NEW r \in RegisterCpuBuffer(x, o, owned)
    PROVE  Inv(r.w, Allocated)
<1> DEFINE b == IdOf[o]
           A == Allocated \ {o}
           entered == IF owned THEN [x EXCEPT !.owned = @ \cup {b}] ELSE x
           Disowned(y) == IF owned /\ b \notin x.owned THEN [y EXCEPT !.owned = @ \ {b}] ELSE y
           Undo(y) == States(ReleaseMemory(Disowned(y), o))
<1>1. x \in World /\ b \in Ids /\ A \in SUBSET Allocated /\ o \in Buffers
  BY RuntimeSessionAssumption DEF Inv, Buffers
<1>2. /\ entered.sid = x.sid /\ entered.open = x.open /\ entered.lost = x.lost
      /\ entered.job = x.job /\ entered.next = x.next /\ entered.fp = x.fp
      /\ entered.reg = x.reg /\ entered.bufs = x.bufs /\ entered.mem = x.mem
      /\ entered.owned = IF owned THEN x.owned \cup {b} ELSE x.owned
  BY <1>1 DEF World
<1>3. Inv(entered, A)
  <2>1. entered \in World
    BY <1>1 DEF World
  <2> HIDE DEF entered
  <2>2. Sessions(entered) /\ Fresh(entered) /\ Named(entered)
    BY <1>2 DEF Inv, Sessions, Fresh, Named
  <2>3. Tracked(entered, A)
    BY <1>2 DEF Inv, Tracked
  <2>4. QED
    BY <2>1, <2>2, <2>3 DEF Inv
<1> HIDE DEF entered
<1>4. ASSUME NEW q \in RegisterBuffer(entered, o)
      PROVE  /\ Inv(q.w, A) /\ Fades(x, q.w)
             /\ q.ok => q.w.bufs[b] = o /\ q.w.owned = entered.owned
  <2>1. Inv(entered, Allocated \ {o}) /\ o \in Buffers
    BY <1>1, <1>3
  <2>2. /\ Inv(q.w, Allocated \ {o}) /\ Fades(entered, q.w)
        /\ q.ok => q.w.bufs[IdOf[o]] = o /\ q.w.owned = entered.owned
    BY <2>1, RegisterBufferKeeps
  <2>3. QED
    BY <1>2, <2>2 DEF Fades
<1>5. ASSUME NEW q \in RegisterBuffer(entered, o), q.ok
      PROVE  Inv(q.w, Allocated)
  <2>1. /\ Inv(q.w, A) /\ Fades(x, q.w)
        /\ q.w.bufs[b] = o /\ q.w.owned = entered.owned
    BY <1>4, <1>5
  <2>2. o \in Allocated /\ q.w.mem[o] = "live" => b \in q.w.owned
    <3>1. CASE owned
      BY <1>2, <2>1, <3>1
    <3>2. CASE ~owned
      BY <1>1, <1>2, <2>1, <3>2 DEF Inv, Tracked, Fades
    <3>3. QED
      BY <3>1, <3>2
  <2>3. QED
    BY <2>1, <2>2 DEF Inv, Tracked
<1>6. ASSUME NEW q \in RegisterBuffer(entered, o), NEW z \in Undo(q.w)
      PROVE  Inv(z, Allocated)
  <2> DEFINE y == q.w
             d == Disowned(y)
  <2>1. Inv(y, A) /\ Fades(x, y)
    BY <1>4
  <2>2. y \in World
    BY <2>1 DEF Inv
  <2> HIDE DEF y
  <2>3. d \in World
    BY <2>2 DEF World
  <2>4. /\ d.sid = y.sid /\ d.open = y.open /\ d.lost = y.lost
        /\ d.job = y.job /\ d.next = y.next /\ d.fp = y.fp
        /\ d.reg = y.reg /\ d.bufs = y.bufs /\ d.mem = y.mem
        /\ d.owned = IF owned /\ b \notin x.owned THEN y.owned \ {b} ELSE y.owned
    BY <2>2 DEF World
  <2>5. PICK l \in ReleaseMemory(d, o) : z = l.w
    BY DEF States, y
  <2> HIDE DEF d
  <2>6. Sessions(d) /\ Fresh(d) /\ Named(d)
    BY <2>1, <2>4 DEF Inv, Sessions, Fresh, Named
  <2>7. ASSUME NEW u \in A, d.mem[u] = "live"
        PROVE  d.bufs[IdOf[u]] = u /\ IdOf[u] \in d.owned
    <3>1. u \in Buffers /\ IdOf[u] \in Ids
      BY RuntimeSessionAssumption DEF Buffers, Cpu
    <3>2. y.bufs[IdOf[u]] = u /\ IdOf[u] \in y.owned
      BY <2>1, <2>4, <2>7 DEF Inv, Tracked
    <3>3. IdOf[u] \in x.owned
      <4>1. x.mem[u] = "live"
        BY <2>1, <2>4, <2>7, <3>1 DEF Fades
      <4>2. Tracked(x, A)
        BY DEF Inv
      <4>3. QED
        BY <4>1, <4>2 DEF Tracked
    <3>4. QED
      BY <2>4, <3>2, <3>3
  <2>8. Inv(d, A)
    BY <2>3, <2>6, <2>7 DEF Inv, Tracked
  <2>9. PICK v \in {"closed", "unlinked", "released"} : z = [d EXCEPT !.mem[o] = v]
    BY <2>5 DEF ReleaseMemory, Ok, Raise
  <2>10. Inv(z, A \cup {o})
    <3> HIDE DEF A
    <3>1. QED
      BY <1>1, <2>8, <2>9, MemoryLeaves
  <2>11. QED
    BY <2>10 DEF Inv, Tracked
<1>7. RegisterCpuBuffer(x, o, owned) = Except(RegisterBuffer(entered, o), Undo)
  BY DEF RegisterCpuBuffer, entered
<1>8. \/ r \in RegisterBuffer(entered, o) /\ r.ok
      \/ \E q \in RegisterBuffer(entered, o) : \E z \in Undo(q.w) : r = Raise(z)
  <2> HIDE DEF Undo
  <2>1. QED
    BY <1>7 DEF Except
<1>9. QED
  <2>1. ASSUME NEW z, r = Raise(z)
        PROVE  r.w = z
    BY <2>1 DEF Raise
  <2> HIDE DEF Undo
  <2>2. QED
    BY <1>5, <1>6, <1>8, <2>1

\* Memory that was just allocated belongs to the session, or is released.
LEMMA AllocateKeeps ==
    ASSUME NEW o \in Allocated, NEW x, Inv(x, Allocated), NEW r \in AllocateCpuBuffer(x, o)
    PROVE  Inv(r.w, Allocated)
<1> DEFINE y == [x EXCEPT !.mem[o] = "live"]
<1>1. x \in World /\ o \in Cpu /\ o \in Buffers
  BY DEF Inv, Buffers, Cpu
<1>2. y \in World
  BY <1>1 DEF World
<1>3. /\ y.sid = x.sid /\ y.open = x.open /\ y.lost = x.lost /\ y.job = x.job
      /\ y.next = x.next /\ y.fp = x.fp /\ y.reg = x.reg /\ y.bufs = x.bufs
      /\ y.owned = x.owned
      /\ \A u \in Buffers : y.mem[u] = IF u = o THEN "live" ELSE x.mem[u]
  BY <1>1 DEF World
<1>4. r \in RegisterCpuBuffer(y, o, TRUE)
  BY DEF AllocateCpuBuffer
<1> HIDE DEF y
<1>5. Sessions(y) /\ Fresh(y) /\ Named(y)
  BY <1>3 DEF Inv, Sessions, Fresh, Named
<1>6. Tracked(y, Allocated \ {o})
  BY <1>3 DEF Inv, Tracked, Buffers, Cpu
<1>7. Inv(y, Allocated \ {o})
  BY <1>2, <1>5, <1>6 DEF Inv
<1>8. QED
  BY <1>1, <1>4, <1>7, RegisterCpuBufferKeeps

\* A transfer context that fails leaves nothing behind that it made.
LEMMA MakeTransferContextKeeps ==
    ASSUME NEW c \in Cpu, NEW g \in Cuda, NEW x, Inv(x, Allocated),
           NEW r \in MakeTransferContext(x, c, g)
    PROVE  Inv(r.w, Allocated)
<1> DEFINE new == {b \in {IdOf[c], IdOf[g]} : x.bufs[b] = None}
           RegisterCpu(y) == RegisterCpuBuffer(y, c, FALSE)
           Build(y) == {Ok(y), Raise(y)}
           Closed(y) ==
               IF x.sid = None /\ y.sid # None
               THEN {[z EXCEPT !.sid = None] : z \in CloseRemote(y, y.sid)} ELSE {y}
           Handler(y) == UNION {Closed(z) : z \in ForEach(new, y, RollbackContextBuffer)}
           first == RegisterBuffer(x, g)
           second == Then(first, OpenSession)
           third == Then(second, RegisterCpu)
           built == Then(third, Build)
<1>1. /\ c \in Buffers /\ g \in Buffers /\ IdOf[c] \in Ids /\ IdOf[g] \in Ids
      /\ Allocated \ {g} = Allocated
  BY RuntimeSessionAssumption DEF Buffers
<1>2. ASSUME NEW q \in first
      PROVE  Inv(q.w, Allocated)
  BY <1>1, RegisterBufferKeeps
<1> HIDE DEF first
<1>3. ASSUME NEW q \in second
      PROVE  Inv(q.w, Allocated)
  <2>1. q \in first \/ \E p \in first : q \in OpenSession(p.w)
    BY DEF Then
  <2>2. QED
    BY <1>2, <2>1, OpenSessionKeeps
<1> HIDE DEF second
<1>4. ASSUME NEW q \in third
      PROVE  Inv(q.w, Allocated)
  <2>1. q \in second \/ \E p \in second : q \in RegisterCpuBuffer(p.w, c, FALSE)
    BY DEF Then
  <2>2. ASSUME NEW p \in second
        PROVE  Inv(p.w, Allocated) /\ Inv(p.w, Allocated \ {c})
    BY <1>3 DEF Inv, Tracked
  <2>3. QED
    BY <1>3, <2>1, <2>2, RegisterCpuBufferKeeps
<1> HIDE DEF third
<1>5. ASSUME NEW q \in built
      PROVE  Inv(q.w, Allocated)
  <2>1. q \in third \/ \E p \in third : q \in {Ok(p.w), Raise(p.w)}
    BY DEF Then
  <2>2. \A y : Ok(y).w = y /\ Raise(y).w = y
    BY DEF Ok, Raise
  <2>3. QED
    BY <1>4, <2>1, <2>2
<1> HIDE DEF built
<1>6. ASSUME NEW q \in built, NEW z \in Handler(q.w)
      PROVE  Inv(z, Allocated)
  <2>1. PICK y \in ForEach(new, q.w, RollbackContextBuffer) : z \in Closed(y)
    BY DEF Handler
  <2>2. new \in SUBSET Ids
    BY <1>1
  <2> HIDE DEF new
  <2>3. Inv(y, Allocated)
    BY <1>5, <2>2, RollbackAllKeeps
  <2>4. y.sid \in SessionIds \cup {None}
    BY <2>3 DEF Inv, World, MaybeSession
  <2>5. \/ z = y
        \/ /\ y.sid # None
           /\ \E u \in CloseRemote(y, y.sid) : z = [u EXCEPT !.sid = None]
    BY <2>1
  <2>6. QED
    BY <2>3, <2>4, <2>5, DisownKeeps
<1>7. MakeTransferContext(x, c, g) = Except(built, Handler)
  BY DEF MakeTransferContext, built, third, second, first
<1>8. r \in built \/ \E q \in built : \E z \in Handler(q.w) : r = Raise(z)
  <2> HIDE DEF Handler
  <2>1. QED
    BY <1>7 DEF Except
<1>9. QED
  BY <1>5, <1>6, <1>8 DEF Raise

-----------------------------------------------------------------------------
\* The actions.

\* What the intents and the receipts leave alone.
Same(x, y) ==
    /\ y.sid = x.sid /\ y.open = x.open /\ y.lost = x.lost /\ y.job = x.job
    /\ y.next = x.next /\ y.fp = x.fp /\ y.reg = x.reg /\ y.bufs = x.bufs
    /\ y.owned = x.owned /\ y.mem = x.mem

LEMMA SameKeeps ==
    ASSUME NEW A, NEW x, Inv(x, A), NEW y \in World, Same(x, y)
    PROVE  Inv(y, A) /\ (AllRegistered(x) => AllRegistered(y))
<1>1. Sessions(y) /\ Named(y) /\ Fresh(y) /\ Tracked(y, A)
  BY DEF Same, Inv, Sessions, Named, Fresh, Tracked
<1>2. AllRegistered(x) => AllRegistered(y)
  BY DEF Same, AllRegistered, Registration
<1>3. QED
  BY <1>1, <1>2 DEF Inv

\* An intent goes out when every buffer that the session holds has been registered.
LEMMA PrepareIntentKeeps ==
    ASSUME NEW x, Inv(x, Allocated), NEW o \in PrepareIntent(x)
    PROVE  Inv(o.w, Allocated) /\ (o.ok => AllRegistered(o.w))
<1>1. \/ o \in OpenSession(x) /\ ~o.ok
      \/ \E p \in OpenSession(x) : o \in RegisterPending(p.w)
  BY DEF PrepareIntent, Then
<1>2. \A p \in OpenSession(x) : Inv(p.w, Allocated)
  BY OpenSessionKeeps
<1>3. ASSUME NEW p \in OpenSession(x), o \in RegisterPending(p.w)
      PROVE  Inv(o.w, Allocated) /\ (o.ok => AllRegistered(o.w))
  BY <1>2, <1>3, RegisterPendingKeeps
<1>4. QED
  BY <1>1, <1>2, <1>3

\* A submission only adds the intent and its transfer.
LEMMA SubmitKeeps ==
    ASSUME SessionInv, NEW i \in Intents, NEW c \in Ids, NEW g \in Ids, Submit(i, c, g)
    PROVE  /\ SessionInv'
           /\ call'[i] # None => AllRegistered(w')
           /\ \A j \in Intents \ {i} : call'[j] = call[j]
<1>1. PICK o \in PrepareIntent(w) :
        LET x == RecordSubmitted(o.w, i)
            known == x.sid \in x.open /\ {x.reg[c], x.reg[g]} \cap {None} = {}
        IN  \/ ~o.ok /\ w' = o.w /\ UNCHANGED call
            \/ /\ o.ok /\ known
               /\ w' = [x EXCEPT !.transfer[i] = Transfer(x, c, g)]
               /\ call' = [call EXCEPT ![i] = "executing"]
            \/ /\ o.ok
               /\ w' = [x EXCEPT !.active = @ \ {i}]
               /\ call' = [call EXCEPT ![i] = "raised"]
  BY DEF Submit
<1> DEFINE y == o.w
           x == RecordSubmitted(y, i)
<1>2. Inv(y, Allocated) /\ (o.ok => AllRegistered(y))
  BY PrepareIntentKeeps DEF SessionInv
<1>3. y \in World
  BY <1>2 DEF Inv
<1>4. x \in World /\ Same(y, x)
  BY <1>3 DEF RecordSubmitted, World, Same
<1>5. CASE ~o.ok /\ w' = y /\ UNCHANGED call
  BY <1>2, <1>5 DEF SessionInv, Submit
<1> HIDE DEF x
<1>6. CASE /\ o.ok /\ x.reg[c] # None
           /\ w' = [x EXCEPT !.transfer[i] = Transfer(x, c, g)]
           /\ call' = [call EXCEPT ![i] = "executing"]
  <2>1. Transfer(x, c, g) \in TransferRecord
    <3>1. x.sid \in MaybeSession /\ x.reg[c].owned \in BOOLEAN
      BY <1>4, <1>6 DEF World, RegistrationRecord
    <3>2. QED
      BY <3>1 DEF Transfer, TransferRecord
  <2>2. w' \in World
    BY <1>4, <1>6, <2>1 DEF World
  <2>3. Same(y, w')
    BY <1>4, <1>6 DEF World, Same
  <2>4. Inv(w', Allocated) /\ AllRegistered(w')
    BY <1>2, <1>6, <2>2, <2>3, SameKeeps
  <2>5. QED
    BY <1>6, <2>4 DEF SessionInv
<1>7. CASE /\ o.ok /\ w' = [x EXCEPT !.active = @ \ {i}]
           /\ call' = [call EXCEPT ![i] = "raised"]
  <2>1. w' \in World
    BY <1>4, <1>7 DEF World
  <2>2. Same(y, w')
    BY <1>4, <1>7 DEF World, Same
  <2>3. Inv(w', Allocated) /\ AllRegistered(w')
    BY <1>2, <1>7, <2>1, <2>2, SameKeeps
  <2>4. QED
    BY <1>7, <2>3 DEF SessionInv
<1>8. QED
  BY <1>1, <1>5, <1>6, <1>7 DEF x

\* The end of a transfer and its receipt.
LEMMA ReceiptsKeep ==
    ASSUME SessionInv, NEW i \in Intents, SubmitReturns(i) \/ Receive(i) \/ Executed(i)
    PROVE  SessionInv' /\ \A j \in Intents : call[j] = None => call'[j] = None
<1>1. w \in World /\ Inv(w, Allocated)
  BY DEF SessionInv, Inv
<1>2. ASSUME w' = Finalize(w, i)
      PROVE  w' \in World /\ Same(w, w')
  BY <1>1, <1>2 DEF Finalize, World, Same
<1>3. CASE SubmitReturns(i)
  <2>1. w' = Finalize(w, i)
    BY <1>3 DEF SubmitReturns, Finalize
  <2>2. Inv(w', Allocated)
    BY <1>1, <1>2, <2>1, SameKeeps
  <2>3. call[i] # None
    BY <1>3, RuntimeSessionAssumption DEF SubmitReturns
  <2>4. QED
    BY <1>3, <2>2, <2>3 DEF SubmitReturns, SessionInv
<1>4. CASE Receive(i)
  <2>1. Inv(w', Allocated)
    BY <1>1, <1>2, <1>4, SameKeeps DEF Receive
  <2>2. QED
    BY <1>4, <2>1 DEF Receive, SessionInv
<1>5. CASE Executed(i)
  <2>1. w.transfer[i] \in TransferRecord
    BY <1>1, <1>5 DEF Executed, World
  <2>2. [w.transfer[i] EXCEPT !.state = "ended"] \in TransferRecord
    BY <2>1 DEF TransferRecord
  <2>3. w' \in World /\ Same(w, w')
    BY <1>1, <1>5, <2>2 DEF Executed, World, Same
  <2>4. Inv(w', Allocated)
    BY <1>1, <2>3, SameKeeps
  <2>5. QED
    BY <1>5, <2>4 DEF Executed, SessionInv
<1>6. QED
  BY <1>3, <1>4, <1>5

\* A session that the daemon reaps is no longer there; the others keep their job.
LEMMA ReapKeeps ==
    ASSUME NEW x, Inv(x, Allocated), NEW n \in x.open
    PROVE  Inv(DaemonCloses(x, n), Allocated)
<1> DEFINE y == DaemonCloses(x, n)
<1>1. x \in World /\ n \in SessionIds
  BY DEF Inv, World
<1>2. /\ y \in World /\ Unmoved(x, y)
      /\ y.open = x.open \ {n} /\ y.lost = x.lost
      /\ x.job # n => y.job = x.job /\ y.reg = x.reg
  BY <1>1, DaemonClosesKeeps
<1> HIDE DEF y
<1>3. y.sid \in y.open => y.job = x.job /\ y.reg = x.reg /\ x.sid \in x.open
  BY <1>2 DEF Inv, Sessions, Unmoved
<1>4. Sessions(y)
  BY <1>2, <1>3 DEF Inv, Sessions, Unmoved
<1>5. Named(y) /\ Fresh(y) /\ Tracked(y, Allocated)
  BY <1>2, <1>3 DEF Inv, Named, Fresh, Tracked, Unmoved
<1>6. QED
  BY <1>2, <1>4, <1>5 DEF Inv, y

\* Close releases what the session owned, and leaves no daemon session but those whose
\* close was refused.
LEMMA CloseKeeps ==
    ASSUME SessionInv, Close
    PROVE  SessionInv' /\ UNCHANGED call
<1> DEFINE received == TakeReceipts(w)
           ids == {b \in Ids : w.fp[b] # None}
           cleaned == CleanupAll(received, ids)
           remote == IF w.sid = None THEN {w}
                     ELSE UNION {CloseRemote(x, w.sid) : x \in cleaned}
<1>1. w \in World /\ Inv(w, Allocated) /\ ids \in SUBSET Ids
  BY DEF SessionInv, Inv
<1>2. Inv(received, Allocated) /\ received.sid = w.sid
  <2>1. received \in World /\ Same(w, received)
    BY <1>1 DEF TakeReceipts, World, Same
  <2> HIDE DEF received
  <2>2. QED
    BY <1>1, <2>1, SameKeeps DEF Same
<1>3. ASSUME NEW x \in remote
      PROVE  /\ x \in World /\ x.open \subseteq x.lost /\ \A n \in x.open : n < x.next
             /\ Tracked(x, Allocated)
  <2>1. CASE w.sid = None
    <3>1. None \notin w.open
      BY <1>1, RuntimeSessionAssumption DEF World
    <3>2. QED
      BY <1>1, <2>1, <3>1 DEF Inv, Sessions
  <2>2. CASE w.sid # None
    <3>1. PICK y \in cleaned : x \in CloseRemote(y, w.sid)
      BY <2>2
    <3> HIDE DEF received, ids
    <3>2. Inv(y, Allocated) /\ y.sid = w.sid
      BY <1>1, <1>2, CleanupAllKeeps DEF Wanes
    <3>3. y \in World /\ w.sid \in SessionIds
      BY <1>1, <2>2, <3>2 DEF Inv, World, MaybeSession
    <3>4. /\ x \in World /\ Unmoved(y, x)
          /\ x.open \subseteq y.open /\ y.lost \subseteq x.lost
          /\ (w.sid \in x.open => w.sid \in x.lost)
      BY <3>1, <3>3, CloseRemoteKeeps
    <3>5. QED
      BY <3>2, <3>4 DEF Inv, Sessions, Tracked, Unmoved
  <2>3. QED
    BY <2>1, <2>2
<1>4. PICK x \in remote : \E z \in LocalCleanups(TakeReceipts(x)) : w' = [Clear(z) EXCEPT !.closed = TRUE]
  BY Zenon DEF Close
<1> HIDE DEF remote
<1> DEFINE y == TakeReceipts(x)
<1>5. /\ y \in World /\ y.open \subseteq y.lost /\ \A n \in y.open : n < y.next
      /\ Tracked(y, Allocated)
  <2>1. y \in World /\ Same(x, y)
    BY <1>3 DEF TakeReceipts, World, Same
  <2> HIDE DEF y
  <2>2. QED
    BY <1>3, <2>1 DEF Same, Tracked
<1>6. PICK z \in LocalCleanups(y) : w' = [Clear(z) EXCEPT !.closed = TRUE]
  BY <1>4
<1> HIDE DEF y
<1>7. /\ z \in World /\ SameBut(y, z) /\ Wanes(y, z)
      /\ \A b \in Ids : Dropped(y, z, b)
  BY <1>5, LocalCleanupsDrop
<1>8. Clear(z) \in World
  BY <1>7 DEF Clear, World, MaybeSession
<1>9. w' \in World
  BY <1>6, <1>8 DEF World
<1>10. /\ w'.sid = None /\ w'.open = z.open /\ w'.lost = z.lost /\ w'.next = z.next
       /\ w'.mem = z.mem /\ \A b \in Ids : w'.fp[b] = None /\ w'.bufs[b] = None
  <2>1. /\ w'.sid = Clear(z).sid /\ w'.open = Clear(z).open /\ w'.lost = Clear(z).lost
        /\ w'.next = Clear(z).next /\ w'.mem = Clear(z).mem /\ w'.fp = Clear(z).fp
        /\ w'.bufs = Clear(z).bufs
    BY <1>6, <1>8 DEF World
  <2>2. /\ Clear(z).sid = None /\ Clear(z).open = z.open /\ Clear(z).lost = z.lost
        /\ Clear(z).next = z.next /\ Clear(z).mem = z.mem
        /\ \A b \in Ids : Clear(z).fp[b] = None /\ Clear(z).bufs[b] = None
    BY <1>7 DEF Clear, World
  <2>3. QED
    BY <2>1, <2>2
<1>11. None \notin w'.open
  BY <1>9, RuntimeSessionAssumption DEF World
<1>12. Sessions(w') /\ Named(w') /\ Fresh(w')
  BY <1>5, <1>7, <1>10, <1>11 DEF Sessions, Named, Fresh, SameBut
<1>13. ASSUME NEW o \in Allocated
       PROVE  z.mem[o] # "live"
  <2>1. o \in Cpu /\ o \in Buffers /\ IdOf[o] \in Ids
    BY RuntimeSessionAssumption DEF Buffers, Cpu
  <2>2. CASE y.mem[o] = "live"
    <3>1. y.bufs[IdOf[o]] = o /\ IdOf[o] \in y.owned
      BY <1>5, <2>2 DEF Tracked
    <3>2. QED
      BY <1>7, <2>1, <3>1 DEF Dropped
  <2>3. CASE y.mem[o] # "live"
    BY <1>7, <2>1, <2>3 DEF Wanes
  <2>4. QED
    BY <2>2, <2>3
<1>14. Tracked(w', Allocated)
  BY <1>10, <1>13 DEF Tracked
<1>15. UNCHANGED call
  BY DEF Close
<1>16. QED
  BY <1>9, <1>12, <1>14, <1>15 DEF SessionInv, Inv

-----------------------------------------------------------------------------
\* The theorems.

\* A call of the application that leaves the intents alone.
LEMMA CallKeeps ==
    ASSUME SessionInv,
           \/ \E o \in Cpu, owned \in BOOLEAN : Register(o, owned)
           \/ \E o \in Cuda : RegisterCuda(o)
           \/ \E o \in Allocated : Allocate(o)
           \/ \E c \in Cpu, g \in Cuda : Context(c, g)
           \/ \E b \in Ids, force \in BOOLEAN : Cleanup(b, force)
    PROVE  SessionInv' /\ UNCHANGED call
<1>1. Inv(w, Allocated)
  BY DEF SessionInv
<1>2. ASSUME NEW outcomes, Call(outcomes), \A r \in outcomes : Inv(r.w, Allocated)
      PROVE  SessionInv' /\ UNCHANGED call
  BY <1>2 DEF Call, States, SessionInv
<1>3. CASE \E o \in Cpu, owned \in BOOLEAN : Register(o, owned)
  <2>1. PICK o \in Cpu, owned \in BOOLEAN : Register(o, owned)
    BY <1>3
  <2>2. Inv(w, Allocated \ {o})
    BY <1>1 DEF Inv, Tracked
  <2>3. \A r \in RegisterCpuBuffer(w, o, owned) : Inv(r.w, Allocated)
    BY <1>1, <2>2, RegisterCpuBufferKeeps
  <2>4. QED
    BY <1>2, <2>1, <2>3 DEF Register
<1>4. CASE \E o \in Cuda : RegisterCuda(o)
  <2>1. PICK o \in Cuda : RegisterCuda(o)
    BY <1>4
  <2>2. o \in Buffers /\ Allocated \ {o} = Allocated
    BY RuntimeSessionAssumption DEF Buffers
  <2>3. \A r \in RegisterBuffer(w, o) : Inv(r.w, Allocated)
    <3>1. Inv(w, Allocated \ {o})
      BY <1>1, <2>2
    <3>2. \A r \in RegisterBuffer(w, o) : Inv(r.w, Allocated \ {o})
      BY <2>2, <3>1, RegisterBufferKeeps
    <3>3. QED
      BY <2>2, <3>2
  <2>4. QED
    BY <1>2, <2>1, <2>3 DEF RegisterCuda
<1>5. CASE \E o \in Allocated : Allocate(o)
  BY <1>1, <1>2, <1>5, AllocateKeeps DEF Allocate
<1>6. CASE \E c \in Cpu, g \in Cuda : Context(c, g)
  BY <1>1, <1>2, <1>6, MakeTransferContextKeeps DEF Context
<1>7. CASE \E b \in Ids, force \in BOOLEAN : Cleanup(b, force)
  BY <1>1, <1>2, <1>7, CleanupBufferKeeps DEF Cleanup
<1>8. QED
  BY <1>3, <1>4, <1>5, <1>6, <1>7

\* Every step keeps the invariant, and sends an intent out with its buffers registered.
SentRegistered ==
    \A i \in Intents : call[i] = None /\ call'[i] # None => AllRegistered(w')

LEMMA SessionStep ==
    ASSUME SessionInv, [Next]_vars
    PROVE  SessionInv' /\ SentRegistered
<1>1. CASE UNCHANGED vars
  BY <1>1 DEF vars, SessionInv, SentRegistered
<1>2. CASE UNCHANGED call /\ SessionInv'
  BY <1>2 DEF SentRegistered
<1>3. CASE \/ \E o \in Cpu, owned \in BOOLEAN : Register(o, owned)
           \/ \E o \in Cuda : RegisterCuda(o)
           \/ \E o \in Allocated : Allocate(o)
           \/ \E c \in Cpu, g \in Cuda : Context(c, g)
           \/ \E b \in Ids, force \in BOOLEAN : Cleanup(b, force)
  BY <1>2, <1>3, CallKeeps
<1>4. CASE \E i \in Intents : \E c, g \in Ids : Submit(i, c, g)
  BY <1>4, SubmitKeeps DEF SentRegistered
<1>5. CASE \E i \in Intents : SubmitReturns(i) \/ Receive(i) \/ Executed(i)
  BY <1>5, ReceiptsKeep DEF SentRegistered
<1>6. CASE Close
  BY <1>2, <1>6, CloseKeeps
<1>7. CASE \E n \in w.open : Reap(n)
  <2>1. PICK n \in w.open : Reap(n)
    BY <1>7
  <2>2. Inv(w', Allocated)
    BY <2>1, ReapKeeps DEF Reap, SessionInv
  <2>3. QED
    BY <1>2, <2>1, <2>2 DEF Reap, SessionInv
<1>8. QED
  BY <1>1, <1>3, <1>4, <1>5, <1>6, <1>7 DEF Next

LEMMA SessionStart ==
    ASSUME Init
    PROVE  SessionInv
<1>1. w \in World
  BY DEF Init, World, MaybeSession
<1>2. /\ w.sid = None /\ w.open = {} /\ \A b \in Ids : w.fp[b] = None /\ w.bufs[b] = None
  BY DEF Init
<1>3. Sessions(w) /\ Named(w) /\ Fresh(w)
  BY <1>2 DEF Sessions, Named, Fresh
<1>4. Tracked(w, Allocated)
  <2>1. w.mem = [o \in Buffers |-> IF o \in Allocated THEN "none" ELSE "live"]
    BY DEF Init
  <2>2. QED
    BY <2>1 DEF Tracked, Buffers, Cpu
<1>5. call \in [Intents -> {None, "executing", "returned", "raised"}]
  BY DEF Init
<1>6. QED
  BY <1>1, <1>3, <1>4, <1>5 DEF SessionInv, Inv

\* The state of the session is well typed; what the daemon has open is the session's or a
\* session whose close it refused; a buffer is held under its own id; a fingerprint of the
\* present session is the daemon's; the memory of allocate_cpu_buffer is tracked.
THEOREM SessionInvariance == Spec => []SessionInv
<1>1. Init => SessionInv
  BY SessionStart
<1>2. SessionInv /\ [Next]_vars => SessionInv'
  BY SessionStep
<1>3. QED
  BY <1>1, <1>2, PTL DEF Spec

\* The memory that allocate_cpu_buffer made is owned by the session that will release it,
\* or was released: whichever of the calls failed, at whichever daemon call, and after
\* close (runtime/allocation.py, runtime/cleanup.py, runtime/transfer_context.py).
THEOREM OwnedMemoryTracked == Spec => []OwnedMemoryIsTracked
<1>1. SessionInv => OwnedMemoryIsTracked
  BY DEF SessionInv, Inv, Tracked, OwnedMemoryIsTracked
<1>2. QED
  BY <1>1, SessionInvariance, PTL

\* A start that fails half way closes what it opened, and so do a context that is rolled
\* back and close itself: what stays open at the daemon is the session's own, or was asked
\* to be closed and the daemon refused (runtime_session.py, runtime/session_state.py).
THEOREM NoSessionForgotten == Spec => []NoSessionLeftOpen
<1>1. SessionInv => NoSessionLeftOpen
  BY DEF SessionInv, Inv, Sessions, NoSessionLeftOpen
<1>2. QED
  BY <1>1, SessionInvariance, PTL

\* When an intent goes out, a daemon that still has the session has every buffer registered
\* as the session holds it now, whatever fingerprints earlier cleanups, sessions and failed
\* contexts left (runtime_session.py, _register_pending_buffers).
THEOREM IntentsGoOutRegistered == Spec => SubmittedAsRegistered
<1>1. SessionInv /\ [Next]_vars => SentRegistered
  BY SessionStep
<1>2. SentRegistered =>
        \A i \in Intents :
            call[i] = None /\ call'[i] # None /\ w'.sid \in w'.open =>
                \A b \in Ids : w'.bufs[b] # None => w'.reg[b] = Registration(w', b)
  BY DEF SentRegistered, AllRegistered
<1>3. SessionInv /\ [Next]_vars =>
        [\A i \in Intents :
            call[i] = None /\ call'[i] # None /\ w'.sid \in w'.open =>
                \A b \in Ids : w'.bufs[b] # None => w'.reg[b] = Registration(w', b)]_vars
  BY <1>1, <1>2
<1>4. QED
  BY <1>3, SessionInvariance, PTL DEF Spec, SubmittedAsRegistered

=============================================================================
