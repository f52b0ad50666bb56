------------------------- MODULE ControlPlaneProofs -------------------------
(***************************************************************************)
(* Proofs about the transfer control plane, for every value of the         *)
(* constants.  The handlers are sequences of helpers, and between two      *)
(* helpers the invariant does not hold: a transfer may be marked as        *)
(* canceled and still hold leases, or have none and not be retired yet.    *)
(* Base is what every helper keeps, on any state a handler passes through; *)
(* Inv adds what the handlers restore before they release the lock.  Each  *)
(* helper has a lemma about Base, each handler one about Inv, and every    *)
(* one of them also says what it does to the receipts (Shrinks, Keeps,     *)
(* AcceptsIntent, Completes), from which the action properties and the     *)
(* refinement follow.  The last lemmas of this half are about the quotas.  *)
(*                                                                         *)
(* The second half is about WorkerLifecycle and IntentExecution: for any   *)
(* clients, workers, intents and relays, and any order of their calls,     *)
(* deaths and retries, what a worker or a client knows of the daemon's     *)
(* tables stays true until it has used it.                                 *)
(*                                                                         *)
(* The daemon's side is in three relations between the tables before and   *)
(* after a handler.  Lasts: a plan that no longer waits for its promotion  *)
(* keeps its generation and relays while its transfer lives, and gets no   *)
(* lease again.  Stays: a terminal receipt is never changed.  Passes adds  *)
(* the transfers that may have completed.                                  *)
(*                                                                         *)
(* On the workers' side each execution is Formal (its own fields agree)    *)
(* and Sound (what it takes from the tables still holds), and a completed  *)
(* transfer is Earned by a copy under the last ticket.  On the clients'    *)
(* side an executor is Plain, Carried by the tables and Employs its        *)
(* worker.                                                                 *)
(***************************************************************************)
EXTENDS IntentExecution, DataLemmas

\* The daemon's state is a record of these dictionaries.
Fields == {"session", "sessionChunks", "attached", "relayChunks", "jobs", "buffers",
           "issued", "transfer", "intents", "leases", "archive", "archivedIntents"}
Shape(s) == s = [x \in Fields |-> s[x]]

\* e is s with other transfers, intents, leases and archives; the registered
\* owners are the same.
Update(s, e, transfer, intents, leases, archive, archivedIntents) ==
    /\ Shape(e)
    /\ e.session = s.session /\ e.attached = s.attached
    /\ e.jobs = s.jobs /\ e.buffers = s.buffers /\ e.issued = s.issued
    /\ e.transfer = transfer /\ e.intents = intents /\ e.leases = leases
    /\ e.archive = archive /\ e.archivedIntents = archivedIntents

Marked(s, T, final) ==
    [t \in Transfers |->
        IF t \in (T \cap Live(s)) \ Finished(s)
        THEN [s.transfer[t] EXCEPT !.state = final, !.admission = final, !.ticket = 0]
        ELSE s.transfer[t]]

\* Replacing the transfer table leaves every other dictionary alone.
LEMMA SetTransfer ==
    ASSUME NEW s, Shape(s), NEW f
    PROVE  Update(s, [s EXCEPT !.transfer = f], f, s.intents, s.leases,
                  s.archive, s.archivedIntents)
  BY DEF Shape, Fields, Update

\* What _mark_transfer_terminal_locked writes: only the transfer table.
LEMMA MarkTerminalFields ==
    ASSUME NEW s, Shape(s), NEW T, NEW final
    PROVE  Update(s, MarkTerminal(s, T, final), Marked(s, T, final), s.intents,
                  s.leases, s.archive, s.archivedIntents)
  BY SetTransfer, Zenon DEF MarkTerminal, Marked

\* Replacing the leases and both counters leaves every other dictionary alone.
LEMMA SetLeases ==
    ASSUME NEW s, Shape(s), NEW L, NEW a, NEW b
    PROVE  Update(s, [s EXCEPT !.leases = L, !.sessionChunks = a, !.relayChunks = b],
                  s.transfer, s.intents, L, s.archive, s.archivedIntents)
  BY DEF Shape, Fields, Update

\* What _drop_active_reservation_state_locked writes: the leases and counters.
LEMMA DropLeasesFields ==
    ASSUME NEW s, Shape(s), NEW L
    PROVE  Update(s, DropLeases(s, L), s.transfer, s.intents,
                  s.leases \ L, s.archive, s.archivedIntents)
  BY SetLeases, Zenon DEF DropLeases

\* Replacing the archive and its intent index leaves the live tables alone.
LEMMA SetArchive ==
    ASSUME NEW s, Shape(s), NEW f, NEW g
    PROVE  Update(s, [s EXCEPT !.archive = f, !.archivedIntents = g],
                  s.transfer, s.intents, s.leases, f, g)
  BY DEF Shape, Fields, Update

\* Replacing transfers and intents leaves leases and archive alone.
LEMMA SetTransferIntents ==
    ASSUME NEW s, Shape(s), NEW f, NEW g
    PROVE  Update(s, [s EXCEPT !.transfer = f, !.intents = g],
                  f, g, s.leases, s.archive, s.archivedIntents)
  BY DEF Shape, Fields, Update

Archivable(s, T) == {t \in T \cap Live(s) : s.intents[s.transfer[t].intent] = t}
NewArchive(s, A) ==
    [t \in Transfers |->
       IF t \in A THEN [state |-> s.transfer[t].state, bytes |-> s.transfer[t].bytes]
                  ELSE s.archive[t]]
NewArchivedIntents(s, A) ==
    [i \in Intents |-> IF s.intents[i] \in A THEN s.intents[i] ELSE s.archivedIntents[i]]

\* What _archive_transfer_receipt_state_locked writes: only the archive.
LEMMA ArchiveFields ==
    ASSUME NEW s, Shape(s), NEW T
    PROVE  Update(s, Archive(s, T), s.transfer, s.intents, s.leases,
                  NewArchive(s, Archivable(s, T)), NewArchivedIntents(s, Archivable(s, T)))
  BY SetArchive, Zenon DEF Archive, NewArchive, NewArchivedIntents, Archivable

RetiredCompleted(s, C) ==
    [t \in Transfers |-> IF t \in C THEN [s.transfer[t] EXCEPT !.ticket = 0, !.queued = FALSE]
                                    ELSE s.transfer[t]]

\* Every live transfer has its intent on file, so archiving skips none.
LEMMA ArchivableAll ==
    ASSUME NEW s, BoundIntents(s), NEW T
    PROVE  Archivable(s, T) = T \cap Live(s)
  BY DEF Archivable, BoundIntents

RetiredRuntime(s, T) ==
    [t \in Transfers |-> IF t \in T THEN NoTransfer ELSE s.transfer[t]]
RetiredIntents(s, T) ==
    [i \in Intents |-> IF s.intents[i] \in T THEN None ELSE s.intents[i]]

-----------------------------------------------------------------------------
\* Inside a handler a transfer may be marked as failed or canceled and not be
\* retired yet.
Dead(s) == {t \in Transfers : s.transfer[t].state \in {"failed", "canceled"}}

Held(s) ==
    /\ \A l \in s.leases :
        LET r == s.transfer[l.transfer]
        IN /\ l.transfer \in Live(s)
           /\ l.transfer \notin Dead(s) => r.admission \in {"admitted", "expired"}
           /\ l.session = r.session
           /\ l.generation = r.generation
           /\ l.expires = r.expires
           /\ l.relay \in r.relays
    /\ \A k, l \in s.leases : k.transfer = l.transfer /\ k.relay = l.relay => k = l

Runs(r) ==
    \/ r.state = "submitted" /\ r.admission = "delayed" /\ r.ticket = 0
    \/ /\ r.state \in {"submitted", "running"}
       /\ r.admission \in {"admitted", "expired"}
       /\ r.ticket = r.generation
    \/ r.state \in Terminal /\ r.ticket = 0
Runnable(s) == \A t \in Live(s) : Runs(s.transfer[t])

Base(s) ==
    /\ Shape(s) /\ Types(s) /\ Held(s) /\ Runnable(s)
    /\ RegisteredOwners(s) /\ BoundIntents(s) /\ ArchivedOutcomes(s)

Inv(s) == Base(s) /\ Dead(s) = {}

\* What the archive holds of the transfer t.
ArchivedAs(s, t) ==
    /\ t \in s.issued <=> Outcome(s, t).state # "absent"
    /\ t \notin Live(s) => /\ s.transfer[t] = NoTransfer
                           /\ s.archive[t].state \in Terminal \cup {"absent"}
    /\ s.archive[t].state \in Terminal => s.archive[t] = Outcome(s, t)
    /\ s.archive[t].state # "absent" => s.archive[t].bytes <= Outcome(s, t).bytes

\* ArchivedOutcomes, one transfer at a time.
LEMMA ArchivedEach ==
    ASSUME NEW s
    PROVE  ArchivedOutcomes(s) <=> \A t \in Transfers : ArchivedAs(s, t)
  BY DEF ArchivedOutcomes, ArchivedAs

\* e is s with some transfers ended or forgotten and some leases released.
Shrinks(s, e) ==
    /\ e.session = s.session /\ e.attached = s.attached
    /\ e.jobs = s.jobs /\ e.buffers = s.buffers /\ e.issued = s.issued
    /\ e.leases \subseteq s.leases
    /\ Live(e) \subseteq Live(s)
    /\ \A t \in Live(e) : /\ e.transfer[t].session = s.transfer[t].session
                          /\ e.transfer[t].intent = s.transfer[t].intent
    /\ \A i \in Intents : Owner(e, i) = Owner(s, i)
    /\ \A t \in Transfers :
        /\ Outcome(s, t).state \in Terminal => Outcome(e, t) = Outcome(s, t)
        /\ Outcome(e, t).state \notin {"failed", "canceled"} =>
              Outcome(e, t).state = Outcome(s, t).state

\* The helpers of one handler compose.
LEMMA ShrinksTransitive ==
    ASSUME NEW s, NEW e, NEW f, Shrinks(s, e), Shrinks(e, f)
    PROVE  Shrinks(s, f)
  BY DEF Shrinks, Terminal

\* Dropping leases keeps Base, even if it leaves a transfer without any.
LEMMA DropLeasesBase ==
    ASSUME NEW s, Base(s), NEW L
    PROVE  /\ Base(DropLeases(s, L)) /\ Shrinks(s, DropLeases(s, L))
           /\ DropLeases(s, L).leases = s.leases \ L
           /\ DropLeases(s, L).transfer = s.transfer
<1> DEFINE e == DropLeases(s, L)
<1>1. Update(s, e, s.transfer, s.intents, s.leases \ L, s.archive, s.archivedIntents)
  BY DropLeasesFields DEF Base
<1> HIDE DEF e
<1>2. Live(e) = Live(s) /\ Dead(e) = Dead(s)
  BY <1>1 DEF Update, Live, Dead
<1>3. \A t \in Transfers : Outcome(e, t) = Outcome(s, t)
  BY <1>1, <1>2 DEF Update, Outcome
<1>4. \A i \in Intents : Owner(e, i) = Owner(s, i)
  BY <1>1 DEF Update, Owner
<1>5. Shrinks(s, e)
  BY <1>1, <1>2, <1>3, <1>4 DEF Shrinks, Update, Terminal
<1>6. Types(e) /\ Shape(e)
  BY <1>1 DEF Update, Types, Base
<1>7. Held(e)
  BY <1>1, <1>2 DEF Update, Held, Base
<1>8. Runnable(e)
  BY <1>1, <1>2 DEF Update, Runnable, Base
<1>9. RegisteredOwners(e)
  BY <1>1, <1>2 DEF Update, RegisteredOwners, OwnersRegistered, Open, Base
<1>10. BoundIntents(e)
  BY <1>1, <1>2, <1>4 DEF Update, BoundIntents, Base
<1>11. ArchivedOutcomes(e)
  BY <1>1, <1>2, <1>3 DEF Update, ArchivedOutcomes, Base
<1> QED BY <1>1, <1>5, <1>6, <1>7, <1>8, <1>9, <1>10, <1>11 DEF e, Base, Update

\* The record of a transfer that was marked terminal is well typed.
LEMMA EndedRec ==
    ASSUME NEW r \in TransferRec, NEW a \in States \cup {"absent"},
           NEW b \in AdmissionStates, NEW n \in Nat
    PROVE  [r EXCEPT !.state = a, !.admission = b, !.ticket = n] \in TransferRec
  BY DEF TransferRec

\* Marking transfers failed or canceled keeps Base and ends exactly those
\* that had not ended before.
LEMMA MarkTerminalBase ==
    ASSUME NEW s, Base(s), NEW T, NEW final \in {"failed", "canceled"}
    PROVE  /\ Base(MarkTerminal(s, T, final)) /\ Shrinks(s, MarkTerminal(s, T, final))
           /\ MarkTerminal(s, T, final).leases = s.leases
           /\ Live(MarkTerminal(s, T, final)) = Live(s)
           /\ T \cap Live(s) \subseteq Finished(MarkTerminal(s, T, final))
           /\ Dead(MarkTerminal(s, T, final)) \subseteq Dead(s) \cup T
           /\ Dead(s) \subseteq Dead(MarkTerminal(s, T, final))
<1> DEFINE e == MarkTerminal(s, T, final)
<1>1. Update(s, e, Marked(s, T, final), s.intents, s.leases, s.archive, s.archivedIntents)
  BY MarkTerminalFields DEF Base
<1> HIDE DEF e
<1>0. s.transfer \in [Transfers -> TransferRec]
  BY DEF Base, Types
<1>2. \A t \in Transfers :
        /\ e.transfer[t] \in TransferRec
        /\ \/ e.transfer[t] = s.transfer[t] /\ (t \notin T \/ t \notin Live(s) \/ s.transfer[t].state \in Terminal)
           \/ /\ t \in T /\ t \in Live(s) /\ s.transfer[t].state \notin Terminal
              /\ e.transfer[t].state = final
              /\ e.transfer[t].ticket = 0
              /\ e.transfer[t].bytes = s.transfer[t].bytes
              /\ e.transfer[t].session = s.transfer[t].session
              /\ e.transfer[t].intent = s.transfer[t].intent
              /\ e.transfer[t].generation = s.transfer[t].generation
              /\ e.transfer[t].expires = s.transfer[t].expires
              /\ e.transfer[t].relays = s.transfer[t].relays
  <2> TAKE t \in Transfers
  <2>1. s.transfer[t] \in TransferRec
    BY <1>0
  <2>2. CASE t \in (T \cap Live(s)) \ Finished(s)
    <3>1. e.transfer[t] =
            [s.transfer[t] EXCEPT !.state = final, !.admission = final, !.ticket = 0]
      BY <1>1, <2>2 DEF Update, Marked
    <3>2. s.transfer[t].state \notin Terminal
      BY <2>2 DEF Finished
    <3>3. e.transfer[t] \in TransferRec
      <4>1. final \in States \cup {"absent"} /\ final \in AdmissionStates
        BY DEF States, Terminal, AdmissionStates
      <4>2. [s.transfer[t] EXCEPT !.state = final, !.admission = final, !.ticket = 0]
               \in TransferRec
        BY <2>1, <4>1, EndedRec
      <4> QED BY <3>1, <4>2
    <3>4. /\ e.transfer[t].state = final
          /\ e.transfer[t].ticket = 0
          /\ e.transfer[t].bytes = s.transfer[t].bytes
          /\ e.transfer[t].session = s.transfer[t].session
          /\ e.transfer[t].intent = s.transfer[t].intent
          /\ e.transfer[t].generation = s.transfer[t].generation
          /\ e.transfer[t].expires = s.transfer[t].expires
          /\ e.transfer[t].relays = s.transfer[t].relays
      BY <2>1, <3>1 DEF TransferRec
    <3> QED BY <2>2, <3>2, <3>3, <3>4, Zenon
  <2>3. CASE t \notin (T \cap Live(s)) \ Finished(s)
    <3>1. e.transfer[t] = s.transfer[t]
      BY <1>1, <2>3 DEF Update, Marked
    <3> QED BY <2>1, <2>3, <3>1 DEF Finished
  <2> QED BY <2>2, <2>3
<1>3. Live(e) = Live(s)
  BY <1>2 DEF Live
<1>4. Dead(s) \subseteq Dead(e) /\ Dead(e) \subseteq Dead(s) \cup T
  BY <1>2 DEF Dead, Terminal
<1>5. \A t \in Transfers :
        /\ Outcome(s, t).state \in Terminal => Outcome(e, t) = Outcome(s, t)
        /\ Outcome(e, t).state \notin {"failed", "canceled"} =>
              Outcome(e, t).state = Outcome(s, t).state
        /\ \/ Outcome(e, t) = Outcome(s, t)
           \/ t \in Live(s) /\ s.transfer[t].state \notin Terminal /\ Outcome(e, t).state = final
  <2> TAKE t \in Transfers
  <2>1. CASE t \notin Live(s)
    <3>1. Outcome(e, t) = Outcome(s, t)
      BY <1>1, <1>3, <2>1 DEF Update, Outcome
    <3> QED BY <3>1, Zenon
  <2>2. CASE t \in Live(s) /\ e.transfer[t] = s.transfer[t]
    <3>1. Outcome(e, t) = Outcome(s, t)
      BY <1>3, <2>2 DEF Outcome
    <3> QED BY <3>1, Zenon
  <2>3. CASE t \in Live(s) /\ s.transfer[t].state \notin Terminal /\ e.transfer[t].state = final
    <3>1. Outcome(e, t).state = final /\ Outcome(s, t).state \notin Terminal
      BY <1>3, <2>3 DEF Outcome
    <3> QED BY <2>3, <3>1, Zenon
  <2> QED BY <1>2, <2>1, <2>2, <2>3
<1>6. \A i \in Intents : Owner(e, i) = Owner(s, i)
  BY <1>1 DEF Update, Owner
<1>7. \A t \in Live(e) : /\ e.transfer[t].session = s.transfer[t].session
                         /\ e.transfer[t].intent = s.transfer[t].intent
  BY <1>2 DEF Live
<1>8. Shrinks(s, e)
  BY <1>1, <1>3, <1>5, <1>6, <1>7 DEF Shrinks, Update
<1>9. e.transfer \in [Transfers -> TransferRec]
  BY <1>1, <1>2 DEF Update, Marked
<1>10. Types(e) /\ Shape(e)
  BY <1>1, <1>9 DEF Update, Types, Base
<1>11. Held(e)
  <2>1. \A l \in s.leases : l.transfer \in Transfers
    BY DEF Base, Types, LeaseRec
  <2> QED BY <1>1, <1>2, <1>3, <1>4, <2>1 DEF Update, Held, Base, Dead, Terminal
<1>12. Runnable(e)
  BY <1>2, <1>3 DEF Runnable, Runs, Base, Live, Terminal
<1>13. RegisteredOwners(e)
  BY <1>1, <1>3, <1>7 DEF Update, RegisteredOwners, OwnersRegistered, Open, Base
<1>14. BoundIntents(e)
  BY <1>1, <1>3, <1>6, <1>7 DEF Update, BoundIntents, Base
<1>15. ArchivedOutcomes(e)
  <2> SUFFICES ASSUME NEW t \in Transfers
               PROVE  ArchivedAs(e, t)
    BY ArchivedEach
  <2>1. ArchivedAs(s, t)
    BY ArchivedEach DEF Base
  <2>2. t \in Live(s) => Outcome(s, t).state = s.transfer[t].state /\ s.transfer[t].state # "absent"
    BY DEF Outcome, Live
  <2>3. Outcome(e, t).bytes = Outcome(s, t).bytes
    BY <1>1, <1>2, <1>3 DEF Update, Outcome
  <2>4. e.issued = s.issued /\ e.archive = s.archive
    BY <1>1 DEF Update
  <2>5. t \notin Live(s) => e.transfer[t] = s.transfer[t]
    BY <1>2
  <2> QED BY <2>1, <2>2, <2>3, <2>4, <2>5, <1>3, <1>5 DEF ArchivedAs, Terminal
<1>16. T \cap Live(s) \subseteq Finished(e)
  BY <1>2, <1>3 DEF Finished, Live, Terminal
<1> QED BY <1>1, <1>3, <1>4, <1>8, <1>10, <1>11, <1>12, <1>13, <1>14, <1>15, <1>16 DEF e, Base, Update

\* The archive entries that a set A of live transfers produces.
LEMMA NewArchiveFacts ==
    ASSUME NEW s, Base(s), NEW A, A \subseteq Live(s)
    PROVE  /\ NewArchive(s, A) \in [Transfers -> ArchiveRec]
           /\ NewArchivedIntents(s, A) \in [Intents -> Transfers \cup {None}]
           /\ \A t \in Transfers : NewArchive(s, A)[t] =
                IF t \in A THEN Outcome(s, t) ELSE s.archive[t]
           /\ \A i \in Intents : NewArchivedIntents(s, A)[i] =
                IF s.intents[i] \in A THEN s.intents[i] ELSE s.archivedIntents[i]
<1>1. A \subseteq Live(s) /\ A \subseteq Transfers
  BY DEF Live
<1>2. \A t \in Transfers : NewArchive(s, A)[t] = IF t \in A THEN Outcome(s, t) ELSE s.archive[t]
  BY <1>1 DEF NewArchive, Outcome
<1>3. \A t \in A : Outcome(s, t) \in ArchiveRec
  BY <1>1 DEF Outcome, ArchiveRec, Base, Types, TransferRec
<1>4. s.archive \in [Transfers -> ArchiveRec] /\ s.intents \in [Intents -> Transfers \cup {None}]
      /\ s.archivedIntents \in [Intents -> Transfers \cup {None}]
  BY DEF Base, Types
<1>5. NewArchive(s, A) \in [Transfers -> ArchiveRec]
  BY <1>2, <1>3, <1>4 DEF NewArchive
<1> QED BY <1>2, <1>4, <1>5 DEF NewArchivedIntents

\* Archiving transfers, finished or not, keeps Base and shows the same receipts.
LEMMA ArchiveBase ==
    ASSUME NEW s, Base(s), NEW T
    PROVE  /\ Base(Archive(s, T)) /\ Shrinks(s, Archive(s, T))
           /\ Archive(s, T).leases = s.leases
           /\ Archive(s, T).transfer = s.transfer
<1> DEFINE e == Archive(s, T)
           A == T \cap Live(s)
<1>1. Update(s, e, s.transfer, s.intents, s.leases, NewArchive(s, A), NewArchivedIntents(s, A))
  BY ArchiveFields, ArchivableAll DEF Base
<1> HIDE DEF e
<1>0. /\ NewArchive(s, A) \in [Transfers -> ArchiveRec]
      /\ NewArchivedIntents(s, A) \in [Intents -> Transfers \cup {None}]
      /\ \A t \in Transfers : NewArchive(s, A)[t] =
           IF t \in A THEN Outcome(s, t) ELSE s.archive[t]
      /\ \A i \in Intents : NewArchivedIntents(s, A)[i] =
           IF s.intents[i] \in A THEN s.intents[i] ELSE s.archivedIntents[i]
  BY NewArchiveFacts
<1>2. Live(e) = Live(s) /\ Dead(e) = Dead(s)
  BY <1>1 DEF Update, Live, Dead
<1>3. \A t \in Transfers : Outcome(e, t) = Outcome(s, t)
  <2> TAKE t \in Transfers
  <2>1. CASE t \in Live(s)
    BY <1>1, <1>2, <2>1 DEF Update, Outcome
  <2>2. CASE t \notin Live(s)
    BY <1>0, <1>1, <1>2, <2>2 DEF Update, Outcome
  <2> QED BY <2>1, <2>2
<1>4. \A i \in Intents : Owner(e, i) = Owner(s, i)
  <2>1. \A i \in Intents : s.intents[i] # None => e.intents[i] # None /\ e.intents[i] = s.intents[i]
    BY <1>1 DEF Update
  <2>2. None \notin A
    BY ConstantsAssumption DEF Live
  <2> QED BY <1>0, <1>1, <2>1, <2>2 DEF Update, Owner
<1>5. Shrinks(s, e)
  BY <1>1, <1>2, <1>3, <1>4, Zenon DEF Shrinks, Update
<1>6. Types(e) /\ Shape(e)
  BY <1>0, <1>1 DEF Update, Types, Base
<1>7. Held(e)
  BY <1>1, <1>2 DEF Update, Held, Base
<1>8. Runnable(e)
  BY <1>1, <1>2 DEF Update, Runnable, Base
<1>9. RegisteredOwners(e)
  BY <1>1, <1>2 DEF Update, RegisteredOwners, OwnersRegistered, Open, Base
<1>10. BoundIntents(e)
  <2>1. \A i \in Intents :
          /\ e.intents[i] # None => /\ e.intents[i] \in Live(e)
                                    /\ e.transfer[e.intents[i]].intent = i
          /\ e.archivedIntents[i] # None => /\ e.archivedIntents[i] \in e.issued
                                            /\ e.archivedIntents[i] = Owner(e, i)
    <3> TAKE i \in Intents
    <3>1. CASE s.intents[i] \in A
      <4>1. s.intents[i] # None
        BY <3>1, ConstantsAssumption DEF Live
      <4>2. e.archivedIntents[i] = s.intents[i]
        BY <1>0, <1>1, <3>1 DEF Update
      <4> QED BY <1>1, <1>2, <1>4, <3>1, <4>1, <4>2 DEF Update, BoundIntents, Base, Owner
    <3>2. CASE s.intents[i] \notin A
      <4>1. e.archivedIntents[i] = s.archivedIntents[i]
        BY <1>0, <1>1, <3>2 DEF Update
      <4> QED BY <1>1, <1>2, <1>4, <4>1 DEF Update, BoundIntents, Base
    <3> QED BY <3>1, <3>2
  <2>2. \A t \in Live(e) : t \in e.issued /\ e.intents[e.transfer[t].intent] = t
    BY <1>1, <1>2 DEF Update, BoundIntents, Base
  <2>3. \A i, k \in Intents : Owner(e, i) # None /\ Owner(e, i) = Owner(e, k) => i = k
    BY <1>4 DEF BoundIntents, Base
  <2> QED BY <2>1, <2>2, <2>3 DEF BoundIntents
<1>11. ArchivedOutcomes(e)
  <2> SUFFICES ASSUME NEW t \in Transfers
               PROVE  ArchivedAs(e, t)
    BY ArchivedEach
  <2>1. e.archive[t] = IF t \in A THEN Outcome(e, t) ELSE s.archive[t]
    BY <1>0, <1>1, <1>3 DEF Update
  <2>2. ArchivedAs(s, t)
    BY ArchivedEach DEF Base
  <2>3. ASSUME t \in A
        PROVE  t \in Live(e) /\ Outcome(e, t).bytes \in Nat
    <3>1. t \in Live(s) /\ t \in Live(e)
      BY <1>2, <2>3
    <3>2. s.transfer[t].bytes \in 0..TotalBytes
      BY DEF Base, Types, TransferRec
    <3>3. Outcome(e, t).bytes = s.transfer[t].bytes
      BY <1>3, <3>1 DEF Outcome
    <3>4. QED
      BY <3>1, <3>2, <3>3, ConstantsAssumption
  <2>4. e.issued = s.issued /\ e.transfer = s.transfer /\ Outcome(e, t) = Outcome(s, t)
    BY <1>1, <1>3 DEF Update
  <2> QED BY <1>2, <2>1, <2>2, <2>3, <2>4 DEF ArchivedAs
<1> QED BY <1>1, <1>5, <1>6, <1>7, <1>8, <1>9, <1>10, <1>11 DEF e, Base, Update

\* Taking the ticket and the queue entry away changes nothing else.
LEMMA QuietRec ==
    ASSUME NEW r \in TransferRec
    PROVE  /\ [r EXCEPT !.ticket = 0, !.queued = FALSE] \in TransferRec
           /\ [r EXCEPT !.ticket = 0, !.queued = FALSE].ticket = 0
           /\ \A x \in {"state", "bytes", "session", "intent", "admission", "generation",
                        "expires", "relays"} :
                 [r EXCEPT !.ticket = 0, !.queued = FALSE][x] = r[x]
  BY DEF TransferRec

\* Retiring the lease state of completed transfers keeps them live, without
\* a ticket, and archives them.
LEMMA RetireCompletedBase ==
    ASSUME NEW s, Base(s), NEW C, C \subseteq Finished(s)
    PROVE  /\ Base(RetireCompleted(s, C)) /\ Shrinks(s, RetireCompleted(s, C))
           /\ RetireCompleted(s, C).leases = s.leases
           /\ Live(RetireCompleted(s, C)) = Live(s)
           /\ Finished(RetireCompleted(s, C)) = Finished(s)
           /\ Dead(RetireCompleted(s, C)) = Dead(s)
<1> DEFINE a == Archive(s, C)
           f == RetiredCompleted(s, C)
           e == [a EXCEPT !.transfer = f]
<1>1. C \subseteq Live(s)
  BY DEF Finished
<1>2. Base(a) /\ Shrinks(s, a) /\ a.leases = s.leases /\ a.transfer = s.transfer
  BY ArchiveBase
<1>3. RetireCompleted(s, C) = e
  <2>1. f = [t \in Transfers |->
                IF t \in C THEN [a.transfer[t] EXCEPT !.ticket = 0, !.queued = FALSE]
                           ELSE a.transfer[t]]
    BY <1>2, Zenon DEF RetiredCompleted
  <2> QED BY <2>1, Zenon DEF RetireCompleted
<1> HIDE DEF a
<1>4. Update(a, e, f, a.intents, a.leases, a.archive, a.archivedIntents)
  BY <1>2, SetTransfer, Zenon DEF Base
<1> HIDE DEF e
<1>5. \A t \in Transfers :
        /\ f[t] \in TransferRec
        /\ \A x \in {"state", "bytes", "session", "intent", "admission", "generation",
                     "expires", "relays"} : f[t][x] = a.transfer[t][x]
        /\ f[t].ticket = a.transfer[t].ticket \/ (t \in C /\ f[t].ticket = 0)
        /\ t \notin C => f[t] = a.transfer[t]
  <2> TAKE t \in Transfers
  <2>1. a.transfer[t] \in TransferRec
    BY <1>2 DEF Base, Types
  <2>2. CASE t \in C
    <3>1. f[t] = [a.transfer[t] EXCEPT !.ticket = 0, !.queued = FALSE]
      BY <1>2, <2>2 DEF RetiredCompleted
    <3> HIDE DEF f
    <3> QED BY <2>1, <2>2, <3>1, QuietRec
  <2>3. CASE t \notin C
    BY <1>2, <2>1, <2>3 DEF RetiredCompleted
  <2> QED BY <2>2, <2>3
<1>6. f \in [Transfers -> TransferRec]
  BY <1>5 DEF RetiredCompleted
<1> HIDE DEF f
<1>7. e.transfer = f
  BY <1>4 DEF Update
<1>8. \A t \in Transfers :
        /\ f[t].state = a.transfer[t].state /\ f[t].bytes = a.transfer[t].bytes
        /\ f[t].session = a.transfer[t].session /\ f[t].intent = a.transfer[t].intent
        /\ f[t].admission = a.transfer[t].admission
        /\ f[t].generation = a.transfer[t].generation
        /\ f[t].expires = a.transfer[t].expires /\ f[t].relays = a.transfer[t].relays
  BY <1>5
<1>9. Live(e) = Live(a) /\ Dead(e) = Dead(a) /\ Finished(e) = Finished(a)
  BY <1>7, <1>8 DEF Live, Dead, Finished
<1>10. \A t \in Transfers : Outcome(e, t) = Outcome(a, t)
  BY <1>4, <1>7, <1>8, <1>9 DEF Outcome, Update
<1>11. \A i \in Intents : Owner(e, i) = Owner(a, i)
  BY <1>4 DEF Update, Owner
<1>12. Shrinks(a, e)
  <2>1. Live(e) \subseteq Transfers
    BY DEF Live
  <2> QED BY <1>4, <1>7, <1>8, <1>9, <1>10, <1>11, <2>1, Zenon DEF Shrinks, Update
<1>13. Types(e) /\ Shape(e)
  BY <1>2, <1>4, <1>6 DEF Update, Types, Base
<1>14. Held(e)
  <2>1. \A l \in a.leases : l.transfer \in Transfers
    BY <1>2 DEF Base, Types, LeaseRec
  <2> QED BY <1>2, <1>4, <1>7, <1>8, <1>9, <2>1 DEF Update, Held, Base
<1>15. Runnable(e)
  <2>1. C \subseteq Finished(a)
    BY <1>2 DEF Finished, Live
  <2> QED BY <1>2, <1>5, <1>7, <1>8, <1>9, <2>1 DEF Runnable, Runs, Base, Live, Finished
<1>16. RegisteredOwners(e)
  BY <1>2, <1>4, <1>7, <1>8, <1>9 DEF Update, RegisteredOwners, OwnersRegistered, Open, Base, Live
<1>17. BoundIntents(e)
  <2>1. \A i \in Intents : a.intents[i] \in Live(a) => a.intents[i] \in Transfers
    BY DEF Live
  <2> QED BY <1>2, <1>4, <1>7, <1>8, <1>9, <1>11, <2>1 DEF Update, BoundIntents, Base, Live
<1>18. ArchivedOutcomes(e)
  <2>1. \A t \in Transfers : t \notin Live(a) => f[t] = a.transfer[t]
    BY <1>1, <1>2, <1>5 DEF Live
  <2> QED BY <1>2, <1>4, <1>7, <1>9, <1>10, <2>1 DEF Update, ArchivedOutcomes, Base
<1>19. Live(a) = Live(s) /\ Dead(a) = Dead(s) /\ Finished(a) = Finished(s)
  BY <1>2 DEF Live, Dead, Finished
<1>20. Shrinks(s, e)
  BY <1>2, <1>12, ShrinksTransitive
<1> QED BY <1>2, <1>3, <1>4, <1>9, <1>13, <1>14, <1>15, <1>16, <1>17, <1>18, <1>19, <1>20 DEF Base, Update

\* Forgetting finished, unleased transfers moves their receipts to the archive.
LEMMA RetireRuntimeBase ==
    ASSUME NEW s, Base(s), NEW T, T \cap Live(s) \subseteq Finished(s),
           T \cap Leased(s) = {}
    PROVE  /\ Base(RetireRuntime(s, T)) /\ Shrinks(s, RetireRuntime(s, T))
           /\ RetireRuntime(s, T).leases = s.leases
           /\ Live(RetireRuntime(s, T)) = Live(s) \ T
           /\ Dead(RetireRuntime(s, T)) = Dead(s) \ T
<1> DEFINE a == Archive(s, T)
           f == RetiredRuntime(s, T)
           g == RetiredIntents(s, T)
           e == [a EXCEPT !.transfer = f, !.intents = g]
<1>1. Base(a) /\ Shrinks(s, a) /\ a.leases = s.leases /\ a.transfer = s.transfer
  BY ArchiveBase
<1>2. /\ a.intents = s.intents
      /\ a.archive = NewArchive(s, T \cap Live(s))
      /\ a.archivedIntents = NewArchivedIntents(s, T \cap Live(s))
  BY ArchiveFields, ArchivableAll DEF Base, Update
<1>3. RetireRuntime(s, T) = e
  <2>1. f = [t \in Transfers |-> IF t \in T THEN NoTransfer ELSE a.transfer[t]]
    BY <1>1, Zenon DEF RetiredRuntime
  <2>2. g = [i \in Intents |-> IF a.intents[i] \in T THEN None ELSE a.intents[i]]
    BY <1>2, Zenon DEF RetiredIntents
  <2> QED BY <2>1, <2>2, Zenon DEF RetireRuntime
<1>4. /\ \A t \in T \cap Live(a) : a.archive[t] = Outcome(a, t)
      /\ \A i \in Intents : a.intents[i] \in T /\ a.intents[i] # None =>
            a.archivedIntents[i] = a.intents[i]
  <2>1. Live(a) = Live(s)
    BY <1>1 DEF Live
  <2>2. \A t \in T \cap Live(s) : a.archive[t] = Outcome(s, t)
    BY <1>2, NewArchiveFacts DEF Live
  <2>3. \A t \in T \cap Live(s) : Outcome(a, t) = Outcome(s, t)
    BY <1>1, <2>1 DEF Outcome
  <2>4. \A i \in Intents : a.intents[i] \in T /\ a.intents[i] # None =>
            a.intents[i] \in T \cap Live(s)
    BY <1>1, <2>1 DEF Base, BoundIntents
  <2>5. \A i \in Intents : s.intents[i] \in T \cap Live(s) =>
            a.archivedIntents[i] = s.intents[i]
    BY <1>2, NewArchiveFacts
  <2> QED BY <1>2, <2>1, <2>2, <2>3, <2>4, <2>5
<1>5. /\ \A t \in Transfers : f[t] = IF t \in T THEN NoTransfer ELSE a.transfer[t]
      /\ \A i \in Intents : g[i] = IF a.intents[i] \in T THEN None ELSE a.intents[i]
  BY <1>1, <1>2 DEF RetiredRuntime, RetiredIntents
<1>6. f \in [Transfers -> TransferRec] /\ g \in [Intents -> Transfers \cup {None}]
  <2>1. NoTransfer \in TransferRec
    BY ConstantsAssumption DEF NoTransfer, TransferRec, AdmissionStates
  <2>2. s.transfer \in [Transfers -> TransferRec] /\ s.intents \in [Intents -> Transfers \cup {None}]
    BY DEF Base, Types
  <2> QED BY <2>1, <2>2 DEF RetiredRuntime, RetiredIntents
<1>7. Leased(a) = Leased(s) /\ Live(a) = Live(s) /\ Dead(a) = Dead(s)
  BY <1>1 DEF Leased, Live, Dead
<1> HIDE DEF a, f, g
<1>8. Update(a, e, f, g, a.leases, a.archive, a.archivedIntents)
  BY <1>1, SetTransferIntents, Zenon DEF Base
<1> HIDE DEF e
<1>9. Live(e) = Live(a) \ T /\ Dead(e) = Dead(a) \ T
  <2>1. e.transfer = f /\ NoTransfer.state = "absent"
    BY <1>8 DEF Update, NoTransfer
  <2> QED BY <1>5, <2>1 DEF Live, Dead
<1>10. \A t \in Transfers : Outcome(e, t) = Outcome(a, t)
  <2> TAKE t \in Transfers
  <2>1. CASE t \in Live(e)
    BY <1>5, <1>8, <1>9, <2>1 DEF Outcome, Update
  <2>2. CASE t \in T \cap Live(a)
    BY <1>4, <1>8, <1>9, <2>2 DEF Outcome, Update
  <2>3. CASE t \notin Live(a)
    BY <1>8, <1>9, <2>3 DEF Outcome, Update
  <2> QED BY <1>9, <2>1, <2>2, <2>3
<1>11. \A i \in Intents : Owner(e, i) = Owner(a, i)
  <2> TAKE i \in Intents
  <2>1. e.intents[i] = (IF a.intents[i] \in T THEN None ELSE a.intents[i])
        /\ e.archivedIntents[i] = a.archivedIntents[i]
    BY <1>5, <1>8 DEF Update
  <2> QED BY <1>4, <2>1 DEF Owner
<1>12. Shrinks(a, e)
  <2>1. \A t \in Live(e) : e.transfer[t] = a.transfer[t]
    BY <1>5, <1>8, <1>9 DEF Update, Live
  <2> QED BY <1>8, <1>9, <1>10, <1>11, <2>1, Zenon DEF Shrinks, Update
<1>13. Types(e) /\ Shape(e)
  BY <1>1, <1>6, <1>8 DEF Update, Types, Base
<1>14. Held(e)
  <2>1. \A l \in a.leases : l.transfer \notin T /\ l.transfer \in Transfers
    BY <1>1, <1>7 DEF Base, Types, LeaseRec, Leased
  <2>2. \A l \in a.leases : e.transfer[l.transfer] = a.transfer[l.transfer]
    BY <1>5, <1>8, <2>1 DEF Update
  <2> QED BY <1>1, <1>8, <1>9, <2>1, <2>2 DEF Update, Held, Base
<1>15. \A t \in Live(e) : e.transfer[t] = a.transfer[t] /\ t \in Live(a) /\ t \notin T
  BY <1>5, <1>8, <1>9 DEF Update, Live
<1>16. Runnable(e)
  BY <1>1, <1>15 DEF Runnable, Base
<1>17. RegisteredOwners(e)
  BY <1>1, <1>8, <1>15 DEF Update, RegisteredOwners, OwnersRegistered, Open, Base
<1>18. BoundIntents(e)
  <2>1. \A t \in Live(e) : t \in e.issued /\ e.intents[e.transfer[t].intent] = t
    <3> TAKE t \in Live(e)
    <3>1. t \in a.issued /\ a.intents[a.transfer[t].intent] = t /\ a.transfer[t].intent \in Intents
      BY <1>1, <1>15 DEF Base, BoundIntents, RegisteredOwners
    <3>2. g[a.transfer[t].intent] = t
      BY <1>5, <1>15, <3>1
    <3> QED BY <1>8, <1>15, <3>1, <3>2 DEF Update
  <2>2. \A i \in Intents : e.intents[i] # None =>
            e.intents[i] \in Live(e) /\ e.transfer[e.intents[i]].intent = i
    <3> SUFFICES ASSUME NEW i \in Intents, e.intents[i] # None
                 PROVE  e.intents[i] \in Live(e) /\ e.transfer[e.intents[i]].intent = i
      OBVIOUS
    <3>1. e.intents[i] = a.intents[i] /\ a.intents[i] \notin T
      BY <1>5, <1>8 DEF Update
    <3>2. a.intents[i] \in Live(a) /\ a.transfer[a.intents[i]].intent = i
      BY <1>1, <3>1 DEF Base, BoundIntents
    <3> QED BY <1>9, <1>15, <3>1, <3>2
  <2>3. \A i \in Intents : e.archivedIntents[i] # None =>
            e.archivedIntents[i] \in e.issued /\ e.archivedIntents[i] = Owner(e, i)
    BY <1>1, <1>8, <1>11 DEF Update, Base, BoundIntents
  <2>4. \A i, k \in Intents : Owner(e, i) # None /\ Owner(e, i) = Owner(e, k) => i = k
    BY <1>1, <1>11 DEF Base, BoundIntents
  <2> QED BY <2>1, <2>2, <2>3, <2>4 DEF BoundIntents
<1>19. ArchivedOutcomes(e)
  <2> SUFFICES ASSUME NEW t \in Transfers
               PROVE  ArchivedAs(e, t)
    BY ArchivedEach
  <2>1. ArchivedAs(a, t)
    BY <1>1, ArchivedEach DEF Base
  <2>2. e.issued = a.issued /\ e.archive = a.archive /\ Outcome(e, t) = Outcome(a, t)
    BY <1>8, <1>10 DEF Update
  <2>3. t \notin Live(e) => e.transfer[t] = NoTransfer
    BY <1>5, <1>8, <1>9, <2>1 DEF Update, ArchivedAs
  <2>4. t \in T \cap Live(a) => a.archive[t].state \in Terminal
    <3> SUFFICES ASSUME t \in T \cap Live(a)
                 PROVE  a.archive[t].state \in Terminal
      OBVIOUS
    <3>1. t \in Finished(s)
      BY <1>7
    <3>2. a.transfer[t].state \in Terminal
      BY <1>1, <3>1 DEF Finished
    <3>3. a.archive[t] = Outcome(a, t)
      BY <1>4
    <3> QED BY <3>2, <3>3 DEF Outcome
  <2> QED BY <1>9, <2>1, <2>2, <2>3, <2>4 DEF ArchivedAs
<1>20. Shrinks(s, e)
  BY <1>1, <1>12, ShrinksTransitive
<1>21. e.leases = s.leases
  BY <1>1, <1>8 DEF Update
<1> QED BY <1>3, <1>7, <1>9, <1>13, <1>14, <1>16, <1>17, <1>18, <1>19, <1>20, <1>21 DEF Base

\* The retirement after a release forgets the dead transfers it is given and
\* keeps the complete ones.
LEMMA RetireUnleasedBase ==
    ASSUME NEW s, Base(s), NEW T
    PROVE  /\ Base(RetireUnleased(s, T)) /\ Shrinks(s, RetireUnleased(s, T))
           /\ RetireUnleased(s, T).leases = s.leases
           /\ Dead(RetireUnleased(s, T)) = Dead(s) \ (T \ Leased(s))
<1> DEFINE F == (T \cap Finished(s)) \ Leased(s)
           C == {t \in F : s.transfer[t].state = "complete"}
           a == RetireCompleted(s, C)
           e == RetireRuntime(a, F \ C)
<1>1. RetireUnleased(s, T) = e
  BY Zenon DEF RetireUnleased
<1>2. /\ Base(a) /\ Shrinks(s, a) /\ a.leases = s.leases
      /\ Live(a) = Live(s) /\ Finished(a) = Finished(s) /\ Dead(a) = Dead(s)
  BY RetireCompletedBase
<1> HIDE DEF a
<1>3. (F \ C) \cap Live(a) \subseteq Finished(a) /\ (F \ C) \cap Leased(a) = {}
  BY <1>2 DEF Leased
<1>4. F \ C = Dead(s) \cap (T \ Leased(s))
  BY DEF Dead, Finished, Live, Terminal
<1> HIDE DEF F, C
<1>5. /\ Base(e) /\ Shrinks(a, e) /\ e.leases = a.leases /\ Dead(e) = Dead(a) \ (F \ C)
  BY <1>2, <1>3, RetireRuntimeBase
<1> HIDE DEF e
<1>6. Shrinks(s, e)
  BY <1>2, <1>5, ShrinksTransitive
<1> QED BY <1>1, <1>2, <1>4, <1>5, <1>6

\* _release_reservation_locked keeps Base and leaves no new dead transfer.
LEMMA ReleaseLeasesBase ==
    ASSUME NEW s, Base(s), NEW L, NEW final \in {"failed", "canceled"}
    PROVE  /\ Base(ReleaseLeases(s, L, final)) /\ Shrinks(s, ReleaseLeases(s, L, final))
           /\ ReleaseLeases(s, L, final).leases = s.leases \ L
           /\ Dead(ReleaseLeases(s, L, final)) =
                Dead(s) \ ({l.transfer : l \in L} \ {l.transfer : l \in s.leases \ L})
<1> DEFINE a == DropLeases(s, L)
           freed == {l.transfer : l \in L} \ Leased(a)
           b == MarkTerminal(a, freed, final)
           e == RetireUnleased(b, freed)
<1>1. ReleaseLeases(s, L, final) = e
  BY Zenon DEF ReleaseLeases
<1>2. /\ Base(a) /\ Shrinks(s, a) /\ a.leases = s.leases \ L /\ a.transfer = s.transfer
  BY DropLeasesBase
<1> HIDE DEF a
<1>3. freed = {l.transfer : l \in L} \ {l.transfer : l \in s.leases \ L} /\ freed \cap Leased(a) = {}
  BY <1>2 DEF Leased
<1> HIDE DEF freed
<1>4. /\ Base(b) /\ Shrinks(a, b) /\ b.leases = a.leases
      /\ Dead(b) \subseteq Dead(a) \cup freed /\ Dead(a) \ freed \subseteq Dead(b)
  <2>1. /\ Base(b) /\ Shrinks(a, b) /\ b.leases = a.leases /\ Dead(b) \subseteq Dead(a) \cup freed
        /\ Dead(a) \subseteq Dead(b)
    BY <1>2, MarkTerminalBase
  <2> QED BY <2>1
<1> HIDE DEF b
<1>5. Leased(b) = Leased(a) /\ Dead(a) = Dead(s)
  BY <1>2, <1>4 DEF Leased, Dead
<1>6. Base(e) /\ Shrinks(b, e) /\ e.leases = b.leases /\ Dead(e) = Dead(b) \ (freed \ Leased(b))
  BY <1>4, RetireUnleasedBase
<1> HIDE DEF e
<1>7. Shrinks(s, e)
  BY <1>2, <1>4, <1>6, ShrinksTransitive
<1> QED BY <1>1, <1>2, <1>3, <1>4, <1>5, <1>6, <1>7

\* Canceling and forgetting transfers that hold no lease removes them.
LEMMA CancelTransfersBase ==
    ASSUME NEW s, Base(s), NEW T, T \cap Leased(s) = {}
    PROVE  /\ Base(CancelTransfers(s, T)) /\ Shrinks(s, CancelTransfers(s, T))
           /\ CancelTransfers(s, T).leases = s.leases
           /\ Live(CancelTransfers(s, T)) = Live(s) \ T
           /\ Dead(CancelTransfers(s, T)) = Dead(s) \ T
<1> DEFINE a == MarkTerminal(s, T, "canceled")
           e == RetireRuntime(a, T)
<1>1. CancelTransfers(s, T) = e
  BY Zenon DEF CancelTransfers
<1>2. /\ Base(a) /\ Shrinks(s, a) /\ a.leases = s.leases /\ Live(a) = Live(s)
      /\ T \cap Live(s) \subseteq Finished(a)
      /\ Dead(a) \subseteq Dead(s) \cup T /\ Dead(s) \subseteq Dead(a)
  BY MarkTerminalBase
<1> HIDE DEF a
<1>3. T \cap Live(a) \subseteq Finished(a) /\ T \cap Leased(a) = {}
  BY <1>2 DEF Leased
<1>4. Base(e) /\ Shrinks(a, e) /\ e.leases = a.leases /\ Live(e) = Live(a) \ T /\ Dead(e) = Dead(a) \ T
  BY <1>2, <1>3, RetireRuntimeBase
<1> HIDE DEF e
<1>5. Shrinks(s, e)
  BY <1>2, <1>4, ShrinksTransitive
<1> QED BY <1>1, <1>2, <1>4, <1>5

-----------------------------------------------------------------------------
\* What every step but the acceptance of an intent and the report of a
\* completion does to the receipts: some unfinished transfers fail or are
\* canceled.
Keeps(s, e) ==
    /\ \A i \in Intents : Owner(e, i) = Owner(s, i)
    /\ \A t \in Transfers :
        /\ Outcome(s, t).state \in Terminal => Outcome(e, t) = Outcome(s, t)
        /\ Outcome(e, t).state \in {"failed", "canceled"} => Outcome(s, t).state # "absent"
        /\ Outcome(e, t).state = "complete" => Outcome(s, t).state = "complete"
        /\ Outcome(e, t).state = "absent" <=> Outcome(s, t).state = "absent"

\* A step that changes nothing keeps the receipts.
LEMMA KeepsReflexive ==
    ASSUME NEW s
    PROVE  Keeps(s, s)
  BY DEF Keeps, Terminal

\* Steps that keep the receipts compose.
LEMMA KeepsTransitive ==
    ASSUME NEW s, NEW e, NEW f, Keeps(s, e), Keeps(e, f)
    PROVE  Keeps(s, f)
  BY DEF Keeps, Terminal

\* A step that only ends or forgets transfers keeps the receipts.
LEMMA ShrinksKeeps ==
    ASSUME NEW s, NEW e, Base(s), Base(e), Shrinks(s, e)
    PROVE  Keeps(s, e)
  BY DEF Shrinks, Keeps, Base, ArchivedOutcomes, Terminal

\* Owners change under the same transfers.
LEMMA SameTransfersBase ==
    ASSUME NEW s, Base(s), NEW e, Shape(e),
           e.issued = s.issued, e.transfer = s.transfer, e.intents = s.intents,
           e.leases = s.leases, e.archive = s.archive, e.archivedIntents = s.archivedIntents,
           e.session \in [SessionIds -> SessionRec],
           e.attached \in [Relays -> SUBSET SessionIds],
           e.jobs \in [Jobs -> SessionIds \cup {None}],
           e.buffers \in [Buffers -> Jobs \cup {None}],
           RegisteredOwners(e)
    PROVE  Base(e) /\ Dead(e) = Dead(s) /\ Live(e) = Live(s) /\ Keeps(s, e)
<1>1. Live(e) = Live(s) /\ Dead(e) = Dead(s)
  BY DEF Live, Dead
<1>2. \A t \in Transfers : Outcome(e, t) = Outcome(s, t)
  BY <1>1 DEF Outcome
<1>3. \A i \in Intents : Owner(e, i) = Owner(s, i)
  BY DEF Owner
<1>4. Types(e)
  BY DEF Types, Base
<1>5. Held(e)
  BY <1>1 DEF Held, Base
<1>6. Runnable(e)
  BY <1>1 DEF Runnable, Base
<1>7. BoundIntents(e)
  BY <1>1, <1>3 DEF BoundIntents, Base
<1>8. ArchivedOutcomes(e)
  BY <1>1, <1>2 DEF ArchivedOutcomes, Base
<1>9. Keeps(s, e)
  BY <1>2, <1>3, Zenon DEF Keeps, Terminal
<1> QED BY <1>1, <1>4, <1>5, <1>6, <1>7, <1>8, <1>9 DEF Base

\* Release leases, then cancel and forget the transfers that held them.
LEMMA CancelOwned ==
    ASSUME NEW s, Inv(s), NEW T, NEW L, LeasesOf(s, T) \subseteq L
    PROVE  LET c == CancelTransfers(ReleaseLeases(s, L, "canceled"), T)
           IN Inv(c) /\ Shrinks(s, c) /\ Keeps(s, c) /\ Live(c) \cap T = {}
<1> DEFINE a == ReleaseLeases(s, L, "canceled")
           c == CancelTransfers(a, T)
<1>1. Base(a) /\ Shrinks(s, a) /\ a.leases = s.leases \ L /\ Dead(a) = {}
  BY ReleaseLeasesBase DEF Inv
<1> HIDE DEF a
<1>2. T \cap Leased(a) = {}
  BY <1>1 DEF Leased, LeasesOf
<1>3. Base(c) /\ Shrinks(a, c) /\ Live(c) = Live(a) \ T /\ Dead(c) = Dead(a) \ T
  BY <1>1, <1>2, CancelTransfersBase
<1> HIDE DEF c
<1>4. Shrinks(s, c)
  BY <1>1, <1>3, ShrinksTransitive
<1>5. Inv(c) /\ Shrinks(s, c) /\ Keeps(s, c) /\ Live(c) \cap T = {}
  BY <1>1, <1>3, <1>4, ShrinksKeeps DEF Inv
<1> QED BY <1>5 DEF c, a

\* e is s with other owners registered; the transfers are the same.
Reowned(s, e, session, attached, jobs, buffers) ==
    /\ Shape(e) /\ e.session = session /\ e.attached = attached
    /\ e.jobs = jobs /\ e.buffers = buffers
    /\ e.issued = s.issued /\ e.transfer = s.transfer /\ e.intents = s.intents
    /\ e.leases = s.leases /\ e.archive = s.archive
    /\ e.archivedIntents = s.archivedIntents

\* What _remove_session_jobs_and_buffers_locked writes: only the owners.
LEMMA SetOwners ==
    ASSUME NEW s, Shape(s), NEW f, NEW g, NEW h, NEW j, NEW b
    PROVE  Reowned(s, [s EXCEPT !.session = f, !.sessionChunks = g, !.attached = h,
                                !.jobs = j, !.buffers = b], f, h, j, b)
  BY DEF Shape, Fields, Reowned

\* _close_session_locked keeps the invariant: the transfers and leases of the
\* sessions go before the sessions do.
LEMMA CloseSessionsInv ==
    ASSUME NEW s, Inv(s), NEW S
    PROVE  Inv(CloseSessions(s, S)) /\ Keeps(s, CloseSessions(s, S))
<1> DEFINE T == {t \in Live(s) : s.transfer[t].session \in S}
           L == {l \in s.leases : l.session \in S}
           J == {j \in Jobs : s.jobs[j] \in S}
           c == CancelTransfers(ReleaseLeases(s, L, "canceled"), T)
           f == [x \in SessionIds |->
                   IF x \in S THEN [NoSession EXCEPT !.state = "closed"] ELSE c.session[x]]
           g == [x \in SessionIds |-> IF x \in S THEN 0 ELSE c.sessionChunks[x]]
           h == [r \in Relays |-> c.attached[r] \ S]
           j0 == [j \in Jobs |-> IF j \in J THEN None ELSE c.jobs[j]]
           b0 == [b \in Buffers |-> IF c.buffers[b] \in J THEN None ELSE c.buffers[b]]
           e == [c EXCEPT !.session = f, !.sessionChunks = g, !.attached = h,
                          !.jobs = j0, !.buffers = b0]
<1>1. CloseSessions(s, S) = e
  BY Zenon DEF CloseSessions
<1>2. LeasesOf(s, T) \subseteq L
  BY DEF LeasesOf, Inv, Base, Held
<1> HIDE DEF L
<1>3. Inv(c) /\ Shrinks(s, c) /\ Keeps(s, c) /\ Live(c) \cap T = {}
  BY <1>2, CancelOwned
<1> HIDE DEF c
<1>4. /\ f \in [SessionIds -> SessionRec] /\ h \in [Relays -> SUBSET SessionIds]
      /\ j0 \in [Jobs -> SessionIds \cup {None}] /\ b0 \in [Buffers -> Jobs \cup {None}]
  <2>1. [NoSession EXCEPT !.state = "closed"] \in SessionRec
    BY DEF NoSession, SessionRec
  <2>2. /\ c.session \in [SessionIds -> SessionRec] /\ c.attached \in [Relays -> SUBSET SessionIds]
        /\ c.jobs \in [Jobs -> SessionIds \cup {None}] /\ c.buffers \in [Buffers -> Jobs \cup {None}]
    BY <1>3 DEF Inv, Base, Types
  <2> QED BY <2>1, <2>2
<1>5. \A t \in Live(c) :
        /\ c.transfer[t].intent \in Intents
        /\ c.transfer[t].session \in SessionIds \ S
        /\ f[c.transfer[t].session].state = "open"
        /\ j0[IntentJob[c.transfer[t].intent]] = c.transfer[t].session
        /\ \A b \in IntentBuffers[c.transfer[t].intent] : b0[b] = IntentJob[c.transfer[t].intent]
  <2> TAKE t \in Live(c)
  <2>1. t \in Live(s) /\ t \notin T /\ c.transfer[t].session = s.transfer[t].session
    BY <1>3 DEF Shrinks
  <2>2. c.transfer[t].session \notin S
    BY <2>1
  <2>3. c.transfer[t].intent \in Intents /\ OwnersRegistered(c, c.transfer[t].intent, c.transfer[t].session)
    BY <1>3 DEF Inv, Base, RegisteredOwners
  <2>4. c.jobs = s.jobs
    BY <1>3 DEF Shrinks
  <2>5. IntentJob[c.transfer[t].intent] \in Jobs /\ IntentJob[c.transfer[t].intent] \notin J
        /\ IntentBuffers[c.transfer[t].intent] \subseteq Buffers
    BY <2>2, <2>3, <2>4, ConstantsAssumption DEF OwnersRegistered
  <2> QED BY <2>2, <2>3, <2>5 DEF OwnersRegistered, Open
<1> HIDE DEF f, g, h, j0, b0
<1>6. Reowned(c, e, f, h, j0, b0)
  <2>1. Shape(c)
    BY <1>3 DEF Inv, Base
  <2> QED BY <2>1, SetOwners, Zenon
<1> HIDE DEF e
<1>7. RegisteredOwners(e)
  <2>1. Live(e) = Live(c)
    BY <1>6 DEF Live, Reowned
  <2> QED BY <1>5, <1>6, <2>1 DEF RegisteredOwners, OwnersRegistered, Open, Reowned
<1>8. Base(e) /\ Dead(e) = Dead(c) /\ Keeps(c, e)
  BY <1>3, <1>4, <1>6, <1>7, SameTransfersBase DEF Inv, Reowned
<1>9. Keeps(s, e)
  BY <1>3, <1>8, KeepsTransitive
<1> QED BY <1>1, <1>3, <1>8, <1>9 DEF Inv

-----------------------------------------------------------------------------
\* Planning.

\* The leases CommitLeases adds.
NewLeases(s, T, g) ==
    {[transfer |-> p[1], relay |-> p[2],
      generation |-> s.transfer[p[1]].generation,
      session |-> s.transfer[p[1]].session, chunks |-> g[p[1]][p[2]],
      expires |-> now + LeaseSeconds, staged |-> None] :
     p \in {q \in T \X Relays : g[q[1]][q[2]] > 0}}
Touched(s, T) ==
    [x \in SessionIds |-> IF \E t \in T : s.transfer[t].session = x
                          THEN [s.session[x] EXCEPT !.seen = now] ELSE s.session[x]]

\* e is s with leases added and sessions touched.
Committed(s, e, session, leases) ==
    /\ Shape(e) /\ e.session = session /\ e.leases = leases
    /\ e.attached = s.attached /\ e.jobs = s.jobs /\ e.buffers = s.buffers
    /\ e.issued = s.issued /\ e.transfer = s.transfer /\ e.intents = s.intents
    /\ e.archive = s.archive /\ e.archivedIntents = s.archivedIntents

\* Adding leases and touching sessions leaves every other dictionary alone.
LEMMA SetCommitted ==
    ASSUME NEW s, Shape(s), NEW L, NEW f, NEW g, NEW h
    PROVE  Committed(s, [s EXCEPT !.leases = L, !.session = f, !.sessionChunks = g,
                                  !.relayChunks = h], f, L)
  BY DEF Shape, Fields, Committed

\* What _commit_scheduler_leases_locked writes.
LEMMA CommitLeasesFields ==
    ASSUME NEW s, Shape(s), NEW T, NEW g
    PROVE  Committed(s, CommitLeases(s, T, g), Touched(s, T), s.leases \cup NewLeases(s, T, g))
  BY SetCommitted, Zenon DEF CommitLeases, NewLeases, Touched

\* Every new lease comes from one transfer and one relay of its grant.
LEMMA NewLeasesFacts ==
    ASSUME NEW s, NEW T, NEW g, NEW l \in NewLeases(s, T, g)
    PROVE  \E t \in T, r \in Relays :
              /\ g[t][r] > 0
              /\ l = [transfer |-> t, relay |-> r,
                      generation |-> s.transfer[t].generation,
                      session |-> s.transfer[t].session, chunks |-> g[t][r],
                      expires |-> now + LeaseSeconds, staged |-> None]
  BY DEF NewLeases

\* The leases of a plan: the transfers of T are admitted under plans that list
\* the relays of their grants and expire with their leases.
Planned(s, T, g) ==
    \A t \in T : \A r \in Relays : g[t][r] > 0 =>
        /\ t \notin Dead(s)
        /\ s.transfer[t].admission = "admitted"
        /\ s.transfer[t].expires = now + LeaseSeconds
        /\ r \in s.transfer[t].relays

\* Committing the leases of freshly planned transfers keeps Base.
LEMMA CommitLeasesBase ==
    ASSUME NEW s, Base(s), now \in Nat, NEW T, T \subseteq Live(s), T \cap Leased(s) = {},
           NEW g, \A t \in T : g[t] \in Grants, Planned(s, T, g)
    PROVE  /\ Base(CommitLeases(s, T, g)) /\ Keeps(s, CommitLeases(s, T, g))
           /\ CommitLeases(s, T, g).transfer = s.transfer
           /\ Dead(CommitLeases(s, T, g)) = Dead(s)
<1> DEFINE e == CommitLeases(s, T, g)
           N == NewLeases(s, T, g)
<1>1. Committed(s, e, Touched(s, T), s.leases \cup N)
  BY CommitLeasesFields DEF Base
<1> HIDE DEF e
<1>2. Touched(s, T) \in [SessionIds -> SessionRec]
  <2>1. s.session \in [SessionIds -> SessionRec]
    BY DEF Base, Types
  <2>2. \A r \in SessionRec : [r EXCEPT !.seen = now] \in SessionRec
    BY DEF SessionRec
  <2> QED BY <2>1, <2>2 DEF Touched
<1>3. Open(e) = Open(s)
  <2>1. \A x \in SessionIds : Touched(s, T)[x].state = s.session[x].state
    <3>1. s.session \in [SessionIds -> SessionRec]
      BY DEF Base, Types
    <3>2. \A r \in SessionRec : [r EXCEPT !.seen = now].state = r.state
      BY DEF SessionRec
    <3> QED BY <3>1, <3>2 DEF Touched
  <2> QED BY <1>1, <2>1 DEF Open, Committed
<1>4. Live(e) = Live(s) /\ Dead(e) = Dead(s)
  BY <1>1 DEF Committed, Live, Dead
<1>5. \A l \in N :
        /\ l \in LeaseRec /\ l.transfer \in T
        /\ l.transfer \notin Dead(s)
        /\ s.transfer[l.transfer].admission = "admitted"
        /\ l.session = s.transfer[l.transfer].session
        /\ l.generation = s.transfer[l.transfer].generation
        /\ l.expires = s.transfer[l.transfer].expires
        /\ l.relay \in s.transfer[l.transfer].relays
        /\ l = [transfer |-> l.transfer, relay |-> l.relay,
                generation |-> s.transfer[l.transfer].generation,
                session |-> s.transfer[l.transfer].session, chunks |-> g[l.transfer][l.relay],
                expires |-> now + LeaseSeconds, staged |-> None]
  <2> TAKE l \in N
  <2>1. PICK t \in T, r \in Relays :
          /\ g[t][r] > 0
          /\ l = [transfer |-> t, relay |-> r,
                  generation |-> s.transfer[t].generation,
                  session |-> s.transfer[t].session, chunks |-> g[t][r],
                  expires |-> now + LeaseSeconds, staged |-> None]
    BY NewLeasesFacts
  <2>2. /\ t \notin Dead(s) /\ s.transfer[t].admission = "admitted"
        /\ s.transfer[t].expires = now + LeaseSeconds /\ r \in s.transfer[t].relays
    BY <2>1 DEF Planned
  <2>3. t \in Live(s) /\ t \in Transfers
    BY DEF Live
  <2>4. s.transfer[t].generation \in Nat
    BY <2>3 DEF Base, Types, TransferRec
  <2>5. s.transfer[t].session \in SessionIds
    BY <2>3 DEF Base, RegisteredOwners, OwnersRegistered, Open
  <2>6. g[t][r] \in Nat
    BY ConstantsAssumption DEF Grants
  <2>7. now + LeaseSeconds \in Nat
    BY ConstantsAssumption
  <2>8. l \in LeaseRec
    BY <2>1, <2>3, <2>4, <2>5, <2>6, <2>7 DEF LeaseRec
  <2> QED BY <2>1, <2>2, <2>8
<1>6. \A l \in s.leases : l.transfer \notin T
  BY DEF Leased
<1>7. Types(e) /\ Shape(e)
  <2>1. N \subseteq LeaseRec
    BY <1>5
  <2> QED BY <1>1, <1>2, <2>1 DEF Committed, Types, Base
<1>8. Held(e)
  <2>1. \A l \in N : l.transfer \in Live(s)
    BY <1>5
  <2>2. \A k, l \in N : k.transfer = l.transfer /\ k.relay = l.relay => k = l
    <3> TAKE k, l \in N
    <3> HAVE k.transfer = l.transfer /\ k.relay = l.relay
    <3> QED BY <1>5
  <2>3. \A k, l \in e.leases : k.transfer = l.transfer /\ k.relay = l.relay => k = l
    BY <1>1, <1>5, <1>6, <2>2 DEF Committed, Held, Base
  <2>4. \A l \in e.leases :
          /\ l.transfer \in Live(e)
          /\ l.transfer \notin Dead(e) => e.transfer[l.transfer].admission \in {"admitted", "expired"}
          /\ l.session = e.transfer[l.transfer].session
          /\ l.generation = e.transfer[l.transfer].generation
          /\ l.expires = e.transfer[l.transfer].expires
          /\ l.relay \in e.transfer[l.transfer].relays
    <3> TAKE l \in e.leases
    <3>1. CASE l \in N
      BY <1>1, <1>4, <1>5, <2>1, <3>1 DEF Committed
    <3>2. CASE l \in s.leases
      BY <1>1, <1>4, <3>2 DEF Committed, Held, Base
    <3> QED BY <1>1, <3>1, <3>2 DEF Committed
  <2> QED BY <2>3, <2>4 DEF Held
<1>9. Runnable(e)
  BY <1>1, <1>4 DEF Committed, Runnable, Base
<1>10. RegisteredOwners(e)
  BY <1>1, <1>3, <1>4 DEF Committed, RegisteredOwners, OwnersRegistered, Base
<1>11. \A i \in Intents : Owner(e, i) = Owner(s, i)
  BY <1>1 DEF Committed, Owner
<1>12. \A t \in Transfers : Outcome(e, t) = Outcome(s, t)
  BY <1>1, <1>4 DEF Committed, Outcome
<1>13. BoundIntents(e)
  BY <1>1, <1>4, <1>11 DEF Committed, BoundIntents, Base
<1>14. ArchivedOutcomes(e)
  BY <1>1, <1>4, <1>12 DEF Committed, ArchivedOutcomes, Base
<1>15. Keeps(s, e)
  BY <1>11, <1>12, Zenon DEF Keeps, Terminal
<1> QED BY <1>1, <1>4, <1>7, <1>8, <1>9, <1>10, <1>13, <1>14, <1>15 DEF Base, Committed, e

\* The unfinished transfer t may be given the record r.
Rewritable(s, t, r) ==
    /\ t \in Live(s) \ Finished(s)
    /\ r.state \in {"submitted", "running", "complete"}
    /\ r.session = s.transfer[t].session
    /\ r.intent = s.transfer[t].intent
    /\ s.transfer[t].bytes <= r.bytes
    /\ Runs(r)
    /\ t \in Leased(s) => /\ r.admission \in {"admitted", "expired"}
                          /\ r.generation = s.transfer[t].generation
                          /\ r.expires = s.transfer[t].expires
                          /\ r.relays = s.transfer[t].relays

Rewritten(s, e, f) ==
    /\ Base(e) /\ Update(s, e, f, s.intents, s.leases, s.archive, s.archivedIntents)
    /\ Live(e) = Live(s) /\ Dead(e) = Dead(s)
    /\ \A i \in Intents : Owner(e, i) = Owner(s, i)
    /\ \A t \in Transfers : f[t] = s.transfer[t] => Outcome(e, t) = Outcome(s, t)

\* The steps that rewrite records of unfinished transfers.
LEMMA RewriteBase ==
    ASSUME NEW s, Base(s), NEW f \in [Transfers -> TransferRec],
           \A t \in Transfers : f[t] # s.transfer[t] => Rewritable(s, t, f[t])
    PROVE  Rewritten(s, [s EXCEPT !.transfer = f], f)
<1> USE DEF Rewritable
<1> DEFINE e == [s EXCEPT !.transfer = f]
<1>1. Update(s, e, f, s.intents, s.leases, s.archive, s.archivedIntents)
  BY SetTransfer DEF Base
<1> HIDE DEF e
<1>2. Live(e) = Live(s) /\ Dead(e) = Dead(s)
  BY <1>1 DEF Update, Live, Dead, Finished, Terminal
<1>3. \A t \in Transfers : f[t] = s.transfer[t] => Outcome(e, t) = Outcome(s, t)
  BY <1>1, <1>2 DEF Update, Outcome
<1>4. \A i \in Intents : Owner(e, i) = Owner(s, i)
  BY <1>1 DEF Update, Owner
<1>5. \A t \in Transfers : f[t].session = s.transfer[t].session /\ f[t].intent = s.transfer[t].intent
  OBVIOUS
<1>6. Types(e) /\ Shape(e)
  BY <1>1 DEF Update, Types, Base
<1>7. Held(e)
  <2>1. \A l \in s.leases : l.transfer \in Transfers /\ l.transfer \in Leased(s)
    BY DEF Base, Types, LeaseRec, Leased
  <2>2. \A l \in s.leases :
          /\ l.transfer \in Live(e)
          /\ l.transfer \notin Dead(e) => f[l.transfer].admission \in {"admitted", "expired"}
          /\ l.session = f[l.transfer].session
          /\ l.generation = f[l.transfer].generation
          /\ l.expires = f[l.transfer].expires
          /\ l.relay \in f[l.transfer].relays
    <3> TAKE l \in s.leases
    <3>1. CASE f[l.transfer] = s.transfer[l.transfer]
      BY <1>2, <3>1 DEF Held, Base
    <3>2. CASE f[l.transfer] # s.transfer[l.transfer]
      BY <1>2, <2>1, <3>2 DEF Held, Base
    <3> QED BY <3>1, <3>2
  <2> QED BY <1>1, <2>2 DEF Update, Held, Base
<1>8. Runnable(e)
  <2>1. \A t \in Live(s) : t \in Transfers /\ Runs(s.transfer[t])
    BY DEF Base, Runnable, Live
  <2>2. \A t \in Live(s) : Runs(f[t])
    BY <2>1
  <2> QED BY <1>1, <1>2, <2>2 DEF Update, Runnable
<1>9. RegisteredOwners(e)
  <2>1. Live(e) \subseteq Transfers
    BY DEF Live
  <2> QED BY <1>1, <1>2, <1>5, <2>1 DEF Update, RegisteredOwners, OwnersRegistered, Open, Base
<1>10. BoundIntents(e)
  <2>1. Live(s) \subseteq Transfers
    BY DEF Live
  <2> QED BY <1>1, <1>2, <1>4, <1>5, <2>1 DEF Update, BoundIntents, Base
<1>11. ArchivedOutcomes(e)
  <2> SUFFICES ASSUME NEW t \in Transfers
               PROVE  ArchivedAs(e, t)
    BY ArchivedEach
  <2>1. ArchivedAs(s, t)
    BY ArchivedEach DEF Base
  <2>2. CASE f[t] = s.transfer[t]
    BY <1>1, <1>2, <1>3, <2>1, <2>2 DEF Update, ArchivedAs
  <2>3. CASE f[t] # s.transfer[t]
    <3>1. t \in Live(s) /\ t \in Live(e) /\ s.transfer[t].state \notin Terminal
      BY <1>2, <2>3 DEF Finished
    <3>2. /\ Outcome(s, t).state = s.transfer[t].state /\ s.transfer[t].state # "absent"
          /\ Outcome(s, t).bytes = s.transfer[t].bytes
      BY <3>1 DEF Outcome, Live
    <3>3. Outcome(e, t).state = f[t].state /\ Outcome(e, t).bytes = f[t].bytes
      BY <1>1, <3>1 DEF Outcome, Update
    <3>4. s.archive[t].state \notin Terminal
      BY <2>1, <3>1, <3>2 DEF ArchivedAs
    <3>5. /\ s.archive[t].bytes \in Nat /\ f[t].bytes \in Nat /\ s.transfer[t].bytes \in Nat
          /\ s.transfer[t].bytes <= f[t].bytes
      BY <2>3 DEF Base, Types, ArchiveRec, TransferRec
    <3>6. e.issued = s.issued /\ e.archive = s.archive /\ f[t].state # "absent"
      BY <1>1, <2>3 DEF Update
    <3> QED BY <2>1, <3>1, <3>2, <3>3, <3>4, <3>5, <3>6 DEF ArchivedAs
  <2> QED BY <2>2, <2>3
<1> QED BY <1>1, <1>2, <1>3, <1>4, <1>6, <1>7, <1>8, <1>9, <1>10, <1>11 DEF Base, Rewritten, e

\* q is the record r under a new plan.
Replans(q, r, admission, generation, ticket, expires, relays) ==
    /\ q \in TransferRec
    /\ q.state = r.state /\ q.bytes = r.bytes /\ q.session = r.session /\ q.intent = r.intent
    /\ q.admission = admission /\ q.generation = generation /\ q.ticket = ticket
    /\ q.expires = expires /\ q.relays = relays

\* The record of a transfer that was given a new plan.
LEMMA PlannedRec ==
    ASSUME NEW r \in TransferRec, NEW a \in AdmissionStates, NEW m \in Nat, NEW n \in Nat,
           NEW x \in Nat, NEW R \in SUBSET Relays
    PROVE  Replans([r EXCEPT !.admission = a, !.generation = m, !.ticket = n,
                             !.expires = x, !.relays = R], r, a, m, n, x, R)
  BY DEF TransferRec, Replans

\* Promotion keeps the invariant: a delayed transfer has no lease of an older
\* generation, so the new generation, its leases and its ticket agree.
LEMMA PromoteTransfersInv ==
    ASSUME NEW s, Inv(s), now \in Nat, NEW P \in SUBSET DelayedTransfers(s),
           NEW g, \A t \in P : g[t] \in Grants
    PROVE  Inv(PromoteTransfers(s, P, g)) /\ Keeps(s, PromoteTransfers(s, P, g))
<1> DEFINE f == [t \in Transfers |->
                   IF t \in P
                   THEN [s.transfer[t] EXCEPT !.admission = "admitted",
                           !.generation = @ + 1, !.ticket = s.transfer[t].generation + 1,
                           !.expires = PlanExpiry(g[t]),
                           !.relays = {r \in Relays : g[t][r] > 0}]
                   ELSE s.transfer[t]]
           a == [s EXCEPT !.transfer = f]
           e == CommitLeases(a, P, g)
<1>1. PromoteTransfers(s, P, g) = e
  BY Zenon DEF PromoteTransfers
<1>2. P \subseteq Live(s) \ Finished(s) /\ P \subseteq Transfers
      /\ \A t \in P : s.transfer[t].admission = "delayed"
  BY DEF DelayedTransfers, Live
<1>3. P \cap Leased(s) = {}
  <2>1. \A l \in s.leases : s.transfer[l.transfer].admission \in {"admitted", "expired"}
    BY DEF Inv, Base, Held
  <2> QED BY <1>2, <2>1 DEF Leased
<1>4. s.transfer \in [Transfers -> TransferRec]
  BY DEF Inv, Base, Types
<1>5. \A t \in P :
        Replans(f[t], s.transfer[t], "admitted", s.transfer[t].generation + 1,
                s.transfer[t].generation + 1, PlanExpiry(g[t]), {r \in Relays : g[t][r] > 0})
  <2> TAKE t \in P
  <2> DEFINE r0 == s.transfer[t]
             m == s.transfer[t].generation + 1
             x == PlanExpiry(g[t])
             R == {r \in Relays : g[t][r] > 0}
  <2>1. r0 \in TransferRec /\ t \in Transfers
    BY <1>2, <1>4
  <2>2. x \in Nat
    BY ConstantsAssumption DEF PlanExpiry
  <2>3. m \in Nat
    BY <2>1 DEF TransferRec
  <2>4. R \in SUBSET Relays
    OBVIOUS
  <2>5. "admitted" \in AdmissionStates
    BY DEF AdmissionStates
  <2>6. f[t] = [r0 EXCEPT !.admission = "admitted", !.generation = m, !.ticket = m,
                          !.expires = x, !.relays = R]
    BY <2>1, Zenon
  <2> HIDE DEF f, r0, m, x, R
  <2>7. Replans(f[t], r0, "admitted", m, m, x, R)
    <3>1. Replans([r0 EXCEPT !.admission = "admitted", !.generation = m, !.ticket = m,
                             !.expires = x, !.relays = R], r0, "admitted", m, m, x, R)
      BY <2>1, <2>2, <2>3, <2>4, <2>5, PlannedRec, Zenon
    <3> QED BY <2>6, <3>1, Zenon
  <2> QED BY <2>7 DEF r0, m, x, R
<1>6. f \in [Transfers -> TransferRec] /\ \A t \in Transfers : t \notin P => f[t] = s.transfer[t]
  <2>1. \A t \in P : f[t] \in TransferRec
    BY <1>5 DEF Replans
  <2> QED BY <1>4, <2>1
<1> HIDE DEF f
<1>7. \A t \in P : Runs(f[t]) /\ f[t].state = "submitted"
  <2> TAKE t \in P
  <2>1. Runs(s.transfer[t]) /\ s.transfer[t].state \notin Terminal
    BY <1>2 DEF Inv, Base, Runnable, Finished
  <2>2. s.transfer[t].state = "submitted"
    BY <1>2, <2>1 DEF Runs
  <2> QED BY <1>5, <2>2 DEF Runs, Replans
<1>8. /\ Base(a) /\ Update(s, a, f, s.intents, s.leases, s.archive, s.archivedIntents)
      /\ Live(a) = Live(s) /\ Dead(a) = Dead(s)
      /\ \A i \in Intents : Owner(a, i) = Owner(s, i)
      /\ \A t \in Transfers : f[t] = s.transfer[t] => Outcome(a, t) = Outcome(s, t)
  <2>0. \A t \in Transfers : s.transfer[t].bytes \in Nat
    BY DEF Inv, Base, Types, TransferRec
  <2>1. \A t \in Transfers : f[t] # s.transfer[t] => Rewritable(s, t, f[t])
    BY <1>2, <1>3, <1>5, <1>6, <1>7, <2>0 DEF Replans, Rewritable
  <2>2. Rewritten(s, a, f)
    BY <1>6, <2>1, RewriteBase DEF Inv
  <2> QED BY <2>2 DEF Rewritten
<1> HIDE DEF a
<1>9. Keeps(s, a)
  <2>1. \A t \in Transfers : Outcome(a, t) = Outcome(s, t)
    <3> TAKE t \in Transfers
    <3>1. CASE t \in P
      <4>1. Outcome(s, t) = [state |-> s.transfer[t].state, bytes |-> s.transfer[t].bytes]
        BY <1>2, <3>1 DEF Outcome
      <4>2. Outcome(a, t) = [state |-> f[t].state, bytes |-> f[t].bytes]
        BY <1>2, <1>8, <3>1 DEF Outcome, Update
      <4> QED BY <1>5, <3>1, <4>1, <4>2 DEF Replans
    <3>2. CASE t \notin P
      BY <1>6, <1>8, <3>2
    <3> QED BY <3>1, <3>2
  <2> QED BY <1>8, <2>1, Zenon DEF Keeps, Terminal
<1>10. Planned(a, P, g)
  <2>1. \A t \in P : \A r \in Relays : g[t][r] > 0 => PlanExpiry(g[t]) = now + LeaseSeconds
    BY DEF PlanExpiry, HoldsLease
  <2>2. a.transfer = f
    BY <1>8 DEF Update
  <2> QED BY <1>5, <1>8, <2>1, <2>2 DEF Planned, Inv, Replans
<1>11. P \subseteq Live(a) /\ P \cap Leased(a) = {}
  BY <1>2, <1>3, <1>8 DEF Update, Leased
<1>12. Base(e) /\ Keeps(a, e) /\ Dead(e) = Dead(a)
  BY <1>8, <1>10, <1>11, CommitLeasesBase
<1> HIDE DEF e
<1> QED BY <1>1, <1>8, <1>9, <1>12, KeepsTransitive DEF Inv

\* Every outcome of _promote_delayed_transfers_locked satisfies the invariant.
LEMMA PromoteDelayedInv ==
    ASSUME NEW s, Inv(s), now \in Nat, NEW e \in PromoteDelayed(s)
    PROVE  Inv(e) /\ Keeps(s, e)
<1>1. CASE e = s
  BY <1>1, KeepsReflexive
<1>2. CASE e # s
  <2>1. PICK P \in SUBSET DelayedTransfers(s) :
          e \in {PromoteTransfers(s, P, g) : g \in PromotionGrants(s, P)}
    BY <1>2 DEF PromoteDelayed
  <2>2. PICK g \in PromotionGrants(s, P) : e = PromoteTransfers(s, P, g)
    BY <2>1
  <2>3. \A t \in P : g[t] \in Grants
    BY DEF PromotionGrants
  <2> QED BY <2>2, <2>3, PromoteTransfersInv
<1> QED BY <1>1, <1>2

\* Between handlers, releasing leases keeps the invariant.
LEMMA ReleaseLeasesInv ==
    ASSUME NEW s, Inv(s), NEW L, NEW final \in {"failed", "canceled"}
    PROVE  Inv(ReleaseLeases(s, L, final)) /\ Keeps(s, ReleaseLeases(s, L, final))
  BY ReleaseLeasesBase, ShrinksKeeps DEF Inv

\* _refresh_admission_state_locked keeps the invariant.
LEMMA RefreshInv ==
    ASSUME NEW s, Inv(s), now \in Nat, NEW e \in RefreshAdmission(s)
    PROVE  Inv(e) /\ Keeps(s, e)
<1> DEFINE a == ReapExpiredLeases(s)
<1>1. Inv(a) /\ Keeps(s, a)
  BY ReleaseLeasesInv, KeepsReflexive DEF ReapExpiredLeases
<1>2. e \in PromoteDelayed(a)
  BY DEF RefreshAdmission
<1> HIDE DEF a
<1> QED BY <1>1, <1>2, PromoteDelayedInv, KeepsTransitive

\* _reap_stale_sessions_locked keeps the invariant.
LEMMA ReapStaleInv ==
    ASSUME NEW s, Inv(s)
    PROVE  Inv(ReapStaleSessions(s)) /\ Keeps(s, ReapStaleSessions(s))
  BY CloseSessionsInv, KeepsReflexive DEF ReapStaleSessions

-----------------------------------------------------------------------------
\* Accepting an intent.
AcceptsIntent(s, e, i, t) ==
    /\ Owner(s, i) = None /\ Outcome(s, t).state = "absent"
    /\ Owner(e, i) = t /\ Outcome(e, t).state = "submitted"
    /\ \A k \in Intents \ {i} : Owner(e, k) = Owner(s, k)
    /\ \A u \in Transfers \ {t} : Outcome(e, u) = Outcome(s, u)

\* e is s with a transfer, its intent and its id added.
RegisteredAs(s, e, issued, transfer, intents) ==
    /\ Shape(e) /\ e.issued = issued /\ e.transfer = transfer /\ e.intents = intents
    /\ e.session = s.session /\ e.attached = s.attached /\ e.jobs = s.jobs
    /\ e.buffers = s.buffers /\ e.leases = s.leases
    /\ e.archive = s.archive /\ e.archivedIntents = s.archivedIntents

\* Registering a transfer writes the transfer, its intent and the issued ids.
LEMMA SetRegistered ==
    ASSUME NEW s, Shape(s), NEW I, NEW i, NEW t, NEW r
    PROVE  RegisteredAs(s, [s EXCEPT !.issued = I, !.intents[i] = t, !.transfer[t] = r],
                      I, [s.transfer EXCEPT ![t] = r], [s.intents EXCEPT ![i] = t])
  BY DEF Shape, Fields, RegisteredAs

\* Accepting an intent keeps the invariant and binds it to the new transfer.
LEMMA RegisterTransferInv ==
    ASSUME NEW s, Inv(s), now \in Nat, NEW t \in Transfers, t \notin s.issued,
           NEW i \in Intents, Owner(s, i) = None, NEW x \in SessionIds,
           OwnersRegistered(s, i, x), NEW g \in Grants, NEW admission \in {"admitted", "delayed"}
    PROVE  LET e == RegisterTransfer(s, t, i, x, g, admission)
           IN Inv(e) /\ AcceptsIntent(s, e, i, t)
<1> DEFINE r0 == [state |-> "submitted", bytes |-> 0, session |-> x, intent |-> i,
                  admission |-> admission, generation |-> 1, expires |-> PlanExpiry(g),
                  relays |-> {r \in Relays : g[r] > 0}, queued |-> TRUE,
                  ticket |-> IF admission = "admitted" THEN 1 ELSE 0]
           h == [u \in {t} |-> IF admission = "admitted" THEN g ELSE [r \in Relays |-> 0]]
           I == s.issued \cup {t}
           a == [s EXCEPT !.issued = I, !.intents[i] = t, !.transfer[t] = r0]
           e == CommitLeases(a, {t}, h)
<1>1. RegisterTransfer(s, t, i, x, g, admission) = e
  BY Zenon DEF RegisterTransfer
<1>2. /\ r0 \in TransferRec /\ r0.state = "submitted" /\ r0.session = x /\ r0.intent = i
      /\ r0.admission = admission /\ r0.expires = PlanExpiry(g)
      /\ r0.relays = {r \in Relays : g[r] > 0} /\ Runs(r0)
  <2>1. PlanExpiry(g) \in Nat /\ admission \in AdmissionStates
    BY ConstantsAssumption DEF PlanExpiry, AdmissionStates
  <2>2. r0 \in TransferRec
    BY <2>1, ConstantsAssumption DEF TransferRec, States
  <2> QED BY <2>2 DEF Runs
<1> HIDE DEF r0, I
<1>3. RegisteredAs(s, a, I, [s.transfer EXCEPT ![t] = r0], [s.intents EXCEPT ![i] = t])
  BY SetRegistered, Zenon DEF Inv, Base
<1> HIDE DEF a
<1>4. /\ s.transfer \in [Transfers -> TransferRec]
      /\ s.intents \in [Intents -> Transfers \cup {None}]
  BY DEF Inv, Base, Types
<1>5. /\ a.transfer \in [Transfers -> TransferRec]
      /\ a.transfer[t] = r0 /\ \A u \in Transfers \ {t} : a.transfer[u] = s.transfer[u]
      /\ a.intents \in [Intents -> Transfers \cup {None}]
      /\ a.intents[i] = t /\ \A k \in Intents \ {i} : a.intents[k] = s.intents[k]
  BY <1>2, <1>3, <1>4 DEF RegisteredAs
<1>6. t \notin Live(s) /\ t # None /\ Outcome(s, t).state = "absent"
  BY ConstantsAssumption DEF Inv, Base, BoundIntents, ArchivedOutcomes
<1>7. Live(a) = Live(s) \cup {t} /\ Dead(a) = Dead(s)
  <2>1. t \notin Dead(s)
    BY <1>6 DEF Dead, Live
  <2> QED BY <1>2, <1>5, <2>1 DEF Live, Dead
<1>8. \A u \in Transfers \ {t} : Outcome(a, u) = Outcome(s, u)
  BY <1>3, <1>5, <1>7 DEF Outcome, RegisteredAs
<1>9. Outcome(a, t).state = "submitted"
  BY <1>2, <1>5, <1>7 DEF Outcome
<1>10. /\ s.intents[i] = None /\ s.archivedIntents[i] = None
       /\ Owner(a, i) = t
       /\ \A k \in Intents \ {i} : Owner(a, k) = Owner(s, k)
  <2>1. s.intents[i] = None /\ s.archivedIntents[i] = None
    BY DEF Owner
  <2>2. Owner(a, i) = t
    BY <1>5, <1>6 DEF Owner
  <2>3. \A k \in Intents \ {i} : Owner(a, k) = Owner(s, k)
    BY <1>3, <1>5 DEF Owner, RegisteredAs
  <2> QED BY <2>1, <2>2, <2>3
<1>11. Types(a) /\ Shape(a)
  <2>1. I \in SUBSET Transfers
    BY DEF I, Inv, Base, Types
  <2> QED BY <1>3, <1>5, <2>1 DEF RegisteredAs, Types, Inv, Base
<1>12. Held(a)
  <2>1. \A l \in s.leases : l.transfer \in Live(s) /\ l.transfer \in Transfers \ {t}
    BY <1>6 DEF Inv, Base, Held, Live
  <2>2. \A l \in s.leases : a.transfer[l.transfer] = s.transfer[l.transfer]
    BY <1>5, <2>1
  <2> QED BY <1>3, <1>7, <2>1, <2>2 DEF RegisteredAs, Held, Inv, Base
<1>13. Runnable(a)
  <2>1. \A u \in Live(s) : a.transfer[u] = s.transfer[u]
    BY <1>5, <1>6 DEF Live
  <2> QED BY <1>2, <1>5, <1>7, <2>1 DEF Runnable, Inv, Base
<1>14. RegisteredOwners(a)
  <2>1. \A u \in Live(s) : a.transfer[u] = s.transfer[u]
    BY <1>5, <1>6 DEF Live
  <2>2. Open(a) = Open(s) /\ a.jobs = s.jobs /\ a.buffers = s.buffers
    BY <1>3 DEF RegisteredAs, Open
  <2> QED BY <1>2, <1>5, <1>7, <2>1, <2>2 DEF RegisteredOwners, OwnersRegistered, Inv, Base
<1>15. BoundIntents(a)
  <2>1. a.issued = s.issued \cup {t}
    BY <1>3 DEF RegisteredAs, I
  <2>2. \A u \in Live(s) : a.transfer[u] = s.transfer[u] /\ u \in s.issued /\ u # t
                           /\ s.transfer[u].intent \in Intents
                           /\ s.intents[s.transfer[u].intent] = u
    BY <1>5, <1>6 DEF Live, Inv, Base, BoundIntents, RegisteredOwners
  <2>3. \A u \in Live(a) : u \in a.issued /\ a.intents[a.transfer[u].intent] = u
    <3> TAKE u \in Live(a)
    <3>1. CASE u = t
      BY <1>2, <1>5, <2>1, <3>1
    <3>2. CASE u \in Live(s)
      <4>1. s.transfer[u].intent # i
        BY <1>10, <2>2, <3>2, ConstantsAssumption DEF Live
      <4> QED BY <1>5, <2>1, <2>2, <3>2, <4>1
    <3> QED BY <1>7, <3>1, <3>2
  <2>4. \A k \in Intents : a.intents[k] # None =>
            a.intents[k] \in Live(a) /\ a.transfer[a.intents[k]].intent = k
    <3> TAKE k \in Intents
    <3>1. CASE k = i
      BY <1>2, <1>5, <1>7, <3>1
    <3>2. CASE k # i
      BY <1>5, <1>7, <2>2, <3>2 DEF Inv, Base, BoundIntents
    <3> QED BY <3>1, <3>2
  <2>5. \A k \in Intents : s.archivedIntents[k] # None =>
            s.archivedIntents[k] \in s.issued /\ s.archivedIntents[k] = Owner(s, k)
    BY DEF Inv, Base, BoundIntents
  <2>6. \A k \in Intents : a.archivedIntents[k] # None =>
            a.archivedIntents[k] \in a.issued /\ a.archivedIntents[k] = Owner(a, k)
    BY <1>3, <1>10, <2>1, <2>5 DEF RegisteredAs
  <2>7. \A k \in Intents : Owner(s, k) # t
    <3> TAKE k \in Intents
    <3>1. s.intents[k] # t
      BY <1>6 DEF Inv, Base, BoundIntents
    <3>2. s.archivedIntents[k] # t
      BY <1>6, <2>5
    <3> QED BY <3>1, <3>2 DEF Owner
  <2>8. \A k, m \in Intents : Owner(s, k) # None /\ Owner(s, k) = Owner(s, m) => k = m
    BY DEF Inv, Base, BoundIntents
  <2>9. \A k, m \in Intents : Owner(a, k) # None /\ Owner(a, k) = Owner(a, m) => k = m
    BY <1>10, <2>7, <2>8
  <2> QED BY <2>3, <2>4, <2>6, <2>9 DEF BoundIntents
<1>16. ArchivedOutcomes(a)
  <2> SUFFICES ASSUME NEW u \in Transfers
               PROVE  ArchivedAs(a, u)
    BY ArchivedEach
  <2>1. ArchivedAs(s, u)
    BY ArchivedEach DEF Inv, Base
  <2>2. CASE u = t
    <3>1. s.archive[t].state = "absent"
      BY <1>6 DEF Outcome
    <3> QED BY <1>3, <1>7, <1>9, <2>2, <3>1 DEF RegisteredAs, I, ArchivedAs, Terminal
  <2>3. CASE u # t
    BY <1>3, <1>5, <1>7, <1>8, <2>1, <2>3 DEF RegisteredAs, I, ArchivedAs
  <2> QED BY <2>2, <2>3
<1>17. Base(a)
  BY <1>11, <1>12, <1>13, <1>14, <1>15, <1>16 DEF Base
<1>18. {t} \subseteq Live(a) /\ {t} \cap Leased(a) = {}
  <2>1. t \notin Leased(s)
    BY <1>6 DEF Leased, Inv, Base, Held
  <2> QED BY <1>3, <1>7, <2>1 DEF RegisteredAs, Leased
<1>19. \A u \in {t} : h[u] \in Grants
  BY ConstantsAssumption DEF Grants
<1>20. Planned(a, {t}, h)
  <2> SUFFICES ASSUME NEW r \in Relays, h[t][r] > 0
               PROVE  /\ t \notin Dead(a)
                      /\ a.transfer[t].admission = "admitted"
                      /\ a.transfer[t].expires = now + LeaseSeconds
                      /\ r \in a.transfer[t].relays
    BY DEF Planned
  <2>1. admission = "admitted" /\ h[t] = g
    OBVIOUS
  <2>2. PlanExpiry(g) = now + LeaseSeconds
    BY <2>1 DEF PlanExpiry, HoldsLease
  <2>3. t \notin Dead(a)
    BY <1>7 DEF Inv
  <2> QED BY <1>2, <1>5, <2>1, <2>2, <2>3
<1> HIDE DEF h
<1>21. Base(e) /\ Keeps(a, e) /\ e.transfer = a.transfer /\ Dead(e) = Dead(a)
  BY <1>17, <1>18, <1>19, <1>20, CommitLeasesBase
<1>22. e.archive = a.archive /\ e.intents = a.intents /\ e.archivedIntents = a.archivedIntents
  BY <1>11, CommitLeasesFields DEF Committed
<1> HIDE DEF e
<1>23. /\ \A u \in Transfers : Outcome(e, u) = Outcome(a, u)
       /\ \A k \in Intents : Owner(e, k) = Owner(a, k)
  BY <1>21, <1>22 DEF Outcome, Owner, Live
<1>24. AcceptsIntent(s, e, i, t)
  BY <1>6, <1>8, <1>9, <1>10, <1>23 DEF AcceptsIntent
<1>25. Inv(e)
  BY <1>7, <1>21 DEF Inv
<1> QED BY <1>1, <1>24, <1>25

-----------------------------------------------------------------------------
\* The report of a completion.
Completes(s, e, t) ==
    /\ Outcome(s, t).state \notin Terminal \cup {"absent"}
    /\ Outcome(e, t) = [state |-> "complete", bytes |-> TotalBytes]
    /\ \A i \in Intents : Owner(e, i) = Owner(s, i)
    /\ \A u \in Transfers \ {t} : Outcome(e, u) = Outcome(s, u)

\* Registering a session writes the session and the relays it attaches to.
LEMMA SetSession ==
    ASSUME NEW s, Shape(s), NEW x, NEW r, NEW h
    PROVE  Reowned(s, [s EXCEPT !.session[x] = r, !.attached = h],
                   [s.session EXCEPT ![x] = r], h, s.jobs, s.buffers)
  BY DEF Shape, Fields, Reowned

\* register_session keeps the invariant.
LEMMA RegisterSessionInv ==
    ASSUME Inv(d), now \in Nat, NEW x \in SessionIds, NEW capable \in BOOLEAN,
           RegisterSession(x, capable)
    PROVE  Inv(d') /\ Keeps(d, d')
<1>1. Inv(ReapStaleSessions(d)) /\ Keeps(d, ReapStaleSessions(d))
  BY ReapStaleInv
<1>2. PICK s \in RefreshAdmission(ReapStaleSessions(d)) :
        d' = [s EXCEPT
               !.session[x] = [state |-> "open", capable |-> capable, seen |-> now],
               !.attached = [r \in Relays |->
                   IF capable THEN s.attached[r] \cup {x} ELSE s.attached[r]]]
  BY Zenon DEF RegisterSession
<1>3. Inv(s) /\ Keeps(d, s)
  BY <1>1, <1>2, RefreshInv, KeepsTransitive
<1> DEFINE r0 == [state |-> "open", capable |-> capable, seen |-> now]
           h == [r \in Relays |-> IF capable THEN s.attached[r] \cup {x} ELSE s.attached[r]]
           f == [s.session EXCEPT ![x] = r0]
           e == d'
<1>4. r0 \in SessionRec /\ r0.state = "open"
  BY DEF SessionRec
<1>5. h \in [Relays -> SUBSET SessionIds] /\ s.session \in [SessionIds -> SessionRec]
      /\ s.jobs \in [Jobs -> SessionIds \cup {None}] /\ s.buffers \in [Buffers -> Jobs \cup {None}]
  BY <1>3 DEF Inv, Base, Types
<1>6. e = [s EXCEPT !.session[x] = r0, !.attached = h]
  BY <1>2, Zenon
<1> HIDE DEF e, h, r0
<1>7. f \in [SessionIds -> SessionRec] /\ f[x].state = "open"
      /\ \A y \in SessionIds \ {x} : f[y] = s.session[y]
  BY <1>4, <1>5
<1> HIDE DEF f
<1>8. Reowned(s, e, f, h, s.jobs, s.buffers)
  BY <1>3, <1>6, SetSession, Zenon DEF Inv, Base, f
<1>9. RegisteredOwners(e)
  <2>1. Live(e) = Live(s) /\ Open(s) \subseteq Open(e)
    BY <1>7, <1>8 DEF Reowned, Live, Open
  <2> QED BY <1>3, <1>8, <2>1 DEF Reowned, RegisteredOwners, OwnersRegistered, Inv, Base
<1>10. Base(e) /\ Dead(e) = Dead(s) /\ Keeps(s, e)
  BY <1>3, <1>5, <1>7, <1>8, <1>9, SameTransfersBase DEF Reowned, Inv
<1> QED BY <1>3, <1>10, KeepsTransitive DEF Inv, e

\* Registering a job writes only the job.
LEMMA SetJob ==
    ASSUME NEW s, Shape(s), NEW j, NEW x
    PROVE  Reowned(s, [s EXCEPT !.jobs[j] = x],
                   s.session, s.attached, [s.jobs EXCEPT ![j] = x], s.buffers)
  BY DEF Shape, Fields, Reowned

\* register_job keeps the invariant: a job that is on file stays with its session.
LEMMA RegisterJobInv ==
    ASSUME Inv(d), NEW j \in Jobs, NEW x \in SessionIds, RegisterJob(j, x)
    PROVE  Inv(d') /\ Keeps(d, d')
<1> DEFINE e == d'
           f == [d.jobs EXCEPT ![j] = x]
<1>1. Reowned(d, e, d.session, d.attached, f, d.buffers) /\ d.jobs[j] \in {None, x}
  BY SetJob DEF RegisterJob, Inv, Base
<1>2. /\ d.session \in [SessionIds -> SessionRec] /\ d.attached \in [Relays -> SUBSET SessionIds]
      /\ d.jobs \in [Jobs -> SessionIds \cup {None}] /\ d.buffers \in [Buffers -> Jobs \cup {None}]
  BY DEF Inv, Base, Types
<1>3. f \in [Jobs -> SessionIds \cup {None}]
      /\ \A k \in Jobs : d.jobs[k] # None => f[k] = d.jobs[k]
  BY <1>1, <1>2
<1> HIDE DEF e, f
<1>4. RegisteredOwners(e)
  <2>1. Live(e) = Live(d) /\ Open(e) = Open(d)
    BY <1>1 DEF Reowned, Live, Open
  <2> SUFFICES ASSUME NEW t \in Live(d)
               PROVE  /\ d.transfer[t].intent \in Intents
                      /\ OwnersRegistered(e, d.transfer[t].intent, d.transfer[t].session)
    BY <1>1, <2>1 DEF RegisteredOwners, Reowned
  <2>2. /\ d.transfer[t].intent \in Intents
        /\ OwnersRegistered(d, d.transfer[t].intent, d.transfer[t].session)
    BY DEF Inv, Base, RegisteredOwners
  <2>3. IntentJob[d.transfer[t].intent] \in Jobs /\ d.transfer[t].session # None
    BY <2>2, ConstantsAssumption DEF OwnersRegistered, Open
  <2> QED BY <1>1, <1>3, <2>1, <2>2, <2>3 DEF OwnersRegistered, Reowned
<1>5. Base(e) /\ Dead(e) = Dead(d) /\ Keeps(d, e)
  BY <1>1, <1>2, <1>3, <1>4, SameTransfersBase DEF Reowned, Inv
<1> QED BY <1>5 DEF Inv, e

\* Registering a buffer writes only the buffer.
LEMMA SetBuffer ==
    ASSUME NEW s, Shape(s), NEW b, NEW j
    PROVE  Reowned(s, [s EXCEPT !.buffers[b] = j],
                   s.session, s.attached, s.jobs, [s.buffers EXCEPT ![b] = j])
  BY DEF Shape, Fields, Reowned

\* register_buffer keeps the invariant: only an unknown buffer is bound.
LEMMA RegisterBufferInv ==
    ASSUME Inv(d), now \in Nat, NEW b \in Buffers, NEW j \in Jobs, RegisterBuffer(b, j)
    PROVE  Inv(d') /\ Keeps(d, d')
<1>1. Inv(ReapStaleSessions(d)) /\ Keeps(d, ReapStaleSessions(d))
  BY ReapStaleInv
<1>2. PICK s \in RefreshAdmission(ReapStaleSessions(d)) :
        /\ s.buffers[b] = None
        /\ d' = [s EXCEPT !.buffers[b] = j]
  BY Zenon DEF RegisterBuffer
<1>3. Inv(s) /\ Keeps(d, s)
  BY <1>1, <1>2, RefreshInv, KeepsTransitive
<1> DEFINE e == d'
           f == [s.buffers EXCEPT ![b] = j]
<1>4. Reowned(s, e, s.session, s.attached, s.jobs, f)
  BY <1>2, <1>3, SetBuffer DEF Inv, Base
<1>5. /\ s.session \in [SessionIds -> SessionRec] /\ s.attached \in [Relays -> SUBSET SessionIds]
      /\ s.jobs \in [Jobs -> SessionIds \cup {None}] /\ s.buffers \in [Buffers -> Jobs \cup {None}]
  BY <1>3 DEF Inv, Base, Types
<1>6. f \in [Buffers -> Jobs \cup {None}] /\ \A k \in Buffers : s.buffers[k] # None => f[k] = s.buffers[k]
  BY <1>2, <1>5
<1> HIDE DEF e, f
<1>7. RegisteredOwners(e)
  <2>1. Live(e) = Live(s) /\ Open(e) = Open(s)
    BY <1>4 DEF Reowned, Live, Open
  <2> SUFFICES ASSUME NEW t \in Live(s)
               PROVE  /\ s.transfer[t].intent \in Intents
                      /\ OwnersRegistered(e, s.transfer[t].intent, s.transfer[t].session)
    BY <1>4, <2>1 DEF RegisteredOwners, Reowned
  <2>2. /\ s.transfer[t].intent \in Intents
        /\ OwnersRegistered(s, s.transfer[t].intent, s.transfer[t].session)
    BY <1>3 DEF Inv, Base, RegisteredOwners
  <2>3. /\ IntentJob[s.transfer[t].intent] # None
        /\ IntentBuffers[s.transfer[t].intent] \subseteq Buffers
    BY <2>2, ConstantsAssumption
  <2> QED BY <1>4, <1>6, <2>1, <2>2, <2>3 DEF OwnersRegistered, Reowned
<1>8. Base(e) /\ Dead(e) = Dead(s) /\ Keeps(s, e)
  BY <1>3, <1>4, <1>5, <1>6, <1>7, SameTransfersBase DEF Reowned, Inv
<1> QED BY <1>3, <1>8, KeepsTransitive DEF Inv, e

\* An intent that is only archived has ended: no transfer that may still run is
\* archived and forgotten, so an intent without a terminal receipt is new.
LEMMA IntentIsNew ==
    ASSUME NEW s, Inv(s), NEW i \in Intents, s.intents[i] = None, ~HasTerminalReceipt(s, i)
    PROVE  Owner(s, i) = None
<1> SUFFICES ASSUME s.archivedIntents[i] # None
             PROVE  FALSE
  BY DEF Owner
<1> DEFINE t == s.archivedIntents[i]
<1>1. t \in s.issued /\ t = Owner(s, i) /\ t \in Transfers
  BY DEF Inv, Base, BoundIntents, Types
<1>2. t \notin Live(s)
  <2> SUFFICES ASSUME t \in Live(s)
               PROVE  FALSE
    OBVIOUS
  <2> DEFINE k == s.transfer[t].intent
  <2>1. k \in Intents /\ s.intents[k] = t
    BY DEF Inv, Base, BoundIntents, RegisteredOwners
  <2>2. Owner(s, k) = t
    BY <2>1 DEF Owner
  <2>3. k = i
    BY <1>1, <2>1, <2>2, Zenon DEF Inv, Base, BoundIntents
  <2> QED BY <2>1, <2>3
<1>3. ArchivedAs(s, t)
  BY <1>1, ArchivedEach DEF Inv, Base
<1> QED BY <1>1, <1>2, <1>3 DEF ArchivedAs, Outcome, HasTerminalReceipt

\* submit_transfer_intent of a new intent accepts it, after a refresh that
\* keeps the receipts.
LEMMA SubmitInv ==
    ASSUME Inv(d), now \in Nat, NEW i \in Intents, NEW x \in SessionIds, NEW t \in Transfers,
           SubmitTransferIntent(i, x, t)
    PROVE  Inv(d') /\ \E m : Keeps(d, m) /\ AcceptsIntent(m, d', i, t)
<1>1. Inv(ReapStaleSessions(d)) /\ Keeps(d, ReapStaleSessions(d))
  BY ReapStaleInv
<1>2. PICK s \in RefreshAdmission(ReapStaleSessions(d)) :
        /\ OwnersRegistered(s, i, x)
        /\ \E g \in Decisions(s, x), admission \in {"admitted", "delayed"} :
             d' = RegisterTransfer(s, t, i, x, g, admission)
  BY Zenon DEF SubmitTransferIntent
<1>3. Inv(s) /\ Keeps(d, s)
  BY <1>1, <1>2, RefreshInv, KeepsTransitive
<1>4. PICK g \in Decisions(s, x), admission \in {"admitted", "delayed"} :
        d' = RegisterTransfer(s, t, i, x, g, admission)
  BY <1>2
<1>5. g \in Grants
  BY DEF Decisions
<1>6. Owner(s, i) = None
  <2>1. Owner(d, i) = None
    BY IntentIsNew DEF SubmitTransferIntent
  <2> QED BY <1>3, <2>1 DEF Keeps
<1>7. t \notin s.issued
  <2>1. t \notin d.issued
    BY DEF SubmitTransferIntent
  <2> QED BY <1>3, <2>1 DEF Keeps, Inv, Base, ArchivedOutcomes
<1>8. Inv(d') /\ AcceptsIntent(s, d', i, t)
  BY <1>2, <1>3, <1>4, <1>5, <1>6, <1>7, RegisterTransferInv
<1> QED BY <1>3, <1>8

Rewrote(s, e, t, r) ==
    /\ Inv(e) /\ e.leases = s.leases /\ Live(e) = Live(s)
    /\ e.transfer = [s.transfer EXCEPT ![t] = r]
    /\ \A i \in Intents : Owner(e, i) = Owner(s, i)
    /\ \A u \in Transfers \ {t} : Outcome(e, u) = Outcome(s, u)
    /\ Outcome(e, t) = [state |-> r.state, bytes |-> r.bytes]

\* One unfinished transfer is given the record r.
LEMMA RewriteOne ==
    ASSUME NEW s, Inv(s), NEW t, NEW r \in TransferRec, Rewritable(s, t, r)
    PROVE  Rewrote(s, [s EXCEPT !.transfer[t] = r], t, r)
<1> DEFINE f == [s.transfer EXCEPT ![t] = r]
           e == [s EXCEPT !.transfer = f]
<1>1. t \in Live(s) /\ t \in Transfers /\ s.transfer \in [Transfers -> TransferRec]
  BY DEF Live, Inv, Base, Types, Rewritable
<1>2. f \in [Transfers -> TransferRec] /\ f[t] = r /\ \A u \in Transfers \ {t} : f[u] = s.transfer[u]
  BY <1>1
<1>3. [s EXCEPT !.transfer[t] = r] = e
  BY Zenon
<1> HIDE DEF f
<1>4. \A u \in Transfers : f[u] # s.transfer[u] => Rewritable(s, u, f[u])
  BY <1>2
<1>5. Rewritten(s, e, f)
  BY <1>2, <1>4, RewriteBase DEF Inv
<1> HIDE DEF e
<1>6. e.transfer = f /\ e.leases = s.leases /\ Live(e) = Live(s)
  BY <1>5 DEF Rewritten, Update
<1>7. Outcome(e, t) = [state |-> r.state, bytes |-> r.bytes]
  BY <1>1, <1>2, <1>6 DEF Outcome
<1>8. Inv(e)
  BY <1>5 DEF Rewritten, Inv
<1>9. /\ \A i \in Intents : Owner(e, i) = Owner(s, i)
      /\ \A u \in Transfers \ {t} : Outcome(e, u) = Outcome(s, u)
  BY <1>2, <1>5 DEF Rewritten
<1> QED BY <1>3, <1>6, <1>7, <1>8, <1>9 DEF Rewrote, f

\* A rewriting that leaves the transfer unfinished.
LEMMA RewriteKeeps ==
    ASSUME NEW s, NEW e, NEW t, NEW r, Rewrote(s, e, t, r),
           r.state \in {"submitted", "running"},
           Outcome(s, t).state \notin Terminal \cup {"absent"}
    PROVE  Inv(e) /\ Keeps(s, e)
<1>1. Outcome(e, t).state \notin Terminal \cup {"absent"}
  BY DEF Terminal, Rewrote
<1> QED BY <1>1 DEF Keeps, Terminal, Rewrote

\* Issuing a ticket changes nothing else of the record.
LEMMA TicketRec ==
    ASSUME NEW r \in TransferRec, NEW n \in Nat
    PROVE  /\ [r EXCEPT !.ticket = n] \in TransferRec
           /\ [r EXCEPT !.ticket = n].ticket = n
           /\ \A x \in {"state", "bytes", "session", "intent", "admission", "generation",
                        "expires", "relays", "queued"} : [r EXCEPT !.ticket = n][x] = r[x]
  BY DEF TransferRec

\* An unfinished transfer is submitted or running.
LEMMA UnfinishedState ==
    ASSUME NEW s, Inv(s), NEW t \in Live(s) \ Finished(s)
    PROVE  /\ t \in Transfers /\ s.transfer[t] \in TransferRec /\ Runs(s.transfer[t])
           /\ s.transfer[t].state \in {"submitted", "running"}
           /\ s.transfer[t].bytes \in 0..TotalBytes
           /\ s.transfer[t].admission \in {"admitted", "expired", "delayed"}
           /\ s.transfer[t].admission # "delayed" => s.transfer[t].ticket = s.transfer[t].generation
           /\ t \in Leased(s) => s.transfer[t].admission # "delayed"
           /\ Outcome(s, t).state = s.transfer[t].state
<1>1. t \in Transfers /\ s.transfer[t] \in TransferRec /\ Runs(s.transfer[t])
  BY DEF Live, Inv, Base, Types, Runnable
<1>2. s.transfer[t].state \notin Terminal
  BY DEF Finished
<1>3. t \in Leased(s) => s.transfer[t].admission # "delayed"
  BY DEF Leased, Inv, Base, Held
<1>4. Outcome(s, t).state = s.transfer[t].state
  BY DEF Outcome
<1>5. s.transfer[t].bytes \in 0..TotalBytes
  BY <1>1 DEF TransferRec
<1> QED BY <1>1, <1>2, <1>3, <1>4, <1>5 DEF Runs

\* Issuing the ticket of an admitted transfer again keeps the invariant.
LEMMA ReissueInv ==
    ASSUME NEW s, Inv(s), NEW t \in Transfers, t \notin Finished(s)
    PROVE  Inv(ReissueTicket(s, t)) /\ Keeps(s, ReissueTicket(s, t))
<1>1. CASE s.transfer[t].admission # "admitted"
  BY <1>1, KeepsReflexive DEF ReissueTicket
<1>2. CASE s.transfer[t].admission = "admitted"
  <2>0. t \in Live(s) \ Finished(s)
    BY <1>2 DEF Inv, Base, ArchivedOutcomes, NoTransfer
  <2> DEFINE r == [s.transfer[t] EXCEPT !.ticket = s.transfer[t].generation]
             e == ReissueTicket(s, t)
  <2>1. /\ s.transfer[t] \in TransferRec /\ s.transfer[t].generation \in Nat
        /\ s.transfer[t].bytes <= s.transfer[t].bytes
    BY <2>0, UnfinishedState, ConstantsAssumption DEF TransferRec
  <2>2. /\ r \in TransferRec /\ r.ticket = s.transfer[t].generation
        /\ r.bytes = s.transfer[t].bytes
        /\ r.state = s.transfer[t].state /\ r.session = s.transfer[t].session
        /\ r.intent = s.transfer[t].intent /\ r.admission = s.transfer[t].admission
        /\ r.generation = s.transfer[t].generation /\ r.expires = s.transfer[t].expires
        /\ r.relays = s.transfer[t].relays
    BY <2>1, TicketRec
  <2>3. e = [s EXCEPT !.transfer[t] = r]
    BY <1>2, Zenon DEF ReissueTicket
  <2> HIDE DEF r, e
  <2>4. Rewritable(s, t, r) /\ r.state \in {"submitted", "running"}
    BY <1>2, <2>0, <2>1, <2>2, UnfinishedState DEF Runs, Rewritable
  <2>5. Rewrote(s, e, t, r)
    BY <2>2, <2>3, <2>4, RewriteOne
  <2>6. Outcome(s, t).state \notin Terminal \cup {"absent"}
    BY <2>0, UnfinishedState DEF Terminal
  <2> QED BY <2>4, <2>5, <2>6, RewriteKeeps DEF e
<1> QED BY <1>1, <1>2

\* A retried submit_transfer_intent keeps the invariant and every receipt.
LEMMA ResubmitInv ==
    ASSUME Inv(d), now \in Nat, NEW i \in Intents, NEW x \in SessionIds,
           ResubmitTransferIntent(i, x)
    PROVE  Inv(d') /\ Keeps(d, d')
<1> DEFINE t == d.intents[i]
<1>1. t \in Live(d) \ Finished(d) /\ t \in Transfers
  BY DEF ResubmitTransferIntent, HasTerminalReceipt, Inv, Base, BoundIntents, Live
<1>2. CASE d' = ReissueTicket(d, t)
  BY <1>1, <1>2, ReissueInv
<1>3. CASE \E s \in RefreshAdmission(d) : d' = ReissueTicket(s, t)
  <2>1. PICK s \in RefreshAdmission(d) : d' = ReissueTicket(s, t)
    BY <1>3
  <2>2. Inv(s) /\ Keeps(d, s)
    BY RefreshInv
  <2>3. t \notin Finished(s)
    <3> SUFFICES ASSUME t \in Finished(s) PROVE FALSE
      OBVIOUS
    <3>1. s.transfer[t].state = "complete" /\ t \in Live(s)
      BY <1>1, <2>2 DEF Finished, Terminal, Inv, Dead
    <3>2. Outcome(s, t).state = "complete"
      BY <3>1 DEF Outcome
    <3>3. Outcome(d, t).state = "complete"
      BY <1>1, <2>2, <3>2 DEF Keeps
    <3> QED BY <1>1, <3>3, UnfinishedState
  <2> QED BY <1>1, <2>1, <2>2, <2>3, ReissueInv, KeepsTransitive
<1> QED BY <1>2, <1>3, Zenon DEF ResubmitTransferIntent

\* validate_lease on an expired lease keeps the invariant.
LEMMA PresentExpiredLeaseInv ==
    ASSUME Inv(d), NEW l \in d.leases, PresentExpiredLease(l)
    PROVE  Inv(d') /\ Keeps(d, d')
<1>1. Inv(ReapStaleSessions(d)) /\ Keeps(d, ReapStaleSessions(d))
  BY ReapStaleInv
<1>2. d' = ReleaseLeases(ReapStaleSessions(d), {l}, "canceled")
  BY DEF PresentExpiredLease
<1> QED BY <1>1, <1>2, ReleaseLeasesInv, KeepsTransitive

\* Changing the admission changes nothing else of the record.
LEMMA AdmissionRec ==
    ASSUME NEW r \in TransferRec, NEW a \in AdmissionStates
    PROVE  /\ [r EXCEPT !.admission = a] \in TransferRec
           /\ [r EXCEPT !.admission = a].admission = a
           /\ \A x \in {"state", "bytes", "session", "intent", "ticket", "generation",
                        "expires", "relays", "queued"} : [r EXCEPT !.admission = a][x] = r[x]
  BY DEF TransferRec

\* The lazy expiry of a plan keeps the invariant.
LEMMA PresentExpiredPlanInv ==
    ASSUME Inv(d), NEW t \in Transfers, PresentExpiredPlan(t)
    PROVE  Inv(d') /\ Keeps(d, d')
<1>1. PICK s \in {d, ReapStaleSessions(d)} :
        /\ t \in Live(s) \ Finished(s) /\ PlanExpired(s, t)
        /\ d' = ExpireAdmission(s, t)
  BY Zenon DEF PresentExpiredPlan
<1>2. Inv(s) /\ Keeps(d, s)
  BY <1>1, ReapStaleInv, KeepsReflexive
<1> DEFINE r == [s.transfer[t] EXCEPT !.admission = "expired"]
           e == d'
<1>3. e = [s EXCEPT !.transfer[t] = r]
  BY <1>1, Zenon DEF ExpireAdmission
<1>4. /\ s.transfer[t] \in TransferRec /\ "expired" \in AdmissionStates
      /\ s.transfer[t].bytes <= s.transfer[t].bytes
  BY <1>1, <1>2, UnfinishedState, ConstantsAssumption DEF AdmissionStates
<1>5. /\ r.bytes = s.transfer[t].bytes
      /\ r \in TransferRec /\ r.admission = "expired" /\ r.ticket = s.transfer[t].ticket
      /\ r.state = s.transfer[t].state /\ r.session = s.transfer[t].session
      /\ r.intent = s.transfer[t].intent
      /\ r.generation = s.transfer[t].generation /\ r.expires = s.transfer[t].expires
      /\ r.relays = s.transfer[t].relays
  BY <1>4, AdmissionRec
<1> HIDE DEF r, e
<1>6. Rewritable(s, t, r) /\ r.state \in {"submitted", "running"}
  BY <1>1, <1>2, <1>4, <1>5, UnfinishedState DEF Runs, Rewritable, PlanExpired
<1>7. Rewrote(s, e, t, r)
  BY <1>2, <1>3, <1>5, <1>6, RewriteOne
<1>8. Outcome(s, t).state \notin Terminal \cup {"absent"}
  BY <1>1, <1>2, UnfinishedState DEF Terminal
<1>9. Inv(e) /\ Keeps(s, e)
  BY <1>6, <1>7, <1>8, RewriteKeeps
<1> QED BY <1>2, <1>9, KeepsTransitive DEF e

Restaged(L, related, t) ==
    {IF k \in related THEN [k EXCEPT !.staged = t] ELSE k : k \in L}

\* Replacing the leases leaves every other dictionary alone.
LEMMA SetOnlyLeases ==
    ASSUME NEW s, Shape(s), NEW L
    PROVE  Update(s, [s EXCEPT !.leases = L], s.transfer, s.intents, L, s.archive, s.archivedIntents)
  BY DEF Shape, Fields, Update

\* Allocating staging for leases keeps the invariant.
LEMMA RestageInv ==
    ASSUME NEW s, Inv(s), NEW related, NEW t \in Transfers
    PROVE  LET e == [s EXCEPT !.leases = Restaged(s.leases, related, t)]
           IN Inv(e) /\ Keeps(s, e)
<1> DEFINE L == Restaged(s.leases, related, t)
           e == [s EXCEPT !.leases = L]
<1>1. Update(s, e, s.transfer, s.intents, L, s.archive, s.archivedIntents)
  BY SetOnlyLeases DEF Inv, Base
<1> HIDE DEF e
<1>2. \A l \in L : \E k \in s.leases :
        /\ l = IF k \in related THEN [k EXCEPT !.staged = t] ELSE k
        /\ l \in LeaseRec /\ l.transfer = k.transfer /\ l.relay = k.relay
        /\ l.generation = k.generation /\ l.session = k.session /\ l.expires = k.expires
  <2> TAKE l \in L
  <2>1. PICK k \in s.leases : l = IF k \in related THEN [k EXCEPT !.staged = t] ELSE k
    BY DEF Restaged
  <2>2. k \in LeaseRec
    BY DEF Inv, Base, Types
  <2> QED BY <2>1, <2>2 DEF LeaseRec
<1> HIDE DEF L
<1>3. Live(e) = Live(s) /\ Dead(e) = Dead(s)
  BY <1>1 DEF Update, Live, Dead
<1>4. \A u \in Transfers : Outcome(e, u) = Outcome(s, u)
  BY <1>1, <1>3 DEF Update, Outcome
<1>5. \A i \in Intents : Owner(e, i) = Owner(s, i)
  BY <1>1 DEF Update, Owner
<1>6. Types(e) /\ Shape(e)
  <2>1. L \subseteq LeaseRec
    BY <1>2
  <2> QED BY <1>1, <2>1 DEF Update, Types, Inv, Base
<1>7. Held(e)
  <2>1. \A l \in L :
          LET r == s.transfer[l.transfer]
          IN /\ l.transfer \in Live(s)
             /\ l.transfer \notin Dead(s) => r.admission \in {"admitted", "expired"}
             /\ l.session = r.session
             /\ l.generation = r.generation
             /\ l.expires = r.expires
             /\ l.relay \in r.relays
    <3> TAKE l \in L
    <3>1. PICK k \in s.leases :
            /\ l.transfer = k.transfer /\ l.relay = k.relay
            /\ l.generation = k.generation /\ l.session = k.session /\ l.expires = k.expires
      BY <1>2
    <3> QED BY <3>1 DEF Inv, Base, Held
  <2>2. \A k, l \in L : k.transfer = l.transfer /\ k.relay = l.relay => k = l
    <3> SUFFICES ASSUME NEW k \in L, NEW l \in L, k.transfer = l.transfer, k.relay = l.relay
                 PROVE  k = l
      OBVIOUS
    <3>1. PICK k0 \in s.leases :
            /\ k = IF k0 \in related THEN [k0 EXCEPT !.staged = t] ELSE k0
            /\ k.transfer = k0.transfer /\ k.relay = k0.relay
      BY <1>2
    <3>2. PICK l0 \in s.leases :
            /\ l = IF l0 \in related THEN [l0 EXCEPT !.staged = t] ELSE l0
            /\ l.transfer = l0.transfer /\ l.relay = l0.relay
      BY <1>2
    <3>3. k0 = l0
      BY <3>1, <3>2 DEF Inv, Base, Held
    <3> QED BY <3>1, <3>2, <3>3
  <2> QED BY <1>1, <1>3, <2>1, <2>2 DEF Update, Held
<1>8. Runnable(e)
  BY <1>1, <1>3 DEF Update, Runnable, Inv, Base
<1>9. RegisteredOwners(e)
  BY <1>1, <1>3 DEF Update, RegisteredOwners, OwnersRegistered, Open, Inv, Base
<1>10. BoundIntents(e)
  BY <1>1, <1>3, <1>5 DEF Update, BoundIntents, Inv, Base
<1>11. ArchivedOutcomes(e)
  BY <1>1, <1>3, <1>4 DEF Update, ArchivedOutcomes, Inv, Base
<1>12. Keeps(s, e)
  BY <1>4, <1>5, Zenon DEF Keeps, Terminal
<1> QED BY <1>3, <1>6, <1>7, <1>8, <1>9, <1>10, <1>11, <1>12 DEF Inv, Base, e, L

\* The two updates of an authorization can be made one after the other.
LEMMA SetTicketAndLeases ==
    ASSUME NEW s, Shape(s), NEW t, NEW n, NEW L
    PROVE  [s EXCEPT !.transfer[t].ticket = n, !.leases = L] =
           [[s EXCEPT !.transfer[t] = [s.transfer[t] EXCEPT !.ticket = n]] EXCEPT !.leases = L]
  BY DEF Shape, Fields

\* authorize_worker_transfer keeps the invariant.
LEMMA AuthorizeInv ==
    ASSUME Inv(d), NEW t \in Transfers, NEW l \in d.leases, NEW explicit \in BOOLEAN,
           AuthorizeWorkerTransfer(t, l, explicit)
    PROVE  Inv(d') /\ Keeps(d, d')
<1> DEFINE s == ReapStaleSessions(d)
           n == s.transfer[t].generation
           r == [s.transfer[t] EXCEPT !.ticket = n]
           a == [s EXCEPT !.transfer[t] = r]
           related == RelatedLeases(s, t, l, explicit)
           L == Restaged(s.leases, related, t)
<1>1. Inv(s) /\ Keeps(d, s)
  BY ReapStaleInv
<1>2. /\ t \in Live(s) \ Finished(s) /\ s.transfer[t].admission = "admitted"
      /\ d' = [s EXCEPT !.transfer[t].ticket = n, !.leases = L]
  BY Zenon DEF AuthorizeWorkerTransfer, Authorizable, AdmissionValid, Restaged
<1> HIDE DEF s
<1>3. s.transfer[t] \in TransferRec /\ n \in Nat
  BY <1>1, <1>2, UnfinishedState DEF TransferRec
<1> HIDE DEF n, related
<1>4. d' = [a EXCEPT !.leases = L]
  BY <1>1, <1>2, SetTicketAndLeases, Zenon DEF Inv, Base
<1>5. /\ r.bytes = s.transfer[t].bytes /\ r.bytes <= r.bytes
      /\ r \in TransferRec /\ r.ticket = n /\ r.admission = s.transfer[t].admission
      /\ r.state = s.transfer[t].state /\ r.session = s.transfer[t].session
      /\ r.intent = s.transfer[t].intent
      /\ r.generation = n /\ r.expires = s.transfer[t].expires
      /\ r.relays = s.transfer[t].relays
  BY <1>3, TicketRec DEF n, TransferRec
<1> HIDE DEF r
<1>6. Rewritable(s, t, r) /\ r.state \in {"submitted", "running"}
  BY <1>1, <1>2, <1>5, UnfinishedState DEF Runs, Rewritable, n
<1>7. Rewrote(s, a, t, r)
  BY <1>1, <1>5, <1>6, RewriteOne
<1>8. Outcome(s, t).state \notin Terminal \cup {"absent"}
  BY <1>1, <1>2, UnfinishedState DEF Terminal
<1>9. Inv(a) /\ Keeps(s, a) /\ a.leases = s.leases
  BY <1>6, <1>7, <1>8, RewriteKeeps DEF Rewrote
<1> HIDE DEF a
<1>10. Inv(d') /\ Keeps(a, d')
  BY <1>4, <1>9, RestageInv
<1> QED BY <1>1, <1>9, <1>10, KeepsTransitive

-----------------------------------------------------------------------------
\* Reports.

\* q is the record r with another status and ticket.
Restated(q, r, state, bytes, ticket) ==
    /\ q \in TransferRec /\ q.state = state /\ q.bytes = bytes /\ q.ticket = ticket
    /\ q.session = r.session /\ q.intent = r.intent /\ q.admission = r.admission
    /\ q.generation = r.generation /\ q.expires = r.expires /\ q.relays = r.relays

\* The record of a transfer after a report of progress.
LEMMA StatusRec ==
    ASSUME NEW r \in TransferRec, NEW a \in States, NEW n \in 0..TotalBytes
    PROVE  Restated([r EXCEPT !.state = a, !.bytes = n], r, a, n, r.ticket)
  BY DEF TransferRec, Restated

Progressed(s, e) == Inv(e) /\ Keeps(s, e) /\ e.leases = s.leases

\* Progress: the state of an unfinished transfer changes, and its byte count does
\* not go down.
LEMMA ProgressInv ==
    ASSUME NEW s, Inv(s), NEW t \in Live(s) \ Finished(s),
           NEW n \in s.transfer[t].bytes..TotalBytes,
           NEW a \in {"submitted", "running"},
           a = "running" => s.transfer[t].admission # "delayed"
    PROVE  Progressed(s, [s EXCEPT !.transfer[t].state = a, !.transfer[t].bytes = n])
<1> DEFINE r == [s.transfer[t] EXCEPT !.state = a, !.bytes = n]
           e == [s EXCEPT !.transfer[t] = r]
<1>1. s.transfer[t] \in TransferRec /\ a \in States /\ n \in 0..TotalBytes
  BY UnfinishedState DEF States
<1>2. Restated(r, s.transfer[t], a, n, s.transfer[t].ticket)
  BY <1>1, StatusRec, Zenon
<1>3. [s EXCEPT !.transfer[t].state = a, !.transfer[t].bytes = n] = e
  <2>1. t \in DOMAIN s.transfer
    BY DEF Live, Inv, Base, Types
  <2> QED BY <2>1 DEF Inv, Base, Shape, Fields
<1> HIDE DEF r
<1>4. Rewritable(s, t, r) /\ r \in TransferRec
  BY <1>2, UnfinishedState DEF Runs, Rewritable, Restated
<1>5. Rewrote(s, e, t, r)
  BY <1>4, RewriteOne
<1> HIDE DEF e
<1>6. Outcome(s, t).state \notin Terminal \cup {"absent"}
  BY UnfinishedState DEF Terminal
<1>7. Inv(e) /\ Keeps(s, e)
  BY <1>2, <1>5, <1>6, RewriteKeeps DEF Restated
<1>8. Progressed(s, e)
  BY <1>5, <1>7 DEF Rewrote, Progressed
<1> QED BY <1>3, <1>8, Zenon

\* The byte count kept from a report does not go down.
LEMMA ReportedGrows ==
    ASSUME NEW s, Inv(s), NEW t \in Live(s) \ Finished(s), NEW bytes \in Nat,
           Reported(s, t, bytes) <= TotalBytes
    PROVE  Reported(s, t, bytes) \in s.transfer[t].bytes..TotalBytes
<1>1. s.transfer[t].bytes \in Nat /\ TotalBytes \in Nat
  BY UnfinishedState, ConstantsAssumption
<1> QED BY <1>1 DEF Reported

\* A report of SUBMITTED keeps the invariant.
LEMMA ReportSubmittedInv ==
    ASSUME Inv(d), NEW t \in Transfers, NEW bytes \in Nat, ReportSubmitted(t, bytes)
    PROVE  Inv(d') /\ Keeps(d, d')
<1>1. t \in Live(d) \ Finished(d) /\ Reported(d, t, bytes) <= TotalBytes
  BY DEF ReportSubmitted
<1>2. d' = [d EXCEPT !.transfer[t].state = "submitted",
                     !.transfer[t].bytes = Reported(d, t, bytes)]
  BY DEF ReportSubmitted
<1>3. Reported(d, t, bytes) \in d.transfer[t].bytes..TotalBytes
  BY <1>1, ReportedGrows
<1>4. Progressed(d, [d EXCEPT !.transfer[t].state = "submitted",
                             !.transfer[t].bytes = Reported(d, t, bytes)])
  BY <1>1, <1>3, ProgressInv
<1> QED BY <1>2, <1>4, Zenon DEF Progressed

\* A report of RUNNING keeps the invariant.
LEMMA ReportRunningInv ==
    ASSUME Inv(d), NEW t \in Transfers, NEW bytes \in Nat, ReportRunning(t, bytes)
    PROVE  Inv(d') /\ Keeps(d, d')
<1>1. /\ t \in Live(d) \ Finished(d) /\ d.transfer[t].admission # "delayed"
      /\ Reported(d, t, bytes) <= TotalBytes
  BY DEF ReportRunning, AdmissionValid
<1>2. d' = [d EXCEPT !.transfer[t].state = "running",
                     !.transfer[t].bytes = Reported(d, t, bytes)]
  BY DEF ReportRunning
<1>3. Reported(d, t, bytes) \in d.transfer[t].bytes..TotalBytes
  BY <1>1, ReportedGrows
<1>4. Progressed(d, [d EXCEPT !.transfer[t].state = "running",
                             !.transfer[t].bytes = Reported(d, t, bytes)])
  BY <1>1, <1>3, ProgressInv
<1> QED BY <1>2, <1>4, Zenon DEF Progressed

\* The record of a transfer after a report of COMPLETE.
LEMMA CompleteRec ==
    ASSUME NEW r \in TransferRec, NEW a \in States, NEW n \in 0..TotalBytes, NEW m \in Nat
    PROVE  Restated([r EXCEPT !.state = a, !.bytes = n, !.ticket = m], r, a, n, m)
  BY DEF TransferRec, Restated

\* Between handlers, retiring unleased transfers keeps the invariant.
LEMMA RetireUnleasedInv ==
    ASSUME NEW s, Inv(s), NEW T
    PROVE  Inv(RetireUnleased(s, T)) /\ Keeps(s, RetireUnleased(s, T))
  BY RetireUnleasedBase, ShrinksKeeps DEF Inv

\* The daemon's tables with transfer t complete.
Done(t) == [d EXCEPT !.transfer[t].state = "complete",
                     !.transfer[t].bytes = TotalBytes,
                     !.transfer[t].ticket = 0]

\* Completing the one transfer keeps the invariant.
LEMMA DoneInv ==
    ASSUME Inv(d), NEW t \in Live(d) \ Finished(d), d.transfer[t].admission = "admitted"
    PROVE  Inv(Done(t)) /\ Completes(d, Done(t), t)
<1> DEFINE done == Done(t)
           r == [d.transfer[t] EXCEPT !.state = "complete", !.bytes = TotalBytes, !.ticket = 0]
<1>1. t \in Live(d) \ Finished(d) /\ d.transfer[t].admission = "admitted"
  OBVIOUS
<1>3. /\ d.transfer[t] \in TransferRec /\ "complete" \in States
      /\ TotalBytes \in 0..TotalBytes /\ d.transfer[t].bytes <= TotalBytes
  BY <1>1, UnfinishedState, ConstantsAssumption DEF States, Terminal
<1>4. Restated(r, d.transfer[t], "complete", TotalBytes, 0)
  <2>1. 0 \in Nat
    OBVIOUS
  <2> QED BY <1>3, <2>1, CompleteRec, Zenon
<1>5. done = [d EXCEPT !.transfer[t] = r]
  <2>1. t \in DOMAIN d.transfer
    BY <1>1 DEF Live, Inv, Base, Types
  <2> QED BY <2>1 DEF Inv, Base, Shape, Fields, Done
<1> HIDE DEF r, done
<1>6. Rewritable(d, t, r)
  BY <1>1, <1>3, <1>4 DEF Runs, Rewritable, Terminal, Restated
<1>7. Rewrote(d, done, t, r)
  BY <1>4, <1>5, <1>6, RewriteOne DEF Restated
<1>8. Outcome(d, t).state \notin Terminal \cup {"absent"}
  BY <1>1, UnfinishedState DEF Terminal
<1>9. Inv(done) /\ Completes(d, done, t)
  BY <1>4, <1>7, <1>8 DEF Rewrote, Completes, Restated
<1> QED BY <1>9 DEF done

\* A report of COMPLETE keeps the invariant and completes the one transfer.
LEMMA ReportCompleteInv ==
    ASSUME Inv(d), now \in Nat, NEW t \in Transfers, NEW bytes \in Nat,
           ReportComplete(t, bytes)
    PROVE  Inv(d') /\ \E m : Completes(d, m, t) /\ Keeps(m, d')
<1> DEFINE a == RetireUnleased(Done(t), {t})
<1>1. t \in Live(d) \ Finished(d) /\ d.transfer[t].admission = "admitted"
  BY DEF ReportComplete, AdmissionValid
<1>2. d' \in PromoteDelayed(a) \/ d' = a
  BY Zenon DEF ReportComplete, Done
<1>3. Inv(Done(t)) /\ Completes(d, Done(t), t)
  BY <1>1, DoneInv
<1>4. Inv(a) /\ Keeps(Done(t), a)
  BY <1>3, RetireUnleasedInv
<1> HIDE DEF a
<1>5. Inv(d') /\ Keeps(Done(t), d')
  BY <1>2, <1>4, PromoteDelayedInv, KeepsTransitive
<1> QED BY <1>3, <1>5

\* Mark a transfer, release its leases, retire it.
LEMMA FailInv ==
    ASSUME NEW s, Inv(s), NEW t \in Transfers, NEW final \in {"failed", "canceled"}, NEW L,
           L = LeasesOf(s, {t})
    PROVE  LET e == RetireUnleased(ReleaseLeases(MarkTerminal(s, {t}, final), L, final), {t})
           IN Inv(e) /\ Keeps(s, e)
<1> DEFINE m == MarkTerminal(s, {t}, final)
           a == ReleaseLeases(m, L, final)
           e == RetireUnleased(a, {t})
<1>1. Base(m) /\ Shrinks(s, m) /\ m.leases = s.leases /\ Dead(m) \subseteq {t}
  BY MarkTerminalBase DEF Inv
<1> HIDE DEF m
<1>2. Base(a) /\ Shrinks(m, a) /\ a.leases = m.leases \ L /\ Dead(a) \subseteq Dead(m)
  BY <1>1, ReleaseLeasesBase
<1> HIDE DEF a
<1>3. t \notin Leased(a)
  BY <1>1, <1>2 DEF Leased, LeasesOf
<1>4. Base(e) /\ Shrinks(a, e) /\ Dead(e) = Dead(a) \ ({t} \ Leased(a))
  BY <1>2, RetireUnleasedBase
<1> HIDE DEF e
<1>5. Dead(e) = {}
  BY <1>1, <1>2, <1>3, <1>4
<1>6. Keeps(s, e)
  BY <1>1, <1>2, <1>4, ShrinksTransitive, ShrinksKeeps DEF Inv
<1> QED BY <1>4, <1>5, <1>6 DEF Inv, e, a, m

\* A COMPLETE with the wrong byte count fails the transfer and keeps the invariant.
LEMMA ReportMismatchInv ==
    ASSUME Inv(d), now \in Nat, NEW t \in Transfers, NEW bytes \in Nat,
           ReportMismatch(t, bytes)
    PROVE  Inv(d') /\ Keeps(d, d')
<1> DEFINE L == LeasesOf(d, {t})
           e == RetireUnleased(ReleaseLeases(MarkTerminal(d, {t}, "failed"), L, "failed"), {t})
<1>1. d' \in PromoteDelayed(e)
  BY Zenon DEF ReportMismatch
<1>2. Inv(e) /\ Keeps(d, e)
  BY FailInv
<1> HIDE DEF e
<1> QED BY <1>1, <1>2, PromoteDelayedInv, KeepsTransitive

\* Recording a byte count changes nothing else.
LEMMA SetBytes ==
    ASSUME NEW s, Shape(s), NEW t, NEW n, t \in DOMAIN s.transfer,
           s.transfer[t] \in TransferRec
    PROVE  [s EXCEPT !.transfer[t].bytes = n] =
           [s EXCEPT !.transfer[t].state = s.transfer[t].state, !.transfer[t].bytes = n]
  BY DEF Shape, Fields, TransferRec

\* The daemon's tables with the bytes of t reported.
Counted(t, bytes) == [d EXCEPT !.transfer[t].bytes = Reported(d, t, bytes)]

\* Recording the bytes of a failed transfer keeps the invariant.
LEMMA CountedInv ==
    ASSUME Inv(d), NEW t \in Live(d) \ Finished(d), NEW bytes \in Nat,
           Reported(d, t, bytes) <= TotalBytes
    PROVE  LET u == Counted(t, bytes)
           IN Inv(u) /\ Keeps(d, u) /\ u.leases = d.leases
<1> DEFINE u == Counted(t, bytes)
<1>1. t \in Live(d) \ Finished(d)
  OBVIOUS
<1>2. Reported(d, t, bytes) \in d.transfer[t].bytes..TotalBytes
  BY <1>1, ReportedGrows
<1>3. Inv(u) /\ Keeps(d, u) /\ u.leases = d.leases
  <2>1. u = [d EXCEPT !.transfer[t].state = d.transfer[t].state,
                      !.transfer[t].bytes = Reported(d, t, bytes)]
    <3>1. Shape(d) /\ t \in DOMAIN d.transfer /\ d.transfer[t] \in TransferRec
      BY <1>1, UnfinishedState DEF Inv, Base, Types
    <3> QED BY <3>1, SetBytes, Zenon DEF Counted
  <2> HIDE DEF u
  <2>2. /\ d.transfer[t].state \in {"submitted", "running"}
        /\ d.transfer[t].state = "running" => d.transfer[t].admission # "delayed"
    BY <1>1, UnfinishedState DEF Runs, Terminal
  <2> DEFINE a == d.transfer[t].state
             n == Reported(d, t, bytes)
  <2>3. /\ a \in {"submitted", "running"} /\ n \in d.transfer[t].bytes..TotalBytes
        /\ a = "running" => d.transfer[t].admission # "delayed"
        /\ u = [d EXCEPT !.transfer[t].state = a, !.transfer[t].bytes = n]
    BY <1>2, <2>1, <2>2, Zenon
  <2> HIDE DEF a, n
  <2>4. Progressed(d, [d EXCEPT !.transfer[t].state = a, !.transfer[t].bytes = n])
    BY <1>1, <2>3, ProgressInv
  <2> QED BY <2>3, <2>4, Zenon DEF Progressed
<1> QED BY <1>3

\* A report of FAILED or CANCELED keeps the invariant.
LEMMA ReportFailureInv ==
    ASSUME Inv(d), now \in Nat, NEW t \in Transfers, NEW bytes \in Nat,
           NEW final \in {"failed", "canceled"}, ReportFailure(t, final, bytes)
    PROVE  Inv(d') /\ Keeps(d, d')
<1> DEFINE u == Counted(t, bytes)
           L == LeasesOf(d, {t})
           e == RetireUnleased(ReleaseLeases(MarkTerminal(u, {t}, final), L, final), {t})
<1>1. /\ d' \in PromoteDelayed(e) /\ t \in Live(d) \ Finished(d)
      /\ Reported(d, t, bytes) <= TotalBytes
  BY Zenon DEF ReportFailure, Counted
<1>3. Inv(u) /\ Keeps(d, u) /\ u.leases = d.leases
  BY <1>1, CountedInv
<1> HIDE DEF u
<1>4. L = LeasesOf(u, {t})
  BY <1>3 DEF LeasesOf
<1> HIDE DEF L
<1>5. Inv(e) /\ Keeps(u, e)
  BY <1>3, <1>4, FailInv
<1> HIDE DEF e
<1> QED BY <1>1, <1>3, <1>5, PromoteDelayedInv, KeepsTransitive

\* Supplementing the evidence of a finished transfer, or looking up the recovery
\* state of one that is still to run, keeps its receipt.
LEMMA ArchivingInv ==
    ASSUME Inv(d), NEW t \in Transfers, SupplementEvidence(t) \/ RecoverTransferState(t)
    PROVE  Inv(d') /\ Keeps(d, d')
<1> DEFINE e == Archive(d, {t})
<1>1. d' = e
  BY DEF SupplementEvidence, RecoverTransferState
<1>2. Base(e) /\ Shrinks(d, e) /\ e.transfer = d.transfer
  BY <1>1, ArchiveBase DEF Inv
<1> HIDE DEF e
<1>3. Dead(e) = {}
  BY <1>2 DEF Dead, Inv
<1> QED BY <1>1, <1>2, <1>3, ShrinksKeeps DEF Inv

-----------------------------------------------------------------------------
\* Cleanup.

\* cleanup of a reservation keeps the invariant, for either reason.
LEMMA CleanupReservationInv ==
    ASSUME Inv(d), now \in Nat, NEW l \in d.leases, NEW workerComplete \in BOOLEAN,
           CleanupReservation(l, workerComplete)
    PROVE  Inv(d') /\ Keeps(d, d')
<1>1. Inv(DropLeases(d, {l})) /\ Keeps(d, DropLeases(d, {l}))
  <2>1. Base(DropLeases(d, {l})) /\ Shrinks(d, DropLeases(d, {l}))
        /\ DropLeases(d, {l}).transfer = d.transfer
    BY DropLeasesBase DEF Inv
  <2>2. Dead(DropLeases(d, {l})) = {}
    BY <2>1 DEF Dead, Inv
  <2> QED BY <2>1, <2>2, ShrinksKeeps DEF Inv
<1>2. Inv(ReleaseLeases(d, {l}, "canceled")) /\ Keeps(d, ReleaseLeases(d, {l}, "canceled"))
  BY ReleaseLeasesInv
<1>3. \/ d' \in RefreshAdmission(DropLeases(d, {l}))
      \/ d' \in RefreshAdmission(ReleaseLeases(d, {l}, "canceled"))
  BY Zenon DEF CleanupReservation
<1> QED BY <1>1, <1>2, <1>3, RefreshInv, KeepsTransitive

\* The daemon's tables after the transfers of T were canceled and forgotten.
Without(T) == CancelTransfers(ReleaseLeases(d, LeasesOf(d, T), "canceled"), T)
WithoutBuffer(b) ==
    LET c == Without({t \in Live(d) : b \in BuffersOf(d, t)})
    IN [c EXCEPT !.buffers[b] = None]

\* Forgetting a buffer keeps the invariant: its transfers go first.
LEMMA WithoutBufferInv ==
    ASSUME Inv(d), NEW b \in Buffers
    PROVE  Inv(WithoutBuffer(b)) /\ Keeps(d, WithoutBuffer(b))
<1> DEFINE T == {t \in Live(d) : b \in BuffersOf(d, t)}
           c == Without(T)
           e == [c EXCEPT !.buffers[b] = None]
           f == [c.buffers EXCEPT ![b] = None]
<1>1. WithoutBuffer(b) = e
  BY Zenon DEF WithoutBuffer
<1>2. Inv(c) /\ Shrinks(d, c) /\ Keeps(d, c) /\ Live(c) \cap T = {}
  BY CancelOwned DEF Without
<1> HIDE DEF c
<1>3. Reowned(c, e, c.session, c.attached, c.jobs, f)
  BY <1>2, SetBuffer DEF Inv, Base
<1>4. /\ c.session \in [SessionIds -> SessionRec] /\ c.attached \in [Relays -> SUBSET SessionIds]
      /\ c.jobs \in [Jobs -> SessionIds \cup {None}] /\ c.buffers \in [Buffers -> Jobs \cup {None}]
  BY <1>2 DEF Inv, Base, Types
<1>5. f \in [Buffers -> Jobs \cup {None}] /\ \A k \in Buffers \ {b} : f[k] = c.buffers[k]
  BY <1>4
<1> HIDE DEF e, f
<1>6. RegisteredOwners(e)
  <2>1. Live(e) = Live(c) /\ Open(e) = Open(c)
    BY <1>3 DEF Reowned, Live, Open
  <2> SUFFICES ASSUME NEW t \in Live(c)
               PROVE  /\ c.transfer[t].intent \in Intents
                      /\ OwnersRegistered(e, c.transfer[t].intent, c.transfer[t].session)
    BY <1>3, <2>1 DEF RegisteredOwners, Reowned
  <2>2. /\ c.transfer[t].intent \in Intents
        /\ OwnersRegistered(c, c.transfer[t].intent, c.transfer[t].session)
    BY <1>2 DEF Inv, Base, RegisteredOwners
  <2>3. t \in Live(d) /\ t \notin T /\ c.transfer[t].intent = d.transfer[t].intent
    BY <1>2 DEF Shrinks
  <2>4. b \notin IntentBuffers[c.transfer[t].intent] /\ IntentBuffers[c.transfer[t].intent] \subseteq Buffers
    BY <2>2, <2>3, ConstantsAssumption DEF BuffersOf
  <2> QED BY <1>3, <1>5, <2>1, <2>2, <2>4 DEF OwnersRegistered, Reowned
<1>7. Base(e) /\ Dead(e) = Dead(c) /\ Keeps(c, e)
  BY <1>2, <1>3, <1>4, <1>5, <1>6, SameTransfersBase DEF Reowned, Inv
<1>8. Inv(e) /\ Keeps(d, e)
  BY <1>2, <1>7, KeepsTransitive DEF Inv
<1> QED BY <1>1, <1>8

\* cleanup of a buffer keeps the invariant.
LEMMA CleanupBufferInv ==
    ASSUME Inv(d), now \in Nat, NEW b \in Buffers, CleanupBuffer(b)
    PROVE  Inv(d') /\ Keeps(d, d')
<1>1. d' \in RefreshAdmission(WithoutBuffer(b))
  BY Zenon DEF CleanupBuffer, WithoutBuffer, Without
<1> QED BY <1>1, WithoutBufferInv, RefreshInv, KeepsTransitive

\* Removing a job writes the job and its buffers.
LEMMA SetJobBuffers ==
    ASSUME NEW s, Shape(s), NEW j, NEW x, NEW f
    PROVE  Reowned(s, [s EXCEPT !.jobs[j] = x, !.buffers = f],
                   s.session, s.attached, [s.jobs EXCEPT ![j] = x], f)
  BY DEF Shape, Fields, Reowned

WithoutJob(j) ==
    LET c == Without({t \in Live(d) : JobOf(d, t) = j})
    IN [c EXCEPT !.jobs[j] = None,
                 !.buffers = [b \in Buffers |->
                     IF c.buffers[b] = j THEN None ELSE c.buffers[b]]]

\* Forgetting a job keeps the invariant: its transfers go first.
LEMMA WithoutJobInv ==
    ASSUME Inv(d), NEW j \in Jobs
    PROVE  Inv(WithoutJob(j)) /\ Keeps(d, WithoutJob(j))
<1> DEFINE T == {t \in Live(d) : JobOf(d, t) = j}
           c == Without(T)
           f == [b \in Buffers |-> IF c.buffers[b] = j THEN None ELSE c.buffers[b]]
           g == [c.jobs EXCEPT ![j] = None]
           e == [c EXCEPT !.jobs[j] = None, !.buffers = f]
<1>1. WithoutJob(j) = e
  BY Zenon DEF WithoutJob
<1>2. Inv(c) /\ Shrinks(d, c) /\ Keeps(d, c) /\ Live(c) \cap T = {}
  BY CancelOwned DEF Without
<1> HIDE DEF c
<1>3. /\ c.session \in [SessionIds -> SessionRec] /\ c.attached \in [Relays -> SUBSET SessionIds]
      /\ c.jobs \in [Jobs -> SessionIds \cup {None}] /\ c.buffers \in [Buffers -> Jobs \cup {None}]
  BY <1>2 DEF Inv, Base, Types
<1>4. /\ f \in [Buffers -> Jobs \cup {None}]
      /\ \A b \in Buffers : c.buffers[b] # j => f[b] = c.buffers[b]
      /\ g \in [Jobs -> SessionIds \cup {None}]
      /\ \A k \in Jobs \ {j} : g[k] = c.jobs[k]
  BY <1>3
<1> HIDE DEF f
<1>5. Reowned(c, e, c.session, c.attached, g, f)
  BY <1>2, SetJobBuffers DEF Inv, Base
<1> HIDE DEF e, g
<1>6. RegisteredOwners(e)
  <2>1. Live(e) = Live(c) /\ Open(e) = Open(c)
    BY <1>5 DEF Reowned, Live, Open
  <2> SUFFICES ASSUME NEW t \in Live(c)
               PROVE  /\ c.transfer[t].intent \in Intents
                      /\ OwnersRegistered(e, c.transfer[t].intent, c.transfer[t].session)
    BY <1>5, <2>1 DEF RegisteredOwners, Reowned
  <2>2. /\ c.transfer[t].intent \in Intents
        /\ OwnersRegistered(c, c.transfer[t].intent, c.transfer[t].session)
    BY <1>2 DEF Inv, Base, RegisteredOwners
  <2>3. t \in Live(d) /\ t \notin T /\ c.transfer[t].intent = d.transfer[t].intent
    BY <1>2 DEF Shrinks
  <2>4. /\ IntentJob[c.transfer[t].intent] \in Jobs \ {j}
        /\ IntentBuffers[c.transfer[t].intent] \subseteq Buffers
    BY <2>2, <2>3, ConstantsAssumption DEF JobOf
  <2> QED BY <1>4, <1>5, <2>1, <2>2, <2>4 DEF OwnersRegistered, Reowned
<1>7. Base(e) /\ Dead(e) = Dead(c) /\ Keeps(c, e)
  BY <1>2, <1>3, <1>4, <1>5, <1>6, SameTransfersBase DEF Reowned, Inv
<1>8. Inv(e) /\ Keeps(d, e)
  BY <1>2, <1>7, KeepsTransitive DEF Inv
<1> QED BY <1>1, <1>8

\* cleanup of a job keeps the invariant.
LEMMA CleanupJobInv ==
    ASSUME Inv(d), now \in Nat, NEW j \in Jobs, CleanupJob(j)
    PROVE  Inv(d') /\ Keeps(d, d')
<1>1. d' \in RefreshAdmission(WithoutJob(j))
  BY Zenon DEF CleanupJob, WithoutJob, Without
<1> QED BY <1>1, WithoutJobInv, RefreshInv, KeepsTransitive

\* cleanup of a session keeps the invariant.
LEMMA CleanupSessionInv ==
    ASSUME Inv(d), now \in Nat, NEW x \in SessionIds, CleanupSession(x)
    PROVE  Inv(d') /\ Keeps(d, d')
<1>1. Inv(CloseSessions(d, {x})) /\ Keeps(d, CloseSessions(d, {x}))
  BY CloseSessionsInv
<1>2. d' \in RefreshAdmission(CloseSessions(d, {x}))
  BY DEF CleanupSession
<1> QED BY <1>1, <1>2, RefreshInv, KeepsTransitive

\* close_session keeps the invariant.
LEMMA CloseSessionInv ==
    ASSUME Inv(d), NEW x \in SessionIds, CloseSession(x)
    PROVE  Inv(d') /\ Keeps(d, d')
<1>1. Inv(ReapStaleSessions(d)) /\ Keeps(d, ReapStaleSessions(d))
  BY ReapStaleInv
<1>2. d' = CloseSessions(ReapStaleSessions(d), {x})
  BY DEF CloseSession
<1> QED BY <1>1, <1>2, CloseSessionsInv, KeepsTransitive

\* Disconnects, the reapers and the clock keep the invariant.
LEMMA MaintenanceInv ==
    ASSUME Inv(d), now \in Nat, ReapStale \/ Refresh \/ \E S \in SUBSET SessionIds : Disconnect(S)
    PROVE  Inv(d') /\ Keeps(d, d')
<1>1. Inv(ReapStaleSessions(d)) /\ Keeps(d, ReapStaleSessions(d))
  BY ReapStaleInv
<1>2. CASE ReapStale
  BY <1>1, <1>2 DEF ReapStale
<1>3. CASE Refresh
  <2>1. PICK s \in {d, ReapStaleSessions(d)} : d' \in RefreshAdmission(s)
    BY <1>3 DEF Refresh
  <2>2. Inv(s) /\ Keeps(d, s)
    BY <1>1, KeepsReflexive
  <2> QED BY <2>1, <2>2, RefreshInv, KeepsTransitive
<1>4. CASE \E S \in SUBSET SessionIds : Disconnect(S)
  BY <1>4, CloseSessionsInv DEF Disconnect
<1> QED BY <1>2, <1>3, <1>4

-----------------------------------------------------------------------------
\* The step of the whole daemon.

\* What a step does to the receipts.
ReceiptStep ==
    \/ Keeps(d, d')
    \/ \E m : \E i \in Intents, t \in Transfers : Keeps(d, m) /\ AcceptsIntent(m, d', i, t)
    \/ \E m : \E t \in Transfers : \E bytes \in Nat :
          ReportComplete(t, bytes) /\ Completes(d, m, t) /\ Keeps(m, d')

\* A fresh daemon satisfies the invariant.
LEMMA InitInv ==
    ASSUME Init
    PROVE  Inv(d) /\ now \in Nat
<1>1. Shape(d)
  BY DEF Init, Shape, Fields
<1>2. /\ d.session = [x \in SessionIds |-> NoSession] /\ d.attached = [r \in Relays |-> {}]
      /\ d.jobs = [j \in Jobs |-> None] /\ d.buffers = [b \in Buffers |-> None]
      /\ d.issued = {} /\ d.transfer = [t \in Transfers |-> NoTransfer]
      /\ d.intents = [i \in Intents |-> None] /\ d.leases = {}
      /\ d.archive = [t \in Transfers |-> NoArchive]
      /\ d.archivedIntents = [i \in Intents |-> None] /\ now = 1
  BY DEF Init
<1>3. NoTransfer \in TransferRec /\ NoTransfer.state = "absent"
  BY ConstantsAssumption DEF NoTransfer, TransferRec, AdmissionStates
<1>4. NoSession \in SessionRec /\ NoArchive \in ArchiveRec /\ NoArchive.state = "absent"
  BY ConstantsAssumption DEF NoSession, SessionRec, NoArchive, ArchiveRec
<1>5. Live(d) = {} /\ Dead(d) = {}
  BY <1>2, <1>3 DEF Live, Dead
<1>6. Types(d)
  BY <1>2, <1>3, <1>4 DEF Types
<1>7. Held(d) /\ Runnable(d) /\ RegisteredOwners(d)
  BY <1>2, <1>5 DEF Held, Runnable, RegisteredOwners
<1>8. BoundIntents(d)
  BY <1>2, <1>5 DEF BoundIntents, Owner
<1>9. ArchivedOutcomes(d)
  BY <1>2, <1>4, <1>5 DEF ArchivedOutcomes, Outcome, Terminal
<1> QED BY <1>1, <1>2, <1>5, <1>6, <1>7, <1>8, <1>9 DEF Inv, Base

\* Every handler keeps the invariant and is a step of the receipts.
LEMMA NextInv ==
    ASSUME Inv(d), now \in Nat, [Next]_vars
    PROVE  Inv(d') /\ now' \in Nat /\ ReceiptStep
<1> USE DEF ReceiptStep
<1>a. 0..TotalBytes + 1 \subseteq Nat
  BY ConstantsAssumption
<1>1. CASE \E x \in SessionIds, capable \in BOOLEAN : RegisterSession(x, capable)
  BY <1>1, RegisterSessionInv DEF RegisterSession
<1>2. CASE \E j \in Jobs, x \in SessionIds : RegisterJob(j, x)
  BY <1>2, RegisterJobInv DEF RegisterJob
<1>3. CASE \E b \in Buffers, j \in Jobs : RegisterBuffer(b, j)
  BY <1>3, RegisterBufferInv DEF RegisterBuffer
<1>4. CASE \E i \in Intents, x \in SessionIds, t \in Transfers : SubmitTransferIntent(i, x, t)
  BY <1>4, SubmitInv DEF SubmitTransferIntent
<1>5. CASE \E i \in Intents, x \in SessionIds : ResubmitTransferIntent(i, x)
  BY <1>5, ResubmitInv DEF ResubmitTransferIntent
<1>6. CASE \E l \in d.leases : PresentExpiredLease(l)
  BY <1>6, PresentExpiredLeaseInv DEF PresentExpiredLease
<1>7. CASE \E t \in Transfers : PresentExpiredPlan(t)
  BY <1>7, PresentExpiredPlanInv DEF PresentExpiredPlan
<1>8. CASE \E t \in Transfers, l \in d.leases, explicit \in BOOLEAN :
             AuthorizeWorkerTransfer(t, l, explicit)
  <2>1. PICK t \in Transfers, l \in d.leases, explicit \in BOOLEAN :
          AuthorizeWorkerTransfer(t, l, explicit)
    BY <1>8
  <2>2. now' \in Nat
    BY <2>1, Zenon DEF AuthorizeWorkerTransfer
  <2> QED BY <2>1, <2>2, AuthorizeInv
<1>9. CASE \E t \in Transfers, bytes \in 0..TotalBytes + 1 : ReportSubmitted(t, bytes)
  BY <1>a, <1>9, ReportSubmittedInv DEF ReportSubmitted
<1>10. CASE \E t \in Transfers, bytes \in 0..TotalBytes + 1 : ReportRunning(t, bytes)
  BY <1>a, <1>10, ReportRunningInv DEF ReportRunning
<1>11. CASE \E t \in Transfers, bytes \in 0..TotalBytes + 1 : ReportComplete(t, bytes)
  <2>1. PICK t \in Transfers, bytes \in Nat : ReportComplete(t, bytes)
    BY <1>a, <1>11
  <2>2. Inv(d') /\ \E m : Completes(d, m, t) /\ Keeps(m, d')
    BY <2>1, ReportCompleteInv
  <2>3. now' \in Nat
    BY <2>1 DEF ReportComplete
  <2> QED BY <2>1, <2>2, <2>3
<1>12. CASE \E t \in Transfers, bytes \in 0..TotalBytes + 1 : ReportMismatch(t, bytes)
  BY <1>a, <1>12, ReportMismatchInv DEF ReportMismatch
<1>13. CASE \E t \in Transfers, bytes \in 0..TotalBytes + 1, final \in {"failed", "canceled"} :
              ReportFailure(t, final, bytes)
  BY <1>a, <1>13, ReportFailureInv DEF ReportFailure
<1>14. CASE \E t \in Transfers : SupplementEvidence(t) \/ RecoverTransferState(t)
  BY <1>14, ArchivingInv DEF SupplementEvidence, RecoverTransferState
<1>15. CASE \E l \in d.leases, workerComplete \in BOOLEAN : CleanupReservation(l, workerComplete)
  BY <1>15, CleanupReservationInv DEF CleanupReservation
<1>16. CASE \E b \in Buffers : CleanupBuffer(b)
  BY <1>16, CleanupBufferInv DEF CleanupBuffer
<1>17. CASE \E j \in Jobs : CleanupJob(j)
  BY <1>17, CleanupJobInv DEF CleanupJob
<1>18. CASE \E x \in SessionIds : CleanupSession(x)
  BY <1>18, CleanupSessionInv DEF CleanupSession
<1>19. CASE \E x \in SessionIds : CloseSession(x)
  BY <1>19, CloseSessionInv DEF CloseSession
<1>20. CASE ReapStale \/ Refresh \/ \E S \in SUBSET SessionIds : Disconnect(S)
  BY <1>20, MaintenanceInv DEF ReapStale, Refresh, Disconnect
<1>21. CASE Tick
  BY <1>21, KeepsReflexive DEF Tick
<1>22. CASE UNCHANGED vars
  BY <1>22, KeepsReflexive DEF vars
<1> QED
  BY <1>1, <1>2, <1>3, <1>4, <1>5, <1>6, <1>7, <1>8, <1>9, <1>10, <1>11, <1>12, <1>13,
     <1>14, <1>15, <1>16, <1>17, <1>18, <1>19, <1>20, <1>21, <1>22, Zenon DEF Next

\* For any number of sessions, transfers, intents, relays and any quotas and
\* lifetimes, every reachable state of the daemon satisfies Inv between
\* handlers: the tables agree, and no failed or canceled transfer is still live.
THEOREM Invariance == Spec => [](Inv(d) /\ now \in Nat)
<1>1. Init => Inv(d) /\ now \in Nat
  BY InitInv
<1>2. (Inv(d) /\ now \in Nat) /\ [Next]_vars => (Inv(d) /\ now \in Nat)'
  BY NextInv
<1> QED BY <1>1, <1>2, PTL DEF Spec

\* In every reachable state each dictionary of the daemon holds what its
\* handlers expect (TypeOK).
THEOREM TypeCorrect == Spec => []TypeOK
<1>1. Inv(d) /\ now \in Nat => TypeOK
  BY DEF Inv, Base, TypeOK
<1> QED BY <1>1, Invariance, PTL

\* In every reachable state each lease belongs to a live transfer of an open
\* session and to its current plan: _release_reservation_locked, the promotion,
\* _close_session_locked and the reapers leave none behind (LeasesBound).
THEOREM LeasesAreBound == Spec => []LeasesBound
<1>1. Inv(d) => LeasesBound
  <2> SUFFICES ASSUME Inv(d) PROVE BoundLeases(d)
    BY DEF LeasesBound
  <2>1. \A k, l \in d.leases : k.transfer = l.transfer /\ k.relay = l.relay => k = l
    BY DEF Inv, Base, Held
  <2>2. \A l \in d.leases :
          /\ d.transfer[l.transfer].state \in {"submitted", "running", "complete"}
          /\ l.session \in Open(d)
    <3> TAKE l \in d.leases
    <3>1. l.transfer \in Live(d) /\ l.transfer \in Transfers /\ l.session = d.transfer[l.transfer].session
      BY DEF Inv, Base, Held, Live
    <3>2. d.transfer[l.transfer].state \in States
      BY <3>1 DEF Inv, Base, Types, TransferRec, Live
    <3>3. d.transfer[l.transfer].state \notin {"failed", "canceled"}
      BY <3>1 DEF Inv, Dead
    <3>4. d.transfer[l.transfer].session \in Open(d)
      BY <3>1 DEF Inv, Base, RegisteredOwners, OwnersRegistered
    <3> QED BY <3>1, <3>2, <3>3, <3>4 DEF States, Terminal
  <2>3. \A l \in d.leases :
          LET r == d.transfer[l.transfer]
          IN /\ r.admission \in {"admitted", "expired"}
             /\ l.session = r.session /\ l.generation = r.generation
             /\ l.expires = r.expires /\ l.relay \in r.relays
    BY DEF Inv, Base, Held
  <2> QED BY <2>1, <2>2, <2>3 DEF BoundLeases
<1> QED BY <1>1, Invariance, PTL

\* In every reachable state an unfinished transfer waits for promotion without a
\* ticket or a lease, or has a ticket of its current plan generation with which
\* a worker can end it (NoTransferStranded).
THEOREM NoneStranded == Spec => []NoTransferStranded
<1>1. Inv(d) => NoTransferStranded
  <2> SUFFICES ASSUME Inv(d), NEW t \in Live(d)
               PROVE  LET r == d.transfer[t]
                      IN \/ /\ r.state = "submitted" /\ r.admission = "delayed"
                            /\ r.ticket = 0 /\ t \notin Leased(d)
                         \/ /\ r.state \in {"submitted", "running"}
                            /\ r.admission \in {"admitted", "expired"}
                            /\ r.ticket = r.generation
                         \/ r.state = "complete" /\ r.ticket = 0
    BY DEF NoTransferStranded, NotStranded
  <2>1. Runs(d.transfer[t]) /\ t \in Transfers
    BY DEF Inv, Base, Runnable, Live
  <2>2. d.transfer[t].state \notin {"failed", "canceled"}
    BY <2>1 DEF Inv, Dead
  <2>3. d.transfer[t].admission = "delayed" => t \notin Leased(d)
    BY DEF Inv, Base, Held, Leased
  <2> QED BY <2>1, <2>2, <2>3 DEF Runs, Terminal
<1> QED BY <1>1, Invariance, PTL

\* In every reachable state the session, job and buffers of a transfer that can still
\* run are registered: no cleanup leaves a transfer behind without its owners.
THEOREM OwnersStay == Spec => []OwnersStayRegistered
<1>1. Inv(d) => OwnersStayRegistered
  BY DEF Inv, Base, OwnersStayRegistered
<1> QED BY <1>1, Invariance, PTL

\* In every reachable state an intent id leads to the one transfer that serves it,
\* whatever order of retries, retirements and evictions came before.
THEOREM OneTransfer == Spec => []OneTransferPerIntent
<1>1. Inv(d) => OneTransferPerIntent
  BY DEF Inv, Base, OneTransferPerIntent
<1> QED BY <1>1, Invariance, PTL

\* In every reachable state what was issued and is no longer live is archived: a
\* retirement loses no outcome that a retry may still ask for.
THEOREM OutcomesArchive == Spec => []OutcomesArchived
<1>1. Inv(d) => OutcomesArchived
  BY DEF Inv, Base, OutcomesArchived
<1> QED BY <1>1, Invariance, PTL

\* No handler changes a receipt that shows a terminal state, neither a late
\* report of a worker nor a lease expiry, a cleanup or a retry (TerminalIsFinal).
THEOREM TerminalStates == Spec => TerminalIsFinal
<1>1. Inv(d) /\ now \in Nat /\ [Next]_vars =>
        [\A t \in Transfers :
           Outcome(d, t).state \in Terminal => Outcome(d', t) = Outcome(d, t)]_vars
  <2> SUFFICES ASSUME Inv(d), now \in Nat, [Next]_vars, NEW t \in Transfers,
                      Outcome(d, t).state \in Terminal
               PROVE  Outcome(d', t) = Outcome(d, t)
    OBVIOUS
  <2>1. ReceiptStep
    BY NextInv
  <2>2. CASE Keeps(d, d')
    BY <2>2 DEF Keeps
  <2>3. ASSUME NEW m, NEW i \in Intents, NEW u \in Transfers, Keeps(d, m), AcceptsIntent(m, d', i, u)
        PROVE  Outcome(d', t) = Outcome(d, t)
    <3>1. Outcome(m, t) = Outcome(d, t)
      BY <2>3 DEF Keeps
    <3>2. t # u
      BY <2>3, <3>1 DEF AcceptsIntent, Terminal
    <3> QED BY <2>3, <3>1, <3>2 DEF AcceptsIntent
  <2>4. ASSUME NEW m, NEW u \in Transfers, Completes(d, m, u), Keeps(m, d')
        PROVE  Outcome(d', t) = Outcome(d, t)
    <3>1. t # u /\ Outcome(m, t) = Outcome(d, t)
      BY <2>4 DEF Completes
    <3> QED BY <2>4, <3>1 DEF Keeps
  <2> QED BY <2>1, <2>2, <2>3, <2>4 DEF ReceiptStep
<1> QED BY <1>1, Invariance, PTL DEF Spec, TerminalIsFinal

\* transfer_status records a completion only under a valid admission, with a
\* ticket of the current plan and every byte reported (CompletionIsValid).
THEOREM Completion == Spec => CompletionIsValid
<1>1. Inv(d) /\ now \in Nat /\ [Next]_vars =>
        [\A t \in Transfers :
           Outcome(d', t).state = "complete" /\ Outcome(d, t).state # "complete" =>
              /\ Outcome(d', t).bytes = TotalBytes
              /\ AdmissionValid(d, t)
              /\ d.transfer[t].ticket = d.transfer[t].generation]_vars
  <2> SUFFICES ASSUME Inv(d), now \in Nat, [Next]_vars, NEW t \in Transfers,
                      Outcome(d', t).state = "complete", Outcome(d, t).state # "complete"
               PROVE  /\ Outcome(d', t).bytes = TotalBytes
                      /\ AdmissionValid(d, t)
                      /\ d.transfer[t].ticket = d.transfer[t].generation
    OBVIOUS
  <2>1. ReceiptStep
    BY NextInv
  <2>2. CASE Keeps(d, d')
    BY <2>2 DEF Keeps
  <2>3. ASSUME NEW m, NEW i \in Intents, NEW u \in Transfers, Keeps(d, m), AcceptsIntent(m, d', i, u)
        PROVE  FALSE
    <3>1. t # u
      BY <2>3 DEF AcceptsIntent
    <3>2. Outcome(m, t).state = "complete"
      BY <2>3, <3>1 DEF AcceptsIntent
    <3> QED BY <2>3, <3>2 DEF Keeps
  <2>4. ASSUME NEW m, NEW u \in Transfers, NEW bytes \in Nat, ReportComplete(u, bytes),
               Completes(d, m, u), Keeps(m, d')
        PROVE  /\ Outcome(d', t).bytes = TotalBytes
               /\ AdmissionValid(d, t)
               /\ d.transfer[t].ticket = d.transfer[t].generation
    <3>1. Outcome(m, t).state = "complete"
      BY <2>4 DEF Keeps
    <3>2. t = u
      BY <2>4, <3>1 DEF Completes
    <3>3. Outcome(m, t) = [state |-> "complete", bytes |-> TotalBytes]
      BY <2>4, <3>2 DEF Completes
    <3>4. Outcome(d', t) = Outcome(m, t)
      BY <2>4, <3>3 DEF Keeps, Terminal
    <3>5. t \in Live(d) \ Finished(d) /\ AdmissionValid(d, t)
      BY <2>4, <3>2 DEF ReportComplete
    <3>6. d.transfer[t].ticket = d.transfer[t].generation
      BY <3>5, UnfinishedState DEF AdmissionValid
    <3> QED BY <3>3, <3>4, <3>5, <3>6
  <2> QED BY <2>1, <2>2, <2>3, <2>4 DEF ReceiptStep
<1> QED BY <1>1, Invariance, PTL DEF Spec, CompletionIsValid

-----------------------------------------------------------------------------
\* Refinement.

\* The ledger outcome of a transfer, read off its receipt.
LEMMA LedgerValues ==
    ASSUME NEW t \in Transfers
    PROVE  /\ Outcome(d, t).state = "absent" => LedgerOutcome[t] = "unknown"
           /\ Outcome(d, t).state \in Terminal => LedgerOutcome[t] = Outcome(d, t).state
           /\ Outcome(d, t).state \notin Terminal \cup {"absent"} => LedgerOutcome[t] = "pending"
  BY DEF LedgerOutcome, Terminal

\* What the ledger sees of a step that keeps the receipts.
LEMMA LedgerKeeps ==
    ASSUME NEW s, NEW e, Keeps(s, e)
    PROVE  \A t \in Transfers :
             \/ Outcome(s, t).state \in Terminal /\ Outcome(e, t).state = Outcome(s, t).state
             \/ Outcome(s, t).state = "absent" /\ Outcome(e, t).state = "absent"
             \/ /\ Outcome(s, t).state \notin Terminal \cup {"absent"}
                /\ Outcome(e, t).state # "absent"
  BY DEF Keeps, Terminal

\* What the ledger shows is a ledger's outcome.
LEMMA LedgerShows == LedgerOutcome' \in [Transfers -> Ledger!Outcomes]
<1>1. ASSUME NEW t \in Transfers
      PROVE  LedgerOutcome'[t] \in Ledger!Outcomes
  BY <1>1 DEF LedgerOutcome, Ledger!Outcomes, Ledger!Ends, Terminal
<1>2. LedgerOutcome' = [t \in Transfers |-> LedgerOutcome'[t]]
  BY DEF LedgerOutcome
<1>3. QED
  BY <1>1, <1>2

\* The ledger's step, read off the receipts before and after.
LEMMA LedgerEnd ==
    ASSUME \A t \in Transfers :
             \/ LedgerOutcome'[t] = LedgerOutcome[t]
             \/ LedgerOutcome[t] = "pending" /\ LedgerOutcome'[t] \in Terminal,
           LedgerOwner' = LedgerOwner
    PROVE  Ledger!Next
<1>1. Ledger!MayEnd(Transfers)
  BY DEF Ledger!MayEnd, Ledger!Ends, Terminal
<1>2. QED
  BY <1>1, LedgerShows DEF Ledger!End, Ledger!Next

\* Accepting an intent is an Accept of the ledger.
LEMMA LedgerAccept ==
    ASSUME NEW i \in Intents, NEW t \in Transfers,
           LedgerOutcome[t] = "unknown", LedgerOutcome'[t] = "pending",
           \A u \in Transfers \ {t} :
             \/ LedgerOutcome'[u] = LedgerOutcome[u]
             \/ LedgerOutcome[u] = "pending" /\ LedgerOutcome'[u] \in Terminal,
           LedgerOwner[i] = None, LedgerOwner' = [LedgerOwner EXCEPT ![i] = t]
    PROVE  Ledger!Next
<1>1. Ledger!MayEnd(Transfers \ {t})
  BY DEF Ledger!MayEnd, Ledger!Ends, Terminal
<1>2. Ledger!Accept(i, t)
  BY <1>1 DEF Ledger!Accept
<1>3. QED
  BY <1>2, LedgerShows DEF Ledger!Next

\* The ledger outcome in the next state.
LEMMA LedgerValuesNext ==
    ASSUME NEW t \in Transfers
    PROVE  /\ Outcome(d', t).state = "absent" => LedgerOutcome'[t] = "unknown"
           /\ Outcome(d', t).state \in Terminal => LedgerOutcome'[t] = Outcome(d', t).state
           /\ Outcome(d', t).state \notin Terminal \cup {"absent"} => LedgerOutcome'[t] = "pending"
  BY DEF LedgerOutcome, Terminal

\* Every handler is a step of the ledger or a stutter.
LEMMA LedgerStep ==
    ASSUME ReceiptStep
    PROVE  Ledger!Next
<1>1. CASE Keeps(d, d')
  <2>1. \A t \in Transfers :
          \/ LedgerOutcome'[t] = LedgerOutcome[t]
          \/ LedgerOutcome[t] = "pending" /\ LedgerOutcome'[t] \in Terminal
    <3> TAKE t \in Transfers
    <3> QED BY <1>1, LedgerKeeps, LedgerValues, LedgerValuesNext DEF Terminal
  <2>2. LedgerOwner' = LedgerOwner
    BY <1>1 DEF LedgerOwner, Keeps
  <2> QED BY <2>1, <2>2, LedgerEnd
<1>2. ASSUME NEW m, NEW i \in Intents, NEW t \in Transfers, Keeps(d, m), AcceptsIntent(m, d', i, t)
      PROVE  Ledger!Next
  <2>1. Outcome(d, t).state = "absent" /\ Outcome(d', t).state = "submitted"
    BY <1>2, LedgerKeeps DEF AcceptsIntent, Terminal
  <2>2. LedgerOutcome[t] = "unknown" /\ LedgerOutcome'[t] = "pending"
    BY <2>1, LedgerValues, LedgerValuesNext DEF Terminal
  <2>3. \A u \in Transfers \ {t} :
          \/ LedgerOutcome'[u] = LedgerOutcome[u]
          \/ LedgerOutcome[u] = "pending" /\ LedgerOutcome'[u] \in Terminal
    <3> TAKE u \in Transfers \ {t}
    <3>1. Outcome(d', u) = Outcome(m, u)
      BY <1>2 DEF AcceptsIntent
    <3> QED BY <1>2, <3>1, LedgerKeeps, LedgerValues, LedgerValuesNext DEF Terminal
  <2>4. /\ Owner(d, i) = None /\ Owner(d', i) = t
        /\ \A k \in Intents \ {i} : Owner(d', k) = Owner(d, k)
    BY <1>2 DEF AcceptsIntent, Keeps
  <2>5. LedgerOwner[i] = None /\ LedgerOwner' = [LedgerOwner EXCEPT ![i] = t]
    BY <2>4 DEF LedgerOwner
  <2> QED BY <2>2, <2>3, <2>5, LedgerAccept
<1>3. ASSUME NEW m, NEW t \in Transfers, Completes(d, m, t), Keeps(m, d')
      PROVE  Ledger!Next
  <2>1. \A u \in Transfers :
          \/ LedgerOutcome'[u] = LedgerOutcome[u]
          \/ LedgerOutcome[u] = "pending" /\ LedgerOutcome'[u] \in Terminal
    <3> TAKE u \in Transfers
    <3>1. CASE u = t
      <4>1. Outcome(d, t).state \notin Terminal \cup {"absent"} /\ Outcome(m, t).state = "complete"
        BY <1>3 DEF Completes
      <4>2. Outcome(d', t).state = "complete"
        BY <1>3, <4>1 DEF Keeps, Terminal
      <4> QED BY <3>1, <4>1, <4>2, LedgerValues, LedgerValuesNext DEF Terminal
    <3>2. CASE u # t
      <4>1. Outcome(m, u) = Outcome(d, u)
        BY <1>3, <3>2 DEF Completes
      <4> QED BY <1>3, <4>1, LedgerKeeps, LedgerValues, LedgerValuesNext DEF Terminal
    <3> QED BY <3>1, <3>2
  <2>2. LedgerOwner' = LedgerOwner
    BY <1>3 DEF LedgerOwner, Keeps, Completes
  <2> QED BY <2>1, <2>2, LedgerEnd
<1> QED BY <1>1, <1>2, <1>3 DEF ReceiptStep

\* A fresh daemon is an empty ledger.
LEMMA LedgerInit ==
    ASSUME Init
    PROVE  Ledger!Init
<1>1. /\ d.transfer = [t \in Transfers |-> NoTransfer] /\ d.archive = [t \in Transfers |-> NoArchive]
      /\ d.intents = [i \in Intents |-> None] /\ d.archivedIntents = [i \in Intents |-> None]
  BY DEF Init
<1>2. \A t \in Transfers : Outcome(d, t).state = "absent"
  BY <1>1 DEF Outcome, Live, NoTransfer, NoArchive
<1>3. \A i \in Intents : Owner(d, i) = None
  BY <1>1 DEF Owner
<1>4. LedgerOutcome = [t \in Transfers |-> "unknown"]
  <2>1. \A t \in Transfers : LedgerOutcome[t] = "unknown"
    BY <1>2, LedgerValues
  <2>2. LedgerOutcome = [t \in Transfers |-> LedgerOutcome[t]]
    BY DEF LedgerOutcome
  <2> QED BY <2>1, <2>2
<1>5. LedgerOwner = [i \in Intents |-> None]
  BY <1>3 DEF LedgerOwner
<1> QED BY <1>4, <1>5 DEF Ledger!Init

\* The daemon implements the intent ledger: seen through its receipts, an intent
\* is bound to one transfer for ever and a transfer ends once.
THEOREM Refinement == Spec => LedgerSpec
<1>1. Init => Ledger!Init
  BY LedgerInit
<1>2. Inv(d) /\ now \in Nat /\ [Next]_vars => [Ledger!Next]_<<LedgerOutcome, LedgerOwner>>
  BY NextInv, LedgerStep
<1> QED BY <1>1, <1>2, Invariance, PTL DEF Spec, LedgerSpec, Ledger!Spec

-----------------------------------------------------------------------------
\* The chunk quotas.  The counters are not part of Inv, because nothing above depends on
\* them; they are followed through the same helpers and handlers.  A counter is a sum over
\* the leases, and the code keeps it by adding and subtracting, so Accounted says for every
\* session, open or not, and every relay that the counter equals the sum (a subtraction
\* then never goes below zero and AtLeast0 cuts nothing off), that the quota holds, and
\* that the leases and the issued ids are finite, without which sums mean nothing.  Good
\* adds Inv: a delayed transfer holds no lease, so a promotion charges each lease once,
\* and a staged lease keeps its identity.

\* e is s as far as leases, counters and sessions are concerned.
AccountsKept(s, e) ==
    /\ Shape(e)
    /\ e.session = s.session /\ e.sessionChunks = s.sessionChunks
    /\ e.attached = s.attached /\ e.relayChunks = s.relayChunks
    /\ e.leases = s.leases /\ e.issued = s.issued

LeasesFor(s, x) == {l \in s.leases : l.session = x}
LeasesOn(s, r)  == {l \in s.leases : l.relay = r}

\* Each counter is the sum of what the leases hold and within its quota, and every
\* capable session is attached to every relay.
CountersExact(s) ==
    /\ s.sessionChunks \in [SessionIds -> Nat]
    /\ s.relayChunks \in [Relays -> Nat]
    /\ \A x \in SessionIds : /\ s.sessionChunks[x] = ChunksOf(LeasesFor(s, x))
                             /\ s.sessionChunks[x] <= SessionMaxChunks
    /\ \A r \in Relays : /\ s.relayChunks[r] = ChunksOf(LeasesOn(s, r))
                         /\ s.relayChunks[r] <= RelayMaxChunks

AttachedExact(s) ==
    \A r \in Relays :
        /\ s.attached[r] = {x \in Open(s) : s.session[x].capable}
        /\ IsFiniteSet(s.attached[r])
        /\ Cardinality(s.attached[r]) <= RelayMaxSessions

Accounted(s) ==
    /\ IsFiniteSet(s.leases) /\ s.leases \subseteq LeaseRec
    /\ IsFiniteSet(s.issued)
    /\ CountersExact(s) /\ AttachedExact(s)

\* A state that keeps leases, counters and sessions keeps the accounts.
LEMMA KeptAccounted ==
    ASSUME NEW s, NEW e, Accounted(s), AccountsKept(s, e)
    PROVE  Accounted(e)
  BY DEF Accounted, CountersExact, AttachedExact, AccountsKept, LeasesFor, LeasesOn, Open

\* Steps that keep them compose.
LEMMA KeptTransitive ==
    ASSUME NEW s, NEW e, NEW f, AccountsKept(s, e), AccountsKept(e, f)
    PROVE  AccountsKept(s, f)
  BY DEF AccountsKept

\* The number of chunks of a set of leases.
Chunks == [l \in LeaseRec |-> l.chunks]

\* ChunksOf is a sum over the leases.
LEMMA ChunksSummed ==
    ASSUME NEW L \in SUBSET LeaseRec, IsFiniteSet(L)
    PROVE  ChunksOf(L) = SumFunctionOnSet(Chunks, L) /\ ChunksOf(L) \in Nat
<1> DEFINE v == [l \in L |-> l.chunks]
<1>1. ChunksOf(L) = SumFunctionOnSet(v, L)
  BY DEF ChunksOf, SumFunction
<1>2. \A l \in L : Chunks[l] \in Nat /\ v[l] = Chunks[l]
  BY DEF Chunks, LeaseRec
<1> HIDE DEF v
<1>3. SumFunctionOnSet(v, L) = SumFunctionOnSet(Chunks, L)
  BY <1>2, SumAgrees
<1>4. SumFunctionOnSet(Chunks, L) \in Nat
  BY <1>2, SumIsNatural
<1>5. QED
  BY <1>1, <1>3, <1>4

\* Disjoint sets of leases add up.
LEMMA ChunksAdd ==
    ASSUME NEW K \in SUBSET LeaseRec, IsFiniteSet(K), NEW L \in SUBSET LeaseRec, IsFiniteSet(L),
           K \cap L = {}
    PROVE  ChunksOf(K \cup L) = ChunksOf(K) + ChunksOf(L)
<1>1. IsFiniteSet(K \cup L) /\ K \cup L \in SUBSET LeaseRec
  BY FS_Union
<1>2. \A l \in K \cup L : Chunks[l] \in Nat
  BY DEF Chunks, LeaseRec
<1>3. SumFunctionOnSet(Chunks, K \cup L) =
          SumFunctionOnSet(Chunks, K) + SumFunctionOnSet(Chunks, L)
  BY <1>2, SumOfUnion
<1>4. QED
  BY <1>1, <1>3, ChunksSummed

\* No leases, no chunks.
LEMMA ChunksOfNone == ChunksOf({}) = 0
<1>1. IsFiniteSet({}) /\ {} \in SUBSET LeaseRec
  BY FS_EmptySet
<1>2. QED
  BY <1>1, ChunksSummed, SumOfNone

\* A set of leases is finite when it is part of a finite one.
LEMMA LeasesFinite ==
    ASSUME NEW s, Accounted(s), NEW L \in SUBSET s.leases
    PROVE  IsFiniteSet(L) /\ L \in SUBSET LeaseRec
  BY FS_Subset DEF Accounted

\* _drop_active_reservation_state_locked takes from each counter what the leases held.
LEMMA DropLeasesAccounted ==
    ASSUME NEW s, Shape(s), Accounted(s), NEW L \in SUBSET s.leases
    PROVE  LET e == DropLeases(s, L)
           IN /\ Shape(e) /\ Accounted(e)
              /\ e.leases = s.leases \ L /\ e.session = s.session
              /\ e.attached = s.attached /\ e.issued = s.issued
<1> DEFINE f == [x \in SessionIds |->
                   AtLeast0(s.sessionChunks[x] - ChunksOf({l \in L : l.session = x}))]
           g == [r \in Relays |->
                   AtLeast0(s.relayChunks[r] - ChunksOf({l \in L : l.relay = r}))]
           e == DropLeases(s, L)
<1>1. /\ Shape(e) /\ e.session = s.session /\ e.attached = s.attached /\ e.issued = s.issued
      /\ e.leases = s.leases \ L /\ e.sessionChunks = f /\ e.relayChunks = g
  <2>1. e = [s EXCEPT !.leases = s.leases \ L, !.sessionChunks = f, !.relayChunks = g]
    BY Zenon DEF DropLeases
  <2> HIDE DEF e, f, g
  <2>2. QED
    BY <2>1 DEF Shape, Fields
<1> HIDE DEF e
<1>2. IsFiniteSet(e.leases) /\ e.leases \subseteq LeaseRec
  BY <1>1, LeasesFinite
<1>3. ASSUME NEW x \in SessionIds
      PROVE  f[x] \in Nat /\ f[x] = ChunksOf(LeasesFor(e, x)) /\ f[x] <= SessionMaxChunks
  <2> DEFINE A == {l \in L : l.session = x}
             B == LeasesFor(e, x)
  <2>1. LeasesFor(s, x) = A \cup B /\ A \cap B = {} /\ A \subseteq s.leases /\ B \subseteq s.leases
    BY <1>1 DEF LeasesFor
  <2>2. f[x] = AtLeast0(s.sessionChunks[x] - ChunksOf(A))
    OBVIOUS
  <2> HIDE DEF A, B, f
  <2>3. IsFiniteSet(A) /\ IsFiniteSet(B) /\ A \in SUBSET LeaseRec /\ B \in SUBSET LeaseRec
    BY <2>1, LeasesFinite
  <2>4. ChunksOf(LeasesFor(s, x)) = ChunksOf(A) + ChunksOf(B)
    BY <2>1, <2>3, ChunksAdd
  <2>5. ChunksOf(A) \in Nat /\ ChunksOf(B) \in Nat
    BY <2>3, ChunksSummed
  <2>6. /\ s.sessionChunks[x] = ChunksOf(LeasesFor(s, x))
        /\ s.sessionChunks[x] <= SessionMaxChunks
    BY DEF Accounted, CountersExact
  <2>7. SessionMaxChunks \in Nat
    BY ConstantsAssumption
  <2>8. f[x] = ChunksOf(B)
    BY <2>2, <2>4, <2>5, <2>6 DEF AtLeast0
  <2>9. QED
    BY <2>4, <2>5, <2>6, <2>7, <2>8 DEF B
<1>4. ASSUME NEW r \in Relays
      PROVE  g[r] \in Nat /\ g[r] = ChunksOf(LeasesOn(e, r)) /\ g[r] <= RelayMaxChunks
  <2> DEFINE A == {l \in L : l.relay = r}
             B == LeasesOn(e, r)
  <2>1. LeasesOn(s, r) = A \cup B /\ A \cap B = {} /\ A \subseteq s.leases /\ B \subseteq s.leases
    BY <1>1 DEF LeasesOn
  <2>2. g[r] = AtLeast0(s.relayChunks[r] - ChunksOf(A))
    OBVIOUS
  <2> HIDE DEF A, B, g
  <2>3. IsFiniteSet(A) /\ IsFiniteSet(B) /\ A \in SUBSET LeaseRec /\ B \in SUBSET LeaseRec
    BY <2>1, LeasesFinite
  <2>4. ChunksOf(LeasesOn(s, r)) = ChunksOf(A) + ChunksOf(B)
    BY <2>1, <2>3, ChunksAdd
  <2>5. ChunksOf(A) \in Nat /\ ChunksOf(B) \in Nat
    BY <2>3, ChunksSummed
  <2>6. /\ s.relayChunks[r] = ChunksOf(LeasesOn(s, r))
        /\ s.relayChunks[r] <= RelayMaxChunks
    BY DEF Accounted, CountersExact
  <2>7. RelayMaxChunks \in Nat
    BY ConstantsAssumption
  <2>8. g[r] = ChunksOf(B)
    BY <2>2, <2>4, <2>5, <2>6 DEF AtLeast0
  <2>9. QED
    BY <2>4, <2>5, <2>6, <2>7, <2>8 DEF B
<1> HIDE DEF f, g
<1>5. f \in [SessionIds -> Nat] /\ g \in [Relays -> Nat]
  BY <1>3, <1>4 DEF f, g
<1>6. CountersExact(e)
  BY <1>1, <1>3, <1>4, <1>5 DEF CountersExact
<1>7. AttachedExact(e) /\ IsFiniteSet(e.issued)
  BY <1>1 DEF Accounted, AttachedExact, Open
<1>8. QED
  BY <1>1, <1>2, <1>6, <1>7 DEF e, Accounted

\* Marking, archiving and retiring transfers leaves the leases and counters alone.
LEMMA RetirementKeeps ==
    ASSUME NEW s, Shape(s), NEW T, NEW final
    PROVE  /\ AccountsKept(s, MarkTerminal(s, T, final)) /\ AccountsKept(s, Archive(s, T))
           /\ AccountsKept(s, RetireRuntime(s, T)) /\ AccountsKept(s, RetireCompleted(s, T))
<1>1. ASSUME NEW b, Shape(b), NEW f
      PROVE  AccountsKept(b, [b EXCEPT !.transfer = f])
  BY <1>1 DEF Shape, Fields, AccountsKept
<1>2. ASSUME NEW f, NEW g
      PROVE  AccountsKept(s, [s EXCEPT !.archive = f, !.archivedIntents = g])
  BY DEF Shape, Fields, AccountsKept
<1>3. ASSUME NEW b, Shape(b), NEW f, NEW g
      PROVE  AccountsKept(b, [b EXCEPT !.transfer = f, !.intents = g])
  BY <1>3 DEF Shape, Fields, AccountsKept
<1>4. AccountsKept(s, MarkTerminal(s, T, final))
  BY <1>1, Zenon DEF MarkTerminal
<1>5. AccountsKept(s, Archive(s, T)) /\ Shape(Archive(s, T))
  <2>1. AccountsKept(s, Archive(s, T))
    BY <1>2, Zenon DEF Archive
  <2>2. QED
    BY <2>1 DEF AccountsKept
<1>6. AccountsKept(Archive(s, T), RetireRuntime(s, T))
  BY <1>3, <1>5, Zenon DEF RetireRuntime
<1>7. AccountsKept(Archive(s, T), RetireCompleted(s, T))
  BY <1>1, <1>5, Zenon DEF RetireCompleted
<1>8. QED
  BY <1>4, <1>5, <1>6, <1>7, KeptTransitive

\* Retiring transfers is not about leases.
LEMMA RetireUnleasedKeeps ==
    ASSUME NEW s, Shape(s), NEW T
    PROVE  AccountsKept(s, RetireUnleased(s, T))
<1> DEFINE F == (T \cap Finished(s)) \ Leased(s)
           C == {t \in F : s.transfer[t].state = "complete"}
           a == RetireCompleted(s, C)
<1>1. RetireUnleased(s, T) = RetireRuntime(a, F \ C)
  BY Zenon DEF RetireUnleased
<1>2. AccountsKept(s, a)
  BY RetirementKeeps
<1> HIDE DEF a
<1>3. AccountsKept(a, RetireRuntime(a, F \ C))
  BY <1>2, RetirementKeeps DEF AccountsKept
<1>4. QED
  BY <1>1, <1>2, <1>3, KeptTransitive

\* e is s without the leases of L.
Released(s, e, L) ==
    /\ Shape(e) /\ Accounted(e)
    /\ e.leases = s.leases \ L /\ e.session = s.session
    /\ e.attached = s.attached /\ e.issued = s.issued

\* _release_reservation_locked
LEMMA ReleaseLeasesAccounted ==
    ASSUME NEW s, Shape(s), Accounted(s), NEW L \in SUBSET s.leases, NEW final
    PROVE  Released(s, ReleaseLeases(s, L, final), L)
<1> DEFINE a == DropLeases(s, L)
           freed == {l.transfer : l \in L} \ Leased(a)
           b == MarkTerminal(a, freed, final)
           e == RetireUnleased(b, freed)
<1>1. ReleaseLeases(s, L, final) = e
  BY Zenon DEF ReleaseLeases
<1>2. /\ Shape(a) /\ Accounted(a)
      /\ a.leases = s.leases \ L /\ a.session = s.session
      /\ a.attached = s.attached /\ a.issued = s.issued
  BY DropLeasesAccounted
<1> HIDE DEF a, freed
<1>3. AccountsKept(a, b)
  BY <1>2, RetirementKeeps
<1> HIDE DEF b
<1>4. AccountsKept(b, e)
  BY <1>3, RetireUnleasedKeeps DEF AccountsKept
<1> HIDE DEF e
<1>5. AccountsKept(a, e)
  BY <1>3, <1>4, KeptTransitive
<1>6. Accounted(e)
  BY <1>2, <1>5, KeptAccounted
<1>7. QED
  BY <1>1, <1>2, <1>5, <1>6 DEF AccountsKept, Released

\* Neither is canceling and forgetting them.
LEMMA CancelTransfersKeeps ==
    ASSUME NEW s, Shape(s), NEW T
    PROVE  AccountsKept(s, CancelTransfers(s, T))
<1> DEFINE a == MarkTerminal(s, T, "canceled")
<1>1. CancelTransfers(s, T) = RetireRuntime(a, T)
  BY Zenon DEF CancelTransfers
<1>2. AccountsKept(s, a)
  BY RetirementKeeps
<1> HIDE DEF a
<1>3. AccountsKept(a, RetireRuntime(a, T))
  BY <1>2, RetirementKeeps DEF AccountsKept
<1>4. QED
  BY <1>1, <1>2, <1>3, KeptTransitive

\* Releasing the leases of an owner, then forgetting its transfers.
LEMMA CancelOwnedAccounted ==
    ASSUME NEW s, Shape(s), Accounted(s), NEW L \in SUBSET s.leases, NEW T
    PROVE  Released(s, CancelTransfers(ReleaseLeases(s, L, "canceled"), T), L)
<1> DEFINE a == ReleaseLeases(s, L, "canceled")
           e == CancelTransfers(a, T)
<1>1. Released(s, a, L)
  BY ReleaseLeasesAccounted
<1> HIDE DEF a
<1>2. AccountsKept(a, e)
  BY <1>1, CancelTransfersKeeps DEF Released
<1> HIDE DEF e
<1>3. Accounted(e)
  BY <1>1, <1>2, KeptAccounted DEF Released
<1>4. Released(s, e, L)
  BY <1>1, <1>2, <1>3 DEF Released, AccountsKept
<1>5. QED
  BY <1>4 DEF a, e

\* e is s with other sessions, session counters and attachments.
ClosedAs(s, e, f, g, h) ==
    /\ Shape(e) /\ e.session = f /\ e.sessionChunks = g /\ e.attached = h
    /\ e.relayChunks = s.relayChunks /\ e.leases = s.leases /\ e.issued = s.issued

\* What _remove_session_jobs_and_buffers_locked leaves to the counters.
LEMMA ClosedFields ==
    ASSUME NEW s, Shape(s), NEW f, NEW g, NEW h, NEW j, NEW b
    PROVE  ClosedAs(s, [s EXCEPT !.session = f, !.sessionChunks = g, !.attached = h,
                                 !.jobs = j, !.buffers = b], f, g, h)
  BY DEF Shape, Fields, ClosedAs

\* _close_session_locked gives back the chunks of the session's leases and detaches
\* it from the relays.
LEMMA CloseSessionsAccounted ==
    ASSUME NEW s, Shape(s), Accounted(s), NEW S
    PROVE  /\ Shape(CloseSessions(s, S)) /\ Accounted(CloseSessions(s, S))
           /\ Open(CloseSessions(s, S)) \subseteq Open(s)
<1> DEFINE T == {t \in Live(s) : s.transfer[t].session \in S}
           L == {l \in s.leases : l.session \in S}
           J == {j \in Jobs : s.jobs[j] \in S}
           c == CancelTransfers(ReleaseLeases(s, L, "canceled"), T)
           f == [x \in SessionIds |->
                   IF x \in S THEN [NoSession EXCEPT !.state = "closed"] ELSE c.session[x]]
           g == [x \in SessionIds |-> IF x \in S THEN 0 ELSE c.sessionChunks[x]]
           h == [r \in Relays |-> c.attached[r] \ S]
           j0 == [j \in Jobs |-> IF j \in J THEN None ELSE c.jobs[j]]
           b0 == [b \in Buffers |-> IF c.buffers[b] \in J THEN None ELSE c.buffers[b]]
           e == [c EXCEPT !.session = f, !.sessionChunks = g, !.attached = h,
                          !.jobs = j0, !.buffers = b0]
<1>1. CloseSessions(s, S) = e
  BY Zenon DEF CloseSessions
<1>2. Released(s, c, L)
  BY CancelOwnedAccounted
<1> HIDE DEF c
<1>3. c.leases = {l \in s.leases : l.session \notin S} /\ c.session = s.session
  BY <1>2 DEF Released
<1> HIDE DEF L
<1>4. Shape(c) /\ Accounted(c)
  BY <1>2 DEF Released
<1>5. \A x \in SessionIds : f[x].state = "open" <=> x \notin S /\ c.session[x].state = "open"
  BY DEF NoSession
<1>6. \A x \in SessionIds \ S : f[x] = c.session[x]
  OBVIOUS
<1>7. \A x \in SessionIds : g[x] = IF x \in S THEN 0 ELSE c.sessionChunks[x]
  OBVIOUS
<1>8. \A r \in Relays : h[r] = c.attached[r] \ S
  OBVIOUS
<1>9. g \in [SessionIds -> Nat]
  BY <1>4 DEF Accounted, CountersExact
<1> HIDE DEF f, g, h, j0, b0
<1>10. /\ Shape(e) /\ e.session = f /\ e.sessionChunks = g /\ e.attached = h
       /\ e.relayChunks = c.relayChunks /\ e.leases = c.leases /\ e.issued = c.issued
  <2>1. ClosedAs(c, e, f, g, h)
    BY <1>4, ClosedFields, Zenon DEF e
  <2>2. QED
    BY <2>1 DEF ClosedAs
<1> HIDE DEF e
<1>11. ASSUME NEW x \in SessionIds
       PROVE  g[x] = ChunksOf(LeasesFor(e, x)) /\ g[x] <= SessionMaxChunks
  <2>1. CASE x \in S
    <3>1. LeasesFor(e, x) = {}
      BY <1>3, <1>10, <2>1 DEF LeasesFor
    <3>2. g[x] = 0
      BY <1>7, <2>1
    <3>3. 0 <= SessionMaxChunks
      BY ConstantsAssumption
    <3>4. QED
      BY <3>1, <3>2, <3>3, ChunksOfNone
  <2>2. CASE x \notin S
    <3>1. LeasesFor(e, x) = LeasesFor(c, x)
      BY <1>10 DEF LeasesFor
    <3>2. g[x] = c.sessionChunks[x]
      BY <1>7, <2>2
    <3>3. QED
      BY <1>4, <3>1, <3>2 DEF Accounted, CountersExact
  <2>3. QED
    BY <2>1, <2>2
<1>12. \A r \in Relays : LeasesOn(e, r) = LeasesOn(c, r)
  BY <1>10 DEF LeasesOn
<1>13. CountersExact(e)
  BY <1>4, <1>9, <1>10, <1>11, <1>12 DEF Accounted, CountersExact
<1>14. ASSUME NEW r \in Relays
       PROVE  /\ h[r] = {x \in Open(e) : e.session[x].capable}
              /\ IsFiniteSet(h[r]) /\ Cardinality(h[r]) <= RelayMaxSessions
  <2>1. /\ c.attached[r] = {x \in Open(c) : c.session[x].capable}
        /\ IsFiniteSet(c.attached[r]) /\ Cardinality(c.attached[r]) <= RelayMaxSessions
    BY <1>4 DEF Accounted, AttachedExact
  <2>2. h[r] = {x \in Open(e) : e.session[x].capable}
    BY <1>5, <1>6, <1>8, <1>10, <2>1 DEF Open
  <2>3. h[r] \subseteq c.attached[r]
    BY <1>8
  <2>4. /\ IsFiniteSet(h[r]) /\ Cardinality(h[r]) <= Cardinality(c.attached[r])
        /\ Cardinality(h[r]) \in Nat /\ Cardinality(c.attached[r]) \in Nat
    BY <2>1, <2>3, FS_Subset, FS_CardinalityType
  <2>5. QED
    BY <2>1, <2>2, <2>4, ConstantsAssumption
<1>15. AttachedExact(e)
  BY <1>10, <1>14 DEF AttachedExact
<1>16. Accounted(e)
  BY <1>4, <1>10, <1>13, <1>15 DEF Accounted
<1>17. Open(e) \subseteq Open(s)
  BY <1>3, <1>5, <1>10 DEF Open
<1>18. QED
  BY <1>1, <1>10, <1>16, <1>17

\* _reap_stale_sessions_locked closes sessions.
LEMMA ReapStaleAccounted ==
    ASSUME NEW s, Shape(s), Accounted(s)
    PROVE  /\ Shape(ReapStaleSessions(s)) /\ Accounted(ReapStaleSessions(s))
           /\ Open(ReapStaleSessions(s)) \subseteq Open(s)
  BY CloseSessionsAccounted DEF ReapStaleSessions

\* _reap_expired_leases_locked releases leases.
LEMMA ReapExpiredAccounted ==
    ASSUME NEW s, Shape(s), Accounted(s)
    PROVE  /\ Shape(ReapExpiredLeases(s)) /\ Accounted(ReapExpiredLeases(s))
           /\ Open(ReapExpiredLeases(s)) \subseteq Open(s)
<1> DEFINE L == {l \in s.leases : now > l.expires}
<1>1. Released(s, ReleaseLeases(s, L, "canceled"), L)
  BY ReleaseLeasesAccounted
<1>2. QED
  BY <1>1 DEF ReapExpiredLeases, Released, Open

-----------------------------------------------------------------------------
\* The chunks of a plan.

Pairs(T, g) == {q \in T \X Relays : g[q[1]][q[2]] > 0}
Lease(s, g, p) ==
    [transfer |-> p[1], relay |-> p[2],
     generation |-> s.transfer[p[1]].generation,
     session |-> s.transfer[p[1]].session, chunks |-> g[p[1]][p[2]],
     expires |-> now + LeaseSeconds, staged |-> None]
LeaseAt(s, T, g) == [p \in T \X Relays |-> Lease(s, g, p)]
GrantAt(T, g)    == [p \in T \X Relays |-> g[p[1]][p[2]]]

LeasesAt(s, T, g, Q) == {LeaseAt(s, T, g)[p] : p \in Q}

\* The new leases are those of the granted pairs of a transfer and a relay.
LEMMA NewLeasesImage ==
    ASSUME NEW s, NEW T, NEW g
    PROVE  NewLeases(s, T, g) = LeasesAt(s, T, g, Pairs(T, g))
  BY DEF NewLeases, LeaseAt, Lease, Pairs, LeasesAt

\* The chunks of the leases of some pairs are what the grants give those pairs.
LEMMA PairChunks ==
    ASSUME NEW s, NEW T, IsFiniteSet(T), NEW g, \A t \in T : g[t] \in Grants,
           NewLeases(s, T, g) \subseteq LeaseRec, NEW Q \in SUBSET Pairs(T, g)
    PROVE  ChunksOf(LeasesAt(s, T, g, Q)) = SumFunctionOnSet(GrantAt(T, g), Q)
<1> DEFINE m == LeaseAt(s, T, g)
           w == GrantAt(T, g)
           M == {m[p] : p \in Q}
<1>1. IsFiniteSet(Q)
  BY ConstantsAssumption, FS_Product, FS_Subset DEF Pairs
<1>2. \A p, q \in Q : m[p] = m[q] => p = q
  BY DEF LeaseAt, Lease, Pairs
<1>3. M \subseteq NewLeases(s, T, g)
  BY NewLeasesImage DEF LeasesAt
<1>4. \A p \in Q : w[p] \in Nat /\ Chunks[m[p]] = w[p]
  <2> TAKE p \in Q
  <2>1. p \in T \X Relays /\ m[p] \in LeaseRec
    BY <1>3 DEF Pairs
  <2>2. w[p] = g[p[1]][p[2]] /\ m[p].chunks = g[p[1]][p[2]]
    BY <2>1 DEF LeaseAt, Lease, GrantAt
  <2>3. g[p[1]][p[2]] \in Nat
    BY <2>1, ConstantsAssumption DEF Grants
  <2>4. QED
    BY <2>1, <2>2, <2>3 DEF Chunks
<1> HIDE DEF m, w
<1>5. IsFiniteSet(M) /\ SumFunctionOnSet(Chunks, M) = SumFunctionOnSet(w, Q)
  <2> DEFINE v == Chunks
  <2> HIDE DEF v
  <2>1. \A p \in Q : w[p] \in Nat /\ v[m[p]] = w[p]
    BY <1>4 DEF v
  <2>2. IsFiniteSet({m[p] : p \in Q}) /\ SumFunctionOnSet(v, {m[p] : p \in Q}) = SumFunctionOnSet(w, Q)
    BY ONLY <1>1, <1>2, <2>1, SumOfImage
  <2>3. QED
    BY <2>2 DEF v
<1> HIDE DEF M
<1>6. ChunksOf(M) = SumFunctionOnSet(Chunks, M)
  BY <1>3, <1>5, ChunksSummed
<1>7. QED
  BY <1>5, <1>6 DEF M, m, w, LeasesAt

\* What a plan takes from a relay.
LEMMA RelayTakes ==
    ASSUME NEW s, NEW T, IsFiniteSet(T), NEW g, \A t \in T : g[t] \in Grants,
           NewLeases(s, T, g) \subseteq LeaseRec, NEW r \in Relays
    PROVE  ChunksOf({l \in NewLeases(s, T, g) : l.relay = r}) =
                SumFunctionOnSet([t \in T |-> g[t][r]], T)
<1> DEFINE w == GrantAt(T, g)
           v == [t \in T |-> g[t][r]]
           m == [t \in T |-> <<t, r>>]
           R == {m[t] : t \in T}
           Q == {p \in Pairs(T, g) : p[2] = r}
<1>1. {l \in NewLeases(s, T, g) : l.relay = r} = LeasesAt(s, T, g, Q)
  BY DEF NewLeases, LeaseAt, Lease, Pairs, LeasesAt
<1>2. ChunksOf(LeasesAt(s, T, g, Q)) = SumFunctionOnSet(w, Q)
  <2>1. Q \in SUBSET Pairs(T, g)
    OBVIOUS
  <2> HIDE DEF Q
  <2>2. QED
    BY <2>1, PairChunks
<1>3. \A t \in T : v[t] \in Nat /\ w[m[t]] = v[t]
  BY ConstantsAssumption DEF Grants, GrantAt
<1>4. \A t, u \in T : m[t] = m[u] => t = u
  OBVIOUS
<1>5. IsFiniteSet(R) /\ SumFunctionOnSet(w, R) = SumFunctionOnSet(v, T)
  <2> HIDE DEF w, v, m
  <2>1. IsFiniteSet({m[t] : t \in T}) /\ SumFunctionOnSet(w, {m[t] : t \in T}) = SumFunctionOnSet(v, T)
    BY <1>3, <1>4, SumOfImage
  <2>2. QED
    BY <2>1
<1>6. Q \in SUBSET R
  BY DEF Pairs
<1>7. (\A p \in R : w[p] \in Nat) /\ \A p \in R \ Q : w[p] = 0
  BY ConstantsAssumption DEF Grants, GrantAt, Pairs
<1> HIDE DEF w, v, m, R, Q
<1>8. SumFunctionOnSet(w, R) = SumFunctionOnSet(w, Q)
  BY <1>5, <1>6, <1>7, SumOfPart
<1>9. QED
  BY <1>1, <1>2, <1>5, <1>8 DEF v

\* The transfers of a session.
MineOf(s, T, x) == {t \in T : s.transfer[t].session = x}

\* The chunks of a session's new leases are what its plans take.
LEMMA SessionTakes ==
    ASSUME NEW s, NEW T, IsFiniteSet(T), NEW g, \A t \in T : g[t] \in Grants,
           NewLeases(s, T, g) \subseteq LeaseRec, NEW x \in SessionIds
    PROVE  ChunksOf({l \in NewLeases(s, T, g) : l.session = x}) =
                SumFunctionOnSet([t \in MineOf(s, T, x) |-> GrantSize(g[t])], MineOf(s, T, x))
<1> DEFINE w == GrantAt(T, g)
           mine == MineOf(s, T, x)
           u == [t \in mine |-> GrantSize(g[t])]
           R == mine \X Relays
           Q == {p \in Pairs(T, g) : s.transfer[p[1]].session = x}
<1>1. {l \in NewLeases(s, T, g) : l.session = x} = LeasesAt(s, T, g, Q)
  BY DEF NewLeases, LeaseAt, Lease, Pairs, LeasesAt
<1>2. ChunksOf(LeasesAt(s, T, g, Q)) = SumFunctionOnSet(w, Q)
  <2>1. Q \in SUBSET Pairs(T, g)
    OBVIOUS
  <2> HIDE DEF Q
  <2>2. QED
    BY <2>1, PairChunks
<1>3. IsFiniteSet(mine) /\ mine \subseteq T /\ IsFiniteSet(Relays)
  BY FS_Subset, ConstantsAssumption DEF MineOf
<1>4. \A t \in mine : \A r \in Relays : w[<<t, r>>] \in Nat /\ g[t][r] = w[<<t, r>>]
  BY <1>3, ConstantsAssumption DEF Grants, GrantAt
<1>5. \A t \in mine : u[t] = SumFunctionOnSet(g[t], Relays)
  <2> TAKE t \in mine
  <2>1. DOMAIN g[t] = Relays
    BY <1>3 DEF Grants
  <2>2. QED
    BY <2>1 DEF GrantSize, SumFunction
<1>6. Q \in SUBSET R
  BY DEF Pairs, MineOf
<1>7. (\A p \in R : w[p] \in Nat) /\ \A p \in R \ Q : w[p] = 0
  BY ConstantsAssumption DEF Grants, GrantAt, Pairs, MineOf
<1> HIDE DEF w, u, Q, mine
<1>8. IsFiniteSet(R) /\ SumFunctionOnSet(w, R) = SumFunctionOnSet(u, mine)
  <2>1. Table(w, g, u, mine, Relays)
    BY <1>4, <1>5 DEF Table
  <2>2. QED
    BY <1>3, <2>1, SumOfRows
<1> HIDE DEF R
<1>9. SumFunctionOnSet(w, R) = SumFunctionOnSet(w, Q)
  BY <1>6, <1>7, <1>8, SumOfPart
<1>10. QED
  BY <1>1, <1>2, <1>8, <1>9 DEF u, mine

\* The grants of a plan fit what the quotas have left, one after the other.
Within(s, T, g) ==
    /\ \A r \in Relays :
          (\E t \in T : g[t][r] > 0) =>
          s.relayChunks[r] + SumFunctionOnSet([t \in T |-> g[t][r]], T) <= RelayMaxChunks
    /\ \A x \in SessionIds :
          (\E t \in MineOf(s, T, x) : HoldsLease(g[t])) =>
          s.sessionChunks[x] +
              SumFunctionOnSet([t \in MineOf(s, T, x) |-> GrantSize(g[t])], MineOf(s, T, x))
            <= SessionMaxChunks

\* e is s with leases and their chunks added and sessions touched.
Charged(s, e, f, L, g, h) ==
    /\ Shape(e) /\ e.session = f /\ e.leases = L /\ e.sessionChunks = g /\ e.relayChunks = h
    /\ e.attached = s.attached /\ e.issued = s.issued

\* What _commit_scheduler_leases_locked writes to the counters.
LEMMA SetCharged ==
    ASSUME NEW s, Shape(s), NEW f, NEW L, NEW g, NEW h
    PROVE  Charged(s, [s EXCEPT !.leases = L, !.session = f, !.sessionChunks = g,
                                !.relayChunks = h], f, L, g, h)
  BY DEF Shape, Fields, Charged

\* A grant without a lease takes no chunks.
LEMMA GrantOfNone ==
    ASSUME NEW g \in Grants
    PROVE  GrantSize(g) \in Nat /\ (~HoldsLease(g) => GrantSize(g) = 0)
<1>1. \A r \in Relays : g[r] \in Nat
  BY ConstantsAssumption DEF Grants
<1>2. GrantSize(g) = SumFunctionOnSet(g, Relays)
  BY DEF GrantSize, SumFunction, Grants
<1>3. SumFunctionOnSet(g, Relays) \in Nat
  BY <1>1, SumIsNatural, ConstantsAssumption
<1>4. ASSUME ~HoldsLease(g) PROVE SumFunctionOnSet(g, Relays) = 0
  <2>1. \A r \in Relays : g[r] = 0
    BY <1>1, <1>4 DEF HoldsLease
  <2>2. QED
    BY <2>1, SumOfZeros, ConstantsAssumption
<1>5. QED
  BY <1>2, <1>3, <1>4

\* _commit_scheduler_leases_locked charges each counter with the new leases.
LEMMA CommitLeasesAccounted ==
    ASSUME NEW s, Shape(s), Accounted(s), s.session \in [SessionIds -> SessionRec],
           now \in Nat, NEW T, IsFiniteSet(T), T \cap Leased(s) = {},
           NEW g, \A t \in T : g[t] \in Grants,
           NewLeases(s, T, g) \subseteq LeaseRec, Within(s, T, g)
    PROVE  /\ Shape(CommitLeases(s, T, g)) /\ Accounted(CommitLeases(s, T, g))
           /\ Open(CommitLeases(s, T, g)) \subseteq Open(s)
<1> DEFINE new == NewLeases(s, T, g)
           f == [x \in SessionIds |->
                    s.sessionChunks[x] + ChunksOf({l \in new : l.session = x})]
           h == [r \in Relays |-> s.relayChunks[r] + ChunksOf({l \in new : l.relay = r})]
           e == CommitLeases(s, T, g)
<1>1. Charged(s, e, Touched(s, T), s.leases \cup new, f, h)
  <2>1. e = [s EXCEPT !.leases = s.leases \cup new, !.session = Touched(s, T),
                      !.sessionChunks = f, !.relayChunks = h]
    BY Zenon DEF CommitLeases, NewLeases, Touched
  <2> HIDE DEF e, f, h, new
  <2>2. QED
    BY <2>1, SetCharged, Zenon
<1> HIDE DEF e
<1>2. new \cap s.leases = {}
  <2>1. \A l \in new : l.transfer \in T
    BY NewLeasesFacts
  <2>2. QED
    BY <2>1 DEF Leased
<1>3. IsFiniteSet(new) /\ new \in SUBSET LeaseRec
  <2> DEFINE P == Pairs(T, g)
             m == LeaseAt(s, T, g)
             w == [p \in P |-> 0]
             v == [l \in LeaseRec |-> 0]
  <2>1. IsFiniteSet(P)
    BY ConstantsAssumption, FS_Product, FS_Subset DEF Pairs
  <2>2. \A p, q \in P : m[p] = m[q] => p = q
    BY DEF LeaseAt, Lease, Pairs
  <2>3. new = {m[p] : p \in P}
    BY NewLeasesImage DEF LeasesAt
  <2>4. \A p \in P : w[p] \in Nat /\ v[m[p]] = w[p]
    BY <2>3
  <2> HIDE DEF P, m, w, v, new
  <2>5. IsFiniteSet({m[p] : p \in P}) /\ SumFunctionOnSet(v, {m[p] : p \in P}) = SumFunctionOnSet(w, P)
    BY <2>1, <2>2, <2>4, SumOfImage
  <2>6. QED
    BY <2>3, <2>5 DEF new
<1>4. IsFiniteSet(s.leases) /\ s.leases \in SUBSET LeaseRec
  BY DEF Accounted
<1>5. ASSUME NEW x \in SessionIds
      PROVE  /\ f[x] \in Nat /\ f[x] <= SessionMaxChunks
             /\ f[x] = ChunksOf({l \in s.leases \cup new : l.session = x})
  <2> DEFINE A == LeasesFor(s, x)
             B == {l \in new : l.session = x}
             mine == MineOf(s, T, x)
             u == [t \in mine |-> GrantSize(g[t])]
             have == s.sessionChunks[x]
             more == ChunksOf(B)
  <2>1. {l \in s.leases \cup new : l.session = x} = A \cup B /\ A \cap B = {}
    BY <1>2 DEF LeasesFor
  <2>2. IsFiniteSet(A) /\ A \in SUBSET LeaseRec /\ IsFiniteSet(B) /\ B \in SUBSET LeaseRec
    BY <1>3, <1>4, FS_Subset DEF LeasesFor
  <2>3. more = SumFunctionOnSet(u, mine)
    BY SessionTakes
  <2>4. (\E t \in mine : HoldsLease(g[t])) => have + SumFunctionOnSet(u, mine) <= SessionMaxChunks
    BY DEF Within
  <2>5. ~(\E t \in mine : HoldsLease(g[t])) => SumFunctionOnSet(u, mine) = 0
    <3> HAVE ~(\E t \in mine : HoldsLease(g[t]))
    <3>1. IsFiniteSet(mine) /\ mine \subseteq T
      BY FS_Subset DEF MineOf
    <3>2. \A t \in mine : u[t] = 0
      BY <3>1, GrantOfNone
    <3> HIDE DEF u, mine
    <3>3. QED
      BY <3>1, <3>2, SumOfZeros
  <2>6. have \in Nat /\ have = ChunksOf(A) /\ have <= SessionMaxChunks
    BY DEF Accounted, CountersExact
  <2>7. f[x] = have + more
    OBVIOUS
  <2> HIDE DEF A, B, f, new, have, u, mine
  <2>8. ChunksOf(A \cup B) = ChunksOf(A) + more
    BY <2>1, <2>2, ChunksAdd
  <2>9. more \in Nat
    BY <2>2, ChunksSummed
  <2> HIDE DEF more
  <2>10. have + more <= SessionMaxChunks
    BY ONLY <2>3, <2>4, <2>5, <2>6, <2>9
  <2>11. have + more \in Nat
    BY ONLY <2>6, <2>9
  <2>12. QED
    BY <2>1, <2>6, <2>7, <2>8, <2>10, <2>11 DEF new
<1>6. ASSUME NEW r \in Relays
      PROVE  /\ h[r] \in Nat /\ h[r] <= RelayMaxChunks
             /\ h[r] = ChunksOf({l \in s.leases \cup new : l.relay = r})
  <2> DEFINE A == LeasesOn(s, r)
             B == {l \in new : l.relay = r}
             u == [t \in T |-> g[t][r]]
             have == s.relayChunks[r]
             more == ChunksOf(B)
  <2>1. {l \in s.leases \cup new : l.relay = r} = A \cup B /\ A \cap B = {}
    BY <1>2 DEF LeasesOn
  <2>2. IsFiniteSet(A) /\ A \in SUBSET LeaseRec /\ IsFiniteSet(B) /\ B \in SUBSET LeaseRec
    BY <1>3, <1>4, FS_Subset DEF LeasesOn
  <2>3. more = SumFunctionOnSet(u, T)
    BY RelayTakes
  <2>4. (\E t \in T : g[t][r] > 0) => have + SumFunctionOnSet(u, T) <= RelayMaxChunks
    BY DEF Within
  <2>5. ~(\E t \in T : g[t][r] > 0) => SumFunctionOnSet(u, T) = 0
    <3> HAVE ~(\E t \in T : g[t][r] > 0)
    <3>1. \A t \in T : u[t] = 0
      BY ConstantsAssumption DEF Grants
    <3> HIDE DEF u
    <3>2. QED
      BY <3>1, SumOfZeros
  <2>6. have \in Nat /\ have = ChunksOf(A) /\ have <= RelayMaxChunks
    BY DEF Accounted, CountersExact
  <2>7. h[r] = have + more
    OBVIOUS
  <2> HIDE DEF A, B, h, new, have, u
  <2>8. ChunksOf(A \cup B) = ChunksOf(A) + more
    BY <2>1, <2>2, ChunksAdd
  <2>9. more \in Nat
    BY <2>2, ChunksSummed
  <2> HIDE DEF more
  <2>10. have + more <= RelayMaxChunks
    BY ONLY <2>3, <2>4, <2>5, <2>6, <2>9
  <2>11. have + more \in Nat
    BY ONLY <2>6, <2>9
  <2>12. QED
    BY <2>1, <2>6, <2>7, <2>8, <2>10, <2>11 DEF new
<1>7. f \in [SessionIds -> Nat] /\ h \in [Relays -> Nat]
  BY <1>5, <1>6
<1> HIDE DEF f, h, new
<1>8. CountersExact(e)
  BY <1>1, <1>5, <1>6, <1>7 DEF CountersExact, Charged, LeasesFor, LeasesOn
<1>9. AttachedExact(e) /\ Open(e) \subseteq Open(s)
  <2>1. \A x \in SessionIds : /\ Touched(s, T)[x].state = s.session[x].state
                              /\ Touched(s, T)[x].capable = s.session[x].capable
    BY DEF Touched, SessionRec
  <2>2. {x \in Open(e) : e.session[x].capable} = {x \in Open(s) : s.session[x].capable}
    BY <1>1, <2>1 DEF Open, Charged
  <2>3. Open(e) \subseteq Open(s)
    BY <1>1, <2>1 DEF Open, Charged
  <2>4. QED
    BY <1>1, <2>2, <2>3 DEF AttachedExact, Charged, Accounted
<1>10. IsFiniteSet(e.leases) /\ e.leases \subseteq LeaseRec
  BY <1>1, <1>3, <1>4, FS_Union DEF Charged
<1>11. QED
  BY <1>1, <1>8, <1>9, <1>10 DEF Accounted, Charged, e

\* A new version of the transfers leaves the counters alone.
LEMMA SetTransferKeeps ==
    ASSUME NEW s, Shape(s), NEW f
    PROVE  AccountsKept(s, [s EXCEPT !.transfer = f])
  BY DEF Shape, Fields, AccountsKept

\* The transfers of a state are finitely many: their ids were issued.
LEMMA LiveFinite ==
    ASSUME NEW s, Inv(s), Accounted(s), NEW T \in SUBSET Live(s)
    PROVE  IsFiniteSet(T)
<1>1. T \subseteq s.issued
  BY DEF Inv, Base, BoundIntents
<1>2. QED
  BY <1>1, FS_Subset DEF Accounted

\* _commit_delayed_promotion_locked stays within the quotas.
LEMMA PromoteTransfersAccounted ==
    ASSUME NEW s, Inv(s), Accounted(s), now \in Nat, NEW P \in SUBSET DelayedTransfers(s),
           NEW g \in PromotionGrants(s, P)
    PROVE  /\ Accounted(PromoteTransfers(s, P, g))
           /\ Open(PromoteTransfers(s, P, g)) \subseteq Open(s)
<1> DEFINE f == [t \in Transfers |->
                   IF t \in P
                   THEN [s.transfer[t] EXCEPT !.admission = "admitted",
                           !.generation = @ + 1, !.ticket = s.transfer[t].generation + 1,
                           !.expires = PlanExpiry(g[t]),
                           !.relays = {r \in Relays : g[t][r] > 0}]
                   ELSE s.transfer[t]]
           a == [s EXCEPT !.transfer = f]
           e == CommitLeases(a, P, g)
<1>1. PromoteTransfers(s, P, g) = e
  BY Zenon DEF PromoteTransfers
<1>2. \A t \in P : g[t] \in Grants
  BY DEF PromotionGrants
<1>3. Inv(e)
  BY <1>1, <1>2, PromoteTransfersInv
<1>4. P \subseteq Live(s) /\ P \subseteq Transfers /\ IsFiniteSet(P)
  <2>1. P \subseteq Live(s) /\ P \subseteq Transfers
    BY DEF DelayedTransfers, Live
  <2>2. QED
    BY <2>1, LiveFinite
<1>5. P \cap Leased(s) = {}
  <2>1. \A l \in s.leases : s.transfer[l.transfer].admission \in {"admitted", "expired"}
    BY DEF Inv, Base, Held
  <2>2. \A t \in P : s.transfer[t].admission = "delayed"
    BY DEF DelayedTransfers
  <2>3. QED
    BY <2>1, <2>2 DEF Leased
<1>6. \A t \in P : f[t].session = s.transfer[t].session
  <2>1. \A t \in P : t \in Transfers /\ s.transfer[t] \in TransferRec
    BY <1>4 DEF Inv, Base, Types
  <2>2. QED
    BY <2>1 DEF TransferRec
<1> HIDE DEF f
<1>7. Shape(s)
  BY DEF Inv, Base
<1>8. AccountsKept(s, a) /\ a.transfer = f
  BY <1>7, SetTransferKeeps DEF Shape, Fields
<1> HIDE DEF a
<1>9. Shape(a) /\ Accounted(a) /\ a.session \in [SessionIds -> SessionRec]
  BY <1>8, KeptAccounted DEF AccountsKept, Inv, Base, Types
<1>10. P \cap Leased(a) = {}
  BY <1>5, <1>8 DEF Leased, AccountsKept
<1>11. NewLeases(a, P, g) \subseteq LeaseRec
  <2>1. e.leases = a.leases \cup NewLeases(a, P, g)
    BY <1>9, CommitLeasesFields DEF Committed
  <2>2. QED
    BY <1>3, <2>1 DEF Inv, Base, Types
<1>12. Within(a, P, g)
  <2>1. \A x \in SessionIds : MineOf(a, P, x) = {t \in P : s.transfer[t].session = x}
    BY <1>6, <1>8 DEF MineOf
  <2>2. ASSUME NEW r \in Relays, \E t \in P : g[t][r] > 0
        PROVE  s.relayChunks[r] + SumFunctionOnSet([t \in P |-> g[t][r]], P) <= RelayMaxChunks
    <3>1. s.relayChunks[r] + SumFunction([t \in P |-> g[t][r]]) <= RelayMaxChunks
      BY <2>2 DEF PromotionGrants
    <3>2. QED
      BY <3>1 DEF SumFunction
  <2>3. ASSUME NEW x \in SessionIds, \E t \in MineOf(a, P, x) : HoldsLease(g[t])
        PROVE  s.sessionChunks[x] +
                 SumFunctionOnSet([t \in MineOf(a, P, x) |-> GrantSize(g[t])], MineOf(a, P, x))
               <= SessionMaxChunks
    <3> DEFINE mine == {t \in P : s.transfer[t].session = x}
    <3>1. s.sessionChunks[x] + SumFunction([t \in mine |-> GrantSize(g[t])]) <= SessionMaxChunks
      BY <2>1, <2>3 DEF PromotionGrants
    <3>2. MineOf(a, P, x) = mine
      BY <2>1
    <3> HIDE DEF mine
    <3>3. QED
      BY <3>1, <3>2 DEF SumFunction
  <2>4. a.sessionChunks = s.sessionChunks /\ a.relayChunks = s.relayChunks
    BY <1>8 DEF AccountsKept
  <2>5. QED
    BY <2>2, <2>3, <2>4 DEF Within
<1>13. Accounted(e) /\ Open(e) \subseteq Open(a)
  BY <1>2, <1>4, <1>9, <1>10, <1>11, <1>12, CommitLeasesAccounted
<1>14. Open(a) = Open(s)
  BY <1>8 DEF AccountsKept, Open
<1>15. QED
  BY <1>1, <1>13, <1>14

\* What holds between the helpers of a handler, and how they compose: a helper opens
\* no session.
Good(s) == Inv(s) /\ Accounted(s)
GoodAfter(s, e) == Good(e) /\ Open(e) \subseteq Open(s)

\* Every outcome of _promote_delayed_transfers_locked keeps the accounts.
LEMMA PromoteDelayedGood ==
    ASSUME NEW s, Good(s), now \in Nat, NEW e \in PromoteDelayed(s)
    PROVE  GoodAfter(s, e)
<1> USE DEF GoodAfter
<1>1. CASE e = s
  BY <1>1
<1>2. CASE e # s
  <2>1. PICK P \in SUBSET DelayedTransfers(s) :
          e \in {PromoteTransfers(s, P, g) : g \in PromotionGrants(s, P)}
    BY <1>2 DEF PromoteDelayed
  <2>2. PICK g \in PromotionGrants(s, P) : e = PromoteTransfers(s, P, g)
    BY <2>1
  <2>3. Accounted(e) /\ Open(e) \subseteq Open(s)
    BY <2>2, PromoteTransfersAccounted DEF Good
  <2>4. QED
    BY <2>3, PromoteDelayedInv DEF Good
<1>3. QED
  BY <1>1, <1>2

\* _reap_stale_sessions_locked between the helpers of a handler.
LEMMA ReapStaleGood ==
    ASSUME NEW s, Good(s)
    PROVE  GoodAfter(s, ReapStaleSessions(s))
  BY ReapStaleInv, ReapStaleAccounted DEF Good, GoodAfter, Inv, Base

\* _refresh_admission_state_locked between the helpers of a handler.
LEMMA RefreshGood ==
    ASSUME NEW s, Good(s), now \in Nat, NEW e \in RefreshAdmission(s)
    PROVE  GoodAfter(s, e)
<1> DEFINE a == ReapExpiredLeases(s)
<1>1. Good(a) /\ Open(a) \subseteq Open(s)
  BY ReleaseLeasesInv, ReapExpiredAccounted DEF Good, ReapExpiredLeases, Inv, Base
<1>2. e \in PromoteDelayed(a)
  BY DEF RefreshAdmission
<1> HIDE DEF a
<1>3. QED
  BY <1>1, <1>2, PromoteDelayedGood DEF GoodAfter

\* _release_reservation_locked between the helpers of a handler.
LEMMA ReleaseLeasesGood ==
    ASSUME NEW s, Good(s), NEW L \in SUBSET s.leases, NEW final \in {"failed", "canceled"}
    PROVE  Good(ReleaseLeases(s, L, final))
  BY ReleaseLeasesInv, ReleaseLeasesAccounted DEF Good, Released, Inv, Base

\* _close_session_locked between the helpers of a handler.
LEMMA CloseSessionsGood ==
    ASSUME NEW s, Good(s), NEW S
    PROVE  GoodAfter(s, CloseSessions(s, S))
  BY CloseSessionsInv, CloseSessionsAccounted DEF Good, GoodAfter, Inv, Base

\* A step that leaves the counters, the leases and the sessions alone.
LEMMA KeptGood ==
    ASSUME NEW s, Good(s), NEW e, Inv(e), AccountsKept(s, e)
    PROVE  Good(e)
  BY KeptAccounted DEF Good

\* _register_planned_transfer_state_locked charges an admitted transfer for its leases.
LEMMA RegisterTransferGood ==
    ASSUME NEW s, Good(s), now \in Nat, NEW t \in Transfers, t \notin s.issued,
           NEW i \in Intents, Owner(s, i) = None, NEW x \in SessionIds,
           OwnersRegistered(s, i, x), NEW g \in Decisions(s, x),
           NEW admission \in {"admitted", "delayed"}, Admits(s, x, g, admission)
    PROVE  Good(RegisterTransfer(s, t, i, x, g, admission))
<1> DEFINE r0 == [state |-> "submitted", bytes |-> 0, session |-> x, intent |-> i,
                  admission |-> admission, generation |-> 1, expires |-> PlanExpiry(g),
                  relays |-> {r \in Relays : g[r] > 0}, queued |-> TRUE,
                  ticket |-> IF admission = "admitted" THEN 1 ELSE 0]
           h == [u \in {t} |-> IF admission = "admitted" THEN g ELSE [r \in Relays |-> 0]]
           I == s.issued \cup {t}
           a == [s EXCEPT !.issued = I, !.intents[i] = t, !.transfer[t] = r0]
           e == CommitLeases(a, {t}, h)
<1>1. RegisterTransfer(s, t, i, x, g, admission) = e
  BY Zenon DEF RegisterTransfer
<1>2. g \in Grants
  BY DEF Decisions
<1>3. Inv(e)
  BY <1>1, <1>2, RegisterTransferInv DEF Good
<1>4. h[t] \in Grants /\ (HoldsLease(h[t]) => admission = "admitted" /\ h[t] = g)
  <2>1. [r \in Relays |-> 0] \in Grants /\ ~HoldsLease([r \in Relays |-> 0])
    <3>1. 0 \in 0..RelayMaxChunks
      BY ConstantsAssumption
    <3>2. QED
      BY <3>1 DEF Grants, HoldsLease
  <2>2. QED
    BY <1>2, <2>1
<1> HIDE DEF h
<1>5. r0.session = x
  OBVIOUS
<1> HIDE DEF r0
<1>6. Shape(s) /\ s.transfer \in [Transfers -> TransferRec]
      /\ s.session \in [SessionIds -> SessionRec]
  BY DEF Good, Inv, Base, Types
<1>7. /\ Shape(a) /\ a.issued = I /\ a.transfer[t] = r0 /\ a.session = s.session
      /\ a.sessionChunks = s.sessionChunks /\ a.relayChunks = s.relayChunks
      /\ a.attached = s.attached /\ a.leases = s.leases
  BY <1>6 DEF Shape, Fields
<1> HIDE DEF a
<1>8. Accounted(a)
  <2>1. IsFiniteSet(I)
    BY FS_AddElement DEF Good, Accounted
  <2>2. \A y \in SessionIds : LeasesFor(a, y) = LeasesFor(s, y)
    BY <1>7 DEF LeasesFor
  <2>3. \A r \in Relays : LeasesOn(a, r) = LeasesOn(s, r)
    BY <1>7 DEF LeasesOn
  <2>4. Open(a) = Open(s)
    BY <1>7 DEF Open
  <2>5. CountersExact(a)
    BY <1>7, <2>2, <2>3 DEF Good, Accounted, CountersExact
  <2>6. AttachedExact(a)
    BY <1>7, <2>4 DEF Good, Accounted, AttachedExact
  <2>7. QED
    BY <1>7, <2>1, <2>5, <2>6 DEF Good, Accounted
<1>9. {t} \cap Leased(a) = {}
  <2>1. \A l \in s.leases : l.transfer \in s.issued
    BY DEF Good, Inv, Base, Held, BoundIntents
  <2>2. QED
    BY <1>7, <2>1 DEF Leased
<1>10. NewLeases(a, {t}, h) \subseteq LeaseRec
  <2>1. e.leases = a.leases \cup NewLeases(a, {t}, h)
    BY <1>7, CommitLeasesFields DEF Committed
  <2>2. QED
    BY <1>3, <2>1 DEF Inv, Base, Types
<1>11. \A r \in Relays : h[t][r] \in Nat
  BY <1>4, ConstantsAssumption DEF Grants
<1>12. Within(a, {t}, h)
  <2>1. ASSUME NEW r \in Relays, h[t][r] > 0
        PROVE  a.relayChunks[r] + SumFunctionOnSet([u \in {t} |-> h[u][r]], {t}) <= RelayMaxChunks
    <3> DEFINE v == [u \in {t} |-> h[u][r]]
    <3>1. v[t] = h[t][r] /\ v[t] \in Nat
      BY <1>11
    <3> HIDE DEF v
    <3>2. SumFunctionOnSet(v, {t}) = h[t][r]
      BY <3>1, SumOfOne
    <3>3. h[t] = g
      BY <1>4, <2>1 DEF HoldsLease
    <3>4. g[r] <= RelayMaxChunks - s.relayChunks[r]
      BY <2>1, <3>3 DEF Decisions
    <3>5. s.relayChunks[r] \in Nat /\ RelayMaxChunks \in Nat
      BY ConstantsAssumption DEF Good, Accounted, CountersExact
    <3>6. QED
      BY <1>7, <3>1, <3>2, <3>3, <3>4, <3>5 DEF v
  <2>2. ASSUME NEW y \in SessionIds, \E u \in MineOf(a, {t}, y) : HoldsLease(h[u])
        PROVE  a.sessionChunks[y] +
                 SumFunctionOnSet([u \in MineOf(a, {t}, y) |-> GrantSize(h[u])], MineOf(a, {t}, y))
               <= SessionMaxChunks
    <3> DEFINE v == [u \in {t} |-> GrantSize(h[u])]
    <3>1. MineOf(a, {t}, y) = {t} /\ HoldsLease(h[t]) /\ x = y
      BY <1>5, <1>7, <2>2 DEF MineOf
    <3>2. v[t] = GrantSize(h[t]) /\ v[t] \in Nat
      BY <1>4, GrantOfNone
    <3> HIDE DEF v
    <3>3. SumFunctionOnSet(v, {t}) = GrantSize(h[t])
      BY <3>2, SumOfOne
    <3>4. s.sessionChunks[x] + GrantSize(g) <= SessionMaxChunks
      BY <1>4, <3>1 DEF Admits
    <3>5. QED
      BY <1>4, <1>7, <3>1, <3>3, <3>4 DEF v
  <2>3. QED
    BY <2>1, <2>2 DEF Within
<1>13. \A u \in {t} : h[u] \in Grants
  BY <1>4
<1>14. IsFiniteSet({t}) /\ a.session \in [SessionIds -> SessionRec]
  BY <1>6, <1>7, FS_Singleton
<1>15. Accounted(e)
  BY <1>7, <1>8, <1>9, <1>10, <1>12, <1>13, <1>14, CommitLeasesAccounted
<1>16. QED
  BY <1>1, <1>3, <1>15 DEF Good

-----------------------------------------------------------------------------
\* The handlers and the chunk counters.

\* What register_session writes.
LEMMA RegisteredSession ==
    ASSUME NEW s, Shape(s), NEW x, NEW r, NEW h
    PROVE  ClosedAs(s, [s EXCEPT !.session[x] = r, !.attached = h],
                    [s.session EXCEPT ![x] = r], s.sessionChunks, h)
  BY DEF Shape, Fields, ClosedAs

\* register_session attaches a new session while the relays take one more.
LEMMA RegisterSessionGood ==
    ASSUME Good(d), now \in Nat, NEW x \in SessionIds, NEW capable \in BOOLEAN,
           RegisterSession(x, capable)
    PROVE  Good(d')
<1> DEFINE r0 == [state |-> "open", capable |-> capable, seen |-> now]
           e == d'
<1>1. PICK s \in RefreshAdmission(ReapStaleSessions(d)) :
        /\ capable => \A r \in Relays : Cardinality(s.attached[r]) < RelayMaxSessions
        /\ d' = [s EXCEPT !.session[x] = r0,
                          !.attached = [r \in Relays |->
                              IF capable THEN s.attached[r] \cup {x} ELSE s.attached[r]]]
  BY Zenon DEF RegisterSession
<1> DEFINE h == [r \in Relays |-> IF capable THEN s.attached[r] \cup {x} ELSE s.attached[r]]
           f == [s.session EXCEPT ![x] = r0]
<1>2. Good(s) /\ x \notin Open(s)
  <2>1. x \notin Open(d)
    BY DEF RegisterSession, Open
  <2>2. GoodAfter(d, ReapStaleSessions(d))
    BY ReapStaleGood
  <2>3. GoodAfter(ReapStaleSessions(d), s)
    BY <2>2, RefreshGood DEF GoodAfter
  <2>4. QED
    BY <2>1, <2>2, <2>3 DEF GoodAfter
<1>3. Inv(e)
  BY RegisterSessionInv DEF Good
<1>4. ClosedAs(s, e, f, s.sessionChunks, h)
  <2>1. Shape(s)
    BY <1>2 DEF Good, Inv, Base
  <2> HIDE DEF r0
  <2>2. QED
    BY <1>1, <2>1, RegisteredSession, Zenon
<1>5. s.session \in [SessionIds -> SessionRec]
  BY <1>2 DEF Good, Inv, Base, Types
<1>6. /\ f[x].state = "open" /\ f[x].capable = capable
      /\ \A y \in SessionIds \ {x} : f[y] = s.session[y]
  BY <1>5
<1>7. \A r \in Relays : h[r] = IF capable THEN s.attached[r] \cup {x} ELSE s.attached[r]
  OBVIOUS
<1> HIDE DEF e, f, h
<1>8. CountersExact(e)
  <2>1. \A y \in SessionIds : LeasesFor(e, y) = LeasesFor(s, y)
    BY <1>4 DEF LeasesFor, ClosedAs
  <2>2. \A r \in Relays : LeasesOn(e, r) = LeasesOn(s, r)
    BY <1>4 DEF LeasesOn, ClosedAs
  <2>3. QED
    BY <1>2, <1>4, <2>1, <2>2 DEF CountersExact, ClosedAs, Good, Accounted
<1>9. ASSUME NEW r \in Relays
      PROVE  /\ h[r] = {y \in Open(e) : e.session[y].capable}
             /\ IsFiniteSet(h[r]) /\ Cardinality(h[r]) <= RelayMaxSessions
  <2>1. /\ s.attached[r] = {y \in Open(s) : s.session[y].capable}
        /\ IsFiniteSet(s.attached[r]) /\ Cardinality(s.attached[r]) <= RelayMaxSessions
    BY <1>2 DEF Good, Accounted, AttachedExact
  <2>2. Open(e) = Open(s) \cup {x}
    BY <1>4, <1>6 DEF Open, ClosedAs
  <2>3. {y \in Open(e) : e.session[y].capable} =
            IF capable THEN s.attached[r] \cup {x} ELSE s.attached[r]
    BY <1>2, <1>4, <1>6, <2>1, <2>2 DEF ClosedAs, Open
  <2>4. CASE ~capable
    BY <1>7, <2>1, <2>3, <2>4
  <2>5. CASE capable
    <3> DEFINE A == s.attached[r]
    <3>1. x \notin A /\ IsFiniteSet(A)
      BY <1>2, <2>1
    <3>2. Cardinality(A) < RelayMaxSessions
      BY <1>1, <2>5
    <3>3. h[r] = A \cup {x}
      BY <1>7, <2>5
    <3> HIDE DEF A
    <3>4. IsFiniteSet(A \cup {x}) /\ Cardinality(A \cup {x}) = Cardinality(A) + 1
      BY ONLY <3>1, FS_AddElement
    <3>5. Cardinality(A) \in Nat /\ RelayMaxSessions \in Nat
      BY <3>1, FS_CardinalityType, ConstantsAssumption
    <3>6. Cardinality(A \cup {x}) <= RelayMaxSessions
      BY ONLY <3>2, <3>4, <3>5
    <3>7. QED
      BY <2>3, <2>5, <3>3, <3>4, <3>6 DEF A
  <2>6. QED
    BY <2>4, <2>5
<1>10. AttachedExact(e)
  BY <1>4, <1>9 DEF AttachedExact, ClosedAs
<1>11. QED
  BY <1>2, <1>3, <1>4, <1>8, <1>10 DEF Good, Accounted, ClosedAs, e

\* The owners' tables say nothing about the counters.
LEMMA SetOwnersKeeps ==
    ASSUME NEW s, Shape(s), NEW j, NEW x, NEW b, NEW i, NEW f
    PROVE  /\ AccountsKept(s, [s EXCEPT !.jobs[j] = x])
           /\ AccountsKept(s, [s EXCEPT !.buffers[b] = i])
           /\ AccountsKept(s, [s EXCEPT !.jobs[j] = x, !.buffers = f])
  BY DEF Shape, Fields, AccountsKept

\* register_job keeps the accounts.
LEMMA RegisterJobGood ==
    ASSUME Good(d), NEW j \in Jobs, NEW x \in SessionIds, RegisterJob(j, x)
    PROVE  Good(d')
<1>1. Inv(d') /\ Shape(d)
  BY RegisterJobInv DEF Good, Inv, Base
<1>2. d' = [d EXCEPT !.jobs[j] = x]
  BY DEF RegisterJob
<1>3. AccountsKept(d, d')
  BY <1>1, <1>2, SetOwnersKeeps
<1>4. QED
  BY <1>1, <1>3, KeptGood

\* What a request that first reaps the sessions and refreshes the admissions works on.
LEMMA RefreshedGood ==
    ASSUME Good(d), now \in Nat, NEW s \in RefreshAdmission(ReapStaleSessions(d))
    PROVE  Good(s) /\ Shape(s)
  BY ReapStaleGood, RefreshGood DEF GoodAfter, Good, Inv, Base

\* register_buffer keeps the accounts.
LEMMA RegisterBufferGood ==
    ASSUME Good(d), now \in Nat, NEW b \in Buffers, NEW j \in Jobs, RegisterBuffer(b, j)
    PROVE  Good(d')
<1>1. PICK s \in RefreshAdmission(ReapStaleSessions(d)) : d' = [s EXCEPT !.buffers[b] = j]
  BY Zenon DEF RegisterBuffer
<1>2. Good(s) /\ Shape(s)
  BY RefreshedGood
<1>3. AccountsKept(s, d')
  BY <1>1, <1>2, SetOwnersKeeps
<1>4. Inv(d')
  BY RegisterBufferInv DEF Good
<1>5. QED
  BY <1>2, <1>3, <1>4, KeptGood

\* submit_transfer_intent charges what the decision was allowed.
LEMMA SubmitGood ==
    ASSUME Good(d), now \in Nat, NEW i \in Intents, NEW x \in SessionIds, NEW t \in Transfers,
           SubmitTransferIntent(i, x, t)
    PROVE  Good(d')
<1>1. PICK s \in RefreshAdmission(ReapStaleSessions(d)) :
        /\ OwnersRegistered(s, i, x)
        /\ \E g \in Decisions(s, x), admission \in {"admitted", "delayed"} :
             /\ Admits(s, x, g, admission)
             /\ d' = RegisterTransfer(s, t, i, x, g, admission)
  BY Zenon DEF SubmitTransferIntent
<1>2. Inv(s) /\ Keeps(d, s) /\ Good(s)
  <2>1. Inv(ReapStaleSessions(d)) /\ Keeps(d, ReapStaleSessions(d))
    BY ReapStaleInv DEF Good
  <2>2. QED
    BY <2>1, RefreshInv, RefreshedGood, KeepsTransitive
<1>3. PICK g \in Decisions(s, x), admission \in {"admitted", "delayed"} :
        /\ Admits(s, x, g, admission)
        /\ d' = RegisterTransfer(s, t, i, x, g, admission)
  BY <1>1
<1>4. Owner(s, i) = None
  <2>1. Owner(d, i) = None
    BY IntentIsNew DEF SubmitTransferIntent, Good
  <2>2. QED
    BY <1>2, <2>1 DEF Keeps
<1>5. t \notin s.issued
  <2>1. t \notin d.issued
    BY DEF SubmitTransferIntent
  <2>2. QED
    BY <1>2, <2>1 DEF Keeps, Good, Inv, Base, ArchivedOutcomes
<1>6. QED
  BY <1>1, <1>2, <1>3, <1>4, <1>5, RegisterTransferGood

\* A new version of one transfer, however many of its fields are written.
LEMMA SetOneTransferKeeps ==
    ASSUME NEW s, Shape(s), NEW t, NEW a, NEW n, NEW m
    PROVE  /\ AccountsKept(s, [s EXCEPT !.transfer[t].ticket = m])
           /\ AccountsKept(s, [s EXCEPT !.transfer[t].admission = a])
           /\ AccountsKept(s, [s EXCEPT !.transfer[t].bytes = n])
           /\ AccountsKept(s, [s EXCEPT !.transfer[t].state = a, !.transfer[t].bytes = n])
           /\ AccountsKept(s, [s EXCEPT !.transfer[t].state = a, !.transfer[t].bytes = n,
                                !.transfer[t].ticket = m])
  BY DEF Shape, Fields, AccountsKept

\* A retried submit_transfer_intent charges nothing.
LEMMA ResubmitGood ==
    ASSUME Good(d), now \in Nat, NEW i \in Intents, NEW x \in SessionIds,
           ResubmitTransferIntent(i, x)
    PROVE  Good(d')
<1> DEFINE t == d.intents[i]
<1>1. PICK s : Good(s) /\ d' = ReissueTicket(s, t)
  <2>1. d' = ReissueTicket(d, t) \/ \E s \in RefreshAdmission(d) : d' = ReissueTicket(s, t)
    BY Zenon DEF ResubmitTransferIntent
  <2>2. \A s \in RefreshAdmission(d) : Good(s)
    BY RefreshGood DEF GoodAfter
  <2>3. QED
    BY <2>1, <2>2
<1> HIDE DEF t
<1>2. Shape(s)
  BY <1>1 DEF Good, Inv, Base
<1>3. AccountsKept(s, d')
  <2>1. CASE d' = s
    BY <1>2, <2>1 DEF AccountsKept
  <2>2. CASE d' = [s EXCEPT !.transfer[t].ticket = s.transfer[t].generation]
    BY <1>2, <2>2, SetOneTransferKeeps
  <2>3. QED
    BY <1>1, <2>1, <2>2, Zenon DEF ReissueTicket
<1>4. Inv(d')
  BY ResubmitInv DEF Good
<1>5. QED
  BY <1>1, <1>3, <1>4, KeptGood

\* validate_lease on an expired lease gives its chunks back.
LEMMA PresentExpiredLeaseGood ==
    ASSUME Good(d), NEW l \in d.leases, PresentExpiredLease(l)
    PROVE  Good(d')
<1> DEFINE s == ReapStaleSessions(d)
<1>1. l \in s.leases /\ d' = ReleaseLeases(s, {l}, "canceled")
  BY DEF PresentExpiredLease
<1>2. Good(s)
  BY ReapStaleGood DEF GoodAfter
<1> HIDE DEF s
<1>3. {l} \in SUBSET s.leases
  BY <1>1
<1>4. QED
  BY <1>1, <1>2, <1>3, ReleaseLeasesGood

\* The lazy expiry of a plan leaves its leases to the reaper.
LEMMA PresentExpiredPlanGood ==
    ASSUME Good(d), NEW t \in Transfers, PresentExpiredPlan(t)
    PROVE  Good(d')
<1>1. PICK s \in {d, ReapStaleSessions(d)} : d' = ExpireAdmission(s, t)
  BY Zenon DEF PresentExpiredPlan
<1>2. Good(s) /\ Shape(s)
  BY ReapStaleGood DEF GoodAfter, Good, Inv, Base
<1>3. AccountsKept(s, d')
  BY <1>1, <1>2, SetOneTransferKeeps DEF ExpireAdmission
<1>4. Inv(d')
  BY PresentExpiredPlanInv DEF Good
<1>5. QED
  BY <1>2, <1>3, <1>4, KeptGood

\* e is s with the leases of L.
OnlyLeases(s, e, L) ==
    /\ Shape(e) /\ e.leases = L /\ e.session = s.session /\ e.sessionChunks = s.sessionChunks
    /\ e.attached = s.attached /\ e.relayChunks = s.relayChunks /\ e.issued = s.issued

\* What authorize_worker_transfer writes, as far as the counters are concerned.
LEMMA SetLeasesOnly ==
    ASSUME NEW s, Shape(s), NEW t, NEW n, NEW L
    PROVE  OnlyLeases(s, [s EXCEPT !.transfer[t].ticket = n, !.leases = L], L)
  BY DEF Shape, Fields, OnlyLeases

\* A staging record changes neither the chunks of a lease nor whose it is.
LEMMA RestagedChunks ==
    ASSUME NEW s, Good(s), NEW K \in SUBSET s.leases, NEW related, NEW t \in Transfers
    PROVE  /\ ChunksOf(Restaged(K, related, t)) = ChunksOf(K)
           /\ IsFiniteSet(Restaged(K, related, t))
           /\ Restaged(K, related, t) \subseteq LeaseRec
<1> DEFINE m == [k \in K |-> IF k \in related THEN [k EXCEPT !.staged = t] ELSE k]
           w == Chunks
           v == Chunks
<1>1. IsFiniteSet(K) /\ K \in SUBSET LeaseRec
  BY LeasesFinite DEF Good
<1>2. Restaged(K, related, t) = {m[k] : k \in K}
  BY DEF Restaged
<1>3. \A k \in K : /\ m[k] \in LeaseRec /\ m[k].chunks = k.chunks
                   /\ m[k].transfer = k.transfer /\ m[k].relay = k.relay
  BY <1>1 DEF LeaseRec
<1>4. \A k, l \in K : k.transfer = l.transfer /\ k.relay = l.relay => k = l
  BY DEF Good, Inv, Base, Held
<1> HIDE DEF m
<1>5. \A k, l \in K : m[k] = m[l] => k = l
  BY <1>3, <1>4
<1>6. \A k \in K : w[k] \in Nat /\ v[m[k]] = w[k]
  BY <1>1, <1>3 DEF Chunks, LeaseRec
<1> HIDE DEF w, v
<1>7. IsFiniteSet({m[k] : k \in K}) /\ SumFunctionOnSet(v, {m[k] : k \in K}) = SumFunctionOnSet(w, K)
  BY ONLY <1>1, <1>5, <1>6, SumOfImage
<1>8. {m[k] : k \in K} \subseteq LeaseRec
  BY <1>3
<1> DEFINE R == {m[k] : k \in K}
<1>9. IsFiniteSet(R) /\ R \in SUBSET LeaseRec /\ SumFunctionOnSet(Chunks, R) = SumFunctionOnSet(Chunks, K)
  BY <1>7, <1>8 DEF w, v
<1>10. Restaged(K, related, t) = R
  BY <1>2
<1> HIDE DEF R
<1>11. ChunksOf(R) = ChunksOf(K)
  BY <1>1, <1>9, ChunksSummed
<1>12. QED
  BY <1>9, <1>10, <1>11

\* authorize_worker_transfer stages leases without charging them again.
LEMMA AuthorizeGood ==
    ASSUME Good(d), NEW t \in Transfers, NEW l \in d.leases, NEW explicit \in BOOLEAN,
           AuthorizeWorkerTransfer(t, l, explicit)
    PROVE  Good(d')
<1> DEFINE s == ReapStaleSessions(d)
           n == s.transfer[t].generation
           related == RelatedLeases(s, t, l, explicit)
           L == Restaged(s.leases, related, t)
           e == d'
<1>1. e = [s EXCEPT !.transfer[t].ticket = n, !.leases = L]
  BY Zenon DEF AuthorizeWorkerTransfer, Restaged
<1>2. Good(s)
  BY ReapStaleGood DEF GoodAfter
<1>3. Inv(e)
  BY AuthorizeInv DEF Good
<1> HIDE DEF s, n, related, e
<1>4. OnlyLeases(s, e, L)
  <2>1. Shape(s)
    BY <1>2 DEF Good, Inv, Base
  <2> HIDE DEF L
  <2>2. QED
    BY <1>1, <2>1, SetLeasesOnly, Zenon
<1>5. \A x \in SessionIds : LeasesFor(e, x) = Restaged(LeasesFor(s, x), related, t)
  <2> TAKE x \in SessionIds
  <2>1. \A k \in s.leases : [k EXCEPT !.staged = t].session = k.session
    BY <1>2 DEF Good, Accounted, LeaseRec
  <2>2. e.leases = {IF k \in related THEN [k EXCEPT !.staged = t] ELSE k : k \in s.leases}
    BY <1>4 DEF OnlyLeases, Restaged
  <2>3. LeasesFor(e, x) \subseteq Restaged(LeasesFor(s, x), related, t)
    BY <2>1, <2>2 DEF LeasesFor, Restaged
  <2>4. Restaged(LeasesFor(s, x), related, t) \subseteq LeasesFor(e, x)
    BY <2>1, <2>2 DEF LeasesFor, Restaged
  <2>5. QED
    BY <2>3, <2>4
<1>6. \A r \in Relays : LeasesOn(e, r) = Restaged(LeasesOn(s, r), related, t)
  <2> TAKE r \in Relays
  <2>1. \A k \in s.leases : [k EXCEPT !.staged = t].relay = k.relay
    BY <1>2 DEF Good, Accounted, LeaseRec
  <2>2. e.leases = {IF k \in related THEN [k EXCEPT !.staged = t] ELSE k : k \in s.leases}
    BY <1>4 DEF OnlyLeases, Restaged
  <2>3. LeasesOn(e, r) \subseteq Restaged(LeasesOn(s, r), related, t)
    BY <2>1, <2>2 DEF LeasesOn, Restaged
  <2>4. Restaged(LeasesOn(s, r), related, t) \subseteq LeasesOn(e, r)
    BY <2>1, <2>2 DEF LeasesOn, Restaged
  <2>5. QED
    BY <2>3, <2>4
<1>7. \A x \in SessionIds : ChunksOf(LeasesFor(e, x)) = ChunksOf(LeasesFor(s, x))
  <2> TAKE x \in SessionIds
  <2>1. LeasesFor(s, x) \in SUBSET s.leases
    BY DEF LeasesFor
  <2>2. QED
    BY <1>2, <1>5, <2>1, RestagedChunks
<1>8. \A r \in Relays : ChunksOf(LeasesOn(e, r)) = ChunksOf(LeasesOn(s, r))
  <2> TAKE r \in Relays
  <2>1. LeasesOn(s, r) \in SUBSET s.leases
    BY DEF LeasesOn
  <2>2. QED
    BY <1>2, <1>6, <2>1, RestagedChunks
<1>9. IsFiniteSet(L) /\ L \subseteq LeaseRec
  <2>1. s.leases \in SUBSET s.leases
    OBVIOUS
  <2>2. QED
    BY <1>2, <2>1, RestagedChunks
<1> HIDE DEF L
<1>10. CountersExact(e)
  BY <1>2, <1>4, <1>7, <1>8 DEF Good, Accounted, CountersExact, OnlyLeases
<1>11. AttachedExact(e)
  BY <1>2, <1>4 DEF Good, Accounted, AttachedExact, OnlyLeases, Open
<1>12. QED
  BY <1>2, <1>3, <1>4, <1>9, <1>10, <1>11 DEF Good, Accounted, OnlyLeases, e

\* Progress, supplementary evidence and recovery are only about the transfer.
LEMMA ReportProgressGood ==
    ASSUME Good(d), NEW t \in Transfers, NEW bytes \in Nat,
           \/ ReportSubmitted(t, bytes) \/ ReportRunning(t, bytes)
           \/ SupplementEvidence(t) \/ RecoverTransferState(t)
    PROVE  Good(d')
<1>1. Inv(d') /\ Shape(d)
  BY ReportSubmittedInv, ReportRunningInv, ArchivingInv DEF Good, Inv, Base
<1>2. \/ \E a : d' = [d EXCEPT !.transfer[t].state = a,
                              !.transfer[t].bytes = Reported(d, t, bytes)]
      \/ d' = Archive(d, {t})
  BY Zenon DEF ReportSubmitted, ReportRunning, SupplementEvidence, RecoverTransferState
<1>3. AccountsKept(d, d')
  <2>1. CASE \E a : d' = [d EXCEPT !.transfer[t].state = a,
                                   !.transfer[t].bytes = Reported(d, t, bytes)]
    <3> DEFINE n == Reported(d, t, bytes)
    <3>1. PICK a : d' = [d EXCEPT !.transfer[t].state = a, !.transfer[t].bytes = n]
      BY <2>1
    <3> HIDE DEF n
    <3>2. QED
      BY <1>1, <3>1, SetOneTransferKeeps
  <2>2. CASE d' = Archive(d, {t})
    BY <1>1, <2>2, RetirementKeeps
  <2>3. QED
    BY <1>2, <2>1, <2>2
<1>4. QED
  BY <1>1, <1>3, KeptGood

\* A report of COMPLETE keeps the leases and their chunks.
LEMMA ReportCompleteGood ==
    ASSUME Good(d), now \in Nat, NEW t \in Transfers, NEW bytes \in Nat,
           ReportComplete(t, bytes)
    PROVE  Good(d')
<1> DEFINE a == RetireUnleased(Done(t), {t})
<1>1. t \in Live(d) \ Finished(d) /\ d.transfer[t].admission = "admitted"
  BY DEF ReportComplete, AdmissionValid
<1>2. d' \in PromoteDelayed(a) \/ d' = a
  BY Zenon DEF ReportComplete, Done
<1>3. Good(Done(t))
  <2>1. Inv(Done(t)) /\ Shape(d)
    BY <1>1, DoneInv DEF Good, Inv, Base
  <2>2. AccountsKept(d, Done(t))
    BY <2>1, SetOneTransferKeeps DEF Done
  <2>3. QED
    BY <2>1, <2>2, KeptGood
<1>4. Good(a)
  <2>1. Inv(a) /\ Shape(Done(t))
    BY <1>3, RetireUnleasedInv DEF Good, Inv, Base
  <2>2. QED
    BY <1>3, <2>1, RetireUnleasedKeeps, KeptGood
<1> HIDE DEF a
<1>5. QED
  BY <1>2, <1>4, PromoteDelayedGood DEF GoodAfter

\* Mark a transfer, release its leases, retire it.
LEMMA FailGood ==
    ASSUME NEW s, Good(s), NEW t \in Transfers, NEW final \in {"failed", "canceled"}, NEW L,
           L = LeasesOf(s, {t})
    PROVE  Good(RetireUnleased(ReleaseLeases(MarkTerminal(s, {t}, final), L, final), {t}))
<1> DEFINE m == MarkTerminal(s, {t}, final)
           a == ReleaseLeases(m, L, final)
           e == RetireUnleased(a, {t})
<1>1. Inv(e)
  BY FailInv DEF Good
<1>2. AccountsKept(s, m) /\ Accounted(m)
  BY RetirementKeeps, KeptAccounted DEF Good, Inv, Base
<1> HIDE DEF m
<1>3. Shape(m) /\ L \in SUBSET m.leases
  BY <1>2 DEF AccountsKept, LeasesOf
<1>4. Released(m, a, L)
  BY <1>2, <1>3, ReleaseLeasesAccounted
<1> HIDE DEF a
<1>5. AccountsKept(a, e)
  BY <1>4, RetireUnleasedKeeps DEF Released
<1>6. Accounted(e)
  BY <1>4, <1>5, KeptAccounted DEF Released
<1>7. QED
  BY <1>1, <1>6 DEF Good, m, a

\* A COMPLETE with the wrong byte count gives the chunks back.
LEMMA ReportMismatchGood ==
    ASSUME Good(d), now \in Nat, NEW t \in Transfers, NEW bytes \in Nat,
           ReportMismatch(t, bytes)
    PROVE  Good(d')
<1> DEFINE L == LeasesOf(d, {t})
           e == RetireUnleased(ReleaseLeases(MarkTerminal(d, {t}, "failed"), L, "failed"), {t})
<1>1. d' \in PromoteDelayed(e)
  BY Zenon DEF ReportMismatch
<1>2. Good(e)
  BY FailGood
<1> HIDE DEF e
<1>3. QED
  BY <1>1, <1>2, PromoteDelayedGood DEF GoodAfter

\* A report of FAILED or CANCELED gives the chunks back.
LEMMA ReportFailureGood ==
    ASSUME Good(d), now \in Nat, NEW t \in Transfers, NEW bytes \in Nat,
           NEW final \in {"failed", "canceled"}, ReportFailure(t, final, bytes)
    PROVE  Good(d')
<1> DEFINE u == Counted(t, bytes)
           L == LeasesOf(d, {t})
           e == RetireUnleased(ReleaseLeases(MarkTerminal(u, {t}, final), L, final), {t})
<1>1. /\ d' \in PromoteDelayed(e) /\ t \in Live(d) \ Finished(d)
      /\ Reported(d, t, bytes) <= TotalBytes
  BY Zenon DEF ReportFailure, Counted
<1>2. Inv(u) /\ u.leases = d.leases
  BY <1>1, CountedInv DEF Good
<1>3. Good(u)
  <2>1. Shape(d)
    BY DEF Good, Inv, Base
  <2>2. AccountsKept(d, u)
    BY <2>1, SetOneTransferKeeps DEF Counted
  <2>3. QED
    BY <1>2, <2>2, KeptGood
<1> HIDE DEF u
<1>4. L = LeasesOf(u, {t})
  BY <1>2 DEF LeasesOf
<1> HIDE DEF L
<1>5. Good(e)
  BY <1>3, <1>4, FailGood
<1> HIDE DEF e
<1>6. QED
  BY <1>1, <1>5, PromoteDelayedGood DEF GoodAfter

\* cleanup of a reservation gives its chunks back, for either reason.
LEMMA CleanupReservationGood ==
    ASSUME Good(d), now \in Nat, NEW l \in d.leases, NEW workerComplete \in BOOLEAN,
           CleanupReservation(l, workerComplete)
    PROVE  Good(d')
<1> DEFINE a == DropLeases(d, {l})
           b == ReleaseLeases(d, {l}, "canceled")
<1>1. d' \in RefreshAdmission(a) \/ d' \in RefreshAdmission(b)
  BY Zenon DEF CleanupReservation
<1>2. {l} \in SUBSET d.leases
  OBVIOUS
<1>3. Good(a)
  <2>1. Base(a) /\ a.transfer = d.transfer
    BY DropLeasesBase DEF Good, Inv
  <2>2. Accounted(a)
    BY <1>2, DropLeasesAccounted DEF Good, Inv, Base
  <2> HIDE DEF a
  <2>3. QED
    BY <2>1, <2>2 DEF Good, Inv, Dead
<1>4. Good(b)
  BY <1>2, ReleaseLeasesGood
<1> HIDE DEF a, b
<1>5. QED
  BY <1>1, <1>3, <1>4, RefreshGood DEF GoodAfter

\* Canceling and forgetting transfers gives back what their leases held.
LEMMA WithoutAccounted ==
    ASSUME Good(d), NEW T
    PROVE  Shape(Without(T)) /\ Accounted(Without(T))
<1> DEFINE L == LeasesOf(d, T)
<1>1. L \in SUBSET d.leases /\ Shape(d) /\ Accounted(d)
  BY DEF LeasesOf, Good, Inv, Base
<1> HIDE DEF L
<1>2. Released(d, CancelTransfers(ReleaseLeases(d, L, "canceled"), T), L)
  BY <1>1, CancelOwnedAccounted
<1>3. QED
  BY <1>2 DEF Without, Released, L

\* cleanup of a buffer gives back what the transfers using it held.
LEMMA CleanupBufferGood ==
    ASSUME Good(d), now \in Nat, NEW b \in Buffers, CleanupBuffer(b)
    PROVE  Good(d')
<1> DEFINE c == Without({t \in Live(d) : b \in BuffersOf(d, t)})
<1>1. d' \in RefreshAdmission(WithoutBuffer(b))
  BY Zenon DEF CleanupBuffer, WithoutBuffer, Without
<1>2. Shape(c) /\ Accounted(c)
  BY WithoutAccounted
<1> HIDE DEF c
<1>3. AccountsKept(c, [c EXCEPT !.buffers[b] = None])
  BY <1>2, SetOwnersKeeps
<1>4. Accounted(WithoutBuffer(b))
  BY <1>2, <1>3, KeptAccounted, Zenon DEF WithoutBuffer, c
<1>5. Good(WithoutBuffer(b))
  BY <1>4, WithoutBufferInv DEF Good
<1>6. QED
  BY <1>1, <1>5, RefreshGood DEF GoodAfter

\* cleanup of a job gives back what its transfers held.
LEMMA CleanupJobGood ==
    ASSUME Good(d), now \in Nat, NEW j \in Jobs, CleanupJob(j)
    PROVE  Good(d')
<1> DEFINE c == Without({t \in Live(d) : JobOf(d, t) = j})
           f == [b \in Buffers |-> IF c.buffers[b] = j THEN None ELSE c.buffers[b]]
           e == [c EXCEPT !.jobs[j] = None, !.buffers = f]
<1>1. d' \in RefreshAdmission(WithoutJob(j))
  BY Zenon DEF CleanupJob, WithoutJob, Without
<1>2. WithoutJob(j) = e
  BY Zenon DEF WithoutJob
<1>3. Shape(c) /\ Accounted(c)
  BY WithoutAccounted
<1> HIDE DEF c, f
<1>4. AccountsKept(c, e)
  BY <1>3, SetOwnersKeeps
<1>5. Accounted(WithoutJob(j))
  BY <1>2, <1>3, <1>4, KeptAccounted
<1>6. Good(WithoutJob(j))
  BY <1>5, WithoutJobInv DEF Good
<1>7. QED
  BY <1>1, <1>6, RefreshGood DEF GoodAfter

\* The ends of sessions, the reapers and the refresh keep the accounts.
LEMMA SessionsGood ==
    ASSUME Good(d), now \in Nat,
           \/ \E x \in SessionIds : CleanupSession(x) \/ CloseSession(x)
           \/ \E S \in SUBSET SessionIds : Disconnect(S)
           \/ ReapStale \/ Refresh
    PROVE  Good(d')
<1>1. Good(ReapStaleSessions(d))
  BY ReapStaleGood DEF GoodAfter
<1>2. CASE \E x \in SessionIds : CleanupSession(x)
  <2>1. PICK x \in SessionIds : d' \in RefreshAdmission(CloseSessions(d, {x}))
    BY <1>2 DEF CleanupSession
  <2>2. Good(CloseSessions(d, {x}))
    BY CloseSessionsGood DEF GoodAfter
  <2>3. QED
    BY <2>1, <2>2, RefreshGood DEF GoodAfter
<1>3. CASE \E x \in SessionIds : CloseSession(x)
  <2>1. PICK x \in SessionIds : d' = CloseSessions(ReapStaleSessions(d), {x})
    BY <1>3 DEF CloseSession
  <2>2. QED
    BY <1>1, <2>1, CloseSessionsGood DEF GoodAfter
<1>4. CASE \E S \in SUBSET SessionIds : Disconnect(S)
  BY <1>4, CloseSessionsGood DEF Disconnect, GoodAfter
<1>5. CASE ReapStale
  BY <1>1, <1>5 DEF ReapStale
<1>6. CASE Refresh
  <2>1. PICK s \in {d, ReapStaleSessions(d)} : d' \in RefreshAdmission(s)
    BY <1>6 DEF Refresh
  <2>2. Good(s)
    BY <1>1
  <2>3. QED
    BY <2>1, <2>2, RefreshGood DEF GoodAfter
<1>7. QED
  BY <1>2, <1>3, <1>4, <1>5, <1>6

\* A fresh daemon holds no lease and knows no session.
LEMMA InitGood ==
    ASSUME Init
    PROVE  Good(d)
<1>1. Inv(d)
  BY InitInv
<1>2. /\ d.session = [x \in SessionIds |-> NoSession] /\ d.attached = [r \in Relays |-> {}]
      /\ d.sessionChunks = [x \in SessionIds |-> 0] /\ d.relayChunks = [r \in Relays |-> 0]
      /\ d.issued = {} /\ d.leases = {}
  BY DEF Init
<1>3. SessionMaxChunks \in Nat /\ RelayMaxChunks \in Nat /\ RelayMaxSessions \in Nat
  BY ConstantsAssumption
<1>4. CountersExact(d)
  <2>1. /\ \A x \in SessionIds : LeasesFor(d, x) = {}
        /\ \A r \in Relays : LeasesOn(d, r) = {}
    BY <1>2 DEF LeasesFor, LeasesOn
  <2>2. d.sessionChunks \in [SessionIds -> Nat] /\ d.relayChunks \in [Relays -> Nat]
    BY <1>2
  <2>3. \A x \in SessionIds : /\ d.sessionChunks[x] = ChunksOf(LeasesFor(d, x))
                              /\ d.sessionChunks[x] <= SessionMaxChunks
    BY <1>2, <1>3, <2>1, ChunksOfNone
  <2>4. \A r \in Relays : /\ d.relayChunks[r] = ChunksOf(LeasesOn(d, r))
                          /\ d.relayChunks[r] <= RelayMaxChunks
    BY <1>2, <1>3, <2>1, ChunksOfNone
  <2>5. QED
    BY <2>2, <2>3, <2>4 DEF CountersExact
<1>5. AttachedExact(d)
  <2>1. Open(d) = {}
    BY <1>2 DEF Open, NoSession
  <2>2. IsFiniteSet({}) /\ Cardinality({}) = 0
    BY FS_EmptySet
  <2>3. QED
    BY <1>2, <1>3, <2>1, <2>2 DEF AttachedExact
<1>6. QED
  BY <1>1, <1>2, <1>4, <1>5, FS_EmptySet DEF Good, Accounted

\* Every handler keeps the counters exact.
LEMMA NextGood ==
    ASSUME Good(d), now \in Nat, [Next]_vars
    PROVE  Good(d')
<1>1. 0..TotalBytes + 1 \subseteq Nat
  BY ConstantsAssumption
<1>2. CASE \E x \in SessionIds, capable \in BOOLEAN : RegisterSession(x, capable)
  BY <1>2, RegisterSessionGood
<1>3. CASE \E j \in Jobs, x \in SessionIds : RegisterJob(j, x)
  BY <1>3, RegisterJobGood
<1>4. CASE \E b \in Buffers, j \in Jobs : RegisterBuffer(b, j)
  BY <1>4, RegisterBufferGood
<1>5. CASE \E i \in Intents, x \in SessionIds, t \in Transfers : SubmitTransferIntent(i, x, t)
  BY <1>5, SubmitGood
<1>6. CASE \E i \in Intents, x \in SessionIds : ResubmitTransferIntent(i, x)
  BY <1>6, ResubmitGood
<1>7. CASE \E l \in d.leases : PresentExpiredLease(l)
  BY <1>7, PresentExpiredLeaseGood
<1>8. CASE \E t \in Transfers : PresentExpiredPlan(t)
  BY <1>8, PresentExpiredPlanGood
<1>9. CASE \E t \in Transfers, l \in d.leases, explicit \in BOOLEAN :
             AuthorizeWorkerTransfer(t, l, explicit)
  BY <1>9, AuthorizeGood
<1>10. CASE \E t \in Transfers, bytes \in 0..TotalBytes + 1 :
              ReportSubmitted(t, bytes) \/ ReportRunning(t, bytes)
  BY <1>1, <1>10, ReportProgressGood
<1>11. CASE \E t \in Transfers, bytes \in 0..TotalBytes + 1 : ReportComplete(t, bytes)
  BY <1>1, <1>11, ReportCompleteGood
<1>12. CASE \E t \in Transfers, bytes \in 0..TotalBytes + 1 : ReportMismatch(t, bytes)
  BY <1>1, <1>12, ReportMismatchGood
<1>13. CASE \E t \in Transfers, bytes \in 0..TotalBytes + 1, final \in {"failed", "canceled"} :
              ReportFailure(t, final, bytes)
  BY <1>1, <1>13, ReportFailureGood
<1>14. CASE \E t \in Transfers : SupplementEvidence(t) \/ RecoverTransferState(t)
  <2>1. 0 \in Nat
    OBVIOUS
  <2>2. QED
    BY <1>14, <2>1, ReportProgressGood
<1>15. CASE \E l \in d.leases, workerComplete \in BOOLEAN : CleanupReservation(l, workerComplete)
  BY <1>15, CleanupReservationGood
<1>16. CASE \E b \in Buffers : CleanupBuffer(b)
  BY <1>16, CleanupBufferGood
<1>17. CASE \E j \in Jobs : CleanupJob(j)
  BY <1>17, CleanupJobGood
<1>18. CASE \/ \E x \in SessionIds : CleanupSession(x) \/ CloseSession(x)
            \/ \E S \in SUBSET SessionIds : Disconnect(S)
            \/ ReapStale \/ Refresh
  BY <1>18, SessionsGood
<1>19. CASE Tick \/ UNCHANGED vars
  BY <1>19 DEF Tick, vars
<1>20. QED
  BY <1>2, <1>3, <1>4, <1>5, <1>6, <1>7, <1>8, <1>9, <1>10, <1>11, <1>12, <1>13,
     <1>14, <1>15, <1>16, <1>17, <1>18, <1>19, Zenon DEF Next

\* For any number of sessions and relays and any quotas, the chunk counters of sessions
\* and relays are what the live leases hold, within the quotas, and a relay serves
\* exactly the open capable sessions: no order of grants, promotions, releases, expiries
\* and session ends leaks a chunk or overdraws a quota.
THEOREM CountersMatchLeases == Spec => []QuotasExact
<1>1. Init => Good(d) /\ now \in Nat
  BY InitGood, InitInv
<1>2. (Good(d) /\ now \in Nat) /\ [Next]_vars => (Good(d) /\ now \in Nat)'
  BY NextGood, NextInv DEF Good
<1>3. Good(d) => QuotasExact
  BY DEF Good, Accounted, CountersExact, AttachedExact, LeasesFor, LeasesOn, QuotasExact, Open
<1>4. QED
  BY <1>1, <1>2, <1>3, PTL DEF Spec

-----------------------------------------------------------------------------
\* What lasts.  A transfer that the daemon has issued and that no longer waits
\* for a promotion keeps its plan for as long as it lives, and gets no lease again.

Waits(r) == r.state \in {"submitted", "running"} /\ r.admission = "delayed"

Settled(s, t) == t \in s.issued /\ ~Waits(s.transfer[t])

Holds(s, t, r) == \E l \in s.leases : l.transfer = t /\ l.relay = r

\* e comes after s.
Lasts(s, e) ==
    /\ s.issued \subseteq e.issued
    /\ \A t \in Transfers :
        /\ Settled(s, t) => ~Waits(e.transfer[t])
        /\ Settled(s, t) /\ t \in Live(e) =>
              /\ t \in Live(s)
              /\ e.transfer[t].generation = s.transfer[t].generation
              /\ e.transfer[t].relays = s.transfer[t].relays
        /\ t \in Live(e) => \/ e.transfer[t].generation > 0
                            \/ /\ t \in Live(s)
                               /\ e.transfer[t].generation = s.transfer[t].generation
        /\ \A r \in Relays : Settled(s, t) /\ Holds(e, t, r) => Holds(s, t, r)

\* A step that changes nothing.
LEMMA LastsReflexive ==
    ASSUME NEW s
    PROVE  Lasts(s, s)
  BY DEF Lasts, Settled

\* Steps compose.
LEMMA LastsTransitive ==
    ASSUME NEW s, NEW e, NEW f, Lasts(s, e), Lasts(e, f)
    PROVE  Lasts(s, f)
<1>1. \A t \in Transfers : Settled(s, t) => Settled(e, t)
  BY DEF Lasts, Settled
<1>2. s.issued \subseteq f.issued
  BY DEF Lasts
<1>3. ASSUME NEW t \in Transfers
      PROVE  /\ Settled(s, t) => ~Waits(f.transfer[t])
             /\ Settled(s, t) /\ t \in Live(f) =>
                  /\ t \in Live(s)
                  /\ f.transfer[t].generation = s.transfer[t].generation
                  /\ f.transfer[t].relays = s.transfer[t].relays
             /\ t \in Live(f) => \/ f.transfer[t].generation > 0
                                 \/ /\ t \in Live(s)
                                    /\ f.transfer[t].generation = s.transfer[t].generation
             /\ \A r \in Relays : Settled(s, t) /\ Holds(f, t, r) => Holds(s, t, r)
  BY <1>1, <1>3 DEF Lasts
<1>4. QED
  BY <1>2, <1>3 DEF Lasts

\* q is r after a change that gives no new plan.
TrimsRec(r, q) ==
    \/ q.state = "absent"
    \/ /\ r.state # "absent" /\ q.generation = r.generation /\ q.relays = r.relays
       /\ Waits(q) => Waits(r)

\* What the changes need of the tables.
Formed(s) == Shape(s) /\ s.transfer \in [Transfers -> TransferRec]

\* e is s after a change that gives no transfer a new plan or lease.
Trims(s, e) ==
    /\ Formed(e) /\ e.issued = s.issued /\ e.leases \subseteq s.leases
    /\ \A t \in Transfers : TrimsRec(s.transfer[t], e.transfer[t])

\* Nothing new.
LEMMA TrimsLasts ==
    ASSUME NEW s, NEW e, Trims(s, e)
    PROVE  Lasts(s, e)
<1>1. ASSUME NEW t \in Transfers
      PROVE  /\ Settled(s, t) => ~Waits(e.transfer[t])
             /\ t \in Live(e) =>
                  /\ t \in Live(s)
                  /\ e.transfer[t].generation = s.transfer[t].generation
                  /\ e.transfer[t].relays = s.transfer[t].relays
             /\ \A r \in Relays : Holds(e, t, r) => Holds(s, t, r)
  BY <1>1 DEF Trims, TrimsRec, Settled, Waits, Live, Holds
<1>2. QED
  BY <1>1 DEF Lasts, Trims

\* The same record, and a transfer that is gone.
LEMMA TrimsRecs ==
    ASSUME NEW r
    PROVE  TrimsRec(r, r) /\ TrimsRec(r, NoTransfer) /\ NoTransfer \in TransferRec
  BY ConstantsAssumption DEF TrimsRec, NoTransfer, TransferRec, AdmissionStates

\* A record that ended, and one that lost its ticket.
LEMMA EndedTrims ==
    ASSUME NEW r \in TransferRec
    PROVE  /\ \A final \in {"failed", "canceled"} :
                 LET q == [r EXCEPT !.state = final, !.admission = final, !.ticket = 0]
                 IN q \in TransferRec /\ (r.state # "absent" => TrimsRec(r, q))
           /\ LET q == [r EXCEPT !.ticket = 0, !.queued = FALSE]
              IN q \in TransferRec /\ TrimsRec(r, q)
  BY DEF TransferRec, TrimsRec, Waits, States, Terminal, AdmissionStates

\* The helpers of the handlers, one by one: releasing leases, ending transfers,
\* and retiring those that ended.
LEMMA HelpersTrim ==
    ASSUME NEW s, Formed(s), NEW T, NEW L, NEW final \in {"failed", "canceled"}
    PROVE  /\ Trims(s, DropLeases(s, L)) /\ Trims(s, MarkTerminal(s, T, final))
           /\ Trims(s, Archive(s, T)) /\ Trims(s, RetireRuntime(s, T))
           /\ Trims(s, RetireCompleted(s, T))
<1>1. Shape(s) /\ s.transfer \in [Transfers -> TransferRec]
  BY DEF Formed
<1>2. Trims(s, DropLeases(s, L))
  BY <1>1, DropLeasesFields, TrimsRecs DEF Update, Trims, Formed
<1>3. Trims(s, MarkTerminal(s, T, final))
  <2>1. ASSUME NEW t \in Transfers PROVE /\ TrimsRec(s.transfer[t], Marked(s, T, final)[t])
                                     /\ Marked(s, T, final)[t] \in TransferRec
    <3>1. CASE t \in (T \cap Live(s)) \ Finished(s)
      <4>1. s.transfer[t] \in TransferRec /\ s.transfer[t].state # "absent"
        BY <1>1, <3>1 DEF Live
      <4>2. Marked(s, T, final)[t] =
              [s.transfer[t] EXCEPT !.state = final, !.admission = final, !.ticket = 0]
        BY <3>1, Zenon DEF Marked
      <4>3. QED
        BY <4>1, <4>2, EndedTrims
    <3>2. CASE t \notin (T \cap Live(s)) \ Finished(s)
      <4>1. Marked(s, T, final)[t] = s.transfer[t]
        BY <3>2, Zenon DEF Marked
      <4>2. QED
        BY <1>1, <4>1, TrimsRecs
    <3>3. QED
      BY <3>1, <3>2
  <2>2. Marked(s, T, final) \in [Transfers -> TransferRec]
    BY <2>1 DEF Marked
  <2>3. QED
    BY <1>1, <2>1, <2>2, MarkTerminalFields DEF Update, Trims, Formed
<1>4. LET a == Archive(s, T)
      IN /\ Shape(a) /\ a.issued = s.issued /\ a.leases = s.leases /\ a.transfer = s.transfer
  BY <1>1, ArchiveFields DEF Update
<1>5. Trims(s, Archive(s, T))
  BY <1>1, <1>4, TrimsRecs DEF Trims, Formed
<1>6. Trims(s, RetireRuntime(s, T))
  <2> DEFINE a == Archive(s, T)
             f == [t \in Transfers |-> IF t \in T THEN NoTransfer ELSE a.transfer[t]]
             g == [i \in Intents |-> IF a.intents[i] \in T THEN None ELSE a.intents[i]]
             e == RetireRuntime(s, T)
  <2>1. e = [a EXCEPT !.transfer = f, !.intents = g]
    BY Zenon DEF RetireRuntime
  <2>2. /\ \A t \in Transfers : f[t] = NoTransfer \/ f[t] = s.transfer[t]
        /\ f \in [Transfers -> TransferRec]
    BY <1>1, <1>4, TrimsRecs
  <2>3. Shape(a) /\ a.issued = s.issued /\ a.leases = s.leases
    BY <1>4
  <2> HIDE DEF a, f, g, e
  <2>4. Shape(e) /\ e.issued = a.issued /\ e.leases = a.leases /\ e.transfer = f
    <3>1. Update(a, e, f, g, a.leases, a.archive, a.archivedIntents)
      BY <2>1, <2>3, SetTransferIntents, Zenon
    <3>2. QED
      BY <3>1 DEF Update
  <2>5. QED
    BY <2>2, <2>3, <2>4, TrimsRecs DEF Trims, Formed, e
<1>7. Trims(s, RetireCompleted(s, T))
  <2> DEFINE a == Archive(s, T)
             f == [t \in Transfers |->
                     IF t \in T THEN [a.transfer[t] EXCEPT !.ticket = 0, !.queued = FALSE]
                                ELSE a.transfer[t]]
             e == RetireCompleted(s, T)
  <2>1. e = [a EXCEPT !.transfer = f]
    BY Zenon DEF RetireCompleted
  <2>2. ASSUME NEW t \in Transfers PROVE TrimsRec(s.transfer[t], f[t]) /\ f[t] \in TransferRec
    <3>1. s.transfer[t] \in TransferRec /\ a.transfer = s.transfer
      BY <1>1, <1>4
    <3>2. \/ f[t] = [s.transfer[t] EXCEPT !.ticket = 0, !.queued = FALSE]
          \/ f[t] = s.transfer[t]
      BY <3>1, Zenon
    <3>3. QED
      BY <3>1, <3>2, EndedTrims, TrimsRecs
  <2>6. f \in [Transfers -> TransferRec]
    BY <2>2
  <2>3. Shape(a) /\ a.issued = s.issued /\ a.leases = s.leases
    BY <1>4
  <2> HIDE DEF a, f, e
  <2>4. Shape(e) /\ e.issued = a.issued /\ e.leases = a.leases /\ e.transfer = f
    BY <2>1, <2>3, SetTransfer DEF Update
  <2>5. QED
    BY <2>2, <2>3, <2>4, <2>6 DEF Trims, Formed, e
<1>8. QED
  BY <1>2, <1>3, <1>5, <1>6, <1>7

\* Changes compose.
LEMMA TrimsTransitive ==
    ASSUME NEW s, NEW e, NEW f, Trims(s, e), Trims(e, f)
    PROVE  Trims(s, f)
<1>1. ASSUME NEW t \in Transfers PROVE TrimsRec(s.transfer[t], f.transfer[t])
  BY <1>1 DEF Trims, TrimsRec
<1>2. QED
  BY <1>1 DEF Trims

\* Releasing leases, and canceling and forgetting transfers.
LEMMA ReleaseTrims ==
    ASSUME NEW s, Formed(s), NEW T, NEW L, NEW final \in {"failed", "canceled"}
    PROVE  /\ Trims(s, RetireUnleased(s, T)) /\ Trims(s, ReleaseLeases(s, L, final))
           /\ Trims(s, CancelTransfers(s, T))
<1>1. ASSUME NEW b, Formed(b), NEW U PROVE Trims(b, RetireUnleased(b, U))
  <2> DEFINE F == (U \cap Finished(b)) \ Leased(b)
             C == {t \in F : b.transfer[t].state = "complete"}
             a == RetireCompleted(b, C)
  <2>1. RetireUnleased(b, U) = RetireRuntime(a, F \ C)
    BY Zenon DEF RetireUnleased
  <2>2. Trims(b, a)
    BY <1>1, HelpersTrim
  <2> HIDE DEF a
  <2>3. Trims(a, RetireRuntime(a, F \ C))
    BY <2>2, HelpersTrim DEF Trims
  <2>4. QED
    BY <2>1, <2>2, <2>3, TrimsTransitive
<1>2. Trims(s, ReleaseLeases(s, L, final))
  <2> DEFINE a == DropLeases(s, L)
             freed == {l.transfer : l \in L} \ Leased(a)
             b == MarkTerminal(a, freed, final)
  <2>1. ReleaseLeases(s, L, final) = RetireUnleased(b, freed)
    BY Zenon DEF ReleaseLeases
  <2>2. Trims(s, a)
    BY HelpersTrim
  <2> HIDE DEF a, freed
  <2>3. Trims(a, b)
    BY <2>2, HelpersTrim DEF Trims
  <2> HIDE DEF b
  <2>4. Trims(b, RetireUnleased(b, freed))
    BY <1>1, <2>3 DEF Trims
  <2>5. QED
    BY <2>1, <2>2, <2>3, <2>4, TrimsTransitive
<1>3. Trims(s, CancelTransfers(s, T))
  <2> DEFINE a == MarkTerminal(s, T, "canceled")
  <2>1. CancelTransfers(s, T) = RetireRuntime(a, T)
    BY Zenon DEF CancelTransfers
  <2>2. Trims(s, a)
    BY HelpersTrim
  <2> HIDE DEF a
  <2>3. Trims(a, RetireRuntime(a, T))
    BY <2>2, HelpersTrim DEF Trims
  <2>4. QED
    BY <2>1, <2>2, <2>3, TrimsTransitive
<1>4. QED
  BY <1>1, <1>2, <1>3

\* Other owners, the same transfers and leases.
LEMMA ReownedTrims ==
    ASSUME NEW s, Formed(s), NEW e, NEW f, NEW h, NEW j, NEW b, Reowned(s, e, f, h, j, b)
    PROVE  Trims(s, e)
  BY TrimsRecs DEF Reowned, Trims, Formed

\* _close_session_locked and the reapers
LEMMA CloseSessionsTrims ==
    ASSUME NEW s, Formed(s), NEW S
    PROVE  Trims(s, CloseSessions(s, S))
<1> DEFINE T == {t \in Live(s) : s.transfer[t].session \in S}
           L == {l \in s.leases : l.session \in S}
           J == {j \in Jobs : s.jobs[j] \in S}
           r == ReleaseLeases(s, L, "canceled")
           c == CancelTransfers(r, T)
           f == [x \in SessionIds |->
                   IF x \in S THEN [NoSession EXCEPT !.state = "closed"] ELSE c.session[x]]
           g == [x \in SessionIds |-> IF x \in S THEN 0 ELSE c.sessionChunks[x]]
           h == [q \in Relays |-> c.attached[q] \ S]
           j0 == [j \in Jobs |-> IF j \in J THEN None ELSE c.jobs[j]]
           b0 == [b \in Buffers |-> IF c.buffers[b] \in J THEN None ELSE c.buffers[b]]
           e == [c EXCEPT !.session = f, !.sessionChunks = g, !.attached = h,
                          !.jobs = j0, !.buffers = b0]
<1>1. CloseSessions(s, S) = e
  BY Zenon DEF CloseSessions
<1> HIDE DEF L, T, J
<1>2. Trims(s, r)
  BY ReleaseTrims
<1> HIDE DEF r
<1>3. Trims(r, c)
  BY <1>2, ReleaseTrims DEF Trims
<1> HIDE DEF c, f, g, h, j0, b0
<1>4. Shape(c) /\ Formed(c)
  BY <1>3 DEF Trims, Formed
<1>5. Reowned(c, e, f, h, j0, b0)
  BY <1>4, SetOwners, Zenon
<1> HIDE DEF e
<1>6. Trims(c, e)
  BY <1>4, <1>5, ReownedTrims
<1>7. QED
  BY <1>1, <1>2, <1>3, <1>6, TrimsTransitive

\* A state that trims itself, and the two reapers.
LEMMA ReapersTrim ==
    ASSUME NEW s, Formed(s)
    PROVE  /\ Trims(s, s) /\ Trims(s, ReapStaleSessions(s)) /\ Trims(s, ReapExpiredLeases(s))
<1>1. Trims(s, s)
  BY TrimsRecs DEF Trims
<1>2. Trims(s, ReapStaleSessions(s))
  BY <1>1, CloseSessionsTrims DEF ReapStaleSessions
<1>3. Trims(s, ReapExpiredLeases(s))
  BY <1>1, ReleaseTrims DEF ReapExpiredLeases
<1>4. QED
  BY <1>1, <1>2, <1>3

-----------------------------------------------------------------------------
\* Plans.

\* The leases that a commit adds belong to its transfers.
LEMMA CommitLasts ==
    ASSUME NEW s, Shape(s), NEW T, NEW g
    PROVE  LET e == CommitLeases(s, T, g)
           IN /\ Shape(e) /\ e.transfer = s.transfer /\ e.issued = s.issued
              /\ \A t \in Transfers : \A r \in Relays :
                    t \notin T /\ Holds(e, t, r) => Holds(s, t, r)
<1> DEFINE e == CommitLeases(s, T, g)
<1>1. Committed(s, e, Touched(s, T), s.leases \cup NewLeases(s, T, g))
  BY CommitLeasesFields
<1> HIDE DEF e
<1>2. \A l \in NewLeases(s, T, g) : l.transfer \in T
  BY NewLeasesFacts
<1>3. \A t \in Transfers : \A r \in Relays : t \notin T /\ Holds(e, t, r) => Holds(s, t, r)
  BY <1>1, <1>2 DEF Committed, Holds
<1>4. QED
  BY <1>1, <1>3 DEF Committed, e

\* A promotion gives a plan only to transfers that wait for one.
LEMMA PromoteTransfersLasts ==
    ASSUME NEW s, Formed(s), NEW P \in SUBSET DelayedTransfers(s), NEW g
    PROVE  Lasts(s, PromoteTransfers(s, P, g))
<1> DEFINE f == [t \in Transfers |->
                   IF t \in P
                   THEN [s.transfer[t] EXCEPT !.admission = "admitted",
                           !.generation = @ + 1, !.ticket = s.transfer[t].generation + 1,
                           !.expires = PlanExpiry(g[t]),
                           !.relays = {r \in Relays : g[t][r] > 0}]
                   ELSE s.transfer[t]]
           a == [s EXCEPT !.transfer = f]
           e == CommitLeases(a, P, g)
<1>1. PromoteTransfers(s, P, g) = e
  BY Zenon DEF PromoteTransfers
<1>2. \A t \in P : t \in Transfers /\ Waits(s.transfer[t])
  BY DEF DelayedTransfers, Live, Finished, Waits, Formed, TransferRec, States
<1>3. \A t \in Transfers \ P : f[t] = s.transfer[t]
  OBVIOUS
<1>4. \A t \in P : f[t].generation > 0
  <2> TAKE t \in P
  <2>1. s.transfer[t] \in TransferRec /\ t \in Transfers
    BY <1>2 DEF Formed
  <2>2. s.transfer[t].generation \in Nat
    BY <2>1 DEF TransferRec
  <2>3. f[t].generation = s.transfer[t].generation + 1
    BY <2>1 DEF TransferRec
  <2> HIDE DEF f
  <2>4. QED
    BY <2>2, <2>3
<1>5. Shape(s)
  BY DEF Formed
<1> HIDE DEF f
<1>6. Update(s, a, f, s.intents, s.leases, s.archive, s.archivedIntents)
  BY <1>5, SetTransfer, Zenon
<1> HIDE DEF a
<1>7. /\ e.transfer = f /\ e.issued = s.issued
      /\ \A t \in Transfers : \A r \in Relays : t \notin P /\ Holds(e, t, r) => Holds(a, t, r)
  BY <1>6, CommitLasts DEF Update
<1> HIDE DEF e
<1>8. ASSUME NEW t \in Transfers
      PROVE  /\ Settled(s, t) => t \notin P
             /\ t \notin P => \A r \in Relays : Holds(e, t, r) => Holds(s, t, r)
             /\ t \in Live(e) => e.transfer[t].generation > 0 \/ t \notin P
             /\ t \notin P => (t \in Live(e) <=> t \in Live(s))
  <2>1. Settled(s, t) => t \notin P
    BY <1>2 DEF Settled
  <2>2. \A r \in Relays : Holds(a, t, r) => Holds(s, t, r)
    BY <1>6 DEF Update, Holds
  <2>3. QED
    BY <1>3, <1>4, <1>7, <2>1, <2>2 DEF Live
<1>9. Lasts(s, e)
  BY <1>3, <1>7, <1>8 DEF Lasts, Settled
<1>10. QED
  BY <1>1, <1>9

\* _promote_delayed_transfers_locked and _refresh_admission_state_locked
LEMMA RefreshLasts ==
    ASSUME NEW s, Formed(s)
    PROVE  /\ \A e \in PromoteDelayed(s) : Lasts(s, e)
           /\ \A e \in RefreshAdmission(s) : Lasts(s, e)
<1>1. ASSUME NEW b, Formed(b), NEW e \in PromoteDelayed(b)
      PROVE  Lasts(b, e)
  <2>1. CASE e = b
    BY <2>1, LastsReflexive
  <2>2. CASE e # b
    <3>1. PICK P \in SUBSET DelayedTransfers(b) :
            e \in {PromoteTransfers(b, P, g) : g \in PromotionGrants(b, P)}
      BY <1>1, <2>2 DEF PromoteDelayed
    <3>2. PICK g \in PromotionGrants(b, P) : e = PromoteTransfers(b, P, g)
      BY <3>1
    <3>3. QED
      BY <1>1, <3>2, PromoteTransfersLasts
  <2>3. QED
    BY <2>1, <2>2
<1>2. ASSUME NEW e \in RefreshAdmission(s)
      PROVE  Lasts(s, e)
  <2> DEFINE a == ReapExpiredLeases(s)
  <2>1. Trims(s, a)
    BY ReapersTrim
  <2>2. e \in PromoteDelayed(a)
    BY <1>2 DEF RefreshAdmission
  <2> HIDE DEF a
  <2>3. Lasts(s, a) /\ Formed(a)
    BY <2>1, TrimsLasts DEF Trims
  <2>4. QED
    BY <1>1, <2>2, <2>3, LastsTransitive
<1>3. QED
  BY <1>1, <1>2

\* A new transfer has a new id.
LEMMA RegisterTransferLasts ==
    ASSUME NEW s, Formed(s), NEW t \in Transfers, t \notin s.issued, NEW i, NEW x, NEW g,
           NEW admission
    PROVE  Lasts(s, RegisterTransfer(s, t, i, x, g, admission))
<1> DEFINE admitted == admission = "admitted"
           r0 == [state |-> "submitted", bytes |-> 0, session |-> x, intent |-> i,
                  admission |-> admission, generation |-> 1, expires |-> PlanExpiry(g),
                  relays |-> {r \in Relays : g[r] > 0}, queued |-> TRUE,
                  ticket |-> IF admitted THEN 1 ELSE 0]
           h == [u \in {t} |-> IF admitted THEN g ELSE [r \in Relays |-> 0]]
           I == s.issued \cup {t}
           a == [s EXCEPT !.issued = I, !.intents[i] = t, !.transfer[t] = r0]
           e == CommitLeases(a, {t}, h)
<1>1. RegisterTransfer(s, t, i, x, g, admission) = e
  BY Zenon DEF RegisterTransfer
<1>2. Shape(s) /\ s.transfer \in [Transfers -> TransferRec]
  BY DEF Formed
<1>3. r0.generation = 1
  OBVIOUS
<1> HIDE DEF r0, I, h
<1>4. RegisteredAs(s, a, I, [s.transfer EXCEPT ![t] = r0], [s.intents EXCEPT ![i] = t])
  BY <1>2, SetRegistered, Zenon
<1> HIDE DEF a
<1>5. /\ e.transfer = a.transfer /\ e.issued = a.issued
      /\ \A u \in Transfers : \A r \in Relays : u \notin {t} /\ Holds(e, u, r) => Holds(a, u, r)
  BY <1>4, CommitLasts DEF RegisteredAs
<1> HIDE DEF e
<1>6. e.transfer[t] = r0 /\ \A u \in Transfers \ {t} : e.transfer[u] = s.transfer[u]
  BY <1>2, <1>4, <1>5 DEF RegisteredAs
<1>7. \A u \in Transfers \ {t} : \A r \in Relays : Holds(e, u, r) => Holds(s, u, r)
  BY <1>4, <1>5 DEF RegisteredAs, Holds
<1>8. ~Settled(s, t) /\ s.issued \subseteq e.issued
  BY <1>4, <1>5 DEF Settled, RegisteredAs, I
<1>9. ASSUME NEW u \in Transfers \ {t}
      PROVE  /\ Settled(s, u) => ~Waits(e.transfer[u])
             /\ u \in Live(e) <=> u \in Live(s)
  BY <1>6, <1>9 DEF Settled, Live
<1>10. Lasts(s, e)
  BY <1>3, <1>6, <1>7, <1>8, <1>9 DEF Lasts
<1>11. QED
  BY <1>1, <1>10

-----------------------------------------------------------------------------
\* The handlers.

\* Rewriting the record of one transfer.
LEMMA RewriteTrims ==
    ASSUME NEW s, Formed(s), NEW t \in Transfers, NEW r \in TransferRec, TrimsRec(s.transfer[t], r),
           NEW e, Shape(e), e.issued = s.issued, e.leases = s.leases,
           e.transfer = [s.transfer EXCEPT ![t] = r]
    PROVE  Trims(s, e)
<1>1. \A u \in Transfers : u = t \/ e.transfer[u] = s.transfer[u]
  BY DEF Formed
<1>2. e.transfer[t] = r /\ e.transfer \in [Transfers -> TransferRec]
  BY DEF Formed
<1>3. \A u \in Transfers : TrimsRec(s.transfer[u], e.transfer[u])
  BY <1>1, <1>2, TrimsRecs
<1>4. QED
  BY <1>2, <1>3 DEF Trims, Formed

\* The tables of a state that satisfies the invariant.
LEMMA InvFormed ==
    ASSUME NEW s, Inv(s)
    PROVE  Formed(s)
  BY DEF Inv, Base, Types, Formed


\* One record is written.
LEMMA SetOne ==
    ASSUME NEW s, Shape(s), NEW t, NEW r
    PROVE  Update(s, [s EXCEPT !.transfer[t] = r], [s.transfer EXCEPT ![t] = r], s.intents,
                  s.leases, s.archive, s.archivedIntents)
  BY DEF Shape, Fields, Update

\* Writing the record of a live transfer that keeps its plan.
LEMMA SetOneTrims ==
    ASSUME NEW s, Formed(s), NEW t \in Transfers, NEW r \in TransferRec, TrimsRec(s.transfer[t], r)
    PROVE  Trims(s, [s EXCEPT !.transfer[t] = r])
<1> DEFINE e == [s EXCEPT !.transfer[t] = r]
<1>1. Shape(s)
  BY DEF Formed
<1>2. Update(s, e, [s.transfer EXCEPT ![t] = r], s.intents, s.leases, s.archive, s.archivedIntents)
  BY <1>1, SetOne, Zenon
<1> HIDE DEF e
<1>3. Trims(s, e)
  BY <1>2, RewriteTrims DEF Update
<1>4. QED
  BY <1>3 DEF e

\* The records that the handlers write.
LEMMA WrittenTrims ==
    ASSUME NEW r \in TransferRec, r.state # "absent"
    PROVE  /\ \A n \in Nat : LET q == [r EXCEPT !.ticket = n]
                             IN q \in TransferRec /\ TrimsRec(r, q)
           /\ LET q == [r EXCEPT !.admission = "expired"]
              IN q \in TransferRec /\ TrimsRec(r, q)
           /\ r.state \in {"submitted", "running"} =>
              /\ \A a \in {"submitted", "running"}, n \in 0..TotalBytes :
                   LET q == [r EXCEPT !.state = a, !.bytes = n]
                   IN q \in TransferRec /\ TrimsRec(r, q)
              /\ \A n \in 0..TotalBytes :
                   LET q == [r EXCEPT !.state = "complete", !.bytes = n, !.ticket = 0]
                   IN q \in TransferRec /\ TrimsRec(r, q)
           /\ \A n \in 0..TotalBytes :
                LET q == [r EXCEPT !.bytes = n]
                IN q \in TransferRec /\ TrimsRec(r, q)
  BY DEF TransferRec, TrimsRec, Waits, States, Terminal, AdmissionStates

\* Submitting a new intent and retrying an old one.
LEMMA SubmissionLasts ==
    ASSUME Inv(d), now \in Nat, NEW i \in Intents, NEW x \in SessionIds,
           \/ \E t \in Transfers : SubmitTransferIntent(i, x, t)
           \/ ResubmitTransferIntent(i, x)
    PROVE  Lasts(d, d')
<1>1. Formed(d)
  BY InvFormed
<1>2. ASSUME NEW t \in Transfers, SubmitTransferIntent(i, x, t)
      PROVE  Lasts(d, d')
  <2>1. Trims(d, ReapStaleSessions(d)) /\ Inv(ReapStaleSessions(d)) /\ Keeps(d, ReapStaleSessions(d))
    BY <1>1, ReapersTrim, ReapStaleInv
  <2>2. PICK s \in RefreshAdmission(ReapStaleSessions(d)) : \E g, admission :
          d' = RegisterTransfer(s, t, i, x, g, admission)
    BY <1>2, Zenon DEF SubmitTransferIntent
  <2>3. Lasts(d, s)
    BY <2>1, RefreshLasts, TrimsLasts, LastsTransitive DEF Trims
  <2>4. Inv(s) /\ Keeps(d, s)
    BY <2>1, RefreshInv, KeepsTransitive
  <2>5. t \notin s.issued
    BY <1>2, <2>4 DEF SubmitTransferIntent, Keeps, Inv, Base, ArchivedOutcomes
  <2>6. Lasts(s, d')
    BY <2>2, <2>4, <2>5, RegisterTransferLasts, InvFormed
  <2>7. QED
    BY <2>3, <2>6, LastsTransitive
<1>3. ASSUME NEW s, Inv(s), NEW t \in Transfers
      PROVE  Lasts(s, ReissueTicket(s, t))
  <2>1. CASE s.transfer[t].admission # "admitted"
    BY <2>1, LastsReflexive DEF ReissueTicket
  <2>2. CASE s.transfer[t].admission = "admitted"
    <3> DEFINE r == [s.transfer[t] EXCEPT !.ticket = s.transfer[t].generation]
               e == ReissueTicket(s, t)
    <3>1. s.transfer[t] \in TransferRec /\ s.transfer[t].generation \in Nat
      BY <1>3 DEF Inv, Base, Types, TransferRec
    <3>2. s.transfer[t].state # "absent"
      BY <1>3, <2>2 DEF Inv, Base, ArchivedOutcomes, NoTransfer, Live
    <3>3. r \in TransferRec /\ TrimsRec(s.transfer[t], r)
      BY <3>1, <3>2, WrittenTrims
    <3>4. e = [s EXCEPT !.transfer[t] = r]
      BY <2>2, Zenon DEF ReissueTicket
    <3> HIDE DEF r, e
    <3>5. Trims(s, e)
      BY <1>3, <3>3, <3>4, SetOneTrims, InvFormed
    <3>6. QED
      BY <3>5, TrimsLasts DEF e
  <2>3. QED
    BY <2>1, <2>2
<1>4. ASSUME ResubmitTransferIntent(i, x)
      PROVE  Lasts(d, d')
  <2> DEFINE t == d.intents[i]
  <2>1. t \in Transfers
    BY <1>4 DEF ResubmitTransferIntent, Inv, Base, Types
  <2>2. d' = ReissueTicket(d, t) \/ \E s \in RefreshAdmission(d) : d' = ReissueTicket(s, t)
    BY <1>4 DEF ResubmitTransferIntent
  <2>3. \A s \in RefreshAdmission(d) : Lasts(d, s) /\ Inv(s)
    BY <1>1, RefreshLasts, RefreshInv
  <2> HIDE DEF t
  <2>4. QED
    BY <1>3, <2>1, <2>2, <2>3, LastsTransitive
<1>5. QED
  BY <1>2, <1>4

\* Presenting leases and plans that have expired.
LEMMA ExpiryLasts ==
    ASSUME Inv(d),
           \/ \E l \in d.leases : PresentExpiredLease(l)
           \/ \E t \in Transfers : PresentExpiredPlan(t)
    PROVE  Lasts(d, d')
<1>1. Formed(d) /\ Trims(d, ReapStaleSessions(d)) /\ Trims(d, d) /\ Inv(ReapStaleSessions(d))
  BY InvFormed, ReapersTrim, ReapStaleInv
<1>2. ASSUME NEW l, PresentExpiredLease(l)
      PROVE  Lasts(d, d')
  <2>1. d' = ReleaseLeases(ReapStaleSessions(d), {l}, "canceled")
    BY <1>2 DEF PresentExpiredLease
  <2>2. Trims(ReapStaleSessions(d), d')
    BY <1>1, <2>1, ReleaseTrims DEF Trims
  <2>3. QED
    BY <1>1, <2>2, TrimsTransitive, TrimsLasts
<1>3. ASSUME NEW t \in Transfers, PresentExpiredPlan(t)
      PROVE  Lasts(d, d')
  <2>1. PICK s \in {d, ReapStaleSessions(d)} : t \in Live(s) /\ d' = ExpireAdmission(s, t)
    BY <1>3 DEF PresentExpiredPlan
  <2>2. Inv(s) /\ Formed(s) /\ Trims(d, s)
    BY <1>1, InvFormed
  <2> DEFINE r == [s.transfer[t] EXCEPT !.admission = "expired"]
  <2>3. s.transfer[t] \in TransferRec /\ s.transfer[t].state # "absent"
    BY <2>1, <2>2 DEF Formed, Live
  <2>4. r \in TransferRec /\ TrimsRec(s.transfer[t], r)
    BY <2>3, WrittenTrims
  <2>5. d' = [s EXCEPT !.transfer[t] = r]
    BY <2>1, Zenon DEF ExpireAdmission
  <2> HIDE DEF r
  <2>6. Trims(s, d')
    BY <2>2, <2>4, <2>5, SetOneTrims
  <2>7. QED
    BY <2>2, <2>6, TrimsTransitive, TrimsLasts
<1>4. QED
  BY <1>2, <1>3

\* authorize_worker_transfer: the staging records leave the leases where they are.
LEMMA RestagedLasts ==
    ASSUME NEW s, Inv(s), NEW related, NEW t
    PROVE  Lasts(s, [s EXCEPT !.leases = Restaged(s.leases, related, t)])
<1> DEFINE L == Restaged(s.leases, related, t)
           e == [s EXCEPT !.leases = L]
<1>1. Update(s, e, s.transfer, s.intents, L, s.archive, s.archivedIntents)
  BY SetOnlyLeases DEF Inv, Base
<1>2. \A l \in L : \E k \in s.leases : l.transfer = k.transfer /\ l.relay = k.relay
  <2> TAKE l \in L
  <2>1. PICK k \in s.leases : l = IF k \in related THEN [k EXCEPT !.staged = t] ELSE k
    BY DEF Restaged
  <2>2. k \in LeaseRec
    BY DEF Inv, Base, Types
  <2>3. QED
    BY <2>1, <2>2 DEF LeaseRec
<1> HIDE DEF e, L
<1>3. \A u \in Transfers : \A r \in Relays : Holds(e, u, r) => Holds(s, u, r)
  BY <1>1, <1>2 DEF Update, Holds
<1>4. Lasts(s, e)
  BY <1>1, <1>3 DEF Update, Lasts, Settled, Live
<1>5. QED
  BY <1>4 DEF e, L

\* authorize_worker_transfer: a ticket and the staging records.
LEMMA AuthorizeLasts ==
    ASSUME Inv(d), NEW t \in Transfers, NEW l, NEW explicit, AuthorizeWorkerTransfer(t, l, explicit)
    PROVE  Lasts(d, d')
<1> DEFINE s == ReapStaleSessions(d)
           n == s.transfer[t].generation
           r == [s.transfer[t] EXCEPT !.ticket = n]
           a == [s EXCEPT !.transfer[t] = r]
           related == RelatedLeases(s, t, l, explicit)
           L == Restaged(s.leases, related, t)
<1>1. Inv(s) /\ Lasts(d, s)
  BY ReapStaleInv, ReapersTrim, TrimsLasts, InvFormed
<1>2. /\ t \in Live(s) \ Finished(s) /\ s.transfer[t].admission = "admitted"
      /\ d' = [s EXCEPT !.transfer[t].ticket = n, !.leases = L]
  BY Zenon DEF AuthorizeWorkerTransfer, Authorizable, AdmissionValid, Restaged
<1> HIDE DEF s
<1>3. s.transfer[t] \in TransferRec /\ n \in Nat /\ s.transfer[t].state # "absent"
  BY <1>1, <1>2, UnfinishedState DEF TransferRec, Live
<1> HIDE DEF n, related
<1>4. d' = [a EXCEPT !.leases = L]
  BY <1>1, <1>2, SetTicketAndLeases, Zenon DEF Inv, Base
<1>5. r \in TransferRec /\ TrimsRec(s.transfer[t], r)
  BY <1>3, WrittenTrims
<1>6. Lasts(s, a)
  BY <1>1, <1>5, SetOneTrims, TrimsLasts, InvFormed
<1>7. Inv(a) /\ a.leases = s.leases
  <2>1. /\ r.bytes = s.transfer[t].bytes /\ r.bytes <= r.bytes
        /\ r.ticket = n /\ r.admission = s.transfer[t].admission
        /\ r.state = s.transfer[t].state /\ r.session = s.transfer[t].session
        /\ r.intent = s.transfer[t].intent
        /\ r.generation = n /\ r.expires = s.transfer[t].expires
        /\ r.relays = s.transfer[t].relays
    BY <1>3, TicketRec DEF n, TransferRec
  <2> HIDE DEF r
  <2>2. Rewritable(s, t, r)
    BY <1>1, <1>2, <2>1, UnfinishedState DEF Runs, Rewritable, n
  <2>3. Rewrote(s, a, t, r)
    BY <1>1, <1>5, <2>2, RewriteOne
  <2> HIDE DEF a
  <2>4. QED
    BY <2>3 DEF Rewrote
<1> HIDE DEF a
<1>8. Lasts(a, d')
  BY <1>4, <1>7, RestagedLasts
<1>9. QED
  BY <1>1, <1>6, <1>8, LastsTransitive

\* transfer_status of an unfinished transfer
LEMMA ReportsLast ==
    ASSUME Inv(d), now \in Nat, NEW t \in Transfers, NEW bytes \in Nat,
           \/ ReportRunning(t, bytes) \/ ReportComplete(t, bytes)
           \/ ReportFailure(t, "failed", bytes)
    PROVE  Lasts(d, d')
<1>1. Formed(d) /\ Shape(d) /\ t \in DOMAIN d.transfer
  BY InvFormed DEF Inv, Base, Types
<1>2. t \in Live(d) \ Finished(d) /\ Reported(d, t, bytes) <= TotalBytes
  BY ConstantsAssumption DEF ReportRunning, ReportComplete, ReportFailure
<1>3. /\ d.transfer[t] \in TransferRec /\ d.transfer[t].state \in {"submitted", "running"}
      /\ Reported(d, t, bytes) \in 0..TotalBytes /\ TotalBytes \in 0..TotalBytes
  BY <1>2, UnfinishedState, ReportedGrows, ConstantsAssumption
<1>4. CASE ReportRunning(t, bytes)
  <2> DEFINE n == Reported(d, t, bytes)
             r == [d.transfer[t] EXCEPT !.state = "running", !.bytes = n]
  <2>1. d' = [d EXCEPT !.transfer[t].state = "running", !.transfer[t].bytes = n]
    BY <1>4 DEF ReportRunning
  <2>2. n \in 0..TotalBytes
    BY <1>3
  <2> HIDE DEF n
  <2>3. d' = [d EXCEPT !.transfer[t] = r]
    BY <1>1, <2>1 DEF Shape, Fields
  <2>4. r \in TransferRec /\ TrimsRec(d.transfer[t], r)
    BY <1>3, <2>2, WrittenTrims
  <2> HIDE DEF r
  <2>5. QED
    BY <1>1, <2>3, <2>4, SetOneTrims, TrimsLasts
<1>5. CASE ReportComplete(t, bytes)
  <2> DEFINE r == [d.transfer[t] EXCEPT !.state = "complete", !.bytes = TotalBytes, !.ticket = 0]
             a == RetireUnleased(Done(t), {t})
  <2>1. d' \in PromoteDelayed(a) \/ d' = a
    BY <1>5, Zenon DEF ReportComplete, Done
  <2>2. Done(t) = [d EXCEPT !.transfer[t] = r]
    BY <1>1 DEF Shape, Fields, Done
  <2>3. r \in TransferRec /\ TrimsRec(d.transfer[t], r)
    BY <1>3, WrittenTrims
  <2> HIDE DEF r
  <2>4. Trims(d, Done(t))
    BY <1>1, <2>2, <2>3, SetOneTrims
  <2>5. Trims(Done(t), a)
    BY <2>4, ReleaseTrims DEF Trims
  <2> HIDE DEF a
  <2>6. Lasts(d, a) /\ Formed(a)
    BY <2>4, <2>5, TrimsTransitive, TrimsLasts DEF Trims
  <2>7. QED
    BY <2>1, <2>6, RefreshLasts, LastsTransitive
<1>6. CASE ReportFailure(t, "failed", bytes)
  <2> DEFINE u == Counted(t, bytes)
             r == [d.transfer[t] EXCEPT !.bytes = Reported(d, t, bytes)]
             L == LeasesOf(d, {t})
             m == MarkTerminal(u, {t}, "failed")
             b == ReleaseLeases(m, L, "failed")
             e == RetireUnleased(b, {t})
  <2>1. d' \in PromoteDelayed(e)
    BY <1>6, Zenon DEF ReportFailure, Counted
  <2>2. u = [d EXCEPT !.transfer[t] = r]
    BY <1>1 DEF Shape, Fields, Counted
  <2>3. r \in TransferRec /\ TrimsRec(d.transfer[t], r)
    BY <1>3, WrittenTrims
  <2> HIDE DEF u, r
  <2>4. Trims(d, u)
    BY <1>1, <2>2, <2>3, SetOneTrims
  <2>5. Trims(u, m)
    BY <2>4, HelpersTrim DEF Trims
  <2> HIDE DEF m, L
  <2>6. Trims(m, b)
    BY <2>5, ReleaseTrims DEF Trims
  <2> HIDE DEF b
  <2>7. Trims(b, e)
    BY <2>6, ReleaseTrims DEF Trims
  <2> HIDE DEF e
  <2>8. Lasts(d, e) /\ Formed(e)
    BY <2>4, <2>5, <2>6, <2>7, TrimsTransitive, TrimsLasts DEF Trims
  <2>9. QED
    BY <2>1, <2>8, RefreshLasts, LastsTransitive
<1>7. QED
  BY <1>4, <1>5, <1>6

\* The cleanups, the reapers and the clock.
LEMMA MaintenanceLasts ==
    ASSUME Inv(d), now \in Nat,
           \/ \E j \in Jobs : CleanupJob(j)
           \/ \E x \in SessionIds : CloseSession(x)
           \/ \E t \in Transfers : RecoverTransferState(t)
           \/ ReapStale \/ Refresh \/ Tick
    PROVE  Lasts(d, d')
<1>1. Formed(d) /\ Trims(d, d) /\ Trims(d, ReapStaleSessions(d))
  BY InvFormed, ReapersTrim
<1>2. ASSUME NEW j \in Jobs, CleanupJob(j)
      PROVE  Lasts(d, d')
  <2> DEFINE T == {t \in Live(d) : JobOf(d, t) = j}
             r == ReleaseLeases(d, LeasesOf(d, T), "canceled")
             c == CancelTransfers(r, T)
             f == [b \in Buffers |-> IF c.buffers[b] = j THEN None ELSE c.buffers[b]]
             e == [c EXCEPT !.jobs[j] = None, !.buffers = f]
  <2>1. d' \in RefreshAdmission(e)
    BY <1>2, Zenon DEF CleanupJob
  <2> HIDE DEF T
  <2>2. Trims(d, r)
    BY <1>1, ReleaseTrims
  <2> HIDE DEF r
  <2>3. Trims(r, c)
    BY <2>2, ReleaseTrims DEF Trims
  <2> HIDE DEF c, f
  <2>4. Reowned(c, e, c.session, c.attached, [c.jobs EXCEPT ![j] = None], f)
    BY <2>3, SetJobBuffers, Zenon DEF Trims, Formed
  <2> HIDE DEF e
  <2>5. Trims(c, e)
    BY <2>3, <2>4, ReownedTrims DEF Trims
  <2>6. Lasts(d, e) /\ Formed(e)
    BY <2>2, <2>3, <2>5, TrimsTransitive, TrimsLasts DEF Trims
  <2>7. QED
    BY <2>1, <2>6, RefreshLasts, LastsTransitive
<1>3. ASSUME NEW x \in SessionIds, CloseSession(x)
      PROVE  Lasts(d, d')
  <2>1. d' = CloseSessions(ReapStaleSessions(d), {x})
    BY <1>3 DEF CloseSession
  <2>2. Trims(ReapStaleSessions(d), d')
    BY <1>1, <2>1, CloseSessionsTrims DEF Trims
  <2>3. QED
    BY <1>1, <2>2, TrimsTransitive, TrimsLasts
<1>4. ASSUME ReapStale \/ Tick
      PROVE  Lasts(d, d')
  BY <1>1, <1>4, TrimsLasts, LastsReflexive DEF ReapStale, Tick
<1>5. ASSUME Refresh
      PROVE  Lasts(d, d')
  <2>1. PICK s \in {d, ReapStaleSessions(d)} : d' \in RefreshAdmission(s)
    BY <1>5 DEF Refresh
  <2>2. Lasts(d, s) /\ Formed(s)
    BY <1>1, TrimsLasts DEF Trims
  <2>3. QED
    BY <2>1, <2>2, RefreshLasts, LastsTransitive
<1>6. ASSUME NEW t \in Transfers, RecoverTransferState(t)
      PROVE  Lasts(d, d')
  BY <1>1, <1>6, HelpersTrim, TrimsLasts DEF RecoverTransferState
<1>7. QED
  BY <1>2, <1>3, <1>4, <1>5, <1>6

-----------------------------------------------------------------------------
\* The calls of the workers and the clients.

Completed(s) == {t \in Transfers : Outcome(s, t).state = "complete"}

\* What has ended stays as it is.
Stays(s, e) ==
    \A t \in Transfers : Outcome(s, t).state \in Terminal => Outcome(e, t) = Outcome(s, t)

\* e comes after s, and of the transfers only those of T may have completed.
Passes(s, e, T) ==
    Inv(e) /\ Lasts(s, e) /\ Stays(s, e) /\ Completed(e) \subseteq Completed(s) \cup T

\* A handler that keeps the receipts completes nothing.
LEMMA KeepsPasses ==
    ASSUME NEW s, NEW e, Inv(e), Lasts(s, e), Keeps(s, e)
    PROVE  Passes(s, e, {})
  BY DEF Keeps, Passes, Stays, Completed

\* Two steps in one handler.
LEMMA PassesTransitive ==
    ASSUME NEW s, NEW e, NEW f, Passes(s, e, {}), Passes(e, f, {})
    PROVE  Passes(s, f, {})
<1>1. Lasts(s, f)
  BY LastsTransitive DEF Passes
<1>2. QED
  BY <1>1 DEF Passes, Stays, Completed

\* Nothing happens at the daemon.
LEMMA PassesReflexive ==
    ASSUME NEW s, Inv(s)
    PROVE  Passes(s, s, {})
  BY LastsReflexive DEF Passes, Stays, Completed

\* Stale sessions are reaped at the start of a handler.
LEMMA ReapPasses ==
    ASSUME NEW s, Inv(s)
    PROVE  Passes(s, ReapStaleSessions(s), {})
  BY ReapStaleInv, ReapersTrim, TrimsLasts, InvFormed, KeepsPasses

\* What happens at the daemon beside the executions.
LEMMA EnvironmentPasses ==
    ASSUME Inv(d), now \in Nat,
           \/ ReapStale \/ Refresh
           \/ \E x \in SessionIds : CloseSession(x)
           \/ \E j \in Jobs : CleanupJob(j)
           \/ \E t \in Transfers : RecoverTransferState(t)
           \/ Tick
    PROVE  Passes(d, d', {}) /\ now' \in Nat
<1>1. Lasts(d, d')
  BY MaintenanceLasts
<1>2. CASE ReapStale \/ Refresh
  BY <1>1, <1>2, MaintenanceInv, KeepsPasses DEF ReapStale, Refresh
<1>3. CASE \E x \in SessionIds : CloseSession(x)
  BY <1>1, <1>3, CloseSessionInv, KeepsPasses DEF CloseSession
<1>4. CASE \E j \in Jobs : CleanupJob(j)
  BY <1>1, <1>4, CleanupJobInv, KeepsPasses DEF CleanupJob
<1>5. CASE Tick
  BY <1>1, <1>5, KeepsReflexive, KeepsPasses DEF Tick
<1>6. CASE \E t \in Transfers : RecoverTransferState(t)
  BY <1>1, <1>6, ArchivingInv, KeepsPasses DEF RecoverTransferState
<1>7. QED
  BY <1>2, <1>3, <1>4, <1>5, <1>6

\* A new intent, and a retry.
LEMMA SubmissionPasses ==
    ASSUME Inv(d), now \in Nat, NEW i \in Intents, NEW x \in SessionIds,
           \/ \E t \in Transfers : SubmitTransferIntent(i, x, t)
           \/ ResubmitTransferIntent(i, x)
    PROVE  Passes(d, d', {}) /\ now' = now
<1>1. Lasts(d, d')
  BY SubmissionLasts
<1>2. ASSUME NEW t \in Transfers, SubmitTransferIntent(i, x, t)
      PROVE  Passes(d, d', {}) /\ now' = now
  <2>1. PICK m : Keeps(d, m) /\ AcceptsIntent(m, d', i, t)
    BY <1>2, SubmitInv
  <2>2. Inv(d') /\ now' = now
    BY <1>2, SubmitInv DEF SubmitTransferIntent
  <2>3. \A u \in Transfers :
          /\ Outcome(d, u).state \in Terminal => Outcome(d', u) = Outcome(d, u)
          /\ Outcome(d', u).state = "complete" => Outcome(d, u).state = "complete"
    BY <2>1 DEF Keeps, AcceptsIntent, Terminal
  <2>4. QED
    BY <1>1, <2>2, <2>3 DEF Passes, Stays, Completed
<1>3. ASSUME ResubmitTransferIntent(i, x)
      PROVE  Passes(d, d', {}) /\ now' = now
  BY <1>1, <1>3, ResubmitInv, KeepsPasses DEF ResubmitTransferIntent
<1>4. QED
  BY <1>2, <1>3

\* A lease or a plan that has expired is presented.
LEMMA ExpiryPasses ==
    ASSUME Inv(d),
           \/ \E l : PresentExpiredLease(l)
           \/ \E t \in Transfers : Unfinished(t) /\ PlanExpired(d, t)
                                   /\ d' = ExpireAdmission(d, t) /\ now' = now
    PROVE  Passes(d, d', {}) /\ now' = now
<1>1. ASSUME NEW l, PresentExpiredLease(l)
      PROVE  Passes(d, d', {}) /\ now' = now
  <2>1. d' = ReleaseLeases(ReapStaleSessions(d), {l}, "canceled") /\ now' = now
    BY <1>1 DEF PresentExpiredLease
  <2> DEFINE s == ReapStaleSessions(d)
  <2>2. Passes(d, s, {})
    BY ReapPasses
  <2>3. Inv(s) /\ Formed(s)
    BY <2>2, InvFormed DEF Passes
  <2>4. d' = ReleaseLeases(s, {l}, "canceled")
    BY <2>1
  <2> HIDE DEF s
  <2>5. Inv(d') /\ Keeps(s, d') /\ Lasts(s, d')
    BY <2>3, <2>4, ReleaseLeasesInv, ReleaseTrims, TrimsLasts
  <2>6. Passes(s, d', {})
    BY <2>5, KeepsPasses
  <2>7. QED
    BY <2>1, <2>2, <2>6, PassesTransitive
<1>2. ASSUME NEW t \in Transfers, Unfinished(t), PlanExpired(d, t),
             d' = ExpireAdmission(d, t), now' = now
      PROVE  Passes(d, d', {}) /\ now' = now
  <2>1. PresentExpiredPlan(t)
    BY <1>2 DEF PresentExpiredPlan, Unfinished
  <2>2. QED
    BY <1>2, <2>1, PresentExpiredPlanInv, ExpiryLasts, KeepsPasses
<1>3. QED
  BY <1>1, <1>2

\* An authorization.
LEMMA AuthorizePasses ==
    ASSUME Inv(d), NEW t \in Transfers, NEW l, NEW explicit \in BOOLEAN,
           AuthorizeWorkerTransfer(t, l, explicit)
    PROVE  Passes(d, d', {}) /\ now' = now
<1>1. l \in ReapStaleSessions(d).leases /\ now' = now
  BY Zenon DEF AuthorizeWorkerTransfer, Authorizable
<1>2. ReapStaleSessions(d).leases \subseteq d.leases
  BY ReapersTrim, InvFormed DEF Trims
<1>3. l \in d.leases
  BY <1>1, <1>2
<1>4. Inv(d') /\ Keeps(d, d') /\ Lasts(d, d')
  BY <1>3, AuthorizeInv, AuthorizeLasts
<1>5. QED
  BY <1>1, <1>4, KeepsPasses

\* The receipt of a transfer that is no longer running is archived once more.
LEMMA ArchivePasses ==
    ASSUME NEW s, Inv(s), NEW t, t \notin Live(s) \ Finished(s)
    PROVE  Passes(s, Archive(s, {t}), {})
<1> DEFINE e == Archive(s, {t})
<1>1. Base(e) /\ Shrinks(s, e) /\ e.transfer = s.transfer
  BY ArchiveBase DEF Inv
<1>2. Trims(s, e)
  BY HelpersTrim, InvFormed
<1> HIDE DEF e
<1>3. Inv(e) /\ Keeps(s, e)
  BY <1>1, ShrinksKeeps DEF Dead, Inv
<1>4. Passes(s, e, {})
  BY <1>2, <1>3, TrimsLasts, KeepsPasses
<1>5. QED
  BY <1>4 DEF e

\* The first terminal status of a transfer is the one that stays.
LEMMA FailEnds ==
    ASSUME NEW s, Inv(s), NEW t \in Live(s) \ Finished(s), NEW L, L = LeasesOf(s, {t})
    PROVE  LET e == RetireUnleased(ReleaseLeases(MarkTerminal(s, {t}, "failed"), L, "failed"), {t})
           IN Outcome(e, t).state = "failed"
<1> DEFINE m == MarkTerminal(s, {t}, "failed")
           a == ReleaseLeases(m, L, "failed")
           e == RetireUnleased(a, {t})
<1>1. t \in Transfers /\ s.transfer[t] \in TransferRec
  BY UnfinishedState
<1>2. Base(m) /\ Live(m) = Live(s) /\ m.transfer = Marked(s, {t}, "failed")
  BY MarkTerminalBase, MarkTerminalFields DEF Update, Inv, Base
<1>3. Marked(s, {t}, "failed")[t].state = "failed"
  BY <1>1 DEF Marked, TransferRec
<1> HIDE DEF m
<1>4. Outcome(m, t).state = "failed"
  BY <1>2, <1>3 DEF Outcome
<1>5. Base(a) /\ Shrinks(m, a)
  BY <1>2, ReleaseLeasesBase
<1> HIDE DEF a
<1>6. Shrinks(a, e)
  BY <1>5, RetireUnleasedBase
<1> HIDE DEF e
<1>7. Outcome(e, t) = Outcome(m, t)
  BY <1>1, <1>4, <1>5, <1>6 DEF Shrinks, Terminal
<1>8. QED
  BY <1>4, <1>7 DEF e, a, m

\* A failure that is reported is what the receipt says.
LEMMA FailureEnds ==
    ASSUME Inv(d), now \in Nat, NEW t \in Transfers, NEW bytes \in Nat,
           ReportFailure(t, "failed", bytes)
    PROVE  Outcome(d', t).state = "failed"
<1> DEFINE u == Counted(t, bytes)
           L == LeasesOf(d, {t})
           e == RetireUnleased(ReleaseLeases(MarkTerminal(u, {t}, "failed"), L, "failed"), {t})
<1>1. /\ d' \in PromoteDelayed(e) /\ t \in Live(d) \ Finished(d)
      /\ Reported(d, t, bytes) <= TotalBytes
  BY Zenon DEF ReportFailure, Counted
<1>2. Inv(u) /\ u.leases = d.leases
  BY <1>1, CountedInv
<1>3. t \in Live(u) \ Finished(u)
  <2>1. Shape(d) /\ d.transfer[t] \in TransferRec /\ t \in DOMAIN d.transfer
    BY <1>1, UnfinishedState DEF Inv, Base, Types
  <2>2. Live(u) = Live(d) /\ u.transfer[t].state = d.transfer[t].state
    BY <2>1 DEF Shape, Fields, TransferRec, Live, Counted
  <2>3. QED
    BY <1>1, <2>2 DEF Finished
<1> HIDE DEF u
<1>4. L = LeasesOf(u, {t})
  BY <1>2 DEF LeasesOf
<1> HIDE DEF L
<1>5. Outcome(e, t).state = "failed"
  BY <1>2, <1>3, <1>4, FailEnds
<1>6. Inv(e)
  BY <1>2, <1>4, FailInv
<1> HIDE DEF e
<1>7. Keeps(e, d')
  BY <1>1, <1>6, PromoteDelayedInv
<1>8. QED
  BY <1>5, <1>7 DEF Keeps, Terminal

\* transfer_status: an accepted terminal report is what the receipt says from then
\* on, and a transfer is only completed by the ticket that was issued last.
LEMMA StatusPasses ==
    ASSUME Inv(d), now \in Nat, NEW t \in Transfers, NEW g, NEW k,
           NEW state \in {"running", "complete", "failed"}, NEW ok \in BOOLEAN,
           TransferStatus(t, g, k, state, ok)
    PROVE  /\ now' = now
           /\ \/ Passes(d, d', {})
              \/ /\ Passes(d, d', {t}) /\ ok /\ state = "complete" /\ k = binding[t]
                 /\ Unfinished(t) /\ d.transfer[t].admission = "admitted"
           /\ ok /\ state \in {"complete", "failed"} => Outcome(d', t).state = state
<1>1. TotalBytes \in Nat /\ 0 \in Nat
  BY ConstantsAssumption
<1>2. CASE ReportFinished(t, g, k, state, ok)
  <2>1. t \notin Live(d) \ Finished(d) /\ now' = now /\ (d' = Archive(d, {t}) \/ d' = d)
    BY <1>2 DEF ReportFinished, Unfinished
  <2>2. Passes(d, d', {})
    BY <2>1, ArchivePasses, PassesReflexive
  <2>3. ok => Outcome(d, t).state = state
    BY <1>2 DEF ReportFinished
  <2>4. QED
    BY <2>1, <2>2, <2>3 DEF Passes, Stays, Terminal
<1>3. CASE ReportUnfinished(t, g, k, state, ok)
  <2>1. Unfinished(t) /\ ok = Accepts(t, g, k, state)
    BY <1>3 DEF ReportUnfinished
  <2>2. CASE ok /\ state = "running" /\ ReportRunning(t, 0)
    <3>1. Inv(d') /\ Keeps(d, d') /\ Lasts(d, d')
      BY <1>1, <2>2, ReportRunningInv, ReportsLast
    <3>2. QED
      BY <2>2, <3>1, KeepsPasses DEF ReportRunning
  <2>3. CASE ok /\ state = "complete" /\ ReportComplete(t, TotalBytes)
    <3>1. Inv(d') /\ Lasts(d, d')
      BY <1>1, <2>3, ReportCompleteInv, ReportsLast
    <3>2. PICK m : Completes(d, m, t) /\ Keeps(m, d')
      BY <1>1, <2>3, ReportCompleteInv
    <3>3. Outcome(d', t).state = "complete"
      BY <3>2 DEF Completes, Keeps, Terminal
    <3>4. \A u \in Transfers \ {t} :
            /\ Outcome(d, u).state \in Terminal => Outcome(d', u) = Outcome(d, u)
            /\ Outcome(d', u).state = "complete" => Outcome(d, u).state = "complete"
      BY <3>2 DEF Keeps, Completes
    <3>5. Outcome(d, t).state \notin Terminal
      BY <3>2 DEF Completes
    <3>6. Passes(d, d', {t})
      BY <3>1, <3>4, <3>5 DEF Passes, Stays, Completed
    <3>7. k = binding[t] /\ now' = now /\ d.transfer[t].admission = "admitted"
      BY <2>1, <2>3 DEF Accepts, MatchesTicket, ReportComplete, AdmissionValid
    <3>8. QED
      BY <2>1, <2>3, <3>3, <3>6, <3>7
  <2>4. CASE ok /\ state = "failed" /\ ReportFailure(t, "failed", 0)
    <3>1. Inv(d') /\ Keeps(d, d') /\ Lasts(d, d') /\ Outcome(d', t).state = "failed"
      BY <1>1, <2>4, ReportFailureInv, ReportsLast, FailureEnds
    <3>2. QED
      BY <2>4, <3>1, KeepsPasses DEF ReportFailure
  <2>5. CASE /\ ~ok
             /\ d' = IF state # "failed" /\ PlanExpired(d, t) THEN ExpireAdmission(d, t) ELSE d
             /\ UNCHANGED now
    <3>1. Passes(d, d', {})
      <4>1. CASE d' = d
        BY <4>1, PassesReflexive
      <4>2. CASE PlanExpired(d, t) /\ d' = ExpireAdmission(d, t)
        BY <2>1, <2>5, <4>2, ExpiryPasses
      <4>3. QED
        BY <2>5, <4>1, <4>2
    <3>2. QED
      BY <2>5, <3>1
  <2>6. QED
    BY <1>3, <2>2, <2>3, <2>4, <2>5 DEF ReportUnfinished
<1>4. QED
  BY <1>2, <1>3 DEF TransferStatus

\* The generation of the plan of a transfer that no longer waits for one.
Bound(s, t, g) ==
    /\ t \in Transfers /\ Settled(s, t)
    /\ t \in Live(s) => s.transfer[t].generation = g

\* A lease that is cleaned up is gone, and so it stays.
LEMMA CleanupPasses ==
    ASSUME Inv(d), now \in Nat, NEW t, NEW g, Bound(d, t, g), NEW r \in Relays,
           NEW workerComplete \in BOOLEAN, CleanupRelay(t, r, g, workerComplete)
    PROVE  Passes(d, d', {}) /\ now' = now /\ ~Holds(d', t, r)
<1> DEFINE L == LeaseOn(d, t, r, g)
<1>0. t \in Transfers /\ Settled(d, t)
  BY DEF Bound
<1>1. Holds(d, t, r) => L # {}
  <2>1. \A l \in d.leases : l.transfer = t => l.generation = g
    BY DEF Inv, Base, Held, Bound
  <2>2. QED
    BY <2>1 DEF Holds, LeaseOn
<1>2. CASE L = {}
  BY <1>1, <1>2, PassesReflexive DEF CleanupRelay
<1>3. CASE L # {}
  <2>1. PICK l \in L : TRUE
    BY <1>3
  <2>2. l \in d.leases /\ l.transfer = t /\ l.relay = r
    BY <2>1 DEF LeaseOn
  <2>3. CleanupReservation(l, workerComplete)
    BY <2>1 DEF CleanupRelay
  <2>4. PICK a \in {DropLeases(d, {l}), ReleaseLeases(d, {l}, "canceled")} :
          d' \in RefreshAdmission(a)
    BY <2>3, Zenon DEF CleanupReservation
  <2>5. Trims(d, a) /\ Inv(a) /\ a.leases = d.leases \ {l}
    <3>1. Trims(d, a)
      BY <2>4, HelpersTrim, ReleaseTrims, InvFormed
    <3>2. CASE a = DropLeases(d, {l})
      <4>1. Base(a) /\ a.transfer = d.transfer /\ a.leases = d.leases \ {l}
        BY <3>2, DropLeasesBase DEF Inv
      <4>2. QED
        BY <3>1, <4>1 DEF Dead, Inv
    <3>3. CASE a = ReleaseLeases(d, {l}, "canceled")
      BY <3>1, <3>3, ReleaseLeasesInv, ReleaseLeasesBase DEF Inv
    <3>4. QED
      BY <2>4, <3>2, <3>3
  <2>6. ~Holds(a, t, r)
    BY <2>2, <2>5 DEF Holds, Inv, Base, Held
  <2>7. Settled(a, t) /\ Lasts(a, d')
    BY <1>0, <2>4, <2>5, TrimsLasts, RefreshLasts, InvFormed DEF Lasts, Settled
  <2>8. ~Holds(d', t, r)
    BY <1>0, <2>6, <2>7 DEF Lasts
  <2>9. Inv(d') /\ Keeps(d, d') /\ now' = now
    BY <2>2, <2>3, CleanupReservationInv, Zenon DEF CleanupReservation
  <2>10. Lasts(d, d')
    BY <2>5, <2>7, TrimsLasts, LastsTransitive
  <2>11. QED
    BY <2>8, <2>9, <2>10, KeepsPasses
<1>4. QED
  BY <1>2, <1>3

-----------------------------------------------------------------------------
\* The worker.

WorkerFields == {"pc", "transfer", "relay", "generation", "defers", "ticket", "expires",
                 "scope", "left", "cleaned", "result", "slot", "final"}

\* What holds of an execution by itself.
Formal(w) ==
    /\ w = [f \in WorkerFields |-> w[f]]
    /\ w.scope \in SUBSET Relays /\ w.left \in SUBSET Relays
    /\ w.defers \in BOOLEAN /\ w.slot \in BOOLEAN
    /\ w.result \in {"none", "complete", "failed"}
    /\ w.pc = "idle" => w = NoExecution
    /\ w.pc # "returned" => w.final \in {"none", "authorization_failed", "status_failed"}
    /\ w.final \in {"complete", "failed"} => w.result = w.final
    /\ w.pc \in {"authorize", "allocate", "running", "execute", "copying"} =>
          w.result = "none" /\ w.final = "none"
    /\ w.pc \in {"authorize", "allocate"} => ~w.slot
    /\ w.pc = "authorize" => w.scope = {}
    /\ w.pc = "report" => w.final = "none" /\ w.left = w.scope
    /\ w.pc \in {"report", "evidence"} \/ (w.pc = "cleanup" /\ w.final = "none") =>
          w.result # "none"
    /\ w.final # "none" \/ w.pc = "returned" => ~w.slot

\* What it knows of the daemon: the plan of its transfer is the last one, the leases
\* it has cleaned up are gone, and a terminal status that was accepted is recorded.
Sound(s, w) ==
    /\ w.pc # "idle" => Bound(s, w.transfer, w.generation)
    /\ w.pc = "cleanup" => \A r \in w.scope \ w.left : ~Holds(s, w.transfer, r)
    /\ w.pc \in {"evidence", "returned"} => \A r \in w.scope : ~Holds(s, w.transfer, r)
    /\ w.pc \in {"cleanup", "evidence"} /\ w.final = "none" /\ ~w.defers =>
          Outcome(s, w.transfer).state = w.result
    /\ w.pc = "returned" /\ w.final \in {"complete", "failed"} /\ ~w.defers =>
          Outcome(s, w.transfer).state = w.final

\* Steps of the daemon leave it sound.
LEMMA SoundLasts ==
    ASSUME NEW s, NEW e, Lasts(s, e), Stays(s, e), NEW w, Formal(w), Sound(s, w)
    PROVE  Sound(e, w)
<1>1. ASSUME w.pc # "idle"
      PROVE  /\ Bound(e, w.transfer, w.generation)
             /\ \A r \in Relays : ~Holds(s, w.transfer, r) => ~Holds(e, w.transfer, r)
  <2>1. Bound(s, w.transfer, w.generation)
    BY <1>1 DEF Sound
  <2>2. QED
    BY <2>1 DEF Bound, Lasts, Settled
<1>2. ASSUME w.pc # "idle", Outcome(s, w.transfer).state \in {"complete", "failed"}
      PROVE  Outcome(e, w.transfer).state = Outcome(s, w.transfer).state
  BY <1>2 DEF Stays, Terminal, Sound, Bound
<1>3. w.scope \in SUBSET Relays /\ w.result \in {"none", "complete", "failed"}
  BY DEF Formal
<1>4. (w.pc = "cleanup" /\ w.final = "none") \/ w.pc = "evidence" => w.result # "none"
  BY DEF Formal
<1>5. QED
  BY <1>1, <1>2, <1>3, <1>4 DEF Sound

\* v is the execution w after a step of its own.
Kept(w, v) ==
    /\ v.transfer = w.transfer /\ v.generation = w.generation /\ v.defers = w.defers
    /\ v.pc # "idle" /\ w.pc \notin WorkerEnded
    /\ w.pc # "authorize" => v.scope = w.scope /\ v.ticket = w.ticket
    /\ w.result # "none" => v.result = w.result

\* The records that the steps write.
Authorized(w, k, e, R) ==
    [w EXCEPT !.pc = "allocate", !.ticket = k, !.expires = e, !.scope = R]
CleanedUp(w, L, C) == [w EXCEPT !.left = L, !.cleaned = C]
Submitted(t, r, g, b) ==
    [NoExecution EXCEPT !.pc = "authorize", !.transfer = t, !.relay = r, !.generation = g,
                        !.defers = b]

\* The records of the steps are well formed, one kind of step after the other:
\* an authorization,
LEMMA AuthorizedRec ==
    ASSUME NEW w, Formal(w), w.pc = "authorize", NEW k, NEW e, NEW R \in SUBSET Relays
    PROVE  LET v == Authorized(w, k, e, R)
           IN Formal(v) /\ Kept(w, v) /\ v.pc = "allocate" /\ v.scope = R
  BY DEF Formal, WorkerFields, Kept, WorkerEnded, Authorized

\* its refusal,
LEMMA UnauthorizedRec ==
    ASSUME NEW w, Formal(w), w.pc = "authorize"
    PROVE  LET v == [w EXCEPT !.pc = "returned", !.final = "authorization_failed"]
           IN /\ Formal(v) /\ Kept(w, v) /\ v.pc = "returned" /\ v.scope = {}
              /\ v.final = "authorization_failed" /\ v.result = "none"
  BY DEF Formal, WorkerFields, Kept, WorkerEnded

\* the staging slot, or a ticket that has run out,
LEMMA AllocatedRec ==
    ASSUME NEW w, Formal(w), w.pc = "allocate"
    PROVE  /\ LET v == [w EXCEPT !.pc = "cleanup", !.left = w.scope, !.final = "authorization_failed"]
              IN /\ Formal(v) /\ Kept(w, v) /\ v.pc = "cleanup" /\ v.left = v.scope
                 /\ v.final # "none"
           /\ LET v == [w EXCEPT !.pc = "running", !.slot = TRUE]
              IN Formal(v) /\ Kept(w, v) /\ v.pc = "running"
  BY DEF Formal, WorkerFields, Kept, WorkerEnded

\* an accepted report and a refused one,
LEMMA RunningRec ==
    ASSUME NEW w, Formal(w)
    PROVE  /\ w.pc = "running" =>
                LET v == [w EXCEPT !.pc = "execute"]
                IN Formal(v) /\ Kept(w, v) /\ v.pc = "execute"
           /\ w.pc \in {"running", "report"} =>
                LET v == StatusFailed(w)
                IN /\ Formal(v) /\ Kept(w, v) /\ v.pc = "cleanup" /\ v.left = v.scope
                   /\ v.final # "none"
  BY DEF Formal, WorkerFields, Kept, WorkerEnded, StatusFailed

\* the copy,
LEMMA ExecutedRec ==
    ASSUME NEW w, Formal(w), w.pc \in {"execute", "copying"}
    PROVE  /\ \A result \in {"complete", "failed"} :
                LET v == Executed(w, result)
                IN /\ Formal(v) /\ Kept(w, v) /\ v.left = v.scope
                   /\ v.pc = IF v.defers THEN "cleanup" ELSE "report"
           /\ LET v == [w EXCEPT !.pc = "copying"]
              IN Formal(v) /\ Kept(w, v) /\ v.pc = "copying"
<1>1. ASSUME NEW result \in {"complete", "failed"}
      PROVE  LET v == Executed(w, result)
             IN /\ Formal(v) /\ Kept(w, v) /\ v.left = v.scope
                /\ v.pc = IF v.defers THEN "cleanup" ELSE "report"
  <2>1. CASE w.defers
    <3>1. Executed(w, result) = [w EXCEPT !.result = result, !.pc = "cleanup", !.left = w.scope]
      BY <2>1, Zenon DEF Executed
    <3>2. QED
      BY <2>1, <3>1 DEF Formal, WorkerFields, Kept, WorkerEnded
  <2>2. CASE ~w.defers
    <3>1. Executed(w, result) = [w EXCEPT !.result = result, !.pc = "report", !.left = w.scope]
      BY <2>2, Zenon DEF Executed
    <3>2. QED
      BY <2>2, <3>1 DEF Formal, WorkerFields, Kept, WorkerEnded
  <2>3. QED
    BY <2>1, <2>2
<1>2. LET v == [w EXCEPT !.pc = "copying"]
      IN Formal(v) /\ Kept(w, v) /\ v.pc = "copying"
  BY DEF Formal, WorkerFields, Kept, WorkerEnded
<1>3. QED
  BY <1>1, <1>2

\* its report,
LEMMA ReportedRec ==
    ASSUME NEW w, Formal(w), w.pc = "report"
    PROVE  LET v == [w EXCEPT !.pc = "cleanup"]
           IN Formal(v) /\ Kept(w, v) /\ v.pc = "cleanup" /\ v.left = v.scope
  BY DEF Formal, WorkerFields, Kept, WorkerEnded

\* the cleanup of one lease,
LEMMA CleanupRec ==
    ASSUME NEW w, Formal(w), w.pc = "cleanup", NEW L \in SUBSET Relays, NEW C
    PROVE  LET v == CleanedUp(w, L, C)
           IN Formal(v) /\ Kept(w, v) /\ v.pc = "cleanup" /\ v.left = L /\ v.final = w.final
  BY DEF Formal, WorkerFields, Kept, WorkerEnded, CleanedUp

\* the return of the lifecycle record,
LEMMA ReturnedRec ==
    ASSUME NEW w, Formal(w), w.pc \in {"cleanup", "evidence"}
    PROVE  /\ LET v == Returned(w)
              IN /\ Formal(v) /\ Kept(w, v) /\ v.pc = "returned"
                 /\ v.final \in {"complete", "failed"} => w.final = "none" /\ v.final = w.result
           /\ w.pc = "cleanup" /\ w.result # "none" =>
                LET v == [w EXCEPT !.pc = "evidence"]
                IN Formal(v) /\ Kept(w, v) /\ v.pc = "evidence" /\ v.final = w.final
  BY DEF Formal, WorkerFields, Kept, WorkerEnded, Returned

\* the death of the worker,
LEMMA CrashedRec ==
    ASSUME NEW w, Formal(w)
    PROVE  /\ w.pc \notin WorkerEnded =>
                /\ LET v == [w EXCEPT !.pc = "crashed"]
                   IN Formal(v) /\ Kept(w, v) /\ v.pc = "crashed"
                /\ LET v == [w EXCEPT !.pc = "crashed", !.slot = FALSE]
                   IN Formal(v) /\ Kept(w, v) /\ v.pc = "crashed"
           /\ w.pc \in WorkerEnded =>
                LET v == [w EXCEPT !.slot = FALSE]
                IN /\ Formal(v) /\ v.pc = w.pc /\ v.transfer = w.transfer
                   /\ v.generation = w.generation /\ v.defers = w.defers /\ v.scope = w.scope
                   /\ v.ticket = w.ticket /\ v.result = w.result /\ v.final = w.final
<1>1. ASSUME w.pc \notin WorkerEnded
      PROVE  /\ LET v == [w EXCEPT !.pc = "crashed"]
                IN Formal(v) /\ Kept(w, v) /\ v.pc = "crashed"
             /\ LET v == [w EXCEPT !.pc = "crashed", !.slot = FALSE]
                IN Formal(v) /\ Kept(w, v) /\ v.pc = "crashed"
  BY <1>1 DEF Formal, WorkerFields, Kept, WorkerEnded
<1>2. ASSUME w.pc \in WorkerEnded
      PROVE  LET v == [w EXCEPT !.slot = FALSE]
             IN /\ Formal(v) /\ v.pc = w.pc /\ v.transfer = w.transfer
                /\ v.generation = w.generation /\ v.defers = w.defers /\ v.scope = w.scope
                /\ v.ticket = w.ticket /\ v.result = w.result /\ v.final = w.final
  <2>1. CASE w.pc = "idle"
    <3>1. w.slot = FALSE
      BY <2>1 DEF Formal, NoExecution
    <3>2. [w EXCEPT !.slot = FALSE] = w
      BY <3>1 DEF Formal, WorkerFields
    <3>3. QED
      BY <3>2
  <2>2. CASE w.pc \in {"returned", "crashed"}
    BY <2>2 DEF Formal, WorkerFields
  <2>3. QED
    BY <1>2, <2>1, <2>2 DEF WorkerEnded
<1>3. QED
  BY <1>1, <1>2

\* and a new execution.
LEMMA SubmittedRec ==
    ASSUME NEW t, NEW r, NEW g, NEW b \in BOOLEAN
    PROVE  LET v == Submitted(t, r, g, b)
           IN /\ Formal(v) /\ v.pc = "authorize" /\ v.transfer = t /\ v.generation = g
              /\ v.defers = b /\ v.result = "none" /\ v.scope = {} /\ v.final = "none"
  BY DEF Formal, WorkerFields, NoExecution, Submitted

-----------------------------------------------------------------------------
\* The tickets.

\* A plan that has settled keeps its ticket, except from an authorization or a retry.
LEMMA PlanTicketsKeep ==
    ASSUME Inv(d), Inv(d'), Lasts(d, d'), PlanTickets
    PROVE  /\ binding' = [t \in Transfers |-> binding'[t]]
           /\ \A t \in Transfers : Settled(d, t) => binding'[t] = binding[t]
<1> DEFINE T == {t \in Transfers : d'.transfer[t].generation > d.transfer[t].generation}
<1>1. PICK b : binding' = [t \in Transfers |-> IF t \in T THEN b[t] ELSE binding[t]]
  BY DEF PlanTickets, IssueTickets
<1>2. ASSUME NEW t \in Transfers, Settled(d, t)
      PROVE  t \notin T
  <2>1. d.transfer[t].generation \in Nat
    BY DEF Inv, Base, Types, TransferRec
  <2>2. CASE t \in Live(d')
    BY <1>2, <2>1, <2>2 DEF Lasts
  <2>3. CASE t \notin Live(d')
    <3>1. d'.transfer[t].generation = 0
      BY <2>3 DEF Inv, Base, ArchivedOutcomes, NoTransfer
    <3>2. QED
      BY <2>1, <3>1
  <2>4. QED
    BY <2>2, <2>3
<1> HIDE DEF T
<1>3. QED
  BY <1>1, <1>2

\* A transfer that completed has settled.
LEMMA CompletedSettled ==
    ASSUME NEW s, Inv(s), NEW t \in Completed(s)
    PROVE  t \in Transfers /\ Settled(s, t) /\ t \notin Live(s) \ Finished(s)
<1>1. t \in Transfers /\ t \in s.issued
  BY DEF Completed, Inv, Base, ArchivedOutcomes
<1>2. CASE t \in Live(s)
  BY <1>1, <1>2 DEF Completed, Outcome, Settled, Waits, Finished, Terminal
<1>3. CASE t \notin Live(s)
  BY <1>1, <1>3 DEF Settled, Waits, Live
<1>4. QED
  BY <1>2, <1>3

\* The tickets of the transfers that completed stay.
TicketsStay ==
    /\ binding' = [t \in Transfers |-> binding'[t]]
    /\ \A t \in Completed(d') : binding'[t] = binding[t]

\* Handlers other than a retry keep the tickets of what has completed.
LEMMA PlanTicketsStay ==
    ASSUME Inv(d), NEW T, Passes(d, d', T), \A t \in T : Settled(d, t), PlanTickets
    PROVE  TicketsStay
<1>1. \A t \in Completed(d') : t \in Transfers /\ Settled(d, t)
  BY CompletedSettled DEF Passes
<1>2. QED
  BY <1>1, PlanTicketsKeep DEF Passes, TicketsStay

\* A retry replaces no ticket of a transfer that ended.
LEMMA RetryTicketsStay ==
    ASSUME Inv(d), now \in Nat, NEW i \in Intents, NEW x \in SessionIds,
           ResubmitTransferIntent(i, x), RetryTickets(d.intents[i])
    PROVE  TicketsStay
<1> DEFINE u == d.intents[i]
           T == {t \in Transfers :
                   \/ d'.transfer[t].generation > d.transfer[t].generation
                   \/ t = u /\ d'.transfer[u].admission = "admitted" /\ now >= d'.transfer[u].expires}
           S == {t \in Transfers : d'.transfer[t].generation > d.transfer[t].generation}
<1>1. PICK b : binding' = [t \in Transfers |-> IF t \in T THEN b[t] ELSE binding[t]]
  BY DEF RetryTickets, IssueTickets
<1>2. Passes(d, d', {})
  BY SubmissionPasses
<1>3. u \in Live(d) \ Finished(d)
  BY DEF ResubmitTransferIntent, HasTerminalReceipt, Inv, Base, BoundIntents
<1>4. ASSUME NEW t \in Completed(d')
      PROVE  t \in Transfers /\ t \notin T
  <2>1. t \in Transfers /\ t # u /\ Settled(d, t)
    BY <1>2, <1>3, <1>4, CompletedSettled DEF Passes
  <2>2. d.transfer[t].generation \in Nat
    BY <2>1 DEF Inv, Base, Types, TransferRec
  <2>3. CASE t \in Live(d')
    BY <1>2, <2>1, <2>2, <2>3 DEF Passes, Lasts
  <2>4. CASE t \notin Live(d')
    <3>1. d'.transfer[t].generation = 0
      BY <1>2, <2>1, <2>4 DEF Passes, Inv, Base, ArchivedOutcomes, NoTransfer
    <3>2. QED
      BY <2>1, <2>2, <3>1
  <2>5. QED
    BY <2>1, <2>3, <2>4
<1> HIDE DEF T
<1>5. QED
  BY <1>1, <1>4 DEF TicketsStay

-----------------------------------------------------------------------------
\* The steps of an execution.

\* The tables of the daemon and every execution satisfy their invariant.
Working ==
    /\ Inv(d) /\ now \in Nat
    /\ binding = [t \in Transfers |-> binding[t]]
    /\ worker = [x \in Executions |-> worker[x]]
    /\ \A x \in Executions : Formal(worker[x]) /\ Sound(d, worker[x])

\* Execution x becomes v.
Moved(x, v) ==
    /\ worker' = [worker EXCEPT ![x] = v]
    /\ Formal(v) /\ Sound(d', v) /\ Kept(worker[x], v)
    /\ \/ /\ v.scope = worker[x].scope
          /\ worker[x].pc = "authorize" =>
                v.result = "none" /\ v.pc \in {"returned", "crashed"}
       \/ /\ worker[x].transfer \in Live(d)
          /\ v.scope = d.transfer[worker[x].transfer].relays

\* What the step of an execution does: if its transfer completes, its copy went
\* through and its ticket is the one that was issued last.
WorkerEffect(x) ==
    /\ \E v : Moved(x, v)
    /\ now' \in Nat /\ TicketsStay
    /\ \/ Passes(d, d', {})
       \/ /\ Passes(d, d', {worker[x].transfer})
          /\ worker[x].result = "complete"
          /\ worker[x].ticket = binding[worker[x].transfer]

\* Nothing happens at the daemon.
LEMMA LocalEffect ==
    ASSUME Working, UNCHANGED <<d, now, binding>>
    PROVE  now' \in Nat /\ TicketsStay /\ Passes(d, d', {}) /\ \A w : Sound(d, w) => Sound(d', w)
<1>1. TicketsStay
  BY DEF Working, TicketsStay
<1>2. QED
  BY <1>1, PassesReflexive DEF Working

\* The daemon authorizes the execution: it covers every relay of the plan.
LEMMA AuthorizedEffect ==
    ASSUME Working, NEW x \in Executions, WorkerAuthorized(x)
    PROVE  WorkerEffect(x)
<1> DEFINE w == worker[x]
           t == w.transfer
           s == ReapStaleSessions(d)
           R == s.transfer[t].relays
           k == WorkerLeases(R)
<1>1. Formal(w) /\ Sound(d, w) /\ w.pc = "authorize" /\ Inv(d) /\ now \in Nat
  BY DEF Working, WorkerAuthorized
<1>2. PICK l \in LeaseOn(s, t, w.relay, w.generation) :
        /\ AuthorizeWorkerTransfer(t, l, FALSE)
        /\ binding' = [binding EXCEPT ![t] = k]
        /\ worker' = [worker EXCEPT ![x].pc = "allocate", ![x].ticket = k,
                                    ![x].expires = l.expires, ![x].scope = R]
  BY Zenon DEF WorkerAuthorized
<1> DEFINE v == Authorized(w, k, l.expires, R)
<1>3. worker' = [worker EXCEPT ![x] = v]
  <2>1. worker = [y \in Executions |-> worker[y]]
    BY DEF Working
  <2> HIDE DEF R, k
  <2>2. QED
    BY <1>2, <2>1 DEF Authorized
<1>4. Bound(d, t, w.generation)
  BY <1>1 DEF Sound
<1>5. Passes(d, s, {})
  BY <1>1, ReapPasses
<1>6. t \in Transfers /\ t \in Live(s) \ Finished(s) /\ Settled(d, t)
  BY <1>2, <1>4, Zenon DEF Bound, AuthorizeWorkerTransfer, Authorizable
<1>7. t \in Live(d) /\ R = d.transfer[t].relays /\ R \in SUBSET Relays
  BY <1>5, <1>6 DEF Passes, Lasts, Inv, Base, Types, TransferRec
<1>8. Passes(d, d', {}) /\ now' = now
  BY <1>1, <1>2, <1>6, AuthorizePasses
<1>9. TicketsStay
  <2>1. \A u \in Completed(d') : u \in Transfers \ {t}
    <3>1. Completed(d') \subseteq Completed(s)
      BY <1>5, <1>8 DEF Passes, Stays, Completed, Terminal
    <3>2. QED
      BY <1>5, <1>6, <3>1, CompletedSettled DEF Passes
  <2>2. binding = [u \in Transfers |-> binding[u]]
    BY DEF Working
  <2> HIDE DEF k
  <2>3. QED
    BY <1>2, <2>1, <2>2 DEF TicketsStay
<1> HIDE DEF s, R, k
<1>10. Formal(v) /\ Kept(w, v) /\ v.pc = "allocate" /\ v.scope = R
  BY <1>1, <1>7, AuthorizedRec
<1>11. v.transfer = t /\ v.generation = w.generation
  BY <1>10 DEF Kept
<1> HIDE DEF v
<1>12. Bound(d', t, w.generation)
  BY <1>4, <1>8 DEF Passes, Bound, Lasts, Settled
<1>13. Sound(d', v)
  BY <1>10, <1>11, <1>12 DEF Sound
<1>14. Moved(x, v)
  BY <1>3, <1>7, <1>10, <1>13 DEF Moved
<1>15. QED
  BY <1>1, <1>8, <1>9, <1>14 DEF WorkerEffect

\* The daemon refuses: the execution has no leases to give back.
LEMMA UnauthorizedEffect ==
    ASSUME Working, NEW x \in Executions, WorkerUnauthorized(x)
    PROVE  WorkerEffect(x)
<1> DEFINE w == worker[x]
           v == [w EXCEPT !.pc = "returned", !.final = "authorization_failed"]
<1>1. Formal(w) /\ Sound(d, w) /\ w.pc = "authorize" /\ Inv(d) /\ now \in Nat
  BY DEF Working, WorkerUnauthorized
<1>2. worker' = [worker EXCEPT ![x] = v]
  BY DEF WorkerUnauthorized, Working
<1>3. UNCHANGED binding
  BY DEF WorkerUnauthorized
<1>4. (\E l : PresentExpiredLease(l)) \/ (d' = ReapStaleSessions(d) /\ now' = now)
  BY Zenon DEF WorkerUnauthorized
<1>5. Passes(d, d', {}) /\ now' = now
  BY <1>1, <1>4, ExpiryPasses, ReapPasses
<1>6. Formal(v) /\ Kept(w, v) /\ v.pc = "returned" /\ v.scope = {}
      /\ v.final = "authorization_failed" /\ v.result = "none"
  BY <1>1, UnauthorizedRec
<1> HIDE DEF v
<1>7. Sound(d', w)
  BY <1>1, <1>5, SoundLasts DEF Passes
<1>8. Sound(d', v)
  BY <1>1, <1>6, <1>7 DEF Sound, Kept
<1>9. TicketsStay
  BY <1>3 DEF TicketsStay, Working
<1>10. v.scope = w.scope /\ v.result = "none"
  BY <1>1, <1>6 DEF Formal
<1>11. Moved(x, v)
  BY <1>2, <1>6, <1>8, <1>10 DEF Moved
<1>12. QED
  BY <1>1, <1>5, <1>9, <1>11 DEF WorkerEffect

\* A report of an execution on its own transfer.
LEMMA StatusEffect ==
    ASSUME Working, NEW x \in Executions, worker[x].pc \in {"running", "report", "evidence"},
           NEW state, state = "running" \/ (state = worker[x].result /\ state # "none"),
           NEW ok \in BOOLEAN,
           TransferStatus(worker[x].transfer, worker[x].generation, worker[x].ticket, state, ok),
           PlanTickets
    PROVE  /\ now' \in Nat /\ TicketsStay /\ Sound(d', worker[x]) /\ Inv(d')
           /\ \/ Passes(d, d', {})
              \/ /\ Passes(d, d', {worker[x].transfer})
                 /\ worker[x].result = "complete"
                 /\ worker[x].ticket = binding[worker[x].transfer]
           /\ ok /\ state # "running" => Outcome(d', worker[x].transfer).state = state
<1> DEFINE w == worker[x]
           t == w.transfer
<1>1. Formal(w) /\ Sound(d, w) /\ Inv(d) /\ now \in Nat
  BY DEF Working
<1>2. Bound(d, t, w.generation) /\ t \in Transfers /\ Settled(d, t)
  BY <1>1 DEF Sound, Bound
<1>3. state \in {"running", "complete", "failed"}
  BY <1>1 DEF Formal
<1>4. /\ now' = now
      /\ \/ Passes(d, d', {})
         \/ Passes(d, d', {t}) /\ state = "complete" /\ w.ticket = binding[t]
      /\ ok /\ state \in {"complete", "failed"} => Outcome(d', t).state = state
  <2> DEFINE g == w.generation
             k == w.ticket
  <2>1. TransferStatus(t, g, k, state, ok)
    OBVIOUS
  <2> HIDE DEF w, t, g, k
  <2>2. /\ now' = now
        /\ \/ Passes(d, d', {})
           \/ Passes(d, d', {t}) /\ state = "complete" /\ k = binding[t]
        /\ ok /\ state \in {"complete", "failed"} => Outcome(d', t).state = state
    BY <1>1, <1>2, <1>3, <2>1, StatusPasses
  <2>3. QED
    BY <2>2 DEF k
<1>5. Inv(d') /\ Lasts(d, d') /\ Stays(d, d')
  BY <1>4 DEF Passes
<1>6. TicketsStay
  BY <1>1, <1>2, <1>4, PlanTicketsStay
<1>7. Sound(d', w)
  BY <1>1, <1>5, SoundLasts
<1>8. QED
  BY <1>1, <1>3, <1>4, <1>5, <1>6, <1>7

\* The report that the transfer runs.
LEMMA ReportRunningEffect ==
    ASSUME Working, NEW x \in Executions, WorkerReportRunning(x)
    PROVE  WorkerEffect(x)
<1> DEFINE w == worker[x]
<1>1. Formal(w) /\ w.pc = "running" /\ PlanTickets
  BY DEF Working, WorkerReportRunning
<1>2. PICK ok \in BOOLEAN :
        /\ TransferStatus(w.transfer, w.generation, w.ticket, "running", ok)
        /\ worker' = [worker EXCEPT ![x] =
              IF ok THEN [w EXCEPT !.pc = "execute"] ELSE StatusFailed(w)]
  BY DEF WorkerReportRunning
<1>3. /\ now' \in Nat /\ TicketsStay /\ Sound(d', w)
      /\ \/ Passes(d, d', {})
         \/ /\ Passes(d, d', {w.transfer}) /\ w.result = "complete"
            /\ w.ticket = binding[w.transfer]
  BY <1>1, <1>2, StatusEffect
<1> DEFINE v == IF ok THEN [w EXCEPT !.pc = "execute"] ELSE StatusFailed(w)
<1>4. /\ Formal(v) /\ Kept(w, v) /\ v.scope = w.scope
      /\ v.pc = "execute" \/ (v.pc = "cleanup" /\ v.left = v.scope /\ v.final # "none")
  <2>1. CASE ok
    BY <1>1, <2>1, RunningRec DEF Kept
  <2>2. CASE ~ok
    BY <1>1, <2>2, RunningRec DEF Kept
  <2>3. QED
    BY <2>1, <2>2
<1>5. worker' = [worker EXCEPT ![x] = v]
  BY <1>2
<1> HIDE DEF v
<1>6. Sound(d', v)
  BY <1>1, <1>3, <1>4 DEF Sound, Kept
<1>7. Moved(x, v)
  BY <1>1, <1>4, <1>5, <1>6 DEF Moved
<1>8. QED
  BY <1>3, <1>7 DEF WorkerEffect

\* The report of the result.
LEMMA ReportEffect ==
    ASSUME Working, NEW x \in Executions, WorkerReport(x)
    PROVE  WorkerEffect(x)
<1> DEFINE w == worker[x]
<1>1. Formal(w) /\ w.pc = "report" /\ w.result # "none" /\ PlanTickets
  BY DEF Working, WorkerReport, Formal
<1>2. PICK ok \in BOOLEAN :
        /\ TransferStatus(w.transfer, w.generation, w.ticket, w.result, ok)
        /\ worker' = [worker EXCEPT ![x] =
              IF ok THEN [w EXCEPT !.pc = "cleanup"] ELSE StatusFailed(w)]
  BY DEF WorkerReport
<1>3. /\ now' \in Nat /\ TicketsStay /\ Sound(d', w)
      /\ \/ Passes(d, d', {})
         \/ /\ Passes(d, d', {w.transfer}) /\ w.result = "complete"
            /\ w.ticket = binding[w.transfer]
      /\ ok /\ w.result # "running" => Outcome(d', w.transfer).state = w.result
  BY <1>1, <1>2, StatusEffect
<1> DEFINE v == IF ok THEN [w EXCEPT !.pc = "cleanup"] ELSE StatusFailed(w)
<1>4. /\ Formal(v) /\ Kept(w, v) /\ v.scope = w.scope /\ v.pc = "cleanup" /\ v.left = v.scope
      /\ ok \/ v.final # "none"
  <2>1. CASE ok
    BY <1>1, <2>1, ReportedRec DEF Kept
  <2>2. CASE ~ok
    BY <1>1, <2>2, RunningRec DEF Kept
  <2>3. QED
    BY <2>1, <2>2
<1>5. worker' = [worker EXCEPT ![x] = v]
  BY <1>2
<1> HIDE DEF v
<1>6. Sound(d', v)
  BY <1>1, <1>3, <1>4 DEF Sound, Kept, Formal
<1>7. Moved(x, v)
  BY <1>1, <1>4, <1>5, <1>6 DEF Moved
<1>8. QED
  BY <1>3, <1>7 DEF WorkerEffect

\* The report of the cleanup evidence.
LEMMA EvidenceEffect ==
    ASSUME Working, NEW x \in Executions, WorkerEvidence(x)
    PROVE  WorkerEffect(x)
<1> DEFINE w == worker[x]
           v == Returned(w)
<1>1. Formal(w) /\ w.pc = "evidence" /\ w.result # "none" /\ PlanTickets
  BY DEF Working, WorkerEvidence, Formal
<1>2. PICK ok \in BOOLEAN : TransferStatus(w.transfer, w.generation, w.ticket, w.result, ok)
  BY DEF WorkerEvidence
<1>3. /\ now' \in Nat /\ TicketsStay /\ Sound(d', w)
      /\ \/ Passes(d, d', {})
         \/ /\ Passes(d, d', {w.transfer}) /\ w.result = "complete"
            /\ w.ticket = binding[w.transfer]
  BY <1>1, <1>2, StatusEffect
<1>4. /\ Formal(v) /\ Kept(w, v) /\ v.pc = "returned"
      /\ v.final \in {"complete", "failed"} => w.final = "none" /\ v.final = w.result
  BY <1>1, ReturnedRec
<1>5. worker' = [worker EXCEPT ![x] = v]
  BY DEF WorkerEvidence
<1> HIDE DEF v
<1>6. Sound(d', v) /\ v.scope = w.scope
  BY <1>1, <1>3, <1>4 DEF Sound, Kept
<1>7. Moved(x, v)
  BY <1>1, <1>4, <1>5, <1>6 DEF Moved
<1>8. QED
  BY <1>3, <1>7 DEF WorkerEffect

\* The cleanup of one lease.
LEMMA CleanupEffect ==
    ASSUME Working, NEW x \in Executions, WorkerCleanup(x)
    PROVE  WorkerEffect(x)
<1> DEFINE w == worker[x]
<1>1. Formal(w) /\ Sound(d, w) /\ w.pc = "cleanup" /\ Inv(d) /\ now \in Nat /\ PlanTickets
  BY DEF Working, WorkerCleanup
<1>2. PICK r \in w.left :
        /\ CleanupRelay(w.transfer, r, w.generation, CleanupReason(w))
        /\ worker' = [worker EXCEPT ![x].left = @ \ {r},
              ![x].cleaned = IF LeaseOn(d, w.transfer, r, w.generation) = {}
                             THEN @ ELSE @ \cup {r}]
  BY DEF WorkerCleanup
<1> DEFINE C == IF LeaseOn(d, w.transfer, r, w.generation) = {} THEN w.cleaned
                                                                 ELSE w.cleaned \cup {r}
           L == w.left \ {r}
           v == CleanedUp(w, L, C)
<1>3. worker' = [worker EXCEPT ![x] = v]
  <2>1. worker = [y \in Executions |-> worker[y]] /\ w = [f \in WorkerFields |-> w[f]]
    BY <1>1 DEF Working, Formal
  <2>2. QED
    BY <1>2, <2>1 DEF CleanedUp, WorkerFields
<1>4. Bound(d, w.transfer, w.generation) /\ r \in Relays /\ L \in SUBSET Relays
  BY <1>1 DEF Sound, Formal
<1>5. Passes(d, d', {}) /\ now' = now /\ ~Holds(d', w.transfer, r)
  BY <1>1, <1>2, <1>4, CleanupPasses DEF CleanupReason
<1>6. Sound(d', w)
  BY <1>1, <1>5, SoundLasts DEF Passes
<1>7. TicketsStay
  BY <1>1, <1>5, PlanTicketsStay
<1> HIDE DEF C, L
<1>8. Formal(v) /\ Kept(w, v) /\ v.pc = "cleanup" /\ v.left = L /\ v.final = w.final
  BY <1>1, <1>4, CleanupRec
<1> HIDE DEF v
<1>9. v.transfer = w.transfer /\ v.scope = w.scope /\ v.generation = w.generation /\ v.defers = w.defers
  BY <1>1, <1>8 DEF Kept
<1>10. \A q \in v.scope \ v.left : ~Holds(d', v.transfer, q)
  BY <1>1, <1>5, <1>6, <1>8, <1>9 DEF Sound, L
<1>11. w.final = "none" => v.result = w.result
  BY <1>1, <1>8 DEF Formal, Kept
<1>12. Sound(d', v)
  BY <1>1, <1>6, <1>8, <1>9, <1>10, <1>11 DEF Sound
<1>13. Moved(x, v)
  BY <1>1, <1>3, <1>8, <1>9, <1>12 DEF Moved
<1>14. QED
  BY <1>1, <1>5, <1>7, <1>13 DEF WorkerEffect

\* The steps that call nobody.
LEMMA LocalStepEffect ==
    ASSUME Working, NEW x \in Executions,
           WorkerAllocate(x) \/ WorkerExecute(x) \/ WorkerCopied(x) \/ WorkerCleaned(x) \/ WorkerRaise(x)
    PROVE  WorkerEffect(x)
<1> DEFINE w == worker[x]
<1>1. UNCHANGED <<d, now, binding>>
  BY DEF WorkerAllocate, WorkerExecute, WorkerCopied, WorkerCleaned, WorkerRaise
<1>2. Formal(w) /\ Sound(d, w)
  BY DEF Working
<1>3. now' \in Nat /\ TicketsStay /\ Passes(d, d', {}) /\ Sound(d', w)
  BY <1>1, <1>2, LocalEffect
<1>4. ASSUME NEW v, worker' = [worker EXCEPT ![x] = v], Formal(v), Kept(w, v), Sound(d', v),
             w.pc = "authorize" =>
                v.scope = w.scope /\ v.result = "none" /\ v.pc \in {"returned", "crashed"}
      PROVE  WorkerEffect(x)
  <2>1. Moved(x, v)
    BY <1>4 DEF Moved, Kept
  <2>2. QED
    BY <1>3, <2>1 DEF WorkerEffect
<1>5. CASE WorkerAllocate(x)
  <2> DEFINE v == IF now > w.expires
                  THEN [w EXCEPT !.pc = "cleanup", !.left = w.scope, !.final = "authorization_failed"]
                  ELSE [w EXCEPT !.pc = "running", !.slot = TRUE]
  <2>1. w.pc = "allocate" /\ worker' = [worker EXCEPT ![x] = v]
    BY <1>5 DEF WorkerAllocate
  <2>2. /\ Formal(v) /\ Kept(w, v)
        /\ v.pc = "running" \/ (v.pc = "cleanup" /\ v.left = v.scope /\ v.final # "none")
    BY <1>2, <2>1, AllocatedRec
  <2> HIDE DEF v
  <2>3. Sound(d', v)
    BY <1>3, <2>1, <2>2 DEF Sound, Kept
  <2>4. QED
    BY <1>4, <2>1, <2>2, <2>3
<1>6. CASE WorkerExecute(x) \/ WorkerCopied(x)
  <2>1. PICK v : /\ w.pc \in {"execute", "copying"} /\ worker' = [worker EXCEPT ![x] = v]
                 /\ \/ v \in {Executed(w, "complete"), Executed(w, "failed")}
                    \/ v = [w EXCEPT !.pc = "copying"]
    BY <1>6 DEF WorkerExecute, WorkerCopied
  <2>2. /\ Formal(v) /\ Kept(w, v)
        /\ \/ v.pc \in {"copying", "report"}
           \/ v.pc = "cleanup" /\ v.defers /\ v.left = v.scope
    <3>1. CASE v = Executed(w, "complete")
      BY <1>2, <2>1, <3>1, ExecutedRec
    <3>2. CASE v = Executed(w, "failed")
      BY <1>2, <2>1, <3>2, ExecutedRec
    <3>3. CASE v = [w EXCEPT !.pc = "copying"]
      BY <1>2, <2>1, <3>3, ExecutedRec
    <3>4. QED
      BY <2>1, <3>1, <3>2, <3>3
  <2>3. Sound(d', v)
    BY <1>3, <2>1, <2>2 DEF Sound, Kept
  <2>4. QED
    BY <1>4, <2>1, <2>2, <2>3
<1>7. CASE WorkerCleaned(x)
  <2>1. w.pc = "cleanup" /\ w.left = {}
    BY <1>7 DEF WorkerCleaned
  <2>2. \A r \in w.scope : ~Holds(d', w.transfer, r)
    BY <1>3, <2>1 DEF Sound
  <2>3. CASE w.result = "none" \/ w.defers
    <3> DEFINE v == Returned(w)
    <3>1. worker' = [worker EXCEPT ![x] = v]
      BY <1>7, <2>3 DEF WorkerCleaned
    <3>2. /\ Formal(v) /\ Kept(w, v) /\ v.pc = "returned"
          /\ v.final \in {"complete", "failed"} => w.final = "none" /\ v.final = w.result
      BY <1>2, <2>1, ReturnedRec
    <3> HIDE DEF v
    <3>3. Sound(d', v)
      BY <1>3, <2>1, <2>2, <3>2 DEF Sound, Kept
    <3>4. QED
      BY <1>4, <2>1, <3>1, <3>2, <3>3
  <2>4. CASE ~(w.result = "none" \/ w.defers)
    <3> DEFINE v == [w EXCEPT !.pc = "evidence"]
    <3>1. worker' = [worker EXCEPT ![x] = v]
      BY <1>7, <2>4 DEF WorkerCleaned
    <3>2. Formal(v) /\ Kept(w, v) /\ v.pc = "evidence" /\ v.final = w.final
      BY <1>2, <2>1, <2>4, ReturnedRec
    <3> HIDE DEF v
    <3>3. Sound(d', v)
      BY <1>3, <2>1, <2>2, <2>4, <3>2 DEF Sound, Kept
    <3>4. QED
      BY <1>4, <2>1, <3>1, <3>2, <3>3
  <2>5. QED
    BY <2>3, <2>4
<1>8. CASE WorkerRaise(x)
  <2>1. CASE w.pc = "evidence" /\ w.final # "none"
    <3> DEFINE v == Returned(w)
    <3>1. worker' = [worker EXCEPT ![x] = v]
      BY <1>8, <2>1 DEF WorkerRaise
    <3>2. /\ Formal(v) /\ Kept(w, v) /\ v.pc = "returned"
          /\ v.final \in {"complete", "failed"} => w.final = "none" /\ v.final = w.result
      BY <1>2, <2>1, ReturnedRec
    <3> HIDE DEF v
    <3>3. Sound(d', v)
      BY <1>3, <2>1, <3>2 DEF Sound, Kept
    <3>4. QED
      BY <1>4, <2>1, <3>1, <3>2, <3>3
  <2>2. CASE ~(w.pc = "evidence" /\ w.final # "none")
    <3> DEFINE v == [w EXCEPT !.pc = "crashed"]
    <3>1. w.pc \notin WorkerEnded /\ worker' = [worker EXCEPT ![x] = v]
      BY <1>8, <2>2 DEF WorkerRaise
    <3>2. /\ Formal(v) /\ Kept(w, v) /\ v.pc = "crashed" /\ v.scope = w.scope
          /\ w.pc = "authorize" => v.result = "none"
      BY <1>2, <3>1, CrashedRec DEF Formal, WorkerFields
    <3> HIDE DEF v
    <3>3. Sound(d', v)
      BY <1>3, <3>1, <3>2 DEF Sound, Kept, WorkerEnded
    <3>4. QED
      BY <1>4, <3>1, <3>2, <3>3
  <2>3. QED
    BY <2>1, <2>2
<1>9. QED
  BY <1>5, <1>6, <1>7, <1>8

\* Every step of an execution.
LEMMA WorkerStepEffect ==
    ASSUME Working, NEW x \in Executions, WorkerStep(x) \/ WorkerRaise(x)
    PROVE  WorkerEffect(x)
  BY AuthorizedEffect, UnauthorizedEffect, ReportRunningEffect, ReportEffect, CleanupEffect,
     EvidenceEffect, LocalStepEffect, Zenon DEF WorkerStep

-----------------------------------------------------------------------------
\* The steps of the lifecycle, one kind after the other.

\* What the copies of the executions have done stays.
ResultsStay ==
    \A x \in Executions : worker[x].result # "none" =>
        /\ worker'[x].transfer = worker[x].transfer
        /\ worker'[x].result = worker[x].result
        /\ worker'[x].ticket = worker[x].ticket

\* Execution x takes a step.
LEMMA EffectWorking ==
    ASSUME Working, NEW x \in Executions, WorkerEffect(x)
    PROVE  Working' /\ ResultsStay
<1>1. PICK v : Moved(x, v)
  BY DEF WorkerEffect
<1>2. Inv(d') /\ Lasts(d, d') /\ Stays(d, d') /\ now' \in Nat
  BY DEF WorkerEffect, Passes
<1>3. worker = [y \in Executions |-> worker[y]] /\ worker' = [worker EXCEPT ![x] = v]
  BY <1>1 DEF Working, Moved
<1>4. worker' = [y \in Executions |-> worker'[y]]
  BY <1>3
<1>5. worker'[x] = v /\ \A y \in Executions \ {x} : worker'[y] = worker[y]
  BY <1>3
<1>6. \A y \in Executions : Formal(worker[y]) /\ Sound(d', worker[y])
  BY <1>2, SoundLasts DEF Working
<1>7. \A y \in Executions : Formal(worker'[y]) /\ Sound(d', worker'[y])
  BY <1>1, <1>5, <1>6 DEF Moved
<1>8. binding' = [t \in Transfers |-> binding'[t]]
  BY DEF WorkerEffect, TicketsStay
<1>9. worker[x].result # "none" => worker[x].pc # "authorize"
  BY DEF Working, Formal
<1>10. ResultsStay
  BY <1>1, <1>5, <1>9 DEF ResultsStay, Moved, Kept
<1>11. QED
  BY <1>2, <1>4, <1>7, <1>8, <1>10 DEF Working

\* Only the daemon takes a step.
LEMMA DaemonWorking ==
    ASSUME Working, NEW T, Passes(d, d', T), now' \in Nat, TicketsStay, UNCHANGED worker
    PROVE  Working' /\ ResultsStay
<1>1. Inv(d') /\ Lasts(d, d') /\ Stays(d, d')
  BY DEF Passes
<1>2. \A y \in Executions : Formal(worker[y]) /\ Sound(d', worker[y])
  BY <1>1, SoundLasts DEF Working
<1>3. QED
  BY <1>1, <1>2 DEF Working, TicketsStay, ResultsStay

\* The worker process dies.
LEMMA CrashWorking ==
    ASSUME Working, WorkerCrash
    PROVE  /\ Working' /\ ResultsStay /\ TicketsStay /\ Passes(d, d', {})
           /\ \A x \in Executions :
                /\ worker'[x].transfer = worker[x].transfer
                /\ worker'[x].generation = worker[x].generation
                /\ worker'[x].defers = worker[x].defers /\ worker'[x].scope = worker[x].scope
                /\ worker[x].pc \in WorkerEnded => /\ worker'[x].pc = worker[x].pc
                                                   /\ worker'[x].final = worker[x].final
                /\ worker[x].pc \notin WorkerEnded => worker'[x].pc = "crashed"
                /\ worker'[x].result = worker[x].result
<1>1. UNCHANGED <<d, now, binding>>
  BY DEF WorkerCrash
<1>2. /\ now' \in Nat /\ TicketsStay /\ Passes(d, d', {})
      /\ \A x \in Executions : Formal(worker[x]) /\ Sound(d', worker[x])
  BY <1>1, LocalEffect DEF Working
<1>3. worker' = [x \in Executions |->
         IF worker[x].pc \in WorkerEnded THEN [worker[x] EXCEPT !.slot = FALSE]
         ELSE [worker[x] EXCEPT !.pc = "crashed", !.slot = FALSE]]
  BY DEF WorkerCrash
<1>4. ASSUME NEW x \in Executions
      PROVE  /\ Formal(worker'[x]) /\ Sound(d', worker'[x])
             /\ worker'[x].transfer = worker[x].transfer
             /\ worker'[x].generation = worker[x].generation
             /\ worker'[x].defers = worker[x].defers /\ worker'[x].scope = worker[x].scope
             /\ worker[x].pc \in WorkerEnded => /\ worker'[x].pc = worker[x].pc
                                                /\ worker'[x].final = worker[x].final
             /\ worker[x].pc \notin WorkerEnded => worker'[x].pc = "crashed"
             /\ worker'[x].result = worker[x].result
             /\ worker[x].result # "none" => worker'[x].ticket = worker[x].ticket
  <2> DEFINE w == worker[x]
  <2>1. Formal(w) /\ Sound(d', w)
    BY <1>2
  <2>2. CASE w.pc \in WorkerEnded
    <3> DEFINE v == [w EXCEPT !.slot = FALSE]
    <3>1. worker'[x] = v
      BY <1>3, <2>2
    <3>2. /\ Formal(v) /\ v.pc = w.pc /\ v.transfer = w.transfer
          /\ v.generation = w.generation /\ v.defers = w.defers /\ v.scope = w.scope
          /\ v.ticket = w.ticket /\ v.result = w.result /\ v.final = w.final
      BY <2>1, <2>2, CrashedRec
    <3> HIDE DEF v
    <3>3. Sound(d', v)
      BY <2>1, <2>2, <3>2 DEF Sound, WorkerEnded
    <3>4. QED
      BY <2>2, <3>1, <3>2, <3>3
  <2>3. CASE w.pc \notin WorkerEnded
    <3> DEFINE v == [w EXCEPT !.pc = "crashed", !.slot = FALSE]
    <3>1. worker'[x] = v
      BY <1>3, <2>3
    <3>2. Formal(v) /\ Kept(w, v) /\ v.pc = "crashed" /\ v.scope = w.scope /\ v.result = w.result
      BY <2>1, <2>3, CrashedRec DEF Formal, WorkerFields
    <3> HIDE DEF v
    <3>3. Sound(d', v)
      BY <2>1, <2>3, <3>2 DEF Sound, Kept, WorkerEnded
    <3>4. w.result # "none" => w.pc # "authorize"
      BY <2>1 DEF Formal
    <3>5. QED
      BY <2>3, <3>1, <3>2, <3>3, <3>4 DEF Kept
  <2>4. QED
    BY <2>2, <2>3
<1>5. worker' = [x \in Executions |-> worker'[x]]
  BY <1>3
<1>6. Working'
  BY <1>2, <1>4, <1>5 DEF Working, Passes, TicketsStay
<1>7. ResultsStay
  BY <1>4 DEF ResultsStay
<1>8. QED
  BY <1>2, <1>4, <1>6, <1>7

\* A client hands its leases to the worker.
LEMMA SubmitWorking ==
    ASSUME Working, NEW x \in Executions, NEW t, NEW r, NEW g, NEW b \in BOOLEAN,
           WorkerSubmit(x, t, r, g, b), Bound(d, t, g), UNCHANGED <<d, now, binding>>
    PROVE  /\ Working' /\ ResultsStay /\ TicketsStay /\ Passes(d, d', {})
           /\ worker'[x].pc = "authorize" /\ worker'[x].transfer = t
           /\ worker'[x].generation = g /\ worker'[x].defers = b
           /\ worker'[x].result = "none"
           /\ \A y \in Executions \ {x} : worker'[y] = worker[y]
<1> DEFINE v == Submitted(t, r, g, b)
<1>1. /\ worker = [y \in Executions |-> worker[y]] /\ worker' = [worker EXCEPT ![x] = v]
      /\ worker[x].pc = "idle"
  BY DEF Working, WorkerSubmit, Submitted
<1>2. /\ now' \in Nat /\ TicketsStay /\ Passes(d, d', {})
      /\ \A y \in Executions : Formal(worker[y]) /\ Sound(d', worker[y])
  BY LocalEffect DEF Working
<1>3. /\ Formal(v) /\ v.pc = "authorize" /\ v.transfer = t /\ v.generation = g
      /\ v.defers = b /\ v.result = "none" /\ v.scope = {} /\ v.final = "none"
  BY SubmittedRec
<1> HIDE DEF v
<1>4. worker'[x] = v /\ \A y \in Executions \ {x} : worker'[y] = worker[y]
  BY <1>1
<1>5. Sound(d', v)
  BY <1>3 DEF Sound
<1>6. worker' = [y \in Executions |-> worker'[y]]
  BY <1>1
<1>7. worker[x].result = "none"
  BY <1>1 DEF Working, Formal, NoExecution
<1>8. \A y \in Executions : Formal(worker'[y]) /\ Sound(d', worker'[y])
  BY <1>2, <1>3, <1>4, <1>5
<1>9. Working'
  BY <1>2, <1>6, <1>8 DEF Working, Passes, TicketsStay
<1>10. ResultsStay
  BY <1>4, <1>7 DEF ResultsStay
<1>11. QED
  BY <1>2, <1>3, <1>4, <1>9, <1>10

\* A lease belongs to a plan that has settled.
LEMMA LeaseBound ==
    ASSUME NEW s, Inv(s), NEW l \in s.leases
    PROVE  Bound(s, l.transfer, l.generation)
<1>1. l.transfer \in Live(s) /\ l.generation = s.transfer[l.transfer].generation
  BY DEF Inv, Base, Held
<1>2. l.transfer \notin Dead(s)
  BY DEF Inv
<1>3. s.transfer[l.transfer].admission # "delayed"
  BY <1>2 DEF Inv, Base, Held
<1>4. l.transfer \in Transfers /\ l.transfer \in s.issued
  BY <1>1 DEF Live, Inv, Base, BoundIntents
<1>5. QED
  BY <1>1, <1>3, <1>4 DEF Bound, Settled, Waits

-----------------------------------------------------------------------------
\* The lifecycle.

\* A copy that went through, under the ticket that was issued last.
Earned(t) ==
    \E x \in Executions : /\ worker[x].transfer = t /\ worker[x].result = "complete"
                          /\ worker[x].ticket = binding[t]

\* The copy stays one.
LEMMA EarnedStays ==
    ASSUME TicketsStay, ResultsStay, NEW t \in Completed(d'), Earned(t)
    PROVE  Earned(t)'
<1>1. PICK x \in Executions : /\ worker[x].transfer = t /\ worker[x].result = "complete"
                              /\ worker[x].ticket = binding[t]
  BY DEF Earned
<1>2. binding'[t] = binding[t]
  BY DEF TicketsStay
<1>3. QED
  BY <1>1, <1>2 DEF Earned, ResultsStay

\* What a step of an execution completes, it has earned.
LEMMA EffectEarned ==
    ASSUME Working, NEW x \in Executions, WorkerEffect(x), NEW t \in Completed(d'),
           t \notin Completed(d)
    PROVE  Earned(t)
  BY DEF WorkerEffect, Passes, Earned

LifecycleInv == Working /\ \A t \in Completed(d) : Earned(t)

\* The tables a client finds registered.
LEMMA RegisteredInv ==
    ASSUME LifecycleInit
    PROVE  LifecycleInv
<1> DEFINE x == CHOOSE y \in SessionIds : TRUE
           j0 == CHOOSE j \in Jobs : TRUE
           open == [state |-> "open", capable |-> TRUE, seen |-> 1]
<1>1. x \in SessionIds /\ j0 \in Jobs
  BY LifecycleAssumption
<1>2. d = Registered /\ now = 1
  BY DEF LifecycleInit
<1>3. Shape(d)
  BY <1>2 DEF Registered, Shape, Fields
<1>4. open \in SessionRec /\ NoSession \in SessionRec
  BY DEF SessionRec, NoSession
<1> HIDE DEF x, j0, open
<1>5. /\ d.session = [y \in SessionIds |-> IF y = x THEN open ELSE NoSession]
      /\ d.attached = [r \in Relays |-> {x}]
      /\ d.jobs = [j \in Jobs |-> x] /\ d.buffers = [b \in Buffers |-> j0]
      /\ d.issued = {} /\ d.transfer = [t \in Transfers |-> NoTransfer]
      /\ d.intents = [i \in Intents |-> None] /\ d.leases = {}
      /\ d.archive = [t \in Transfers |-> NoArchive]
      /\ d.archivedIntents = [i \in Intents |-> None]
  BY <1>2 DEF Registered, x, j0, open
<1>6. NoTransfer \in TransferRec /\ NoTransfer.state = "absent"
  BY ConstantsAssumption DEF NoTransfer, TransferRec, AdmissionStates
<1>7. NoArchive \in ArchiveRec /\ NoArchive.state = "absent"
  BY ConstantsAssumption DEF NoArchive, ArchiveRec
<1>8. Live(d) = {} /\ Dead(d) = {}
  BY <1>5, <1>6 DEF Live, Dead
<1>9. Types(d)
  BY <1>1, <1>4, <1>5, <1>6, <1>7 DEF Types
<1>10. Held(d) /\ Runnable(d) /\ RegisteredOwners(d)
  BY <1>5, <1>8 DEF Held, Runnable, RegisteredOwners
<1>11. BoundIntents(d)
  BY <1>5, <1>8 DEF BoundIntents, Owner
<1>12. ArchivedOutcomes(d) /\ Completed(d) = {}
  BY <1>5, <1>7, <1>8 DEF ArchivedOutcomes, Outcome, Completed, Terminal
<1>13. Inv(d)
  BY <1>3, <1>8, <1>9, <1>10, <1>11, <1>12 DEF Inv, Base
<1>14. /\ binding = [t \in Transfers |-> <<>>] /\ worker = [y \in Executions |-> NoExecution]
  BY DEF LifecycleInit
<1>15. Formal(NoExecution) /\ Sound(d, NoExecution)
  BY DEF Formal, Sound, NoExecution, WorkerFields
<1>16. QED
  BY <1>2, <1>12, <1>13, <1>14, <1>15 DEF LifecycleInv, Working

\* What happens beside the executions.
LEMMA BesideWorking ==
    ASSUME Working,
           \/ \E i \in Intents, x \in SessionIds, t \in Transfers : ClientSubmit(i, x, t)
           \/ \E i \in Intents, x \in SessionIds : ClientRetry(i, x)
           \/ Environment
    PROVE  Working' /\ ResultsStay /\ TicketsStay /\ Passes(d, d', {}) /\ UNCHANGED worker
<1>1. Inv(d) /\ now \in Nat
  BY DEF Working
<1>2. ASSUME NEW i \in Intents, NEW x \in SessionIds, NEW t \in Transfers, ClientSubmit(i, x, t)
      PROVE  Passes(d, d', {}) /\ now' \in Nat /\ TicketsStay /\ UNCHANGED worker
  <2>1. SubmitTransferIntent(i, x, t) /\ PlanTickets /\ UNCHANGED worker
    BY <1>2 DEF ClientSubmit
  <2>2. Passes(d, d', {}) /\ now' = now
    BY <1>1, <2>1, SubmissionPasses
  <2>3. QED
    BY <1>1, <2>1, <2>2, PlanTicketsStay
<1>3. ASSUME NEW i \in Intents, NEW x \in SessionIds, ClientRetry(i, x)
      PROVE  Passes(d, d', {}) /\ now' \in Nat /\ TicketsStay /\ UNCHANGED worker
  <2>1. ResubmitTransferIntent(i, x) /\ RetryTickets(d.intents[i]) /\ UNCHANGED worker
    BY <1>3 DEF ClientRetry
  <2>2. Passes(d, d', {}) /\ now' = now
    BY <1>1, <2>1, SubmissionPasses
  <2>3. QED
    BY <1>1, <2>1, <2>2, RetryTicketsStay
<1>4. ASSUME Environment
      PROVE  Passes(d, d', {}) /\ now' \in Nat /\ TicketsStay /\ UNCHANGED worker
  <2>1. Passes(d, d', {}) /\ now' \in Nat
    BY <1>1, <1>4, EnvironmentPasses DEF Environment
  <2>2. QED
    BY <1>1, <1>4, <2>1, PlanTicketsStay DEF Environment
<1>5. QED
  BY <1>2, <1>3, <1>4, DaemonWorking

\* Every step of the lifecycle keeps the invariant.
LEMMA LifecycleStep ==
    ASSUME LifecycleInv, [LifecycleNext]_lifecycleVars
    PROVE  LifecycleInv'
<1>1. Working
  BY DEF LifecycleInv
<1>2. ASSUME Working', ResultsStay, TicketsStay, Passes(d, d', {})
      PROVE  LifecycleInv'
  <2>1. \A t \in Completed(d') : Earned(t)
    BY <1>2 DEF Passes, LifecycleInv
  <2>2. \A t \in Completed(d') : Earned(t)'
    BY <1>2, <2>1, EarnedStays
  <2>3. QED
    BY <1>2, <2>2 DEF LifecycleInv, Completed
<1>3. ASSUME NEW x \in Executions, WorkerStep(x) \/ WorkerRaise(x)
      PROVE  LifecycleInv'
  <2>1. WorkerEffect(x)
    BY <1>1, <1>3, WorkerStepEffect
  <2>2. Working' /\ ResultsStay /\ TicketsStay
    BY <1>1, <2>1, EffectWorking DEF WorkerEffect
  <2>3. \A t \in Completed(d') : Earned(t)
    BY <1>1, <2>1, EffectEarned DEF LifecycleInv
  <2>4. \A t \in Completed(d') : Earned(t)'
    BY <2>2, <2>3, EarnedStays
  <2>5. QED
    BY <2>2, <2>4 DEF LifecycleInv, Completed
<1>4. ASSUME NEW x \in Executions, ClientExecute(x)
      PROVE  LifecycleInv'
  <2>1. PICK l \in d.leases : /\ WorkerSubmit(x, l.transfer, l.relay, l.generation, FALSE)
                              /\ UNCHANGED <<d, now, binding>>
    BY <1>4 DEF ClientExecute
  <2>2. Bound(d, l.transfer, l.generation)
    BY <1>1, LeaseBound DEF Working
  <2>3. QED
    BY <1>1, <1>2, <2>1, <2>2, SubmitWorking
<1>5. CASE WorkerCrash
  BY <1>1, <1>2, <1>5, CrashWorking
<1>6. CASE \/ \E i \in Intents, x \in SessionIds, t \in Transfers : ClientSubmit(i, x, t)
           \/ \E i \in Intents, x \in SessionIds : ClientRetry(i, x)
           \/ Environment
  BY <1>1, <1>2, <1>6, BesideWorking
<1>7. CASE UNCHANGED lifecycleVars
  BY <1>7 DEF lifecycleVars, LifecycleInv, Working, Completed, Earned
<1>8. QED
  BY <1>3, <1>4, <1>5, <1>6, <1>7 DEF LifecycleNext

\* For any number of sessions, intents, relays and executions, and whatever
\* overtakes an execution: the daemon's tables agree, and each execution knows what
\* it needs to know of them.
THEOREM LifecycleInvariance == LifecycleSpec => []LifecycleInv
  BY RegisteredInv, LifecycleStep, PTL DEF LifecycleSpec

\* A worker that returns holds no slot and has left no lease of its ticket behind.
THEOREM HandsBack == LifecycleSpec => []WorkerHandsBack
<1>1. LifecycleInv => WorkerHandsBack
  BY DEF LifecycleInv, Working, WorkerHandsBack, Formal, Sound, Holds, LeaseOn
<1>2. QED
  BY <1>1, LifecycleInvariance, PTL

\* A transfer is only ever complete because an execution copied it, under the ticket
\* that the daemon issued last.
THEOREM CompletionEarned == LifecycleSpec => []CompletionIsEarned
<1>1. LifecycleInv => CompletionIsEarned
  BY DEF LifecycleInv, CompletionIsEarned, Completed, Earned
<1>2. QED
  BY <1>1, LifecycleInvariance, PTL

\* What a reporting worker returns is what the daemon recorded.
THEOREM FinalTruthful == LifecycleSpec => []FinalIsTruthful
<1>1. LifecycleInv => FinalIsTruthful
  BY DEF LifecycleInv, Working, FinalIsTruthful, Sound
<1>2. QED
  BY <1>1, LifecycleInvariance, PTL

-----------------------------------------------------------------------------
\* The answer to a submission names a live transfer.

\* Releasing leases leaves the transfers alone that had none of them.
LEMMA ReleaseSpares ==
    ASSUME NEW s, Formed(s), NEW L, NEW final \in {"failed", "canceled"}, NEW t \in Transfers,
           t \notin {l.transfer : l \in L}
    PROVE  ReleaseLeases(s, L, final).transfer[t] = s.transfer[t]
<1> DEFINE a == DropLeases(s, L)
           freed == {l.transfer : l \in L} \ Leased(a)
           b == MarkTerminal(a, freed, final)
           F == (freed \cap Finished(b)) \ Leased(b)
           C == {u \in F : b.transfer[u].state = "complete"}
           c == RetireCompleted(b, C)
           e == RetireRuntime(c, F \ C)
<1>1. ReleaseLeases(s, L, final) = e
  BY Zenon DEF ReleaseLeases, RetireUnleased
<1>2. t \notin freed
  OBVIOUS
<1> HIDE DEF freed
<1>3. Formed(a) /\ a.transfer = s.transfer
  BY HelpersTrim, DropLeasesFields DEF Trims, Update, Formed
<1> HIDE DEF a
<1>4. Formed(b) /\ b.transfer[t] = a.transfer[t]
  <2>1. Formed(b)
    BY <1>3, HelpersTrim DEF Trims
  <2>2. b.transfer = Marked(a, freed, final)
    BY <1>3, MarkTerminalFields DEF Update, Formed
  <2>3. QED
    BY <1>2, <2>1, <2>2 DEF Marked
<1> HIDE DEF b
<1>5. t \notin F /\ t \notin C
  BY <1>2
<1> HIDE DEF F, C
<1>6. Formed(c) /\ c.transfer[t] = b.transfer[t]
  <2> DEFINE m == Archive(b, C)
             f == [u \in Transfers |->
                     IF u \in C THEN [m.transfer[u] EXCEPT !.ticket = 0, !.queued = FALSE]
                                ELSE m.transfer[u]]
  <2>1. Shape(m) /\ m.transfer = b.transfer
    BY <1>4, ArchiveFields DEF Update, Formed
  <2>2. c = [m EXCEPT !.transfer = f]
    BY Zenon DEF RetireCompleted
  <2>3. f[t] = m.transfer[t]
    BY <1>5
  <2> HIDE DEF m, f
  <2>4. c.transfer = f
    BY <2>1, <2>2, SetTransfer DEF Update
  <2>5. Formed(c)
    BY <1>4, HelpersTrim DEF Trims
  <2>6. QED
    BY <2>1, <2>3, <2>4, <2>5
<1> HIDE DEF c
<1>7. e.transfer[t] = c.transfer[t]
  <2> DEFINE m == Archive(c, F \ C)
             f == [u \in Transfers |-> IF u \in F \ C THEN NoTransfer ELSE m.transfer[u]]
             g == [i \in Intents |-> IF m.intents[i] \in F \ C THEN None ELSE m.intents[i]]
  <2>1. Shape(m) /\ m.transfer = c.transfer
    BY <1>6, ArchiveFields DEF Update, Formed
  <2>2. e = [m EXCEPT !.transfer = f, !.intents = g]
    BY Zenon DEF RetireRuntime
  <2>3. f[t] = m.transfer[t]
    BY <1>5
  <2> HIDE DEF m, f, g, e
  <2>4. Update(m, e, f, g, m.leases, m.archive, m.archivedIntents)
    BY <2>1, <2>2, SetTransferIntents, Zenon
  <2>5. QED
    BY <2>1, <2>3, <2>4 DEF Update
<1>8. QED
  BY <1>1, <1>3, <1>4, <1>6, <1>7

\* A promotion leaves the states alone.
LEMMA PromotionSpares ==
    ASSUME NEW s, Formed(s), NEW e \in PromoteDelayed(s), NEW t \in Transfers
    PROVE  e.transfer[t].state = s.transfer[t].state
<1>1. CASE e = s
  BY <1>1
<1>2. CASE e # s
  <2>1. PICK P \in SUBSET DelayedTransfers(s) :
          e \in {PromoteTransfers(s, P, g) : g \in PromotionGrants(s, P)}
    BY <1>2 DEF PromoteDelayed
  <2>2. PICK g \in PromotionGrants(s, P) : e = PromoteTransfers(s, P, g)
    BY <2>1
  <2> DEFINE f == [u \in Transfers |->
                     IF u \in P
                     THEN [s.transfer[u] EXCEPT !.admission = "admitted",
                             !.generation = @ + 1, !.ticket = s.transfer[u].generation + 1,
                             !.expires = PlanExpiry(g[u]),
                             !.relays = {r \in Relays : g[u][r] > 0}]
                     ELSE s.transfer[u]]
             a == [s EXCEPT !.transfer = f]
  <2>3. e = CommitLeases(a, P, g)
    BY <2>2, Zenon DEF PromoteTransfers
  <2>4. s.transfer[t] \in TransferRec
    BY DEF Formed
  <2>5. f[t].state = s.transfer[t].state
    BY <2>4 DEF TransferRec
  <2> HIDE DEF f
  <2>6. Shape(a) /\ a.transfer = f
    BY SetTransfer DEF Update, Formed
  <2> HIDE DEF a
  <2>7. e.transfer = a.transfer
    BY <2>3, <2>6, CommitLasts
  <2>8. QED
    BY <2>5, <2>6, <2>7
<1>3. QED
  BY <1>1, <1>2

\* The transfer of an intent that is live has the intent on file.
LEMMA OwnerLive ==
    ASSUME NEW s, Inv(s), NEW i \in Intents, Owner(s, i) \in Live(s)
    PROVE  s.intents[i] = Owner(s, i)
<1> DEFINE t == Owner(s, i)
           k == s.transfer[t].intent
<1>1. k \in Intents /\ s.intents[k] = t /\ t \in Transfers
  BY DEF Inv, Base, BoundIntents, RegisteredOwners, Live
<1>2. t # None
  BY <1>1, ConstantsAssumption
<1>3. Owner(s, k) = t
  BY <1>1, <1>2 DEF Owner
<1>4. k = i
  BY <1>1, <1>2, <1>3, Zenon DEF Inv, Base, BoundIntents
<1>5. QED
  BY <1>1, <1>4

\* So the payload of a submission or a retry is about a live transfer: a transfer
\* that waits for its promotion has no lease that could expire.
LEMMA SubmissionLive ==
    ASSUME Inv(d), now \in Nat, NEW i \in Intents, NEW x \in SessionIds,
           \/ \E t \in Transfers : SubmitTransferIntent(i, x, t)
           \/ ResubmitTransferIntent(i, x)
    PROVE  d'.intents[i] \in Live(d')
<1>1. Inv(d')
  BY SubmissionPasses DEF Passes
<1>2. ASSUME NEW t \in Transfers, SubmitTransferIntent(i, x, t)
      PROVE  d'.intents[i] \in Live(d')
  <2>1. PICK m : AcceptsIntent(m, d', i, t)
    BY <1>2, SubmitInv
  <2>2. Owner(d', i) = t /\ Outcome(d', t).state = "submitted"
    BY <2>1 DEF AcceptsIntent
  <2>3. ArchivedAs(d', t)
    BY <1>1, ArchivedEach DEF Inv, Base
  <2>4. t \in Live(d')
    BY <2>2, <2>3 DEF ArchivedAs, Outcome, Terminal
  <2>5. QED
    BY <1>1, <2>2, <2>4, OwnerLive
<1>3. ASSUME ResubmitTransferIntent(i, x)
      PROVE  d'.intents[i] \in Live(d')
  <2> DEFINE t == d.intents[i]
  <2>1. t \in Live(d) \ Finished(d) /\ t \in Transfers /\ t # None /\ Owner(d, i) = t
    BY <1>3 DEF ResubmitTransferIntent, HasTerminalReceipt, Inv, Base, BoundIntents, Live, Owner
  <2>2. \/ d' = ReissueTicket(d, t)
        \/ /\ d.transfer[t].admission = "delayed"
           /\ \E s \in RefreshAdmission(d) : d' = ReissueTicket(s, t)
    BY <1>3, Zenon DEF ResubmitTransferIntent
  <2>3. Owner(d', i) = t
    BY <1>3, <2>1, ResubmitInv DEF Keeps
  <2> HIDE DEF t
  <2>4. \A s : Formed(s) => ReissueTicket(s, t).transfer[t].state = s.transfer[t].state
    <3>1. ASSUME NEW s, Formed(s)
          PROVE  ReissueTicket(s, t).transfer[t].state = s.transfer[t].state
      <4> DEFINE r == [s.transfer[t] EXCEPT !.ticket = s.transfer[t].generation]
      <4>1. CASE s.transfer[t].admission = "admitted"
        <5>1. ReissueTicket(s, t) = [s EXCEPT !.transfer[t] = r]
          BY <4>1, Zenon DEF ReissueTicket
        <5>2. r.state = s.transfer[t].state
          BY <2>1, <3>1 DEF Formed, TransferRec
        <5> HIDE DEF r
        <5>3. ReissueTicket(s, t).transfer = [s.transfer EXCEPT ![t] = r]
          BY <3>1, <5>1, SetOne DEF Update, Formed
        <5>4. QED
          BY <2>1, <3>1, <5>2, <5>3 DEF Formed
      <4>2. CASE s.transfer[t].admission # "admitted"
        BY <4>2 DEF ReissueTicket
      <4>3. QED
        BY <4>1, <4>2
    <3>2. QED
      BY <3>1
  <2>5. CASE d' = ReissueTicket(d, t)
    BY <1>1, <2>1, <2>3, <2>4, <2>5, InvFormed, OwnerLive DEF Live
  <2>6. CASE /\ d.transfer[t].admission = "delayed"
             /\ \E s \in RefreshAdmission(d) : d' = ReissueTicket(s, t)
    <3>1. PICK s \in RefreshAdmission(d) : d' = ReissueTicket(s, t)
      BY <2>6
    <3> DEFINE a == ReapExpiredLeases(d)
               L == {l \in d.leases : now > l.expires}
    <3>2. t \notin {l.transfer : l \in L}
      BY <2>1, <2>6, UnfinishedState DEF Leased
    <3> HIDE DEF L
    <3>3. a.transfer[t] = d.transfer[t]
      BY <2>1, <3>2, InvFormed, ReleaseSpares DEF ReapExpiredLeases, L
    <3>4. Formed(a) /\ s \in PromoteDelayed(a)
      BY <3>1, InvFormed, ReapersTrim DEF Trims, RefreshAdmission
    <3> HIDE DEF a
    <3>5. s.transfer[t].state = d.transfer[t].state
      BY <2>1, <3>3, <3>4, PromotionSpares
    <3>6. Formed(s)
      BY RefreshInv, InvFormed
    <3>7. QED
      BY <1>1, <2>1, <2>3, <2>4, <3>1, <3>5, <3>6, OwnerLive DEF Live
  <2>7. QED
    BY <2>2, <2>5, <2>6
<1>4. QED
  BY <1>2, <1>3

-----------------------------------------------------------------------------
\* The executor.

ExecutorFields == {"pc", "intent", "transfer", "planned", "relays", "left", "generation",
                   "expires", "copied", "end"}

Told == {"complete", "failed", "unreported"}
Direct == {"direct", "directCopied", "directRefused"}
Answered == {"reportComplete", "reportFailure"}

\* The execution got past its admission.
Engaged(e) ==
    \/ e.pc \in {"validate", "worker", "cleanup", "markFailed"} \cup Answered \cup Direct
    \/ e.pc = "ended" /\ e.end \in Told

\* What holds of an executor by itself.
Plain(e) ==
    /\ e = [f \in ExecutorFields |-> e[f]]
    /\ e.relays \in SUBSET Relays /\ e.left \in SUBSET Relays
    /\ e.pc # "ended" => e.end = "none"
    /\ e.pc = "worker" => e.left = e.relays /\ e.relays = e.planned
    /\ e.pc \in Direct \cup {"markFailed"} => e.relays = {}

\* What it knows of the daemon: its payload is of the last plan, the leases it has
\* cleaned up or taken the worker's word for are gone, and what it has told its
\* caller is recorded.
Carried(s, e) ==
    /\ Engaged(e) => Bound(s, e.transfer, e.generation)
    /\ e.pc \in {"validate", "worker"} /\ e.transfer \in Live(s) =>
          s.transfer[e.transfer].relays = e.planned
    /\ e.pc = "cleanup" => \A r \in e.relays \ e.left : ~Holds(s, e.transfer, r)
    /\ e.pc \in Answered \/ (e.pc = "ended" /\ e.end \in Told) =>
          \A r \in e.relays : ~Holds(s, e.transfer, r)
    /\ e.end \in {"complete", "failed"} => Outcome(s, e.transfer).state = e.end

\* What it knows of the worker: until an authorization the execution w covers no
\* lease, and then all of the plan.
Employs(e, w) ==
    /\ e.pc = "worker" =>
          /\ w.pc # "idle" /\ w.transfer = e.transfer /\ w.generation = e.generation
          /\ \/ w.scope = e.planned
             \/ w.result = "none" /\ w.pc \in {"authorize", "returned", "crashed"}
    /\ e.pc = "reportComplete" =>
          /\ w.pc = "returned" /\ w.transfer = e.transfer /\ w.result = "complete"
          /\ e.intent \notin MixedIntents

\* Steps of the daemon leave it so.
LEMMA CarriedLasts ==
    ASSUME NEW s, NEW b, Lasts(s, b), Stays(s, b), NEW e, Plain(e), Carried(s, e)
    PROVE  Carried(b, e)
<1>1. ASSUME Engaged(e)
      PROVE  /\ Bound(b, e.transfer, e.generation)
             /\ \A r \in Relays : ~Holds(s, e.transfer, r) => ~Holds(b, e.transfer, r)
             /\ e.transfer \in Live(b) =>
                  /\ e.transfer \in Live(s)
                  /\ b.transfer[e.transfer].relays = s.transfer[e.transfer].relays
             /\ Outcome(s, e.transfer).state \in {"complete", "failed"} =>
                  Outcome(b, e.transfer).state = Outcome(s, e.transfer).state
  <2>1. Bound(s, e.transfer, e.generation)
    BY <1>1 DEF Carried
  <2>2. QED
    BY <2>1 DEF Bound, Lasts, Settled, Stays, Terminal
<1>2. e.relays \in SUBSET Relays /\ (e.end # "none" => e.pc = "ended")
  BY DEF Plain
<1>3. e.pc \in {"validate", "worker", "cleanup"} \cup Answered
        \/ (e.pc = "ended" /\ e.end \in Told) => Engaged(e)
  BY DEF Engaged
<1>4. e.end \in {"complete", "failed"} => Engaged(e)
  BY <1>2 DEF Engaged, Told
<1>5. Bound(b, e.transfer, e.generation) \/ ~Engaged(e)
  BY <1>1
<1>6. e.pc \in {"validate", "worker"} /\ e.transfer \in Live(b) =>
          b.transfer[e.transfer].relays = e.planned
  BY <1>1, <1>3 DEF Carried
<1>7. e.pc = "cleanup" => \A r \in e.relays \ e.left : ~Holds(b, e.transfer, r)
  BY <1>1, <1>2, <1>3 DEF Carried
<1>8. e.pc \in Answered \/ (e.pc = "ended" /\ e.end \in Told) =>
          \A r \in e.relays : ~Holds(b, e.transfer, r)
  BY <1>1, <1>2, <1>3 DEF Carried
<1>9. e.end \in {"complete", "failed"} => Outcome(b, e.transfer).state = e.end
  BY <1>1, <1>4 DEF Carried
<1>10. QED
  BY <1>5, <1>6, <1>7, <1>8, <1>9 DEF Carried

\* So do the steps of the worker.
LEMMA EmploysMoved ==
    ASSUME NEW x \in Executions, NEW v, Moved(x, v), NEW e, Carried(d, e), Employs(e, worker[x])
    PROVE  Employs(e, v)
<1>1. /\ v.transfer = worker[x].transfer /\ v.generation = worker[x].generation
      /\ v.pc # "idle" /\ worker[x].pc \notin {"idle", "returned", "crashed"}
  BY DEF Moved, Kept, WorkerEnded
<1>2. e.pc # "reportComplete"
  BY <1>1 DEF Employs
<1>3. ASSUME e.pc = "worker"
      PROVE  \/ v.scope = e.planned
             \/ v.result = "none" /\ v.pc \in {"authorize", "returned", "crashed"}
  <2>1. CASE worker[x].transfer \in Live(d) /\ v.scope = d.transfer[worker[x].transfer].relays
    BY <1>3, <2>1 DEF Carried, Employs
  <2>2. CASE /\ v.scope = worker[x].scope
             /\ worker[x].pc = "authorize" =>
                   v.result = "none" /\ v.pc \in {"returned", "crashed"}
    BY <1>1, <1>3, <2>2 DEF Employs
  <2>3. QED
    BY <2>1, <2>2 DEF Moved
<1>4. QED
  BY <1>1, <1>2, <1>3 DEF Employs

\* The records that the steps write.
EndedAs(e, end) == [e EXCEPT !.pc = "ended", !.end = end]
At(e, pc, left) == [e EXCEPT !.pc = pc, !.left = left]
Tried(e, ok) == [e EXCEPT !.pc = "directCopied", !.copied = ok]
Dead0 == [NoExecutor EXCEPT !.pc = "dead"]

\* The same payload after a step.
SamePayload(e, f) ==
    /\ Plain(f) /\ f.intent = e.intent /\ f.transfer = e.transfer /\ f.planned = e.planned
    /\ f.relays = e.relays /\ f.generation = e.generation

\* An execution that ends,
LEMMA LeftRec ==
    ASSUME NEW e, Plain(e), NEW end
    PROVE  LET f == EndedAs(e, end)
           IN /\ SamePayload(e, f) /\ f.pc = "ended" /\ f.end = end /\ f.copied = e.copied
  BY DEF Plain, ExecutorFields, SamePayload, EndedAs, Direct

\* one that goes on,
LEMMA AtRec ==
    ASSUME NEW e, Plain(e), e.pc # "ended", NEW pc, NEW left \in SUBSET Relays, pc # "ended",
           pc = "worker" => left = e.relays /\ e.relays = e.planned,
           pc \in Direct \cup {"markFailed"} => e.relays = {}
    PROVE  LET f == At(e, pc, left)
           IN SamePayload(e, f) /\ f.pc = pc /\ f.left = left /\ f.end = "none"
  BY DEF Plain, ExecutorFields, SamePayload, At

\* one that has tried the direct path,
LEMMA TriedRec ==
    ASSUME NEW e, Plain(e), e.pc = "direct", NEW ok
    PROVE  LET f == Tried(e, ok)
           IN SamePayload(e, f) /\ f.pc = "directCopied" /\ f.copied = ok /\ f.end = "none"
  BY DEF Plain, ExecutorFields, SamePayload, Tried, Direct

\* and one that dies.
LEMMA DeadRec ==
    ASSUME NEW s, NEW w
    PROVE  Plain(Dead0) /\ Carried(s, Dead0) /\ Employs(Dead0, w) /\ Dead0.pc = "dead"
<1>1. /\ Dead0.pc = "dead" /\ Dead0.end = "none" /\ Dead0.relays = {} /\ Dead0.left = {}
      /\ Dead0 = [f \in ExecutorFields |-> Dead0[f]]
  BY DEF Dead0, NoExecutor, ExecutorFields
<1>2. Plain(Dead0)
  BY <1>1 DEF Plain, Direct
<1>3. QED
  BY <1>1, <1>2 DEF Carried, Employs, Engaged, Answered, Direct

\* An execution that never got past its admission has nothing to answer for.
LEMMA EndedEarly ==
    ASSUME NEW s, NEW w, NEW e, Plain(e), NEW end \in {"receipt", "unadmitted", "unvalidated"}
    PROVE  LET f == EndedAs(e, end)
           IN Plain(f) /\ Carried(s, f) /\ Employs(f, w)
<1> DEFINE f == EndedAs(e, end)
<1>1. SamePayload(e, f) /\ f.pc = "ended" /\ f.end = end
  BY LeftRec
<1> HIDE DEF f
<1>2. QED
  BY <1>1 DEF SamePayload, Carried, Employs, Engaged, Answered, Direct, Told, f

\* One that did ends when its leases are gone, with what the daemon has recorded.
LEMMA EndedTold ==
    ASSUME NEW s, NEW w, NEW e, Plain(e), Carried(s, e),
           \/ e.pc \in Answered \cup Direct \cup {"markFailed"}
           \/ e.pc = "cleanup" /\ e.left = {},
           NEW end \in Told,
           end \in {"complete", "failed"} => Outcome(s, e.transfer).state = end
    PROVE  LET f == EndedAs(e, end)
           IN Plain(f) /\ Carried(s, f) /\ Employs(f, w)
<1> DEFINE f == EndedAs(e, end)
<1>1. SamePayload(e, f) /\ f.pc = "ended" /\ f.end = end
  BY LeftRec
<1> HIDE DEF f
<1>2. \A r \in e.relays : ~Holds(s, e.transfer, r)
  BY DEF Plain, Carried
<1>3. Bound(s, e.transfer, e.generation)
  BY DEF Carried, Engaged
<1>4. QED
  BY <1>1, <1>2, <1>3 DEF SamePayload, Carried, Employs, Answered, f

-----------------------------------------------------------------------------
\* The clients, the workers and the daemon.

\* The client's own copy.
CopiedDirectly(t) ==
    \E x \in Executions : /\ executor[x].pc = "ended" /\ executor[x].transfer = t
                          /\ executor[x].copied

\* Every executor agrees with its worker and with the daemon, and nothing has
\* completed that nobody copied.
ExecutionInv ==
    /\ Working
    /\ executor = [x \in Executions |-> executor[x]]
    /\ \A x \in Executions : /\ Plain(executor[x]) /\ Carried(d, executor[x])
                             /\ Employs(executor[x], worker[x])
    /\ \A t \in Completed(d) : Earned(t) \/ CopiedDirectly(t)
    /\ \A t \in Live(d) : d.transfer[t].generation > 0

\* Executor x becomes e.
Advanced(x, e) ==
    /\ executor' = [executor EXCEPT ![x] = e]
    /\ executor[x].pc # "ended"
    /\ Plain(e) /\ Carried(d', e) /\ Employs(e, worker'[x])

\* A live transfer has a plan.
LEMMA PlansStay ==
    ASSUME ExecutionInv, NEW T, Passes(d, d', T)
    PROVE  \A t \in Live(d') : d'.transfer[t].generation > 0
<1>1. \A t \in Live(d') : t \in Transfers
  BY DEF Live
<1>2. QED
  BY <1>1 DEF ExecutionInv, Passes, Lasts

\* A step of one executor: what completes in it has been copied.
LEMMA AdvancedStep ==
    ASSUME ExecutionInv, NEW x \in Executions, NEW e, Advanced(x, e), NEW T, Passes(d, d', T),
           \A t \in T : Earned(t) \/ (e.pc = "ended" /\ e.transfer = t /\ e.copied),
           Working', ResultsStay, TicketsStay,
           \A y \in Executions \ {x} : worker'[y] = worker[y]
    PROVE  ExecutionInv'
<1>1. /\ executor' = [y \in Executions |-> executor'[y]] /\ executor'[x] = e
      /\ \A y \in Executions \ {x} : executor'[y] = executor[y]
  BY DEF ExecutionInv, Advanced
<1>2. Lasts(d, d') /\ Stays(d, d')
  BY DEF Passes
<1>3. ASSUME NEW y \in Executions
      PROVE  Plain(executor'[y]) /\ Carried(d', executor'[y]) /\ Employs(executor'[y], worker'[y])
  <2>1. CASE y = x
    BY <1>1, <2>1 DEF Advanced
  <2>2. CASE y # x
    <3>1. Plain(executor[y]) /\ Carried(d, executor[y]) /\ Employs(executor[y], worker[y])
      BY DEF ExecutionInv
    <3>2. QED
      BY <1>1, <1>2, <2>2, <3>1, CarriedLasts
  <2>3. QED
    BY <2>1, <2>2
<1>4. ASSUME NEW t \in Completed(d')
      PROVE  Earned(t)' \/ CopiedDirectly(t)'
  <2>1. CASE Earned(t)
    BY <2>1, EarnedStays
  <2>2. CASE e.pc = "ended" /\ e.transfer = t /\ e.copied
    BY <1>1, <2>2 DEF CopiedDirectly
  <2>3. CASE CopiedDirectly(t)
    <3>1. PICK y \in Executions : /\ executor[y].pc = "ended" /\ executor[y].transfer = t
                                  /\ executor[y].copied
      BY <2>3 DEF CopiedDirectly
    <3>2. y # x
      BY <3>1 DEF Advanced
    <3>3. QED
      BY <1>1, <3>1, <3>2 DEF CopiedDirectly
  <2>4. t \in T \/ t \in Completed(d)
    BY DEF Passes
  <2>5. QED
    BY <2>1, <2>2, <2>3, <2>4 DEF ExecutionInv
<1>5. \A t \in Live(d') : d'.transfer[t].generation > 0
  BY PlansStay
<1>6. (\A t \in Completed(d) : Earned(t) \/ CopiedDirectly(t))'
  BY <1>4 DEF Completed, Outcome, Live
<1>7. (\A t \in Live(d) : d.transfer[t].generation > 0)'
  BY <1>5 DEF Live
<1>8. QED
  BY <1>1, <1>3, <1>6, <1>7 DEF ExecutionInv

\* A step of a worker or of the daemon.
LEMMA OthersStep ==
    ASSUME ExecutionInv, UNCHANGED executor, NEW T, Passes(d, d', T), \A t \in T : Earned(t),
           Working', ResultsStay, TicketsStay,
           \A y \in Executions : Employs(executor[y], worker'[y])
    PROVE  ExecutionInv'
<1>1. Lasts(d, d') /\ Stays(d, d')
  BY DEF Passes
<1>2. \A y \in Executions : Plain(executor[y]) /\ Carried(d', executor[y])
  BY <1>1, CarriedLasts DEF ExecutionInv
<1>3. ASSUME NEW t \in Completed(d')
      PROVE  Earned(t)' \/ CopiedDirectly(t)'
  <2>1. CASE Earned(t)
    BY <2>1, EarnedStays
  <2>2. CASE CopiedDirectly(t)
    BY <2>2 DEF CopiedDirectly
  <2>3. t \in T \/ t \in Completed(d)
    BY DEF Passes
  <2>4. QED
    BY <2>1, <2>2, <2>3 DEF ExecutionInv
<1>4. \A t \in Live(d') : d'.transfer[t].generation > 0
  BY PlansStay
<1>5. (\A t \in Completed(d) : Earned(t) \/ CopiedDirectly(t))'
  BY <1>3 DEF Completed, Outcome, Live
<1>6. (\A t \in Live(d) : d.transfer[t].generation > 0)'
  BY <1>4 DEF Live
<1>7. executor' = [y \in Executions |-> executor'[y]]
  BY DEF ExecutionInv
<1>8. QED
  BY <1>2, <1>5, <1>6, <1>7 DEF ExecutionInv

\* transfer_status, as an executor calls it.
LEMMA ReportStep ==
    ASSUME ExecutionInv, NEW x \in Executions, Engaged(executor[x]),
           NEW k, NEW state \in {"complete", "failed"}, NEW ok \in BOOLEAN,
           TransferStatus(executor[x].transfer, executor[x].generation, k, state, ok),
           PlanTickets, UNCHANGED worker
    PROVE  /\ Working' /\ ResultsStay /\ TicketsStay /\ Carried(d', executor[x])
           /\ ok => Outcome(d', executor[x].transfer).state = state
           /\ \/ Passes(d, d', {})
              \/ /\ Passes(d, d', {executor[x].transfer}) /\ ok /\ state = "complete"
                 /\ k = binding[executor[x].transfer]
<1> DEFINE e == executor[x]
           t == e.transfer
           g == e.generation
<1>1. Plain(e) /\ Carried(d, e) /\ Working
  BY DEF ExecutionInv
<1>2. Bound(d, t, g) /\ t \in Transfers /\ Settled(d, t) /\ Inv(d) /\ now \in Nat
  BY <1>1 DEF Carried, Bound, Working
<1>3. TransferStatus(t, g, k, state, ok)
  OBVIOUS
<1> HIDE DEF t, g, e
<1>4. /\ now' = now
      /\ \/ Passes(d, d', {})
         \/ Passes(d, d', {t}) /\ ok /\ state = "complete" /\ k = binding[t]
      /\ ok /\ state \in {"complete", "failed"} => Outcome(d', t).state = state
  BY <1>2, <1>3, StatusPasses
<1>5. TicketsStay /\ Working' /\ ResultsStay
  <2>1. CASE Passes(d, d', {})
    BY <1>1, <1>2, <1>4, <2>1, PlanTicketsStay, DaemonWorking
  <2>2. CASE Passes(d, d', {t})
    BY <1>1, <1>2, <1>4, <2>2, PlanTicketsStay, DaemonWorking
  <2>3. QED
    BY <1>4, <2>1, <2>2
<1>6. Carried(d', e)
  BY <1>1, <1>4, CarriedLasts DEF Passes
<1>7. QED
  BY <1>4, <1>5, <1>6 DEF t, e

\* The answer of the executor is written where the daemon's was.
LEMMA EndWithRec ==
    ASSUME ExecutionInv, NEW x \in Executions, NEW end
    PROVE  EndWith(x, end) => executor' = [executor EXCEPT ![x] = EndedAs(executor[x], end)]
<1>1. executor = [y \in Executions |-> executor[y]]
  BY DEF ExecutionInv
<1>2. Plain(executor[x])
  BY DEF ExecutionInv
<1>3. QED
  BY <1>1, <1>2 DEF EndWith, EndedAs, Plain, ExecutorFields

\* A report that ends the execution, with what the daemon answered.
LEMMA ToldStep ==
    ASSUME ExecutionInv, NEW x \in Executions,
           \/ executor[x].pc \in Answered \cup Direct \cup {"markFailed"}
           \/ executor[x].pc = "cleanup" /\ executor[x].left = {},
           NEW k, NEW state \in {"complete", "failed"}, NEW ok \in BOOLEAN,
           TransferStatus(executor[x].transfer, executor[x].generation, k, state, ok),
           EndWith(x, IF ok THEN state ELSE "unreported"), PlanTickets, UNCHANGED worker,
           state = "complete" /\ ok /\ k = binding[executor[x].transfer] =>
              Earned(executor[x].transfer) \/ executor[x].copied
    PROVE  ExecutionInv'
<1> DEFINE e == executor[x]
           t == e.transfer
           end == IF ok THEN state ELSE "unreported"
           f == EndedAs(e, end)
<1>1. Plain(e) /\ Engaged(e)
  BY DEF ExecutionInv, Engaged
<1>2. /\ Working' /\ ResultsStay /\ TicketsStay /\ Carried(d', e)
      /\ ok => Outcome(d', t).state = state
      /\ \/ Passes(d, d', {})
         \/ Passes(d, d', {t}) /\ ok /\ state = "complete" /\ k = binding[t]
  BY <1>1, ReportStep
<1>3. end \in Told /\ (end \in {"complete", "failed"} => ok /\ end = state)
  BY DEF Told
<1>4. executor' = [executor EXCEPT ![x] = f]
  BY EndWithRec
<1> HIDE DEF end
<1>5. Plain(f) /\ Carried(d', f) /\ Employs(f, worker'[x])
  BY <1>1, <1>2, <1>3, EndedTold
<1>6. f.pc = "ended" /\ f.transfer = t /\ f.copied = e.copied
  BY <1>1, LeftRec DEF SamePayload
<1>7. e.pc # "ended"
  BY DEF Answered, Direct
<1> HIDE DEF f
<1>8. Advanced(x, f)
  BY <1>4, <1>5, <1>7 DEF Advanced
<1>9. CASE Passes(d, d', {})
  BY <1>2, <1>8, <1>9, AdvancedStep
<1>10. CASE Passes(d, d', {t}) /\ ok /\ state = "complete" /\ k = binding[t]
  BY <1>2, <1>6, <1>8, <1>10, AdvancedStep
<1>11. QED
  BY <1>2, <1>9, <1>10

\* The worker's completion is passed on, or its failure.
LEMMA WorkerReportedStep ==
    ASSUME ExecutionInv, NEW x \in Executions,
           ReportWorkerCompletion(x) \/ ReportWorkerFailure(x)
    PROVE  ExecutionInv'
<1> DEFINE e == executor[x]
<1>1. CASE ReportWorkerCompletion(x)
  <2>1. PICK ok \in BOOLEAN :
          /\ TransferStatus(e.transfer, e.generation, WorkerProof(x), "complete", ok)
          /\ EndWith(x, IF ok THEN "complete" ELSE "unreported")
    BY <1>1 DEF ReportWorkerCompletion
  <2>2. e.pc = "reportComplete" /\ PlanTickets /\ UNCHANGED worker
    BY <1>1 DEF ReportWorkerCompletion
  <2>3. /\ worker[x].transfer = e.transfer /\ worker[x].result = "complete"
        /\ WorkerProof(x) = worker[x].ticket
    BY <2>2 DEF ExecutionInv, Employs, WorkerProof
  <2>4. WorkerProof(x) = binding[e.transfer] => Earned(e.transfer)
    BY <2>3 DEF Earned
  <2>5. e.pc \in Answered
    BY <2>2 DEF Answered
  <2>6. QED
    BY <2>1, <2>2, <2>4, <2>5, ToldStep
<1>2. CASE ReportWorkerFailure(x)
  <2>1. PICK ok \in BOOLEAN :
          /\ TransferStatus(e.transfer, e.generation, WorkerProof(x), "failed", ok)
          /\ EndWith(x, IF ok THEN "failed" ELSE "unreported")
    BY <1>2 DEF ReportWorkerFailure
  <2>2. e.pc \in Answered /\ PlanTickets /\ UNCHANGED worker
    BY <1>2 DEF ReportWorkerFailure, Answered
  <2>3. QED
    BY <2>1, <2>2, ToldStep
<1>3. QED
  BY <1>1, <1>2

\* The transfer is marked as failed.
LEMMA FailedStep ==
    ASSUME ExecutionInv, NEW x \in Executions, MarkTransferFailed(x) \/ DirectRefused(x)
    PROVE  ExecutionInv'
<1> DEFINE e == executor[x]
<1>1. PICK ok \in BOOLEAN :
        /\ TransferStatus(e.transfer, e.generation, None, "failed", ok)
        /\ EndWith(x, IF ok THEN "failed" ELSE "unreported")
  BY DEF MarkTransferFailed, DirectRefused, FailTransfer
<1>2. PlanTickets /\ UNCHANGED worker
  BY DEF MarkTransferFailed, DirectRefused, FailTransfer
<1>3. \/ e.pc \in Answered \cup Direct \cup {"markFailed"}
      \/ e.pc = "cleanup" /\ e.left = {}
  BY DEF MarkTransferFailed, DirectRefused, Direct
<1>4. QED
  BY <1>1, <1>2, <1>3, ToldStep

\* The first report of the direct path.
LEMMA DirectReportStep ==
    ASSUME ExecutionInv, NEW x \in Executions, DirectReport(x)
    PROVE  ExecutionInv'
<1> DEFINE e == executor[x]
<1>1. e.pc = "directCopied" /\ PlanTickets /\ UNCHANGED worker
  BY DEF DirectReport
<1>2. PICK ok \in BOOLEAN :
        /\ TransferStatus(e.transfer, e.generation, None,
                          IF e.copied THEN "complete" ELSE "failed", ok)
        /\ CASE e.copied /\ ok -> EndWith(x, "complete")
             [] e.copied /\ ~ok -> executor' = [executor EXCEPT ![x].pc = "directRefused"]
             [] OTHER -> EndWith(x, IF ok THEN "failed" ELSE "unreported")
  BY DEF DirectReport
<1>3. e.pc \in Direct
  BY <1>1 DEF Direct
<1>4. CASE e.copied /\ ok
  <2>1. TransferStatus(e.transfer, e.generation, None, "complete", ok)
    BY <1>2, <1>4
  <2>2. EndWith(x, IF ok THEN "complete" ELSE "unreported")
    BY <1>2, <1>4
  <2>3. QED
    BY <1>1, <1>3, <1>4, <2>1, <2>2, ToldStep
<1>5. CASE e.copied /\ ~ok
  <2> DEFINE f == At(e, "directRefused", e.left)
  <2>1. Plain(e) /\ e.relays = {} /\ e.left \in SUBSET Relays /\ Engaged(e)
    BY <1>1, <1>3 DEF ExecutionInv, Plain, Engaged
  <2>2. TransferStatus(e.transfer, e.generation, None, "complete", ok)
    BY <1>2, <1>5
  <2>3. Working' /\ ResultsStay /\ TicketsStay /\ Carried(d', e) /\ Passes(d, d', {})
    BY <1>1, <1>5, <2>1, <2>2, ReportStep
  <2>4. executor' = [executor EXCEPT ![x] = f]
    <3>1. executor' = [executor EXCEPT ![x].pc = "directRefused"]
      BY <1>2, <1>5
    <3>2. executor = [y \in Executions |-> executor[y]] /\ Plain(e)
      BY DEF ExecutionInv
    <3>3. QED
      BY <3>1, <3>2 DEF At, Plain, ExecutorFields
  <2>5. SamePayload(e, f) /\ f.pc = "directRefused" /\ f.end = "none"
    BY <1>1, <2>1, AtRec
  <2> HIDE DEF f
  <2>6. Bound(d', e.transfer, e.generation)
    BY <2>1, <2>3 DEF Carried
  <2>7. Carried(d', f) /\ Employs(f, worker'[x])
    BY <2>5, <2>6 DEF Carried, Employs, SamePayload, Answered
  <2>8. Advanced(x, f)
    BY <1>1, <2>4, <2>5, <2>7 DEF Advanced, SamePayload
  <2>9. QED
    BY <1>1, <2>3, <2>8, AdvancedStep
<1>6. CASE ~e.copied
  <2>1. TransferStatus(e.transfer, e.generation, None, "failed", ok)
    BY <1>2, <1>6
  <2>2. EndWith(x, IF ok THEN "failed" ELSE "unreported")
    BY <1>2, <1>6
  <2>3. QED
    BY <1>1, <1>3, <2>1, <2>2, ToldStep
<1>7. QED
  BY <1>4, <1>5, <1>6

\* An executor that goes on with the same payload, while the daemon completes
\* nothing.
LEMMA QuietStep ==
    ASSUME ExecutionInv, NEW x \in Executions, executor[x].pc # "ended",
           Passes(d, d', {}), now' \in Nat, TicketsStay, UNCHANGED worker,
           NEW f, executor' = [executor EXCEPT ![x] = f],
           Plain(f), Carried(d', f), Employs(f, worker[x])
    PROVE  ExecutionInv'
<1>1. Working' /\ ResultsStay
  BY DaemonWorking DEF ExecutionInv
<1>2. Advanced(x, f)
  BY DEF Advanced
<1>3. QED
  BY <1>1, <1>2, AdvancedStep

\* What an executor knows of the daemon, after a step of the daemon.
LEMMA StillCarried ==
    ASSUME ExecutionInv, NEW x \in Executions, Passes(d, d', {})
    PROVE  /\ Plain(executor[x]) /\ Carried(d', executor[x])
           /\ Engaged(executor[x]) => /\ Bound(d, executor[x].transfer, executor[x].generation)
                                      /\ Bound(d', executor[x].transfer, executor[x].generation)
  BY CarriedLasts DEF ExecutionInv, Passes, Carried

\* Nothing happens at the daemon.
LEMMA ExecutorAlone ==
    ASSUME ExecutionInv, UNCHANGED <<d, now, binding>>
    PROVE  Passes(d, d', {}) /\ now' \in Nat /\ TicketsStay
  BY LocalEffect DEF ExecutionInv

\* A lease is presented for validation.
LEMMA ValidateStep ==
    ASSUME ExecutionInv, NEW x \in Executions, ValidateLease(x)
    PROVE  ExecutionInv'
<1> DEFINE e == executor[x]
<1>1. e.pc = "validate" /\ UNCHANGED <<binding, worker>>
  BY DEF ValidateLease
<1>2. (\E l : PresentExpiredLease(l)) \/ (d' = ReapStaleSessions(d) /\ now' = now)
  BY Zenon DEF ValidateLease
<1>3. Inv(d) /\ now \in Nat /\ binding = [t \in Transfers |-> binding[t]]
  BY DEF ExecutionInv, Working
<1>4. Passes(d, d', {}) /\ now' = now
  BY <1>2, <1>3, ExpiryPasses, ReapPasses
<1>5. TicketsStay
  BY <1>1, <1>3 DEF TicketsStay
<1>6. Plain(e) /\ Carried(d', e) /\ Bound(d', e.transfer, e.generation) /\ e.left \in SUBSET Relays
  BY <1>1, <1>4, StillCarried DEF Engaged, Plain
<1>7. PICK r \in e.left : \/ executor' = [executor EXCEPT ![x].left = @ \ {r}]
                          \/ EndWith(x, "unvalidated")
  BY Zenon DEF ValidateLease
<1>8. CASE executor' = [executor EXCEPT ![x].left = @ \ {r}]
  <2> DEFINE f == At(e, "validate", e.left \ {r})
  <2>1. executor' = [executor EXCEPT ![x] = f]
    <3>1. executor = [y \in Executions |-> executor[y]]
      BY DEF ExecutionInv
    <3>2. QED
      BY <1>1, <1>6, <1>8, <3>1 DEF At, Plain, ExecutorFields
  <2>2. SamePayload(e, f) /\ f.pc = "validate" /\ f.end = "none"
    BY <1>1, <1>6, AtRec DEF Direct
  <2> HIDE DEF f
  <2>3. Carried(d', f) /\ Employs(f, worker[x])
    BY <1>1, <1>6, <2>2 DEF SamePayload, Carried, Employs, Answered
  <2>4. QED
    BY <1>1, <1>3, <1>4, <1>5, <2>1, <2>2, <2>3, QuietStep DEF SamePayload
<1>9. CASE EndWith(x, "unvalidated")
  BY <1>1, <1>3, <1>4, <1>5, <1>6, <1>9, EndWithRec, EndedEarly, QuietStep
<1>10. QED
  BY <1>7, <1>8, <1>9

\* One lease is cleaned up.
LEMMA CleanupPlannedStep ==
    ASSUME ExecutionInv, NEW x \in Executions, CleanupPlannedLease(x)
    PROVE  ExecutionInv'
<1> DEFINE e == executor[x]
<1>1. e.pc = "cleanup" /\ PlanTickets /\ UNCHANGED worker
  BY DEF CleanupPlannedLease
<1>2. PICK r \in e.left : /\ CleanupRelay(e.transfer, r, e.generation, FALSE)
                          /\ executor' = [executor EXCEPT ![x].left = @ \ {r}]
  BY DEF CleanupPlannedLease
<1>3. Inv(d) /\ now \in Nat /\ Plain(e) /\ Carried(d, e) /\ e.left \in SUBSET Relays
  BY DEF ExecutionInv, Working, Plain
<1>4. Bound(d, e.transfer, e.generation)
  BY <1>1, <1>3 DEF Carried, Engaged
<1>5. Passes(d, d', {}) /\ now' = now /\ ~Holds(d', e.transfer, r)
  BY <1>2, <1>3, <1>4, CleanupPasses
<1>6. TicketsStay
  BY <1>1, <1>3, <1>5, PlanTicketsStay
<1>7. Carried(d', e) /\ Bound(d', e.transfer, e.generation)
  BY <1>1, <1>5, StillCarried DEF Engaged
<1> DEFINE f == At(e, "cleanup", e.left \ {r})
<1>8. executor' = [executor EXCEPT ![x] = f]
  <2>1. executor = [y \in Executions |-> executor[y]]
    BY DEF ExecutionInv
  <2>2. QED
    BY <1>1, <1>2, <1>3, <2>1 DEF At, Plain, ExecutorFields
<1>9. SamePayload(e, f) /\ f.pc = "cleanup" /\ f.end = "none" /\ f.left = e.left \ {r}
  BY <1>1, <1>3, AtRec DEF Direct
<1> HIDE DEF f
<1>10. \A q \in f.relays \ f.left : ~Holds(d', f.transfer, q)
  BY <1>1, <1>5, <1>7, <1>9 DEF SamePayload, Carried
<1>11. Carried(d', f) /\ Employs(f, worker[x])
  BY <1>7, <1>9, <1>10 DEF SamePayload, Carried, Employs, Answered
<1>12. QED
  BY <1>1, <1>3, <1>5, <1>6, <1>8, <1>9, <1>11, QuietStep DEF SamePayload

\* The leases are handed to the worker.
LEMMA SubmitWorkerStep ==
    ASSUME ExecutionInv, NEW x \in Executions, SubmitWorkerExecution(x)
    PROVE  ExecutionInv'
<1> DEFINE e == executor[x]
           f == At(e, "worker", e.relays)
<1>1. e.pc = "validate" /\ e.relays = e.planned /\ UNCHANGED <<d, now, binding>>
  BY DEF SubmitWorkerExecution
<1>2. PICK r : WorkerSubmit(x, e.transfer, r, e.generation, TRUE)
  BY DEF SubmitWorkerExecution
<1>3. executor' = [executor EXCEPT ![x].pc = "worker", ![x].left = e.relays]
  BY DEF SubmitWorkerExecution
<1>4. Passes(d, d', {}) /\ Working
  BY <1>1, ExecutorAlone DEF ExecutionInv
<1>5. /\ Plain(e) /\ Carried(d', e) /\ Bound(d, e.transfer, e.generation)
      /\ Bound(d', e.transfer, e.generation) /\ e.relays \in SUBSET Relays
  BY <1>1, <1>4, StillCarried DEF Engaged, Plain
<1>6. /\ Working' /\ ResultsStay /\ TicketsStay
      /\ worker'[x].pc = "authorize" /\ worker'[x].transfer = e.transfer
      /\ worker'[x].generation = e.generation /\ worker'[x].result = "none"
      /\ \A y \in Executions \ {x} : worker'[y] = worker[y]
  BY <1>1, <1>2, <1>4, <1>5, SubmitWorking
<1>7. executor' = [executor EXCEPT ![x] = f]
  <2>1. executor = [y \in Executions |-> executor[y]]
    BY DEF ExecutionInv
  <2>2. QED
    BY <1>3, <1>5, <2>1 DEF At, Plain, ExecutorFields
<1>8. SamePayload(e, f) /\ f.pc = "worker" /\ f.end = "none"
  BY <1>1, <1>5, AtRec DEF Direct
<1> HIDE DEF f
<1>9. Carried(d', f) /\ Employs(f, worker'[x])
  BY <1>1, <1>5, <1>6, <1>8 DEF SamePayload, Carried, Employs, Answered
<1>10. Advanced(x, f)
  BY <1>1, <1>7, <1>8, <1>9 DEF Advanced, SamePayload
<1>11. QED
  BY <1>4, <1>6, <1>10, AdvancedStep

\* The worker has answered.
LEMMA WorkerAnswerStep ==
    ASSUME ExecutionInv, NEW x \in Executions, WorkerAnswer(x)
    PROVE  ExecutionInv'
<1> DEFINE e == executor[x]
           w == worker[x]
<1>1. e.pc = "worker" /\ UNCHANGED <<d, now, binding, worker>>
  BY DEF WorkerAnswer
<1>2. Passes(d, d', {}) /\ now' \in Nat /\ TicketsStay
  BY <1>1, ExecutorAlone
<1>3. /\ Plain(e) /\ Carried(d', e) /\ Bound(d', e.transfer, e.generation)
      /\ e.left = e.relays /\ e.relays = e.planned /\ e.relays \in SUBSET Relays
  BY <1>1, <1>2, StillCarried DEF Engaged, Plain
<1>4. Employs(e, w) /\ Formal(w) /\ Sound(d', w)
  BY <1>1 DEF ExecutionInv, Working
<1>5. \E pc \in {"cleanup", "reportComplete", "reportFailure"} :
        /\ executor' = [executor EXCEPT ![x].pc = pc]
        /\ pc \in Answered => ValidCompletion(w, e.intent)
        /\ pc = "reportComplete" => w.final = "complete"
  <2>1. CASE ~ValidCompletion(w, e.intent)
    <3>1. executor' = [executor EXCEPT ![x].pc = "cleanup"]
      BY <2>1 DEF WorkerAnswer
    <3>2. "cleanup" \notin Answered /\ "cleanup" # "reportComplete"
      BY DEF Answered
    <3>3. QED
      BY <3>1, <3>2, Zenon
  <2>2. CASE ValidCompletion(w, e.intent) /\ w.final = "complete"
    BY <2>2 DEF WorkerAnswer
  <2>3. CASE ValidCompletion(w, e.intent) /\ w.final = "failed"
    BY <2>3 DEF WorkerAnswer
  <2>4. QED
    BY <2>1, <2>2, <2>3 DEF ValidCompletion
<1>6. PICK pc \in {"cleanup", "reportComplete", "reportFailure"} :
        /\ executor' = [executor EXCEPT ![x].pc = pc]
        /\ pc \in Answered => ValidCompletion(w, e.intent)
        /\ pc = "reportComplete" => w.final = "complete"
  BY <1>5
<1>7. pc \in Answered =>
        /\ w.pc = "returned" /\ w.transfer = e.transfer /\ w.result = w.final
        /\ \A r \in e.relays : ~Holds(d', e.transfer, r)
        /\ pc = "reportComplete" => e.intent \notin MixedIntents
  <2>1. ASSUME ValidCompletion(w, e.intent)
        PROVE  /\ w.pc = "returned" /\ w.transfer = e.transfer /\ w.result = w.final
               /\ w.scope = e.planned
               /\ w.final = "complete" => e.intent \notin MixedIntents
    BY <1>1, <1>4, <2>1 DEF ValidCompletion, Employs, Formal
  <2>2. ASSUME ValidCompletion(w, e.intent)
        PROVE  \A r \in e.relays : ~Holds(d', e.transfer, r)
    BY <1>3, <1>4, <2>1, <2>2 DEF Sound
  <2>3. QED
    BY <1>6, <2>1, <2>2
<1> DEFINE f == At(e, pc, e.left)
<1>8. executor' = [executor EXCEPT ![x] = f]
  <2>1. executor = [y \in Executions |-> executor[y]]
    BY DEF ExecutionInv
  <2>2. QED
    BY <1>3, <1>6, <2>1 DEF At, Plain, ExecutorFields
<1>9. SamePayload(e, f) /\ f.pc = pc /\ f.left = e.left /\ f.end = "none"
  <2>1. pc # "ended" /\ pc # "worker" /\ pc \notin Direct \cup {"markFailed"}
    BY <1>6 DEF Direct
  <2>2. QED
    BY <1>1, <1>3, <2>1, AtRec
<1> HIDE DEF f
<1>10. Carried(d', f)
  BY <1>3, <1>6, <1>7, <1>9 DEF SamePayload, Carried
<1>11. Employs(f, w)
  BY <1>6, <1>7, <1>9 DEF SamePayload, Employs, Answered
<1>12. QED
  BY <1>1, <1>2, <1>8, <1>9, <1>10, <1>11, QuietStep DEF SamePayload

\* The other steps that call nobody.
LEMMA AloneStep ==
    ASSUME ExecutionInv, NEW x \in Executions,
           GiveUp(x) \/ PlanWithoutLeases(x) \/ DirectCopy(x) \/ ClientCrash(x)
    PROVE  ExecutionInv'
<1> DEFINE e == executor[x]
<1>1. UNCHANGED <<d, now, binding, worker>>
  BY DEF GiveUp, PlanWithoutLeases, DirectCopy, ClientCrash
<1>2. Passes(d, d', {}) /\ now' \in Nat /\ TicketsStay
  BY <1>1, ExecutorAlone
<1>3. /\ Plain(e) /\ Carried(d', e)
      /\ (Engaged(e) => Bound(d', e.transfer, e.generation))
      /\ executor = [y \in Executions |-> executor[y]]
  BY <1>2, StillCarried DEF ExecutionInv
<1>4. CASE GiveUp(x)
  <2>1. e.pc = "delayed" /\ EndWith(x, "unadmitted")
    BY <1>4 DEF GiveUp
  <2>2. QED
    BY <1>1, <1>2, <1>3, <2>1, EndWithRec, EndedEarly, QuietStep
<1>5. CASE PlanWithoutLeases(x)
  <2> DEFINE f == At(e, "cleanup", e.relays)
  <2>1. /\ e.pc = "validate" /\ e.relays \in SUBSET Relays
        /\ executor' = [executor EXCEPT ![x].pc = "cleanup", ![x].left = e.relays]
    BY <1>3, <1>5 DEF PlanWithoutLeases, Plain
  <2>2. executor' = [executor EXCEPT ![x] = f]
    BY <1>3, <2>1 DEF At, Plain, ExecutorFields
  <2>3. SamePayload(e, f) /\ f.pc = "cleanup" /\ f.left = e.relays /\ f.end = "none"
    BY <1>3, <2>1, AtRec DEF Direct
  <2> HIDE DEF f
  <2>4. Carried(d', f) /\ Employs(f, worker[x])
    BY <1>3, <2>1, <2>3 DEF SamePayload, Carried, Employs, Answered, Engaged
  <2>5. QED
    BY <1>1, <1>2, <2>1, <2>2, <2>3, <2>4, QuietStep DEF SamePayload
<1>6. CASE DirectCopy(x)
  <2>1. e.pc = "direct" /\ Engaged(e)
    BY <1>6 DEF DirectCopy, Engaged, Direct
  <2>2. CASE EndWith(x, "unreported")
    <3>1. executor' = [executor EXCEPT ![x] = EndedAs(e, "unreported")]
      BY <2>2, EndWithRec
    <3>2. e.pc \in Direct /\ "unreported" \in Told
      BY <2>1 DEF Direct, Told
    <3>3. /\ Plain(EndedAs(e, "unreported")) /\ Carried(d', EndedAs(e, "unreported"))
          /\ Employs(EndedAs(e, "unreported"), worker[x])
      BY <1>3, <3>2, EndedTold
    <3>4. QED
      BY <1>1, <1>2, <2>1, <3>1, <3>3, QuietStep
  <2>3. ASSUME NEW ok, executor' = [executor EXCEPT ![x].pc = "directCopied", ![x].copied = ok]
        PROVE  ExecutionInv'
    <3> DEFINE f == Tried(e, ok)
    <3>1. executor' = [executor EXCEPT ![x] = f]
      BY <1>3, <2>3 DEF Tried, Plain, ExecutorFields
    <3>2. SamePayload(e, f) /\ f.pc = "directCopied" /\ f.end = "none"
      BY <1>3, <2>1, TriedRec
    <3> HIDE DEF f
    <3>3. Carried(d', f) /\ Employs(f, worker[x])
      BY <1>3, <2>1, <3>2 DEF SamePayload, Carried, Employs, Answered
    <3>4. QED
      BY <1>1, <1>2, <2>1, <3>1, <3>2, <3>3, QuietStep DEF SamePayload
  <2>4. QED
    BY <1>6, <2>2, <2>3 DEF DirectCopy
<1>7. CASE ClientCrash(x)
  <2>1. executor' = [executor EXCEPT ![x] = Dead0] /\ e.pc # "ended"
    BY <1>7 DEF ClientCrash, AtWork, Dead0
  <2>2. QED
    BY <1>1, <1>2, <2>1, DeadRec, QuietStep
<1>8. QED
  BY <1>4, <1>5, <1>6, <1>7

-----------------------------------------------------------------------------
\* The submission of an intent.

\* The payload that the executor goes on with: of the plan that the daemon has now,
\* with all the leases the transfer has.
LEMMA PayloadRec ==
    ASSUME Inv(d'), NEW i \in Intents, d'.intents[i] \in Live(d'), NEW p \in Payloads(i), NEW w
    PROVE  Plain(p) /\ Carried(d', p) /\ Employs(p, w)
<1> DEFINE t == d'.intents[i]
           r == d'.transfer[t]
           tokens == {l.relay : l \in LeasesOf(d', {t})}
           lapsed == r.admission = "expired" \/ (r.admission = "admitted" /\ now > r.expires)
           payload(pc) ==
             [[NoExecutor EXCEPT !.intent = i, !.transfer = t, !.planned = r.relays,
                 !.relays = tokens, !.left = tokens, !.generation = r.generation,
                 !.expires = r.expires]
               EXCEPT !.pc = pc, !.end = IF pc = "ended" THEN "unadmitted" ELSE "none"]
<1>1. PICK pc : /\ p = payload(pc)
                /\ \/ pc = "delayed"
                   \/ pc = "ended"
                   \/ r.admission # "delayed" /\ pc \in {"validate", "cleanup"}
                   \/ /\ r.admission # "delayed" /\ tokens = {} /\ r.relays = {}
                      /\ pc = "direct"
                   \/ r.admission # "delayed" /\ tokens = {} /\ pc = "markFailed"
  <2>1. PICK pc \in IF r.admission = "delayed" THEN {"delayed"}
                    ELSE IF lapsed THEN {"ended"}
                    ELSE IF tokens # {} THEN {"validate", "cleanup"}
                    ELSE IF r.relays = {} THEN {"direct"} ELSE {"markFailed"} : p = payload(pc)
    BY DEF Payloads
  <2> HIDE DEF payload, tokens, lapsed, r
  <2>2. QED
    BY <2>1
<1>2. tokens \in SUBSET Relays
  BY DEF Inv, Base, Held, LeasesOf, Types, LeaseRec
<1> HIDE DEF tokens, r, t
<1>3. /\ p = [f \in ExecutorFields |-> p[f]]
      /\ p.pc = pc /\ p.intent = i /\ p.transfer = t /\ p.planned = r.relays
      /\ p.relays = tokens /\ p.left = tokens /\ p.generation = r.generation
      /\ p.copied = FALSE /\ p.end = IF pc = "ended" THEN "unadmitted" ELSE "none"
  BY <1>1 DEF NoExecutor, ExecutorFields
<1> HIDE DEF payload
<1>4. Plain(p)
  BY <1>1, <1>2, <1>3 DEF Plain, Direct
<1>5. t \in Transfers /\ t \in d'.issued /\ t \in Live(d')
  BY DEF t, Live, Inv, Base, BoundIntents
<1>6. r.admission # "delayed" => Bound(d', t, r.generation)
  BY <1>5 DEF Bound, Settled, Waits, r
<1>7. Engaged(p) => r.admission # "delayed"
  BY <1>1, <1>3 DEF Engaged, Answered, Direct, Told
<1>8. Carried(d', p)
  BY <1>1, <1>3, <1>6, <1>7 DEF Carried, Answered, Told, r
<1>9. Employs(p, w)
  BY <1>1, <1>3 DEF Employs
<1>10. QED
  BY <1>4, <1>8, <1>9

\* What the daemon does before it refuses an intent.
LEMMA RefusalPasses ==
    ASSUME Inv(d), now \in Nat, NEW s \in {d} \cup RefreshAdmission(ReapStaleSessions(d))
    PROVE  Passes(d, s, {})
<1>1. CASE s = d
  BY <1>1, PassesReflexive
<1>2. CASE s \in RefreshAdmission(ReapStaleSessions(d))
  <2> DEFINE a == ReapStaleSessions(d)
  <2>1. Passes(d, a, {})
    BY ReapPasses
  <2>2. Inv(a) /\ s \in RefreshAdmission(a)
    BY <1>2, <2>1 DEF Passes
  <2> HIDE DEF a
  <2>3. Inv(s) /\ Keeps(a, s) /\ Lasts(a, s)
    BY <2>2, InvFormed, RefreshInv, RefreshLasts
  <2>4. QED
    BY <2>1, <2>3, KeepsPasses, PassesTransitive
<1>3. QED
  BY <1>1, <1>2

\* An intent is submitted, or submitted again.
LEMMA SubmitStep ==
    ASSUME ExecutionInv, NEW x \in Executions, NEW i \in Intents, NEW y \in SessionIds,
           SubmitIntent(x, i, y)
    PROVE  ExecutionInv'
<1> DEFINE e == executor[x]
<1>1. e.pc # "ended" /\ UNCHANGED worker
  BY DEF SubmitIntent
<1>2. Inv(d) /\ now \in Nat /\ Plain(e)
  BY DEF ExecutionInv, Working
<1>3. CASE EndWith(x, "receipt") /\ UNCHANGED <<d, now, binding>>
  <2>1. Passes(d, d', {}) /\ now' \in Nat /\ TicketsStay
    BY <1>3, ExecutorAlone
  <2>2. QED
    BY <1>1, <1>2, <1>3, <2>1, EndWithRec, EndedEarly, QuietStep
<1>4. CASE /\ \/ \E t \in Transfers : SubmitTransferIntent(i, y, t) /\ PlanTickets
              \/ ResubmitTransferIntent(i, y) /\ RetryTickets(d.intents[i])
           /\ \E p \in Payloads(i) : executor' = [executor EXCEPT ![x] = p]
  <2>1. \/ \E t \in Transfers : SubmitTransferIntent(i, y, t)
        \/ ResubmitTransferIntent(i, y)
    BY <1>4
  <2>2. Passes(d, d', {}) /\ now' = now /\ d'.intents[i] \in Live(d')
    BY <1>2, <2>1, SubmissionPasses, SubmissionLive
  <2>3. TicketsStay
    BY <1>2, <1>4, <2>2, PlanTicketsStay, RetryTicketsStay
  <2>4. PICK p \in Payloads(i) : executor' = [executor EXCEPT ![x] = p]
    BY <1>4
  <2>5. Plain(p) /\ Carried(d', p) /\ Employs(p, worker[x])
    BY <2>2, PayloadRec DEF Passes
  <2>6. QED
    BY <1>1, <1>2, <2>2, <2>3, <2>4, <2>5, QuietStep
<1>5. CASE /\ \E s \in {d} \cup RefreshAdmission(ReapStaleSessions(d)) : d' = s
           /\ EndWith(x, "unadmitted") /\ PlanTickets /\ UNCHANGED now
  <2>1. Passes(d, d', {})
    BY <1>2, <1>5, RefusalPasses
  <2>2. TicketsStay
    BY <1>2, <1>5, <2>1, PlanTicketsStay
  <2>3. QED
    BY <1>1, <1>2, <1>5, <2>1, <2>2, EndWithRec, EndedEarly, QuietStep
<1>6. QED
  BY <1>3, <1>4, <1>5 DEF SubmitIntent

-----------------------------------------------------------------------------
\* The executors with their workers and the daemon.

\* A worker takes a step, or a call of it raises.
LEMMA WorkersStep ==
    ASSUME ExecutionInv, NEW x \in Executions, WorkerStep(x) \/ WorkerRaise(x),
           UNCHANGED executor
    PROVE  ExecutionInv'
<1>1. Working
  BY DEF ExecutionInv
<1>2. WorkerEffect(x)
  BY <1>1, WorkerStepEffect
<1>3. Working' /\ ResultsStay /\ TicketsStay
  BY <1>1, <1>2, EffectWorking DEF WorkerEffect
<1>4. PICK v : Moved(x, v)
  BY <1>2 DEF WorkerEffect
<1>5. worker'[x] = v /\ \A y \in Executions \ {x} : worker'[y] = worker[y]
  BY <1>1, <1>4 DEF Working, Moved
<1>6. Employs(executor[x], v)
  BY <1>4, EmploysMoved DEF ExecutionInv
<1>7. \A y \in Executions : Employs(executor[y], worker'[y])
  BY <1>5, <1>6 DEF ExecutionInv
<1>8. CASE Passes(d, d', {})
  BY <1>3, <1>7, <1>8, OthersStep
<1>9. CASE /\ Passes(d, d', {worker[x].transfer})
           /\ worker[x].result = "complete"
           /\ worker[x].ticket = binding[worker[x].transfer]
  <2> DEFINE t == worker[x].transfer
  <2>1. Passes(d, d', {t}) /\ Earned(t)
    BY <1>9 DEF Earned
  <2> HIDE DEF t
  <2>2. QED
    BY <1>3, <1>7, <2>1, OthersStep
<1>10. QED
  BY <1>2, <1>8, <1>9 DEF WorkerEffect

\* The worker process dies.
LEMMA WorkersCrash ==
    ASSUME ExecutionInv, WorkerCrash, UNCHANGED executor
    PROVE  ExecutionInv'
<1>1. /\ Working' /\ ResultsStay /\ TicketsStay /\ Passes(d, d', {})
      /\ \A x \in Executions :
           /\ worker'[x].transfer = worker[x].transfer
           /\ worker'[x].generation = worker[x].generation
           /\ worker'[x].scope = worker[x].scope
           /\ worker[x].pc \in WorkerEnded => worker'[x].pc = worker[x].pc
           /\ worker[x].pc \notin WorkerEnded => worker'[x].pc = "crashed"
           /\ worker'[x].result = worker[x].result
  BY CrashWorking DEF ExecutionInv
<1>2. ASSUME NEW x \in Executions
      PROVE  Employs(executor[x], worker'[x])
  BY <1>1 DEF ExecutionInv, Employs, WorkerEnded
<1>3. QED
  BY <1>1, <1>2, OthersStep

\* Something happens at the daemon.
LEMMA EnvironmentStep ==
    ASSUME ExecutionInv, Environment, UNCHANGED executor
    PROVE  ExecutionInv'
  BY BesideWorking, OthersStep DEF ExecutionInv

\* Every step of the system keeps the invariant.
LEMMA ExecutionStep ==
    ASSUME ExecutionInv, [ExecutionNext]_executionVars
    PROVE  ExecutionInv'
<1>1. ASSUME NEW x \in Executions, NEW i \in Intents, NEW y \in SessionIds, SubmitIntent(x, i, y)
      PROVE  ExecutionInv'
  BY <1>1, SubmitStep
<1>2. ASSUME NEW x \in Executions, ExecutorStep(x)
      PROVE  ExecutionInv'
  BY <1>2, AloneStep, ValidateStep, SubmitWorkerStep, WorkerAnswerStep, WorkerReportedStep,
     CleanupPlannedStep, FailedStep, DirectReportStep, Zenon DEF ExecutorStep
<1>3. ASSUME NEW x \in Executions, ClientCrash(x)
      PROVE  ExecutionInv'
  BY <1>3, AloneStep
<1>4. ASSUME NEW x \in Executions, WorkerStep(x) \/ WorkerRaise(x), UNCHANGED executor
      PROVE  ExecutionInv'
  BY <1>4, WorkersStep
<1>5. CASE WorkerCrash /\ UNCHANGED executor
  BY <1>5, WorkersCrash
<1>6. CASE Environment /\ UNCHANGED executor
  BY <1>6, EnvironmentStep
<1>7. CASE UNCHANGED executionVars
  <2>1. UNCHANGED <<d, now, binding, worker, executor>>
    BY <1>7 DEF executionVars
  <2>2. Working /\ \A y \in Executions : Employs(executor[y], worker'[y])
    BY <2>1 DEF ExecutionInv
  <2>3. now' \in Nat /\ TicketsStay /\ Passes(d, d', {})
    BY <2>1, <2>2, LocalEffect
  <2>4. Working' /\ ResultsStay
    BY <2>1, <2>2, <2>3, DaemonWorking
  <2>5. QED
    BY <2>1, <2>2, <2>3, <2>4, OthersStep
<1>8. QED
  BY <1>1, <1>2, <1>3, <1>4, <1>5, <1>6, <1>7 DEF ExecutionNext

\* The executors before they start.
LEMMA ExecutionBegins ==
    ASSUME ExecutionInit
    PROVE  ExecutionInv
<1>1. LifecycleInv
  BY RegisteredInv DEF ExecutionInit
<1>2. Live(d) = {}
  BY DEF ExecutionInit, LifecycleInit, Registered, Live, NoTransfer
<1>3. executor = [x \in Executions |-> NoExecutor]
  BY DEF ExecutionInit
<1>4. Plain(NoExecutor) /\ Carried(d, NoExecutor) /\ \A w : Employs(NoExecutor, w)
  <2>1. /\ NoExecutor.pc = "idle" /\ NoExecutor.end = "none"
        /\ NoExecutor.relays = {} /\ NoExecutor.left = {}
        /\ NoExecutor = [f \in ExecutorFields |-> NoExecutor[f]]
    BY DEF NoExecutor, ExecutorFields
  <2>2. QED
    BY <2>1 DEF Plain, Carried, Employs, Engaged, Answered, Direct
<1>5. QED
  BY <1>1, <1>2, <1>3, <1>4 DEF ExecutionInv, LifecycleInv

\* For any number of clients, workers, intents and relays, and any order of their
\* steps, deaths and retries: each executor agrees with its worker and with the
\* daemon, and nothing is complete that nobody copied.
THEOREM ExecutionInvariance == ExecutionSpec => []ExecutionInv
<1>1. ExecutionInv /\ [ExecutionNext]_executionVars => ExecutionInv'
  BY ExecutionStep
<1>2. QED
  BY ExecutionBegins, <1>1, PTL DEF ExecutionSpec

\* The receipt of a transfer only says complete if a client copied it on the direct
\* path, or a worker under the ticket that the daemon issued last.
THEOREM CompletionsCopied == ExecutionSpec => []NoFalseCompletion
<1>1. ExecutionInv => NoFalseCompletion
  BY DEF ExecutionInv, NoFalseCompletion, Completed, Earned, CopiedDirectly
<1>2. QED
  BY <1>1, ExecutionInvariance, PTL

\* What execute_transfer_intent has told its caller is what the daemon's receipt
\* says, for as long as the daemon runs.
THEOREM ResultsDurable == ExecutionSpec => []ResultIsDurable
<1>1. ExecutionInv => ResultIsDurable
  BY DEF ExecutionInv, ResultIsDurable, Carried
<1>2. QED
  BY <1>1, ExecutionInvariance, PTL

\* An execution that ends after the validation of its leases has left none of them
\* behind, whatever became of its worker.
THEOREM LeasesReturned == ExecutionSpec => []NoLeaseLeftBehind
<1>1. ExecutionInv => NoLeaseLeftBehind
  BY DEF ExecutionInv, NoLeaseLeftBehind, Carried, Told, Holds, LeaseOn
<1>2. QED
  BY <1>1, ExecutionInvariance, PTL

\* Executors only write their own state.
LEMMA OneExecutor ==
    ASSUME NEW x \in Executions,
           \/ ExecutorStep(x) \/ ClientCrash(x)
           \/ \E i \in Intents, y \in SessionIds : SubmitIntent(x, i, y)
    PROVE  \E f : executor' = [executor EXCEPT ![x] = f]
<1>1. CASE ExecutorStep(x)
  BY <1>1 DEF ExecutorStep, GiveUp, ValidateLease, SubmitWorkerExecution, PlanWithoutLeases,
       WorkerAnswer, ReportWorkerCompletion, ReportWorkerFailure, CleanupPlannedLease,
       MarkTransferFailed, FailTransfer, DirectCopy, DirectReport, DirectRefused, EndWith
<1>2. CASE ClientCrash(x)
  BY <1>2 DEF ClientCrash
<1>3. CASE \E i \in Intents, y \in SessionIds : SubmitIntent(x, i, y)
  BY <1>3 DEF SubmitIntent, EndWith
<1>4. QED
  BY <1>1, <1>2, <1>3

\* The daemon takes a completion that comes under its ticket.
LEMMA CompletionTaken ==
    ASSUME ExecutionInv, NEW x \in Executions, ReportWorkerCompletion(x),
           Reportable(executor[x].transfer),
           worker[x].ticket = binding[executor[x].transfer]
    PROVE  executor'[x].end = "complete"
<1> DEFINE e == executor[x]
           t == e.transfer
<1>1. PICK ok \in BOOLEAN : /\ TransferStatus(t, e.generation, WorkerProof(x), "complete", ok)
                            /\ EndWith(x, IF ok THEN "complete" ELSE "unreported")
  BY DEF ReportWorkerCompletion
<1>2. e.pc = "reportComplete" /\ Plain(e) /\ Inv(d)
  BY DEF ReportWorkerCompletion, ExecutionInv, Working
<1>3. WorkerProof(x) = binding[t]
  BY <1>2 DEF ExecutionInv, Employs, WorkerProof
<1>4. t \in Live(d) \ Finished(d) /\ AdmissionValid(d, t)
  BY DEF Reportable, Unfinished
<1>5. d.transfer[t].generation = e.generation /\ d.transfer[t].generation > 0
  BY <1>2, <1>4 DEF ExecutionInv, Carried, Engaged, Answered, Bound
<1>6. d.transfer[t].ticket = d.transfer[t].generation
  BY <1>2, <1>4, UnfinishedState DEF AdmissionValid
<1>7. Accepts(t, e.generation, WorkerProof(x), "complete")
  BY <1>3, <1>4, <1>5, <1>6 DEF Accepts, MatchesTicket
<1>8. ok
  BY <1>1, <1>4, <1>7 DEF TransferStatus, ReportUnfinished, ReportFinished, Unfinished
<1>9. executor' = [executor EXCEPT ![x] = EndedAs(e, "complete")]
  BY <1>1, <1>8, EndWithRec
<1>10. QED
  BY <1>2, <1>9, LeftRec DEF ExecutionInv

\* The completion of a worker that its client passes on is recorded, unless the
\* transfer ended, its plan expired or its ticket was replaced meanwhile.
THEOREM CompletionsAccepted == ExecutionSpec => CompletionAccepted
<1>1. ExecutionInv /\ [ExecutionNext]_executionVars =>
        [\A x \in Executions :
           /\ executor[x].pc = "reportComplete" /\ executor'[x].pc = "ended"
           /\ Reportable(executor[x].transfer)
           /\ worker[x].ticket = binding[executor[x].transfer]
           => executor'[x].end = "complete"]_executionVars
  <2> SUFFICES ASSUME ExecutionInv, ExecutionNext, NEW x \in Executions,
                      executor[x].pc = "reportComplete", executor'[x].pc = "ended",
                      Reportable(executor[x].transfer),
                      worker[x].ticket = binding[executor[x].transfer]
               PROVE  executor'[x].end = "complete"
    OBVIOUS
  <2>1. executor # executor'
    OBVIOUS
  <2>2. PICK y \in Executions :
          \/ ExecutorStep(y) \/ ClientCrash(y)
          \/ \E i \in Intents, z \in SessionIds : SubmitIntent(y, i, z)
    BY <2>1, Zenon DEF ExecutionNext
  <2>3. y = x
    <3>1. PICK f : executor' = [executor EXCEPT ![y] = f]
      BY <2>2, OneExecutor
    <3>2. QED
      BY <3>1 DEF ExecutionInv
  <2>4. ReportWorkerCompletion(x)
    <3>1. ~ClientCrash(x)
      BY DEF ClientCrash, ExecutionInv, NoExecutor
    <3>2. ~\E i \in Intents, z \in SessionIds : SubmitIntent(x, i, z)
      BY DEF SubmitIntent
    <3>3. ExecutorStep(x)
      BY <2>2, <2>3, <3>1, <3>2
    <3>4. QED
      BY <3>3 DEF ExecutorStep, GiveUp, ValidateLease, SubmitWorkerExecution, PlanWithoutLeases,
           WorkerAnswer, ReportWorkerFailure, CleanupPlannedLease, MarkTransferFailed,
           DirectCopy, DirectReport, DirectRefused
  <2>5. QED
    BY <2>4, CompletionTaken
<1>2. QED
  BY <1>1, ExecutionInvariance, PTL DEF ExecutionSpec, CompletionAccepted

=============================================================================
