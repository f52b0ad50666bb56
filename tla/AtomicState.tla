---- MODULE AtomicState ----
(***************************************************************************)
(* What a state-offload transaction promises about the state it is saving: *)
(* `val' is the value of each named state that survives, `open' the names  *)
(* under the open transaction.  While one is open nothing survives of what *)
(* it does; committing moves all its names to one optimizer step at once;  *)
(* rolling back moves none.                                                *)
(***************************************************************************)
CONSTANTS Names, Steps, None

VARIABLES val, open

Init == val = [n \in Names |-> None] /\ open = None

\* New names enter with the value they have; the others keep theirs
Begin(S) ==
    /\ open' = S
    /\ \A n \in Names : val[n] # None => val'[n] = val[n]
    /\ \A n \in S : val'[n] # None

Commit ==
    /\ open # None /\ open' = None
    /\ \/ val' = val
       \/ \E v \in Steps :
              val' = [n \in Names |-> IF n \in open THEN v ELSE val[n]]

Rollback == open # None /\ open' = None /\ UNCHANGED val

\* An offload on its own saves whatever its names hold
Offload(S) ==
    /\ open = None /\ UNCHANGED open
    /\ \A n \in Names \ S : val'[n] = val[n]

Next ==
    \/ \E S \in SUBSET Names : Begin(S)
    \/ Commit
    \/ Rollback
    \/ \E S \in SUBSET {n \in Names : val[n] # None} : Offload(S)

Spec == Init /\ [][Next]_<<val, open>>
====
