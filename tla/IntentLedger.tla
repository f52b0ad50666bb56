---------------------------- MODULE IntentLedger ----------------------------
(***************************************************************************)
(* What the daemon promises the client of a transfer intent, whatever      *)
(* leases, sessions, workers and retries do: an intent is bound to one     *)
(* transfer for ever, and a transfer ends once, in one outcome.            *)
(***************************************************************************)
CONSTANTS Intents, Transfers, None

VARIABLES
    outcome,   \* what the receipt of each transfer shows
    owner      \* the transfer each intent is bound to

Ends == {"complete", "failed", "canceled"}
Outcomes == {"unknown", "pending"} \cup Ends

Init ==
    /\ outcome = [t \in Transfers |-> "unknown"]
    /\ owner = [i \in Intents |-> None]

\* Of some transfers, pending ones may end, several at a time when their owner goes;
\* nothing else happens to them.
MayEnd(T) ==
    \A u \in T : \/ outcome'[u] = outcome[u]
                 \/ outcome[u] = "pending" /\ outcome'[u] \in Ends

End ==
    /\ MayEnd(Transfers)
    /\ UNCHANGED owner

\* An intent is accepted and bound to a new transfer.
Accept(i, t) ==
    /\ owner[i] = None
    /\ outcome[t] = "unknown" /\ outcome'[t] = "pending"
    /\ owner' = [owner EXCEPT ![i] = t]
    /\ MayEnd(Transfers \ {t})

Next ==
    /\ outcome' \in [Transfers -> Outcomes]
    /\ End \/ \E i \in Intents, t \in Transfers : Accept(i, t)

Spec == Init /\ [][Next]_<<outcome, owner>>
=============================================================================
