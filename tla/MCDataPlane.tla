------------------------------ MODULE MCDataPlane ------------------------------
(* Three transfers over two relays: a large one of a job of little weight that *)
(* only takes relays, a small one of a heavier job that has to wait for it, and*)
(* a pooled one that uses the direct path as well.                             *)
EXTENDS DataPlane

CONSTANTS t1, t2, t3

MCTransfers == {t1, t2, t3}
MCJobWeight == [j \in {"serving", "training"} |-> IF j = "serving" THEN 2 ELSE 1]
MCRelays == {1, 2}
MCProfile == [known |-> TRUE, direct |-> [h2d |-> 20, d2h |-> 20],
              relay |-> [r \in MCRelays |-> [h2d |-> 10 * r, d2h |-> 12]],
              p2p |-> [r \in MCRelays |-> 40],
              order |-> <<1, 2>>]

MCRequest(job, dir, mode, ranges, workload) ==
    [job |-> job, dir |-> dir, mode |-> mode, ranges |-> ranges, chunk |-> 2,
     bytes |-> BytesOf(ranges), workload |-> workload, priority |-> 0]

MCRequestOf ==
    t1 :> MCRequest("training", "h2d", "relay",
                    <<[src |-> 0, dst |-> 10, bytes |-> 3], [src |-> 4, dst |-> 4, bytes |-> 4]>>,
                    "optimizer_state")
    @@ t2 :> MCRequest("serving", "h2d", "relay", <<[src |-> 2, dst |-> 0, bytes |-> 3]>>,
                       "kv_cache")
    @@ t3 :> MCRequest("serving", "h2d", "pool", <<[src |-> 0, dst |-> 0, bytes |-> 8]>>,
                       "model_weights")
=============================================================================
