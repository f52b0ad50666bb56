---- MODULE KVConnector ----
(***************************************************************************)
(* The vLLM KV connector (adapters/vllm_kv_connector.py) with the prefix   *)
(* store (vllm_prefix_store.py), the pool of pinned CPU backings           *)
(* (vllm_backing_pool.py) and the integration object a transfer runs on    *)
(* (vllm_integration.py, vllm.py).                                         *)
(*                                                                         *)
(* vLLM makes two connectors of one configuration: the scheduler's decides *)
(* what to load and to save, the worker's moves the KV blocks.  They share *)
(* the process-global _PREFIX_STORE (`global') and the metadata that the   *)
(* scheduler builds for each step (`queue').  The worker also keeps its    *)
(* own bounded store of the prefixes it saved (`store').  vLLM itself is   *)
(* external: it is the order in which it calls the connector.              *)
(*                                                                         *)
(* A KV block of a request is named by its position in the prompt.  A      *)
(* backing stands for the group of buffers, one per layer, that acquire()  *)
(* returns.  A transfer ends in the evidence record it produced, and an    *)
(* exception in the worker kills the engine, which then only closes.       *)
(***************************************************************************)
EXTENDS Integers, Sequences, FiniteSets, Functions, Filters

CONSTANTS
    Requests,          \* request ids, numbers: metadata is in sorted order
    Keys,              \* prefix keys
    KeyOf,             \* turbobus.prefix_key of each request
    Savers,            \* requests with turbobus.do_save; the others have do_restore
    Tokens,            \* prompt length of each request
    MatchedTokens,     \* turbobus.matched_tokens of each request, 0 when absent
    SaveBlocks,        \* turbobus.save_blocks of each request, None when absent
    ComputedTokens,    \* how much of a prompt vLLM may have in its own cache (a bound)
    BlockSize,         \* vllm_block_size
    MaxSavedPrefixes,  \* max_saved_prefixes, 0 for no bound
    RestoreBlockLimit, \* restore_block_limit, 0 for no limit
    Layers,            \* number of registered KV caches
    Backings,          \* numbers of the backing groups that memory allows (a bound)
    PipelineDepth,     \* steps vLLM may schedule ahead of the worker
    None

ASSUME KVAssumption ==
    /\ Requests \subseteq Nat /\ IsFiniteSet(Requests)
    /\ Backings \subseteq Nat /\ None \notin Backings
    /\ Savers \subseteq Requests
    /\ KeyOf \in [Requests -> Keys]
    /\ Tokens \in [Requests -> Nat \ {0}]
    /\ MatchedTokens \in [Requests -> Nat]
    /\ SaveBlocks \in [Requests -> Nat \cup {None}]
    /\ ComputedTokens \subseteq Nat
    /\ {BlockSize, Layers, PipelineDepth} \subseteq Nat \ {0}
    /\ {MaxSavedPrefixes, RestoreBlockLimit} \subseteq Nat

VARIABLES
    \* vLLM (external): life of each request, blocks it has, blocks given in
    \* the step being scheduled, requests finished since the last step
    req, blocks, scheduled, finished,
    \* scheduler-side connector
    pendingLoads, pendingSaves, saveIds, saveParams,
    queue,
    \* worker-side connector
    pc, meta, todo, layer, contexts, ready, store, global, free,
    savedIds, recving,
    \* the backings: life, slots, and what a save last wrote into each
    backing, slots, content,
    \* a restore: the tokens vLLM had itself and the blocks it was promised to have
    \* in the end, the blocks that were loaded for it
    promised, delivered,
    engine,            \* "up", "dead" after an exception in the worker
    schedClosed, workerClosed, runtimeClosed

vllmVars == <<req, blocks, scheduled, finished, promised>>
schedVars == <<pendingLoads, pendingSaves, saveIds, saveParams>>
callVars == <<pc, meta, todo, layer>>
saveVars == <<contexts, ready, savedIds>>
storeVars == <<store, global>>
poolVars == <<free, backing, slots, content>>
closeVars == <<schedClosed, workerClosed, runtimeClosed>>
vars == <<vllmVars, schedVars, queue, callVars, saveVars, storeVars, poolVars,
          recving, delivered, engine, closeVars>>

----------------------------------------------------------------------------
\* Token arithmetic

MinOf(a, b) == IF a <= b THEN a ELSE b

BlockCountForTokens(n) == (n + BlockSize - 1) \div BlockSize

PromptBlocks(r) == BlockCountForTokens(Tokens[r])

\* _save_block_count: the blocks a save asks for do not depend on its tokens when
\* turbobus.save_blocks is given
RequestedBlocks(r) ==
    IF SaveBlocks[r] # None THEN SaveBlocks[r] ELSE BlockCountForTokens(MatchedTokens[r])

\* The fall back of its callers to every block the request has
SaveBlockCount(r, have) ==
    IF RequestedBlocks(r) = 0 THEN have ELSE RequestedBlocks(r)

\* _matched_tokens_for_save
TokensForSave(r) ==
    IF MatchedTokens[r] > 0 THEN MatchedTokens[r] ELSE RequestedBlocks(r) * BlockSize

\* get_num_new_matched_tokens: what vLLM may skip beyond what it has computed.  One
\* token is left to compute when the whole prompt matches.
MatchedNewTokens(r, computed) ==
    LET saved == global[KeyOf[r]]
        asked == IF MatchedTokens[r] = 0 THEN saved.tokens ELSE MatchedTokens[r]
        matched == MinOf(asked, saved.tokens)
    IN  IF r \in Savers \/ saved = None \/ matched <= computed THEN 0
        ELSE IF computed = 0 /\ matched = Tokens[r] THEN matched - 1
        ELSE matched - computed

----------------------------------------------------------------------------
\* Evidence.  The receipt contracts of a transfer, the receipt ids its record
\* lists, whether the record's flags are set, and whether it leaks the route.

EvidenceShapes ==
    [visible : BOOLEAN, recorded : BOOLEAN,
     contracts : SUBSET {"r"}, receipts : SUBSET {"r"}]

EntrypointOK(e) == ~e.visible /\ e.recorded

ContractsOK(e) == e.contracts # {} /\ e.contracts \subseteq e.receipts

\* Mutation of LifecycleOK: the receipts are not compared
LifecycleEntrypointOK(e) == EntrypointOK(e)

\* _vllm_kv_lifecycle_evidence: what a save or a restore must show
LifecycleOK(e) == EntrypointOK(e) /\ ContractsOK(e)

\* What the prefix store and the backing pool ask again of a prefix they handle.
\* The evidence of a put or a removal carries that of the save on.
StoreEvidenceOK(p) == EntrypointOK(p.evidence) /\ ContractsOK(p.evidence)

BackingEvidenceOK(p) == EntrypointOK(p.evidence) /\ ContractsOK(p.evidence)

----------------------------------------------------------------------------
\* Stores: TurboBusPrefixStore is insertion ordered, oldest first

SameKey(p, q) == p.key = q.key

WithoutKey(s, k) == Filter(s, {i \in DOMAIN s : s[i].key # k})

Overflow(s) ==
    IF MaxSavedPrefixes > 0 /\ Len(s) > MaxSavedPrefixes
    THEN Len(s) - MaxSavedPrefixes ELSE 0

\* put_with_lifecycle: the store afterwards, and the prefixes it removed
PutPrefix(s, p) ==
    LET t == Append(WithoutKey(s, p.key), p)
    IN  SubSeq(t, Overflow(t) + 1, Len(t))

RemovedByPut(s, p) ==
    LET t == Append(WithoutKey(s, p.key), p)
    IN  {q \in Range(s) : SameKey(q, p)} \cup Range(SubSeq(t, 1, Overflow(t)))

BackingsOf(prefixes) == {p.backing : p \in prefixes}

----------------------------------------------------------------------------
\* Between two steps no metadata is bound; nothing reads it then, and it stands as the
\* empty metadata a new one starts as.
NoMeta == [loads |-> {}, finished |-> {}, saves |-> {}]

Init ==
    /\ req = [r \in Requests |-> "waiting"]
    /\ blocks = [r \in Requests |-> 0]
    /\ scheduled = [r \in Requests |-> <<>>]
    /\ finished = {}
    /\ pendingLoads = {} /\ pendingSaves = {}
    /\ saveIds = {} /\ saveParams = {}
    /\ queue = <<>>
    /\ pc = "idle" /\ meta = NoMeta /\ todo = {} /\ layer = 0
    /\ contexts = [r \in Requests |-> None]
    /\ ready = [r \in Requests |-> {}]
    /\ store = <<>>
    /\ global = [k \in Keys |-> None]
    /\ free = {}
    /\ savedIds = {} /\ recving = {}
    /\ backing = [b \in Backings |-> "unused"]
    /\ slots = [b \in Backings |-> 0]
    /\ content = [b \in Backings |-> None]
    /\ promised = [r \in Requests |-> [computed |-> 0, blocks |-> 0]]
    /\ delivered = [r \in Requests |-> None]
    /\ engine = "up"
    /\ schedClosed = FALSE /\ workerClosed = FALSE /\ runtimeClosed = FALSE

----------------------------------------------------------------------------
\* vLLM's scheduler (external) and the scheduler-side connector.  One step of
\* vLLM schedules requests one by one and then builds the step's metadata.

MaySchedule ==
    /\ engine = "up" /\ ~schedClosed /\ ~workerClosed
    /\ Len(queue) + (IF pc = "idle" THEN 0 ELSE 1) < PipelineDepth

BetweenSteps == pendingLoads = {} /\ \A r \in Requests : scheduled[r] = <<>>

\* _update_save_state_after_alloc: the save is recorded once the request has
\* all the blocks it is to save, else its parameters are kept for later steps
RecordSave(r, ids) ==
    LET need == SaveBlockCount(r, Len(ids))
    IN  IF r \in saveIds THEN UNCHANGED <<pendingSaves, saveIds, saveParams>>
        ELSE IF Len(ids) < need
        THEN saveParams' = saveParams \cup {r} /\ UNCHANGED <<pendingSaves, saveIds>>
        ELSE /\ pendingSaves' = pendingSaves
                    \cup {[req |-> r, ids |-> SubSeq(ids, 1, need),
                           tokens |-> TokensForSave(r)]}
             /\ saveIds' = saveIds \cup {r}
             /\ saveParams' = saveParams \ {r}

\* The rest of update_state_after_alloc: a load of as many blocks as the tokens vLLM
\* was promised fill, as far as the saved prefix and the limit go.  They are the
\* first blocks of the request, also when vLLM has computed some of those.
RecordLoad(r, tokens) ==
    LET saved == global[KeyOf[r]]
        wanted == BlockCountForTokens(tokens)
        limited == IF RestoreBlockLimit > 0
                   THEN MinOf(wanted, RestoreBlockLimit) ELSE wanted
    IN  pendingLoads' =
            IF tokens = 0 \/ saved = None THEN pendingLoads
            ELSE pendingLoads \cup {[req |-> r, count |-> MinOf(limited, saved.count)]}

\* A waiting request that saves is given its first n blocks
ScheduleSaver(r, n) ==
    /\ MaySchedule
    /\ r \in Savers /\ req[r] = "waiting"
    /\ req' = [req EXCEPT ![r] = "running"]
    /\ blocks' = [blocks EXCEPT ![r] = n]
    /\ scheduled' = [scheduled EXCEPT ![r] = [i \in 1 .. n |-> i]]
    /\ RecordSave(r, [i \in 1 .. n |-> i])
    /\ UNCHANGED <<finished, promised, pendingLoads, queue, callVars, saveVars,
                   storeVars, poolVars, recving, delivered, engine, closeVars>>

\* A waiting request that restores, of whose prompt vLLM has computed some: it runs
\* at once when no more matches, else it waits until its promised blocks are there
ScheduleRestorer(r, computed) ==
    LET tokens == MatchedNewTokens(r, computed)
        filled == BlockCountForTokens(computed + tokens)
    IN  /\ MaySchedule
        /\ r \notin Savers /\ req[r] = "waiting" /\ computed < Tokens[r]
        /\ req' = [req EXCEPT ![r] = IF tokens > 0 THEN "loading" ELSE "running"]
        /\ blocks' = [blocks EXCEPT ![r] = IF tokens > 0 THEN filled ELSE PromptBlocks(r)]
        /\ promised' = IF tokens = 0 THEN promised
                       ELSE [promised EXCEPT ![r] = [computed |-> computed, blocks |-> filled]]
        /\ RecordLoad(r, tokens)
        /\ UNCHANGED <<scheduled, finished, pendingSaves, saveIds, saveParams, queue,
                       callVars, saveVars, storeVars, poolVars, recving, delivered,
                       engine, closeVars>>

\* A running request is given n more blocks; the scheduler output names only
\* the new ones
ScheduleChunk(r, n) ==
    /\ MaySchedule
    /\ r \in Savers /\ req[r] = "running" /\ scheduled[r] = <<>>
    /\ blocks[r] + n <= PromptBlocks(r)
    /\ blocks' = [blocks EXCEPT ![r] = @ + n]
    /\ scheduled' = [scheduled EXCEPT ![r] = [i \in 1 .. n |-> blocks[r] + i]]
    /\ UNCHANGED <<req, finished, promised, schedVars, queue, callVars, saveVars,
                   storeVars, poolVars, recving, delivered, engine, closeVars>>

\* _collect_save_requests_from_scheduler_output: requests that still wait for
\* blocks are tried again with the blocks of this step.  A new request carries
\* its parameters, a running one has those kept from before.
NewInStep(r) == scheduled[r] # <<>> /\ scheduled[r][1] = 1

Collected ==
    {r \in Savers \ saveIds :
        /\ scheduled[r] # <<>>
        /\ NewInStep(r) \/ r \in saveParams
        /\ Len(scheduled[r]) >= SaveBlockCount(r, Len(scheduled[r]))}

SaveMeta(r) ==
    [req |-> r, tokens |-> TokensForSave(r),
     ids |-> SubSeq(scheduled[r], 1, SaveBlockCount(r, Len(scheduled[r])))]

BuildConnectorMeta ==
    /\ MaySchedule
    /\ ~BetweenSteps \/ finished # {}
    /\ saveIds' = saveIds \cup Collected
    /\ saveParams' = (saveParams \cup {r \in Savers : NewInStep(r)}) \ Collected
    /\ queue' = Append(queue,
            [loads |-> pendingLoads, finished |-> finished,
             saves |-> pendingSaves \cup {SaveMeta(r) : r \in Collected}])
    /\ pendingLoads' = {} /\ pendingSaves' = {}
    /\ scheduled' = [r \in Requests |-> <<>>]
    /\ finished' = {}
    /\ UNCHANGED <<req, blocks, promised, callVars, saveVars, storeVars, poolVars,
                   recving, delivered, engine, closeVars>>

\* Mutation of KeepsBlocks: a save that still waits for blocks counts as recorded
KeepsBlocksEarly(r) == r \in saveIds \cup saveParams

KeepsBlocks(r) == r \in saveIds

\* request_finished, for a request that ended or was aborted between two steps:
\* its blocks are kept while a save of them has been recorded
RequestFinished(r) ==
    /\ MaySchedule /\ BetweenSteps
    /\ req[r] \in {"waiting", "loading", "running"}
    /\ req' = [req EXCEPT ![r] = IF KeepsBlocks(r) THEN "deferred" ELSE "freed"]
    /\ finished' = finished \cup {r}
    /\ UNCHANGED <<blocks, scheduled, promised, schedVars, queue, callVars, saveVars,
                   storeVars, poolVars, recving, delivered, engine, closeVars>>

----------------------------------------------------------------------------
\* The worker-side connector

Raise == engine' = "dead" /\ pc' = "dead"

Smallest(s) == CHOOSE r \in s : \A q \in s : r <= q

SaveRequests(m) == {x.req : x \in m.saves}

SaveOf(r) == CHOOSE x \in meta.saves : x.req = r

LoadOf(r) == CHOOSE x \in meta.loads : x.req = r

\* The model runner binds the metadata of the next step
BeginStep ==
    /\ engine = "up" /\ pc = "idle" /\ queue # <<>>
    /\ ~schedClosed /\ ~workerClosed
    /\ meta' = Head(queue) /\ queue' = Tail(queue)
    /\ pc' = "load" /\ todo' = {x.req : x \in Head(queue).loads}
    /\ UNCHANGED <<vllmVars, schedVars, layer, saveVars, storeVars, poolVars,
                   recving, delivered, engine, closeVars>>

\* register_blocks puts block i of the request at slot i of the backing; a
\* range outside the buffer is refused when its intent is validated
SlotsFit(n, b) == n <= slots[b]

\* register_request, which also refuses a request without blocks
RegisterOK(n, b) == n > 0 /\ SlotsFit(n, b)

\* _restore_request: the prefix must still be in the global store, hold enough
\* slots for the blocks, and the transfer must leave good evidence
RestoreOK(saved, n, e) ==
    /\ saved # None
    /\ RegisterOK(n, saved.backing)
    /\ LifecycleOK(e)

LoadRequest ==
    /\ pc = "load" /\ todo # {}
    /\ \E e \in EvidenceShapes :
        LET r == Smallest(todo)
            saved == global[KeyOf[r]]
            n == LoadOf(r).count
        IN  IF RestoreOK(saved, n, e)
            THEN /\ delivered' = [delivered EXCEPT ![r] =
                        [from |-> content[saved.backing], count |-> n]]
                 /\ recving' = recving \cup {r}
                 /\ todo' = todo \ {r}
                 /\ UNCHANGED <<pc, engine>>
            ELSE Raise /\ UNCHANGED <<delivered, recving, todo>>
    /\ UNCHANGED <<vllmVars, schedVars, queue, meta, layer, saveVars, storeVars,
                   poolVars, closeVars>>

\* start_load_kv is over; the forward pass begins with the first layer
StartForward ==
    /\ pc = "load" /\ todo = {}
    /\ pc' = IF meta.saves = {} THEN "finish" ELSE "layers"
    /\ layer' = 1 /\ todo' = SaveRequests(meta)
    /\ UNCHANGED <<vllmVars, schedVars, queue, meta, saveVars, storeVars, poolVars,
                   recving, delivered, engine, closeVars>>

\* _backing_pool.acquire: a free group of the signature, else a new one, whose
\* buffer ids are counted up
Acquirable(n) ==
    LET reusable == {b \in free : slots[b] = n}
        unused == {b \in Backings : backing[b] = "unused"}
    IN  IF reusable # {} THEN reusable
        ELSE IF unused # {} THEN {Smallest(unused)} ELSE {}

\* _start_layer_save_context: the backing goes back to the pool when the
\* integration cannot be made
StartContext(r, b, ok) ==
    /\ backing' = [backing EXCEPT ![b] = "open"]
    /\ slots' = [slots EXCEPT ![b] = Len(SaveOf(r).ids)]
    /\ free' = IF ok THEN free \ {b} ELSE free \cup {b}
    /\ contexts' = IF ok THEN [contexts EXCEPT ![r] = b] ELSE contexts

\* save_kv_layer, its loop body for one request
SaveLayer ==
    /\ pc = "layers" /\ todo # {}
    /\ LET r == Smallest(todo)
       IN  \/ /\ contexts[r] # None
              /\ ready' = [ready EXCEPT ![r] = @ \cup {layer}]
              /\ todo' = todo \ {r}
              /\ UNCHANGED <<pc, engine, contexts, poolVars>>
           \/ /\ contexts[r] = None
              /\ \E b \in Acquirable(Len(SaveOf(r).ids)), ok \in BOOLEAN :
                    /\ StartContext(r, b, ok)
                    /\ IF ok THEN /\ ready' = [ready EXCEPT ![r] = {layer}]
                                  /\ todo' = todo \ {r}
                                  /\ UNCHANGED <<pc, engine>>
                             ELSE Raise /\ UNCHANGED <<ready, todo>>
              /\ UNCHANGED content
           \/ /\ contexts[r] = None /\ Acquirable(Len(SaveOf(r).ids)) = {}
              /\ Raise
              /\ UNCHANGED <<ready, todo, contexts, poolVars>>
    /\ UNCHANGED <<vllmVars, schedVars, queue, meta, layer, savedIds, storeVars,
                   recving, delivered, closeVars>>

\* The forward pass goes on to the next layer or ends; it may end before
\* every registered layer has called save_kv_layer
NextLayer ==
    /\ pc = "layers"
    /\ \/ todo = {} /\ layer < Layers /\ layer' = layer + 1 /\ UNCHANGED pc
       \/ layer' = 0 /\ pc' = "wait"
    /\ todo' = SaveRequests(meta)
    /\ UNCHANGED <<vllmVars, schedVars, queue, meta, saveVars, storeVars, poolVars,
                   recving, delivered, engine, closeVars>>

\* Mutation of StorePrefix: evicted keys stay in the global store
StorePrefixKeepingGlobal(p) ==
    /\ store' = PutPrefix(store, p)
    /\ free' = free \cup BackingsOf(RemovedByPut(store, p))
    /\ global' = [global EXCEPT ![p.key] = p]

\* _store_prefix and the update of the global store after it.  Each prefix
\* that the put removes is validated, its backing goes back to the pool, and
\* its key leaves the global store unless it is the key just saved.
StorePrefix(p) ==
    LET removed == RemovedByPut(store, p)
    IN  /\ store' = PutPrefix(store, p)
        /\ free' = free \cup BackingsOf(removed)
        /\ global' = [k \in Keys |->
                IF k = p.key THEN p
                ELSE IF \E q \in removed : q.key = k THEN None ELSE global[k]]

\* What the transfer of a save leaves in the backing
Written(r) == [source |-> r, ids |-> SaveOf(r).ids]

\* _finish_layer_save_context, for a context whose layers are all there
FinishSave(r, b) ==
    \E e \in EvidenceShapes :
        LET m == SaveOf(r)
            p == [key |-> KeyOf[r], backing |-> b, count |-> Len(m.ids),
                  tokens |-> m.tokens, source |-> r, evidence |-> e]
        IN  /\ content' = [content EXCEPT ![b] = Written(r)]
            /\ IF ~LifecycleOK(e)
               THEN /\ backing' = [backing EXCEPT ![b] = "closed"]
                    /\ Raise
                    /\ UNCHANGED <<store, global, free, savedIds, todo>>
               ELSE IF /\ \A q \in RemovedByPut(store, p) \cup {p} : StoreEvidenceOK(q)
                       /\ \A q \in RemovedByPut(store, p) : BackingEvidenceOK(q)
               THEN /\ StorePrefix(p)
                    /\ savedIds' = savedIds \cup {r}
                    /\ todo' = todo \ {r}
                    /\ UNCHANGED <<backing, pc, engine>>
               ELSE /\ store' = PutPrefix(store, p)
                    /\ backing' = [backing EXCEPT ![b] = "closed"]
                    /\ Raise
                    /\ UNCHANGED <<global, free, savedIds, todo>>

\* wait_for_save, its loop body for one request: the context is taken out
\* first, so an incomplete one leaves with its backing
WaitForSave ==
    /\ pc = "wait" /\ todo # {}
    /\ LET r == Smallest(todo)
           b == contexts[r]
       IN  /\ contexts' = [contexts EXCEPT ![r] = None]
           /\ ready' = [ready EXCEPT ![r] = {}]
           /\ IF b # None /\ Cardinality(ready[r]) = Layers
              THEN FinishSave(r, b)
              ELSE /\ Raise
                   /\ UNCHANGED <<store, global, free, savedIds, todo, backing, content>>
    /\ UNCHANGED <<vllmVars, schedVars, queue, meta, layer, slots, recving, delivered,
                   closeVars>>

SavesDone ==
    /\ pc = "wait" /\ todo = {}
    /\ pc' = "finish"
    /\ UNCHANGED <<vllmVars, schedVars, queue, meta, todo, layer, saveVars, storeVars,
                   poolVars, recving, delivered, engine, closeVars>>

\* get_finished ends the step: vLLM frees the blocks of the requests whose
\* save it reports and runs the requests whose load it reports
GetFinished ==
    LET sending == savedIds \cap meta.finished
    IN  /\ pc = "finish"
        /\ savedIds' = savedIds \ sending
        /\ recving' = {}
        /\ req' = [r \in Requests |->
                IF r \in sending /\ req[r] = "deferred" THEN "freed"
                ELSE IF r \in recving /\ req[r] = "loading" THEN "running"
                ELSE req[r]]
        /\ pc' = "idle" /\ meta' = NoMeta
        /\ UNCHANGED <<blocks, scheduled, finished, promised, schedVars, queue, todo,
                       layer, contexts, ready, storeVars, poolVars, delivered, engine,
                       closeVars>>

----------------------------------------------------------------------------
\* close(), of either connector

OpenContexts == {contexts[r] : r \in Requests} \ {None}

\* Both connectors have the session id of the configuration, so that either
\* clears the prefixes of both from the global store
ClearGlobal == global' = [k \in Keys |-> None]

\* _close_saved_prefixes
DrainedBackings == BackingsOf(Range(store))

\* TurboBusCPUBackingPool.close, reached when the runtime session has closed
ClosedFree(ok) == IF ok THEN free ELSE {}

CloseScheduler ==
    /\ pc \in {"idle", "dead"} /\ ~schedClosed
    /\ schedClosed' = TRUE
    /\ pendingLoads' = {} /\ pendingSaves' = {}
    /\ saveIds' = {} /\ saveParams' = {}
    /\ ClearGlobal
    /\ UNCHANGED <<vllmVars, queue, callVars, saveVars, store, poolVars, recving,
                   delivered, engine, workerClosed, runtimeClosed>>

\* The worker's close drains its store, its contexts and the global store, and
\* closes the free backings only when its runtime session closed
CloseWorker ==
    /\ pc \in {"idle", "dead"} /\ ~workerClosed
    /\ workerClosed' = TRUE
    /\ store' = <<>>
    /\ contexts' = [r \in Requests |-> None]
    /\ savedIds' = {} /\ recving' = {}
    /\ ClearGlobal
    /\ \E ok \in BOOLEAN :
        /\ runtimeClosed' = ok
        /\ free' = free \ ClosedFree(ok)
        /\ backing' = [b \in Backings |->
                IF b \in DrainedBackings \cup OpenContexts \cup ClosedFree(ok)
                THEN "closed" ELSE backing[b]]
    /\ UNCHANGED <<vllmVars, schedVars, queue, callVars, ready, slots, content,
                   delivered, engine, schedClosed>>

----------------------------------------------------------------------------
Schedule ==
    \/ \E r \in Requests : \E n \in 1 .. PromptBlocks(r) :
            ScheduleSaver(r, n) \/ ScheduleChunk(r, n)
    \/ \E r \in Requests, computed \in ComputedTokens : ScheduleRestorer(r, computed)
    \/ \E r \in Requests : RequestFinished(r)

WorkerStep ==
    \/ BeginStep \/ LoadRequest \/ StartForward \/ SaveLayer \/ NextLayer
    \/ WaitForSave \/ SavesDone \/ GetFinished

Next == Schedule \/ BuildConnectorMeta \/ WorkerStep \/ CloseScheduler \/ CloseWorker

Spec == Init /\ [][Next]_vars

\* vLLM's engine loop keeps stepping while it has requests or finished ids to
\* report, and a step that started runs to its end or raises
FairSpec == Spec /\ WF_vars(BuildConnectorMeta) /\ WF_vars(WorkerStep)

----------------------------------------------------------------------------
Owners(b) ==
    Cardinality({r \in Requests : contexts[r] = b})
    + Cardinality({i \in 1 .. Len(store) : store[i].backing = b})
    + (IF b \in free THEN 1 ELSE 0)

\* Through saves, replacements, evictions and failures a pinned backing is held
\* by at most one of the save contexts, the saved prefixes and the free pool, and
\* only an open backing is held; while the engine is up none is lost.  Closing the
\* worker gives all of them back, except the one of a save whose layers were
\* incomplete and the free ones when the runtime session failed to close.
BackingsHaveOneOwner ==
    /\ \A b \in Backings :
        /\ Owners(b) <= 1
        /\ Owners(b) = 1 => backing[b] = "open"
        /\ engine = "up" /\ backing[b] = "open" /\ ~workerClosed => Owners(b) = 1
    /\ workerClosed /\ runtimeClosed =>
        /\ free = {}
        /\ Cardinality({b \in Backings : backing[b] = "open"})
            <= IF engine = "dead" /\ meta.saves # {} THEN 1 ELSE 0

\* The loads that are recorded, queued or under way
UnderWay == pendingLoads \cup (IF queue # <<>> THEN Head(queue).loads ELSE {})
    \cup (IF pc = "load" THEN {m \in meta.loads : m.req \in todo} ELSE {})

\* A save whose blocks hold the tokens it is recorded with: turbobus.save_blocks is
\* absent, or large enough for turbobus.matched_tokens.
Covers(r) == BlockCountForTokens(TokensForSave(r)) <= RequestedBlocks(r)

\* What the scheduler promised of a prefix, the worker delivers (no restore limit,
\* one step at a time): an evicted or replaced prefix is never matched, no save of
\* the same or an earlier step takes the prefix away before start_load_kv reads it,
\* what it reads is the KV of the request's own key, whatever the backing was reused
\* for in between, and no load goes beyond the blocks of the request.  When vLLM had
\* computed nothing and the prefix was saved with the blocks of its tokens, a load
\* is reported with every promised block loaded; in the two other cases the code
\* promises more than it loads (vllm_kv_connector.py:290-419, 715-839, 2157-2170).
RestoreIsWhole ==
    /\ \A k \in Keys : global[k] # None => global[k] \in Range(store)
    /\ \A m \in UnderWay : engine = "up" /\ ~schedClosed /\ ~workerClosed =>
            /\ global[KeyOf[m.req]] # None
            /\ m.count <= slots[global[KeyOf[m.req]].backing]
    /\ \A r \in Requests : delivered[r] # None => KeyOf[delivered[r].from.source] = KeyOf[r]
    /\ \A r \in recving :
          /\ delivered[r].count <= promised[r].blocks
          /\ promised[r].computed = 0 /\ Covers(delivered[r].from.source) =>
                delivered[r].count = promised[r].blocks

\* Blocks kept for a save are given back once the save is reported, and a
\* request that waits for its KV gets it, unless the engine dies or closes.
Over == engine = "dead" \/ schedClosed \/ workerClosed

WaitersProceed ==
    \A r \in Requests : (req[r] \in {"deferred", "loading"})
                            ~> (req[r] \in {"freed", "running"} \/ Over)

====
