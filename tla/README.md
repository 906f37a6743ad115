# CacheSelect: TLA+ models of block reuse in an inference engine

CacheSelect is a fork of vLLM (V1 engine) that reuses KV blocks of an earlier
*source* request when the same tokens reappear behind a different prefix: the
native prefix cache cannot serve them, so CacheSelect copies the source's blocks
into the target's and lets the worker skip the rows it would have recomputed.
For models with recurrent (GDN) layers it keeps *operators* of blocks, per layer, and
applies them in place of the blocks. This directory models these features where
they meet what makes an inference engine hard: reference-counted blocks,
preemption, aborts, forced cache resets, steps that overlap, prompts that are
computed in chunks, and caches that evict independently of the index that
plans with them.

All paths below are relative to `src/vllm/vllm/v1/` unless they start with `src/`
or `layers/` (`src/vllm/vllm/model_executor/layers/`).

## 1. The system

| Component | State | Operations | Modelled in |
|---|---|---|---|
| block pool (`core/block_pool.py`, `core/kv_cache_utils.py`) | reference counts, free queue, hash of each block, hash map | `touch`, `get_new_blocks`, `free_blocks`, `cache_full_blocks`, `evict_blocks`, `reset_prefix_cache` | `BlockPool`, `BlockStore` |
| KV-cache manager (`core/kv_cache_manager.py`, `core/single_type_kv_cache_manager.py`) | block table of each request, number of registered blocks | `get_computed_blocks`, `allocate_slots`, `free` | `KVCacheManager` |
| reuse locator (`core/partial_reuse.py`) | source index and its LRU order, session names, the source chosen for each request, its plan | `index`, `locate`, `retain_resident_sources`, `release_sources`, `clear` | `SourceIndex`; copies under overlap in `ReuseScheduler`; leases in `KVCacheManager` |
| scheduler (`core/sched/scheduler.py`, `async_scheduler.py`) | request life cycle, running and waiting queues, deferred frees, step counters, placeholders | `add_request`, `schedule`, `update_from_output`, `_preempt_request`, `finish_requests`, `reset_prefix_cache` | `ReuseScheduler`; chunking and batching again in `SpanExecution` and `GDNReuse` |
| engine loop (`engine/core.py`) | batch queue, input queue | `step`, `step_with_batch_queue`, `_process_input_queue`, `_process_aborts_queue` | `ReuseScheduler` |
| worker-side reuse (`worker/gpu/partial_reuse.py`, `worker/gpu/model_runner.py`) | tokens to reuse and blocks to repair of each request, pending metrics, contents of the KV slots | `add_requests`, `prepare_inputs`, `_execute_selected_cacheselect_forward`, `sample_tokens` | `SpanExecution` (by token), `ReuseScheduler` (by block) |
| GDN delta reuse (`core/gdn_delta_reuse.py`, `worker/gpu/gdn_delta_reuse.py`, `layers/mamba/gdn/`) | source index, plans, one sidecar of operators per layer | `index`, `locate`, `preflight_gdn_delta_reuse`, lookup, store, active and full prefill | `GDNReuse`, `OperatorSidecar`, `OperatorCache` |
| request ledger (`src/observability/`) | append-only file, two locks | `start`, `complete`, `fail`, `validate_ledger` | `RequestLedger` |
| reuse planner (`src/cacheselect/`) | none | `decide` | not modelled: a stateless division of a prompt |
| feature extraction, selector, benchmarks, the rest of vLLM | | | not modelled |

How they interact: one engine thread calls `schedule()` and
`update_from_output()` in turn. `schedule()` asks the manager for a prefix hit,
asks the locator for a plan, pins the plan's source blocks in the pool, allocates
the target's blocks from what is left, and either gives the pins back at the end
of the call or, when steps overlap and a connector may fill freed blocks, hands
them to `deferred_frees` with the number of the step that must have completed.
The worker executes the launched steps in order: for each request it sees first
it resolves the plan, lets the selector choose what to repair, and copies; then
it runs the forward pass over the rows that are not reused, span by span.
Results of a step come back after up to `max_concurrent_batches - 1` later steps
have been scheduled; by then its requests may have been preempted, aborted or
reset. Plans of the GDN index go the same way, but nothing is pinned: the worker asks
every layer, and again at execution, whether the operators are still there.

What is hard here, with the line where it bites and the properties that watch it,
is listed under `hazards` in `PROJECT.json`. In short:

* pins are taken *before* an allocation that may fail, and they shrink the pool
  for that same allocation;
* both indexes keep ids and hashes after the blocks or operators are gone, and a
  plan made from them may be used much later;
* a hash is registered when a block is *allocated*, one step before its KV exists;
* an entry of `deferred_frees` waits behind entries with a later fence;
* an output may be late for a request that was preempted (keep it), finished
  (ignore it) or reset (discard it), and each case has its own counter;
* copies are made once, with a request's first chunk, while what is read, repaired
  and skipped is decided chunk by chunk, and chunks end anywhere;
* the layers' sidecars evict for themselves, in the middle of a forward pass;
* several processes append to one ledger, a line in several writes, and any of them
  may be killed in between.

## 2. The modules

**`BlockStore`** is what a reference-counted store with a prefix cache promises,
without queues or counts: holders get and give back blocks; a held block is never
handed out; a block's cached identity changes only when nobody holds it, except by
an explicit eviction.

**`BlockPool`** is the pool of `block_pool.py` as operators on a record: reference
counts, the free queue in order (the doubly linked list of `kv_cache_utils.py` is
taken as the sequence it represents), block hashes and the hash map whose entries keep
insertion order. **`KVCacheManager`** adds the manager of one full-attention group
and the leases CacheSelect takes; each action is one call. It refines `BlockStore`
(`ImplementsBlockStore`). Its history variable `foreign` records whether, since the last
reset, something happened that native caching never does: a pin, or an eviction by a
connector. Two properties hold only without one of them, and say so.

**`ReuseScheduler`** is the core: scheduler, locator, engine loop and worker in one
state machine. The two long calls are cut at their loop iterations, and `phase`
says which call is in progress:

| Action | Code |
|---|---|
| `AddRequest`, `Abort` | `add_request`; `finish_requests`, with `index` and `_free_request_blocks` |
| `ResetPrefixCache`; `ForceReset`, `ResetPreempt`, `ResetEnd` | `reset_prefix_cache` without and with `reset_running_requests` |
| `BeginSchedule`, `SkipRunning`, `ScheduleRunning`, `PreemptForSlots`, `EndRunning` | the loop of `schedule()` over the running requests |
| `AdmitWaiting`, `RefuseWaiting`, `EndWaiting` | the loop over the waiting requests: hit, plan, pins, allocation |
| `Launch` | the end of `schedule()`: release or defer the pins, `_update_after_schedule`, append to the batch queue |
| `TakeResults` | the oldest step has run: its KV writes, `_drain_deferred_frees` |
| `IgnoreRow`, `DiscardRow`, `AppendToken` | one iteration of the loop of `update_from_output` |
| `Idle` | the engine waits on its input queue |

Choices of abstraction, and why they are sound:

* Tokens are reduced to chained block hashes and to the windows in which target
  and source agree; a KV slot holds the hash it was computed for, or `NoHash`.
  KV copied from a fully computed source block *stands for* the target's own:
  how good the approximation is, is a numerical question the model does not ask.
* The free blocks are a set; an allocation takes any of them, uncached ones first.
  That order is what `UncachedBlocksGoFirst` establishes for the queue in
  `KVCacheManager` (until a connector evicts); the rest of the LRU order is left open, so
  `ReuseScheduler` has more behaviours than the code, never fewer.
* The pins of one admission form one *lease*, identified by a member of `Lease`.
  In the code they are consecutive entries of one list with one fence.
  A request's deferred blocks form a lease as well.
* The repair selector (a trained model) may send any part of a plan back to
  recomputation: `Admit` keeps an arbitrary subset of the candidates.
* Execution of a step is part of `TakeResults`. The GPU stream runs steps in
  launch order, and nothing else writes KV slots, so the moment is unobservable.
* Clients act between two engine steps and only while the batch queue is not
  full; aborts are also served while the engine waits for a result.
* An empty step is pushed to the batch queue but does not count as a step, as
  in the code (`schedSeq`, `processedSeq`).
* `numCached` is not kept: registering a block twice under the same hash changes
  nothing in the set-based pool.

**`SourceIndex`** is the locator of `core/partial_reuse.py` with real token
sequences: which source a request gets, which windows match, what is pinned.

| Action | Code |
|---|---|
| `Admit`, `Refuse` | `get_computed_blocks` with `locate`, `retain_resident_sources`, `allocate_slots`, and what `schedule()` does with the result; `Admit` with or without an asynchronous load |
| `LoadDone`, `AdmitLoaded` | `_update_waiting_for_remote_kv`; the admission after it, which makes no new plan |
| `StepDone` | the pins of a step are given back |
| `Preempt` | `_preempt_request`; the chosen source stays on the request |
| `Finish` | `free` or `pop_blocks_for_free` of a finished request, with `index` |
| `Reset` | `reset_prefix_cache`, with `clear` |

Its abstractions:

* A block's hash is the salt, the adapter and the tokens of the prefix the block
  ends, as `hash_block_tokens` chains them. "The copy is right" can therefore be stated
  as equality of tokens.
* A request is given all its blocks at admission, as many as it gets to compute
  before it ends, and blocks past the prompt get no hash (`index` never
  records them). The pool is reduced to hashes and holders: `Admit` may take any free
  blocks, uncached ones first.
* A fingerprint is the set of windows itself. The code keeps the 64 smallest of
  their hashes, which for prompts of at most 64 windows is the same but for hash
  collisions.
* An asynchronous load brings the whole prompt and does not fail; a request is not
  aborted while it loads.

**`SpanExecution`** is the worker of one request stream, by token and by batch row:
from a plan to what is copied, what is repaired, what each chunk computes and what it skips.

| Action | Code |
|---|---|
| `ScheduleRunning`, `SchedulePreempting`, `Admit` | `schedule()`: rows of running requests, then of waiting ones, within the budget; a preempted request gives up its blocks |
| `Launch` | the end of `schedule()`; `finish_requests` of the worker; `sort_batch_req_ids` (`InWorkerOrder`) |
| `AddRequest` | `add_requests`: resolve the plan against the first chunk, choose repairs, drop short spans, copy, create the metrics |
| `RaiseCounterfactual`, `RaiseUnmeasured` | the two `ValueError`s on this path; they end the engine |
| `PrepareInputs` | `prepare_inputs`: reused rows, `assess_partial_reuse_batch`, execution spans |
| `ExecuteSpan` | one forward over one span, or over the whole batch |
| `Sample` | `sample_tokens`: the output and the metrics it takes along |

`written` are the tokens of a request whose slot holds computed KV, `copied` those
whose slot holds a copy. Steps do not overlap here: the worker's tables change only with the
steps, in launch order. `Supported` stands for the configuration gates and for
requests without prompt logprobs; execution is enabled. The selector may choose any
subset of the affected blocks, and a plan keeps any subset of its candidates (those that could
be pinned). How `partial_reuse.py` orders spans and looks runs up is replaced by
what it produces: the maximal runs of rows to compute. Repacking kernels, position
correction and timings are left out.

**`OperatorSidecar`** is `GDNDeltaOperatorSidecar`: slots, the LRU `OrderedDict`, free slots,
what the tensors hold; lookup and store as operators. **`OperatorCache`** is what the
layers' sidecars promise together, without slots and order. **`GDNReuse`** composes the
scheduler's index, the worker and one sidecar per layer, and refines `OperatorCache`
(`ImplementsOperatorCache`).

| Action | Code |
|---|---|
| `Add`, `End` | `add_request`; a request is freed and indexed (`index`) |
| `Reset` | `reset_prefix_cache` after a weight update: the index is cleared, the sidecars are not |
| `ScheduleRunning`, `SchedulePreempting`, `Admit`, `Launch` | `schedule()`, with `locate` for a waiting request, also one that is then refused; `sort_batch_req_ids` |
| `Prepare` | `finish_requests`, `add_requests`, `preflight_gdn_delta_reuse` on all layers |
| `LookupNext` | one entry of `lookup_many`, in the preflight or in a layer |
| `StartLayer` | one layer's forward: the active path with its operators, or the full path |
| `StoreNext`, `NextLayer` | operators of the blocks that ran are stored, one by one; on to the next layer |
| `RaiseUnaligned` | the `ValueError` of `_execute_active_gdn_prefill` |

An operator is reduced to the context hash it was stored under and to the weights
(`epoch`) it was computed with. The native prefix cache is over-approximated: any prefix of
the blocks computed since the last reset may hit (`NativeHits`), because this module has no pool.
A full layer looks the candidates up for the shadow comparison, which refreshes them
in the LRU order; the comparison's result and its indexing are not modelled. Checkpoint
pages, metrics and the arithmetic of operators are left out. Operators that an active
prefill stores are computed from already approximated inputs; that is a question
of accuracy and is not tracked.

**`RequestLedger`** is the recorder of `src/observability/request_recorder.py` with several processes
and threads, and the validator. An event reaches the file in two fragments, so that
writes of two processes could mix and a kill can leave half a line. A line cut exactly before
its newline is not told apart from a line cut elsewhere.

| Action | Code |
|---|---|
| `Start`, `Finish` | `start`; `complete` and `fail`, with the `_finished` flag |
| `LockThread`, `LockFile`, `WriteHead`, `WriteRest`, `Sync`, `UnlockFile`, `Return` | `_append`, cut where another thread, process or fault can come between |
| `WriteError` | an `OSError` inside `_append`, and the flush that closing the file does |
| `Kill`, `PowerLoss` | the environment: a process dies; all do, with some of what was not synced |

`Reads`, `Rejected` and `IsComplete` are `validate_ledger`.

**Proof modules**: `QueueLemmas`, `KVCacheManagerProofs`, `ReuseSchedulerProofs`, `PrefixProofs`,
`SourceIndexProofs`, `SpanExecutionProofs`, `GDNReuseProofs`, `RequestLedgerProofs` (section 5). The `MC...` modules give the
constants for TLC.

Operators named `Faulty...` stand immediately before the operator they imitate. Each
repeats it with one slip that a programmer could make (a fence one step off, pins
not released on refusal, a lock left behind, a last row not protected). They are used by no
specification. Substituted for the real operator, each makes the property it is
listed with in `PROJECT.json` fail: evidence that the property would notice.

## 3. The runs

Sizes are distinct states.

| Run | States | What it shows |
|---|---|---|
| `KVCacheManager_leases` | 75,152 | a lease on source blocks, connector evictions and resets: references balance, tables carry their own hashes, the hash map agrees with the blocks; without connector evictions uncached blocks are reused first, and with neither pins nor evictions cached prefixes have no gaps; `BlockStore` is implemented |
| `ReuseScheduler_deferred` | 495,415 | overlapping steps with deferred frees, chunked prefill, preemption, abort, early stop and a forced reset: the safety invariants; every step leaves in its blocks the KV of its requests' own tokens; a forced reset fails for deferred frees only |
| `ReuseScheduler_drain` | 263,174 | three requests, overlapping steps, deferral, preemption and refusals: every request finishes and `deferred_frees` empties |
| `ReuseScheduler_livelock` | violation | finding 1 |
| `ReuseScheduler_stale_source` | violation | finding 2 |
| `SourceIndex_sources` | 125,126 | sources indexed, replaced under the same id, evicted and reset, while requests choose by name, session or fingerprint: index, order and session names agree, a session's name is its latest entry, what a step copies spells the target's tokens under its salt |
| `SourceIndex_reassigned` | violation | finding 3 |
| `GDNReuse_layers` | 504,930 | two layers that store and evict on their own, chunks, preemption, decoding beside a prefill, aborts during a step, a weight update: sidecars stay consistent and in step, a block is reused on all layers or on none, by an operator of its own tokens; what the preflight admitted, the pass it was made for finds; `OperatorCache` is implemented |
| `GDNReuse_unaligned` | violation | finding 4 |
| `SpanExecution_chunks` | 32,883 | prompts in chunks, alone and in batches, with preemption and any selection of repairs: no span reads a slot nothing was written to or a copy that is to be repaired; sampled rows are computed; each row is computed or keeps a copy it may keep |
| `SpanExecution_boundary` | violation | finding 5 |
| `RequestLedger_crashes` | 74,829 | two processes, three threads, four events and two faults: lines do not mix, acknowledged events survive, a ledger is rejected only for a cut line, an audit that passes has missed nothing, calls return |

**Bounds.** `ReuseScheduler`: three requests: a source, its target, and one that repeats the source's
prompt (prefix hits, and a competitor for blocks; in the drain run it has a short prompt
and decodes beside the source, and the budget is 2). Four blocks of one token, so that
two running requests do not fit to their full length and preemption happens; three
blocks where pins alone must exhaust the pool; `MaxConcurrent` 2, the smallest
value with overlap and the one vLLM uses for asynchronous scheduling without pipeline
parallelism (with it, `max_concurrent_batches` is larger, and section 4 says what breaks). Budget 3 cuts
a second admission in the same step into chunks. One reset, one abortable request
and one that stops early keep the counters finite; `MaxResets`, `CanAbort`,
`StopsEarly` and `Lease` are the only bounds that are not parameters of the code.
The deferred and drain runs end every chunk at a block boundary; `ReuseScheduler_stale_source`
uses blocks of two tokens, because a chunk must end inside a block to show what it
shows. Synchronous scheduling appears in the violation runs; the other runs take the
asynchronous scheduler with deferral, which adds behaviour to it. Blocks are symmetric in the
safety runs: no operator orders them, and `CHOOSE` is applied to blocks nowhere. The liveness runs use
no symmetry.

`SourceIndex`: prompts of four tokens in blocks of two, four blocks (a copy across
a block boundary needs two for the source and two for the target), an index of
two entries for three ids, so that eviction, replacement under one id by another session,
and the fallback from the latest of a session to a fingerprint all happen.
`CanPreempt`, `Remote` and `MaxLeases` bound who is preempted, who loads asynchronously
and how many pins are in flight. In `SourceIndex_sources` the request that loads
asynchronously names a source whose id is used once; `SourceIndex_reassigned` shows what
happens otherwise.

`GDNReuse`: `Capacity` 2 with prompts of two and three blocks, so that storing one
prompt evicts operators of another, also between the layers of one pass; an index of two for three requests;
a prompt longer than the budget of five, whose chunk may start inside a block; two of the requests
share a salt and one does not. `MaxPreemptions` and `MaxResets` are 1.
`SpanExecution`: blocks of two tokens and a budget of five, so that a chunk cuts a block and a
reused block straddles two chunks; nine prompt tokens make two chunks or more; one
request decodes beside the prefill, one is counterfactual. `RequestLedger`: two threads of one process
and one of another is the smallest system in which both locks matter; two faults allow a
fault during the recovery from another.

**Deadlock.** The runs of `KVCacheManager`, `ReuseScheduler` and `SourceIndex` check it, also the exhaustion
of `Lease` identities. `CHECK_DEADLOCK FALSE` stands in four places where the system really stops:
in `GDNReuse_*` and `SpanExecution_*` all requests are done and no client adds another, or an exception has
ended the engine; in `RequestLedger_crashes` all events are recorded or the processes dead. What must
not stop there is stated: `CallsReturn`.

**Fairness.** In `ReuseScheduler`, `FairSpec` assumes weak fairness of `Engine`, the whole of the engine
thread's steps. `run_busy_loop` processes a step for as long as the scheduler has
requests or the batch queue is not empty, and nothing in it waits for a client. Clients are not
fair: nobody has to add a request, and `EveryRequestFinishes` starts only once
one has been added. In `RequestLedger`, `FairSpec` assumes weak fairness of each writer's `Step`: a thread that
is not killed goes on, and a lock that stays free is granted. Weak fairness suffices because faults and
events are finite here, so that a lock cannot be taken away from a waiter for ever; the code asks
no more of `threading.Lock` and `flock`. Neither recording nor faults are fair.

## 4. Findings

Each of these is a run of its own whose counterexample is the scenario; `PROJECT.json` quotes
the lines.

1. *Livelock* (`ReuseScheduler_livelock`). A request whose own source pins take the blocks it lacks is refused in every
   step, also on an otherwise idle engine; native caching would admit it. `schedule()`
   releases the pins but never retries without the plan, although
   `src/cacheselect/README.md` promises to fall back to native behaviour.
2. *Stale source* (`ReuseScheduler_stale_source`). The residency check of a source compares hash and block id. A block evicted and
   then given to a request with the same prefix gets the same hash back before its KV
   has been computed, passes the check, and is copied ahead of the forward pass.
3. *Reassigned source* (`SourceIndex_reassigned`). The same check takes the block ids from the plan but the hashes from the entry now
   indexed under the source's id. A request that was admitted to load its KV
   asynchronously keeps its plan until the load is done. If meanwhile the plan's blocks
   went to another request with the same `cacheselect_request_id`, and that request was
   indexed, ids and hashes agree again: the reassigned block is pinned and copied,
   although it no longer holds the tokens the plan was made for.
4. *Unaligned chunk* (`GDNReuse_unaligned`). The planner of GDN execution partitions an interval that starts
   inside a block, and a test has it do so; its only caller raises for such an interval, where every other
   obstacle leads to a full run. A decode beside the first chunk of a prefill takes one token of the budget, the
   second chunk starts inside a block and, running alone, ends the engine.
5. *Chunk boundary* (`SpanExecution_boundary`). The metrics of a request are created when it is added and leave with
   the output of the first step it is in. A reused block that straddles two chunks makes the second chunk eligible;
   it finds no metrics and raises, although the function is to preserve the fallback.

The models show five more disagreements. They need no run of their own: each is the failure of one
formula under an existing configuration.

* `find_longest_cache_hit` says that a missing block implies that every later block misses
  (`core/single_type_kv_cache_manager.py:706`). A pinned source block survives the eviction of the block before it, so
  with CacheSelect the cache may have gaps: `CachedPrefixesAreClosed` fails without its condition on `foreign`. Lookups stop
  at the gap and stay correct; what lies behind it occupies memory no lookup reaches.
* `reset_prefix_cache(reset_running_requests=True)` says that preempting everything makes the reset succeed
  (`core/sched/scheduler.py:2501`). With deferred frees the preempted blocks keep their references until the step in
  flight completes, and the call raises (2521): "all blocks are free when `ResetEnd` runs" fails under
  `ReuseScheduler_deferred`. What does hold is `ResetFailsOnlyForDeferred`.
* On a forced reset, `num_output_placeholders` "is exactly that count" of stale outputs that must be discarded
  (`core/sched/scheduler.py:2510`), and line 2514 *assigns* it to `async_tokens_to_discard`. With three batches in flight
  (pipeline parallelism, `max_concurrent_batches` in `config/vllm.py`) a request can be launched, reset, admitted and
  launched again, and reset a second time before its first stale output is back: the count of the first reset is overwritten,
  one of two stale tokens is kept, and `PlaceholdersCountOutputs` fails (under `ReuseScheduler_deferred` with `MaxConcurrent` 3,
  `MaxResets` 2 and `Defer` off; 18 steps). With two batches it cannot happen, as is proved in section 5.
* The prefix cache may be reset "to invalidate prefix caching after the weights are updated"
  (`core/kv_cache_manager.py:652`). The reset clears the index of GDN sources (`core/gdn_delta_reuse.py:308`), not the sidecars, and hashes name
  tokens, not weights. A prompt that is admitted and aborted before its blocks run is indexed again, and the
  operators of the old weights are found: `AppliedOperatorsAreCurrent` fails under `GDNReuse_layers`.
* An unended request "is expected after a killed process" (`src/observability/request_recorder.py:226`). A process killed
  inside a line leaves one that is not JSON, and the validator raises for the whole ledger (238-243):
  `KilledProcessesAreReported` fails under `RequestLedger_crashes`.

## 5. What is proved

All proofs are checked by TLAPS, for every value of the constants that satisfies the named
assumptions of the module.

`KVCacheManagerProofs`, for every number of blocks, requests and leases, all token counts and hash
chains, from `BlockPoolAssumption`, `ManagerAssumption` (finite sets; a request has one hash for every full
block it may get) and `ChainAssumption` (equal hashes stand for equal prefixes, which is
what chaining them is for):

| Theorem | Property |
|---|---|
| `ReferencesBalance` | `RefsCountHolders` |
| `MapAgrees` | `MapMatchesHashes` |
| `TablesCarry` | `TablesCarryTheirHashes` |
| `EmptyBlocksFirst` | `UncachedBlocksGoFirst` |
| `PrefixesAreClosed` | `CachedPrefixesAreClosed` |
| `ManagerTypes` | `TypeOK` |
| `ManagerImplementsStore` | `ImplementsBlockStore` |

`ManagerInv` is one invariant for all of them. Its parts:

* `PoolOK`, `RefsOK`: the queue holds each unreferenced block once and the map each block of a hash once; reference
  counts are numbers of holders. The pool's operations are shown one by one to keep this, the recursive filter of
  the queue through the fold it is (`ThoseIsKept`, `ThoseOrder`).
* `Private`: a block behind `num_cached_block` has no other holder. `TablesCarryTheirHashes` needs it, because
  `cache_full_blocks` writes hashes into blocks others might share.
* `PlainFirst`: an empty block of the queue is ahead of each cached one. `free_blocks` appends cached blocks
  and prepends empty ones, and an allocation takes from the front.
* `PrefixesLast`: without pins and evictions, the prefix of a queued cached block is in use or *behind* it in the queue. This is
  why eviction takes a chain from its tail: a table is freed in reverse, and a table's blocks, being held
  together, keep their prefixes alive. `CachedPrefixesAreClosed` alone is not inductive.

For the refinement, each action's effect on holders and hashes is brought into the form of `BlockStore`'s actions: a block that gains
a holder keeps its hash or was nobody's (`AllocationRules`, `GivingRules`, `EvictionRules`).

`ReuseSchedulerProofs`, for every set of requests, blocks, hashes
and windows, every block size, budget, number of overlapping steps and combination
of the switches (`Async`, `Defer`, `ReserveFullISL`, `Execute`), from the two named
assumptions of `ReuseScheduler` (finite sets, disjoint identities, types of the
parameters):

| Theorem | Property |
|---|---|
| `TypesInvariant` | types of the bookkeeping variables and of rows |
| `QueuesMatchStatusInvariant` | `QueuesMatchStatus` |
| `OnlyRunningHoldBlocksInvariant` | `OnlyRunningHoldBlocks` |
| `RefsCountHoldersInvariant` | `RefsCountHolders` |
| `EveryLeaseIsQueuedInvariant` | `EveryLeaseIsQueued` |

The argument has layers, each inductive relative to those below.

1. `Types`: the part of `TypeOK` the bookkeeping needs. Two things are not obvious:
   the longest prefix hit exists (a least-number argument, `HitLengthType`), and in
   phase `update` there is a row left to process, which names a known request.
2. `Queues`, that is `QueuesMatchStatus` one queue at a time. Finishing a request
   removes *one* occurrence from each queue; that this removes it altogether needs
   the queues to have no duplicates, and that needs every move to start from the
   status that puts the request in just one of them.
3. `Tables`: whoever leaves `running` gives its table up in the same step, so a waiting
   request has none. `OnlyRunningHoldBlocks` follows.
4. `Refs`: `RefsCountHolders` is not inductive alone. An admission *replaces* the table
   of a waiting request and adds one reference per block; the sum is right only if the
   old table was empty (2 and 3). A new block has reference count 0, hence no
   holder; a lease that is filled was empty; a released list takes away exactly
   the holders it removes (`ReleaseRefs`).
5. `Leases`: the two lists that will release leases are disjoint, without duplicates
   and complete. The interesting step is `_drain_deferred_frees`: the entries it
   frees, given by a condition on fences, are exactly the entries it cuts off
   (`InitialSegment`, `SuffixElements`).

The same module, on top of these layers and from the same assumptions, on what `defer_block_free` is for:

| Theorem | Property |
|---|---|
| `InFlightBlocksAreHeldInvariant` | `InFlightBlocksAreHeld` |
| `FencesAreNearMonotonicInvariant` | `FencesAreNearMonotonic` |
| `ResetFailsOnlyForDeferredHolds` | `ResetFailsOnlyForDeferred` |

6. `Scheduled`: the requests of the step that `schedule()` is putting together run and have the blocks its rows name,
   what it copies from is retained, and a step with retentions is not empty. The delicate point is preemption in the
   running loop: the last running request goes, and it has no row yet, because only requests in front of the
   cursor have one (`PreemptKeepsScheduled`).
7. `Fences`: the fences of `deferred_frees` grow and none is past the last launched step. A retention gets
   `schedSeq + 1`, which is the number of a launched step only because the step is not empty (6).
   This is stronger than "near-monotonic": within one `schedule()` the frees of preempted requests
   are queued before the retentions are.
8. `InFlight`: the nonempty steps in flight have increasing numbers in `processedSeq + 1 .. schedSeq`, and every block of step n
   is in the table of a request last scheduled in step n or later, or in a deferred entry with a fence of
   at least n. A free keeps that, as `lastSched > processedSeq` sends the table to `deferred_frees` with fence `schedSeq`; a
   launch makes it true of the new step (6); taking the results of step m drains fences up to `processedSeq + 1 <= m` only.
   With `Refs` a covered block has a reference and is not free.
9. `ResetFailsOnlyForDeferred` follows from 2 to 5 in the state in which `running` is empty.

It ends with what asynchronous scheduling counts, for `Async => MaxConcurrent <= 2`, that is for a scheduler
without pipeline parallelism (or a synchronous one, with any overlap). The condition is needed: section 4 shows the failure with three.

| Theorem | Property |
|---|---|
| `PlaceholdersCountOutputsInvariant` | `PlaceholdersCountOutputs` |

10. `Steps`: a step has one row per request at most and no more rows than `MaxRunning`; no more steps than `MaxConcurrent` are in flight,
    fewer while the next one is put together.
11. `Accounts`: with two steps in flight at most, the outputs owed to a request are those of the rows left of the step
    under way and of a first and a second step. `AccountOf` states placeholders plus discards as their sum and, which makes it inductive, that
    stale outputs come *before* good ones: what is to be discarded is never more than the oldest rows owe. A reset turns all
    placeholders into discards and would overwrite discards still pending; but a running request with such discards was admitted behind the
    stale step, so two steps are in flight, and a reset is served with fewer only (`ResetAccounts`). `OutputsCounted` shows that the sum is the cardinality the property speaks of.

`PrefixProofs`, under the same condition, says what tables and blocks hold:

| Theorem | Property |
|---|---|
| `TypeInvariant` | `TypeOK` |
| `PrefixesAreComputedHolds`, under `[]SourcesAreOlder` | `PrefixesAreComputed` |
| `PrefixesAreComputedWithoutReuse`, for `~ Execute` | `PrefixesAreComputed` |

12. `Lengths`, which needs placeholders never negative (11; `NextNoDebt` for the synchronous scheduler): a request is computed up to its known
    tokens and its placeholders at most, it has room for a token until it is finished, and so have the rows being scheduled.
13. `Contents`: the hash of a block is one of its request's. `cache_blocks` for a token that came back registers blocks up to `computed` less
    the placeholders, which by 12 is within the tokens for which a request has hashes (`TokenContents`); the KV of a slot, the entries of the index and
    the copies of a row are typed from there.
14. `Claims`, from which `PrefixesAreComputed` follows. It cannot speak of the slots as they are: a block is registered when its tokens are
    scheduled, so another request takes it as a prefix hit before its KV exists. A claim says what a slot *will* hold once
    the first k steps have run, the step being scheduled included (`Ends`): either one of these steps puts the value there and no later one puts
    anything else, or the slot has it and none of them changes it. Each row claims its request's tokens up to the last it
    computes, and what it copies from when the steps before it have run; tables, hashes and blocks that may be skipped
    claim theirs when everything has run (`StepsHold`, `TablesHold`, `HashesHold`, `ReuseHolds`).
    Running the oldest step turns a claim on k steps into one on k - 1, and a claim on one step into the contents of a slot, which is the property (`PrefixStep`).
    A new row belongs to the last step, so it disturbs only claims on what holds when everything has run: a block it takes was
    nobody's and loses its hash, whatever steps in flight still write into it, and a block it shares is there for the same tokens
    (`Owned`, `Filled`). A finished or preempted request drops its claims with its table (`AdmitClaims`, `TokenClaims`, `FreeClaims`).

`SourcesAreOlder` says that no step copies from a block that a row of the same step computes or copies into. Copies are made
before the forward pass, so such a copy takes what the block held before. `schedule()` does not ensure it:
`ReuseScheduler_stale_source` is a behaviour in which it fails and takes the property with it, so a theorem without it would
be false. TLC finds it true of every state, among them states with copies, in the configuration of `ReuseScheduler_deferred` with
`Defer` off, `ReserveFullISL` on and nobody aborting or stopping early. As that configuration stands, it fails in steps in which
the block happens to hold the same KV already, and the property stays true. With execution
switched off nothing is copied and the supposition falls away.

`SourceIndexProofs`, for all requests, prompts, ids and sessions and every
`MaxSources`, from `SourceAssumption` and `HashAssumption` (no prompt is empty; having no hash is no hash):

| Theorem | Property |
|---|---|
| `IndexIsConsistentInvariant` | `IndexIsConsistent` |
| `LatestOfEachSessionInvariant` | `LatestOfEachSession` |
| `CopiesAreRight`, under `LoadedSourcesAreUnique` | `CopiesMatchTheirTargets` |
| `SourceTypes` | `TypeOK` |

`IndexIsConsistent` needs only types beside itself (`IndexInv`). The step that matters is
`index()`: the old entry's session name goes first, then the new one is set, then
the first entry goes with its name; the evicted id is never the one just added,
because the order has no duplicates and at least two elements (`EvictedIsAnother`).
`LatestOfEachSession` is not inductive alone: that a session which loses its name loses it to a
*later* request with its id needs that every entry was left by some request
(`EntriesHaveRequests`), and that moving an id to the end keeps the others in order
(`MoveToEndPlaces`, `MoveKeepsLatest`).

`CopiesMatchTheirTargets` relates a copy under way to a source that ended long ago. `PoolInv` carries it: a block of a table has its
request's own hash for its place or none, an entry of the index is what some finished request left (`IsLeftBy`), and pinned blocks have a hash.
A held or pinned block is not free, so nobody fills it again and it keeps its hash (`AdmissionKeeps`, `PinKeeps`, `LoadKeeps`). A
plan just made maps windows that spell the target (`CandidatesMatch`), and the hashes of the one or two
blocks a window lies in end with the tokens it is spelled from, so the copied tokens are the target's (`CopyIsRight`:
the flattened ends of two hashes are one part of the source's prompt). This holds for any requests. A plan that is *kept*, by a
request whose KV loads asynchronously, names its source by id only: `PlansOK` says that the entry does not change under it, and
this is false when a second request with this id ends meanwhile (finding 3). `LoadedSourcesAreUnique` excludes exactly this, for the
ids such a request may choose; without asynchronous loads it is true of any requests, and the instance of `SourceIndex_sources` satisfies it.
For `TypeOK` the point is that `locate()` yields a source: among finitely many recent ones there is a last with the most windows
in common (`FingerprintFinite`, `GreatestLast`).

`SpanExecutionProofs`, for all requests, prompts, outputs, plans and native hits, every block size and
budget, from `PromptAssumption` (a request has something to compute: its native hit is shorter than its prompt):

| Theorem | Property |
|---|---|
| `NoSlotIsReadUnwritten` | `ContextIsWritten` |
| `NoCopyIsReadUnrepaired` | `RepairsPrecedeUse` |
| `EveryLastRowIsComputed` | `SampledRowsAreComputed` |
| `EveryRowIsAccounted` | `RowsAreComputedOrCopied` |
| `SpanTypes` | `TypeOK` |

`SpanInv` has six parts. `Queues`, `GoodRows` and `Lengths` say that each row continues its request where it stands and that
requests in the queues have tokens left; the scheduler's counting over a whole step is a sum over its rows (`RowContinues`, `CountAppended`).
`Tables`: a repaired block is never copied, a token is not both computed and copied. `Present` is what makes `ContextIsWritten`
inductive: below the tokens a request has computed every slot is written or copied, *and above them* every token that is
still to be reused is a copy already, because copies are made once while the chunks that use them come later.
`Executing`: each row of the step has run, is in a span that waits, or keeps its copy. The steps that matter are
`PrepareInputs`, where the maximal runs of rows are shown to cover the rows to compute (`RunsCover`), and `ExecuteSpan`, where what a span
attends to lies below its chunk, in an earlier span, or is a copy (`ContextIsFilled`). That the worker sorts the batch is a
permutation that keeps requests distinct and the sum of tokens (`OrderPermutes`).

`GDNReuseProofs`, for every number of layers and slots, all prompts, salts and budgets:

| Theorem | Property |
|---|---|
| `SidecarsStayConsistent` | `SidecarsConsistent` |
| `SidecarsImplementCache` | `ImplementsOperatorCache` |
| `ReuseTypes` | `TypeOK` |
| `AppliedFits` | `AppliedOperatorsFit` |
| `AdmittedHappens` | `AdmittedReuseHappens` |
| `LayersStayEqual` | `LayersAgree` |

`SidecarInv` is consistency with the types of the sidecars and of the pending lookups and stores, and is inductive.
The work is in the four operations: a lookup, an overwrite, a fill and an eviction each keep the table and
the tensors in agreement (`LookupKeeps`, `OverwriteKeeps`, `FillKeeps`, `EvictKeeps`). An eviction needs that a sidecar without
free slots has a least recently used key, and exactly `Capacity` of them (`FullSidecar`: the map
from resident keys to slots is a bijection). For the refinement, the operators held by
the slots change with one store by one operator that comes and at most one that
goes (`StoreHolds`), and everything else is a stutter.

`ReuseInv` adds the queues and rows (`QueueInv`), that a plan and what the worker keeps of it name the
target's own context hashes (`PlanInv`), and what the worker still has to touch and to store (`PhaseInv`).
`AppliedOperatorsFit` follows because a lookup is by the hash. `AdmittedReuseHappens` needs
`AdmissionInv`: the operators the preflight saw stay on the layers that have not run, as only a
layer's own stores evict from it.
`LayersAgree` is about sidecars that are at *different* places of the same work, so no relation between two states of a layer is
inductive. `PassInv` therefore says that there is a *trace*, a function from places (what is left to look up and to store) to
sidecars, which every layer's sidecar lies on (`IsTrace`, `Traced`); a step of the farthest layer extends
the trace, any other one moves along it. At the end of the pass all layers are at the same place, hence equal.

`RequestLedgerProofs`, for any number of processes, threads, requests and faults:

| Theorem | Property |
|---|---|
| `LinesStayApart` | `LinesDoNotInterleave` |
| `AcknowledgedEventsStay` | `AcknowledgedEventsAreDurable` |
| `OnlyTornRejected` | `OnlyTornLedgersAreRejected` |
| `AuditIsExhaustive` | `AuditMissesNothing` |
| `LedgerTypes` | `TypeOK` |

`LedgerInv` says that the file lock is exclusive, that the file of a writer between its two writes ends with
the first fragment of its event, and that what is synced or acknowledged is on the disk. Death and errors
only release (`ReleasedKeeps`), and a file that grows or loses what is not synced keeps what is (`OnDiskStays`, `GrowthKeeps`).
For the audit, `AuditInv` adds that an event is written by one call at most (`WrittenOnce`), that an end on the disk or under way
has its start acknowledged (`EndsFollowStarts`), which orders two lines across kills, and that each lock has a live owner (`Locks`).

`QueueLemmas` states what appending, prepending, concatenating, removing, moving and filtering do to
the elements of a sequence and to their order, what a permutation keeps, that a fold that counts is a running sum, and that a nonempty set of naturals has a least element
(from the well-foundedness of finite sets, because the library's induction
theorems take an operator as a parameter).

**Model-checked only.** Every safety property of a passing run is a theorem, some under the conditions named with them.
Liveness (`EveryRequestFinishes`, `DeferredFreesDrain`, `CallsReturn`) is out of the prover's reach, and so is
what a recursive definition computes for every input.

## 6. Not modelled

Sliding-window, Mamba and hybrid cache groups; speculative decoding, encoder
inputs, LoRA (but for the adapter in a hash), structured output, streaming input, priority scheduling; KV transfer
by connectors (only that one may exist, which switches deferral on, that it may evict
blocks, and in `SourceIndex` that it may load a request's KV asynchronously); engine start-up,
shutdown and data-parallel coordination. Numerical parts: features, the selector, kernels, operator arithmetic.
The planner of `src/cacheselect/` keeps no state and its result is only logged. Benchmarks and dataset scripts keep no
state either.

The repository is a copy of all of vLLM: some 780,000 lines, of which CacheSelect and the scheduling core it changes are
about one in a hundred. Models, kernels, entrypoints, tokenizers and distributed executors are not specific to this program,
keep no state a model checker could say something about, or are stated numerically; they are left out, so the modelled
share of all lines is small and will stay so.

## 7. Plan

Done: all modules above, their runs and the proofs of section 5. Left, in order of worth:

1. A composition of `SourceIndex` with `SpanExecution`, in which plans come from the index rather than from
   any subset of candidates.
2. The linked list of `kv_cache_utils.py`, shown to implement a sequence.
3. `ReuseScheduler` as a second implementation of `BlockStore`.
