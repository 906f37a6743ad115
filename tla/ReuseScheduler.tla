--------------------------- MODULE ReuseScheduler ---------------------------
(***************************************************************************)
(* The scheduler of the CacheSelect engine (vllm/v1/core/sched) together   *)
(* with the KV-cache manager it allocates from, the CacheSelect source     *)
(* index and retentions, and the worker that runs the scheduled steps.     *)
(*                                                                         *)
(* One thread runs the engine: schedule() admits and preempts requests     *)
(* and launches a step, update_from_output() takes the results of the      *)
(* oldest launched step.  With MaxConcurrent > 1 steps overlap: a step is  *)
(* scheduled while earlier ones are still being executed.  The actions cut *)
(* both calls into the iterations of their loops (phase says which); only  *)
(* in phase "idle" can a client add or abort a request or reset the cache. *)
(* Steps execute in the order they are launched, as the GPU stream does;   *)
(* the execution of a step is part of taking its results.                  *)
(*                                                                         *)
(* The free blocks are a set here, not the queue of module KVCacheManager: *)
(* an allocation takes any of them, uncached ones first.                   *)
(***************************************************************************)
EXTENDS Integers, Sequences, FiniteSets, SequencesExt

CONSTANTS
  Request, Block, Hash, NoHash, NoSource,
  Lease,          \* identities of the block lists in deferred_frees
  BlockSize,      \* tokens per block
  PromptTokens,   \* [Request -> Nat]
  MaxTokens,      \* [Request -> Nat]: prompt plus max_tokens
  Hashes,         \* [Request -> Seq(Hash)]: chained hash of each full block
  SourceOf,       \* [Request -> Request or NoSource]: cacheselect_source_request_id
  Windows,        \* [Request -> set of windows]: prompt blocks whose tokens are
                  \* also found in the source's prompt
  Budget,         \* max_num_scheduled_tokens
  MaxRunning,     \* max_num_running_reqs
  MaxConcurrent,  \* max_concurrent_batches
  Watermark,      \* watermark_blocks
  Async,          \* AsyncScheduler rather than Scheduler
  Defer,          \* defer_block_free: overlapping steps and a KV consumer
  ReserveFullISL, \* scheduler_reserve_full_isl
  Execute,        \* cacheselect_execute_partial_reuse
  CanAbort,       \* bound: requests a client may abort
  StopsEarly,     \* bound: requests that may stop before max_tokens
  MaxResets       \* bound: reset_prefix_cache calls

(* A window names a target block and the one (aligned) or two (repacked)   *)
(* source blocks that hold the same tokens.                                *)
Window == [target : Nat \ {0}, sources : SUBSET (Nat \ {0})]

ASSUME RequestAssumption ==
  /\ IsFiniteSet(Request) /\ IsFiniteSet(Block) /\ IsFiniteSet(Lease)
  /\ Request \cap Lease = {}
  /\ NoHash \notin Hash /\ NoSource \notin Request
  /\ PromptTokens \in [Request -> Nat \ {0}]
  /\ MaxTokens \in [Request -> Nat]
  /\ \A r \in Request : PromptTokens[r] < MaxTokens[r]
  /\ Hashes \in [Request -> Seq(Hash)]
  /\ \A r \in Request : Len(Hashes[r]) = MaxTokens[r] \div BlockSize
  /\ SourceOf \in [Request -> Request \cup {NoSource}]
  /\ Windows \in [Request -> SUBSET Window]

ASSUME ConfigAssumption ==
  /\ BlockSize \in Nat \ {0} /\ Budget \in Nat \ {0}
  /\ MaxRunning \in Nat \ {0} /\ MaxConcurrent \in Nat \ {0}
  /\ Watermark \in Nat /\ MaxResets \in Nat
  /\ Async \in BOOLEAN /\ Defer \in BOOLEAN
  /\ ReserveFullISL \in BOOLEAN /\ Execute \in BOOLEAN
  /\ Async \/ Defer => MaxConcurrent > 1

VARIABLES
  status,       \* [Request -> the request's life cycle]
  tokens,       \* num_tokens: prompt and output tokens known
  computed,     \* num_computed_tokens
  placeholders, \* num_output_placeholders
  discard,      \* async_tokens_to_discard
  lastSched,    \* last_sched_seq
  running, waiting,
  table,        \* req_to_blocks
  reused,       \* target blocks the worker may skip, by request
  ref, hash,    \* KVCacheBlock.ref_cnt and .block_hash
  sources,      \* the locator's index: set of indexed blocks by request
  lease,        \* blocks of a retention or of a deferred free, by identity
  fence,        \* and the step sequence number it waits for
  retained,     \* retentions taken by the schedule() in progress
  deferred,     \* deferred_frees, first to drain first
  schedSeq, processedSeq,
  inflight,     \* launched steps, oldest first; a step is a sequence of rows
  phase, cursor, budget, preempting, batch, todo,
  kv,           \* worker: the hash whose KV each slot of a block holds
  resets

request == <<status, tokens, computed, placeholders, discard, lastSched>>
queues  == <<running, waiting>>
pool    == <<ref, hash>>
leases  == <<lease, fence, retained, deferred>>
seqs    == <<schedSeq, processedSeq>>
call    == <<phase, cursor, budget, preempting, batch, todo>>
worker  == <<inflight, kv>>
vars == <<request, queues, table, reused, pool, sources, leases, seqs, call,
          worker, resets>>

-----------------------------------------------------------------------------
CeilDiv(a, b) == (a + b - 1) \div b
Smaller(a, b) == IF a <= b THEN a ELSE b

Slot == 1 .. BlockSize
BlockOf(p) == CeilDiv(p, BlockSize)         \* the block index of the p-th token
SlotOf(p)  == ((p - 1) % BlockSize) + 1
HashAt(r, p) ==
  IF BlockOf(p) <= Len(Hashes[r]) THEN Hashes[r][BlockOf(p)] ELSE NoHash

Indexed == [index : Nat, block : Block, hash : Hash]
Copy    == [target : Nat \ {0}, from : SUBSET Indexed]
Row     == [req : Request, from : Nat, to : Nat, blocks : Seq(Block),
            copies : SUBSET Copy, reuse : SUBSET Nat, samples : BOOLEAN]
Phases  == {"idle", "running", "waiting", "launch", "update", "reset"}

TypeOK ==
  /\ status \in [Request -> {"none", "waiting", "preempted", "running", "finished"}]
  /\ tokens \in [Request -> Nat \ {0}] /\ computed \in [Request -> Nat]
  /\ placeholders \in [Request -> Int] /\ discard \in [Request -> Int]
  /\ lastSched \in [Request -> Nat]
  /\ running \in Seq(Request) /\ waiting \in Seq(Request)
  /\ table \in [Request -> Seq(Block)]
  /\ reused \in [Request -> SUBSET Nat]
  /\ ref \in [Block -> Nat] /\ hash \in [Block -> Hash \cup {NoHash}]
  /\ sources \in [Request -> SUBSET Indexed]
  /\ lease \in [Lease -> SUBSET Block] /\ fence \in [Lease -> Nat]
  /\ retained \in Seq(Lease) /\ deferred \in Seq(Lease)
  /\ schedSeq \in Nat /\ processedSeq \in Nat
  /\ inflight \in Seq(Seq(Row)) /\ batch \in Seq(Row) /\ todo \in Seq(Row)
  /\ phase \in Phases /\ cursor \in Nat \ {0} /\ budget \in Nat
  /\ preempting \in BOOLEAN
  /\ kv \in [Block -> [Slot -> Hash \cup {NoHash}]]
  /\ resets \in Nat

Init ==
  /\ status = [r \in Request |-> "none"]
  /\ tokens = [r \in Request |-> PromptTokens[r]]
  /\ computed = [r \in Request |-> 0]
  /\ placeholders = [r \in Request |-> 0]
  /\ discard = [r \in Request |-> 0]
  /\ lastSched = [r \in Request |-> 0]
  /\ running = << >> /\ waiting = << >>
  /\ table = [r \in Request |-> << >>]
  /\ reused = [r \in Request |-> {}]
  /\ ref = [b \in Block |-> 0] /\ hash = [b \in Block |-> NoHash]
  /\ sources = [r \in Request |-> {}]
  /\ lease = [l \in Lease |-> {}] /\ fence = [l \in Lease |-> 0]
  /\ retained = << >> /\ deferred = << >>
  /\ schedSeq = 0 /\ processedSeq = 0
  /\ inflight = << >> /\ batch = << >> /\ todo = << >>
  /\ phase = "idle" /\ cursor = 1 /\ budget = 0 /\ preempting = FALSE
  /\ kv = [b \in Block |-> [o \in Slot |-> NoHash]]
  /\ resets = 0

-----------------------------------------------------------------------------
(* Holders of blocks: request tables and leases.                           *)
Holder == Request \cup Lease
HeldBy(c) == IF c \in Request THEN ToSet(table[c]) ELSE lease[c]
Holders(b) == {c \in Holder : b \in HeldBy(c)}

FreeBlocks == {b \in Block : ref[b] = 0}

(* The next identity for a block list; the bound Lease is large enough.    *)
IdleLeases == {l \in Lease : lease[l] = {}}
NextLease  == CHOOSE l \in IdleLeases : TRUE

(***************************************************************************)
(* get_new_blocks: n blocks out of those free, a hash is lost only when    *)
(* there is no uncached block left (see UncachedBlocksGoFirst of           *)
(* KVCacheManager).                                                        *)
(***************************************************************************)
NewBlocks(free, n) ==
  {new \in [1 .. n -> free] :
     /\ IsInjective(new)
     /\ (\E i \in 1 .. n : hash[new[i]] # NoHash) =>
          \A b \in free : hash[b] = NoHash => b \in ToSet(new)}

(* New blocks lose their hash, then the full blocks of the table are       *)
(* registered (cache_blocks).                                              *)
HashAfter(r, blocks, new, full) ==
  [b \in Block |->
     IF \E i \in 1 .. full : blocks[i] = b
     THEN Hashes[r][CHOOSE i \in 1 .. full : blocks[i] = b]
     ELSE IF b \in ToSet(new) THEN NoHash ELSE hash[b]]

(* Faulty: a step too early. *)
FaultyNoWriteInFlight(r) == ~ Defer \/ lastSched[r] <= processedSeq + 1

(***************************************************************************)
(* _free_request_blocks: at once, or when an in-flight step may still      *)
(* write them, as an entry of deferred_frees behind the last launched step.*)
(***************************************************************************)
NoWriteInFlight(r) == ~ Defer \/ lastSched[r] <= processedSeq

(* Faulty: the table survives its free. *)
FaultyFreeRequestBlocks(r) ==
  /\ ref' = [b \in Block |-> IF b \in ToSet(table[r]) THEN ref[b] - 1 ELSE ref[b]]
  /\ UNCHANGED <<table, reused, lease, fence, deferred>>

FreeRequestBlocks(r) ==
  /\ table' = [table EXCEPT ![r] = << >>]
  /\ reused' = [reused EXCEPT ![r] = {}]
  /\ \/ /\ NoWriteInFlight(r)
        /\ ref' = [b \in Block |-> IF b \in ToSet(table[r]) THEN ref[b] - 1 ELSE ref[b]]
        /\ UNCHANGED <<lease, fence, deferred>>
     \/ /\ ~ NoWriteInFlight(r) /\ table[r] = << >>
        /\ UNCHANGED <<ref, lease, fence, deferred>>
     \/ /\ ~ NoWriteInFlight(r) /\ table[r] # << >>
        /\ IdleLeases # {}
        /\ lease' = [lease EXCEPT ![NextLease] = ToSet(table[r])]
        /\ fence' = [fence EXCEPT ![NextLease] = schedSeq]
        /\ deferred' = Append(deferred, NextLease)
        /\ UNCHANGED ref


(* free_blocks over the lists of several leases.                           *)
ReleaseLeases(released) ==
  /\ ref' = [b \in Block |-> ref[b] - Cardinality({l \in released : b \in lease[l]})]
  /\ lease' = [l \in Lease |-> IF l \in released THEN {} ELSE lease[l]]

(***************************************************************************)
(* AlignedBlockReuseLocator.index, called when a request has finished and  *)
(* before its blocks are freed: the full prompt blocks that have a hash.   *)
(***************************************************************************)
IndexSource(r, hashNow) ==
  sources' = [sources EXCEPT ![r] =
    {e \in [index : 1 .. Len(table[r]), block : ToSet(table[r]),
            hash : {hashNow[b] : b \in ToSet(table[r])} \ {NoHash}] :
       /\ e.index <= PromptTokens[r] \div BlockSize
       /\ e.block = table[r][e.index]
       /\ e.hash = hashNow[e.block]}]

(* Faulty: preempted without giving its blocks up. *)
FaultyPreemptHolding ==
  LET r == Last(running)
  IN  /\ running' = Front(running)
      /\ waiting' = <<r>> \o waiting
      /\ status' = [status EXCEPT ![r] = "preempted"]
      /\ computed' = [computed EXCEPT ![r] = 0]
      /\ UNCHANGED <<table, reused, ref, lease, fence, deferred>>

(* Faulty: never put back into the waiting queue. *)
FaultyPreemptForgotten ==
  LET r == Last(running)
  IN  /\ running' = Front(running)
      /\ status' = [status EXCEPT ![r] = "preempted"]
      /\ computed' = [computed EXCEPT ![r] = 0]
      /\ FreeRequestBlocks(r)
      /\ UNCHANGED waiting

(***************************************************************************)
(* _preempt_request, for the last request of running.                      *)
(***************************************************************************)
PreemptLast ==
  LET r == Last(running)
  IN  /\ running' = Front(running)
      /\ waiting' = <<r>> \o waiting
      /\ status' = [status EXCEPT ![r] = "preempted"]
      /\ computed' = [computed EXCEPT ![r] = 0]
      /\ FreeRequestBlocks(r)

-----------------------------------------------------------------------------
(* Clients, served between two steps of the engine.                        *)

BetweenSteps == phase = "idle" /\ Len(inflight) < MaxConcurrent

AddRequest(r) ==
  /\ BetweenSteps
  /\ status[r] = "none"
  /\ status' = [status EXCEPT ![r] = "waiting"]
  /\ waiting' = Append(waiting, r)
  /\ UNCHANGED <<tokens, computed, placeholders, discard, lastSched, running, table,
                 reused, pool, sources, leases, seqs, call, worker, resets>>

(* finish_requests; also served while a step executes (_process_aborts_queue). *)
Abort(r) ==
  /\ phase = "idle"
  /\ r \in CanAbort
  /\ status[r] \in {"waiting", "preempted", "running"}
  /\ status' = [status EXCEPT ![r] = "finished"]
  /\ running' = RemoveFirst(running, r)
  /\ waiting' = RemoveFirst(waiting, r)
  /\ IndexSource(r, hash)
  /\ FreeRequestBlocks(r)
  /\ UNCHANGED <<tokens, computed, placeholders, discard, lastSched, hash, retained,
                 seqs, call, worker, resets>>

(* reset_prefix_cache without reset_running_requests is refused while any  *)
(* block is in use.                                                        *)
ClearCache ==
  /\ hash' = [b \in Block |-> NoHash]
  /\ sources' = [r \in Request |-> {}]

ResetPrefixCache ==
  /\ BetweenSteps
  /\ resets < MaxResets /\ resets' = resets + 1
  /\ FreeBlocks = Block
  /\ ClearCache
  /\ UNCHANGED <<request, queues, table, reused, ref, leases, seqs, call, worker>>

(* With reset_running_requests every running request is preempted, last    *)
(* first, its late outputs are to be discarded, and the reset must succeed.*)
ForceReset ==
  /\ BetweenSteps
  /\ resets < MaxResets /\ resets' = resets + 1
  /\ phase' = "reset"
  /\ UNCHANGED <<request, queues, table, reused, pool, sources, leases, seqs, cursor,
                 budget, preempting, batch, todo, worker>>

(* Faulty: the placeholders of a reset request are kept. *)
FaultyResetPreempt ==
  /\ phase = "reset" /\ running # << >>
  /\ PreemptLast
  /\ discard' = [discard EXCEPT ![Last(running)] = placeholders[Last(running)]]
  /\ UNCHANGED <<tokens, placeholders, lastSched, hash, sources, retained, seqs, call,
                 worker, resets>>

ResetPreempt ==
  /\ phase = "reset" /\ running # << >>
  /\ PreemptLast
  /\ discard' = [discard EXCEPT ![Last(running)] = placeholders[Last(running)]]
  /\ placeholders' = [placeholders EXCEPT ![Last(running)] = 0]
  /\ UNCHANGED <<tokens, lastSched, hash, sources, retained, seqs, call, worker, resets>>

(* When blocks are still in use the call ends with a RuntimeError.         *)
ResetEnd ==
  /\ phase = "reset" /\ running = << >>
  /\ phase' = "idle"
  /\ IF FreeBlocks = Block THEN ClearCache ELSE UNCHANGED <<hash, sources>>
  /\ UNCHANGED <<request, queues, table, reused, ref, leases, seqs, cursor, budget,
                 preempting, batch, todo, worker, resets>>

-----------------------------------------------------------------------------
(* schedule()                                                              *)

HasRequests == waiting # << >> \/ running # << >>

BeginSchedule ==
  /\ BetweenSteps /\ HasRequests
  /\ phase' = "running" /\ cursor' = 1 /\ budget' = Budget
  /\ preempting' = FALSE /\ batch' = << >>
  /\ UNCHANGED <<request, queues, table, reused, pool, sources, leases, seqs, todo,
                 worker, resets>>

NewRow(r, from, to, blocks, copies) ==
  [req |-> r, from |-> from, to |-> to, blocks |-> blocks, copies |-> copies,
   reuse |-> {}, samples |-> FALSE]

(***************************************************************************)
(* One iteration of the loop over the running requests: skip a request     *)
(* that has nothing to compute, or give it slots, or preempt the last one  *)
(* to make room.                                                           *)
(***************************************************************************)
Candidate == running[cursor]

LastStepIsInFlight(r) ==
  /\ placeholders[r] > 0
  /\ computed[r] + 2 - placeholders[r] >= MaxTokens[r]

Missing(r) == tokens[r] + placeholders[r] - computed[r]

InRunningLoop ==
  phase = "running" /\ cursor <= Len(running) /\ budget > 0

SkipRunning ==
  /\ InRunningLoop
  /\ LastStepIsInFlight(Candidate) \/ Missing(Candidate) <= 0
  /\ cursor' = cursor + 1
  /\ UNCHANGED <<request, queues, table, reused, pool, sources, leases, seqs, phase,
                 budget, preempting, batch, todo, worker, resets>>

(* NewTokens and NeededBlocks: allocate_slots' request to the pool.        *)
NewTokens(r)    == Smaller(Missing(r), budget)
NeededBlocks(r) == CeilDiv(computed[r] + NewTokens(r), BlockSize) - Len(table[r])

WantsSlots(r) == ~ LastStepIsInFlight(r) /\ Missing(r) > 0

ScheduleRunning ==
  /\ InRunningLoop /\ WantsSlots(Candidate)
  /\ NeededBlocks(Candidate) <= Cardinality(FreeBlocks)
  /\ LET r    == Candidate
         to   == computed[r] + NewTokens(r)
         full == Smaller(to, tokens[r]) \div BlockSize
     IN  \E new \in NewBlocks(FreeBlocks, NeededBlocks(r)) :
           LET blocks == table[r] \o new
           IN  /\ table' = [table EXCEPT ![r] = blocks]
               /\ hash' = HashAfter(r, blocks, new, full)
               /\ ref' = [b \in Block |-> IF b \in ToSet(new) THEN 1 ELSE ref[b]]
               /\ batch' = Append(batch, NewRow(r, computed[r], to, blocks, {}))
  /\ budget' = budget - NewTokens(Candidate)
  /\ cursor' = cursor + 1
  /\ UNCHANGED <<request, queues, reused, sources, leases, seqs, phase, preempting,
                 todo, worker, resets>>

PreemptForSlots ==
  /\ InRunningLoop /\ WantsSlots(Candidate)
  /\ NeededBlocks(Candidate) > Cardinality(FreeBlocks)
  /\ PreemptLast
  /\ preempting' = TRUE
  /\ phase' = IF Last(running) = Candidate THEN "launch" ELSE "running"
  /\ UNCHANGED <<tokens, placeholders, discard, lastSched, hash, sources, retained,
                 seqs, cursor, budget, batch, todo, worker, resets>>

(* Nothing is admitted in a step that preempted a request.                 *)
EndRunning ==
  /\ phase = "running" /\ (cursor > Len(running) \/ budget = 0)
  /\ phase' = IF preempting THEN "launch" ELSE "waiting"
  /\ UNCHANGED <<request, queues, table, reused, pool, sources, leases, seqs, cursor,
                 budget, preempting, batch, todo, worker, resets>>

(***************************************************************************)
(* One iteration of the loop over the waiting requests.  The native hit    *)
(* is the longest cached prefix of at most num_tokens - 1 tokens; the plan *)
(* has a candidate for every later prompt block with a window in the       *)
(* source, and keeps those whose source blocks are indexed and resident.   *)
(***************************************************************************)
Cached(h) == \E b \in Block : hash[b] = h

HitLength(r) ==
  LET most == (tokens[r] - 1) \div BlockSize
  IN  CHOOSE k \in 0 .. most :
        /\ \A i \in 1 .. k : Cached(Hashes[r][i])
        /\ k < most => ~ Cached(Hashes[r][k + 1])

(* get_computed_blocks; which of two blocks with one hash is left open.    *)
ComputedBlocks(r) ==
  {hits \in [1 .. HitLength(r) -> Block] :
     \A i \in DOMAIN hits : hash[hits[i]] = Hashes[r][i]}

(* Faulty: the index is trusted. *)
FaultyResident(e) == TRUE

Resident(e) == hash[e.block] = e.hash

Plan(r) ==
  LET source(w) == {e \in sources[SourceOf[r]] : e.index \in w.sources}
      later     == {w \in Windows[r] : /\ w.target > HitLength(r)
                                       /\ w.target <= PromptTokens[r] \div BlockSize}
  IN  IF SourceOf[r] = NoSource THEN {}
      ELSE {[target |-> w.target, from |-> source(w)] :
              w \in {v \in later : /\ \A i \in v.sources : \E e \in source(v) : e.index = i
                                   /\ \A e \in source(v) : Resident(e)}}

(* retain_resident_sources touches each distinct source block once.        *)
Pins(r) == {e.block : e \in UNION {c.from : c \in Plan(r)}}

(* allocate_slots after the pins were taken: known tokens must fit as a    *)
(* whole (ReserveFullISL), the first chunk must fit in any case.           *)
ChunkEnd(r) ==
  HitLength(r) * BlockSize + Smaller(tokens[r] - HitLength(r) * BlockSize, budget)

Required(r, hits, free, total) ==
  CeilDiv(total, BlockSize) - Len(hits)
    + Cardinality({i \in DOMAIN hits : hits[i] \in free})
    + (IF running = << >> THEN 0 ELSE Watermark)

Fits(r, hits, free) ==
  /\ ReserveFullISL => Required(r, hits, free, tokens[r]) <= Cardinality(free)
  /\ Required(r, hits, free, ChunkEnd(r)) <= Cardinality(free)

InWaitingLoop ==
  /\ phase = "waiting" /\ waiting # << >> /\ budget > 0
  /\ Len(running) < MaxRunning

(***************************************************************************)
(* The blocks of an admitted request, and what of its plan the worker will *)
(* execute: candidates for blocks allocated now, less those the repair     *)
(* selector has recomputed as a whole.                                     *)
(***************************************************************************)
Admit(r, blocks, new) ==
  \E chosen \in IF Execute THEN SUBSET {c \in Plan(r) : c.target <= Len(blocks)}
               ELSE {{}} :
    /\ table' = [table EXCEPT ![r] = blocks]
    /\ hash' = HashAfter(r, blocks, new, ChunkEnd(r) \div BlockSize)
    /\ ref' = [b \in Block |-> ref[b] + (IF b \in ToSet(blocks) THEN 1 ELSE 0)
                                     + (IF b \in Pins(r) THEN 1 ELSE 0)]
    /\ batch' = Append(batch, NewRow(r, HitLength(r) * BlockSize, ChunkEnd(r), blocks,
                                     chosen))
    /\ reused' = [reused EXCEPT ![r] = {c.target : c \in chosen}]

AdmitWaiting ==
  /\ InWaitingLoop
  /\ LET r    == Head(waiting)
         free == FreeBlocks \ Pins(r)
         from == HitLength(r) * BlockSize
     IN  /\ \E hits \in ComputedBlocks(r) :
              /\ Fits(r, hits, free)
              /\ \E new \in NewBlocks(free \ ToSet(hits),
                                      CeilDiv(ChunkEnd(r), BlockSize) - Len(hits)) :
                   Admit(r, hits \o new, new)
         /\ IF Pins(r) = {} THEN UNCHANGED <<lease, retained>>
            ELSE /\ IdleLeases # {}
                 /\ lease' = [lease EXCEPT ![NextLease] = Pins(r)]
                 /\ retained' = Append(retained, NextLease)
         /\ status' = [status EXCEPT ![r] = "running"]
         /\ computed' = [computed EXCEPT ![r] = from]
         /\ running' = Append(running, r)
         /\ waiting' = Tail(waiting)
         /\ budget' = budget - (ChunkEnd(r) - from)
  /\ UNCHANGED <<tokens, placeholders, discard, lastSched, sources, fence, deferred,
                 seqs, phase, cursor, preempting, todo, worker, resets>>

(* Faulty: the pins of a refused request are not released. *)
FaultyRefuseWaiting ==
  /\ InWaitingLoop
  /\ \E hits \in ComputedBlocks(Head(waiting)) :
       ~ Fits(Head(waiting), hits, FreeBlocks \ Pins(Head(waiting)))
  /\ ref' = [b \in Block |-> IF b \in Pins(Head(waiting)) THEN ref[b] + 1 ELSE ref[b]]
  /\ phase' = "launch"
  /\ UNCHANGED <<request, queues, table, reused, hash, sources, leases, seqs, cursor,
                 budget, preempting, batch, todo, worker, resets>>

(* The blocks do not fit: the pins are released, the loop ends.            *)
RefuseWaiting ==
  /\ InWaitingLoop
  /\ \E hits \in ComputedBlocks(Head(waiting)) :
       ~ Fits(Head(waiting), hits, FreeBlocks \ Pins(Head(waiting)))
  /\ phase' = "launch"
  /\ UNCHANGED <<request, queues, table, reused, pool, sources, leases, seqs, cursor,
                 budget, preempting, batch, todo, worker, resets>>

EndWaiting ==
  /\ phase = "waiting" /\ ~ InWaitingLoop
  /\ phase' = "launch"
  /\ UNCHANGED <<request, queues, table, reused, pool, sources, leases, seqs, cursor,
                 budget, preempting, batch, todo, worker, resets>>

(***************************************************************************)
(* The end of schedule(): give back or defer the retentions, count the     *)
(* step unless it is empty, advance the scheduled requests                 *)
(* (_update_after_schedule) and launch the step.  A request whose known    *)
(* tokens are all computed by the step samples one; the AsyncScheduler     *)
(* counts it as a placeholder at once.                                     *)
(***************************************************************************)
RowsOf(r) == {i \in DOMAIN batch : batch[i].req = r}
Samples(row) == row.to >= tokens[row.req] + placeholders[row.req]

(* The step being scheduled is launched next: its copies are behind it. *)
FaultyRetentionFence == schedSeq + 2
RetentionFence == schedSeq + 1

Launch ==
  /\ phase = "launch"
  /\ IF Defer
     THEN /\ deferred' = deferred \o retained
          /\ fence' = [l \in Lease |-> IF l \in ToSet(retained) THEN RetentionFence ELSE fence[l]]
          /\ UNCHANGED <<ref, lease>>
     ELSE ReleaseLeases(ToSet(retained)) /\ UNCHANGED <<deferred, fence>>
  /\ retained' = << >>
  /\ schedSeq' = IF Defer /\ batch # << >> THEN schedSeq + 1 ELSE schedSeq
  /\ computed' = [r \in Request |->
       IF RowsOf(r) # {} THEN batch[CHOOSE i \in RowsOf(r) : TRUE].to ELSE computed[r]]
  /\ lastSched' = [r \in Request |->
       IF Defer /\ RowsOf(r) # {} THEN schedSeq' ELSE lastSched[r]]
  /\ placeholders' = [r \in Request |->
       IF Async /\ \E i \in RowsOf(r) : Samples(batch[i])
       THEN placeholders[r] + 1 ELSE placeholders[r]]
  /\ inflight' = Append(inflight,
       [i \in DOMAIN batch |-> [batch[i] EXCEPT !.reuse = reused[batch[i].req],
                                                !.samples = Samples(batch[i])]])
  /\ phase' = "idle" /\ batch' = << >> /\ cursor' = 1 /\ budget' = 0
  /\ preempting' = FALSE
  /\ UNCHANGED <<status, tokens, discard, queues, table, reused, hash, sources,
                 processedSeq, todo, kv, resets>>

-----------------------------------------------------------------------------
(* The worker: what the KV slots hold once a step has run.                 *)

(***************************************************************************)
(* Copies come first (_apply_cacheselect_block_copies): a target gets the  *)
(* source's KV, which stands for the target's own if the source holds all  *)
(* of what it was indexed for.                                             *)
(***************************************************************************)
IsWritten(b, h) == \A o \in Slot : kv[b][o] = h

CopiesTo(step, b) ==
  {ic \in (DOMAIN step) \X UNION {step[j].copies : j \in DOMAIN step} :
     ic[2] \in step[ic[1]].copies /\ step[ic[1]].blocks[ic[2].target] = b}

AfterCopies(step) ==
  [b \in Block |->
     IF CopiesTo(step, b) = {} THEN kv[b]
     ELSE LET ic == CHOOSE x \in CopiesTo(step, b) : TRUE
              i  == ic[1]
              c  == ic[2]
          IN  [o \in Slot |->
                 IF \A e \in c.from : IsWritten(e.block, e.hash)
                 THEN HashAt(step[i].req, c.target * BlockSize) ELSE NoHash]]

(***************************************************************************)
(* assess_partial_reuse_batch: only a batch of one request leaves rows     *)
(* uncomputed, and never the row that is sampled from.                     *)
(***************************************************************************)
BatchAllowsReuse(step) == Len(step) = 1

Skips(step, row, p) ==
  BatchAllowsReuse(step) /\ BlockOf(p) \in row.reuse /\ p # row.to

(* The forward pass writes the slots of every row it computes: the pairs   *)
(* of an entry of the step and a position that land in slot o of block b.  *)
Writers(step, b, o) ==
  {w \in (DOMAIN step) \X UNION {1 .. step[j].to : j \in DOMAIN step} :
     LET row == step[w[1]]
         p   == w[2]
     IN  /\ row.from < p /\ p <= row.to
         /\ row.blocks[BlockOf(p)] = b /\ SlotOf(p) = o
         /\ ~ Skips(step, row, p)}

AfterStep(step) ==
  LET copied == AfterCopies(step)
  IN  [b \in Block |-> [o \in Slot |->
         IF Writers(step, b, o) = {} THEN copied[b][o]
         ELSE LET w == CHOOSE x \in Writers(step, b, o) : TRUE
              IN  HashAt(step[w[1]].req, w[2])]]

-----------------------------------------------------------------------------
(* update_from_output()                                                    *)

(* Faulty: a step too late. *)
FaultyDueLate(processed) ==
  {j \in DOMAIN deferred : \A k \in 1 .. j : fence[deferred[k]] < processed}

(* _drain_deferred_frees stops at the first entry that is not due.         *)
DueEntries(processed) ==
  {j \in DOMAIN deferred : \A k \in 1 .. j : fence[deferred[k]] <= processed}

Due(processed) == {deferred[j] : j \in DueEntries(processed)}

(* Faulty: the entry that stops the drain is popped with the others. *)
FaultyNumDue(processed) == Cardinality(DueEntries(processed)) + 1

NumDue(processed) == Cardinality(DueEntries(processed))

(***************************************************************************)
(* Results are awaited when the batch queue is full or nothing is left to  *)
(* schedule (step_with_batch_queue).  Taking them lets the deferred frees  *)
(* of completed steps go.                                                  *)
(***************************************************************************)
TakeResults ==
  /\ phase = "idle" /\ inflight # << >>
  /\ Len(inflight) = MaxConcurrent \/ ~ HasRequests
  /\ LET step      == Head(inflight)
         counts    == Defer /\ step # << >>
         processed == IF counts THEN processedSeq + 1 ELSE processedSeq
     IN  /\ processedSeq' = processed
         /\ IF counts
            THEN /\ ReleaseLeases(Due(processed))
                 /\ deferred' = SubSeq(deferred, NumDue(processed) + 1, Len(deferred))
            ELSE UNCHANGED <<ref, lease, deferred>>
         /\ kv' = AfterStep(step)
         /\ todo' = step
         /\ phase' = IF step = << >> THEN "idle" ELSE "update"
  /\ inflight' = Tail(inflight)
  /\ UNCHANGED <<request, queues, table, reused, hash, sources, fence, retained,
                 schedSeq, cursor, budget, preempting, batch, resets>>

(* Faulty: a request stopped after its preemption stays in waiting. *)
FaultyStop(r, hashNow) ==
  /\ status' = [status EXCEPT ![r] = "finished"]
  /\ running' = RemoveFirst(running, r)
  /\ IndexSource(r, hashNow)
  /\ FreeRequestBlocks(r)
  /\ UNCHANGED waiting

Stop(r, hashNow) ==
  /\ status' = [status EXCEPT ![r] = "finished"]
  /\ running' = RemoveFirst(running, r)
  /\ waiting' = RemoveFirst(waiting, r)
  /\ IndexSource(r, hashNow)
  /\ FreeRequestBlocks(r)

(***************************************************************************)
(* One iteration of the loop over the rows of the step.  A row yields a    *)
(* token if it samples, its request is still there and no forced reset has *)
(* made the output stale; the AsyncScheduler registers the blocks the      *)
(* token completes, unless the request was preempted in the meantime.      *)
(***************************************************************************)
NextRow == Head(todo)

RowDone ==
  /\ todo' = Tail(todo)
  /\ phase' = IF Len(todo) = 1 THEN "idle" ELSE "update"

YieldsToken ==
  /\ NextRow.samples
  /\ status[NextRow.req] \in {"waiting", "preempted", "running"}

IgnoreRow ==
  /\ phase = "update" /\ ~ YieldsToken
  /\ RowDone
  /\ UNCHANGED <<request, queues, table, reused, pool, sources, leases, seqs, cursor,
                 budget, preempting, batch, worker, resets>>

DiscardRow ==
  /\ phase = "update" /\ YieldsToken
  /\ discard[NextRow.req] > 0
  /\ discard' = [discard EXCEPT ![NextRow.req] = @ - 1]
  /\ RowDone
  /\ UNCHANGED <<status, tokens, computed, placeholders, lastSched, queues, table, reused,
                 pool, sources, leases, seqs, cursor, budget, preempting, batch, worker,
                 resets>>

AppendToken ==
  /\ phase = "update" /\ YieldsToken
  /\ discard[NextRow.req] = 0
  /\ LET r    == NextRow.req
         full == (computed[r] - placeholders'[r]) \div BlockSize
     IN  /\ tokens' = [tokens EXCEPT ![r] = @ + 1]
         /\ placeholders' = [placeholders EXCEPT ![r] = IF Async THEN @ - 1 ELSE @]
         /\ hash' = IF Async /\ status[r] = "running"
                    THEN HashAfter(r, table[r], << >>, full) ELSE hash
         /\ \/ /\ tokens[r] + 1 < MaxTokens[r]
               /\ UNCHANGED <<status, queues, sources, table, reused, ref, lease, fence,
                              deferred>>
            \/ /\ tokens[r] + 1 = MaxTokens[r] \/ r \in StopsEarly
               /\ Stop(r, hash')
  /\ RowDone
  /\ UNCHANGED <<computed, discard, lastSched, retained, seqs, cursor, budget, preempting,
                 batch, worker, resets>>

-----------------------------------------------------------------------------
Client ==
  \/ \E r \in Request : AddRequest(r) \/ Abort(r)
  \/ ResetPrefixCache
  \/ ForceReset

(* With nothing to do the engine blocks on its input queue. *)
Idle ==
  /\ phase = "idle" /\ ~ HasRequests /\ inflight = << >>
  /\ UNCHANGED vars

Engine ==
  \/ ResetPreempt \/ ResetEnd
  \/ BeginSchedule
  \/ SkipRunning \/ ScheduleRunning \/ PreemptForSlots \/ EndRunning
  \/ AdmitWaiting \/ RefuseWaiting \/ EndWaiting
  \/ Launch
  \/ TakeResults \/ IgnoreRow \/ DiscardRow \/ AppendToken

Next == Client \/ Engine \/ Idle

Spec == Init /\ [][Next]_vars

(* The engine thread loops for as long as it has something to do.          *)
FairSpec == Spec /\ WF_vars(Engine)
-----------------------------------------------------------------------------
Live == {"waiting", "preempted", "running"}

(* Reference counts balance: a block's ref_cnt is the number of tables,    *)
(* retentions of the step being scheduled and deferred frees it is in,     *)
(* through failed admissions, preemptions, aborts and late outputs.        *)
RefsCountHolders == \A b \in Block : ref[b] = Cardinality(Holders(b))

(* No lost and no double release: every outstanding retention or deferred  *)
(* free is in exactly one of the two lists that will release it, once.     *)
EveryLeaseIsQueued ==
  /\ IsInjective(retained \o deferred)
  /\ ToSet(retained \o deferred) = {l \in Lease : lease[l] # {}}

(* Only running requests hold blocks: a refused admission leaves nothing   *)
(* behind, preemption and finish give everything up.                       *)
OnlyRunningHoldBlocks ==
  /\ \A r \in Request : table[r] # << >> => status[r] = "running"
  /\ phase = "idle" => retained = << >>

(* A request is in exactly the queue its status calls for, once, also when *)
(* its output arrives after it was preempted or aborted.                   *)
QueuesMatchStatus ==
  /\ IsInjective(running \o waiting) /\ Len(running) <= MaxRunning
  /\ ToSet(running) = {r \in Request : status[r] = "running"}
  /\ ToSet(waiting) = {r \in Request : status[r] \in {"waiting", "preempted"}}

(* What defer_block_free is for: no block that a launched step reads,      *)
(* writes or copies from is in the pool while the step is in flight, where *)
(* the KV connector could take it and fill it out of order.                *)
StepBlocks(step) ==
  UNION {{step[i].blocks[j] : j \in 1 .. BlockOf(step[i].to)}
          \cup {e.block : e \in UNION {c.from : c \in step[i].copies}} :
         i \in DOMAIN step}

InFlightBlocksAreHeld ==
  Defer => \A k \in DOMAIN inflight : StepBlocks(inflight[k]) \cap FreeBlocks = {}

(* _drain_deferred_frees relies on "near-monotonic" fences: an entry that  *)
(* is due waits behind at most one later step, and once schedule() is over *)
(* no entry waits for a step that was not launched.                        *)
FencesAreNearMonotonic ==
  /\ \A i, j \in DOMAIN deferred :
       i < j => fence[deferred[i]] <= fence[deferred[j]] + 1
  /\ phase = "idle" => \A i \in DOMAIN deferred : fence[deferred[i]] <= schedSeq

(* num_output_placeholders and async_tokens_to_discard account for every   *)
(* output still to come, so the assertion that placeholders stay           *)
(* non-negative holds and no stale token is kept after a forced reset.     *)
OutputsToCome(r) ==
  LET Promises(row) == row.req = r /\ row.samples
  IN  Cardinality({i \in DOMAIN todo : Promises(todo[i])})
        + Cardinality({o \in (DOMAIN inflight) \X (1 .. MaxRunning) :
            /\ o[2] \in DOMAIN inflight[o[1]]
            /\ Promises(inflight[o[1]][o[2]])})

PlaceholdersCountOutputs ==
  Async => \A r \in Request :
    /\ placeholders[r] >= 0
    /\ status[r] \in Live /\ phase # "reset" =>
         placeholders[r] + discard[r] = OutputsToCome(r)

(* Whatever was reused, preempted, evicted or copied in between, when a    *)
(* step has run the blocks of each of its requests hold the KV of that     *)
(* request's own tokens, up to the last one computed: prefix hits on       *)
(* blocks registered before they were computed, late writes of preempted   *)
(* requests and CacheSelect copies included.                               *)
HoldsPrefix(row, slots) ==
  \A p \in 1 .. row.to :
    slots[row.blocks[BlockOf(p)]][SlotOf(p)] = HashAt(row.req, p)

PrefixesAreComputed ==
  [][inflight # << >> /\ inflight' = Tail(inflight) =>
       \A i \in DOMAIN Head(inflight) : HoldsPrefix(Head(inflight)[i], kv')]_vars

(* reset_prefix_cache(reset_running_requests=True): by preempting all the  *)
(* running requests "we can make sure the reset is successful".  That is so *)
(* but for the blocks whose free waits for a launched step: every other    *)
(* block is back in the pool, so with nothing deferred the cache is reset. *)
ResetFailsOnlyForDeferred ==
  [][phase = "reset" /\ phase' = "idle" =>
       FreeBlocks = Block \ UNION {lease[l] : l \in ToSet(deferred)}]_vars

(* Every request a client adds is eventually served.                       *)
EveryRequestFinishes ==
  \A r \in Request : status[r] = "waiting" ~> status[r] = "finished"

(* Blocks handed to deferred_frees come back to the pool.                  *)
DeferredFreesDrain == deferred # << >> ~> deferred = << >>
=============================================================================
