--------------------------- MODULE KVCacheManager ---------------------------
(***************************************************************************)
(* The KV-cache manager of one full-attention group: requests allocate     *)
(* block tables from the pool, reuse cached prefixes, register full blocks *)
(* under their chained hashes and give everything back; CacheSelect takes  *)
(* leases on resident source blocks (retain_resident_sources) and releases *)
(* them (release_sources).  Every action is one call on the manager, made  *)
(* by the single scheduler thread.                                         *)
(*                                                                         *)
(* Sources: core/kv_cache_manager.py, core/single_type_kv_cache_manager.py *)
(* and core/partial_reuse.py (under src/vllm/vllm/v1).                     *)
(***************************************************************************)
EXTENDS BlockPool

CONSTANTS
  Request,
  Lease,           \* identities of outstanding source leases
  BlockSize,       \* tokens per block
  PromptTokens,    \* [Request -> Nat]: length of the prompt
  MaxTokens,       \* [Request -> Nat]: prompt plus the most it may generate
  Hashes,          \* [Request -> Seq(Hash)]: hash of each full block
  MaxLeaseBlocks   \* bound: blocks one lease pins

ASSUME ManagerAssumption ==
  /\ BlockSize \in Nat \ {0}
  /\ MaxLeaseBlocks \in Nat
  /\ IsFiniteSet(Request) /\ IsFiniteSet(Lease) /\ Request \cap Lease = {}
  /\ \A r \in Request :
       /\ PromptTokens[r] \in Nat \ {0} /\ MaxTokens[r] \in Nat
       /\ PromptTokens[r] <= MaxTokens[r]
       /\ Hashes[r] \in Seq(Hash) /\ Len(Hashes[r]) = MaxTokens[r] \div BlockSize

(* hash_block_tokens chains each block's hash to the one before it: equal   *)
(* hashes stand for equal prefixes.                                         *)
ASSUME ChainAssumption ==
  \A r, s \in Request : \A i \in DOMAIN Hashes[r], j \in DOMAIN Hashes[s] :
    Hashes[r][i] = Hashes[s][j] =>
      i = j /\ \A k \in 1 .. i : Hashes[r][k] = Hashes[s][k]

VARIABLES
  pool,       \* the block pool, a record of module BlockPool
  table,      \* [Request -> Seq(Block)]: req_to_blocks
  numCached,  \* [Request -> Nat]: num_cached_block
  slots,      \* [Request -> Nat]: tokens that have been given a slot
  lease,      \* [Lease -> Seq(Block)]: blocks pinned by a lease
  foreign     \* history, since the last reset: what native caching never does

vars == <<pool, table, numCached, slots, lease, foreign>>

CeilDiv(a, b) == (a + b - 1) \div b

TypeOK ==
  /\ pool \in [ref   : [Block -> 0 .. Cardinality(Request \cup Lease)],
               queue : BoundedSeq(Block, Cardinality(Block)),
               hash  : [Block -> Hash \cup {NoHash}],
               map   : [Hash -> BoundedSeq(Block, Cardinality(Block))]]
  /\ \A r \in Request :
       /\ table[r] \in BoundedSeq(Block, Cardinality(Block))
       /\ slots[r] \in 0 .. MaxTokens[r]
       /\ Len(table[r]) = CeilDiv(slots[r], BlockSize)
       /\ numCached[r] \in 0 .. Len(table[r])
  /\ lease \in [Lease -> BoundedSeq(Block, MaxLeaseBlocks)]
  /\ foreign \subseteq {"pin", "evict"}

Init ==
  /\ \E order \in SetToSeqs(Block) : pool = EmptyPool(order)
  /\ table = [r \in Request |-> << >>]
  /\ numCached = [r \in Request |-> 0]
  /\ slots = [r \in Request |-> 0]
  /\ lease = [l \in Lease |-> << >>]
  /\ foreign = {}

(***************************************************************************)
(* FullAttentionManager.find_longest_cache_hit: the cached blocks of the   *)
(* longest run of hashes from the start, over at most limit tokens.        *)
(***************************************************************************)
HitLength(r, limit) ==
  LET most == limit \div BlockSize
  IN  CHOOSE k \in 0 .. most :
        /\ \A i \in 1 .. k : IsCached(pool, Hashes[r][i])
        /\ k < most => ~ IsCached(pool, Hashes[r][k + 1])

ComputedBlocks(r, limit) ==
  [i \in 1 .. HitLength(r, limit) |-> CachedBlock(pool, Hashes[r][i])]

(***************************************************************************)
(* allocate_slots for a request that has the blocks of hits to start from  *)
(* (empty for a running request) and needs slots for total tokens: check   *)
(* the capacity, touch the hits, append new blocks, and register the full  *)
(* blocks.  When the blocks do not fit it returns None and changes         *)
(* nothing.  The watermark is zero.                                        *)
(***************************************************************************)
NewBlocksNeeded(r, hits, total) ==
  CeilDiv(total, BlockSize) - Len(table[r]) - Len(hits)

EvictableHits(hits) == Cardinality({i \in DOMAIN hits : pool.ref[hits[i]] = 0})

AllocateSlots(r, hits, total) ==
  LET new     == NewBlocksNeeded(r, hits, total)
      touched == Touch(pool, hits)
      blocks  == table[r] \o hits \o NewBlocks(touched, new)
      cached  == numCached[r] + Len(hits)
      full    == total \div BlockSize
  IN  /\ new + EvictableHits(hits) <= NumFree(pool)
      /\ pool' = CacheFullBlocks(GetNewBlocks(touched, new),
                                 blocks, Hashes[r], cached, full)
      /\ table' = [table EXCEPT ![r] = blocks]
      /\ numCached' = [numCached EXCEPT ![r] = IF cached < full THEN full ELSE cached]
      /\ slots' = [slots EXCEPT ![r] = total]
      /\ UNCHANGED <<lease, foreign>>

(***************************************************************************)
(* A waiting request with known tokens (more than its prompt when it comes *)
(* back from preemption) looks up its prefix, of which at most known - 1   *)
(* tokens may hit, and is given slots for a first chunk.                   *)
(***************************************************************************)
AllocateWaiting(r) ==
  /\ slots[r] = 0
  /\ \E known \in PromptTokens[r] .. MaxTokens[r] :
       LET hits == ComputedBlocks(r, known - 1)
       IN  \E total \in (Len(hits) * BlockSize + 1) .. known :
             AllocateSlots(r, hits, total)

(* A running request is given slots for its next tokens.                   *)
AllocateRunning(r) ==
  /\ slots[r] > 0
  /\ \E total \in (slots[r] + 1) .. MaxTokens[r] : AllocateSlots(r, << >>, total)

(* Faulty: the table goes back head first. *)
FaultyFree(r) ==
  /\ slots[r] > 0
  /\ pool' = FreeBlocks(pool, table[r])
  /\ table' = [table EXCEPT ![r] = << >>]
  /\ numCached' = [numCached EXCEPT ![r] = 0]
  /\ slots' = [slots EXCEPT ![r] = 0]
  /\ UNCHANGED <<lease, foreign>>

(* free: the table goes back tail first.                                   *)
Free(r) ==
  /\ slots[r] > 0
  /\ pool' = FreeBlocks(pool, Reverse(table[r]))
  /\ table' = [table EXCEPT ![r] = << >>]
  /\ numCached' = [numCached EXCEPT ![r] = 0]
  /\ slots' = [slots EXCEPT ![r] = 0]
  /\ UNCHANGED <<lease, foreign>>

(***************************************************************************)
(* retain_resident_sources touches each distinct source block of a plan    *)
(* that still is resident under its indexed hash; which blocks a plan      *)
(* names depends on token contents and is left open here.                  *)
(***************************************************************************)
ResidentBlocks == {b \in Block : pool.hash[b] # NoHash /\ IsResident(pool, pool.hash[b], b)}

RetainSources(l) ==
  /\ lease[l] = << >>
  /\ \E n \in 1 .. MaxLeaseBlocks : \E sources \in [1 .. n -> ResidentBlocks] :
       /\ IsInjective(sources)
       /\ pool' = Touch(pool, sources)
       /\ lease' = [lease EXCEPT ![l] = sources]
  /\ foreign' = foreign \cup {"pin"}
  /\ UNCHANGED <<table, numCached, slots>>

(* release_sources, or the scheduler's _free_retained_blocks.              *)
ReleaseSources(l) ==
  /\ lease[l] # << >>
  /\ pool' = FreeBlocks(pool, Reverse(lease[l]))
  /\ lease' = [lease EXCEPT ![l] = << >>]
  /\ UNCHANGED <<table, numCached, slots, foreign>>

(* evict_blocks: the connector names blocks, referenced or not.            *)
EvictBlocks ==
  /\ \E blocks \in (SUBSET Block) \ {{}} : pool' = EvictHashes(pool, blocks)
  /\ foreign' = foreign \cup {"evict"}
  /\ UNCHANGED <<table, numCached, slots, lease>>

ResetPrefixCache ==
  /\ CanReset(pool)
  /\ pool' = ResetHashes(pool)
  /\ foreign' = {}
  /\ UNCHANGED <<table, numCached, slots, lease>>

Next ==
  \/ \E r \in Request : AllocateWaiting(r) \/ AllocateRunning(r) \/ Free(r)
  \/ \E l \in Lease : RetainSources(l) \/ ReleaseSources(l)
  \/ EvictBlocks
  \/ ResetPrefixCache

Spec == Init /\ [][Next]_vars

-----------------------------------------------------------------------------
Holders(b) ==
  {r \in Request : b \in ToSet(table[r])} \cup {l \in Lease : b \in ToSet(lease[l])}

(* References and the free queue balance, whatever order requests and      *)
(* leases come and go in: a block's ref_cnt is the number of tables and    *)
(* leases that contain it, and the queue holds each unreferenced block     *)
(* once: touch, get_new_blocks and free_blocks lose and free nothing twice.*)
RefsCountHolders ==
  /\ \A b \in Block : pool.ref[b] = Cardinality(Holders(b))
  /\ IsInjective(pool.queue)
  /\ ToSet(pool.queue) = {b \in Block : pool.ref[b] = 0}

(* BlockHashToBlockMap and the blocks' own hashes agree: an entry that     *)
(* outlived its block's eviction would serve another request's KV.         *)
MapMatchesHashes ==
  \A h \in Hash :
    /\ IsInjective(pool.map[h])
    /\ ToSet(pool.map[h]) = {b \in Block : pool.hash[b] = h}

(* The registered part of a table carries its request's own hashes, or     *)
(* none once a connector evicted it, so the blocks a request reads as its  *)
(* prefix are the ones computed for it; the blocks behind num_cached_block *)
(* have no hash yet, as cache_full_blocks asserts of a newly full block.   *)
TablesCarryTheirHashes ==
  \A r \in Request : \A i \in DOMAIN table[r] :
    LET h == pool.hash[table[r][i]]
    IN  IF i > numCached[r] THEN h = NoHash
        ELSE h = Hashes[r][i] \/ (h = NoHash /\ "evict" \in foreign)

(* free_blocks' "blocks without hash always get evicted first": no cached  *)
(* free block is ahead of an uncached one, so an allocation never drops a  *)
(* cached prefix while it could have taken an empty block.  A connector's  *)
(* eviction leaves an empty block where the cached one was.                *)
UncachedBlocksGoFirst ==
  "evict" \notin foreign =>
    \A i, j \in DOMAIN pool.queue :
      i < j /\ pool.hash[pool.queue[i]] # NoHash => pool.hash[pool.queue[j]] # NoHash

(* find_longest_cache_hit's "a missing block implies every later block     *)
(* misses too": the hash of a longer prefix is never cached without the    *)
(* hash of the prefix before it, as long as no lease has pinned a block    *)
(* out of the order of eviction.                                           *)
CachedPrefixesAreClosed ==
  foreign = {} =>
    \A r \in Request : \A i \in 2 .. Len(Hashes[r]) :
      IsCached(pool, Hashes[r][i]) => IsCached(pool, Hashes[r][i - 1])

(* The manager keeps the promise of module BlockStore.                     *)
Store == INSTANCE BlockStore WITH
  Holder   <- Request \cup Lease,
  held     <- [c \in Request \cup Lease |->
                IF c \in Request THEN ToSet(table[c]) ELSE ToSet(lease[c])],
  cachedAs <- pool.hash

ImplementsBlockStore == Store!Spec
=============================================================================
