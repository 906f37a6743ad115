----------------------------- MODULE BlockPool -----------------------------
(***************************************************************************)
(* The physical KV-cache block pool of vllm/v1/core/block_pool.py, as      *)
(* operators on a pool value.  A pool is a record                          *)
(*                                                                         *)
(*   ref    [Block -> Nat]             KVCacheBlock.ref_cnt                *)
(*   queue  Seq(Block)                 FreeKVCacheBlockQueue, front first  *)
(*   hash   [Block -> Hash or NoHash]  KVCacheBlock.block_hash             *)
(*   map    [Hash -> Seq(Block)]       BlockHashToBlockMap, one dict per   *)
(*                                     hash in insertion order             *)
(*                                                                         *)
(* Block is the set of usable blocks: the null block, which the pool takes *)
(* out of the queue for itself, is not among them.  The linked list behind *)
(* queue is the subject of module FreeBlockQueue.                          *)
(***************************************************************************)
EXTENDS Naturals, Sequences, FiniteSets, SequencesExt

CONSTANTS
  Block,    \* usable physical KV blocks
  Hash,     \* chained prefix hashes (block contents with their whole prefix)
  NoHash    \* "block_hash is None"

ASSUME BlockPoolAssumption ==
  /\ IsFiniteSet(Block) /\ Block # {}
  /\ NoHash \notin Hash

EmptyPool(initialOrder) ==
  [ref   |-> [b \in Block |-> 0],
   queue |-> initialOrder,
   hash  |-> [b \in Block |-> NoHash],
   map   |-> [h \in Hash |-> << >>]]

(* The elements of a sequence that are in a set, in their order.           *)
Those(seq, keep) ==
  FoldLeft(LAMBDA kept, b : IF b \in keep THEN Append(kept, b) ELSE kept, << >>, seq)

NumFree(pool) == Len(pool.queue)

IsCached(pool, h) == pool.map[h] # << >>

(* get_cached_block: among duplicates, the first block of the dict. *)
CachedBlock(pool, h) == Head(pool.map[h])

(* BlockHashToBlockMap.contain, the residency test of the reuse locator. *)
IsResident(pool, h, b) == Contains(pool.map[h], b)

(* Faulty: the map keeps the entries of an evicted block. *)
FaultyEvictHashes(pool, blocks) ==
  [pool EXCEPT !.hash = [b \in Block |-> IF b \in blocks THEN NoHash ELSE @[b]]]

(***************************************************************************)
(* _maybe_evict_cached_block over a set of blocks: the map forgets them    *)
(* and their hash is reset, whether or not they are referenced.            *)
(***************************************************************************)
EvictHashes(pool, blocks) ==
  [pool EXCEPT
    !.hash = [b \in Block |-> IF b \in blocks THEN NoHash ELSE @[b]],
    !.map  = [h \in Hash |-> Those(@[h], Block \ blocks)]]

(***************************************************************************)
(* get_new_blocks: popleft_n, then every popped block loses its hash and   *)
(* gets its first reference.  The caller has checked the capacity.         *)
(***************************************************************************)
NewBlocks(pool, n) == SubSeq(pool.queue, 1, n)

(* Faulty: a reallocated block keeps the hash of its last owner. *)
FaultyGetNewBlocks(pool, n) ==
  [pool EXCEPT
    !.queue = SubSeq(@, n + 1, Len(@)),
    !.ref   = [b \in Block |-> IF b \in ToSet(NewBlocks(pool, n)) THEN 1 ELSE @[b]]]

GetNewBlocks(pool, n) ==
  LET taken == ToSet(NewBlocks(pool, n))
  IN  [EvictHashes(pool, taken) EXCEPT
        !.queue = SubSeq(@, n + 1, Len(@)),
        !.ref   = [b \in Block |-> IF b \in taken THEN 1 ELSE @[b]]]

(* Faulty: a touched block stays in the free queue. *)
FaultyTouchQueued(pool, blocks) ==
  [pool EXCEPT
    !.ref = [b \in Block |-> IF b \in ToSet(blocks) THEN @[b] + 1 ELSE @[b]]]

(* Faulty: only the first user of a cached block is counted. *)
FaultyTouchOnce(pool, blocks) ==
  [pool EXCEPT
    !.queue = Those(@, Block \ ToSet(blocks)),
    !.ref   = [b \in Block |-> IF b \in ToSet(blocks) THEN 1 ELSE @[b]]]

(***************************************************************************)
(* touch: one more reference for each block of a duplicate-free sequence,  *)
(* taking the unreferenced ones out of the queue.                          *)
(***************************************************************************)
Touch(pool, blocks) ==
  [pool EXCEPT
    !.queue = Those(@, Block \ {b \in ToSet(blocks) : pool.ref[b] = 0}),
    !.ref   = [b \in Block |-> IF b \in ToSet(blocks) THEN @[b] + 1 ELSE @[b]]]

(* Faulty: blocks without a hash go to the tail with the others. *)
FaultyFreeBlocks(pool, ordered) ==
  [pool EXCEPT
    !.ref   = [b \in Block |-> IF b \in ToSet(ordered) THEN @[b] - 1 ELSE @[b]],
    !.queue = @ \o Those(ordered, {b \in Block : pool.ref[b] = 1})]

(***************************************************************************)
(* free_blocks: one reference less for each block of a duplicate-free      *)
(* sequence; of those left unreferenced, the blocks without a hash are     *)
(* prepended to the queue and the blocks with one appended, in order.      *)
(***************************************************************************)
FreeBlocks(pool, ordered) ==
  LET released == Those(ordered, {b \in Block : pool.ref[b] = 1})
      plain    == Those(released, {b \in Block : pool.hash[b] = NoHash})
      hashed   == Those(released, {b \in Block : pool.hash[b] # NoHash})
  IN  [pool EXCEPT
        !.ref   = [b \in Block |-> IF b \in ToSet(ordered) THEN @[b] - 1 ELSE @[b]],
        !.queue = plain \o @ \o hashed]

(***************************************************************************)
(* cache_full_blocks and _insert_block_hash: position i of a request's     *)
(* table, for i in from + 1 .. to, is registered under the request's i-th  *)
(* hash.  A second block under a known hash joins the dict, it replaces    *)
(* nothing.                                                                *)
(***************************************************************************)
CacheFullBlocks(pool, table, hashes, from, to) ==
  LET newly == (from + 1) .. to
  IN  [pool EXCEPT
        !.hash = [b \in Block |->
                   IF \E i \in newly : table[i] = b
                   THEN hashes[CHOOSE i \in newly : table[i] = b]
                   ELSE @[b]],
        !.map  = [h \in Hash |->
                   @[h] \o Those(SubSeq(table, from + 1, to),
                                 {table[i] : i \in {j \in newly : hashes[j] = h}})]]

(***************************************************************************)
(* BlockPool.reset_prefix_cache: refused while any block is referenced.    *)
(***************************************************************************)
CanReset(pool) == NumFree(pool) = Cardinality(Block)

ResetHashes(pool) == EvictHashes(pool, Block)
=============================================================================
