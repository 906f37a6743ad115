----------------------------- MODULE BlockStore -----------------------------
(***************************************************************************)
(* What the KV-cache manager promises to its users: requests, and the      *)
(* leases CacheSelect takes on source blocks, hold blocks; a block may     *)
(* carry a prefix hash.  Reference counts, the free queue, its order and   *)
(* the hash map are how the promise is kept, and do not appear here.       *)
(*                                                                         *)
(* The next-state relation is stated as rules on one step rather than as   *)
(* a list of operations, so that one step of an implementation may do      *)
(* several things at once (an admission shares cached blocks, takes fresh  *)
(* ones and registers their hashes).                                       *)
(***************************************************************************)
CONSTANTS Holder, Block, NoHash

VARIABLES
  held,      \* [Holder -> SUBSET Block]
  cachedAs   \* [Block -> a hash or NoHash]

storeVars == <<held, cachedAs>>

InUse(b)  == \E c \in Holder : b \in held[c]

Gains(c, b) == b \in held'[c] /\ b \notin held[c]

Init ==
  /\ held = [c \in Holder |-> {}]
  /\ cachedAs = [b \in Block |-> NoHash]

(* A block that gains a holder either keeps its hash and is shared for it, *)
(* or was nobody's and is handed to exactly one holder.                    *)
ExclusiveHandOut ==
  \A c \in Holder, b \in Block :
    Gains(c, b) =>
      \/ cachedAs[b] # NoHash /\ cachedAs'[b] = cachedAs[b]
      \/ ~ InUse(b) /\ \A d \in Holder : b \in held'[d] => d = c

(* A held block is never given another hash: it gets its first one, or     *)
(* loses the one it has to evict_blocks.                                   *)
StableHash ==
  \A b \in Block :
    cachedAs'[b] # cachedAs[b] =>
      \/ ~ InUse(b)
      \/ cachedAs[b] = NoHash
      \/ cachedAs'[b] = NoHash

(* Only a block someone holds after the step is given a hash.              *)
HashesNeedAHolder ==
  \A b \in Block :
    cachedAs'[b] # cachedAs[b] /\ cachedAs'[b] # NoHash =>
      \E c \in Holder : b \in held'[c]

Next ==
  /\ held' \in [Holder -> SUBSET Block]
  /\ DOMAIN cachedAs' = Block
  /\ ExclusiveHandOut
  /\ StableHash
  /\ HashesNeedAHolder

Spec == Init /\ [][Next]_storeVars
=============================================================================
