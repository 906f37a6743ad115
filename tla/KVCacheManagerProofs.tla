------------------------ MODULE KVCacheManagerProofs ------------------------
(***************************************************************************)
(* The block pool and the manager of the block tables, for any number of   *)
(* blocks, requests, leases and hashes: references balance, the hash map   *)
(* agrees with the blocks, a table carries its request's own hashes, and   *)
(* the order of the free queue keeps cached prefixes whole.                *)
(***************************************************************************)
EXTENDS KVCacheManager, QueueLemmas, TLAPS

PoolType == [ref   : [Block -> Nat],
             queue : Seq(Block),
             hash  : [Block -> Hash \cup {NoHash}],
             map   : [Hash -> Seq(Block)]]

(* The queue holds the unreferenced blocks, each once, and the map holds    *)
(* the blocks of every hash, each once.                                     *)
QueueOK(p) == IsInjective(p.queue) /\ ToSet(p.queue) = {b \in Block : p.ref[b] = 0}
MapOK(p) ==
  \A h \in Hash : IsInjective(p.map[h]) /\ ToSet(p.map[h]) = {b \in Block : p.hash[b] = h}

PoolOK(p) == p \in PoolType /\ QueueOK(p) /\ MapOK(p)

(* The filter of BlockPool is the one QueueLemmas is about.                 *)
LEMMA ThoseIsKept == \A s, keep : Those(s, keep) = Kept(s, keep)
BY DEF Those, Kept, FoldLeft, MapThenFoldSet

(* Filtering a queue keeps its order and its freedom from duplicates.       *)
LEMMA ThoseOrder ==
  ASSUME NEW s \in Seq(Block), NEW keep
  PROVE  /\ Those(s, keep) \in Seq(Block)
         /\ ToSet(Those(s, keep)) = ToSet(s) \cap keep
         /\ \A b, c : Precedes(Those(s, keep), b, c) <=>
                        Precedes(s, b, c) /\ b \in keep /\ c \in keep
         /\ IsInjective(s) => IsInjective(Those(s, keep))
<1>1. /\ Those(s, keep) \in Seq(Block)
      /\ ToSet(Those(s, keep)) = ToSet(s) \cap keep
      /\ \A b, c : Precedes(Those(s, keep), b, c) <=>
                     Precedes(s, b, c) /\ b \in keep /\ c \in keep
  BY ThoseIsKept, KeptOrder
<1>2. IsInjective(s) => IsInjective(Those(s, keep))
  BY <1>1, InjectiveIsStrict
<1> QED BY <1>1, <1>2

-----------------------------------------------------------------------------
(* The pool's operations, one by one.                                       *)

(* Eviction takes the hashes of the blocks and their entries in the map.    *)
LEMMA EvictFields ==
  ASSUME NEW p \in PoolType, MapOK(p), NEW blocks \in SUBSET Block
  PROVE  LET q == EvictHashes(p, blocks)
         IN  /\ q \in PoolType /\ MapOK(q) /\ q.ref = p.ref /\ q.queue = p.queue
             /\ \A b \in Block : q.hash[b] = IF b \in blocks THEN NoHash ELSE p.hash[b]
<1> DEFINE q == EvictHashes(p, blocks)
           hash == [b \in Block |-> IF b \in blocks THEN NoHash ELSE p.hash[b]]
           map == [h \in Hash |-> Those(p.map[h], Block \ blocks)]
<1>1. /\ p.ref \in [Block -> Nat] /\ p.queue \in Seq(Block)
      /\ p.hash \in [Block -> Hash \cup {NoHash}] /\ p.map \in [Hash -> Seq(Block)]
  BY DEF PoolType
<1>2. q = [p EXCEPT !.hash = hash, !.map = map]
  BY DEF EvictHashes
<1>3. hash \in [Block -> Hash \cup {NoHash}]
  BY <1>1
<1>4. ASSUME NEW h \in Hash
      PROVE  /\ map[h] \in Seq(Block)
             /\ IsInjective(map[h]) /\ ToSet(map[h]) = {b \in Block : hash[b] = h}
  <2>1. /\ p.map[h] \in Seq(Block) /\ IsInjective(p.map[h])
        /\ ToSet(p.map[h]) = {b \in Block : p.hash[b] = h}
    BY <1>1 DEF MapOK
  <2>2. /\ map[h] \in Seq(Block) /\ IsInjective(map[h])
        /\ ToSet(map[h]) = ToSet(p.map[h]) \cap (Block \ blocks)
    BY <2>1, ThoseOrder
  <2>3. h # NoHash
    BY BlockPoolAssumption
  <2> QED BY <2>1, <2>2, <2>3
<1>5. map \in [Hash -> Seq(Block)]
  BY <1>4
<1> HIDE DEF q, hash, map
<1>6. q \in PoolType /\ q.ref = p.ref /\ q.queue = p.queue /\ q.hash = hash /\ q.map = map
  BY <1>1, <1>2, <1>3, <1>5 DEF PoolType
<1>7. MapOK(q)
  BY <1>4, <1>6 DEF MapOK
<1>8. \A b \in Block : q.hash[b] = IF b \in blocks THEN NoHash ELSE p.hash[b]
  BY <1>6 DEF hash
<1>9. /\ q \in PoolType /\ MapOK(q) /\ q.ref = p.ref /\ q.queue = p.queue
      /\ \A b \in Block : q.hash[b] = IF b \in blocks THEN NoHash ELSE p.hash[b]
  BY <1>6, <1>7, <1>8
<1> QED BY <1>9 DEF q

(* A touched block has one reference more and is not in the queue.          *)
LEMMA TouchFields ==
  ASSUME NEW p \in PoolType, QueueOK(p), NEW blocks \in Seq(Block)
  PROVE  LET q == Touch(p, blocks)
         IN  /\ q \in PoolType /\ QueueOK(q) /\ q.hash = p.hash /\ q.map = p.map
             /\ \A b \in Block :
                  q.ref[b] = IF b \in ToSet(blocks) THEN p.ref[b] + 1 ELSE p.ref[b]
             /\ \A b, c : Precedes(q.queue, b, c) <=>
                  /\ Precedes(p.queue, b, c)
                  /\ b \notin ToSet(blocks) /\ c \notin ToSet(blocks)
<1> DEFINE q == Touch(p, blocks)
           keep == Block \ {b \in ToSet(blocks) : p.ref[b] = 0}
           queue == Those(p.queue, keep)
           ref == [b \in Block |-> IF b \in ToSet(blocks) THEN p.ref[b] + 1 ELSE p.ref[b]]
<1>1. /\ p.ref \in [Block -> Nat] /\ p.queue \in Seq(Block)
      /\ p.hash \in [Block -> Hash \cup {NoHash}] /\ p.map \in [Hash -> Seq(Block)]
  BY DEF PoolType
<1>2. q = [p EXCEPT !.queue = queue, !.ref = ref]
  BY DEF Touch
<1>3. ref \in [Block -> Nat]
        /\ \A b \in Block : ref[b] = IF b \in ToSet(blocks) THEN p.ref[b] + 1 ELSE p.ref[b]
  BY <1>1
<1>4. IsInjective(p.queue) /\ ToSet(p.queue) = {b \in Block : p.ref[b] = 0}
  BY DEF QueueOK
<1> HIDE DEF keep
<1>5. /\ queue \in Seq(Block) /\ ToSet(queue) = ToSet(p.queue) \cap keep
      /\ IsInjective(queue)
      /\ \A b, c : Precedes(queue, b, c) <=> Precedes(p.queue, b, c) /\ b \in keep /\ c \in keep
  BY <1>1, <1>4, ThoseOrder
<1> HIDE DEF queue, ref, q
<1>6. q \in PoolType /\ q.ref = ref /\ q.queue = queue /\ q.hash = p.hash /\ q.map = p.map
  BY <1>1, <1>2, <1>3, <1>5 DEF PoolType
<1>7. \A b \in ToSet(p.queue) : b \in keep <=> b \notin ToSet(blocks)
  BY <1>4 DEF keep
<1>8. ToSet(queue) = {b \in Block : ref[b] = 0}
  <2>1. \A b \in Block : p.ref[b] \in Nat
    BY <1>1
  <2>2. \A b \in Block : ref[b] = 0 <=> p.ref[b] = 0 /\ b \notin ToSet(blocks)
    BY <1>3, <2>1
  <2> QED BY <1>4, <1>5, <1>7, <2>2
<1>9. QueueOK(q)
  BY <1>5, <1>6, <1>8 DEF QueueOK
<1>10. \A b, c : Precedes(queue, b, c) <=>
         Precedes(p.queue, b, c) /\ b \notin ToSet(blocks) /\ c \notin ToSet(blocks)
  <2>1. \A b, c : Precedes(p.queue, b, c) => b \in ToSet(p.queue) /\ c \in ToSet(p.queue)
    BY <1>1, PrecedesTyped
  <2> QED BY <1>5, <1>7, <2>1
<1>11. /\ q \in PoolType /\ QueueOK(q) /\ q.hash = p.hash /\ q.map = p.map
       /\ \A b \in Block :
            q.ref[b] = IF b \in ToSet(blocks) THEN p.ref[b] + 1 ELSE p.ref[b]
       /\ \A b, c : Precedes(q.queue, b, c) <=>
            /\ Precedes(p.queue, b, c)
            /\ b \notin ToSet(blocks) /\ c \notin ToSet(blocks)
  BY <1>3, <1>6, <1>9, <1>10
<1> QED BY <1>11 DEF q

(* A new block leaves the front of the queue without a hash.                *)
LEMMA FreshFields ==
  ASSUME NEW p \in PoolType, QueueOK(p), MapOK(p), NEW n \in 0 .. Len(p.queue)
  PROVE  LET q == GetNewBlocks(p, n)
             new == NewBlocks(p, n)
         IN  /\ new \in Seq(Block) /\ Len(new) = n /\ IsInjective(new)
             /\ ToSet(new) \subseteq ToSet(p.queue)
             /\ PoolOK(q)
             /\ \A b \in Block : q.ref[b] = IF b \in ToSet(new) THEN 1 ELSE p.ref[b]
             /\ \A b \in Block : q.hash[b] = IF b \in ToSet(new) THEN NoHash ELSE p.hash[b]
             /\ \A b, c : Precedes(q.queue, b, c) <=>
                            Precedes(p.queue, b, c) /\ b \notin ToSet(new)
<1> DEFINE q == GetNewBlocks(p, n)
           new == NewBlocks(p, n)
           rest == SubSeq(p.queue, n + 1, Len(p.queue))
           ref == [b \in Block |-> IF b \in ToSet(new) THEN 1 ELSE p.ref[b]]
           e == EvictHashes(p, ToSet(new))
<1>1. /\ p.ref \in [Block -> Nat] /\ p.queue \in Seq(Block)
      /\ IsInjective(p.queue) /\ ToSet(p.queue) = {b \in Block : p.ref[b] = 0}
  BY DEF PoolType, QueueOK
<1>2. /\ new \in Seq(Block) /\ Len(new) = n /\ rest \in Seq(Block)
      /\ p.queue = new \o rest
  BY <1>1, SplitSequence DEF NewBlocks
<1> HIDE DEF new, rest
<1>3. /\ ToSet(p.queue) = ToSet(new) \cup ToSet(rest)
      /\ IsInjective(new) /\ IsInjective(rest) /\ ToSet(new) \cap ToSet(rest) = {}
  BY <1>1, <1>2, ConcatElements
<1>4. \A b, c : Precedes(p.queue, b, c) <=>
                  \/ Precedes(new, b, c) \/ Precedes(rest, b, c)
                  \/ b \in ToSet(new) /\ c \in ToSet(rest)
  BY <1>2, ConcatOrder
<1>5. ToSet(new) \in SUBSET Block
  BY <1>1, <1>3
<1>6. /\ e \in PoolType /\ MapOK(e) /\ e.ref = p.ref /\ e.queue = p.queue
      /\ \A b \in Block : e.hash[b] = IF b \in ToSet(new) THEN NoHash ELSE p.hash[b]
  BY <1>5, EvictFields
<1>7. q = [e EXCEPT !.queue = rest, !.ref = ref]
  BY <1>6 DEF GetNewBlocks, rest, new
<1>8. ref \in [Block -> Nat]
  BY <1>1
<1>9. \A b \in Block : ref[b] = IF b \in ToSet(new) THEN 1 ELSE p.ref[b]
  OBVIOUS
<1> HIDE DEF q, ref, e
<1>10. q \in PoolType /\ q.ref = ref /\ q.queue = rest /\ q.hash = e.hash /\ q.map = e.map
  BY <1>2, <1>6, <1>7, <1>8 DEF PoolType
<1>11. ToSet(rest) = {b \in Block : ref[b] = 0}
  BY <1>1, <1>3, <1>5, <1>9
<1>12. QueueOK(q) /\ MapOK(q)
  BY <1>3, <1>6, <1>10, <1>11 DEF QueueOK, MapOK
<1>13. \A b, c : Precedes(rest, b, c) <=> Precedes(p.queue, b, c) /\ b \notin ToSet(new)
  <2>1. \A b, c : Precedes(new, b, c) => b \in ToSet(new)
    BY <1>2, PrecedesTyped
  <2>2. \A b, c : Precedes(rest, b, c) => b \in ToSet(rest)
    BY <1>2, PrecedesTyped
  <2> QED BY <1>3, <1>4, <2>1, <2>2
<1>14. /\ new \in Seq(Block) /\ Len(new) = n /\ IsInjective(new)
       /\ ToSet(new) \subseteq ToSet(p.queue)
       /\ PoolOK(q)
       /\ \A b \in Block : q.ref[b] = IF b \in ToSet(new) THEN 1 ELSE p.ref[b]
       /\ \A b \in Block : q.hash[b] = IF b \in ToSet(new) THEN NoHash ELSE p.hash[b]
       /\ \A b, c : Precedes(q.queue, b, c) <=>
                      Precedes(p.queue, b, c) /\ b \notin ToSet(new)
  BY <1>2, <1>3, <1>6, <1>9, <1>10, <1>12, <1>13 DEF PoolOK
<1> QED BY <1>14 DEF q, new

(* A released block goes to the front of the queue when it has no hash, to  *)
(* its end when it has one.                                                 *)
Released(p, blocks) == {b \in ToSet(blocks) : p.ref[b] = 1}
Plain(p, b) == p.hash[b] = NoHash

(* free_blocks drops one reference of each block and queues those left      *)
(* without, blocks with no hash in front.                                   *)
LEMMA FreeFields ==
  ASSUME NEW p \in PoolType, QueueOK(p), MapOK(p),
         NEW blocks \in Seq(Block), IsInjective(blocks),
         \A b \in ToSet(blocks) : p.ref[b] # 0
  PROVE  LET q == FreeBlocks(p, blocks)
         IN  /\ PoolOK(q) /\ q.hash = p.hash
             /\ \A b \in Block :
                  q.ref[b] = IF b \in ToSet(blocks) THEN p.ref[b] - 1 ELSE p.ref[b]
             /\ \A b, c : Precedes(q.queue, b, c) <=>
                  \/ Precedes(p.queue, b, c)
                  \/ /\ Precedes(blocks, b, c) /\ {b, c} \subseteq Released(p, blocks)
                     /\ Plain(p, b) <=> Plain(p, c)
                  \/ /\ b \in Released(p, blocks) /\ Plain(p, b)
                     /\ \/ c \in ToSet(p.queue)
                        \/ c \in Released(p, blocks) /\ ~ Plain(p, c)
                  \/ /\ b \in ToSet(p.queue)
                     /\ c \in Released(p, blocks) /\ ~ Plain(p, c)
<1> DEFINE q == FreeBlocks(p, blocks)
           released == Those(blocks, {b \in Block : p.ref[b] = 1})
           plain == Those(released, {b \in Block : p.hash[b] = NoHash})
           hashed == Those(released, {b \in Block : p.hash[b] # NoHash})
           queue == plain \o p.queue \o hashed
           ref == [b \in Block |-> IF b \in ToSet(blocks) THEN p.ref[b] - 1 ELSE p.ref[b]]
           R == Released(p, blocks)
<1>1. /\ p.ref \in [Block -> Nat] /\ p.queue \in Seq(Block)
      /\ p.hash \in [Block -> Hash \cup {NoHash}]
      /\ IsInjective(p.queue) /\ ToSet(p.queue) = {b \in Block : p.ref[b] = 0}
  BY DEF PoolType, QueueOK
<1>2. ToSet(blocks) \subseteq Block
  BY DEF ToSet
<1>3. q = [p EXCEPT !.ref = ref, !.queue = queue]
  BY DEF FreeBlocks
<1>4. /\ released \in Seq(Block) /\ ToSet(released) = R /\ IsInjective(released)
      /\ \A b, c : Precedes(released, b, c) <=> Precedes(blocks, b, c) /\ {b, c} \subseteq R
  <2> DEFINE keep == {b \in Block : p.ref[b] = 1}
  <2>1. \A b \in ToSet(blocks) : b \in keep <=> b \in R
    BY <1>2 DEF Released
  <2>2. R \subseteq ToSet(blocks)
    BY DEF Released
  <2> HIDE DEF keep, R
  <2>3. /\ Those(blocks, keep) \in Seq(Block)
        /\ ToSet(Those(blocks, keep)) = ToSet(blocks) \cap keep
        /\ IsInjective(Those(blocks, keep))
        /\ \A b, c : Precedes(Those(blocks, keep), b, c) <=>
                       Precedes(blocks, b, c) /\ b \in keep /\ c \in keep
    BY ThoseOrder
  <2>4. \A b, c : Precedes(blocks, b, c) => b \in ToSet(blocks) /\ c \in ToSet(blocks)
    BY PrecedesTyped
  <2>5. released = Those(blocks, keep)
    BY DEF keep
  <2> HIDE DEF released
  <2> QED BY <2>1, <2>2, <2>3, <2>4, <2>5
<1> HIDE DEF released
<1>5. R \subseteq Block /\ \A b \in R : p.ref[b] = 1
  BY <1>2 DEF Released
<1> HIDE DEF R
<1>6. /\ plain \in Seq(Block) /\ IsInjective(plain)
      /\ ToSet(plain) = {b \in R : Plain(p, b)}
      /\ \A b, c : Precedes(plain, b, c) <=>
           Precedes(released, b, c) /\ Plain(p, b) /\ Plain(p, c)
  <2> DEFINE keep == {b \in Block : p.hash[b] = NoHash}
  <2>1. /\ Those(released, keep) \in Seq(Block)
        /\ ToSet(Those(released, keep)) = ToSet(released) \cap keep
        /\ IsInjective(Those(released, keep))
        /\ \A b, c : Precedes(Those(released, keep), b, c) <=>
                       Precedes(released, b, c) /\ b \in keep /\ c \in keep
    BY <1>4, ThoseOrder
  <2>2. \A b \in Block : b \in keep <=> Plain(p, b)
    BY DEF Plain
  <2>3. \A b, c : Precedes(released, b, c) => b \in Block /\ c \in Block
    BY <1>4, <1>5, PrecedesTyped
  <2>4. plain = Those(released, keep)
    BY DEF keep
  <2> HIDE DEF keep, plain
  <2> QED BY <1>4, <1>5, <2>1, <2>2, <2>3, <2>4
<1>7. /\ hashed \in Seq(Block) /\ IsInjective(hashed)
      /\ ToSet(hashed) = {b \in R : ~ Plain(p, b)}
      /\ \A b, c : Precedes(hashed, b, c) <=>
           Precedes(released, b, c) /\ ~ Plain(p, b) /\ ~ Plain(p, c)
  <2> DEFINE keep == {b \in Block : p.hash[b] # NoHash}
  <2>1. /\ Those(released, keep) \in Seq(Block)
        /\ ToSet(Those(released, keep)) = ToSet(released) \cap keep
        /\ IsInjective(Those(released, keep))
        /\ \A b, c : Precedes(Those(released, keep), b, c) <=>
                       Precedes(released, b, c) /\ b \in keep /\ c \in keep
    BY <1>4, ThoseOrder
  <2>2. \A b \in Block : b \in keep <=> ~ Plain(p, b)
    BY DEF Plain
  <2>3. \A b, c : Precedes(released, b, c) => b \in Block /\ c \in Block
    BY <1>4, <1>5, PrecedesTyped
  <2>4. hashed = Those(released, keep)
    BY DEF keep
  <2> HIDE DEF keep, hashed
  <2> QED BY <1>4, <1>5, <2>1, <2>2, <2>3, <2>4
<1> HIDE DEF plain, hashed
<1> DEFINE front == plain \o p.queue
<1>8. /\ front \in Seq(Block) /\ ToSet(front) = ToSet(plain) \cup ToSet(p.queue)
      /\ IsInjective(front)
      /\ \A b, c : Precedes(front, b, c) <=>
           \/ Precedes(plain, b, c) \/ Precedes(p.queue, b, c)
           \/ b \in ToSet(plain) /\ c \in ToSet(p.queue)
  <2>1. ToSet(plain) \cap ToSet(p.queue) = {}
    BY <1>1, <1>5, <1>6
  <2> QED BY <1>1, <1>6, <2>1, ConcatElements, ConcatOrder
<1>9. queue = front \o hashed
  OBVIOUS
<1> HIDE DEF front, queue
<1>10. /\ queue \in Seq(Block)
       /\ ToSet(queue) = ToSet(front) \cup ToSet(hashed)
       /\ IsInjective(queue)
       /\ \A b, c : Precedes(queue, b, c) <=>
            \/ Precedes(front, b, c) \/ Precedes(hashed, b, c)
            \/ b \in ToSet(front) /\ c \in ToSet(hashed)
  <2>1. ToSet(front) \cap ToSet(hashed) = {}
    BY <1>1, <1>5, <1>6, <1>7, <1>8
  <2> QED BY <1>7, <1>8, <1>9, <2>1, ConcatElements, ConcatOrder
<1>11. ref \in [Block -> Nat]
         /\ \A b \in Block :
              ref[b] = IF b \in ToSet(blocks) THEN p.ref[b] - 1 ELSE p.ref[b]
  BY <1>1
<1> HIDE DEF ref, q
<1>12. /\ q \in PoolType /\ q.ref = ref /\ q.queue = queue
       /\ q.hash = p.hash /\ q.map = p.map
  BY <1>3, <1>10, <1>11 DEF PoolType
<1>13. ToSet(queue) = {b \in Block : ref[b] = 0}
  <2>1. \A b : b \in ToSet(queue) <=> b \in R \/ b \in ToSet(p.queue)
    BY <1>6, <1>7, <1>8, <1>10
  <2>2. \A b \in Block : ref[b] = 0 <=> b \in R \/ p.ref[b] = 0
    <3> TAKE b \in Block
    <3>1. p.ref[b] \in Nat
      BY <1>1
    <3>2. CASE b \in ToSet(blocks)
      <4>1. b \in R <=> p.ref[b] = 1
        BY <3>2 DEF R, Released
      <4> QED BY <1>11, <3>1, <3>2, <4>1
    <3>3. CASE b \notin ToSet(blocks)
      <4>1. b \notin R
        BY <3>3 DEF R, Released
      <4> QED BY <1>11, <3>3, <4>1
    <3> QED BY <3>2, <3>3
  <2> QED BY <1>1, <1>5, <2>1, <2>2
<1>14. QueueOK(q) /\ MapOK(q)
  BY <1>10, <1>12, <1>13 DEF QueueOK, MapOK
<1>15. \A b, c : Precedes(queue, b, c) <=>
         \/ Precedes(p.queue, b, c)
         \/ /\ Precedes(blocks, b, c) /\ {b, c} \subseteq R
            /\ Plain(p, b) <=> Plain(p, c)
         \/ /\ b \in R /\ Plain(p, b)
            /\ c \in ToSet(p.queue) \/ (c \in R /\ ~ Plain(p, c))
         \/ b \in ToSet(p.queue) /\ c \in R /\ ~ Plain(p, c)
  <2> TAKE b, c
  <2>1. Precedes(queue, b, c) <=>
          \/ Precedes(p.queue, b, c)
          \/ Precedes(plain, b, c) \/ Precedes(hashed, b, c)
          \/ b \in ToSet(plain) /\ c \in ToSet(p.queue)
          \/ (b \in ToSet(plain) \/ b \in ToSet(p.queue)) /\ c \in ToSet(hashed)
    BY <1>8, <1>10
  <2> QED BY <1>4, <1>6, <1>7, <2>1
<1>16. /\ PoolOK(q) /\ q.hash = p.hash
       /\ \A b \in Block :
            q.ref[b] = IF b \in ToSet(blocks) THEN p.ref[b] - 1 ELSE p.ref[b]
  BY <1>11, <1>12, <1>14 DEF PoolOK
<1> QED BY <1>12, <1>15, <1>16 DEF q, R

(* The newly full blocks of a table join the map under their hashes.        *)
Unregistered(p, blocks, from, to) == \A i \in from + 1 .. to : p.hash[blocks[i]] = NoHash

Registered(p, q, blocks, hashes, from, to) ==
  /\ PoolOK(q) /\ q.ref = p.ref /\ q.queue = p.queue
  /\ \A i \in from + 1 .. to : q.hash[blocks[i]] = hashes[i]
  /\ \A b \in Block :
       b \notin {blocks[i] : i \in from + 1 .. to} => q.hash[b] = p.hash[b]

(* cache_full_blocks gives the full blocks their hashes, and nothing else.  *)
LEMMA RegisterFields ==
  ASSUME NEW p \in PoolType, QueueOK(p), MapOK(p),
         NEW blocks \in Seq(Block), IsInjective(blocks), NEW hashes \in Seq(Hash),
         NEW from \in Nat, NEW to \in Nat, to <= Len(blocks), to <= Len(hashes),
         Unregistered(p, blocks, from, to)
  PROVE  Registered(p, CacheFullBlocks(p, blocks, hashes, from, to),
                    blocks, hashes, from, to)
<1> DEFINE newly == from + 1 .. to
           at(b) == CHOOSE i \in newly : blocks[i] = b
           hash == [b \in Block |-> IF \E i \in newly : blocks[i] = b THEN hashes[at(b)]
                                    ELSE p.hash[b]]
           joins(h) == {blocks[i] : i \in {j \in newly : hashes[j] = h}}
           part == SubSeq(blocks, from + 1, to)
           map == [h \in Hash |-> p.map[h] \o Those(part, joins(h))]
           q == CacheFullBlocks(p, blocks, hashes, from, to)
<1>1. /\ p.ref \in [Block -> Nat] /\ p.queue \in Seq(Block)
      /\ p.hash \in [Block -> Hash \cup {NoHash}] /\ p.map \in [Hash -> Seq(Block)]
  BY DEF PoolType
<1>2. q = [p EXCEPT !.hash = hash, !.map = map]
  BY DEF CacheFullBlocks
<1>3. /\ Len(blocks) \in Nat /\ DOMAIN blocks = 1 .. Len(blocks)
      /\ \A i \in newly : /\ i \in DOMAIN blocks /\ blocks[i] \in Block /\ hashes[i] \in Hash
                          /\ i \in Nat
  <2>1. Len(blocks) \in Nat /\ Len(hashes) \in Nat
    OBVIOUS
  <2>2. \A i \in newly : i \in 1 .. Len(blocks) /\ i \in 1 .. Len(hashes)
    BY <2>1
  <2> HIDE DEF newly
  <2> QED BY <2>1, <2>2
<1>4. \A i, j \in newly : blocks[i] = blocks[j] => i = j
  BY <1>3 DEF IsInjective
<1>5. \A i \in newly : at(blocks[i]) = i
  BY <1>4
<1>6. /\ \A i \in newly : hash[blocks[i]] = hashes[i]
      /\ \A b \in Block : b \notin {blocks[i] : i \in newly} => hash[b] = p.hash[b]
  BY <1>3, <1>5
<1>7. hash \in [Block -> Hash \cup {NoHash}]
  <2>1. \A b \in Block : hash[b] \in Hash \cup {NoHash}
    BY <1>1, <1>3, <1>6
  <2>2. hash = [b \in Block |-> hash[b]]
    OBVIOUS
  <2> HIDE DEF hash
  <2> QED BY <2>1, <2>2
<1>8. /\ part \in Seq(Block) /\ IsInjective(part) /\ ToSet(part) = {blocks[i] : i \in newly}
  <2> DEFINE m == from + 1
  <2>1. m \in Int /\ to \in Int /\ m \in Nat
    OBVIOUS
  <2>2. \A i \in m .. to : blocks[i] \in Block
    BY <1>3
  <2>3. /\ part \in Seq(Block)
        /\ Len(part) = IF m <= to THEN to - m + 1 ELSE 0
        /\ \A i \in 1 .. to - m + 1 : part[i] = blocks[m + i - 1]
    BY <2>1, <2>2, SubSeqProperties
  <2>4. newly = m .. to
    OBVIOUS
  <2> HIDE DEF m, part, newly
  <2>5. Len(part) \in Nat /\ DOMAIN part = 1 .. Len(part)
    BY <2>3
  <2>6. \A i \in DOMAIN part : m + i - 1 \in newly /\ part[i] = blocks[m + i - 1]
    BY <2>1, <2>3, <2>4, <2>5
  <2>7. \A j \in newly : (j - m) + 1 \in DOMAIN part /\ m + ((j - m) + 1) - 1 = j
    BY <2>1, <2>3, <2>4, <2>5
  <2>8. IsInjective(part)
    <3> SUFFICES ASSUME NEW i \in DOMAIN part, NEW j \in DOMAIN part, part[i] = part[j]
                 PROVE  i = j
      BY DEF IsInjective
    <3>1. m + i - 1 = m + j - 1
      BY <1>4, <2>6
    <3> QED BY <2>1, <2>5, <3>1
  <2>9. ToSet(part) = {blocks[i] : i \in newly}
    <3>1. \A b \in ToSet(part) : b \in {blocks[i] : i \in newly}
      BY <2>6 DEF ToSet
    <3>2. ASSUME NEW j \in newly PROVE blocks[j] \in ToSet(part)
      <4>1. part[(j - m) + 1] = blocks[j] /\ (j - m) + 1 \in DOMAIN part
        BY <2>6, <2>7
      <4> QED BY <4>1 DEF ToSet
    <3> QED BY <3>1, <3>2
  <2> QED BY <2>3, <2>8, <2>9
<1> HIDE DEF part, at
<1>9. ASSUME NEW h \in Hash
      PROVE  /\ map[h] \in Seq(Block)
             /\ IsInjective(map[h]) /\ ToSet(map[h]) = {b \in Block : hash[b] = h}
  <2> DEFINE more == Those(part, joins(h))
  <2>1. /\ p.map[h] \in Seq(Block) /\ IsInjective(p.map[h])
        /\ ToSet(p.map[h]) = {b \in Block : p.hash[b] = h}
    BY <1>1 DEF MapOK
  <2>2. /\ more \in Seq(Block) /\ IsInjective(more)
        /\ ToSet(more) = ToSet(part) \cap joins(h)
    BY <1>8, ThoseOrder
  <2>3. h # NoHash
    BY BlockPoolAssumption
  <2>4. ToSet(more) = joins(h)
    BY <1>8, <2>2
  <2>5. map[h] = p.map[h] \o more
    OBVIOUS
  <2> HIDE DEF more, map
  <2>6. ToSet(p.map[h]) \cap ToSet(more) = {}
    BY <2>1, <2>3, <2>4 DEF Unregistered
  <2>7. /\ map[h] \in Seq(Block) /\ IsInjective(map[h])
        /\ ToSet(map[h]) = ToSet(p.map[h]) \cup ToSet(more)
    BY <2>1, <2>2, <2>5, <2>6, ConcatElements
  <2>8. \A b \in Block : hash[b] = h <=> p.hash[b] = h \/ b \in joins(h)
    <3> TAKE b \in Block
    <3>1. CASE b \in {blocks[i] : i \in newly}
      <4>1. PICK i \in newly : b = blocks[i]
        BY <3>1
      <4>2. hash[b] = hashes[i] /\ p.hash[b] = NoHash
        BY <1>6, <4>1 DEF Unregistered
      <4>3. b \in joins(h) <=> hashes[i] = h
        BY <1>4, <4>1
      <4> QED BY <2>3, <4>2, <4>3
    <3>2. CASE b \notin {blocks[i] : i \in newly}
      BY <1>6, <3>2
    <3> QED BY <3>1, <3>2
  <2>9. joins(h) \subseteq Block
    BY <1>3
  <2> HIDE DEF hash, joins
  <2> QED BY <2>1, <2>4, <2>7, <2>8, <2>9
<1>10. map \in [Hash -> Seq(Block)]
  <2>1. map = [h \in Hash |-> map[h]]
    OBVIOUS
  <2> HIDE DEF map
  <2> QED BY <1>9, <2>1
<1> HIDE DEF hash, map, q
<1>11. q \in PoolType /\ q.ref = p.ref /\ q.queue = p.queue /\ q.hash = hash /\ q.map = map
  BY <1>1, <1>2, <1>7, <1>10 DEF PoolType
<1>12. QueueOK(q) /\ MapOK(q)
  BY <1>9, <1>11 DEF QueueOK, MapOK
<1>13. /\ PoolOK(q) /\ q.ref = p.ref /\ q.queue = p.queue
       /\ \A i \in newly : q.hash[blocks[i]] = hashes[i]
       /\ \A b \in Block : b \notin {blocks[i] : i \in newly} => q.hash[b] = p.hash[b]
  BY <1>6, <1>11, <1>12 DEF PoolOK
<1> QED BY <1>13 DEF q, newly, Registered

-----------------------------------------------------------------------------
(* Tokens and blocks.                                                       *)
LEMMA Division ==
  ASSUME NEW a \in Nat, NEW b \in Nat \ {0}
  PROVE  a \div b \in Nat /\ b * (a \div b) <= a /\ a < b * (a \div b) + b
OBVIOUS

(* Division by a block size is monotone.                                    *)
LEMMA Quotients ==
  ASSUME NEW a \in Nat, NEW c \in Nat, NEW b \in Nat \ {0}, a <= c
  PROVE  a \div b <= c \div b
<1> DEFINE q == a \div b
           r == c \div b
<1>1. /\ q \in Nat /\ b * q <= a /\ a < b * q + b
      /\ r \in Nat /\ b * r <= c /\ c < b * r + b
  BY Division
<1> HIDE DEF q, r
<1>2. ASSUME q >= r + 1 PROVE FALSE
  <2>1. b * q >= b * (r + 1)
    BY <1>1, <1>2
  <2>2. b * (r + 1) = b * r + b
    BY <1>1
  <2>3. b * q \in Nat /\ b * r \in Nat
    BY <1>1
  <2> QED BY <1>1, <2>1, <2>2, <2>3
<1>3. q <= r
  BY <1>1, <1>2
<1> QED BY <1>3 DEF q, r

(* The blocks for a number of tokens, and the full ones among them.         *)
LEMMA BlocksOfTokens ==
  ASSUME NEW a \in Nat, NEW c \in Nat, a <= c
  PROVE  /\ CeilDiv(a, BlockSize) \in Nat /\ CeilDiv(a, BlockSize) <= CeilDiv(c, BlockSize)
         /\ a \div BlockSize \in Nat /\ a \div BlockSize <= CeilDiv(a, BlockSize)
         /\ a \div BlockSize <= c \div BlockSize
<1>1. BlockSize \in Nat \ {0}
  BY ManagerAssumption
<1>2. a + BlockSize - 1 \in Nat /\ c + BlockSize - 1 \in Nat
      /\ a <= a + BlockSize - 1 /\ a + BlockSize - 1 <= c + BlockSize - 1
  BY <1>1
<1> QED BY <1>1, <1>2, Division, Quotients DEF CeilDiv

(* No tokens need no blocks.                                                *)
LEMMA NoTokens == CeilDiv(0, BlockSize) = 0
<1>1. BlockSize \in Nat \ {0} /\ 0 + BlockSize - 1 \in Nat /\ 0 + BlockSize - 1 < BlockSize
  BY ManagerAssumption
<1> DEFINE q == (0 + BlockSize - 1) \div BlockSize
<1>2. q \in Nat /\ BlockSize * q <= 0 + BlockSize - 1
  BY <1>1, Division
<1> HIDE DEF q
<1>3. ASSUME q >= 1 PROVE FALSE
  <2>1. BlockSize * q >= BlockSize * 1
    BY <1>1, <1>2, <1>3
  <2> QED BY <1>1, <1>2, <2>1
<1>4. q = 0
  BY <1>2, <1>3
<1> QED BY <1>4 DEF q, CeilDiv

(* A request that needs tokens behind its hits needs a block behind them.   *)
LEMMA BlocksBehindHits ==
  ASSUME NEW k \in Nat, NEW total \in Nat, k * BlockSize + 1 <= total
  PROVE  k + 1 <= CeilDiv(total, BlockSize) /\ k <= total \div BlockSize
<1>1. BlockSize \in Nat \ {0} /\ total + BlockSize - 1 \in Nat
  BY ManagerAssumption
<1> DEFINE q == (total + BlockSize - 1) \div BlockSize
           f == total \div BlockSize
<1>2. /\ q \in Nat /\ total + BlockSize - 1 < BlockSize * q + BlockSize
      /\ f \in Nat /\ total < BlockSize * f + BlockSize
  BY <1>1, Division
<1> HIDE DEF q, f
<1>3. k * BlockSize = BlockSize * k /\ BlockSize * k \in Nat
      /\ BlockSize * q \in Nat /\ BlockSize * f \in Nat
  BY <1>1, <1>2
<1>4. ASSUME q <= k PROVE FALSE
  <2>1. BlockSize * q <= BlockSize * k
    BY <1>1, <1>2, <1>4
  <2> QED BY <1>1, <1>2, <1>3, <2>1
<1>5. ASSUME f + 1 <= k PROVE FALSE
  <2>1. BlockSize * (f + 1) <= BlockSize * k
    BY <1>1, <1>2, <1>5
  <2>2. BlockSize * (f + 1) = BlockSize * f + BlockSize
    BY <1>1, <1>2
  <2> QED BY <1>1, <1>2, <1>3, <2>1, <2>2
<1>6. k + 1 <= q /\ k <= f
  BY <1>2, <1>4, <1>5
<1> QED BY <1>6 DEF q, f, CeilDiv

-----------------------------------------------------------------------------
(***************************************************************************)
(* The inductive invariant.                                                *)
(***************************************************************************)
TablesOK ==
  /\ table \in [Request -> Seq(Block)]
  /\ numCached \in [Request -> Nat] /\ slots \in [Request -> Nat]
  /\ \A r \in Request :
       /\ IsInjective(table[r])
       /\ slots[r] <= MaxTokens[r] /\ Len(table[r]) = CeilDiv(slots[r], BlockSize)
       /\ numCached[r] <= Len(table[r]) /\ numCached[r] <= Len(Hashes[r])

LeasesOK ==
  /\ lease \in [Lease -> Seq(Block)]
  /\ \A l \in Lease : IsInjective(lease[l]) /\ Len(lease[l]) <= MaxLeaseBlocks

(* Without a pin since the last reset there is no lease.                    *)
ForeignOK ==
  /\ foreign \subseteq {"pin", "evict"}
  /\ "pin" \notin foreign => \A l \in Lease : lease[l] = << >>

RefsOK == \A b \in Block : pool.ref[b] = Cardinality(Holders(b))

(* The blocks behind num_cached_block are their request's alone.            *)
Private ==
  \A r \in Request : \A i \in DOMAIN table[r] :
    i > numCached[r] => Holders(table[r][i]) = {r}

(* A sequence of blocks carries the hashes of r up to the cached-th.        *)
Carries(p, f, r, blocks, cached) ==
  \A i \in DOMAIN blocks :
    LET h == p.hash[blocks[i]]
    IN  IF i > cached THEN h = NoHash
        ELSE h = Hashes[r][i] \/ (h = NoHash /\ "evict" \in f)

CarryOK == \A r \in Request : Carries(pool, foreign, r, table[r], numCached[r])

(* In the queue an empty block is ahead of every cached one.                *)
PlainFirst ==
  "evict" \notin foreign =>
    \A b, c : Precedes(pool.queue, b, c) /\ ~ Plain(pool, b) => ~ Plain(pool, c)

(* The prefix of a queued block stays at least as long as the block itself: *)
(* it is in use, or behind it in the queue.                                 *)
Outlives(p, b, c) == c \in Block /\ (p.ref[c] > 0 \/ Precedes(p.queue, b, c))

PrefixesLast ==
  foreign = {} =>
    \A b \in Block : \A r \in Request : \A k \in 2 .. Len(Hashes[r]) :
      pool.ref[b] = 0 /\ pool.hash[b] = Hashes[r][k] =>
        \E c : pool.hash[c] = Hashes[r][k - 1] /\ Outlives(pool, b, c)

ManagerInv ==
  /\ PoolOK(pool) /\ TablesOK /\ LeasesOK /\ ForeignOK /\ RefsOK
  /\ Private /\ CarryOK /\ PlainFirst /\ PrefixesLast

(* What the assumptions say of one request.                                 *)
LEMMA RequestFacts ==
  ASSUME NEW r \in Request
  PROVE  /\ BlockSize \in Nat \ {0} /\ MaxTokens[r] \in Nat
         /\ PromptTokens[r] \in Nat \ {0} /\ PromptTokens[r] <= MaxTokens[r]
         /\ Hashes[r] \in Seq(Hash) /\ Len(Hashes[r]) = MaxTokens[r] \div BlockSize
         /\ Len(Hashes[r]) \in Nat /\ DOMAIN Hashes[r] = 1 .. Len(Hashes[r])
BY ManagerAssumption

(* The holders of a block are finitely many.                                *)
LEMMA HoldersFinite ==
  \A b : IsFiniteSet(Holders(b)) /\ Holders(b) \subseteq Request \cup Lease
<1> TAKE b
<1>1. IsFiniteSet(Request \cup Lease)
  BY ManagerAssumption, FS_Union
<1>2. Holders(b) \subseteq Request \cup Lease
  BY DEF Holders
<1> QED BY <1>1, <1>2, FS_Subset

(* An unreferenced block is one nobody holds.                               *)
LEMMA NoHolders ==
  ASSUME PoolOK(pool), RefsOK
  PROVE  \A b \in Block : pool.ref[b] = 0 <=> Holders(b) = {}
BY HoldersFinite, FS_EmptySet DEF RefsOK

(* A block of a table is in use.                                            *)
LEMMA HolderHolds ==
  /\ \A r \in Request, b \in Block : r \in Holders(b) <=> b \in ToSet(table[r])
  /\ \A l \in Lease, b \in Block : l \in Holders(b) <=> b \in ToSet(lease[l])
BY ManagerAssumption DEF Holders

-----------------------------------------------------------------------------
(* The blocks an allocation starts from: those of the table, or the hits of *)
(* a request that has no table yet.                                         *)
Start(r, hits) ==
  /\ hits \in Seq(Block) /\ IsInjective(hits)
  /\ hits # << >> => table[r] = << >> /\ numCached[r] = 0
  /\ \A i \in DOMAIN hits : i \in DOMAIN Hashes[r] /\ pool.hash[hits[i]] = Hashes[r][i]

(* What the start of an allocation says of the table and the hits.          *)
LEMMA StartFacts ==
  ASSUME ManagerInv, NEW r \in Request, NEW hits, Start(r, hits)
  PROVE  LET old == table[r] \o hits
             cached == numCached[r] + Len(hits)
         IN  /\ old \in Seq(Block) /\ IsInjective(old)
             /\ Len(old) = Len(table[r]) + Len(hits) /\ Len(old) \in Nat
             /\ ToSet(old) = ToSet(table[r]) \cup ToSet(hits)
             /\ ToSet(table[r]) \cap ToSet(hits) = {}
             /\ cached \in Nat /\ cached <= Len(old) /\ cached <= Len(Hashes[r])
             /\ Carries(pool, foreign, r, old, cached)
             /\ \A i \in DOMAIN old : i > cached => Holders(old[i]) = {r}
<1> DEFINE old == table[r] \o hits
           cached == numCached[r] + Len(hits)
<1>1. /\ table[r] \in Seq(Block) /\ IsInjective(table[r])
      /\ numCached[r] \in Nat /\ numCached[r] <= Len(table[r])
      /\ numCached[r] <= Len(Hashes[r])
      /\ Carries(pool, foreign, r, table[r], numCached[r])
      /\ \A i \in DOMAIN table[r] : i > numCached[r] => Holders(table[r][i]) = {r}
  BY DEF ManagerInv, TablesOK, CarryOK, Private
<1>2. /\ hits \in Seq(Block) /\ IsInjective(hits)
      /\ \A i \in DOMAIN hits : i \in DOMAIN Hashes[r] /\ pool.hash[hits[i]] = Hashes[r][i]
  BY DEF Start
<1>3. Len(table[r]) \in Nat /\ Len(hits) \in Nat
  BY <1>1, <1>2
<1>4. /\ old \in Seq(Block) /\ Len(old) = Len(table[r]) + Len(hits)
      /\ ToSet(old) = ToSet(table[r]) \cup ToSet(hits)
  BY <1>1, <1>2, ConcatElements
<1>5. CASE hits = << >>
  <2>1. old = table[r] /\ Len(hits) = 0 /\ ToSet(hits) = {}
    BY <1>1, <1>5 DEF ToSet
  <2>2. cached = numCached[r]
    BY <1>1, <2>1
  <2> HIDE DEF old, cached
  <2>3. /\ old \in Seq(Block) /\ IsInjective(old)
        /\ Len(old) = Len(table[r]) + Len(hits) /\ Len(old) \in Nat
        /\ ToSet(old) = ToSet(table[r]) \cup ToSet(hits)
        /\ ToSet(table[r]) \cap ToSet(hits) = {}
        /\ cached \in Nat /\ cached <= Len(old) /\ cached <= Len(Hashes[r])
    BY <1>1, <1>3, <1>4, <2>1, <2>2
  <2>4. /\ Carries(pool, foreign, r, old, cached)
        /\ \A i \in DOMAIN old : i > cached => Holders(old[i]) = {r}
    BY <1>1, <2>1, <2>2
  <2> QED BY <2>3, <2>4 DEF old, cached
<1>6. CASE hits # << >>
  <2>1. table[r] = << >> /\ numCached[r] = 0
    BY <1>6 DEF Start
  <2>2. old = hits /\ Len(table[r]) = 0 /\ ToSet(table[r]) = {}
    BY <1>2, <2>1 DEF ToSet
  <2>3. cached = Len(hits)
    BY <1>3, <2>1
  <2> HIDE DEF old, cached
  <2>4. DOMAIN old = 1 .. Len(old) /\ Len(old) = Len(hits)
    BY <1>2, <2>2
  <2>5. Carries(pool, foreign, r, old, cached)
    BY <1>2, <1>3, <2>2, <2>3, <2>4 DEF Carries
  <2>6. \A i \in DOMAIN old : ~ (i > cached)
    BY <1>3, <2>3, <2>4
  <2>7. cached <= Len(Hashes[r])
    <3>1. Len(hits) \in DOMAIN hits
      BY <1>2, <1>3, <1>6, EmptySeq
    <3>2. Len(hits) \in DOMAIN Hashes[r]
      BY <1>2, <3>1
    <3> QED BY <2>3, <3>2, RequestFacts
  <2>8. /\ old \in Seq(Block) /\ IsInjective(old)
        /\ Len(old) = Len(table[r]) + Len(hits) /\ Len(old) \in Nat
        /\ ToSet(old) = ToSet(table[r]) \cup ToSet(hits)
        /\ ToSet(table[r]) \cap ToSet(hits) = {}
        /\ cached \in Nat /\ cached <= Len(old)
    BY <1>2, <1>3, <1>4, <2>2, <2>3, <2>4
  <2> QED BY <2>5, <2>6, <2>7, <2>8 DEF old, cached
<1> QED BY <1>5, <1>6

(* A touched hit that was free leaves the queue one shorter: the capacity   *)
(* allocate_slots checks is there after the touch.                          *)
LEMMA Capacity ==
  ASSUME PoolOK(pool), NEW hits \in Seq(Block), IsInjective(hits)
  PROVE  /\ EvictableHits(hits) \in Nat
         /\ Len(Touch(pool, hits).queue) = Len(pool.queue) - EvictableHits(hits)
<1> DEFINE D == {i \in DOMAIN hits : pool.ref[hits[i]] = 0}
           E == {hits[i] : i \in D}
           t == Touch(pool, hits)
<1>1. /\ pool \in PoolType /\ QueueOK(pool) /\ IsInjective(pool.queue)
      /\ ToSet(pool.queue) = {b \in Block : pool.ref[b] = 0}
      /\ pool.queue \in Seq(Block) /\ pool.ref \in [Block -> Nat]
  BY DEF PoolOK, QueueOK, PoolType
<1>2. /\ t \in PoolType /\ QueueOK(t)
      /\ \A b \in Block :
           t.ref[b] = IF b \in ToSet(hits) THEN pool.ref[b] + 1 ELSE pool.ref[b]
  BY <1>1, TouchFields
<1>3. IsFiniteSet(E) /\ Cardinality(E) = Cardinality(D) /\ IsFiniteSet(D)
  <2>1. D \in SUBSET (DOMAIN hits)
    OBVIOUS
  <2>2. IsFiniteSet(DOMAIN hits)
    <3>1. DOMAIN hits = 1 .. Len(hits) /\ Len(hits) \in Nat
      OBVIOUS
    <3> QED BY <3>1, FS_Interval
  <2>3. IsFiniteSet(D)
    BY <2>1, <2>2, FS_Subset
  <2> HIDE DEF D
  <2> QED BY <2>1, <2>3, ImageCount
<1>4. EvictableHits(hits) = Cardinality(E) /\ Cardinality(E) \in Nat
  BY <1>3, FS_CardinalityType DEF EvictableHits
<1>5. /\ t.queue \in Seq(Block) /\ IsInjective(t.queue)
      /\ ToSet(t.queue) = {b \in Block : t.ref[b] = 0}
  BY <1>2 DEF PoolType, QueueOK
<1> HIDE DEF t
<1>6. /\ Cardinality(ToSet(t.queue)) = Len(t.queue)
      /\ IsFiniteSet(ToSet(pool.queue)) /\ Cardinality(ToSet(pool.queue)) = Len(pool.queue)
  BY <1>1, <1>5, ElementCount
<1>7. E = {b \in ToSet(hits) : pool.ref[b] = 0}
  BY DEF ToSet
<1> HIDE DEF D, E
<1>8. ToSet(hits) \subseteq Block
  BY DEF ToSet
<1>9. \A b \in Block : pool.ref[b] \in Nat
  BY <1>1
<1>10. ToSet(t.queue) = ToSet(pool.queue) \ E
  BY <1>1, <1>2, <1>5, <1>7, <1>8, <1>9
<1>11. ToSet(pool.queue) \cap E = E
  BY <1>1, <1>7, <1>8
<1>12. Cardinality(ToSet(pool.queue) \ E) = Cardinality(ToSet(pool.queue)) - Cardinality(E)
  <2> DEFINE Q == ToSet(pool.queue)
  <2>1. IsFiniteSet(Q) /\ Q \cap E = E
    BY <1>6, <1>11
  <2> HIDE DEF Q
  <2>2. Cardinality(Q \ E) = Cardinality(Q) - Cardinality(Q \cap E)
    BY <2>1, FS_Difference, Zenon
  <2>3. Cardinality(Q \ E) = Cardinality(Q) - Cardinality(E)
    BY <2>1, <2>2
  <2> QED BY <2>3 DEF Q
<1>13. Len(t.queue) = Len(pool.queue) - EvictableHits(hits)
  BY <1>4, <1>6, <1>10, <1>12
<1> QED BY <1>4, <1>13 DEF t

(* The positions of a concatenation.                                        *)
LEMMA ConcatPlaces ==
  ASSUME NEW S, NEW s \in Seq(S), NEW t \in Seq(S)
  PROVE  /\ DOMAIN s \subseteq DOMAIN (s \o t)
         /\ \A i \in DOMAIN s : (s \o t)[i] = s[i]
         /\ \A i \in DOMAIN (s \o t) :
              i \in DOMAIN s \/ (i > Len(s) /\ (s \o t)[i] \in ToSet(t))
<1> DEFINE u == s \o t
<1>1. /\ u \in Seq(S) /\ Len(u) = Len(s) + Len(t)
      /\ \A i \in 1 .. Len(s) + Len(t) :
           u[i] = IF i <= Len(s) THEN s[i] ELSE t[i - Len(s)]
  BY ConcatProperties
<1>2. /\ DOMAIN s = 1 .. Len(s) /\ Len(s) \in Nat
      /\ DOMAIN t = 1 .. Len(t) /\ Len(t) \in Nat
  OBVIOUS
<1>3. DOMAIN u = 1 .. Len(s) + Len(t)
  BY <1>1
<1> HIDE DEF u
<1>4. DOMAIN s \subseteq DOMAIN u /\ \A i \in DOMAIN s : u[i] = s[i]
  BY <1>1, <1>2, <1>3
<1>5. ASSUME NEW i \in DOMAIN u, i \notin DOMAIN s
      PROVE  i > Len(s) /\ u[i] \in ToSet(t)
  <2>1. i > Len(s) /\ i - Len(s) \in DOMAIN t /\ u[i] = t[i - Len(s)]
    BY <1>1, <1>2, <1>3, <1>5
  <2> QED BY <2>1 DEF ToSet
<1> QED BY <1>4, <1>5 DEF u

(***************************************************************************)
(* What an allocation does: the table of r becomes blocks, which ends with *)
(* the fresh blocks new and is registered up to the kept-th.               *)
(***************************************************************************)
Handed(r, hits, new, blocks, kept, total) ==
  /\ new \in Seq(Block)
  /\ \A b \in ToSet(new) : b \in Block /\ pool.ref[b] = 0 /\ b \notin ToSet(hits)
  /\ blocks \in Seq(Block) /\ IsInjective(blocks) /\ Len(blocks) = CeilDiv(total, BlockSize)
  /\ ToSet(blocks) = ToSet(table[r]) \cup ToSet(hits) \cup ToSet(new)
  /\ kept \in Nat /\ kept <= Len(blocks) /\ kept <= Len(Hashes[r])
  /\ PoolOK(pool')
  /\ \A b \in Block :
       pool'.ref[b] = IF b \in ToSet(hits) \cup ToSet(new) THEN pool.ref[b] + 1
                      ELSE pool.ref[b]
  /\ \A b, c : Precedes(pool'.queue, b, c) <=>
       /\ Precedes(pool.queue, b, c)
       /\ b \notin ToSet(hits) \cup ToSet(new) /\ c \notin ToSet(hits)
  /\ \A b \in Block : \/ pool'.hash[b] = pool.hash[b]
                      \/ b \in ToSet(new)
                      \/ pool.hash[b] = NoHash /\ Holders(b) = {r}
  /\ Carries(pool', foreign, r, blocks, kept)
  /\ \A i \in DOMAIN blocks :
       i > kept => blocks[i] \in ToSet(new) \/ Holders(blocks[i]) = {r}
  /\ table' = [table EXCEPT ![r] = blocks]
  /\ numCached' = [numCached EXCEPT ![r] = kept]
  /\ slots' = [slots EXCEPT ![r] = total]
  /\ UNCHANGED <<lease, foreign>>

(* allocate_slots touches the hits, takes new blocks from the queue and     *)
(* registers the full ones: Handed.                                         *)
LEMMA AllocationHands ==
  ASSUME ManagerInv, NEW r \in Request, NEW hits, Start(r, hits),
         NEW total \in slots[r] .. MaxTokens[r], Len(hits) * BlockSize + 1 <= total,
         AllocateSlots(r, hits, total)
  PROVE  \E new, blocks, kept : Handed(r, hits, new, blocks, kept, total)
<1> DEFINE old == table[r] \o hits
           cached == numCached[r] + Len(hits)
           full == total \div BlockSize
           n == NewBlocksNeeded(r, hits, total)
           t == Touch(pool, hits)
           new == NewBlocks(t, n)
           g == GetNewBlocks(t, n)
           blocks == old \o new
           kept == IF cached < full THEN full ELSE cached
           q == CacheFullBlocks(g, blocks, Hashes[r], cached, full)
<1>1. /\ old \in Seq(Block) /\ IsInjective(old)
      /\ Len(old) = Len(table[r]) + Len(hits) /\ Len(old) \in Nat
      /\ ToSet(old) = ToSet(table[r]) \cup ToSet(hits)
      /\ cached \in Nat /\ cached <= Len(old) /\ cached <= Len(Hashes[r])
      /\ Carries(pool, foreign, r, old, cached)
      /\ \A i \in DOMAIN old : i > cached => Holders(old[i]) = {r}
  BY StartFacts
<1>2. /\ pool \in PoolType /\ QueueOK(pool) /\ MapOK(pool) /\ PoolOK(pool) /\ RefsOK
      /\ pool.ref \in [Block -> Nat] /\ pool.hash \in [Block -> Hash \cup {NoHash}]
      /\ hits \in Seq(Block) /\ IsInjective(hits) /\ Len(hits) \in Nat
  BY DEF ManagerInv, PoolOK, PoolType, Start
<1>3. /\ table[r] \in Seq(Block) /\ Len(table[r]) \in Nat
      /\ Len(table[r]) = CeilDiv(slots[r], BlockSize) /\ slots[r] \in Nat
      /\ hits # << >> => table[r] = << >>
  BY DEF ManagerInv, TablesOK, Start
<1>4. /\ total \in Nat /\ slots[r] <= total /\ total <= MaxTokens[r] /\ MaxTokens[r] \in Nat
      /\ BlockSize \in Nat \ {0} /\ Hashes[r] \in Seq(Hash)
      /\ Len(Hashes[r]) = MaxTokens[r] \div BlockSize /\ Len(Hashes[r]) \in Nat
  BY <1>3, RequestFacts
<1>5. /\ pool' = q /\ table' = [table EXCEPT ![r] = blocks]
      /\ numCached' = [numCached EXCEPT ![r] = kept]
      /\ slots' = [slots EXCEPT ![r] = total] /\ UNCHANGED <<lease, foreign>>
      /\ n + EvictableHits(hits) <= Len(pool.queue)
  BY DEF AllocateSlots, NumFree
<1>6. /\ CeilDiv(total, BlockSize) \in Nat
      /\ CeilDiv(slots[r], BlockSize) <= CeilDiv(total, BlockSize)
      /\ full \in Nat /\ full <= CeilDiv(total, BlockSize) /\ full <= Len(Hashes[r])
      /\ Len(hits) + 1 <= CeilDiv(total, BlockSize)
  <2>1. /\ CeilDiv(total, BlockSize) \in Nat
        /\ CeilDiv(slots[r], BlockSize) <= CeilDiv(total, BlockSize)
    BY <1>3, <1>4, BlocksOfTokens
  <2>2. full \in Nat /\ full <= CeilDiv(total, BlockSize) /\ full <= Len(Hashes[r])
    BY <1>4, BlocksOfTokens
  <2>3. Len(hits) + 1 <= CeilDiv(total, BlockSize)
    BY <1>2, <1>4, BlocksBehindHits
  <2> QED BY <2>1, <2>2, <2>3
<1> HIDE DEF old, cached, full
<1>7. /\ n \in Nat /\ Len(old) + n = CeilDiv(total, BlockSize)
  <2>1. n = CeilDiv(total, BlockSize) - Len(table[r]) - Len(hits)
    BY DEF NewBlocksNeeded
  <2>2. CASE hits = << >>
    <3>1. Len(hits) = 0
      BY <2>2
    <3> HIDE DEF n
    <3> QED BY <1>1, <1>3, <1>6, <2>1, <3>1
  <2>3. CASE hits # << >>
    <3>1. Len(table[r]) = 0
      BY <1>3, <2>3
    <3> HIDE DEF n
    <3> QED BY <1>1, <1>2, <1>6, <2>1, <3>1
  <2> QED BY <2>2, <2>3
<1> HIDE DEF n
<1>8. /\ t \in PoolType /\ QueueOK(t) /\ t.hash = pool.hash /\ t.map = pool.map
      /\ \A b \in Block :
           t.ref[b] = IF b \in ToSet(hits) THEN pool.ref[b] + 1 ELSE pool.ref[b]
      /\ \A b, c : Precedes(t.queue, b, c) <=>
           Precedes(pool.queue, b, c) /\ b \notin ToSet(hits) /\ c \notin ToSet(hits)
  BY <1>2, TouchFields
<1>9. n \in 0 .. Len(t.queue)
  <2>1. EvictableHits(hits) \in Nat /\ Len(t.queue) = Len(pool.queue) - EvictableHits(hits)
    BY <1>2, Capacity
  <2>2. Len(pool.queue) \in Nat
    BY <1>2 DEF PoolType
  <2> HIDE DEF t
  <2> QED BY <1>5, <1>7, <2>1, <2>2
<1> HIDE DEF t
<1>10. MapOK(t)
  BY <1>2, <1>8 DEF MapOK
<1>11. /\ new \in Seq(Block) /\ Len(new) = n /\ IsInjective(new)
       /\ ToSet(new) \subseteq ToSet(t.queue) /\ PoolOK(g)
       /\ \A b \in Block : g.ref[b] = IF b \in ToSet(new) THEN 1 ELSE t.ref[b]
       /\ \A b \in Block : g.hash[b] = IF b \in ToSet(new) THEN NoHash ELSE t.hash[b]
       /\ \A b, c : Precedes(g.queue, b, c) <=>
                      Precedes(t.queue, b, c) /\ b \notin ToSet(new)
  BY <1>8, <1>9, <1>10, FreshFields
<1> HIDE DEF new, g
<1>12. \A b \in ToSet(new) :
         b \in Block /\ t.ref[b] = 0 /\ pool.ref[b] = 0 /\ b \notin ToSet(hits)
  <2>1. \A b \in ToSet(new) : b \in Block /\ t.ref[b] = 0
    BY <1>8, <1>11 DEF QueueOK
  <2>2. \A b \in Block : pool.ref[b] \in Nat
    BY <1>2
  <2> QED BY <1>8, <2>1, <2>2
<1>13. ToSet(old) \cap ToSet(new) = {}
  <2>1. \A b \in ToSet(table[r]) : b \in Block /\ pool.ref[b] # 0
    <3>1. \A b \in ToSet(table[r]) : b \in Block
      BY <1>3 DEF ToSet
    <3> QED BY <1>2, <3>1, NoHolders, HolderHolds
  <2> QED BY <1>1, <1>12, <2>1
<1>14. /\ blocks \in Seq(Block) /\ IsInjective(blocks) /\ Len(blocks) = Len(old) + Len(new)
       /\ ToSet(blocks) = ToSet(table[r]) \cup ToSet(hits) \cup ToSet(new)
  <2>1. /\ blocks \in Seq(Block) /\ Len(blocks) = Len(old) + Len(new)
        /\ ToSet(blocks) = ToSet(old) \cup ToSet(new)
        /\ IsInjective(blocks) <=>
             IsInjective(old) /\ IsInjective(new) /\ ToSet(old) \cap ToSet(new) = {}
    <3>1. old \in Seq(Block) /\ new \in Seq(Block)
      BY <1>1, <1>11
    <3> QED BY <3>1, ConcatElements
  <2> HIDE DEF blocks
  <2> QED BY <1>1, <1>11, <1>13, <2>1
<1>15. /\ DOMAIN old \subseteq DOMAIN blocks
       /\ \A i \in DOMAIN old : blocks[i] = old[i]
       /\ \A i \in DOMAIN blocks :
            i \in DOMAIN old \/ (i > Len(old) /\ blocks[i] \in ToSet(new))
  BY <1>1, <1>11, ConcatPlaces
<1> HIDE DEF blocks
<1>16. /\ Len(blocks) = CeilDiv(total, BlockSize)
       /\ DOMAIN blocks = 1 .. Len(blocks) /\ Len(blocks) \in Nat
       /\ DOMAIN old = 1 .. Len(old)
  BY <1>1, <1>6, <1>7, <1>11, <1>14
<1>17. \A i \in DOMAIN blocks : blocks[i] \in Block /\ blocks[i] \in ToSet(blocks)
  BY <1>14 DEF ToSet
<1>18. \A i \in DOMAIN blocks :
         i > cached => \/ blocks[i] \in ToSet(new)
                       \/ Holders(blocks[i]) = {r} /\ pool.hash[blocks[i]] = NoHash
  BY <1>1, <1>15 DEF Carries
<1>19. \A i \in cached + 1 .. full :
         i \in DOMAIN blocks /\ i > cached /\ g.hash[blocks[i]] = NoHash
  <2>1. \A i \in cached + 1 .. full : i \in DOMAIN blocks /\ i > cached
    BY <1>1, <1>6, <1>16
  <2> QED BY <1>8, <1>11, <1>17, <1>18, <2>1
<1>20. /\ PoolOK(q) /\ q.ref = g.ref /\ q.queue = g.queue
       /\ \A i \in cached + 1 .. full : q.hash[blocks[i]] = Hashes[r][i]
       /\ \A b \in Block :
            b \notin {blocks[i] : i \in cached + 1 .. full} => q.hash[b] = g.hash[b]
  <2>1. g \in PoolType /\ QueueOK(g) /\ MapOK(g)
    BY <1>11 DEF PoolOK
  <2>2. full <= Len(blocks)
    BY <1>6, <1>16
  <2>3. \A i \in cached + 1 .. full : g.hash[blocks[i]] = NoHash
    BY <1>19
  <2>4. cached \in Nat /\ full \in Nat
    BY <1>1, <1>6
  <2>5. Unregistered(g, blocks, cached, full)
    BY <2>3 DEF Unregistered
  <2>6. Registered(g, q, blocks, Hashes[r], cached, full)
    BY <1>4, <1>6, <1>14, <2>1, <2>2, <2>4, <2>5, RegisterFields
  <2> HIDE DEF q
  <2> QED BY <2>6 DEF Registered
<1> HIDE DEF q
<1>21. \A b \in Block : \/ q.hash[b] = pool.hash[b]
                        \/ b \in ToSet(new)
                        \/ pool.hash[b] = NoHash /\ Holders(b) = {r}
  <2> TAKE b \in Block
  <2>1. CASE b \in {blocks[i] : i \in cached + 1 .. full}
    BY <1>18, <1>19, <2>1
  <2>2. CASE b \notin {blocks[i] : i \in cached + 1 .. full}
    BY <1>8, <1>11, <1>20, <2>2
  <2> QED BY <2>1, <2>2
<1>22. \A b \in Block :
         q.ref[b] = IF b \in ToSet(hits) \cup ToSet(new) THEN pool.ref[b] + 1
                    ELSE pool.ref[b]
  BY <1>8, <1>11, <1>12, <1>20
<1>23. \A b, c : Precedes(q.queue, b, c) <=>
         /\ Precedes(pool.queue, b, c)
         /\ b \notin ToSet(hits) \cup ToSet(new) /\ c \notin ToSet(hits)
  BY <1>8, <1>11, <1>20
<1>24. kept \in Nat /\ kept <= Len(blocks) /\ kept <= Len(Hashes[r]) /\ cached <= kept
  <2>1. Len(old) <= Len(blocks)
    BY <1>1, <1>7, <1>16
  <2> QED BY <1>1, <1>4, <1>6, <1>16, <2>1
<1>25. Carries(q, foreign, r, blocks, kept)
  <2>1. ASSUME NEW i \in DOMAIN blocks, i > kept PROVE q.hash[blocks[i]] = NoHash
    <3>1. i > cached /\ i \notin cached + 1 .. full
      BY <1>1, <1>6, <1>16, <1>24, <2>1
    <3>2. blocks[i] \notin {blocks[j] : j \in cached + 1 .. full}
      BY <1>14, <1>19, <3>1 DEF IsInjective
    <3> QED BY <1>8, <1>11, <1>17, <1>18, <1>20, <3>1, <3>2
  <2>2. ASSUME NEW i \in DOMAIN blocks, ~ (i > kept)
        PROVE  \/ q.hash[blocks[i]] = Hashes[r][i]
               \/ q.hash[blocks[i]] = NoHash /\ "evict" \in foreign
    <3>1. CASE i \in cached + 1 .. full
      BY <1>20, <3>1
    <3>2. CASE i \notin cached + 1 .. full
      <4>1. ~ (i > cached) /\ i \in DOMAIN old
        BY <1>1, <1>6, <1>16, <1>24, <2>2, <3>2
      <4>2. blocks[i] \notin {blocks[j] : j \in cached + 1 .. full}
        BY <1>14, <1>19, <3>2 DEF IsInjective
      <4>3. blocks[i] = old[i] /\ blocks[i] \in ToSet(old)
        BY <1>15, <4>1 DEF ToSet
      <4>4. q.hash[blocks[i]] = pool.hash[old[i]]
        BY <1>8, <1>11, <1>13, <1>17, <1>20, <4>2, <4>3
      <4> QED BY <1>1, <4>1, <4>4 DEF Carries
    <3> QED BY <3>1, <3>2
  <2> QED BY <2>1, <2>2 DEF Carries
<1>26. \A i \in DOMAIN blocks :
         i > kept => blocks[i] \in ToSet(new) \/ Holders(blocks[i]) = {r}
  <2>1. \A i \in DOMAIN blocks : i > kept => i > cached
    BY <1>1, <1>16, <1>24
  <2> QED BY <1>18, <2>1
<1> HIDE DEF kept
<1>27. Handed(r, hits, new, blocks, kept, total)
  BY <1>5, <1>11, <1>12, <1>14, <1>16, <1>20, <1>21, <1>22, <1>23, <1>24, <1>25, <1>26
     DEF Handed
<1> QED BY <1>27

(* A block gains a holder.                                                  *)
LEMMA AllocationHolders ==
  ASSUME ManagerInv, NEW r \in Request, NEW hits, Start(r, hits),
         NEW new, NEW blocks, NEW kept, NEW total,
         Handed(r, hits, new, blocks, kept, total)
  PROVE  \A b \in Block :
           /\ b \in ToSet(hits) \cup ToSet(new) => r \notin Holders(b)
           /\ Holders(b)' = IF b \in ToSet(hits) \cup ToSet(new) THEN Holders(b) \cup {r}
                            ELSE Holders(b)
<1>1. /\ table \in [Request -> Seq(Block)] /\ table' = [table EXCEPT ![r] = blocks]
      /\ lease' = lease
      /\ ToSet(blocks) = ToSet(table[r]) \cup ToSet(hits) \cup ToSet(new)
      /\ \A b \in ToSet(new) : b \in Block /\ pool.ref[b] = 0
  BY DEF ManagerInv, TablesOK, Handed
<1>2. ToSet(table[r]) \cap ToSet(hits) = {}
  BY StartFacts
<1>3. \A b \in ToSet(new) : Holders(b) = {}
  BY <1>1, NoHolders DEF ManagerInv
<1> TAKE b \in Block
<1>4. b \in ToSet(hits) \cup ToSet(new) => r \notin Holders(b)
  BY <1>2, <1>3, HolderHolds
<1>5. table'[r] = blocks /\ \A s \in Request : s # r => table'[s] = table[s]
  BY <1>1
<1>6. Holders(b)' = {s \in Request : b \in ToSet(table'[s])}
                      \cup {l \in Lease : b \in ToSet(lease[l])}
  BY <1>1 DEF Holders
<1>7. \A s \in Request :
        b \in ToSet(table'[s]) <=>
          b \in ToSet(table[s]) \/ (s = r /\ b \in ToSet(hits) \cup ToSet(new))
  BY <1>1, <1>5
<1>8. Holders(b)' = IF b \in ToSet(hits) \cup ToSet(new) THEN Holders(b) \cup {r}
                    ELSE Holders(b)
  BY <1>6, <1>7 DEF Holders
<1> QED BY <1>4, <1>8

(* A holder more is one more.                                               *)
LEMMA GainCounts ==
  ASSUME NEW x, NEW b, x \notin Holders(b)
  PROVE  Cardinality(Holders(b) \cup {x}) = Cardinality(Holders(b)) + 1
BY HoldersFinite, FS_AddElement

(* A holder less is one less.                                               *)
LEMMA LossCounts ==
  ASSUME NEW x, NEW b, x \in Holders(b)
  PROVE  Cardinality(Holders(b) \ {x}) = Cardinality(Holders(b)) - 1
BY HoldersFinite, FS_RemoveElement

(* The invariant after an allocation, part by part.                         *)
LEMMA AllocationTables ==
  ASSUME ManagerInv, NEW r \in Request, NEW hits, Start(r, hits),
         NEW total \in slots[r] .. MaxTokens[r],
         NEW new, NEW blocks, NEW kept, Handed(r, hits, new, blocks, kept, total)
  PROVE  PoolOK(pool)' /\ TablesOK' /\ LeasesOK' /\ ForeignOK' /\ RefsOK'
<1>1. PoolOK(pool)' /\ LeasesOK' /\ ForeignOK'
  BY DEF Handed, ManagerInv, LeasesOK, ForeignOK
<1>2. TablesOK'
  <2>1. /\ table \in [Request -> Seq(Block)]
        /\ numCached \in [Request -> Nat] /\ slots \in [Request -> Nat]
    BY DEF ManagerInv, TablesOK
  <2>2. /\ blocks \in Seq(Block) /\ IsInjective(blocks)
        /\ Len(blocks) = CeilDiv(total, BlockSize)
        /\ kept \in Nat /\ kept <= Len(blocks) /\ kept <= Len(Hashes[r])
        /\ table' = [table EXCEPT ![r] = blocks]
        /\ numCached' = [numCached EXCEPT ![r] = kept]
        /\ slots' = [slots EXCEPT ![r] = total]
    BY DEF Handed
  <2>3. total \in Nat /\ total <= MaxTokens[r]
    BY <2>1, RequestFacts
  <2>4. /\ table' \in [Request -> Seq(Block)]
        /\ numCached' \in [Request -> Nat] /\ slots' \in [Request -> Nat]
    BY <2>1, <2>2, <2>3
  <2>5. ASSUME NEW s \in Request
        PROVE  /\ IsInjective(table'[s])
               /\ slots'[s] <= MaxTokens[s]
               /\ Len(table'[s]) = CeilDiv(slots'[s], BlockSize)
               /\ numCached'[s] <= Len(table'[s]) /\ numCached'[s] <= Len(Hashes[s])
    <3>1. CASE s = r
      BY <2>1, <2>2, <2>3, <3>1
    <3>2. CASE s # r
      <4>1. table'[s] = table[s] /\ slots'[s] = slots[s] /\ numCached'[s] = numCached[s]
        BY <2>1, <2>2, <3>2
      <4> QED BY <4>1 DEF ManagerInv, TablesOK
    <3> QED BY <3>1, <3>2
  <2> QED BY <2>4, <2>5 DEF TablesOK
<1>3. RefsOK'
  <2> SUFFICES ASSUME NEW b \in Block PROVE pool'.ref[b] = Cardinality(Holders(b)')
    BY DEF RefsOK
  <2>1. /\ b \in ToSet(hits) \cup ToSet(new) => r \notin Holders(b)
        /\ Holders(b)' = IF b \in ToSet(hits) \cup ToSet(new) THEN Holders(b) \cup {r}
                         ELSE Holders(b)
    BY AllocationHolders
  <2>2. pool.ref[b] = Cardinality(Holders(b))
    BY DEF ManagerInv, RefsOK
  <2>3. pool'.ref[b] = IF b \in ToSet(hits) \cup ToSet(new) THEN pool.ref[b] + 1
                       ELSE pool.ref[b]
    BY DEF Handed
  <2> QED BY <2>1, <2>2, <2>3, GainCounts
<1> QED BY <1>1, <1>2, <1>3

(* Hits carry the request's hashes, and registering extends them.           *)
LEMMA AllocationCarries ==
  ASSUME ManagerInv, NEW r \in Request, NEW hits, Start(r, hits),
         NEW total \in slots[r] .. MaxTokens[r],
         NEW new, NEW blocks, NEW kept, Handed(r, hits, new, blocks, kept, total)
  PROVE  Private' /\ CarryOK'
<1>1. /\ table \in [Request -> Seq(Block)] /\ numCached \in [Request -> Nat]
      /\ table' = [table EXCEPT ![r] = blocks] /\ foreign' = foreign
      /\ numCached' = [numCached EXCEPT ![r] = kept]
      /\ blocks \in Seq(Block)
  BY DEF ManagerInv, TablesOK, Handed
<1>2. /\ table'[r] = blocks /\ numCached'[r] = kept
      /\ \A s \in Request : s # r => table'[s] = table[s] /\ numCached'[s] = numCached[s]
  BY <1>1
<1>3. \A b \in Block :
        /\ b \in ToSet(hits) \cup ToSet(new) => r \notin Holders(b)
        /\ Holders(b)' = IF b \in ToSet(hits) \cup ToSet(new) THEN Holders(b) \cup {r}
                         ELSE Holders(b)
  BY AllocationHolders
<1>4. /\ \A b \in ToSet(new) : b \in Block /\ Holders(b) = {}
      /\ \A b \in ToSet(hits) : b \in Block /\ pool.hash[b] # NoHash
  <2>1. \A b \in ToSet(new) : b \in Block /\ Holders(b) = {}
    BY NoHolders DEF Handed, ManagerInv
  <2>2. hits \in Seq(Block) /\ \A i \in DOMAIN hits : pool.hash[hits[i]] \in Hash
    BY RequestFacts DEF Start
  <2>3. \A b \in ToSet(hits) : b \in Block /\ pool.hash[b] \in Hash
    BY <2>2 DEF ToSet
  <2> QED BY <2>1, <2>3, BlockPoolAssumption
<1>5. \A s \in Request : \A i \in DOMAIN table[s] :
        table[s][i] \in Block /\ table[s][i] \in ToSet(table[s]) /\ s \in Holders(table[s][i])
  <2>1. \A s \in Request : \A i \in DOMAIN table[s] :
          table[s][i] \in Block /\ table[s][i] \in ToSet(table[s])
    BY <1>1 DEF ToSet
  <2> QED BY <2>1, HolderHolds
<1>6. Private'
  <2> SUFFICES ASSUME NEW s \in Request, NEW i \in DOMAIN table'[s], i > numCached'[s],
                      NEW b, b = table'[s][i]
               PROVE  Holders(b)' = {s}
    BY DEF Private, Holders
  <2>1. CASE s = r
    <3>1. blocks[i] \in ToSet(new) \/ Holders(blocks[i]) = {r}
      BY <1>2, <2>1 DEF Handed
    <3>2. b = blocks[i] /\ b \in Block
      BY <1>1, <1>2, <2>1
    <3>3. Holders(b)' = {r}
      BY <1>3, <1>4, <3>1, <3>2
    <3> QED BY <2>1, <3>3
  <2>2. CASE s # r
    <3>1. table'[s] = table[s] /\ i > numCached[s] /\ i \in DOMAIN table[s]
      BY <1>2, <2>2
    <3>2. Holders(b) = {s} /\ pool.hash[b] = NoHash
      BY <3>1 DEF ManagerInv, Private, CarryOK, Carries
    <3>3. b \notin ToSet(hits) \cup ToSet(new)
      BY <1>4, <3>2
    <3> QED BY <1>3, <1>5, <3>1, <3>2, <3>3
  <2> QED BY <2>1, <2>2
<1>7. CarryOK'
  <2> SUFFICES ASSUME NEW s \in Request
               PROVE  Carries(pool', foreign', s, table'[s], numCached'[s])
    BY DEF CarryOK
  <2>1. CASE s = r
    BY <1>1, <1>2, <2>1 DEF Handed
  <2>2. CASE s # r
    <3>1. \A i \in DOMAIN table[s] : pool'.hash[table[s][i]] = pool.hash[table[s][i]]
      <4> TAKE i \in DOMAIN table[s]
      <4>1. table[s][i] \in Block /\ s \in Holders(table[s][i])
        BY <1>5
      <4>2. table[s][i] \notin ToSet(new) /\ Holders(table[s][i]) # {r}
        BY <1>4, <2>2, <4>1
      <4> QED BY <4>1, <4>2 DEF Handed
    <3>2. Carries(pool, foreign, s, table[s], numCached[s])
      BY DEF ManagerInv, CarryOK
    <3>3. table'[s] = table[s] /\ numCached'[s] = numCached[s] /\ foreign' = foreign
      BY <1>1, <1>2, <2>2
    <3>4. Carries(pool', foreign, s, table[s], numCached[s])
      BY <3>1, <3>2 DEF Carries
    <3> QED BY <3>3, <3>4
  <2> QED BY <2>1, <2>2
<1> QED BY <1>6, <1>7

(* Taking the hits out and the head off keeps the queue's order.            *)
LEMMA AllocationOrder ==
  ASSUME ManagerInv, NEW r \in Request, NEW hits, Start(r, hits),
         NEW new, NEW blocks, NEW kept, NEW total,
         Handed(r, hits, new, blocks, kept, total)
  PROVE  PlainFirst' /\ PrefixesLast'
<1>1. /\ PoolOK(pool) /\ PoolOK(pool') /\ foreign' = foreign
      /\ pool.queue \in Seq(Block) /\ pool'.queue \in Seq(Block)
      /\ ToSet(pool.queue) = {b \in Block : pool.ref[b] = 0}
      /\ ToSet(pool'.queue) = {b \in Block : pool'.ref[b] = 0}
      /\ \A b \in Block : pool.ref[b] \in Nat
  BY DEF ManagerInv, Handed, PoolOK, QueueOK, PoolType
<1>2. \A b \in Block :
        /\ pool'.ref[b] = IF b \in ToSet(hits) \cup ToSet(new) THEN pool.ref[b] + 1
                          ELSE pool.ref[b]
        /\ \/ pool'.hash[b] = pool.hash[b]
           \/ b \in ToSet(new)
           \/ pool.hash[b] = NoHash /\ Holders(b) = {r}
  BY DEF Handed
<1>3. \A b, c : Precedes(pool'.queue, b, c) <=>
        /\ Precedes(pool.queue, b, c)
        /\ b \notin ToSet(hits) \cup ToSet(new) /\ c \notin ToSet(hits)
  BY DEF Handed
<1>4. ASSUME NEW b \in Block, pool'.ref[b] = 0
      PROVE  /\ pool.ref[b] = 0 /\ pool'.hash[b] = pool.hash[b]
             /\ b \notin ToSet(hits) \cup ToSet(new)
  <2>1. pool.ref[b] = 0 /\ b \notin ToSet(hits) \cup ToSet(new)
    BY <1>1, <1>2, <1>4
  <2>2. Holders(b) = {}
    BY <2>1, NoHolders DEF ManagerInv
  <2> QED BY <1>2, <2>1, <2>2
<1>5. \A b, c : Precedes(pool'.queue, b, c) =>
                  b \in Block /\ pool'.ref[b] = 0 /\ c \in Block /\ pool'.ref[c] = 0
  <2>1. \A b, c : Precedes(pool'.queue, b, c) => b \in ToSet(pool'.queue) /\ c \in ToSet(pool'.queue)
    BY <1>1, PrecedesTyped
  <2> QED BY <1>1, <2>1
<1>6. PlainFirst'
  <2> SUFFICES ASSUME "evict" \notin foreign, NEW b, NEW c,
                      Precedes(pool'.queue, b, c), ~ Plain(pool', b)
               PROVE  ~ Plain(pool', c)
    BY <1>1 DEF PlainFirst
  <2>1. pool'.hash[b] = pool.hash[b] /\ pool'.hash[c] = pool.hash[c]
    BY <1>4, <1>5
  <2>2. Precedes(pool.queue, b, c)
    BY <1>3
  <2> QED BY <2>1, <2>2 DEF ManagerInv, PlainFirst, Plain
<1>7. PrefixesLast'
  <2> SUFFICES ASSUME foreign = {}, NEW b \in Block, NEW s \in Request,
                      NEW k \in 2 .. Len(Hashes[s]),
                      pool'.ref[b] = 0, pool'.hash[b] = Hashes[s][k]
               PROVE  \E c : pool'.hash[c] = Hashes[s][k - 1] /\ Outlives(pool', b, c)
    BY <1>1 DEF PrefixesLast
  <2>1. /\ pool.ref[b] = 0 /\ pool.hash[b] = Hashes[s][k]
        /\ b \notin ToSet(hits) \cup ToSet(new)
    BY <1>4
  <2>2. PICK c : pool.hash[c] = Hashes[s][k - 1] /\ Outlives(pool, b, c)
    BY <2>1 DEF ManagerInv, PrefixesLast
  <2>3. c \in Block /\ pool.ref[c] \in Nat /\ pool'.ref[c] \in Nat /\ Hashes[s][k - 1] # NoHash
    <3>1. c \in Block
      BY <2>2 DEF Outlives
    <3>2. k - 1 \in DOMAIN Hashes[s] /\ Hashes[s] \in Seq(Hash)
      BY RequestFacts
    <3>3. pool'.ref \in [Block -> Nat]
      BY <1>1 DEF PoolOK, PoolType
    <3> QED BY <1>1, <3>1, <3>2, <3>3, BlockPoolAssumption
  <2>4. CASE pool'.ref[c] > 0
    <3>1. c \notin ToSet(new)
      <4> SUFFICES ASSUME c \in ToSet(new) PROVE FALSE
        OBVIOUS
      <4>1. pool.ref[c] = 0 /\ c \notin ToSet(hits)
        BY DEF Handed
      <4>2. Precedes(pool.queue, b, c)
        BY <2>2, <4>1 DEF Outlives
      <4>3. Precedes(pool'.queue, b, c)
        BY <1>3, <2>1, <4>1, <4>2
      <4> QED BY <1>5, <2>4, <4>3
    <3>2. pool'.hash[c] = Hashes[s][k - 1]
      BY <1>2, <2>2, <2>3, <3>1
    <3> QED BY <2>3, <2>4, <3>2 DEF Outlives
  <2>5. CASE pool'.ref[c] = 0
    <3>1. /\ pool.ref[c] = 0 /\ pool'.hash[c] = pool.hash[c]
          /\ c \notin ToSet(hits) \cup ToSet(new)
      BY <1>4, <2>3, <2>5
    <3>2. Precedes(pool.queue, b, c)
      BY <2>2, <3>1 DEF Outlives
    <3>3. Precedes(pool'.queue, b, c)
      BY <1>3, <2>1, <3>1, <3>2
    <3> QED BY <2>2, <2>3, <3>1, <3>3 DEF Outlives
  <2> QED BY <2>3, <2>4, <2>5
<1> QED BY <1>6, <1>7

-----------------------------------------------------------------------------
(* The longest run of cached hashes exists, so its length is what           *)
(* HitLength chooses.                                                       *)
LEMMA LongestHit ==
  ASSUME NEW r, NEW limit \in Nat, limit \div BlockSize \in Nat
  PROVE  /\ HitLength(r, limit) \in 0 .. limit \div BlockSize
         /\ \A i \in 1 .. HitLength(r, limit) : IsCached(pool, Hashes[r][i])
<1> DEFINE most == limit \div BlockSize
           hit(i) == IsCached(pool, Hashes[r][i])
           ends(k) == (\A i \in 1 .. k : hit(i)) /\ (k < most => ~ hit(k + 1))
           T == {k \in 0 .. most : k < most => ~ hit(k + 1)}
<1>1. most \in Nat
  OBVIOUS
<1>2. HitLength(r, limit) = CHOOSE k \in 0 .. most : ends(k)
  BY DEF HitLength
<1> HIDE DEF most, hit
<1>3. most \in T /\ T \subseteq 0 .. most /\ T \in SUBSET Nat
  BY <1>1
<1>4. PICK m \in T : \A k \in T : m <= k
  <2> HIDE DEF T
  <2> QED BY <1>3, NatMin
<1>5. m \in 0 .. most
  BY <1>3
<1>6. ASSUME NEW i \in 1 .. m PROVE hit(i)
  <2>1. i \in Nat /\ m \in Nat /\ i >= 1 /\ i <= m /\ m <= most
    BY <1>1, <1>5
  <2>2. i - 1 \in 0 .. most /\ i - 1 < most /\ ~ (m <= i - 1) /\ (i - 1) + 1 = i
    BY <1>1, <2>1
  <2>3. i - 1 \notin T
    BY <1>4, <2>2
  <2> QED BY <2>2, <2>3
<1>7. ends(m)
  BY <1>6
<1> HIDE DEF ends
<1>8. HitLength(r, limit) \in 0 .. most /\ ends(HitLength(r, limit))
  BY <1>2, <1>5, <1>7
<1> QED BY <1>8 DEF ends, most, hit

(* The hits of a waiting request carry its hashes, so they are distinct.    *)
LEMMA HitsStart ==
  ASSUME ManagerInv, NEW r \in Request, slots[r] = 0,
         NEW limit \in Nat, limit < MaxTokens[r]
  PROVE  Start(r, ComputedBlocks(r, limit))
<1> DEFINE k == HitLength(r, limit)
           hits == ComputedBlocks(r, limit)
<1>1. /\ BlockSize \in Nat \ {0} /\ MaxTokens[r] \in Nat /\ Hashes[r] \in Seq(Hash)
      /\ Len(Hashes[r]) = MaxTokens[r] \div BlockSize /\ Len(Hashes[r]) \in Nat
      /\ DOMAIN Hashes[r] = 1 .. Len(Hashes[r])
  BY RequestFacts
<1>2. limit \div BlockSize \in Nat /\ limit \div BlockSize <= Len(Hashes[r])
  <2>1. limit <= MaxTokens[r]
    BY <1>1
  <2> QED BY <1>1, <2>1, BlocksOfTokens
<1>3. k \in 0 .. limit \div BlockSize /\ \A i \in 1 .. k : IsCached(pool, Hashes[r][i])
  BY <1>2, LongestHit
<1>4. hits = [i \in 1 .. k |-> CachedBlock(pool, Hashes[r][i])]
  BY DEF ComputedBlocks
<1> HIDE DEF k, hits
<1>5. k \in Nat /\ 1 .. k \subseteq DOMAIN Hashes[r]
  BY <1>1, <1>2, <1>3
<1>6. \A i \in 1 .. k : Hashes[r][i] \in Hash
  BY <1>1, <1>5
<1>7. ASSUME NEW h \in Hash, IsCached(pool, h)
      PROVE  CachedBlock(pool, h) \in Block /\ pool.hash[CachedBlock(pool, h)] = h
  <2>1. /\ pool.map[h] \in Seq(Block) /\ pool.map[h] # << >>
        /\ ToSet(pool.map[h]) = {b \in Block : pool.hash[b] = h}
    BY <1>7 DEF ManagerInv, PoolOK, PoolType, MapOK, IsCached
  <2>2. Head(pool.map[h]) \in ToSet(pool.map[h])
    BY <2>1, TailElements
  <2> QED BY <2>1, <2>2 DEF CachedBlock
<1>8. \A i \in 1 .. k : hits[i] \in Block /\ pool.hash[hits[i]] = Hashes[r][i]
  <2> TAKE i \in 1 .. k
  <2>1. hits[i] = CachedBlock(pool, Hashes[r][i])
    BY <1>4
  <2> QED BY <1>3, <1>6, <1>7, <2>1
<1>9. DOMAIN hits = 1 .. k
  BY <1>4
<1>10. hits \in Seq(Block)
  <2>1. hits \in [1 .. k -> Block]
    BY <1>4, <1>8, <1>9
  <2> QED BY <1>5, <2>1
<1>11. IsInjective(hits)
  BY <1>5, <1>8, <1>9, ChainAssumption DEF IsInjective
<1>12. table[r] = << >> /\ numCached[r] = 0
  <2>1. /\ table[r] \in Seq(Block) /\ Len(table[r]) = CeilDiv(slots[r], BlockSize)
        /\ numCached[r] \in Nat /\ numCached[r] <= Len(table[r])
    BY DEF ManagerInv, TablesOK
  <2>2. Len(table[r]) = 0
    BY <2>1, NoTokens
  <2> QED BY <2>1, <2>2, EmptySeq
<1>13. Start(r, hits)
  BY <1>5, <1>8, <1>9, <1>10, <1>11, <1>12 DEF Start
<1> QED BY <1>13 DEF hits

(* The two calls of allocate_slots.                                         *)
Allocates(r) ==
  \E hits, new, blocks, kept, total :
    /\ Start(r, hits) /\ total \in slots[r] .. MaxTokens[r]
    /\ Handed(r, hits, new, blocks, kept, total)

(* Any allocation keeps the invariant.                                      *)
LEMMA AllocationKeeps ==
  ASSUME ManagerInv, NEW r \in Request, Allocates(r)
  PROVE  ManagerInv'
<1>1. PICK hits, new, blocks, kept, total :
        /\ Start(r, hits) /\ total \in slots[r] .. MaxTokens[r]
        /\ Handed(r, hits, new, blocks, kept, total)
  BY DEF Allocates
<1>2. PoolOK(pool)' /\ TablesOK' /\ LeasesOK' /\ ForeignOK' /\ RefsOK'
  BY <1>1, AllocationTables
<1>3. Private' /\ CarryOK'
  BY <1>1, AllocationCarries
<1>4. PlainFirst' /\ PrefixesLast'
  BY <1>1, AllocationOrder
<1> QED BY <1>2, <1>3, <1>4 DEF ManagerInv

(* A waiting request allocates behind the longest hit.                      *)
LEMMA WaitingAllocates ==
  ASSUME ManagerInv, NEW r \in Request, AllocateWaiting(r)
  PROVE  Allocates(r)
<1>1. slots[r] = 0
  BY DEF AllocateWaiting
<1>2. PICK known \in PromptTokens[r] .. MaxTokens[r] :
        \E total \in (Len(ComputedBlocks(r, known - 1)) * BlockSize + 1) .. known :
          AllocateSlots(r, ComputedBlocks(r, known - 1), total)
  BY DEF AllocateWaiting
<1> DEFINE hits == ComputedBlocks(r, known - 1)
<1>3. PICK total \in (Len(hits) * BlockSize + 1) .. known : AllocateSlots(r, hits, total)
  BY <1>2
<1>4. /\ BlockSize \in Nat \ {0} /\ MaxTokens[r] \in Nat /\ PromptTokens[r] \in Nat \ {0}
      /\ known \in Nat /\ known <= MaxTokens[r]
  BY RequestFacts
<1>5. known - 1 \in Nat /\ known - 1 < MaxTokens[r]
  BY RequestFacts
<1>6. Start(r, hits)
  BY <1>1, <1>5, HitsStart
<1> HIDE DEF hits
<1>7. Len(hits) \in Nat
  BY <1>6 DEF Start
<1>8. Len(hits) * BlockSize \in Nat
  BY <1>4, <1>7
<1>9. total \in slots[r] .. MaxTokens[r] /\ Len(hits) * BlockSize + 1 <= total
  BY <1>1, <1>3, <1>4, <1>8
<1> QED BY <1>3, <1>6, <1>9, AllocationHands DEF Allocates

(* A running request allocates behind its own table.                        *)
LEMMA RunningAllocates ==
  ASSUME ManagerInv, NEW r \in Request, AllocateRunning(r)
  PROVE  Allocates(r)
<1>1. PICK total \in (slots[r] + 1) .. MaxTokens[r] : AllocateSlots(r, << >>, total)
  BY DEF AllocateRunning
<1>2. slots[r] \in Nat /\ MaxTokens[r] \in Nat /\ BlockSize \in Nat
  BY RequestFacts DEF ManagerInv, TablesOK
<1>3. total \in slots[r] .. MaxTokens[r] /\ 1 <= total
  BY <1>1, <1>2
<1>4. Len(<< >>) = 0 /\ 0 * BlockSize + 1 = 1
  BY <1>2
<1>5. Start(r, << >>)
  BY EmptySeq DEF Start, IsInjective
<1>6. Len(<< >>) * BlockSize + 1 <= total
  BY <1>3, <1>4
<1> DEFINE hits == << >>
<1> HIDE DEF hits
<1>7. Start(r, hits) /\ Len(hits) * BlockSize + 1 <= total /\ AllocateSlots(r, hits, total)
  BY <1>1, <1>5, <1>6 DEF hits
<1> QED BY <1>3, <1>7, AllocationHands DEF Allocates

-----------------------------------------------------------------------------
(* A holder gives all its blocks back: a request its table, a lease the     *)
(* blocks it pinned.                                                        *)
Gives(x, given) ==
  /\ given \in Seq(Block) /\ IsInjective(given)
  /\ pool' = FreeBlocks(pool, Reverse(given)) /\ foreign' = foreign
  /\ \A b \in Block : /\ x \in Holders(b) <=> b \in ToSet(given)
                      /\ Holders(b)' = Holders(b) \ {x}

(* The blocks nobody else holds go to the queue, the last one first.        *)
Left(p, given) == {b \in ToSet(given) : p.ref[b] = 1}

Given(given) ==
  /\ PoolOK(pool') /\ pool'.hash = pool.hash
  /\ \A b \in Block :
       pool'.ref[b] = IF b \in ToSet(given) THEN pool.ref[b] - 1 ELSE pool.ref[b]
  /\ \A b \in ToSet(given) : b \in Block /\ pool.ref[b] > 0
  /\ \A b, c : Precedes(pool'.queue, b, c) <=>
       \/ Precedes(pool.queue, b, c)
       \/ /\ Precedes(given, c, b) /\ {b, c} \subseteq Left(pool, given)
          /\ Plain(pool, b) <=> Plain(pool, c)
       \/ /\ b \in Left(pool, given) /\ Plain(pool, b)
          /\ \/ c \in ToSet(pool.queue)
             \/ c \in Left(pool, given) /\ ~ Plain(pool, c)
       \/ /\ b \in ToSet(pool.queue)
          /\ c \in Left(pool, given) /\ ~ Plain(pool, c)

(* A holder that gives its blocks back, in whatever order.                  *)
LEMMA GivesBack ==
  ASSUME ManagerInv, NEW x, NEW given, Gives(x, given)
  PROVE  Given(given) /\ RefsOK' /\ PlainFirst'
<1> DEFINE back == Reverse(given)
           q == FreeBlocks(pool, back)
<1>1. /\ given \in Seq(Block) /\ IsInjective(given) /\ pool' = q /\ foreign' = foreign
      /\ \A b \in Block : /\ x \in Holders(b) <=> b \in ToSet(given)
                          /\ Holders(b)' = Holders(b) \ {x}
  BY DEF Gives
<1>2. /\ pool \in PoolType /\ QueueOK(pool) /\ MapOK(pool) /\ PoolOK(pool) /\ RefsOK
      /\ pool.ref \in [Block -> Nat]
  BY DEF ManagerInv, PoolOK, PoolType
<1>3. /\ back \in Seq(Block) /\ ToSet(back) = ToSet(given)
      /\ \A b, c : Precedes(back, b, c) <=> Precedes(given, c, b)
  BY <1>1, ReverseOrder
<1> HIDE DEF back
<1>4. IsInjective(back)
  BY <1>1, <1>3, InjectiveIsStrict
<1>5. \A b \in ToSet(given) : b \in Block /\ pool.ref[b] > 0
  <2>1. \A b \in ToSet(given) : b \in Block
    BY <1>1 DEF ToSet
  <2>2. \A b \in ToSet(given) : pool.ref[b] # 0
    BY <1>1, <1>2, <2>1, NoHolders
  <2> QED BY <1>2, <2>1, <2>2
<1>6. \A b \in ToSet(back) : pool.ref[b] # 0
  BY <1>3, <1>5
<1>7. Released(pool, back) = Left(pool, given)
  BY <1>3 DEF Released, Left
<1>8. /\ PoolOK(q) /\ q.hash = pool.hash
      /\ \A b \in Block :
           q.ref[b] = IF b \in ToSet(back) THEN pool.ref[b] - 1 ELSE pool.ref[b]
      /\ \A b, c : Precedes(q.queue, b, c) <=>
           \/ Precedes(pool.queue, b, c)
           \/ /\ Precedes(back, b, c) /\ {b, c} \subseteq Released(pool, back)
              /\ Plain(pool, b) <=> Plain(pool, c)
           \/ /\ b \in Released(pool, back) /\ Plain(pool, b)
              /\ \/ c \in ToSet(pool.queue)
                 \/ c \in Released(pool, back) /\ ~ Plain(pool, c)
           \/ /\ b \in ToSet(pool.queue)
              /\ c \in Released(pool, back) /\ ~ Plain(pool, c)
  BY <1>2, <1>3, <1>4, <1>6, FreeFields
<1> HIDE DEF q
<1>9. Given(given)
  BY <1>1, <1>3, <1>5, <1>7, <1>8 DEF Given
<1>10. RefsOK'
  <2> SUFFICES ASSUME NEW b \in Block PROVE pool'.ref[b] = Cardinality(Holders(b)')
    BY DEF RefsOK
  <2>1. pool.ref[b] = Cardinality(Holders(b))
    BY <1>2 DEF RefsOK
  <2>2. CASE b \in ToSet(given)
    <3>1. Cardinality(Holders(b) \ {x}) = Cardinality(Holders(b)) - 1
      BY <1>1, <2>2, LossCounts
    <3> QED BY <1>1, <1>3, <1>8, <2>1, <2>2, <3>1
  <2>3. CASE b \notin ToSet(given)
    <3>1. Holders(b)' = Holders(b)
      BY <1>1, <2>3
    <3> QED BY <1>1, <1>3, <1>8, <2>1, <2>3, <3>1
  <2> QED BY <2>2, <2>3
<1>11. PlainFirst'
  <2> SUFFICES ASSUME "evict" \notin foreign, NEW b, NEW c,
                      Precedes(pool'.queue, b, c), ~ Plain(pool', b)
               PROVE  ~ Plain(pool', c)
    BY <1>1 DEF PlainFirst
  <2>1. \A d : Plain(pool', d) <=> Plain(pool, d)
    BY <1>1, <1>8 DEF Plain
  <2>2. Precedes(pool.queue, b, c) => ~ Plain(pool, c)
    BY <2>1 DEF ManagerInv, PlainFirst
  <2> QED BY <1>1, <1>8, <2>1, <2>2
<1> QED BY <1>9, <1>10, <1>11

(* free.                                                                    *)
LEMMA FreeGives ==
  ASSUME ManagerInv, NEW r \in Request, Free(r)
  PROVE  Gives(r, table[r])
<1>1. /\ table \in [Request -> Seq(Block)] /\ IsInjective(table[r])
      /\ table' = [table EXCEPT ![r] = << >>] /\ lease' = lease
      /\ pool' = FreeBlocks(pool, Reverse(table[r])) /\ foreign' = foreign
  BY DEF ManagerInv, TablesOK, Free
<1>2. ASSUME NEW b \in Block PROVE Holders(b)' = Holders(b) \ {r}
  <2>1. table'[r] = << >> /\ \A s \in Request : s # r => table'[s] = table[s]
    BY <1>1
  <2>2. Holders(b)' = {s \in Request : b \in ToSet(table'[s])}
                        \cup {l \in Lease : b \in ToSet(lease[l])}
    BY <1>1 DEF Holders
  <2>3. ToSet(<< >>) = {}
    BY DEF ToSet
  <2>4. \A s \in Request : b \in ToSet(table'[s]) <=> b \in ToSet(table[s]) /\ s # r
    BY <2>1, <2>3
  <2>5. r \notin Lease
    BY ManagerAssumption
  <2> QED BY <2>2, <2>4, <2>5 DEF Holders
<1>3. \A b \in Block : r \in Holders(b) <=> b \in ToSet(table[r])
  BY HolderHolds
<1> QED BY <1>1, <1>2, <1>3 DEF Gives

(* free takes the request's table and leaves the others.                    *)
LEMMA FreeTables ==
  ASSUME ManagerInv, NEW r \in Request, Free(r)
  PROVE  TablesOK' /\ LeasesOK' /\ ForeignOK' /\ Private' /\ CarryOK'
<1>1. /\ table \in [Request -> Seq(Block)]
      /\ numCached \in [Request -> Nat] /\ slots \in [Request -> Nat]
      /\ table' = [table EXCEPT ![r] = << >>] /\ numCached' = [numCached EXCEPT ![r] = 0]
      /\ slots' = [slots EXCEPT ![r] = 0] /\ lease' = lease /\ foreign' = foreign
  BY DEF ManagerInv, TablesOK, Free
<1>2. /\ table'[r] = << >> /\ numCached'[r] = 0 /\ slots'[r] = 0
      /\ \A s \in Request : s # r =>
           table'[s] = table[s] /\ numCached'[s] = numCached[s] /\ slots'[s] = slots[s]
  BY <1>1
<1>3. << >> \in Seq(Block) /\ Len(<< >>) = 0 /\ DOMAIN << >> = {} /\ IsInjective(<< >>)
  BY EmptySeq DEF IsInjective
<1>4. LeasesOK' /\ ForeignOK'
  BY <1>1 DEF ManagerInv, LeasesOK, ForeignOK
<1>5. TablesOK'
  <2>1. /\ table' \in [Request -> Seq(Block)]
        /\ numCached' \in [Request -> Nat] /\ slots' \in [Request -> Nat]
    BY <1>1, <1>3
  <2>2. ASSUME NEW s \in Request
        PROVE  /\ IsInjective(table'[s])
               /\ slots'[s] <= MaxTokens[s]
               /\ Len(table'[s]) = CeilDiv(slots'[s], BlockSize)
               /\ numCached'[s] <= Len(table'[s]) /\ numCached'[s] <= Len(Hashes[s])
    <3>1. CASE s = r
      <4>1. MaxTokens[r] \in Nat /\ Len(Hashes[r]) \in Nat
        BY RequestFacts
      <4> QED BY <1>2, <1>3, <3>1, <4>1, NoTokens
    <3>2. CASE s # r
      <4>1. table'[s] = table[s] /\ slots'[s] = slots[s] /\ numCached'[s] = numCached[s]
        BY <1>2, <3>2
      <4> QED BY <4>1 DEF ManagerInv, TablesOK
    <3> QED BY <3>1, <3>2
  <2> QED BY <2>1, <2>2 DEF TablesOK
<1>6. Private'
  <2> SUFFICES ASSUME NEW s \in Request, NEW i \in DOMAIN table'[s], i > numCached'[s],
                      NEW b, b = table'[s][i]
               PROVE  Holders(b)' = {s}
    BY DEF Private, Holders
  <2>1. s # r /\ table'[s] = table[s] /\ numCached'[s] = numCached[s]
    BY <1>2, <1>3
  <2>2. Holders(b) = {s}
    BY <2>1 DEF ManagerInv, Private
  <2>3. b \in Block
    BY <1>1, <2>1
  <2>4. Holders(b)' = Holders(b) \ {r}
    BY <2>3, FreeGives DEF Gives
  <2> QED BY <2>1, <2>2, <2>4
<1>7. CarryOK'
  <2> SUFFICES ASSUME NEW s \in Request
               PROVE  Carries(pool', foreign', s, table'[s], numCached'[s])
    BY DEF CarryOK
  <2>1. pool'.hash = pool.hash
    BY FreeGives, GivesBack DEF Given
  <2>2. CASE s = r
    BY <1>2, <1>3, <2>2 DEF Carries
  <2>3. CASE s # r
    <3>1. table'[s] = table[s] /\ numCached'[s] = numCached[s]
      BY <1>2, <2>3
    <3>2. Carries(pool, foreign, s, table[s], numCached[s])
      BY DEF ManagerInv, CarryOK
    <3> QED BY <1>1, <2>1, <3>1, <3>2 DEF Carries
  <2> QED BY <2>2, <2>3
<1> QED BY <1>4, <1>5, <1>6, <1>7

(* The table went back tail first: a block's prefix is behind it.           *)
LEMMA FreePrefixes ==
  ASSUME ManagerInv, NEW r \in Request, Free(r)
  PROVE  PrefixesLast'
<1> DEFINE given == table[r]
<1>1. Given(given) /\ foreign' = foreign /\ given \in Seq(Block) /\ IsInjective(given)
  BY FreeGives, GivesBack DEF Gives
<1>2. /\ pool.queue \in Seq(Block) /\ ToSet(pool.queue) = {b \in Block : pool.ref[b] = 0}
      /\ \A b \in Block : pool.ref[b] \in Nat
  BY DEF ManagerInv, PoolOK, QueueOK, PoolType
<1>3. DOMAIN given = 1 .. Len(given) /\ Len(given) \in Nat
      /\ \A i \in DOMAIN given : given[i] \in ToSet(given) /\ given[i] \in Block
  <2>1. DOMAIN given = 1 .. Len(given) /\ Len(given) \in Nat
    BY <1>1
  <2>2. \A i \in DOMAIN given : given[i] \in ToSet(given) /\ given[i] \in Block
    BY <1>1 DEF ToSet
  <2> QED BY <2>1, <2>2
<1>4. Carries(pool, foreign, r, given, numCached[r]) /\ numCached[r] \in Nat
      /\ numCached[r] <= Len(Hashes[r])
  BY DEF ManagerInv, CarryOK, TablesOK
<1> SUFFICES ASSUME foreign = {}, NEW b \in Block, NEW s \in Request,
                    NEW k \in 2 .. Len(Hashes[s]),
                    pool'.ref[b] = 0, pool'.hash[b] = Hashes[s][k]
             PROVE  \E c : pool'.hash[c] = Hashes[s][k - 1] /\ Outlives(pool', b, c)
  BY <1>1 DEF PrefixesLast
<1>5. /\ Hashes[s] \in Seq(Hash) /\ Len(Hashes[s]) \in Nat /\ k \in DOMAIN Hashes[s]
      /\ k - 1 \in DOMAIN Hashes[s]
      /\ Hashes[s][k] # NoHash /\ Hashes[s][k - 1] # NoHash
  <2>1. /\ Hashes[s] \in Seq(Hash) /\ Len(Hashes[s]) \in Nat /\ k \in DOMAIN Hashes[s]
        /\ k - 1 \in DOMAIN Hashes[s]
    BY RequestFacts
  <2> QED BY <2>1, BlockPoolAssumption
<1> HIDE DEF given
<1>6. pool.hash[b] = Hashes[s][k]
  BY <1>1 DEF Given
<1>7. CASE pool.ref[b] = 0
  <2>1. PICK c : pool.hash[c] = Hashes[s][k - 1] /\ Outlives(pool, b, c)
    BY <1>6, <1>7 DEF ManagerInv, PrefixesLast
  <2>2. c \in Block /\ (pool.ref[c] > 0 \/ Precedes(pool.queue, b, c))
    BY <2>1 DEF Outlives
  <2>3. pool'.hash[c] = Hashes[s][k - 1]
    BY <1>1, <2>1 DEF Given
  <2>4. pool'.ref[c] > 0 \/ Precedes(pool'.queue, b, c)
    <3>1. CASE Precedes(pool.queue, b, c)
      BY <1>1, <3>1 DEF Given
    <3>2. CASE pool.ref[c] > 0 /\ c \notin ToSet(given)
      BY <1>1, <2>2, <3>2 DEF Given
    <3>3. CASE pool.ref[c] > 0 /\ c \in ToSet(given)
      <4>1. pool'.ref[c] = pool.ref[c] - 1 /\ pool.ref[c] \in Nat
        BY <1>1, <1>2, <2>2, <3>3 DEF Given
      <4>2. CASE pool.ref[c] = 1
        <5>1. c \in Left(pool, given) /\ ~ Plain(pool, c)
          BY <1>5, <2>1, <3>3, <4>2 DEF Left, Plain
        <5>2. b \in ToSet(pool.queue)
          BY <1>2, <1>7
        <5> QED BY <1>1, <5>1, <5>2 DEF Given
      <4>3. CASE pool.ref[c] # 1
        BY <3>3, <4>1, <4>3
      <4> QED BY <4>2, <4>3
    <3> QED BY <2>2, <3>1, <3>2, <3>3
  <2> QED BY <2>2, <2>3, <2>4 DEF Outlives
<1>8. CASE pool.ref[b] # 0
  <2>1. b \in ToSet(given) /\ pool.ref[b] = 1
    BY <1>1, <1>2, <1>8 DEF Given
  <2>2. PICK j \in DOMAIN given : given[j] = b
    BY <2>1 DEF ToSet
  <2>3. ~ (j > numCached[r]) /\ Hashes[r][j] = Hashes[s][k]
    BY <1>4, <1>5, <1>6, <2>2 DEF Carries
  <2>4. j \in DOMAIN Hashes[r] /\ j \in Nat
    BY <1>3, <1>4, <2>3, RequestFacts
  <2>5. j = k /\ Hashes[r][k - 1] = Hashes[s][k - 1]
    <3>1. j = k /\ \A i \in 1 .. j : Hashes[r][i] = Hashes[s][i]
      BY <1>5, <2>3, <2>4, ChainAssumption
    <3>2. k - 1 \in 1 .. k
      BY <1>5
    <3> QED BY <3>1, <3>2
  <2>6. k - 1 \in DOMAIN given /\ ~ (k - 1 > numCached[r]) /\ k - 1 < k
    BY <1>3, <1>4, <1>5, <2>3, <2>5
  <2> DEFINE c == given[k - 1]
  <2>7. pool.hash[c] = Hashes[s][k - 1] /\ c \in Block /\ c \in ToSet(given)
    BY <1>3, <1>4, <2>5, <2>6 DEF Carries
  <2>8. Precedes(given, c, b)
    BY <2>2, <2>5, <2>6 DEF Precedes
  <2> HIDE DEF c
  <2>9. pool'.hash[c] = Hashes[s][k - 1]
    BY <1>1, <2>7 DEF Given
  <2>10. pool'.ref[c] > 0 \/ Precedes(pool'.queue, b, c)
    <3>1. pool'.ref[c] = pool.ref[c] - 1 /\ pool.ref[c] \in Nat /\ pool.ref[c] > 0
      BY <1>1, <1>2, <2>7 DEF Given
    <3>2. CASE pool.ref[c] = 1
      <4>1. {b, c} \subseteq Left(pool, given)
        BY <2>1, <2>7, <3>2 DEF Left
      <4>2. ~ Plain(pool, b) /\ ~ Plain(pool, c)
        BY <1>5, <1>6, <2>7 DEF Plain
      <4> QED BY <1>1, <2>8, <4>1, <4>2 DEF Given
    <3>3. CASE pool.ref[c] # 1
      BY <3>1, <3>3
    <3> QED BY <3>2, <3>3
  <2> QED BY <2>7, <2>9, <2>10 DEF Outlives
<1> QED BY <1>7, <1>8

(* free keeps the invariant: its blocks are queued from the tail, so no     *)
(* prefix goes before what it is a prefix of.                               *)
LEMMA FreeKeeps ==
  ASSUME ManagerInv, NEW r \in Request, Free(r)
  PROVE  ManagerInv'
<1>1. Given(table[r]) /\ RefsOK' /\ PlainFirst'
  BY FreeGives, GivesBack
<1>2. TablesOK' /\ LeasesOK' /\ ForeignOK' /\ Private' /\ CarryOK'
  BY FreeTables
<1>3. PrefixesLast'
  BY FreePrefixes
<1> QED BY <1>1, <1>2, <1>3 DEF ManagerInv, Given

-----------------------------------------------------------------------------
(* The leases.                                                              *)
LEMMA ReleaseGives ==
  ASSUME ManagerInv, NEW l \in Lease, ReleaseSources(l)
  PROVE  Gives(l, lease[l])
<1>1. /\ lease \in [Lease -> Seq(Block)] /\ IsInjective(lease[l])
      /\ lease' = [lease EXCEPT ![l] = << >>] /\ table' = table
      /\ pool' = FreeBlocks(pool, Reverse(lease[l])) /\ foreign' = foreign
  BY DEF ManagerInv, LeasesOK, ReleaseSources
<1>2. lease'[l] = << >> /\ \A m \in Lease : m # l => lease'[m] = lease[m]
  BY <1>1
<1>3. ToSet(<< >>) = {}
  BY DEF ToSet
<1>4. ASSUME NEW b \in Block PROVE Holders(b)' = Holders(b) \ {l}
  <2>1. Holders(b)' = {s \in Request : b \in ToSet(table[s])}
                        \cup {m \in Lease : b \in ToSet(lease'[m])}
    BY <1>1 DEF Holders
  <2>2. \A m \in Lease : b \in ToSet(lease'[m]) <=> b \in ToSet(lease[m]) /\ m # l
    BY <1>2, <1>3
  <2>3. l \notin Request
    BY ManagerAssumption
  <2> QED BY <2>1, <2>2, <2>3 DEF Holders
<1>5. \A b \in Block : l \in Holders(b) <=> b \in ToSet(lease[l])
  BY HolderHolds
<1> QED BY <1>1, <1>4, <1>5 DEF Gives

(* release_cacheselect_sources keeps the invariant.                         *)
LEMMA ReleaseKeeps ==
  ASSUME ManagerInv, NEW l \in Lease, ReleaseSources(l)
  PROVE  ManagerInv'
<1>1. /\ lease \in [Lease -> Seq(Block)] /\ lease[l] # << >>
      /\ lease' = [lease EXCEPT ![l] = << >>] /\ table' = table
      /\ numCached' = numCached /\ slots' = slots /\ foreign' = foreign
  BY DEF ManagerInv, LeasesOK, ReleaseSources
<1>2. lease'[l] = << >> /\ \A m \in Lease : m # l => lease'[m] = lease[m]
  BY <1>1
<1>3. << >> \in Seq(Block) /\ Len(<< >>) = 0 /\ IsInjective(<< >>)
  BY EmptySeq DEF IsInjective
<1>4. \A b \in Block : Holders(b)' = Holders(b) \ {l}
  BY ReleaseGives DEF Gives
<1>5. Given(lease[l]) /\ RefsOK' /\ PlainFirst'
  BY ReleaseGives, GivesBack
<1>6. "pin" \in foreign
  BY <1>1 DEF ManagerInv, ForeignOK
<1>7. TablesOK' /\ ForeignOK' /\ PrefixesLast'
  BY <1>1, <1>6 DEF ManagerInv, TablesOK, ForeignOK, PrefixesLast
<1>8. LeasesOK'
  <2>1. lease' \in [Lease -> Seq(Block)]
    BY <1>1, <1>3
  <2>2. \A m \in Lease : IsInjective(lease'[m]) /\ Len(lease'[m]) <= MaxLeaseBlocks
    BY <1>2, <1>3, ManagerAssumption DEF ManagerInv, LeasesOK
  <2> QED BY <2>1, <2>2 DEF LeasesOK
<1>9. Private'
  <2> SUFFICES ASSUME NEW s \in Request, NEW i \in DOMAIN table[s], i > numCached[s],
                      NEW b, b = table[s][i]
               PROVE  Holders(b)' = {s}
    BY <1>1 DEF Private, Holders
  <2>1. Holders(b) = {s} /\ b \in Block /\ s # l
    BY ManagerAssumption DEF ManagerInv, Private, TablesOK
  <2> QED BY <1>4, <2>1
<1>10. CarryOK'
  BY <1>1, <1>5 DEF ManagerInv, CarryOK, Carries, Given
<1> QED BY <1>5, <1>7, <1>8, <1>9, <1>10 DEF ManagerInv, Given

(* A lease pins cached blocks: they gain a holder.                          *)
Pins(l, sources) ==
  /\ sources \in Seq(Block) /\ IsInjective(sources) /\ Len(sources) <= MaxLeaseBlocks
  /\ \A b \in ToSet(sources) : b \in Block /\ pool.hash[b] # NoHash
  /\ pool' = Touch(pool, sources) /\ lease' = [lease EXCEPT ![l] = sources]
  /\ \A b \in Block :
       /\ l \notin Holders(b)
       /\ Holders(b)' = IF b \in ToSet(sources) THEN Holders(b) \cup {l} ELSE Holders(b)

(* retain_cacheselect_sources touches the sources it checked: Pins.         *)
LEMMA RetainPins ==
  ASSUME ManagerInv, NEW l \in Lease, RetainSources(l)
  PROVE  \E sources : Pins(l, sources)
<1>1. PICK n \in 1 .. MaxLeaseBlocks :
        \E sources \in [1 .. n -> ResidentBlocks] :
          /\ IsInjective(sources) /\ pool' = Touch(pool, sources)
          /\ lease' = [lease EXCEPT ![l] = sources]
  BY DEF RetainSources
<1>2. PICK sources \in [1 .. n -> ResidentBlocks] :
        /\ IsInjective(sources) /\ pool' = Touch(pool, sources)
        /\ lease' = [lease EXCEPT ![l] = sources]
  BY <1>1
<1>3. lease \in [Lease -> Seq(Block)] /\ lease[l] = << >> /\ table' = table
  BY DEF ManagerInv, LeasesOK, RetainSources
<1>4. n \in Nat /\ n <= MaxLeaseBlocks
  BY ManagerAssumption
<1>5. /\ sources \in Seq(Block) /\ Len(sources) = n
      /\ \A b \in ToSet(sources) : b \in Block /\ pool.hash[b] # NoHash
  <2>1. \A b \in ResidentBlocks : b \in Block /\ pool.hash[b] # NoHash
    BY DEF ResidentBlocks
  <2>2. sources \in [1 .. n -> Block]
    BY <2>1
  <2>3. sources \in Seq(Block) /\ Len(sources) = n
    BY <1>4, <2>2
  <2>4. \A b \in ToSet(sources) : b \in ResidentBlocks
    BY DEF ToSet
  <2> QED BY <2>1, <2>3, <2>4
<1>6. lease'[l] = sources /\ \A m \in Lease : m # l => lease'[m] = lease[m]
  BY <1>2, <1>3
<1>7. ToSet(<< >>) = {}
  BY DEF ToSet
<1>8. ASSUME NEW b \in Block
      PROVE  /\ l \notin Holders(b)
             /\ Holders(b)' = IF b \in ToSet(sources) THEN Holders(b) \cup {l} ELSE Holders(b)
  <2>1. Holders(b)' = {s \in Request : b \in ToSet(table[s])}
                        \cup {m \in Lease : b \in ToSet(lease'[m])}
    BY <1>3 DEF Holders
  <2>2. \A m \in Lease : b \in ToSet(lease'[m]) <=>
                           b \in ToSet(lease[m]) \/ (m = l /\ b \in ToSet(sources))
    BY <1>3, <1>6, <1>7
  <2>3. l \notin Request
    BY ManagerAssumption
  <2>4. l \notin Holders(b)
    BY <1>3, <1>7, HolderHolds
  <2>5. Holders(b)' = IF b \in ToSet(sources) THEN Holders(b) \cup {l} ELSE Holders(b)
    BY <2>1, <2>2, <2>3 DEF Holders
  <2> QED BY <2>4, <2>5
<1>9. Pins(l, sources)
  BY <1>2, <1>4, <1>5, <1>8 DEF Pins
<1> QED BY <1>9

(* A lease pins blocks of the pool, and they leave the queue.               *)
LEMMA RetainKeeps ==
  ASSUME ManagerInv, NEW l \in Lease, RetainSources(l)
  PROVE  ManagerInv'
<1>1. PICK sources : Pins(l, sources)
  BY RetainPins
<1>2. /\ lease \in [Lease -> Seq(Block)]
      /\ table' = table /\ numCached' = numCached /\ slots' = slots
      /\ foreign' = foreign \cup {"pin"}
      /\ pool \in PoolType /\ QueueOK(pool) /\ MapOK(pool) /\ PoolOK(pool) /\ RefsOK
      /\ table \in [Request -> Seq(Block)] /\ pool.queue \in Seq(Block)
  BY DEF ManagerInv, LeasesOK, TablesOK, RetainSources, PoolOK, PoolType
<1>3. /\ sources \in Seq(Block) /\ IsInjective(sources) /\ Len(sources) <= MaxLeaseBlocks
      /\ \A b \in ToSet(sources) : b \in Block /\ pool.hash[b] # NoHash
      /\ lease' = [lease EXCEPT ![l] = sources]
  BY <1>1 DEF Pins
<1> DEFINE q == Touch(pool, sources)
<1>4. /\ q \in PoolType /\ QueueOK(q) /\ q.hash = pool.hash /\ q.map = pool.map
      /\ \A b \in Block :
           q.ref[b] = IF b \in ToSet(sources) THEN pool.ref[b] + 1 ELSE pool.ref[b]
      /\ \A b, c : Precedes(q.queue, b, c) <=>
           /\ Precedes(pool.queue, b, c)
           /\ b \notin ToSet(sources) /\ c \notin ToSet(sources)
  BY <1>2, <1>3, TouchFields
<1>5. pool' = q
  BY <1>1 DEF Pins
<1> HIDE DEF q
<1>6. PoolOK(pool)'
  BY <1>2, <1>4, <1>5 DEF PoolOK, MapOK
<1>7. lease'[l] = sources /\ \A m \in Lease : m # l => lease'[m] = lease[m]
  BY <1>2, <1>3
<1>8. \A b \in Block :
        /\ l \notin Holders(b)
        /\ Holders(b)' = IF b \in ToSet(sources) THEN Holders(b) \cup {l} ELSE Holders(b)
  BY <1>1 DEF Pins
<1>9. RefsOK'
  <2> SUFFICES ASSUME NEW b \in Block PROVE pool'.ref[b] = Cardinality(Holders(b)')
    BY DEF RefsOK
  <2>1. pool.ref[b] = Cardinality(Holders(b))
    BY <1>2 DEF RefsOK
  <2> QED BY <1>4, <1>5, <1>8, <2>1, GainCounts
<1>10. TablesOK' /\ ForeignOK' /\ PrefixesLast'
  BY <1>2 DEF ManagerInv, TablesOK, ForeignOK, PrefixesLast
<1>11. LeasesOK'
  <2>1. lease' \in [Lease -> Seq(Block)]
    BY <1>2, <1>3
  <2>2. \A m \in Lease : IsInjective(lease'[m]) /\ Len(lease'[m]) <= MaxLeaseBlocks
    BY <1>3, <1>7 DEF ManagerInv, LeasesOK
  <2> QED BY <2>1, <2>2 DEF LeasesOK
<1>12. Private'
  <2> SUFFICES ASSUME NEW s \in Request, NEW i \in DOMAIN table[s], i > numCached[s],
                      NEW b, b = table[s][i]
               PROVE  Holders(b)' = {s}
    BY <1>2 DEF Private, Holders
  <2>1. Holders(b) = {s} /\ b \in Block /\ pool.hash[b] = NoHash
    BY <1>2 DEF ManagerInv, Private, CarryOK, Carries
  <2> QED BY <1>3, <1>8, <2>1
<1>13. CarryOK'
  BY <1>2, <1>4, <1>5 DEF ManagerInv, CarryOK, Carries
<1>14. PlainFirst'
  <2> SUFFICES ASSUME "evict" \notin foreign, NEW b, NEW c,
                      Precedes(pool'.queue, b, c), ~ Plain(pool', b)
               PROVE  ~ Plain(pool', c)
    BY <1>2 DEF PlainFirst
  <2>1. Precedes(pool.queue, b, c) /\ ~ Plain(pool, b)
    BY <1>4, <1>5 DEF Plain
  <2>2. ~ Plain(pool, c)
    BY <2>1 DEF ManagerInv, PlainFirst
  <2> QED BY <1>4, <1>5, <2>2 DEF Plain
<1> QED BY <1>6, <1>9, <1>10, <1>11, <1>12, <1>13, <1>14 DEF ManagerInv

-----------------------------------------------------------------------------
(* Eviction and reset.                                                      *)
LEMMA EvictKeeps ==
  ASSUME ManagerInv, EvictBlocks
  PROVE  ManagerInv'
<1>1. PICK blocks \in (SUBSET Block) \ {{}} : pool' = EvictHashes(pool, blocks)
  BY DEF EvictBlocks
<1>2. /\ foreign' = foreign \cup {"evict"}
      /\ UNCHANGED <<table, numCached, slots, lease>>
  BY DEF EvictBlocks
<1>3. pool \in PoolType /\ MapOK(pool) /\ QueueOK(pool) /\ table \in [Request -> Seq(Block)]
  BY DEF ManagerInv, PoolOK, TablesOK
<1>4. blocks \in SUBSET Block
  OBVIOUS
<1>5. /\ pool' \in PoolType /\ MapOK(pool') /\ pool'.ref = pool.ref
      /\ pool'.queue = pool.queue
      /\ \A b \in Block : pool'.hash[b] = IF b \in blocks THEN NoHash ELSE pool.hash[b]
  BY <1>1, <1>3, <1>4, EvictFields
<1>6. PoolOK(pool)'
  BY <1>3, <1>5 DEF PoolOK, QueueOK
<1>7. \A b : Holders(b)' = Holders(b)
  BY <1>2 DEF Holders
<1>8. RefsOK' /\ Private' /\ TablesOK' /\ LeasesOK'
  <2>1. RefsOK'
    BY <1>5, <1>7 DEF ManagerInv, RefsOK
  <2>2. TablesOK' /\ LeasesOK'
    BY <1>2 DEF ManagerInv, TablesOK, LeasesOK
  <2>3. Private'
    <3> SUFFICES ASSUME NEW s \in Request, NEW i \in DOMAIN table[s], i > numCached[s],
                        NEW b, b = table[s][i]
                 PROVE  Holders(b)' = {s}
      BY <1>2 DEF Private, Holders
    <3> QED BY <1>7 DEF ManagerInv, Private
  <2> QED BY <2>1, <2>2, <2>3
<1>9. ForeignOK' /\ PlainFirst' /\ PrefixesLast'
  BY <1>2 DEF ManagerInv, ForeignOK, PlainFirst, PrefixesLast
<1>10. CarryOK'
  <2> SUFFICES ASSUME NEW s \in Request, NEW i \in DOMAIN table[s]
               PROVE  IF i > numCached[s] THEN pool'.hash[table[s][i]] = NoHash
                      ELSE \/ pool'.hash[table[s][i]] = Hashes[s][i]
                           \/ pool'.hash[table[s][i]] = NoHash /\ "evict" \in foreign'
    BY <1>2 DEF CarryOK, Carries
  <2>1. table[s][i] \in Block
    BY <1>3
  <2> QED BY <1>2, <1>5, <2>1 DEF ManagerInv, CarryOK, Carries
<1> QED BY <1>6, <1>8, <1>9, <1>10 DEF ManagerInv

(* A reset finds no block in use.                                           *)
LEMMA ResetFinds ==
  ASSUME ManagerInv, CanReset(pool)
  PROVE  /\ \A b \in Block : Holders(b) = {}
         /\ \A r \in Request : table[r] = << >>
         /\ \A l \in Lease : lease[l] = << >>
<1>1. /\ pool.queue \in Seq(Block) /\ IsInjective(pool.queue)
      /\ ToSet(pool.queue) = {b \in Block : pool.ref[b] = 0}
      /\ PoolOK(pool) /\ RefsOK
      /\ table \in [Request -> Seq(Block)] /\ lease \in [Lease -> Seq(Block)]
  BY DEF ManagerInv, PoolOK, PoolType, QueueOK, TablesOK, LeasesOK
<1>2. Len(pool.queue) = Cardinality(Block)
  BY DEF CanReset, NumFree
<1>3. ToSet(pool.queue) = Block
  <2>1. Cardinality(ToSet(pool.queue)) = Cardinality(Block)
    BY <1>1, <1>2, ElementCount
  <2>2. ToSet(pool.queue) \subseteq Block
    BY <1>1
  <2> QED BY <2>1, <2>2, FS_Subset, BlockPoolAssumption
<1>4. \A b \in Block : Holders(b) = {}
  BY <1>1, <1>3, NoHolders
<1>5. ASSUME NEW s \in Seq(Block), \A b \in Block : b \notin ToSet(s)
      PROVE  s = << >>
  <2>1. ASSUME s # << >> PROVE FALSE
    <3>1. Head(s) \in Block /\ Head(s) \in ToSet(s)
      BY <2>1, TailElements
    <3> QED BY <1>5, <3>1
  <2> QED BY <2>1
<1>6. \A r \in Request : table[r] = << >>
  BY <1>1, <1>4, <1>5, HolderHolds
<1>7. \A l \in Lease : lease[l] = << >>
  BY <1>1, <1>4, <1>5, HolderHolds
<1> QED BY <1>4, <1>6, <1>7

(* A reset forgets every hash only when no block is held.                   *)
LEMMA ResetKeeps ==
  ASSUME ManagerInv, ResetPrefixCache
  PROVE  ManagerInv'
<1>1. /\ CanReset(pool) /\ pool' = EvictHashes(pool, Block) /\ foreign' = {}
      /\ UNCHANGED <<table, numCached, slots, lease>>
  BY DEF ResetPrefixCache, ResetHashes
<1>2. /\ pool \in PoolType /\ MapOK(pool) /\ QueueOK(pool)
      /\ pool.queue \in Seq(Block) /\ \A r \in Request : table[r] = << >>
      /\ \A l \in Lease : lease[l] = << >>
  BY <1>1, ResetFinds DEF ManagerInv, PoolOK, PoolType
<1>3. /\ pool' \in PoolType /\ MapOK(pool') /\ pool'.ref = pool.ref
      /\ pool'.queue = pool.queue /\ \A b \in Block : pool'.hash[b] = NoHash
  <2>1. Block \in SUBSET Block
    OBVIOUS
  <2> QED BY <1>1, <1>2, <2>1, EvictFields
<1>4. PoolOK(pool)'
  BY <1>2, <1>3 DEF PoolOK, QueueOK
<1>5. \A b : Holders(b)' = Holders(b)
  BY <1>1 DEF Holders
<1>6. RefsOK' /\ TablesOK' /\ LeasesOK' /\ ForeignOK'
  <2>1. RefsOK'
    BY <1>3, <1>5 DEF ManagerInv, RefsOK
  <2>2. TablesOK' /\ LeasesOK'
    BY <1>1 DEF ManagerInv, TablesOK, LeasesOK
  <2>3. ForeignOK'
    BY <1>1, <1>2 DEF ForeignOK
  <2> QED BY <2>1, <2>2, <2>3
<1>7. DOMAIN << >> = {}
  OBVIOUS
<1>8. Private' /\ CarryOK'
  BY <1>1, <1>2, <1>7 DEF Private, CarryOK, Carries
<1>9. PlainFirst'
  <2>1. \A b, c : Precedes(pool.queue, b, c) => b \in Block
    <3>1. \A b, c : Precedes(pool.queue, b, c) => b \in ToSet(pool.queue)
      BY <1>2, PrecedesTyped
    <3> QED BY <1>2, <3>1 DEF QueueOK
  <2> QED BY <1>3, <2>1 DEF PlainFirst, Plain
<1>10. PrefixesLast'
  <2>1. \A s \in Request : \A k \in 2 .. Len(Hashes[s]) : Hashes[s][k] # NoHash
    <3> SUFFICES ASSUME NEW s \in Request, NEW k \in 2 .. Len(Hashes[s])
                 PROVE  Hashes[s][k] # NoHash
      OBVIOUS
    <3>1. Hashes[s] \in Seq(Hash) /\ k \in DOMAIN Hashes[s]
      BY RequestFacts
    <3> QED BY <3>1, BlockPoolAssumption
  <2> QED BY <1>3, <2>1 DEF PrefixesLast
<1> QED BY <1>4, <1>6, <1>8, <1>9, <1>10 DEF ManagerInv

-----------------------------------------------------------------------------
(* The invariant holds at the start and after every step.                   *)
LEMMA InitManager == Init => ManagerInv
<1> SUFFICES ASSUME Init PROVE ManagerInv
  OBVIOUS
<1>1. PICK order \in SetToSeqs(Block) : pool = EmptyPool(order)
  BY DEF Init
<1>2. /\ table = [r \in Request |-> << >>] /\ numCached = [r \in Request |-> 0]
      /\ slots = [r \in Request |-> 0] /\ lease = [l \in Lease |-> << >>] /\ foreign = {}
  BY DEF Init
<1>3. /\ << >> \in Seq(Block) /\ Len(<< >>) = 0 /\ DOMAIN << >> = {} /\ IsInjective(<< >>)
      /\ ToSet(<< >>) = {}
  BY EmptySeq DEF IsInjective, ToSet
<1>4. order \in Seq(Block) /\ Len(order) = Cardinality(Block) /\ IsInjective(order)
  <2>1. Cardinality(Block) \in Nat
    BY BlockPoolAssumption, FS_CardinalityType
  <2>2. /\ order \in [1 .. Cardinality(Block) -> Block]
        /\ \A i, j \in 1 .. Cardinality(Block) : i # j => order[i] # order[j]
    BY DEF SetToSeqs
  <2> QED BY <2>1, <2>2 DEF IsInjective
<1>5. ToSet(order) = Block
  <2>1. Cardinality(ToSet(order)) = Cardinality(Block)
    BY <1>4, ElementCount
  <2>2. ToSet(order) \subseteq Block
    BY <1>4 DEF ToSet
  <2> QED BY <2>1, <2>2, FS_Subset, BlockPoolAssumption
<1>6. /\ pool.ref = [b \in Block |-> 0] /\ pool.queue = order
      /\ pool.hash = [b \in Block |-> NoHash] /\ pool.map = [h \in Hash |-> << >>]
      /\ pool \in PoolType
  <2>1. pool = [ref |-> [b \in Block |-> 0], queue |-> order,
                hash |-> [b \in Block |-> NoHash], map |-> [h \in Hash |-> << >>]]
    BY <1>1 DEF EmptyPool
  <2>2. /\ [b \in Block |-> 0] \in [Block -> Nat]
        /\ [b \in Block |-> NoHash] \in [Block -> Hash \cup {NoHash}]
        /\ [h \in Hash |-> << >>] \in [Hash -> Seq(Block)]
    BY <1>3
  <2> QED BY <1>4, <2>1, <2>2 DEF PoolType
<1>7. PoolOK(pool)
  <2>1. QueueOK(pool)
    BY <1>4, <1>5, <1>6 DEF QueueOK
  <2>2. MapOK(pool)
    BY <1>3, <1>6, BlockPoolAssumption DEF MapOK
  <2> QED BY <1>6, <2>1, <2>2 DEF PoolOK
<1>8. TablesOK
  <2>1. \A r \in Request : MaxTokens[r] \in Nat /\ Len(Hashes[r]) \in Nat
    BY RequestFacts
  <2>2. /\ table \in [Request -> Seq(Block)]
        /\ numCached \in [Request -> Nat] /\ slots \in [Request -> Nat]
        /\ \A r \in Request : table[r] = << >> /\ numCached[r] = 0 /\ slots[r] = 0
    BY <1>2, <1>3
  <2> QED BY <1>3, <2>1, <2>2, NoTokens DEF TablesOK
<1>9. LeasesOK /\ ForeignOK
  <2>1. lease \in [Lease -> Seq(Block)] /\ \A l \in Lease : lease[l] = << >>
    BY <1>2, <1>3
  <2> QED BY <1>2, <1>3, <2>1, ManagerAssumption DEF LeasesOK, ForeignOK
<1>10. RefsOK
  <2> SUFFICES ASSUME NEW b \in Block PROVE pool.ref[b] = Cardinality(Holders(b))
    BY DEF RefsOK
  <2>1. Holders(b) = {}
    BY <1>2, <1>3 DEF Holders
  <2> QED BY <1>6, <2>1, FS_EmptySet
<1>11. Private /\ CarryOK
  BY <1>2, <1>3 DEF Private, CarryOK, Carries
<1>12. PlainFirst
  <2>1. \A b, c : Precedes(order, b, c) => b \in Block
    BY <1>4, <1>5, PrecedesTyped
  <2> QED BY <1>6, <2>1 DEF PlainFirst, Plain
<1>13. PrefixesLast
  <2>1. \A s \in Request : \A k \in 2 .. Len(Hashes[s]) : Hashes[s][k] # NoHash
    <3> SUFFICES ASSUME NEW s \in Request, NEW k \in 2 .. Len(Hashes[s])
                 PROVE  Hashes[s][k] # NoHash
      OBVIOUS
    <3>1. Hashes[s] \in Seq(Hash) /\ k \in DOMAIN Hashes[s]
      BY RequestFacts
    <3> QED BY <3>1, BlockPoolAssumption
  <2> QED BY <1>6, <2>1 DEF PrefixesLast
<1> QED BY <1>7, <1>8, <1>9, <1>10, <1>11, <1>12, <1>13 DEF ManagerInv

(* ManagerInv is a state predicate of the variables.                        *)
LEMMA StutterKeeps ==
  ASSUME ManagerInv, UNCHANGED vars
  PROVE  ManagerInv'
<1>1. /\ pool' = pool /\ table' = table /\ numCached' = numCached /\ slots' = slots
      /\ lease' = lease /\ foreign' = foreign
  BY DEF vars
<1>2. \A b : Holders(b)' = Holders(b)
  BY <1>1 DEF Holders
<1>3. RefsOK'
  BY <1>1, <1>2 DEF ManagerInv, RefsOK
<1>4. Private'
  <2> SUFFICES ASSUME NEW s \in Request, NEW i \in DOMAIN table[s], i > numCached[s],
                      NEW b, b = table[s][i]
               PROVE  Holders(b)' = {s}
    BY <1>1 DEF Private, Holders
  <2> QED BY <1>2 DEF ManagerInv, Private
<1>5. PoolOK(pool)' /\ TablesOK' /\ LeasesOK' /\ ForeignOK'
  BY <1>1 DEF ManagerInv, TablesOK, LeasesOK, ForeignOK
<1>6. CarryOK' /\ PlainFirst' /\ PrefixesLast'
  BY <1>1 DEF ManagerInv, CarryOK, PlainFirst, PrefixesLast
<1> QED BY <1>3, <1>4, <1>5, <1>6 DEF ManagerInv

(* ManagerInv is inductive.                                                 *)
LEMMA NextManager == ManagerInv /\ [Next]_vars => ManagerInv'
<1> SUFFICES ASSUME ManagerInv, [Next]_vars PROVE ManagerInv'
  OBVIOUS
<1>1. ASSUME NEW r \in Request, AllocateWaiting(r) PROVE ManagerInv'
  BY <1>1, WaitingAllocates, AllocationKeeps
<1>2. ASSUME NEW r \in Request, AllocateRunning(r) PROVE ManagerInv'
  BY <1>2, RunningAllocates, AllocationKeeps
<1>3. ASSUME NEW r \in Request, Free(r) PROVE ManagerInv'
  BY <1>3, FreeKeeps
<1>4. ASSUME NEW l \in Lease, RetainSources(l) PROVE ManagerInv'
  BY <1>4, RetainKeeps
<1>5. ASSUME NEW l \in Lease, ReleaseSources(l) PROVE ManagerInv'
  BY <1>5, ReleaseKeeps
<1>6. CASE EvictBlocks
  BY <1>6, EvictKeeps
<1>7. CASE ResetPrefixCache
  BY <1>7, ResetKeeps
<1>8. CASE UNCHANGED vars
  BY <1>8, StutterKeeps
<1> QED BY <1>1, <1>2, <1>3, <1>4, <1>5, <1>6, <1>7, <1>8 DEF Next

(* ManagerInv is an invariant of the specification.                         *)
LEMMA ManagerInvHolds == Spec => []ManagerInv
BY InitManager, NextManager, PTL DEF Spec

-----------------------------------------------------------------------------
(* The references balance: every reference count is the number of tables    *)
(* and leases that contain the block, and the free queue holds each         *)
(* unreferenced block once, through touch, get_new_blocks and free_blocks.  *)
THEOREM ReferencesBalance == Spec => []RefsCountHolders
<1>1. ManagerInv => RefsCountHolders
  BY DEF ManagerInv, RefsOK, PoolOK, QueueOK, RefsCountHolders
<1> QED BY <1>1, ManagerInvHolds, PTL

(* BlockHashToBlockMap and the blocks' hashes agree.                        *)
THEOREM MapAgrees == Spec => []MapMatchesHashes
<1>1. ManagerInv => MapMatchesHashes
  BY DEF ManagerInv, PoolOK, MapOK, MapMatchesHashes
<1> QED BY <1>1, ManagerInvHolds, PTL

(* A table is registered under its request's own hashes up to               *)
(* num_cached_block, and under none behind it, as cache_full_blocks         *)
(* asserts.                                                                 *)
THEOREM TablesCarry == Spec => []TablesCarryTheirHashes
<1>1. ManagerInv => TablesCarryTheirHashes
  BY DEF ManagerInv, CarryOK, Carries, TablesCarryTheirHashes
<1> QED BY <1>1, ManagerInvHolds, PTL

(* free_blocks keeps the blocks without a hash in front of the others.      *)
THEOREM EmptyBlocksFirst == Spec => []UncachedBlocksGoFirst
<1>1. ASSUME ManagerInv PROVE UncachedBlocksGoFirst
  <2> SUFFICES ASSUME "evict" \notin foreign,
                      NEW i \in DOMAIN pool.queue, NEW j \in DOMAIN pool.queue,
                      i < j, pool.hash[pool.queue[i]] # NoHash
               PROVE  pool.hash[pool.queue[j]] # NoHash
    BY DEF UncachedBlocksGoFirst
  <2>1. Precedes(pool.queue, pool.queue[i], pool.queue[j])
    BY DEF Precedes
  <2> QED BY <1>1, <2>1 DEF ManagerInv, PlainFirst, Plain
<1> QED BY <1>1, ManagerInvHolds, PTL

(* find_longest_cache_hit may stop at the first miss: a cached block's      *)
(* whole prefix is cached, as long as no lease pinned a block out of the    *)
(* order of eviction.                                                       *)
THEOREM PrefixesAreClosed == Spec => []CachedPrefixesAreClosed
<1>1. ASSUME ManagerInv PROVE CachedPrefixesAreClosed
  <2> SUFFICES ASSUME foreign = {}, NEW r \in Request, NEW i \in 2 .. Len(Hashes[r]),
                      IsCached(pool, Hashes[r][i])
               PROVE  IsCached(pool, Hashes[r][i - 1])
    BY DEF CachedPrefixesAreClosed
  <2>1. /\ Hashes[r] \in Seq(Hash) /\ i \in DOMAIN Hashes[r] /\ i - 1 \in DOMAIN Hashes[r]
        /\ Hashes[r][i] \in Hash /\ Hashes[r][i - 1] \in Hash /\ i \in Nat
    BY RequestFacts
  <2>2. Hashes[r][i] # NoHash /\ Hashes[r][i - 1] # NoHash
    BY <2>1, BlockPoolAssumption
  <2>3. \A h \in Hash : pool.map[h] \in Seq(Block)
                        /\ ToSet(pool.map[h]) = {b \in Block : pool.hash[b] = h}
    BY <1>1 DEF ManagerInv, PoolOK, PoolType, MapOK
  <2>4. PICK b \in Block : pool.hash[b] = Hashes[r][i]
    <3>1. Head(pool.map[Hashes[r][i]]) \in ToSet(pool.map[Hashes[r][i]])
      BY <2>1, <2>3, TailElements DEF IsCached
    <3> QED BY <2>1, <2>3, <3>1
  <2>5. \E c \in Block : pool.hash[c] = Hashes[r][i - 1]
    <3>1. CASE pool.ref[b] = 0
      <4>1. PICK c : pool.hash[c] = Hashes[r][i - 1] /\ Outlives(pool, b, c)
        BY <1>1, <2>4, <3>1 DEF ManagerInv, PrefixesLast
      <4> QED BY <4>1 DEF Outlives
    <3>2. CASE pool.ref[b] # 0
      <4>1. Holders(b) # {}
        BY <1>1, <3>2, NoHolders DEF ManagerInv
      <4>2. \A l \in Lease : lease[l] = << >>
        BY <1>1 DEF ManagerInv, ForeignOK
      <4>3. PICK s \in Request : b \in ToSet(table[s])
        <5>1. ToSet(<< >>) = {}
          BY DEF ToSet
        <5> QED BY <4>1, <4>2, <5>1 DEF Holders
      <4>4. PICK j \in DOMAIN table[s] : table[s][j] = b
        BY <4>3 DEF ToSet
      <4>5. /\ table[s] \in Seq(Block) /\ Len(table[s]) \in Nat
            /\ DOMAIN table[s] = 1 .. Len(table[s])
            /\ numCached[s] \in Nat /\ numCached[s] <= Len(Hashes[s])
            /\ Carries(pool, foreign, s, table[s], numCached[s])
        BY <1>1 DEF ManagerInv, TablesOK, CarryOK
      <4>6. ~ (j > numCached[s]) /\ Hashes[s][j] = Hashes[r][i]
        BY <2>2, <2>4, <4>4, <4>5 DEF Carries
      <4>7. j \in DOMAIN Hashes[s]
        BY <4>5, <4>6, RequestFacts
      <4>8. j = i /\ \A k \in 1 .. j : Hashes[s][k] = Hashes[r][k]
        BY <2>1, <4>6, <4>7, ChainAssumption
      <4>9. i - 1 \in 1 .. i /\ i - 1 \in DOMAIN table[s] /\ ~ (i - 1 > numCached[s])
        BY <2>1, <4>5, <4>6, <4>8
      <4>10. Hashes[s][i - 1] = Hashes[r][i - 1]
        BY <4>8, <4>9
      <4>11. table[s][i - 1] \in Block
        BY <4>5, <4>9
      <4>12. pool.hash[table[s][i - 1]] = Hashes[s][i - 1]
        <5>1. "evict" \notin foreign
          OBVIOUS
        <5> QED BY <4>5, <4>9, <5>1 DEF Carries
      <4> QED BY <4>10, <4>11, <4>12
    <3> QED BY <3>1, <3>2
  <2>6. ToSet(pool.map[Hashes[r][i - 1]]) # {}
    BY <2>1, <2>3, <2>5
  <2>7. ToSet(<< >>) = {}
    BY DEF ToSet
  <2> QED BY <2>6, <2>7 DEF IsCached
<1> QED BY <1>1, ManagerInvHolds, PTL

(* The state keeps its types: no count exceeds the holders there are, no    *)
(* queue or table the blocks there are, and a table has the blocks its      *)
(* tokens need.                                                             *)
THEOREM ManagerTypes == Spec => []TypeOK
<1>1. ASSUME ManagerInv PROVE TypeOK
  <2>1. ASSUME NEW s \in Seq(Block), IsInjective(s)
        PROVE  s \in BoundedSeq(Block, Cardinality(Block))
    <3>1. Cardinality(ToSet(s)) = Len(s) /\ ToSet(s) \subseteq Block /\ Len(s) \in Nat
      <4>1. ToSet(s) \subseteq Block /\ Len(s) \in Nat
        BY DEF ToSet
      <4> QED BY <2>1, <4>1, ElementCount
    <3>2. Len(s) <= Cardinality(Block) /\ Cardinality(Block) \in Nat
      BY <3>1, FS_Subset, FS_CardinalityType, BlockPoolAssumption
    <3>3. s \in [1 .. Len(s) -> Block] /\ Len(s) \in 0 .. Cardinality(Block)
      BY <3>1, <3>2
    <3> QED BY <3>3 DEF BoundedSeq, SeqOf
  <2>2. /\ pool \in PoolType /\ pool.queue \in BoundedSeq(Block, Cardinality(Block))
        /\ pool.ref \in [Block -> 0 .. Cardinality(Request \cup Lease)]
        /\ pool.map \in [Hash -> BoundedSeq(Block, Cardinality(Block))]
    <3>1. /\ pool \in PoolType /\ pool.queue \in Seq(Block) /\ IsInjective(pool.queue)
          /\ pool.ref \in [Block -> Nat] /\ pool.map \in [Hash -> Seq(Block)]
          /\ \A h \in Hash : IsInjective(pool.map[h])
      BY <1>1 DEF ManagerInv, PoolOK, PoolType, QueueOK, MapOK
    <3>2. \A h \in Hash : pool.map[h] \in BoundedSeq(Block, Cardinality(Block))
      BY <2>1, <3>1
    <3>3. ASSUME NEW b \in Block PROVE pool.ref[b] \in 0 .. Cardinality(Request \cup Lease)
      <4>1. pool.ref[b] = Cardinality(Holders(b)) /\ pool.ref[b] \in Nat
        BY <1>1, <3>1 DEF ManagerInv, RefsOK
      <4>2. IsFiniteSet(Request \cup Lease) /\ Holders(b) \subseteq Request \cup Lease
        BY HoldersFinite, ManagerAssumption, FS_Union
      <4>3. /\ Cardinality(Holders(b)) <= Cardinality(Request \cup Lease)
            /\ Cardinality(Request \cup Lease) \in Nat
        BY <4>2, FS_Subset, FS_CardinalityType
      <4> QED BY <4>1, <4>3
    <3> QED BY <2>1, <3>1, <3>2, <3>3
  <2>3. ASSUME NEW r \in Request
        PROVE  /\ table[r] \in BoundedSeq(Block, Cardinality(Block))
               /\ slots[r] \in 0 .. MaxTokens[r]
               /\ Len(table[r]) = CeilDiv(slots[r], BlockSize)
               /\ numCached[r] \in 0 .. Len(table[r])
    <3>1. /\ table[r] \in Seq(Block) /\ IsInjective(table[r]) /\ Len(table[r]) \in Nat
          /\ slots[r] \in Nat /\ slots[r] <= MaxTokens[r] /\ MaxTokens[r] \in Nat
          /\ numCached[r] \in Nat /\ numCached[r] <= Len(table[r])
          /\ Len(table[r]) = CeilDiv(slots[r], BlockSize)
      BY <1>1, RequestFacts DEF ManagerInv, TablesOK
    <3>2. slots[r] \in 0 .. MaxTokens[r] /\ numCached[r] \in 0 .. Len(table[r])
      BY <3>1
    <3> QED BY <2>1, <3>1, <3>2
  <2>4. lease \in [Lease -> BoundedSeq(Block, MaxLeaseBlocks)]
    <3>1. lease \in [Lease -> Seq(Block)]
      BY <1>1 DEF ManagerInv, LeasesOK
    <3>2. ASSUME NEW l \in Lease PROVE lease[l] \in BoundedSeq(Block, MaxLeaseBlocks)
      <4>1. /\ lease[l] \in Seq(Block) /\ Len(lease[l]) \in Nat
            /\ Len(lease[l]) <= MaxLeaseBlocks /\ MaxLeaseBlocks \in Nat
        BY <1>1, <3>1, ManagerAssumption DEF ManagerInv, LeasesOK
      <4>2. /\ lease[l] \in [1 .. Len(lease[l]) -> Block]
            /\ Len(lease[l]) \in 0 .. MaxLeaseBlocks
        BY <4>1
      <4> QED BY <4>2 DEF BoundedSeq, SeqOf
    <3> QED BY <3>1, <3>2
  <2>5. foreign \subseteq {"pin", "evict"}
    BY <1>1 DEF ManagerInv, ForeignOK
  <2>6. pool \in [ref   : [Block -> 0 .. Cardinality(Request \cup Lease)],
                  queue : BoundedSeq(Block, Cardinality(Block)),
                  hash  : [Block -> Hash \cup {NoHash}],
                  map   : [Hash -> BoundedSeq(Block, Cardinality(Block))]]
    BY <2>2 DEF PoolType
  <2> QED BY <2>3, <2>4, <2>5, <2>6 DEF TypeOK
<1> QED BY <1>1, ManagerInvHolds, PTL

-----------------------------------------------------------------------------
(***************************************************************************)
(* The manager implements BlockStore: what its holders hold are the tables *)
(* and the leases, and a block is cached as its own hash says.             *)
(***************************************************************************)
StoreHeld == [c \in Request \cup Lease |->
                IF c \in Request THEN ToSet(table[c]) ELSE ToSet(lease[c])]

StoreState == <<StoreHeld, pool.hash>>

(* The store's view of one step, in terms of the holders.                   *)
LEMMA HeldIsHolding ==
  ASSUME NEW c \in Request \cup Lease, NEW b \in Block
  PROVE  /\ b \in StoreHeld[c] <=> c \in Holders(b)
         /\ b \in StoreHeld'[c] <=> c \in Holders(b)'
<1>1. StoreHeld[c] = IF c \in Request THEN ToSet(table[c]) ELSE ToSet(lease[c])
  BY DEF StoreHeld
<1>2. StoreHeld'[c] = IF c \in Request THEN ToSet(table'[c]) ELSE ToSet(lease'[c])
  BY DEF StoreHeld
<1>3. c \in Request <=> c \notin Lease
  BY ManagerAssumption
<1> QED BY <1>1, <1>2, <1>3 DEF Holders

(* What BlockStore sees as held are sets of blocks.                         *)
LEMMA HeldTyped ==
  ASSUME ManagerInv'
  PROVE  StoreHeld' \in [Request \cup Lease -> SUBSET Block]
<1>1. table' \in [Request -> Seq(Block)] /\ lease' \in [Lease -> Seq(Block)]
  BY DEF ManagerInv, TablesOK, LeasesOK
<1>2. \A s \in Seq(Block) : ToSet(s) \in SUBSET Block
  BY DEF ToSet
<1>3. ASSUME NEW c \in Request \cup Lease
      PROVE  (IF c \in Request THEN ToSet(table'[c]) ELSE ToSet(lease'[c])) \in SUBSET Block
  BY <1>1, <1>2
<1> QED BY <1>3 DEF StoreHeld

(* The rules of the store, said of holders.                                 *)
Shares(b, c) ==
  \/ pool.hash[b] # NoHash /\ pool'.hash[b] = pool.hash[b]
  \/ Holders(b) = {} /\ \A d \in Holders(b)' : d = c

Rules ==
  \A b \in Block :
    /\ \A c \in Request \cup Lease :
         c \in Holders(b)' /\ c \notin Holders(b) => Shares(b, c)
    /\ pool'.hash[b] # pool.hash[b] =>
         Holders(b) = {} \/ pool.hash[b] = NoHash \/ pool'.hash[b] = NoHash
    /\ pool'.hash[b] # pool.hash[b] /\ pool'.hash[b] # NoHash => Holders(b)' # {}

(* A change of holders and hashes that follows the rules is a step of       *)
(* BlockStore.                                                              *)
LEMMA RulesMakeAStep ==
  ASSUME ManagerInv, ManagerInv', Rules
  PROVE  Store!Next
<1>1. StoreHeld' \in [Request \cup Lease -> SUBSET Block] /\ DOMAIN pool'.hash = Block
  BY HeldTyped DEF ManagerInv, PoolOK, PoolType
<1>2. \A b \in Block : Holders(b) \subseteq Request \cup Lease
                       /\ Holders(b)' \subseteq Request \cup Lease
  BY DEF Holders
<1>3. \A b \in Block : Store!InUse(b) <=> Holders(b) # {}
  <2>1. \A b \in Block : Store!InUse(b) <=> \E c \in Request \cup Lease : b \in StoreHeld[c]
    BY DEF Store!InUse, StoreHeld
  <2> QED BY <1>2, <2>1, HeldIsHolding
<1>4. \A c \in Request \cup Lease, b \in Block :
        Store!Gains(c, b) <=> c \in Holders(b)' /\ c \notin Holders(b)
  <2>1. \A c \in Request \cup Lease, b \in Block :
          Store!Gains(c, b) <=> b \in StoreHeld'[c] /\ b \notin StoreHeld[c]
    BY DEF Store!Gains, StoreHeld
  <2> QED BY <2>1, HeldIsHolding
<1>5. Store!ExclusiveHandOut
  <2> SUFFICES ASSUME NEW c \in Request \cup Lease, NEW b \in Block, Store!Gains(c, b)
               PROVE  \/ pool.hash[b] # NoHash /\ pool'.hash[b] = pool.hash[b]
                      \/ /\ ~ Store!InUse(b)
                         /\ \A d \in Request \cup Lease : b \in StoreHeld'[d] => d = c
    BY DEF Store!ExclusiveHandOut, StoreHeld
  <2>1. Shares(b, c)
    BY <1>4 DEF Rules
  <2> QED BY <1>3, <2>1, HeldIsHolding DEF Shares
<1>6. Store!StableHash
  BY <1>3 DEF Store!StableHash, Rules
<1>7. Store!HashesNeedAHolder
  <2> SUFFICES ASSUME NEW b \in Block, pool'.hash[b] # pool.hash[b], pool'.hash[b] # NoHash
               PROVE  \E c \in Request \cup Lease : b \in StoreHeld'[c]
    BY DEF Store!HashesNeedAHolder, StoreHeld
  <2>1. Holders(b)' # {}
    BY DEF Rules
  <2> QED BY <1>2, <2>1, HeldIsHolding
<1> QED BY <1>1, <1>5, <1>6, <1>7 DEF Store!Next, StoreHeld

(* Each operation follows the rules.                                        *)
LEMMA AllocationRules ==
  ASSUME ManagerInv, NEW r \in Request, Allocates(r)
  PROVE  Rules
<1>1. PICK hits, new, blocks, kept, total :
        /\ Start(r, hits) /\ total \in slots[r] .. MaxTokens[r]
        /\ Handed(r, hits, new, blocks, kept, total)
  BY DEF Allocates
<1>2. \A b \in Block :
        /\ b \in ToSet(hits) \cup ToSet(new) => r \notin Holders(b)
        /\ Holders(b)' = IF b \in ToSet(hits) \cup ToSet(new) THEN Holders(b) \cup {r}
                         ELSE Holders(b)
  BY <1>1, AllocationHolders
<1>3. /\ \A b \in ToSet(new) : b \in Block /\ Holders(b) = {} /\ b \notin ToSet(hits)
      /\ \A b \in ToSet(hits) : b \in Block /\ pool.hash[b] # NoHash
  <2>1. \A b \in ToSet(new) : b \in Block /\ Holders(b) = {} /\ b \notin ToSet(hits)
    BY <1>1, NoHolders DEF Handed, ManagerInv
  <2>2. hits \in Seq(Block) /\ \A i \in DOMAIN hits : pool.hash[hits[i]] \in Hash
    BY <1>1, RequestFacts DEF Start
  <2>3. \A b \in ToSet(hits) : b \in Block /\ pool.hash[b] \in Hash
    BY <2>2 DEF ToSet
  <2> QED BY <2>1, <2>3, BlockPoolAssumption
<1>4. \A b \in Block : \/ pool'.hash[b] = pool.hash[b]
                       \/ b \in ToSet(new)
                       \/ pool.hash[b] = NoHash /\ Holders(b) = {r}
  BY <1>1 DEF Handed
<1>5. ASSUME NEW b \in Block, NEW c \in Request \cup Lease, c \in Holders(b)', c \notin Holders(b)
      PROVE  Shares(b, c)
  <2>1. b \in ToSet(hits) \cup ToSet(new) /\ c = r
    BY <1>2, <1>5
  <2>2. CASE b \in ToSet(new)
    BY <1>2, <1>3, <2>1, <2>2 DEF Shares
  <2>3. CASE b \in ToSet(hits)
    BY <1>3, <1>4, <2>3 DEF Shares
  <2> QED BY <2>1, <2>2, <2>3
<1>6. ASSUME NEW b \in Block, pool'.hash[b] # pool.hash[b]
      PROVE  (Holders(b) = {} \/ pool.hash[b] = NoHash) /\ Holders(b)' # {}
  BY <1>2, <1>3, <1>4, <1>6
<1> QED BY <1>5, <1>6 DEF Rules

(* Giving blocks back follows the rules: nobody gains one.                  *)
LEMMA GivingRules ==
  ASSUME ManagerInv, NEW x, NEW given, Gives(x, given)
  PROVE  Rules
<1>1. pool'.hash = pool.hash
  BY GivesBack DEF Given
<1>2. \A b \in Block : Holders(b)' = Holders(b) \ {x}
  BY DEF Gives
<1> QED BY <1>1, <1>2 DEF Rules

(* A lease gains blocks under the hashes they have.                         *)
LEMMA RetainRules ==
  ASSUME ManagerInv, NEW l \in Lease, RetainSources(l)
  PROVE  Rules
<1>1. PICK sources : Pins(l, sources)
  BY RetainPins
<1>2. /\ sources \in Seq(Block)
      /\ \A b \in ToSet(sources) : b \in Block /\ pool.hash[b] # NoHash
      /\ pool' = Touch(pool, sources)
      /\ \A b \in Block :
           /\ l \notin Holders(b)
           /\ Holders(b)' = IF b \in ToSet(sources) THEN Holders(b) \cup {l} ELSE Holders(b)
  BY <1>1 DEF Pins
<1>3. pool'.hash = pool.hash
  <2>1. pool \in PoolType /\ QueueOK(pool)
    BY DEF ManagerInv, PoolOK
  <2> QED BY <1>2, <2>1, TouchFields
<1> QED BY <1>2, <1>3 DEF Rules, Shares

(* Evictions and resets take hashes from blocks nobody holds.               *)
LEMMA EvictionRules ==
  ASSUME ManagerInv, EvictBlocks \/ ResetPrefixCache
  PROVE  Rules
<1>1. table' = table /\ lease' = lease
  BY DEF EvictBlocks, ResetPrefixCache
<1>2. PICK blocks \in SUBSET Block : pool' = EvictHashes(pool, blocks)
  BY DEF EvictBlocks, ResetPrefixCache, ResetHashes
<1>3. \A b \in Block : pool'.hash[b] = IF b \in blocks THEN NoHash ELSE pool.hash[b]
  <2>1. pool \in PoolType /\ MapOK(pool)
    BY DEF ManagerInv, PoolOK
  <2> QED BY <1>2, <2>1, EvictFields
<1>4. \A b \in Block : Holders(b)' = Holders(b)
  BY <1>1 DEF Holders
<1> QED BY <1>3, <1>4 DEF Rules

(* Every step of the manager is one of BlockStore or a stutter.             *)
LEMMA StoreStep == ManagerInv /\ ManagerInv' /\ [Next]_vars => [Store!Next]_StoreState
<1> SUFFICES ASSUME ManagerInv, ManagerInv', [Next]_vars PROVE [Store!Next]_StoreState
  OBVIOUS
<1>1. ASSUME NEW r \in Request, AllocateWaiting(r) PROVE Rules
  BY <1>1, WaitingAllocates, AllocationRules
<1>2. ASSUME NEW r \in Request, AllocateRunning(r) PROVE Rules
  BY <1>2, RunningAllocates, AllocationRules
<1>3. ASSUME NEW r \in Request, Free(r) PROVE Rules
  BY <1>3, FreeGives, GivingRules
<1>4. ASSUME NEW l \in Lease, RetainSources(l) PROVE Rules
  BY <1>4, RetainRules
<1>5. ASSUME NEW l \in Lease, ReleaseSources(l) PROVE Rules
  BY <1>5, ReleaseGives, GivingRules
<1>6. CASE EvictBlocks \/ ResetPrefixCache
  BY <1>6, EvictionRules, RulesMakeAStep
<1>7. CASE UNCHANGED vars
  <2>1. pool' = pool /\ table' = table /\ lease' = lease
    BY <1>7 DEF vars
  <2> QED BY <2>1 DEF StoreState, StoreHeld
<1> QED BY <1>1, <1>2, <1>3, <1>4, <1>5, <1>6, <1>7, RulesMakeAStep DEF Next

(* The manager keeps the promise of BlockStore: a block that gains a holder *)
(* is shared for the hash it has or was nobody's and goes to one holder,    *)
(* and a held block's hash never changes to another one.                    *)
THEOREM ManagerImplementsStore == Spec => ImplementsBlockStore
<1>1. Init => Store!Init
  <2> SUFFICES ASSUME Init PROVE Store!Init
    OBVIOUS
  <2>1. /\ table = [r \in Request |-> << >>] /\ lease = [l \in Lease |-> << >>]
        /\ \E order : pool = EmptyPool(order)
    BY DEF Init
  <2>2. pool.hash = [b \in Block |-> NoHash]
    BY <2>1 DEF EmptyPool
  <2>3. ToSet(<< >>) = {}
    BY DEF ToSet
  <2>4. \A c \in Request \cup Lease :
          (IF c \in Request THEN ToSet(table[c]) ELSE ToSet(lease[c])) = {}
    BY <2>1, <2>3
  <2> QED BY <2>2, <2>4 DEF Store!Init
<1> QED BY <1>1, InitManager, NextManager, StoreStep, PTL
        DEF Spec, ImplementsBlockStore, Store!Spec, Store!storeVars, StoreState, StoreHeld
=============================================================================
