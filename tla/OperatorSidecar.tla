-------------------------- MODULE OperatorSidecar --------------------------
(* GDNDeltaOperatorSidecar: the affine operators one GDN layer keeps for   *)
(* the blocks it has computed, in a fixed number of tensor slots, found by  *)
(* the context hash of the block.  order is the OrderedDict of the code,    *)
(* the least recently used key first; slot is its value part, 0 for a key   *)
(* that is not resident; data is what the tensors of a slot hold.           *)
EXTENDS Naturals, Sequences, SequencesExt

CONSTANTS
  Key,         \* the context hashes of the blocks
  Capacity,    \* gdn_delta_cache_capacity
  NoOperator   \* what torch.empty leaves in a slot

ASSUME CapacityAssumption == Capacity \in Nat \ {0}

Slot == 1 .. Capacity

(* An operator, reduced to what tells two of them apart: the context it    *)
(* was computed in and the weights it was computed with.                    *)
Operator == [key : Key, epoch : Nat]

ASSUME NoOperatorAssumption == NoOperator \notin Operator

Sidecar == [order : Seq(Key), slot : [Key -> 0 .. Capacity], free : Seq(Slot),
            data : [Slot -> Operator \cup {NoOperator}]]

EmptySidecar == [order |-> << >>, slot |-> [k \in Key |-> 0],
                 free |-> [i \in Slot |-> i], data |-> [i \in Slot |-> NoOperator]]

ContainsMany(s, keys) == \A k \in keys : s.slot[k] # 0

Refresh(order, k) == Append(RemoveFirst(order, k), k)

(* A lookup moves a resident key to the young end and changes nothing else. *)
Lookup(s, k) ==
  IF s.slot[k] = 0 THEN s ELSE [s EXCEPT !.order = Refresh(@, k)]

(* The three ways a store finds its slot: the one the key has, the first    *)
(* free one, the one of the least recently used key.                        *)
Overwrite(s, op) ==
  [s EXCEPT !.order = Refresh(@, op.key), !.data[s.slot[op.key]] = op]

(* Faulty: the slot is used and stays free.                                 *)
FaultyFill(s, op) ==
  [s EXCEPT !.order = Append(@, op.key), !.slot[op.key] = Head(s.free),
            !.data[Head(s.free)] = op]

Fill(s, op) ==
  [s EXCEPT !.order = Append(@, op.key), !.slot[op.key] = Head(s.free),
            !.free = Tail(@), !.data[Head(s.free)] = op]

(* Faulty: the key that goes keeps its slot.                                *)
FaultyEvict(s, op) ==
  LET lru == Head(s.order)
  IN  [s EXCEPT !.order = Append(Tail(@), op.key), !.slot[op.key] = s.slot[lru],
                !.data[s.slot[lru]] = op]

Evict(s, op) ==
  LET lru == Head(s.order)
  IN  [s EXCEPT !.order = Append(Tail(@), op.key),
                !.slot = [@ EXCEPT ![lru] = 0, ![op.key] = s.slot[lru]],
                !.data[s.slot[lru]] = op]

Store(s, op) == IF s.slot[op.key] # 0 THEN Overwrite(s, op)
                ELSE IF s.free # << >> THEN Fill(s, op)
                ELSE Evict(s, op)

Resident(s) == {k \in Key : s.slot[k] # 0}

(* The table and the tensors agree: the LRU order lists the resident keys   *)
(* once each, no two of them share a slot, every other slot is free exactly *)
(* once, and a slot holds the operator of the key that owns it.             *)
Consistent(s) ==
  /\ IsInjective(s.order) /\ ToSet(s.order) = Resident(s)
  /\ IsInjective(s.free) /\ ToSet(s.free) = Slot \ {s.slot[k] : k \in Resident(s)}
  /\ \A k, j \in Resident(s) : s.slot[k] = s.slot[j] => k = j
  /\ \A k \in Resident(s) : s.data[s.slot[k]] # NoOperator
                            /\ s.data[s.slot[k]].key = k
=============================================================================
