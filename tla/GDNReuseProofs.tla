--------------------------- MODULE GDNReuseProofs ---------------------------
(***************************************************************************)
(* The operator sidecars of all layers keep their tables and their tensors *)
(* in agreement, for any number of layers, slots, requests and contexts,   *)
(* and implement a cache that forgets an operator only when it is full.    *)
(* Only a lookup and a store touch a sidecar; a store overwrites, takes    *)
(* the first free slot or takes the slot of the least recently used key.   *)
(*                                                                         *)
(* On top of that: the queues, rows and plans are what they should be      *)
(* (QueueInv, PlanInv), an applied operator fits its block, an admitted    *)
(* plan is carried out (AdmissionInv), and the layers' caches, separate as *)
(* they are, agree between two steps (PassInv): all of them go through the *)
(* places of one trace, a partial map from the tasks left to the sidecar.  *)
(***************************************************************************)
EXTENDS GDNReuse, QueueLemmas, TLAPS

(* Moving a key to the young end keeps the order free of duplicates and    *)
(* adds at most that key: lookup() and the overwriting store().            *)
LEMMA RefreshElements ==
  ASSUME NEW order \in Seq(Key), NEW k \in Key, IsInjective(order)
  PROVE  /\ Refresh(order, k) \in Seq(Key)
         /\ IsInjective(Refresh(order, k))
         /\ ToSet(Refresh(order, k)) = ToSet(order) \cup {k}
<1> DEFINE rest == RemoveFirst(order, k)
<1>1. /\ rest \in Seq(Key) /\ IsInjective(rest)
      /\ ToSet(rest) = ToSet(order) \ {k}
  BY RemoveFirstProperties
<1> HIDE DEF rest
<1>2. /\ Append(rest, k) \in Seq(Key)
      /\ ToSet(Append(rest, k)) = ToSet(rest) \cup {k}
      /\ IsInjective(rest) /\ k \notin ToSet(rest) => IsInjective(Append(rest, k))
  BY <1>1, AppendElements
<1>3. Refresh(order, k) = Append(rest, k)
  BY DEF Refresh, rest
<1> QED BY <1>1, <1>2, <1>3

(* A lookup changes nothing but the order of use.                          *)
LEMMA LookupKeeps ==
  ASSUME NEW s \in Sidecar, NEW k \in Key, Consistent(s)
  PROVE  /\ Lookup(s, k) \in Sidecar /\ Consistent(Lookup(s, k))
         /\ Lookup(s, k).slot = s.slot /\ Lookup(s, k).data = s.data
<1>1. CASE s.slot[k] = 0
  BY <1>1 DEF Lookup
<1>2. CASE s.slot[k] # 0
  <2> DEFINE t == Lookup(s, k)
             moved == Refresh(s.order, k)
  <2>1. /\ s.order \in Seq(Key) /\ s.slot \in [Key -> 0 .. Capacity]
        /\ s.free \in Seq(Slot) /\ s.data \in [Slot -> Operator \cup {NoOperator}]
    BY DEF Sidecar
  <2>2. IsInjective(s.order) /\ ToSet(s.order) = Resident(s) /\ k \in Resident(s)
    BY <1>2 DEF Consistent, Resident
  <2>3. /\ moved \in Seq(Key) /\ IsInjective(moved)
        /\ ToSet(moved) = ToSet(s.order) \cup {k}
    BY <2>1, <2>2, RefreshElements
  <2> HIDE DEF moved
  <2>4. t = [s EXCEPT !.order = moved]
    BY <1>2 DEF Lookup, moved
  <2> HIDE DEF t
  <2>5. /\ t.order = moved /\ t.slot = s.slot /\ t.free = s.free /\ t.data = s.data
        /\ t \in Sidecar
    BY <2>1, <2>3, <2>4 DEF Sidecar
  <2>6. Resident(t) = Resident(s)
    BY <2>5 DEF Resident
  <2>7. ToSet(t.order) = Resident(t)
    BY <2>2, <2>3, <2>5, <2>6
  <2>8. Consistent(t)
    BY <2>3, <2>5, <2>6, <2>7 DEF Consistent
  <2> QED BY <2>5, <2>8 DEF t
<1> QED BY <1>1, <1>2

(* An overwriting store keeps the slot of the key and replaces its         *)
(* operator.                                                               *)
LEMMA OverwriteKeeps ==
  ASSUME NEW s \in Sidecar, NEW op \in Operator, Consistent(s), s.slot[op.key] # 0
  PROVE  LET t == Overwrite(s, op)
         IN  /\ t \in Sidecar /\ Consistent(t)
             /\ t.slot = s.slot
             /\ t.data = [s.data EXCEPT ![s.slot[op.key]] = op]
<1> DEFINE t == Overwrite(s, op)
           k == op.key
           moved == Refresh(s.order, k)
           at == s.slot[k]
<1>1. /\ s.order \in Seq(Key) /\ s.slot \in [Key -> 0 .. Capacity]
      /\ s.free \in Seq(Slot) /\ s.data \in [Slot -> Operator \cup {NoOperator}]
      /\ k \in Key
  BY DEF Sidecar, Operator
<1>2. IsInjective(s.order) /\ ToSet(s.order) = Resident(s) /\ k \in Resident(s)
  BY <1>1 DEF Consistent, Resident
<1>3. /\ moved \in Seq(Key) /\ IsInjective(moved)
      /\ ToSet(moved) = Resident(s)
  <2>1. /\ moved \in Seq(Key) /\ IsInjective(moved)
        /\ ToSet(moved) = ToSet(s.order) \cup {k}
    BY <1>1, <1>2, RefreshElements
  <2> HIDE DEF moved
  <2> QED BY <1>2, <2>1
<1>4. at \in Slot
  BY <1>1, CapacityAssumption DEF Slot
<1> HIDE DEF moved
<1>5. t = [s EXCEPT !.order = moved, !.data[at] = op]
  BY DEF Overwrite, moved
<1> HIDE DEF t
<1>6. /\ t.order = moved /\ t.slot = s.slot /\ t.free = s.free
      /\ t.data = [s.data EXCEPT ![at] = op]
  BY <1>1, <1>5 DEF Sidecar
<1>7. t \in Sidecar
  <2>1. t.data \in [Slot -> Operator \cup {NoOperator}]
    BY <1>1, <1>4, <1>6
  <2>2. t = [order |-> t.order, slot |-> t.slot, free |-> t.free, data |-> t.data]
    BY <1>5, <1>6 DEF Sidecar
  <2> QED BY <1>1, <1>3, <1>6, <2>1, <2>2 DEF Sidecar
<1>8. Resident(t) = Resident(s)
  BY <1>6 DEF Resident
<1>9. ASSUME NEW j \in Resident(t)
      PROVE  t.data[t.slot[j]] # NoOperator /\ t.data[t.slot[j]].key = j
  <2>1. j \in Resident(s) /\ j \in Key /\ s.slot[j] \in Slot
    BY <1>1, <1>8, CapacityAssumption DEF Resident, Slot
  <2>2. CASE j = k
    BY <1>1, <1>4, <1>6, <2>2, NoOperatorAssumption
  <2>3. CASE j # k
    <3>1. s.slot[j] # at
      BY <1>2, <2>1, <2>3 DEF Consistent
    <3>2. s.data[s.slot[j]] # NoOperator /\ s.data[s.slot[j]].key = j
      BY <2>1 DEF Consistent
    <3>3. t.data[t.slot[j]] = s.data[s.slot[j]]
      BY <1>1, <1>6, <2>1, <3>1
    <3> QED BY <3>2, <3>3
  <2> QED BY <2>2, <2>3
<1>10. Consistent(t)
  BY <1>3, <1>6, <1>8, <1>9 DEF Consistent
<1> QED BY <1>6, <1>7, <1>10 DEF t

(* A filling store takes the first free slot, which no key has.             *)
LEMMA FillKeeps ==
  ASSUME NEW s \in Sidecar, NEW op \in Operator, Consistent(s),
         s.slot[op.key] = 0, s.free # << >>
  PROVE  LET t == Fill(s, op)
         IN  /\ t \in Sidecar /\ Consistent(t)
             /\ t.slot = [s.slot EXCEPT ![op.key] = Head(s.free)]
             /\ t.data = [s.data EXCEPT ![Head(s.free)] = op]
             /\ \A j \in Resident(s) : s.slot[j] # Head(s.free)
<1> DEFINE t == Fill(s, op)
           k == op.key
           at == Head(s.free)
           longer == Append(s.order, k)
           rest == Tail(s.free)
<1>1. /\ s.order \in Seq(Key) /\ s.slot \in [Key -> 0 .. Capacity]
      /\ s.free \in Seq(Slot) /\ s.data \in [Slot -> Operator \cup {NoOperator}]
      /\ k \in Key
  BY DEF Sidecar, Operator
<1>2. /\ IsInjective(s.order) /\ ToSet(s.order) = Resident(s) /\ k \notin Resident(s)
      /\ IsInjective(s.free)
      /\ ToSet(s.free) = Slot \ {s.slot[j] : j \in Resident(s)}
  BY DEF Consistent, Resident
<1>3. /\ longer \in Seq(Key) /\ IsInjective(longer)
      /\ ToSet(longer) = ToSet(s.order) \cup {k}
  BY <1>1, <1>2, AppendElements
<1>4. /\ rest \in Seq(Slot) /\ IsInjective(rest) /\ at \in Slot
      /\ at \in ToSet(s.free) /\ ToSet(rest) = ToSet(s.free) \ {at}
  BY <1>1, <1>2, TailElements
<1>5. t = [s EXCEPT !.order = longer, !.slot[k] = at, !.free = rest, !.data[at] = op]
  BY DEF Fill
<1> HIDE DEF t, longer, rest, at
<1>6. /\ t.order = longer /\ t.slot = [s.slot EXCEPT ![k] = at] /\ t.free = rest
      /\ t.data = [s.data EXCEPT ![at] = op]
  BY <1>1, <1>5 DEF Sidecar
<1>7. t \in Sidecar
  <2>1. /\ t.data \in [Slot -> Operator \cup {NoOperator}]
        /\ t.slot \in [Key -> 0 .. Capacity]
    BY <1>1, <1>4, <1>6, CapacityAssumption DEF Slot
  <2>2. t = [order |-> t.order, slot |-> t.slot, free |-> t.free, data |-> t.data]
    BY <1>5, <1>6 DEF Sidecar
  <2> QED BY <1>1, <1>3, <1>4, <1>6, <2>1, <2>2 DEF Sidecar
<1>8. \A j \in Resident(s) : s.slot[j] # at
  BY <1>2, <1>4
<1>9. /\ \A j \in Key : t.slot[j] = IF j = k THEN at ELSE s.slot[j]
      /\ at # 0
  BY <1>1, <1>4, <1>6, CapacityAssumption DEF Slot
<1>10. Resident(t) = Resident(s) \cup {k}
  BY <1>1, <1>9 DEF Resident
<1>11. ToSet(t.free) = Slot \ {t.slot[j] : j \in Resident(t)}
  <2> DEFINE old == {s.slot[j] : j \in Resident(s)}
             now == {t.slot[j] : j \in Resident(t)}
  <2>1. \A j \in Resident(s) : j \in Resident(t) /\ t.slot[j] = s.slot[j]
    BY <1>2, <1>9, <1>10 DEF Resident
  <2>2. k \in Resident(t) /\ t.slot[k] = at
    BY <1>1, <1>9, <1>10
  <2>3. \A j \in Resident(t) : j \in Resident(s) \/ j = k
    BY <1>10
  <2>4. now = old \cup {at}
    BY <2>1, <2>2, <2>3
  <2> HIDE DEF old, now
  <2>5. ToSet(s.free) = Slot \ old /\ ToSet(t.free) = ToSet(s.free) \ {at}
    BY <1>2, <1>4, <1>6 DEF old
  <2> QED BY <2>4, <2>5 DEF now
<1>12. ASSUME NEW j \in Resident(t), NEW i \in Resident(t), t.slot[j] = t.slot[i]
       PROVE  j = i
  <2>1. j \in Key /\ i \in Key
    BY <1>1, <1>10 DEF Resident
  <2>2. CASE j # k /\ i # k
    <3>1. j \in Resident(s) /\ i \in Resident(s) /\ s.slot[j] = s.slot[i]
      BY <1>9, <1>10, <1>12, <2>1, <2>2
    <3> QED BY <3>1 DEF Consistent
  <2>3. CASE j = k /\ i # k
    <3>1. i \in Resident(s) /\ s.slot[i] = at
      BY <1>9, <1>10, <1>12, <2>1, <2>3
    <3> QED BY <1>8, <3>1
  <2>4. CASE j # k /\ i = k
    <3>1. j \in Resident(s) /\ s.slot[j] = at
      BY <1>9, <1>10, <1>12, <2>1, <2>4
    <3> QED BY <1>8, <3>1
  <2> QED BY <2>2, <2>3, <2>4
<1>13. ASSUME NEW j \in Resident(t)
       PROVE  t.data[t.slot[j]] # NoOperator /\ t.data[t.slot[j]].key = j
  <2>1. CASE j = k
    BY <1>1, <1>4, <1>6, <1>9, <2>1, NoOperatorAssumption
  <2>2. CASE j # k
    <3>1. j \in Resident(s) /\ j \in Key /\ s.slot[j] \in Slot
      BY <1>1, <1>10, <2>2, CapacityAssumption DEF Resident, Slot
    <3>2. s.data[s.slot[j]] # NoOperator /\ s.data[s.slot[j]].key = j
      BY <3>1 DEF Consistent
    <3>3. t.data[t.slot[j]] = s.data[s.slot[j]]
      BY <1>1, <1>6, <1>8, <1>9, <2>2, <3>1
    <3> QED BY <3>2, <3>3
  <2> QED BY <2>1, <2>2
<1>14. IsInjective(t.order) /\ ToSet(t.order) = Resident(t) /\ IsInjective(t.free)
  BY <1>2, <1>3, <1>4, <1>6, <1>10
<1>15. Consistent(t)
  BY <1>11, <1>12, <1>13, <1>14 DEF Consistent
<1> QED BY <1>6, <1>7, <1>8, <1>15 DEF t, at

(* A sidecar without free slots holds an operator under some key, and as    *)
(* many of them as it has slots.                                            *)
LEMMA FullSidecar ==
  ASSUME NEW s \in Sidecar, Consistent(s), s.free = << >>
  PROVE  /\ s.order # << >>
         /\ Cardinality(Resident(s)) = Capacity
<1> DEFINE R == Resident(s)
           f == [k \in R |-> s.slot[k]]
<1>1. /\ s.order \in Seq(Key) /\ s.slot \in [Key -> 0 .. Capacity]
      /\ ToSet(s.order) = R /\ R \subseteq Key
  BY DEF Sidecar, Consistent, Resident
<1>2. ToSet(s.free) = {}
  BY DEF ToSet
<1>3. Slot \subseteq {s.slot[k] : k \in R}
  BY <1>2 DEF Consistent
<1>4. f \in [R -> Slot]
  BY <1>1, CapacityAssumption DEF Resident, Slot
<1>5. f \in Injection(R, Slot)
  BY <1>4 DEF Consistent, Injection, IsInjective
<1>6. f \in Surjection(R, Slot)
  BY <1>3, <1>4 DEF Surjection
<1>7. IsFiniteSet(Slot) /\ Cardinality(Slot) = Capacity
  BY FS_Interval, CapacityAssumption DEF Slot
<1>8. Cardinality(R) = Capacity
  <2> HIDE DEF f, R
  <2> QED BY <1>5, <1>6, <1>7, FS_Injection
<1>9. s.order # << >>
  <2>1. 1 \in Slot
    BY CapacityAssumption DEF Slot
  <2>2. R # {}
    BY <1>3, <2>1
  <2> QED BY <1>1, <2>2 DEF ToSet
<1> QED BY <1>8, <1>9

(* An evicting store hands the slot of the least recently used key to the   *)
(* new one; no other key is concerned.                                      *)
LEMMA EvictKeeps ==
  ASSUME NEW s \in Sidecar, NEW op \in Operator, Consistent(s),
         s.slot[op.key] = 0, s.free = << >>
  PROVE  LET t   == Evict(s, op)
             lru == Head(s.order)
         IN  /\ t \in Sidecar /\ Consistent(t)
             /\ lru \in Resident(s) /\ lru # op.key
             /\ t.slot = [s.slot EXCEPT ![lru] = 0, ![op.key] = s.slot[lru]]
             /\ t.data = [s.data EXCEPT ![s.slot[lru]] = op]
<1> DEFINE t == Evict(s, op)
           k == op.key
           lru == Head(s.order)
           at == s.slot[lru]
           rest == Tail(s.order)
           aged == Append(rest, k)
<1>1. /\ s.order \in Seq(Key) /\ s.slot \in [Key -> 0 .. Capacity]
      /\ s.free \in Seq(Slot) /\ s.data \in [Slot -> Operator \cup {NoOperator}]
      /\ k \in Key /\ s.order # << >>
  BY FullSidecar DEF Sidecar, Operator
<1>2. /\ IsInjective(s.order) /\ ToSet(s.order) = Resident(s) /\ k \notin Resident(s)
      /\ ToSet(s.free) = Slot \ {s.slot[j] : j \in Resident(s)}
      /\ IsInjective(s.free)
  BY DEF Consistent, Resident
<1>3. /\ rest \in Seq(Key) /\ IsInjective(rest) /\ lru \in Key
      /\ lru \in Resident(s) /\ ToSet(rest) = Resident(s) \ {lru}
  BY <1>1, <1>2, TailElements
<1> HIDE DEF rest, lru
<1>4. /\ aged \in Seq(Key) /\ IsInjective(aged)
      /\ ToSet(aged) = (Resident(s) \ {lru}) \cup {k}
  <2>1. /\ aged \in Seq(Key) /\ ToSet(aged) = ToSet(rest) \cup {k}
        /\ IsInjective(rest) /\ k \notin ToSet(rest) => IsInjective(aged)
    BY <1>1, <1>3, AppendElements
  <2> HIDE DEF aged
  <2> QED BY <1>2, <1>3, <2>1
<1>5. at \in Slot /\ at # 0 /\ lru # k
  BY <1>1, <1>2, <1>3, CapacityAssumption DEF Resident, Slot
<1> HIDE DEF aged, at
<1>6. t = [s EXCEPT !.order = aged, !.slot = [@ EXCEPT ![lru] = 0, ![k] = at],
                    !.data[at] = op]
  BY DEF Evict, aged, at, lru, rest
<1> HIDE DEF t
<1>7. /\ t.order = aged /\ t.slot = [s.slot EXCEPT ![lru] = 0, ![k] = at]
      /\ t.free = s.free /\ t.data = [s.data EXCEPT ![at] = op]
  BY <1>1, <1>6 DEF Sidecar
<1>8. t \in Sidecar
  <2>1. /\ t.data \in [Slot -> Operator \cup {NoOperator}]
        /\ t.slot \in [Key -> 0 .. Capacity]
    BY <1>1, <1>5, <1>7, CapacityAssumption DEF Slot
  <2>2. t = [order |-> t.order, slot |-> t.slot, free |-> t.free, data |-> t.data]
    BY <1>6, <1>7 DEF Sidecar
  <2> QED BY <1>1, <1>4, <1>7, <2>1, <2>2 DEF Sidecar
<1>9. \A j \in Key : t.slot[j] = IF j = k THEN at ELSE IF j = lru THEN 0 ELSE s.slot[j]
  BY <1>1, <1>3, <1>5, <1>7
<1>10. Resident(t) = (Resident(s) \ {lru}) \cup {k}
  BY <1>1, <1>5, <1>9 DEF Resident
<1>11. \A j \in Resident(s) : j # lru => s.slot[j] # at
  BY <1>3 DEF Consistent, at
<1>12. ToSet(t.free) = Slot \ {t.slot[j] : j \in Resident(t)}
  <2>1. ToSet(t.free) = {}
    BY <1>7 DEF ToSet
  <2>2. ASSUME NEW i \in Slot PROVE i \in {t.slot[j] : j \in Resident(t)}
    <3>1. PICK j \in Resident(s) : s.slot[j] = i
      BY <1>2, <1>7, <2>1
    <3>2. CASE j = lru
      BY <1>1, <1>9, <1>10, <3>1, <3>2 DEF at
    <3>3. CASE j # lru
      <4>1. j \in Resident(t) /\ j \in Key /\ j # k
        BY <1>2, <1>10, <3>3 DEF Resident
      <4>2. t.slot[j] = i
        BY <1>9, <3>1, <3>3, <4>1
      <4> QED BY <4>1, <4>2
    <3> QED BY <3>2, <3>3
  <2> QED BY <2>1, <2>2
<1>13. ASSUME NEW j \in Resident(t), NEW i \in Resident(t), t.slot[j] = t.slot[i]
       PROVE  j = i
  <2>1. j \in Key /\ i \in Key
    BY DEF Resident
  <2>2. CASE j # k /\ i # k
    <3>1. j \in Resident(s) /\ i \in Resident(s) /\ s.slot[j] = s.slot[i]
      BY <1>9, <1>10, <1>13, <2>1, <2>2
    <3> QED BY <3>1 DEF Consistent
  <2>3. CASE j = k /\ i # k
    <3>1. i \in Resident(s) /\ i # lru /\ s.slot[i] = at
      BY <1>9, <1>10, <1>13, <2>1, <2>3
    <3> QED BY <1>11, <3>1
  <2>4. CASE j # k /\ i = k
    <3>1. j \in Resident(s) /\ j # lru /\ s.slot[j] = at
      BY <1>9, <1>10, <1>13, <2>1, <2>4
    <3> QED BY <1>11, <3>1
  <2> QED BY <2>2, <2>3, <2>4
<1>14. ASSUME NEW j \in Resident(t)
       PROVE  t.data[t.slot[j]] # NoOperator /\ t.data[t.slot[j]].key = j
  <2>1. CASE j = k
    BY <1>1, <1>5, <1>7, <1>9, <2>1, NoOperatorAssumption
  <2>2. CASE j # k
    <3>1. j \in Resident(s) /\ j # lru /\ j \in Key /\ s.slot[j] \in Slot
      BY <1>1, <1>10, <2>2, CapacityAssumption DEF Resident, Slot
    <3>2. s.data[s.slot[j]] # NoOperator /\ s.data[s.slot[j]].key = j
      BY <3>1 DEF Consistent
    <3>3. t.slot[j] = s.slot[j] /\ s.slot[j] # at
      BY <1>9, <1>11, <2>2, <3>1
    <3>4. t.data[t.slot[j]] = s.data[s.slot[j]]
      BY <1>1, <1>7, <3>1, <3>3
    <3> QED BY <3>2, <3>4
  <2> QED BY <2>1, <2>2
<1>15. IsInjective(t.order) /\ ToSet(t.order) = Resident(t) /\ IsInjective(t.free)
  BY <1>2, <1>4, <1>7, <1>10
<1>16. Consistent(t)
  BY <1>12, <1>13, <1>14, <1>15 DEF Consistent
<1> QED BY <1>3, <1>5, <1>7, <1>8, <1>16 DEF t, lru, at

(* Whatever slot a store finds, the sidecar stays consistent.               *)
LEMMA StoreKeeps ==
  ASSUME NEW s \in Sidecar, NEW op \in Operator, Consistent(s)
  PROVE  Store(s, op) \in Sidecar /\ Consistent(Store(s, op))
<1>1. op.key \in Key /\ s.slot[op.key] \in 0 .. Capacity
  BY DEF Operator, Sidecar
<1>2. CASE s.slot[op.key] # 0
  BY <1>2, OverwriteKeeps DEF Store
<1>3. CASE s.slot[op.key] = 0 /\ s.free # << >>
  BY <1>3, FillKeeps DEF Store
<1>4. CASE s.slot[op.key] = 0 /\ s.free = << >>
  BY <1>4, EvictKeeps DEF Store
<1> QED BY <1>2, <1>3, <1>4

-----------------------------------------------------------------------------
(* The invariant the theorems rest on: what the worker still has to touch   *)
(* or to store is named by context hashes.                                  *)
SidecarInv ==
  /\ sidecar \in [1 .. Layers -> Sidecar] /\ SidecarsConsistent
  /\ lookups \subseteq Task /\ stores \subseteq Task
  /\ epoch \in Nat

(* Before the first operator every sidecar is empty.                        *)
LEMMA EmptyConsistent == EmptySidecar \in Sidecar /\ Consistent(EmptySidecar)
<1> DEFINE all == [i \in Slot |-> i]
           s == EmptySidecar
<1>1. s.order = << >> /\ s.slot = [k \in Key |-> 0] /\ s.free = all
      /\ s.data = [i \in Slot |-> NoOperator]
  BY DEF EmptySidecar
<1>2. all \in Seq(Slot) /\ IsInjective(all) /\ ToSet(all) = Slot
  <2>1. all \in [1 .. Capacity -> Slot]
    BY DEF Slot
  <2>2. all \in Seq(Slot)
    BY <2>1, CapacityAssumption
  <2> QED BY <2>1, <2>2 DEF IsInjective, ToSet, Slot
<1> HIDE DEF all
<1>3. Resident(s) = {}
  BY <1>1 DEF Resident
<1>4. s \in Sidecar
  <2>1. << >> \in Seq(Key) /\ [k \in Key |-> 0] \in [Key -> 0 .. Capacity]
    BY CapacityAssumption
  <2> QED BY <1>2, <2>1 DEF Sidecar, EmptySidecar, all
<1>5. IsInjective(s.order) /\ ToSet(s.order) = {}
  BY <1>1 DEF IsInjective, ToSet
<1> QED BY <1>1, <1>2, <1>3, <1>4, <1>5 DEF Consistent

(* Every step keeps the invariant: only LookupNext and StoreNext reach a    *)
(* sidecar.                                                                 *)
LEMMA SidecarStep == SidecarInv /\ [Next]_vars => SidecarInv'
<1> SUFFICES ASSUME SidecarInv, [Next]_vars PROVE SidecarInv'
  OBVIOUS
<1> USE DEF SidecarInv
<1>1. CASE UNCHANGED vars
  BY <1>1 DEF vars, scheduler, forward, SidecarsConsistent
<1>2. ASSUME NEW r \in Request, Add(r) \/ End(r) PROVE SidecarInv'
  BY <1>2 DEF Add, End, forward, SidecarsConsistent
<1>3. CASE Reset
  BY <1>3 DEF Reset, forward, SidecarsConsistent
<1>4. CASE ScheduleRunning \/ SchedulePreempting \/ Admit \/ Launch
  BY <1>4 DEF ScheduleRunning, SchedulePreempting, Admit, Launch, scheduler, forward,
     SidecarsConsistent
<1>5. CASE Prepare
  BY <1>5 DEF Prepare, scheduler, SidecarsConsistent
<1>6. CASE LookupNext
  <2>1. PICK t \in lookups : /\ sidecar' = [sidecar EXCEPT ![t.layer] = Lookup(@, t.key)]
                             /\ lookups' = lookups \ {t}
    BY <1>6 DEF LookupNext
  <2>2. t.layer \in 1 .. Layers /\ t.key \in Key
    BY <2>1 DEF Task
  <2>3. sidecar[t.layer] \in Sidecar /\ Consistent(sidecar[t.layer])
    BY <2>2 DEF SidecarsConsistent
  <2>4. /\ Lookup(sidecar[t.layer], t.key) \in Sidecar
        /\ Consistent(Lookup(sidecar[t.layer], t.key))
    BY <2>2, <2>3, LookupKeeps
  <2>5. sidecar' \in [1 .. Layers -> Sidecar] /\ SidecarsConsistent'
    BY <2>1, <2>2, <2>4 DEF SidecarsConsistent
  <2>6. stores' = stores /\ epoch' = epoch
    BY <1>6 DEF LookupNext, scheduler
  <2> QED BY <2>1, <2>5, <2>6
<1>7. CASE StartLayer
  BY <1>7 DEF StartLayer, scheduler, SidecarsConsistent
<1>8. CASE StoreNext
  <2>1. PICK t \in stores :
          /\ sidecar' = [sidecar EXCEPT ![t.layer] =
                           Store(@, [key |-> t.key, epoch |-> epoch])]
          /\ stores' = stores \ {t}
    BY <1>8 DEF StoreNext
  <2> DEFINE op == [key |-> t.key, epoch |-> epoch]
  <2>2. t.layer \in 1 .. Layers /\ op \in Operator
    BY <2>1 DEF Task, Operator
  <2>3. sidecar[t.layer] \in Sidecar /\ Consistent(sidecar[t.layer])
    BY <2>2 DEF SidecarsConsistent
  <2> HIDE DEF op
  <2>4. /\ Store(sidecar[t.layer], op) \in Sidecar
        /\ Consistent(Store(sidecar[t.layer], op))
    BY <2>2, <2>3, StoreKeeps
  <2>5. sidecar' \in [1 .. Layers -> Sidecar] /\ SidecarsConsistent'
    BY <2>1, <2>2, <2>4 DEF SidecarsConsistent, op
  <2>6. lookups' = lookups /\ epoch' = epoch
    BY <1>8 DEF StoreNext, scheduler
  <2> QED BY <2>1, <2>5, <2>6
<1>9. CASE NextLayer \/ RaiseUnaligned
  BY <1>9 DEF NextLayer, RaiseUnaligned, scheduler, forward, SidecarsConsistent
<1> QED BY <1>1, <1>2, <1>3, <1>4, <1>5, <1>6, <1>7, <1>8, <1>9 DEF Next

(* The initial sidecars are empty.                                          *)
LEMMA SidecarInit == Init => SidecarInv
<1> SUFFICES ASSUME Init PROVE SidecarInv
  OBVIOUS
<1>1. sidecar = [l \in 1 .. Layers |-> EmptySidecar]
  BY DEF Init
<1>2. sidecar \in [1 .. Layers -> Sidecar] /\ SidecarsConsistent
  BY <1>1, EmptyConsistent DEF SidecarsConsistent
<1> QED BY <1>2 DEF Init, SidecarInv

(* The table and the tensors of every layer's sidecar always agree: the     *)
(* hazard of the per-layer caches that evict by themselves.                 *)
THEOREM SidecarsStayConsistent == Spec => []SidecarsConsistent
<1>1. SidecarInv => SidecarsConsistent
  BY DEF SidecarInv
<1> QED BY SidecarInit, SidecarStep, <1>1, PTL DEF Spec

-----------------------------------------------------------------------------
(* The operators one sidecar holds.                                         *)
HeldBy(s) == [k \in Key |-> IF s.slot[k] = 0 THEN NoOperator ELSE s.data[s.slot[k]]]

(* What a store does to the operators held: the new one comes, and the      *)
(* least recently used one goes if there were Capacity of them.             *)
LEMMA StoreHolds ==
  ASSUME NEW s \in Sidecar, NEW op \in Operator, Consistent(s)
  PROVE  LET t == Store(s, op)
         IN  /\ HeldBy(t)[op.key] = op
             /\ \/ HeldBy(t) = [HeldBy(s) EXCEPT ![op.key] = op]
                \/ \E gone \in Resident(s) :
                     /\ op.key \notin Resident(s) /\ Cardinality(Resident(s)) = Capacity
                     /\ HeldBy(t) = [HeldBy(s) EXCEPT ![gone] = NoOperator, ![op.key] = op]
<1> DEFINE t == Store(s, op)
           k == op.key
<1>1. /\ k \in Key /\ s.slot \in [Key -> 0 .. Capacity]
      /\ s.data \in [Slot -> Operator \cup {NoOperator}]
  BY DEF Operator, Sidecar
<1>2. \A i, j \in Resident(s) : s.slot[i] = s.slot[j] => i = j
  BY DEF Consistent
<1>3. \A j \in Key : s.slot[j] # 0 => s.slot[j] \in Slot
  BY <1>1, CapacityAssumption DEF Slot
<1>4. CASE s.slot[k] # 0
  <2>1. /\ t.slot = s.slot /\ t.data = [s.data EXCEPT ![s.slot[k]] = op]
    BY <1>4, OverwriteKeeps DEF Store
  <2> HIDE DEF t
  <2>2. \A j \in Key : HeldBy(t)[j] = IF j = k THEN op ELSE HeldBy(s)[j]
    <3> TAKE j \in Key
    <3>1. CASE s.slot[j] = 0
      BY <1>4, <2>1, <3>1 DEF HeldBy
    <3>2. CASE s.slot[j] # 0 /\ j # k
      <4>1. s.slot[j] # s.slot[k]
        BY <1>1, <1>2, <1>4, <3>2 DEF Resident
      <4> QED BY <1>1, <1>3, <2>1, <3>2, <4>1 DEF HeldBy
    <3>3. CASE j = k
      BY <1>1, <1>3, <1>4, <2>1, <3>3 DEF HeldBy
    <3> QED BY <3>1, <3>2, <3>3
  <2>3. HeldBy(t) = [HeldBy(s) EXCEPT ![k] = op]
    BY <2>2 DEF HeldBy
  <2> QED BY <1>1, <2>2, <2>3 DEF t
<1>5. CASE s.slot[k] = 0 /\ s.free # << >>
  <2> DEFINE at == Head(s.free)
  <2>1. /\ t.slot = [s.slot EXCEPT ![k] = at] /\ t.data = [s.data EXCEPT ![at] = op]
        /\ \A j \in Resident(s) : s.slot[j] # at
    BY <1>5, FillKeeps DEF Store
  <2>2. at \in Slot /\ at # 0
    <3>1. s.free \in Seq(Slot)
      BY DEF Sidecar
    <3> QED BY <1>5, <3>1, TailElements, CapacityAssumption DEF Slot
  <2> HIDE DEF t, at
  <2>3. \A j \in Key : HeldBy(t)[j] = IF j = k THEN op ELSE HeldBy(s)[j]
    <3> TAKE j \in Key
    <3>1. CASE s.slot[j] = 0 /\ j # k
      BY <1>1, <2>1, <3>1 DEF HeldBy
    <3>2. CASE s.slot[j] # 0 /\ j # k
      <4>1. s.slot[j] # at
        BY <2>1, <3>2 DEF Resident
      <4> QED BY <1>1, <1>3, <2>1, <3>2, <4>1 DEF HeldBy
    <3>3. CASE j = k
      BY <1>1, <2>1, <2>2, <3>3 DEF HeldBy
    <3> QED BY <3>1, <3>2, <3>3
  <2>4. HeldBy(t) = [HeldBy(s) EXCEPT ![k] = op]
    BY <2>3 DEF HeldBy
  <2> QED BY <1>1, <2>3, <2>4 DEF t
<1>6. CASE s.slot[k] = 0 /\ s.free = << >>
  <2> DEFINE lru == Head(s.order)
  <2>1. /\ lru \in Resident(s) /\ lru # k
        /\ t.slot = [s.slot EXCEPT ![lru] = 0, ![k] = s.slot[lru]]
        /\ t.data = [s.data EXCEPT ![s.slot[lru]] = op]
    BY <1>6, EvictKeeps DEF Store
  <2> HIDE DEF t, lru
  <2>2. lru \in Key /\ s.slot[lru] # 0
    BY <2>1 DEF Resident
  <2>3. \A j \in Key : HeldBy(t)[j] = IF j = k THEN op
                                     ELSE IF j = lru THEN NoOperator ELSE HeldBy(s)[j]
    <3> TAKE j \in Key
    <3>1. CASE s.slot[j] = 0 /\ j # k
      BY <1>1, <2>1, <2>2, <3>1 DEF HeldBy
    <3>2. CASE s.slot[j] # 0 /\ j # k /\ j # lru
      <4>1. s.slot[j] # s.slot[lru]
        BY <1>2, <2>1, <3>2 DEF Resident
      <4> QED BY <1>1, <1>3, <2>1, <2>2, <3>2, <4>1 DEF HeldBy
    <3>3. CASE j = lru
      BY <1>1, <2>1, <2>2, <3>3 DEF HeldBy
    <3>4. CASE j = k
      BY <1>1, <1>3, <2>1, <2>2, <3>4 DEF HeldBy
    <3> QED BY <3>1, <3>2, <3>3, <3>4
  <2>4. HeldBy(t) = [HeldBy(s) EXCEPT ![lru] = NoOperator, ![k] = op]
    BY <2>2, <2>3 DEF HeldBy
  <2>5. k \notin Resident(s) /\ Cardinality(Resident(s)) = Capacity
    BY <1>6, FullSidecar DEF Resident
  <2> QED BY <1>1, <2>1, <2>3, <2>4, <2>5 DEF t
<1> QED BY <1>1, <1>4, <1>5, <1>6 DEF Sidecar

(* The operators held, seen from the model and from one sidecar.            *)
LEMMA HeldOperatorsAre == HeldOperators = [l \in 1 .. Layers |-> HeldBy(sidecar[l])]
BY DEF HeldOperators, HeldBy

(* The hashes under which the abstract cache holds something are those the  *)
(* table of the sidecar lists.                                              *)
LEMMA HoldsResident ==
  ASSUME NEW l \in 1 .. Layers, NEW s \in Sidecar, Consistent(s), s = sidecar[l]
  PROVE  Cache!Holds(l) = Resident(s)
<1>1. HeldOperators[l] = HeldBy(s)
  BY HeldOperatorsAre
<1>2. \A k \in Key : HeldBy(s)[k] # NoOperator <=> k \in Resident(s)
  BY DEF HeldBy, Resident, Consistent
<1> QED BY <1>1, <1>2 DEF Cache!Holds, Resident

(* Every step of the reuse is a store of the abstract cache or changes      *)
(* nothing it sees.                                                         *)
LEMMA CacheStep == SidecarInv /\ [Next]_vars => [Cache!Next]_HeldOperators
<1> SUFFICES ASSUME SidecarInv, [Next]_vars PROVE [Cache!Next]_HeldOperators
  OBVIOUS
<1> USE DEF SidecarInv
<1>1. CASE sidecar' = sidecar
  BY <1>1 DEF HeldOperators
<1>2. CASE LookupNext
  <2>1. PICK t \in lookups : sidecar' = [sidecar EXCEPT ![t.layer] = Lookup(@, t.key)]
    BY <1>2 DEF LookupNext
  <2>2. t.layer \in 1 .. Layers /\ t.key \in Key
    BY <2>1 DEF Task
  <2>3. sidecar[t.layer] \in Sidecar /\ Consistent(sidecar[t.layer])
    BY <2>2 DEF SidecarsConsistent
  <2>4. \A l \in 1 .. Layers : /\ sidecar'[l].slot = sidecar[l].slot
                               /\ sidecar'[l].data = sidecar[l].data
    BY <2>1, <2>2, <2>3, LookupKeeps
  <2> QED BY <2>4 DEF HeldOperators
<1>3. CASE StoreNext
  <2>1. PICK t \in stores :
          sidecar' = [sidecar EXCEPT ![t.layer] =
                       Store(@, [key |-> t.key, epoch |-> epoch])]
    BY <1>3 DEF StoreNext
  <2> DEFINE op == [key |-> t.key, epoch |-> epoch]
             m == t.layer
             s == sidecar[m]
             k == t.key
  <2>2. m \in 1 .. Layers /\ op \in Operator /\ op.key = k /\ k \in Key
    BY <2>1 DEF Task, Operator
  <2>3. s \in Sidecar /\ Consistent(s)
    BY <2>2 DEF SidecarsConsistent
  <2>4. op \in [key : {k}, epoch : Nat]
    BY <2>2
  <2>5. sidecar' = [sidecar EXCEPT ![m] = Store(s, op)]
    BY <2>1
  <2> HIDE DEF op, s, m, k
  <2>6. /\ HeldBy(Store(s, op))[k] = op
        /\ \/ HeldBy(Store(s, op)) = [HeldBy(s) EXCEPT ![k] = op]
           \/ \E gone \in Resident(s) :
                /\ k \notin Resident(s) /\ Cardinality(Resident(s)) = Capacity
                /\ HeldBy(Store(s, op)) = [HeldBy(s) EXCEPT ![gone] = NoOperator, ![k] = op]
    BY <2>2, <2>3, StoreHolds
  <2>7. HeldOperators = [l \in 1 .. Layers |-> HeldBy(sidecar[l])]
    BY HeldOperatorsAre
  <2>8. HeldOperators' = [HeldOperators EXCEPT ![m] = HeldBy(Store(s, op))]
    <3>1. HeldOperators' = [l \in 1 .. Layers |-> HeldBy(sidecar'[l])]
      BY DEF HeldOperators, HeldBy
    <3>2. sidecar \in [1 .. Layers -> Sidecar]
      OBVIOUS
    <3> HIDE DEF SidecarInv
    <3> QED BY <2>2, <2>5, <2>7, <3>1, <3>2
  <2>9. HeldOperators'[m] = HeldBy(Store(s, op)) /\ HeldOperators[m] = HeldBy(s)
    BY <2>2, <2>7, <2>8 DEF s
  <2>10. HeldOperators'[m][k] = op
    BY <2>6, <2>9
  <2>11. Cache!Holds(m) = Resident(s)
    BY <2>2, <2>3, HoldsResident DEF s
  <2>12. CASE HeldBy(Store(s, op)) = [HeldBy(s) EXCEPT ![k] = op]
    <3>1. HeldOperators' = [HeldOperators EXCEPT
                              ![m] = [@ EXCEPT ![k] = HeldOperators'[m][k]]]
      BY <2>8, <2>9, <2>10, <2>12
    <3> QED BY <2>2, <2>4, <2>10, <3>1 DEF Cache!Next, Cache!StoreUnder
  <2>13. ASSUME NEW gone \in Resident(s),
                k \notin Resident(s), Cardinality(Resident(s)) = Capacity,
                HeldBy(Store(s, op)) = [HeldBy(s) EXCEPT ![gone] = NoOperator, ![k] = op]
         PROVE  Cache!Next
    <3>1. HeldOperators' = [HeldOperators EXCEPT
            ![m] = [@ EXCEPT ![gone] = NoOperator, ![k] = HeldOperators'[m][k]]]
      BY <2>8, <2>9, <2>10, <2>13
    <3>2. Cache!Cardinality(Resident(s)) = Capacity
      BY <2>13 DEF Cardinality, Cache!Cardinality, IsFiniteSet, Cache!IsFiniteSet
    <3> QED BY <2>2, <2>4, <2>10, <2>11, <2>13, <3>1, <3>2 DEF Cache!Next, Cache!StoreUnder
  <2> QED BY <2>6, <2>12, <2>13
<1>4. CASE UNCHANGED vars
  BY <1>1, <1>4 DEF vars, forward
<1>5. ASSUME NEW r \in Request, Add(r) \/ End(r) PROVE sidecar' = sidecar
  BY <1>5 DEF Add, End, forward
<1>6. CASE \/ Reset \/ ScheduleRunning \/ SchedulePreempting \/ Admit \/ Launch
           \/ Prepare \/ StartLayer \/ NextLayer \/ RaiseUnaligned
  <2>1. sidecar' = sidecar
    BY <1>6 DEF Reset, ScheduleRunning, SchedulePreempting, Admit, Launch, Prepare,
       StartLayer, NextLayer, RaiseUnaligned, forward
  <2> QED BY <1>1, <2>1
<1> QED BY <1>1, <1>2, <1>3, <1>4, <1>5, <1>6 DEF Next

(* The sidecars implement the operator cache: an operator stays under its   *)
(* hash until a full sidecar gives it up for another one.                   *)
THEOREM SidecarsImplementCache == Spec => ImplementsOperatorCache
<1>1. Init => Cache!Init
  <2> SUFFICES ASSUME Init PROVE Cache!Init
    OBVIOUS
  <2>1. sidecar = [l \in 1 .. Layers |-> EmptySidecar]
    BY DEF Init
  <2>2. \A k \in Key : EmptySidecar.slot[k] = 0
    BY DEF EmptySidecar
  <2> QED BY <2>1, <2>2 DEF Cache!Init, HeldOperators
<1> QED BY <1>1, SidecarInit, SidecarStep, CacheStep, PTL
        DEF Spec, ImplementsOperatorCache, Cache!Spec

-----------------------------------------------------------------------------
(* The rows of a batch.                                                     *)
RowType == [req : Request, start : Nat, count : Nat]

(* A row is a row, and takes no more than there is room for.                *)
LEMMA RowTyped ==
  ASSUME NEW r \in Request, NEW start \in Nat, NEW room \in Nat
  PROVE  Row(r, start, room) \in RowType /\ Row(r, start, room).count <= room
<1>1. Len(Blocks[r]) \in Nat /\ TailTokens[r] \in Nat /\ BlockSize \in Nat
  BY ContextAssumption
<1>2. Len(Blocks[r]) * BlockSize \in Nat
  BY <1>1
<1>3. PromptLen(r) \in Nat
  BY <1>1, <1>2 DEF PromptLen
<1> HIDE DEF PromptLen
<1> QED BY <1>3 DEF Row, RowType

(* Rows count their tokens.                                                 *)
LEMMA RowsCount == Counted(RowType) /\ \A rows : SumOf(rows) = TotalOf(rows)
<1>1. Counted(RowType)
  BY DEF Counted, RowType
<1>2. \A rows : SumOf(rows) = TotalOf(rows)
  BY DEF SumOf, TotalOf
<1> QED BY <1>1, <1>2

(* A step without rows takes no tokens.                                     *)
LEMMA SumOfEmpty == SumOf(<< >>) = 0
BY RowsCount, TotalOfNone

(* A row that comes adds its tokens to the step's.                          *)
LEMMA SumOfAppend ==
  ASSUME NEW rows \in Seq(RowType), NEW row \in RowType
  PROVE  SumOf(rows) \in Nat /\ SumOf(Append(rows, row)) = SumOf(rows) + row.count
BY RowsCount, TotalAppended

-----------------------------------------------------------------------------
(* A row takes no more than the tokens that are left.                       *)
LEMMA RowAdded ==
  ASSUME NEW rows \in Seq(RowType), SumOf(rows) <= Budget, SumOf(rows) # Budget,
         NEW r \in Request, NEW start \in Nat
  PROVE  LET longer == Append(rows, Row(r, start, Budget - SumOf(rows)))
         IN  longer \in Seq(RowType) /\ SumOf(longer) <= Budget
<1> DEFINE room == Budget - SumOf(rows)
           row == Row(r, start, room)
           longer == Append(rows, row)
<1>1. SumOf(rows) \in Nat /\ Budget \in Nat
  <2>1. [req |-> r, start |-> 0, count |-> 0] \in RowType
    BY DEF RowType
  <2> QED BY <2>1, SumOfAppend, ContextAssumption
<1>2. room \in Nat
  BY <1>1
<1>3. row \in RowType /\ row.count <= room
  <2> HIDE DEF room
  <2> QED BY <1>2, RowTyped
<1> HIDE DEF row
<1>4. row.count \in Nat
  BY <1>3 DEF RowType
<1>5. longer \in Seq(RowType) /\ SumOf(longer) = SumOf(rows) + row.count
  BY <1>3, SumOfAppend
<1> HIDE DEF longer
<1>6. SumOf(longer) <= Budget
  BY <1>1, <1>3, <1>4, <1>5
<1> QED BY <1>5, <1>6 DEF longer, row

(* The rows of the running requests stay within the token budget.           *)
LEMMA RowsTyped ==
  ASSUME NEW requests \in Seq(Request), computed \in [Request -> Nat]
  PROVE  Rows(requests) \in Seq(RowType) /\ SumOf(Rows(requests)) <= Budget
<1> DEFINE n == Len(requests)
           U == {rows \in Seq(RowType) : SumOf(rows) <= Budget}
           base == << >>
           More(rows, r) == IF SumOf(rows) = Budget THEN rows
                            ELSE Append(rows, Row(r, computed[r], Budget - SumOf(rows)))
           step == [i \in 1 .. n |-> [rows \in U |-> More(rows, requests[i])]]
           Eq(f) == f = [s \in SUBSET (DOMAIN requests) |->
                           IF s = {} THEN << >>
                           ELSE More(f[s \ {Max(s)}], requests[Max(s)])]
           iter == CHOOSE f : Eq(f)
<1>1. n \in Nat /\ DOMAIN requests = 1 .. n /\ \A i \in 1 .. n : requests[i] \in Request
  OBVIOUS
<1>2. Rows(requests) = iter[DOMAIN requests]
  BY DEF Rows, FoldLeft, MapThenFoldSet
<1>3. base \in U
  <2>1. SumOf(base) = 0 /\ Budget \in Nat
    BY SumOfEmpty, ContextAssumption
  <2> QED BY <2>1
<1>4. ASSUME NEW rows \in U, NEW r \in Request
      PROVE  More(rows, r) \in U
  <2>1. rows \in Seq(RowType) /\ SumOf(rows) <= Budget /\ computed[r] \in Nat
    OBVIOUS
  <2>2. CASE SumOf(rows) # Budget
    <3> DEFINE longer == Append(rows, Row(r, computed[r], Budget - SumOf(rows)))
    <3>1. longer \in Seq(RowType) /\ SumOf(longer) <= Budget
      BY <2>1, <2>2, RowAdded
    <3> HIDE DEF longer
    <3>2. longer \in U
      BY <3>1
    <3> QED BY <2>2, <3>2 DEF longer
  <2> QED BY <2>2
<1> HIDE DEF n, U, base, More
<1>5. Eq(iter)
  <2>1. step \in [1 .. n -> [U -> U]]
    BY <1>1, <1>4
  <2> HIDE DEF step
  <2>2. HasRecursion(n, U, base, step)
    BY <1>1, <1>3, <2>1, FoldDefined
  <2>3. PICK h \in [SUBSET (1 .. n) -> U] : Recursion(n, base, step, h)
    BY <2>2 DEF HasRecursion
  <2>4. ASSUME NEW s \in SUBSET (1 .. n)
        PROVE  h[s] = IF s = {} THEN << >> ELSE More(h[s \ {Max(s)}], requests[Max(s)])
    <3>1. CASE s = {}
      BY <2>3, <3>1 DEF Recursion, base
    <3>2. CASE s # {}
      <4>1. Max(s) \in 1 .. n
        BY <1>1, <3>2, MaxPlace
      <4>2. s \ {Max(s)} \in SUBSET (1 .. n)
        OBVIOUS
      <4>3. h[s \ {Max(s)}] \in U
        BY <2>3, <4>2
      <4>4. h[s] = step[Max(s)][h[s \ {Max(s)}]]
        BY <2>3, <3>2 DEF Recursion
      <4> QED BY <3>2, <4>1, <4>3, <4>4 DEF step
    <3> QED BY <3>1, <3>2
  <2>5. h = [s \in SUBSET (DOMAIN requests) |-> h[s]]
    BY <1>1, <2>3
  <2>6. Eq(h)
    BY <1>1, <2>4, <2>5
  <2> HIDE DEF Eq
  <2> QED BY <2>6
<1> HIDE DEF iter
<1>6. iter[1 .. 0] \in U
  <2>1. iter[1 .. 0] = << >>
    BY <1>1, <1>5
  <2> QED BY <1>3, <2>1 DEF base
<1> DEFINE T == {k \in 0 .. n : iter[1 .. k] \in U}
<1>7. 0 \in T
  BY <1>1, <1>6
<1>8. ASSUME NEW k \in 0 .. n, k < n, k \in T
      PROVE  k + 1 \in T
  <2> DEFINE m == k + 1
  <2>1. m \in 1 .. n /\ m \in 0 .. n /\ m - 1 = k
    BY <1>1, <1>8
  <2> HIDE DEF m
  <2>2. 1 .. m \in SUBSET (1 .. n) /\ 1 .. m # {} /\ Max(1 .. m) = m
        /\ (1 .. m) \ {m} = 1 .. m - 1
    BY <1>1, <2>1, PlacesUpTo
  <2>3. iter[1 .. m] = More(iter[1 .. k], requests[m])
    BY <1>1, <1>5, <2>1, <2>2
  <2>4. iter[1 .. k] \in U /\ requests[m] \in Request
    BY <1>1, <1>8, <2>1
  <2>5. m \in T
    BY <1>4, <2>1, <2>3, <2>4
  <2> QED BY <2>5 DEF m
<1> HIDE DEF T
<1>9. \A k \in 0 .. n : k \in T
  BY <1>1, <1>7, <1>8, InductionUpTo
<1>10. n \in T
  BY <1>1, <1>9
<1>11. Rows(requests) \in U
  BY <1>1, <1>2, <1>10 DEF T
<1> QED BY <1>11 DEF U

(* The worker's order is a permutation of the rows.                         *)
LEMMA WorkerOrderTyped ==
  ASSUME NEW rows \in Seq(RowType)
  PROVE  InWorkerOrder(rows) \in Seq(RowType) /\ SumOf(InWorkerOrder(rows)) = SumOf(rows)
<1>1. InWorkerOrder(rows) = ByCount(rows)
  BY DEF InWorkerOrder, ByCount
<1>2. PICK p : IsPermutation(Len(rows), p) /\ ByCount(rows) = Permuted(rows, p)
  BY RowsCount, ByCountPermutes
<1>3. p \in [1 .. Len(rows) -> 1 .. Len(rows)] /\ IsInjective(p)
  BY <1>2 DEF IsPermutation
<1>4. Permuted(rows, p) \in Seq(RowType) /\ TotalOf(Permuted(rows, p)) = TotalOf(rows)
  BY <1>3, RowsCount, TotalReordered
<1> QED BY <1>1, <1>2, <1>4, RowsCount

-----------------------------------------------------------------------------
(* Blocks that fit into the prompt.                                         *)
LEMMA WholeBlocks ==
  ASSUME NEW a \in Int, NEW b \in Nat \ {0}, NEW n \in 0 .. a \div b
  PROVE  n * b \in Nat /\ n * b <= a
<1> DEFINE q == a \div b
<1>1. q \in Int /\ b * q <= a /\ n \in Nat /\ n <= q
  OBVIOUS
<1> HIDE DEF q
<1>2. n * b <= q * b
  BY <1>1
<1>3. q * b = b * q /\ q * b \in Int /\ n * b \in Nat
  BY <1>1
<1> QED BY <1>1, <1>2, <1>3

(* A prompt has its blocks' tokens and those of the tail.                   *)
LEMMA PromptLenTyped == \A r \in Request : PromptLen(r) \in Nat
<1> TAKE r \in Request
<1>1. Len(Blocks[r]) \in Nat /\ TailTokens[r] \in Nat /\ BlockSize \in Nat
  BY ContextAssumption
<1>2. Len(Blocks[r]) * BlockSize \in Nat
  BY <1>1
<1> QED BY <1>1, <1>2 DEF PromptLen

(* The prefix the native cache holds is shorter than the prompt.            *)
LEMMA NativeHitsFit ==
  ASSUME NEW r \in Request, NEW n \in NativeHits(r)
  PROVE  n \in Nat /\ n * BlockSize \in Nat /\ n * BlockSize <= PromptLen(r)
<1>1. PromptLen(r) \in Nat /\ BlockSize \in Nat \ {0}
  BY PromptLenTyped, ContextAssumption
<1>2. n \in 0 .. (PromptLen(r) - 1) \div BlockSize
  BY DEF NativeHits
<1> DEFINE a == PromptLen(r) - 1
<1>3. a \in Int /\ a <= PromptLen(r)
  BY <1>1
<1>4. n * BlockSize \in Nat /\ n * BlockSize <= a
  <2> HIDE DEF a
  <2>1. n \in 0 .. a \div BlockSize
    BY <1>2 DEF a
  <2> QED BY <1>1, <1>3, <2>1, WholeBlocks
<1> HIDE DEF a
<1> QED BY <1>1, <1>2, <1>3, <1>4

-----------------------------------------------------------------------------
(* The requests of the scheduler: each queue lists the requests of a status *)
(* once, the index is bounded, the rows of the step stay in the budget.     *)
Lists(queue, what) ==
  /\ queue \in Seq(Request) /\ IsInjective(queue)
  /\ ToSet(queue) = {r \in Request : status[r] = what}

GoodIndex(sources) ==
  sources \in Seq(Request) /\ IsInjective(sources) /\ Len(sources) <= MaxSources

GoodRows(rows) == rows \in Seq(RowType) /\ SumOf(rows) <= Budget

QueueInv ==
  /\ status \in [Request -> {"new", "waiting", "running", "done"}]
  /\ computed \in [Request -> Nat] /\ \A r \in Request : computed[r] <= PromptLen(r)
  /\ Lists(waiting, "waiting") /\ Lists(running, "running")
  /\ GoodIndex(index)
  /\ new \in Seq(Request) /\ GoodRows(batch)
  /\ plan \in [Request -> SUBSET Candidate] /\ worker \in [Request -> SUBSET Candidate]

(* A source that is asked for goes to the young end of the index.           *)
LEMMA IndexRefreshed ==
  ASSUME GoodIndex(index), NEW s, s \in ToSet(index)
  PROVE  GoodIndex(Append(RemoveFirst(index, s), s))
<1> DEFINE rest == RemoveFirst(index, s)
           m == Append(rest, s)
<1>1. index \in Seq(Request) /\ IsInjective(index) /\ Len(index) <= MaxSources
      /\ DOMAIN index = 1 .. Len(index) /\ Len(index) \in Nat /\ MaxSources \in Nat
  BY ContextAssumption DEF GoodIndex
<1>2. s \in Request
  BY <1>1 DEF ToSet
<1>3. rest \in Seq(Request) /\ IsInjective(rest) /\ ToSet(rest) = ToSet(index) \ {s}
      /\ Len(rest) = Len(index) - 1
  BY <1>1, RemoveFirstProperties, RemoveFirstShortens
<1> HIDE DEF rest
<1>4. s \notin ToSet(rest)
  BY <1>3
<1>5. m \in Seq(Request) /\ IsInjective(m) /\ Len(m) = Len(rest) + 1
  BY <1>2, <1>3, <1>4, AppendElements
<1> HIDE DEF m
<1>6. GoodIndex(m)
  BY <1>1, <1>3, <1>5 DEF GoodIndex
<1> QED BY <1>6 DEF m, rest

(* A request that ends becomes the youngest source; the oldest one goes     *)
(* when there are too many.                                                 *)
LEMMA IndexExtended ==
  ASSUME GoodIndex(index), NEW r \in Request, IndexSource(r)
  PROVE  GoodIndex(index')
<1> DEFINE rest == RemoveFirst(index, r)
           all == Append(rest, r)
<1>1. index \in Seq(Request) /\ IsInjective(index) /\ Len(index) <= MaxSources
      /\ Len(index) \in Nat /\ MaxSources \in Nat
  BY ContextAssumption DEF GoodIndex
<1>2. rest \in Seq(Request) /\ IsInjective(rest) /\ ToSet(rest) = ToSet(index) \ {r}
      /\ Len(rest) <= Len(index)
  BY <1>1, RemoveFirstProperties
<1> HIDE DEF rest
<1>3. all \in Seq(Request) /\ IsInjective(all) /\ Len(all) = Len(rest) + 1
      /\ Len(rest) \in Nat
  BY <1>2, AppendElements
<1> HIDE DEF all
<1>4. index' = IF Len(all) > MaxSources THEN Tail(all) ELSE all
  BY DEF IndexSource, all, rest
<1>5. CASE Len(all) > MaxSources
  <2>1. all # << >>
    BY <1>3
  <2>2. Tail(all) \in Seq(Request) /\ Len(Tail(all)) = Len(all) - 1 /\ IsInjective(Tail(all))
    BY <1>3, <2>1, TailElements
  <2> QED BY <1>1, <1>2, <1>3, <1>4, <1>5, <2>2 DEF GoodIndex
<1>6. CASE ~ (Len(all) > MaxSources)
  BY <1>1, <1>3, <1>4, <1>6 DEF GoodIndex
<1> QED BY <1>5, <1>6

(* Locating a source gives a plan and leaves a good index.                  *)
LEMMA LocateTyped ==
  ASSUME QueueInv, NEW r \in Request, NEW native, Locate(r, native)
  PROVE  plan' \in [Request -> SUBSET Candidate] /\ GoodIndex(index')
<1>1. plan' \in [Request -> SUBSET Candidate]
  BY DEF Locate, Located, QueueInv
<1>2. GoodIndex(index')
  BY IndexRefreshed DEF Locate, QueueInv
<1> QED BY <1>1, <1>2

(* QueueInv is inductive: it holds at first, and each action keeps it.      *)
LEMMA QueueInit == Init => QueueInv
<1> SUFFICES ASSUME Init PROVE QueueInv
  OBVIOUS
<1> DEFINE none == << >>
<1>1. none \in Seq(Request) /\ none \in Seq(RowType) /\ IsInjective(none)
      /\ ToSet(none) = {} /\ Len(none) = 0
  BY DEF IsInjective, ToSet
<1>2. SumOf(none) = 0 /\ Budget \in Nat /\ MaxSources \in Nat
      /\ \A r \in Request : PromptLen(r) \in Nat
  BY SumOfEmpty, PromptLenTyped, ContextAssumption
<1>3. /\ status = [r \in Request |-> "new"] /\ waiting = none /\ running = none
      /\ computed = [r \in Request |-> 0] /\ index = none /\ batch = none /\ new = none
      /\ plan = [r \in Request |-> {}] /\ worker = plan
  BY DEF Init
<1> HIDE DEF none
<1>4. Lists(waiting, "waiting") /\ Lists(running, "running") /\ GoodIndex(index)
      /\ GoodRows(batch)
  BY <1>1, <1>2, <1>3 DEF Lists, GoodIndex, GoodRows
<1>5. plan \in [Request -> SUBSET Candidate]
  BY <1>3
<1> HIDE DEF Init
<1> QED BY <1>1, <1>2, <1>3, <1>4, <1>5 DEF QueueInv

(* A request that comes joins the waiting ones.                             *)
LEMMA AddQueues == ASSUME QueueInv, NEW r \in Request, Add(r) PROVE QueueInv'
<1> DEFINE longer == Append(waiting, r)
<1>1. waiting \in Seq(Request) /\ IsInjective(waiting) /\ r \notin ToSet(waiting)
      /\ status[r] = "new"
  BY DEF QueueInv, Lists, Add
<1>2. longer \in Seq(Request) /\ IsInjective(longer) /\ ToSet(longer) = ToSet(waiting) \cup {r}
  BY <1>1, AppendElements
<1> HIDE DEF longer
<1>3. waiting' = longer /\ status' = [status EXCEPT ![r] = "waiting"]
  BY DEF Add, longer
<1>4. Lists(waiting, "waiting")' /\ Lists(running, "running")'
  BY <1>1, <1>2, <1>3 DEF QueueInv, Lists, Add
<1> QED BY <1>3, <1>4 DEF QueueInv, Add, GoodIndex, GoodRows, forward

(* A request that ends or is aborted leaves its queue and is indexed.       *)
LEMMA EndQueues == ASSUME QueueInv, NEW r \in Request, End(r) PROVE QueueInv'
<1> DEFINE w == RemoveFirst(waiting, r)
           u == RemoveFirst(running, r)
<1>1. /\ waiting \in Seq(Request) /\ IsInjective(waiting)
      /\ running \in Seq(Request) /\ IsInjective(running) /\ GoodIndex(index)
  BY DEF QueueInv, Lists
<1>2. w \in Seq(Request) /\ IsInjective(w) /\ ToSet(w) = ToSet(waiting) \ {r}
  BY <1>1, RemoveFirstProperties
<1>3. u \in Seq(Request) /\ IsInjective(u) /\ ToSet(u) = ToSet(running) \ {r}
  BY <1>1, RemoveFirstProperties
<1>4. GoodIndex(index')
  BY <1>1, IndexExtended DEF End
<1> HIDE DEF w, u
<1>5. waiting' = w /\ running' = u /\ status' = [status EXCEPT ![r] = "done"]
  BY DEF End, w, u
<1>6. Lists(waiting, "waiting")' /\ Lists(running, "running")'
  BY <1>2, <1>3, <1>5 DEF QueueInv, Lists
<1>7. GoodIndex(index)'
  BY <1>4 DEF GoodIndex
<1> QED BY <1>5, <1>6, <1>7 DEF QueueInv, End, GoodRows, forward

(* The youngest running request goes to the head of the waiting ones.       *)
LEMMA SchedulePreemptingQueues == ASSUME QueueInv, SchedulePreempting PROVE QueueInv'
<1> DEFINE r == Last(running)
           u == Front(running)
           w == <<r>> \o waiting
<1>1. /\ waiting \in Seq(Request) /\ IsInjective(waiting)
      /\ running \in Seq(Request) /\ IsInjective(running) /\ running # << >>
      /\ computed \in [Request -> Nat]
  BY DEF QueueInv, Lists, SchedulePreempting
<1>2. /\ u \in Seq(Request) /\ IsInjective(u) /\ r \in Request /\ r \in ToSet(running)
      /\ ToSet(u) = ToSet(running) \ {r}
  BY <1>1, FrontElements
<1> HIDE DEF r, u
<1>3. r \notin ToSet(waiting) /\ status[r] = "running"
  BY <1>2 DEF QueueInv, Lists
<1>4. w \in Seq(Request) /\ IsInjective(w) /\ ToSet(w) = ToSet(waiting) \cup {r}
  BY <1>1, <1>2, <1>3, PrependElements
<1> HIDE DEF w
<1>5. /\ waiting' = w /\ running' = u /\ status' = [status EXCEPT ![r] = "waiting"]
      /\ computed' = [computed EXCEPT ![r] = 0] /\ batch' = Rows(u) /\ new' = << >>
      /\ UNCHANGED <<index, plan, worker>>
  BY DEF SchedulePreempting, r, u, w, forward
<1>6. Lists(waiting, "waiting")' /\ Lists(running, "running")'
  BY <1>2, <1>3, <1>4, <1>5 DEF QueueInv, Lists
<1>7. GoodRows(batch)'
  BY <1>1, <1>2, <1>5, RowsTyped DEF GoodRows
<1>8. computed' \in [Request -> Nat] /\ \A i \in Request : computed'[i] <= PromptLen(i)
  BY <1>1, <1>2, <1>5, PromptLenTyped DEF QueueInv
<1>9. new' \in Seq(Request)
  BY <1>5
<1>10. status' \in [Request -> {"new", "waiting", "running", "done"}]
  BY <1>5 DEF QueueInv
<1> QED BY <1>5, <1>6, <1>7, <1>8, <1>9, <1>10 DEF QueueInv, GoodIndex

(* The head of the waiting queue starts to run, with a row.                 *)
LEMMA AdmitQueues == ASSUME QueueInv, Admit PROVE QueueInv'
<1> DEFINE r == Head(waiting)
           w == Tail(waiting)
           u == Append(running, r)
<1>1. /\ waiting \in Seq(Request) /\ IsInjective(waiting) /\ waiting # << >>
      /\ running \in Seq(Request) /\ IsInjective(running)
      /\ computed \in [Request -> Nat] /\ new \in Seq(Request)
      /\ batch \in Seq(RowType) /\ SumOf(batch) <= Budget /\ SumOf(batch) < Budget
  BY DEF QueueInv, Lists, GoodRows, Admit
<1>2. /\ w \in Seq(Request) /\ IsInjective(w) /\ r \in Request /\ r \in ToSet(waiting)
      /\ ToSet(w) = ToSet(waiting) \ {r}
  BY <1>1, TailElements
<1> HIDE DEF r, w
<1>3. r \notin ToSet(running) /\ status[r] = "waiting"
  BY <1>2 DEF QueueInv, Lists
<1>4. u \in Seq(Request) /\ IsInjective(u) /\ ToSet(u) = ToSet(running) \cup {r}
      /\ Append(new, r) \in Seq(Request)
  BY <1>1, <1>2, <1>3, AppendElements
<1> HIDE DEF u
<1>5. PICK n \in NativeHits(r) :
        /\ Locate(r, n * BlockSize)
        /\ batch' = Append(batch, Row(r, n * BlockSize, Budget - SumOf(batch)))
        /\ new' = Append(new, r)
        /\ status' = [status EXCEPT ![r] = "running"]
        /\ running' = u /\ waiting' = w
        /\ computed' = [computed EXCEPT ![r] = n * BlockSize]
  BY DEF Admit, r, u, w
<1>6. n * BlockSize \in Nat /\ n * BlockSize <= PromptLen(r)
  BY <1>2, <1>5, NativeHitsFit
<1>7. Lists(waiting, "waiting")' /\ Lists(running, "running")'
  BY <1>2, <1>3, <1>4, <1>5 DEF QueueInv, Lists
<1>8. GoodRows(batch)'
  <2>1. SumOf(batch) # Budget
    <3>1. SumOf(batch) \in Nat /\ Budget \in Nat
      <4>1. [req |-> r, start |-> 0, count |-> 0] \in RowType
        BY <1>2 DEF RowType
      <4> QED BY <1>1, <4>1, SumOfAppend, ContextAssumption
    <3> QED BY <1>1, <3>1
  <2> QED BY <1>1, <1>2, <1>5, <1>6, <2>1, RowAdded DEF GoodRows
<1>9. computed' \in [Request -> Nat] /\ \A i \in Request : computed'[i] <= PromptLen(i)
  BY <1>1, <1>2, <1>5, <1>6 DEF QueueInv
<1>10. plan' \in [Request -> SUBSET Candidate] /\ GoodIndex(index')
  BY <1>2, <1>5, LocateTyped
<1>11. new' \in Seq(Request) /\ status' \in [Request -> {"new", "waiting", "running", "done"}]
  BY <1>2, <1>4, <1>5 DEF QueueInv
<1>12. worker' = worker
  BY DEF Admit, forward
<1> QED BY <1>7, <1>8, <1>9, <1>10, <1>11, <1>12 DEF QueueInv, GoodIndex

(* The rows' tokens count as computed, and none exceeds its prompt.         *)
LEMMA LaunchQueues == ASSUME QueueInv, Launch PROVE QueueInv'
<1>1. /\ computed \in [Request -> Nat] /\ batch \in Seq(RowType) /\ SumOf(batch) <= Budget
      /\ waiting \in Seq(Request)
      /\ \A r \in Request : computed[r] <= PromptLen(r) /\ PromptLen(r) \in Nat
  BY PromptLenTyped DEF QueueInv, Lists, GoodRows
<1>2. plan' \in [Request -> SUBSET Candidate] /\ GoodIndex(index')
  <2>1. CASE UNCHANGED <<plan, index>>
    BY <2>1 DEF QueueInv, GoodIndex
  <2>2. CASE /\ waiting # << >>
             /\ \E n \in NativeHits(Head(waiting)) : Locate(Head(waiting), n * BlockSize)
    <3>1. Head(waiting) \in Request
      BY <1>1, <2>2, TailElements
    <3> QED BY <2>2, <3>1, LocateTyped
  <2> QED BY <2>1, <2>2 DEF Launch
<1>3. GoodRows(batch)'
  BY <1>1, WorkerOrderTyped DEF Launch, GoodRows
<1>4. ASSUME NEW r \in Request
      PROVE  computed'[r] \in Nat /\ computed'[r] <= PromptLen(r)
  <2>1. CASE \E row \in ToSet(batch) : row.req = r
    <3> DEFINE row == CHOOSE w \in ToSet(batch) : w.req = r
               end == row.start + row.count
    <3>1. row \in RowType
      <4>1. row \in ToSet(batch)
        BY <2>1
      <4> HIDE DEF row
      <4> QED BY <1>1, <4>1 DEF ToSet
    <3>2. computed'[r] = IF end > PromptLen(r) THEN PromptLen(r) ELSE end
      BY <2>1 DEF Launch
    <3> HIDE DEF row
    <3>3. end \in Nat
      BY <3>1 DEF RowType
    <3> HIDE DEF end
    <3> QED BY <1>1, <3>2, <3>3
  <2>2. CASE ~ \E row \in ToSet(batch) : row.req = r
    <3>1. computed'[r] = computed[r]
      BY <2>2 DEF Launch
    <3> QED BY <1>1, <3>1
  <2> QED BY <2>1, <2>2
<1>5. computed' \in [Request -> Nat]
  <2>1. computed' = [r \in Request |-> computed'[r]]
    BY DEF Launch
  <2> QED BY <1>4, <2>1
<1>6. UNCHANGED <<status, waiting, running, new, worker>>
  BY DEF Launch, forward
<1>7. Lists(waiting, "waiting")' /\ Lists(running, "running")'
  BY <1>6 DEF QueueInv, Lists
<1> QED BY <1>2, <1>3, <1>4, <1>5, <1>6, <1>7 DEF QueueInv, GoodIndex

(* QueueInv is inductive.                                                   *)
LEMMA QueueStep == QueueInv /\ [Next]_vars => QueueInv'
<1> SUFFICES ASSUME QueueInv, [Next]_vars PROVE QueueInv'
  OBVIOUS
<1>1. ASSUME UNCHANGED <<scheduler, batch, new>>, worker' \in [Request -> SUBSET Candidate]
      PROVE  QueueInv'
  BY <1>1 DEF scheduler, QueueInv, Lists, GoodIndex, GoodRows
<1>2. CASE UNCHANGED <<scheduler, batch, new, worker>>
  BY <1>1, <1>2 DEF QueueInv
<1>3. CASE Reset
  <2>1. << >> \in Seq(Request) /\ IsInjective(<< >>) /\ Len(<< >>) = 0
    BY DEF IsInjective
  <2>2. GoodIndex(index)'
    BY <1>3, <2>1, ContextAssumption DEF Reset, GoodIndex
  <2> QED BY <1>3, <2>2 DEF Reset, QueueInv, Lists, GoodRows, forward
<1>4. CASE ScheduleRunning
  <2>1. running \in Seq(Request) /\ computed \in [Request -> Nat]
    BY DEF QueueInv, Lists
  <2>2. GoodRows(batch)'
    BY <1>4, <2>1, RowsTyped DEF ScheduleRunning, GoodRows
  <2>3. new' \in Seq(Request)
    BY <1>4 DEF ScheduleRunning
  <2> QED BY <1>4, <2>2, <2>3 DEF ScheduleRunning, scheduler, forward, QueueInv, Lists, GoodIndex
<1>5. CASE Prepare
  <2>1. worker' \in [Request -> SUBSET Candidate]
    BY <1>5 DEF Prepare, QueueInv
  <2> QED BY <1>1, <1>5, <2>1 DEF Prepare
<1>6. CASE LookupNext \/ StartLayer \/ StoreNext \/ NextLayer \/ RaiseUnaligned
  BY <1>2, <1>6 DEF LookupNext, StartLayer, StoreNext, NextLayer, RaiseUnaligned, forward
<1>7. CASE UNCHANGED vars
  BY <1>2, <1>7 DEF vars, forward
<1> QED BY <1>3, <1>4, <1>5, <1>6, <1>7, AddQueues, EndQueues, SchedulePreemptingQueues,
           AdmitQueues, LaunchQueues DEF Next

-----------------------------------------------------------------------------
(* A plan names one operator for a block, and one that says of its context  *)
(* what the prompt says of the block.                                       *)
Fits(cands, r) ==
  /\ \A c \in cands : /\ c.block \in DOMAIN Blocks[r] /\ c.key[1] = Salt[r]
                      /\ Last(c.key[2]) = Blocks[r][c.block]
  /\ \A c, d \in cands : c.block = d.block => c = d

(* A target block has one nearest source, with the same text.               *)
LEMMA NearestIsOne ==
  ASSUME NEW s \in Request, NEW r, NEW i \in Int,
         NEW j \in NearestSource(s, r, i), NEW m \in NearestSource(s, r, i)
  PROVE  j = m /\ j \in DOMAIN Blocks[s] /\ Blocks[s][j] = Blocks[r][i]
<1>1. Blocks[s] \in Seq(BlockText)
  BY ContextAssumption
<1>2. DOMAIN Blocks[s] = 1 .. Len(Blocks[s])
  BY <1>1
<1>3. /\ j \in Int /\ m \in Int /\ j \in DOMAIN Blocks[s] /\ Blocks[s][j] = Blocks[r][i]
      /\ \/ Distance(j, i) < Distance(m, i)
         \/ Distance(j, i) = Distance(m, i) /\ j <= m
      /\ \/ Distance(m, i) < Distance(j, i)
         \/ Distance(m, i) = Distance(j, i) /\ m <= j
  BY <1>2 DEF NearestSource
<1>4. Distance(j, i) \in Int /\ Distance(m, i) \in Int
  BY <1>3 DEF Distance
<1> QED BY <1>3, <1>4

(* What the index locates has the target's text and salt.                   *)
LEMMA LocatedFits ==
  ASSUME GoodIndex(index), NEW r \in Request, NEW native
  PROVE  Fits(Located(r, native), r)
<1> DEFINE s == SourceOf[r]
<1>1. ASSUME NEW c \in Located(r, native)
      PROVE  /\ s \in Request /\ Salt[s] = Salt[r] /\ c \in Candidate /\ c.block \in Int
             /\ c.block \in DOMAIN Blocks[r]
             /\ \E j \in NearestSource(s, r, c.block) : c.key = ContextHash(s, j)
  <2>1. s \in ToSet(index) /\ index \in Seq(Request)
    BY DEF Located, GoodIndex
  <2>2. s \in Request
    BY <2>1 DEF ToSet
  <2>3. c \in Candidate
    BY DEF Located
  <2>4. c.block \in Int
    BY <2>3 DEF Candidate
  <2> QED BY <2>2, <2>3, <2>4 DEF Located
<1> HIDE DEF s
<1>2. ASSUME NEW c \in Located(r, native)
      PROVE  /\ c.block \in DOMAIN Blocks[r] /\ c.key[1] = Salt[r]
             /\ Last(c.key[2]) = Blocks[r][c.block]
  <2>1. PICK j \in NearestSource(s, r, c.block) : c.key = ContextHash(s, j)
    BY <1>1
  <2>2. j \in DOMAIN Blocks[s] /\ Blocks[s][j] = Blocks[r][c.block]
    BY <1>1, <2>1, NearestIsOne
  <2> DEFINE read == SubSeq(Blocks[s], 1, j)
  <2>3. c.key[1] = Salt[s] /\ c.key[2] = read
    <3>1. c.key = <<Salt[s], read>>
      BY <2>1 DEF ContextHash
    <3> HIDE DEF read
    <3> QED BY <3>1
  <2>4. Last(read) = Blocks[s][j]
    <3>1. Blocks[s] \in Seq(BlockText)
      BY <1>1, ContextAssumption
    <3>2. j \in 1 .. Len(Blocks[s]) /\ Len(Blocks[s]) \in Nat
      BY <2>2, <3>1
    <3>3. Len(read) = j /\ read[j] = Blocks[s][j]
      BY <3>1, <3>2
    <3> HIDE DEF read
    <3> QED BY <3>3 DEF Last
  <2> HIDE DEF read
  <2> QED BY <1>1, <2>2, <2>3, <2>4
<1>3. ASSUME NEW c \in Located(r, native), NEW d \in Located(r, native), c.block = d.block
      PROVE  c = d
  <2>1. PICK j \in NearestSource(s, r, c.block) : c.key = ContextHash(s, j)
    BY <1>1
  <2>2. PICK m \in NearestSource(s, r, d.block) : d.key = ContextHash(s, m)
    BY <1>1
  <2>3. j = m
    BY <1>1, <1>3, <2>1, <2>2, NearestIsOne
  <2>4. c.key = d.key /\ c \in Candidate /\ d \in Candidate
    BY <1>1, <2>1, <2>2, <2>3
  <2> QED BY <1>3, <2>4 DEF Candidate
<1> QED BY <1>2, <1>3 DEF Fits

(* Plans and the worker's copies of them fit the requests they are for.     *)
PlanInv == \A r \in Request : Fits(plan[r], r) /\ Fits(worker[r], r)

(* No plan fits everything.                                                 *)
LEMMA NoPlanFits == \A r : Fits({}, r)
BY DEF Fits

(* A plan fits its request from the moment it is made.                      *)
LEMMA PlanStep == QueueInv /\ PlanInv /\ [Next]_vars => PlanInv'
<1> SUFFICES ASSUME QueueInv, PlanInv, [Next]_vars PROVE PlanInv'
  OBVIOUS
<1>1. CASE UNCHANGED <<plan, worker>>
  BY <1>1 DEF PlanInv, Fits
<1>2. ASSUME NEW r \in Request, NEW native, Locate(r, native), UNCHANGED worker
      PROVE  PlanInv'
  <2>1. Fits(Located(r, native), r)
    BY LocatedFits DEF QueueInv
  <2>2. plan \in [Request -> SUBSET Candidate]
    BY DEF QueueInv
  <2>3. plan' = [plan EXCEPT ![r] = Located(r, native)]
    BY <1>2 DEF Locate
  <2>4. \A i \in Request : plan'[i] = plan[i] \/ (i = r /\ plan'[i] = Located(r, native))
    BY <2>2, <2>3
  <2>5. \A i \in Request : Fits(plan'[i], i) /\ Fits(worker[i], i)
    BY <2>1, <2>4 DEF PlanInv
  <2> QED BY <1>2, <2>5 DEF PlanInv, Fits
<1>3. waiting \in Seq(Request)
  BY DEF QueueInv, Lists
<1>4. CASE Admit
  <2>1. Head(waiting) \in Request
    BY <1>3, <1>4, TailElements DEF Admit
  <2> QED BY <1>2, <1>4, <2>1 DEF Admit, forward
<1>5. CASE Launch
  <2>1. CASE UNCHANGED <<plan, index>>
    BY <1>1, <1>5, <2>1 DEF Launch, forward
  <2>2. CASE /\ waiting # << >>
             /\ \E n \in NativeHits(Head(waiting)) : Locate(Head(waiting), n * BlockSize)
    <3>1. Head(waiting) \in Request
      BY <1>3, <2>2, TailElements
    <3> QED BY <1>2, <1>5, <2>2, <3>1 DEF Launch, forward
  <2> QED BY <1>5, <2>1, <2>2 DEF Launch
<1>6. CASE Prepare
  <2>1. plan' = plan
    BY <1>6 DEF Prepare, scheduler
  <2>2. \A r \in Request : worker'[r] \in {plan[r], worker[r], {}}
    BY <1>6 DEF Prepare
  <2>3. \A r \in Request : Fits(plan[r], r) /\ Fits(worker'[r], r)
    BY <2>2, NoPlanFits DEF PlanInv
  <2> QED BY <2>1, <2>3 DEF PlanInv, Fits
<1>7. CASE LookupNext \/ StartLayer \/ StoreNext \/ NextLayer \/ RaiseUnaligned
           \/ Reset \/ ScheduleRunning \/ SchedulePreempting
  BY <1>1, <1>7 DEF LookupNext, StartLayer, StoreNext, NextLayer, RaiseUnaligned,
     Reset, ScheduleRunning, SchedulePreempting, scheduler, forward
<1>8. ASSUME NEW r \in Request, Add(r) \/ End(r) PROVE PlanInv'
  BY <1>1, <1>8 DEF Add, End, forward
<1>9. CASE UNCHANGED vars
  BY <1>1, <1>9 DEF vars, scheduler, forward
<1> QED BY <1>4, <1>5, <1>6, <1>7, <1>8, <1>9 DEF Next

(* Where the worker is, and what it still has to touch and to store there.  *)
(* No two of these tasks are for the same block of the same row and layer.  *)
OneKey(tasks) ==
  \A t, u \in tasks : t.row = u.row /\ t.layer = u.layer /\ t.block = u.block => t = u

PhaseInv ==
  /\ phase \in {"idle", "launched", "preflight", "layer_start", "layer", "failed"}
                 \cup Scheduling
  /\ layer \in 1 .. Layers /\ DOMAIN applied = 1 .. Layers
  /\ phase = "preflight" => layer = 1
  /\ phase \notin {"preflight", "layer"} => lookups = {}
  /\ phase # "layer" => stores = {}
  /\ phase = "layer" => \A t \in lookups \cup stores : t.layer = layer
  /\ OneKey(lookups) /\ OneKey(stores)

(* PhaseInv holds at first.                                                 *)
LEMMA PhaseInit == Init => PhaseInv
<1> SUFFICES ASSUME Init PROVE PhaseInv
  OBVIOUS
<1>1. 1 \in 1 .. Layers
  BY ContextAssumption
<1> QED BY <1>1 DEF Init, PhaseInv, OneKey

(* Tasks that name candidates of plans that fit.                            *)
LEMMA TasksOfPlans ==
  ASSUME NEW T \in SUBSET Task,
         \A t, u \in T : t.row = u.row /\ t.block = u.block => t.key = u.key
  PROVE  OneKey(T)
<1> SUFFICES ASSUME NEW t \in T, NEW u \in T,
                    t.row = u.row, t.layer = u.layer, t.block = u.block
             PROVE  t = u
  BY DEF OneKey
<1>1. t \in Task /\ u \in Task /\ t.key = u.key
  OBVIOUS
<1> QED BY <1>1 DEF Task

(* prepare builds the pass of a layer from a fitting plan.                  *)
LEMMA PreparePhase ==
  ASSUME QueueInv, PlanInv, PhaseInv, Prepare
  PROVE  PhaseInv'
<1>1. \A r \in Request : Fits(worker'[r], r)
  <2>1. \A r \in Request : worker'[r] \in {plan[r], worker[r], {}}
    BY DEF Prepare
  <2> QED BY <2>1, NoPlanFits DEF PlanInv
<1>2. lookups' \in SUBSET Task
  BY DEF Prepare
<1>3. ASSUME NEW t \in lookups', NEW u \in lookups', t.row = u.row, t.block = u.block
      PROVE  t.key = u.key
  <2> DEFINE r == new[t.row]
             c == [block |-> t.block, key |-> t.key]
             d == [block |-> u.block, key |-> u.key]
  <2>1. t.row \in DOMAIN new /\ c \in worker'[r] /\ d \in worker'[r]
    BY <1>3 DEF Prepare
  <2>2. new \in Seq(Request)
    BY DEF QueueInv
  <2>3. r \in Request
    BY <2>1, <2>2
  <2> HIDE DEF r
  <2>4. c.block = d.block
    BY <1>3
  <2>5. c = d
    BY <1>1, <2>1, <2>3, <2>4 DEF Fits
  <2>6. c.key = t.key /\ d.key = u.key
    OBVIOUS
  <2> QED BY <2>5, <2>6
<1>4. OneKey(lookups')
  BY <1>2, <1>3, TasksOfPlans
<1>5. phase' = "preflight" /\ layer' = 1 /\ applied' = [l \in 1 .. Layers |-> {}]
      /\ stores' = stores /\ stores = {}
  BY DEF Prepare, PhaseInv
<1>6. 1 \in 1 .. Layers
  BY ContextAssumption
<1> QED BY <1>4, <1>5, <1>6 DEF PhaseInv, OneKey

(* A layer starts with the tasks of its plan that are resident.             *)
LEMMA StartLayerPhase ==
  ASSUME QueueInv, PlanInv, PhaseInv, StartLayer
  PROVE  PhaseInv'
<1>1. batch \in Seq(RowType) /\ \A r \in Request : Fits(worker[r], r)
  BY DEF QueueInv, GoodRows, PlanInv
<1>2. \A i \in Prefills : i \in DOMAIN batch /\ batch[i].req \in Request
  <2>1. \A i \in DOMAIN batch : batch[i] \in RowType
    BY <1>1
  <2> QED BY <2>1 DEF Prefills, RowType
<1>3. lookups' \in SUBSET Task /\ stores' \in SUBSET Task
      /\ \A t \in lookups' \cup stores' : t.layer = layer
  BY DEF StartLayer
<1>4. \A c \in Reusable : c \in worker[batch[1].req]
  BY DEF Reusable
<1>5. ASSUME NEW t \in lookups', NEW u \in lookups', t.row = u.row, t.block = u.block
      PROVE  t.key = u.key
  <2> DEFINE r == batch[t.row].req
             c == [block |-> t.block, key |-> t.key]
             d == [block |-> u.block, key |-> u.key]
  <2>1. /\ t.row \in Prefills
        /\ \/ c \in worker[r] /\ d \in worker[r]
           \/ Executes /\ c \in Reusable /\ d \in Reusable
    BY <1>5 DEF StartLayer
  <2>2. c.block = d.block /\ c.key = t.key /\ d.key = u.key
    BY <1>5
  <2>3. r \in Request
    BY <1>2, <2>1
  <2> HIDE DEF c, d, r
  <2>4. CASE c \in worker[r] /\ d \in worker[r]
    <3>1. c = d
      BY <1>1, <2>2, <2>3, <2>4 DEF Fits
    <3> QED BY <2>2, <3>1
  <2>5. CASE Executes /\ c \in Reusable /\ d \in Reusable
    <3>1. batch[1].req \in Request
      <4>1. 1 \in Prefills
        BY <2>5 DEF Executes, Admissible
      <4> QED BY <1>2, <4>1
    <3>2. c = d
      BY <1>1, <1>4, <2>2, <2>5, <3>1 DEF Fits
    <3> QED BY <2>2, <3>2
  <2> QED BY <2>1, <2>4, <2>5
<1>6. ASSUME NEW t \in stores', NEW u \in stores', t.row = u.row, t.block = u.block
      PROVE  t.key = u.key
  BY <1>6 DEF StartLayer
<1>7. OneKey(lookups') /\ OneKey(stores')
  BY <1>3, <1>5, <1>6, TasksOfPlans
<1>8. phase' = "layer" /\ layer' = layer /\ DOMAIN applied' = DOMAIN applied
  BY DEF StartLayer
<1> QED BY <1>3, <1>7, <1>8 DEF PhaseInv, OneKey

(* PhaseInv is inductive relative to the queues and the plans.              *)
LEMMA PhaseStep == QueueInv /\ PlanInv /\ PhaseInv /\ [Next]_vars => PhaseInv'
<1> SUFFICES ASSUME QueueInv, PlanInv, PhaseInv, [Next]_vars PROVE PhaseInv'
  OBVIOUS
<1>1. CASE UNCHANGED <<phase, layer, applied, lookups, stores>>
  BY <1>1 DEF PhaseInv, OneKey
<1>2. ASSUME NEW r \in Request, Add(r) \/ End(r) PROVE PhaseInv'
  BY <1>1, <1>2 DEF Add, End, forward
<1>3. CASE Reset \/ Admit \/ UNCHANGED vars
  BY <1>1, <1>3 DEF Reset, Admit, vars, forward
<1>4. CASE ScheduleRunning \/ SchedulePreempting
  BY <1>4 DEF ScheduleRunning, SchedulePreempting, forward, PhaseInv, OneKey, Scheduling
<1>5. CASE Launch
  <2>1. /\ phase \notin {"preflight", "layer"} /\ phase' \in {"idle", "launched"}
        /\ UNCHANGED <<layer, applied, lookups, stores>>
    BY <1>5 DEF Launch, forward, Scheduling
  <2> QED BY <2>1 DEF PhaseInv, OneKey
<1>6. CASE LookupNext
  <2>1. lookups' \subseteq lookups /\ UNCHANGED <<phase, layer, applied, stores>>
        /\ phase \in {"preflight", "layer"}
    BY <1>6 DEF LookupNext
  <2> QED BY <2>1 DEF PhaseInv, OneKey
<1>7. CASE StoreNext
  <2>1. stores' \subseteq stores /\ UNCHANGED <<phase, layer, applied, lookups>>
        /\ phase = "layer"
    BY <1>7 DEF StoreNext
  <2> QED BY <2>1 DEF PhaseInv, OneKey
<1>8. CASE NextLayer
  <2>1. /\ phase' \in {"layer_start", "idle"} /\ lookups' = {} /\ stores' = {}
        /\ applied' = applied /\ layer' \in 1 .. Layers
    BY <1>8, ContextAssumption DEF NextLayer, PhaseInv
  <2> QED BY <2>1 DEF PhaseInv, OneKey
<1>9. CASE RaiseUnaligned
  BY <1>9 DEF RaiseUnaligned, forward, PhaseInv, OneKey
<1> QED BY <1>2, <1>3, <1>4, <1>5, <1>6, <1>7, <1>8, <1>9, PreparePhase, StartLayerPhase
        DEF Next

-----------------------------------------------------------------------------
(* What every reachable state satisfies.                                    *)
ReuseInv == SidecarInv /\ QueueInv /\ PlanInv /\ PhaseInv

(* The three together, and the sidecars, are an invariant.                  *)
LEMMA ReuseInvariant == Spec => []ReuseInv
<1>1. Init => ReuseInv
  <2>1. Init => PlanInv
    BY NoPlanFits DEF Init, PlanInv
  <2> QED BY <2>1, SidecarInit, QueueInit, PhaseInit DEF ReuseInv
<1>2. ReuseInv /\ [Next]_vars => ReuseInv'
  BY SidecarStep, QueueStep, PlanStep, PhaseStep DEF ReuseInv
<1> QED BY <1>1, <1>2, PTL DEF Spec

(* The queues hold the requests of their status once, the index is bounded, *)
(* no step takes more tokens than the budget, no request counts more tokens *)
(* as computed than its prompt has: add_request, free, schedule and the     *)
(* worker's sort, abort and preemption included.                            *)
THEOREM ReuseTypes == Spec => []TypeOK
<1>1. ReuseInv => TypeOK
  <2> SUFFICES ASSUME ReuseInv PROVE TypeOK
    OBVIOUS
  <2>1. QueueInv /\ SidecarInv /\ PhaseInv
    BY DEF ReuseInv
  <2>2. \A r \in Request : computed[r] \in 0 .. PromptLen(r)
    BY <2>1, PromptLenTyped DEF QueueInv
  <2> QED BY <2>1, <2>2 DEF TypeOK, QueueInv, Lists, GoodIndex, GoodRows, SidecarInv, PhaseInv
<1> QED BY <1>1, ReuseInvariant, PTL

(* The first row of the batch, when there is one.                           *)
LEMMA FirstRow ==
  ASSUME QueueInv, Admissible
  PROVE  batch[1].req \in Request /\ 1 \in DOMAIN batch /\ Prefills = {1}
<1>1. batch \in Seq(RowType) /\ Len(batch) = 1 /\ Prefills = {1}
  BY DEF QueueInv, GoodRows, Admissible
<1>2. 1 \in DOMAIN batch /\ batch[1] \in RowType
  BY <1>1
<1> QED BY <1>1, <1>2 DEF RowType

(* What a layer starts to apply was made under the hash the plan names.     *)
LEMMA StartLayerFits ==
  ASSUME ReuseInv, StartLayer
  PROVE  AppliedOperatorsFit'
<1>1. QueueInv /\ SidecarInv /\ PhaseInv /\ PlanInv
  BY DEF ReuseInv
<1>2. /\ layer' = layer /\ batch' = batch
      /\ applied'[layer] =
           IF Executes THEN {[block |-> c.block,
                              op |-> sidecar[layer].data[sidecar[layer].slot[c.key]]] :
                               c \in Reusable}
           ELSE {}
  BY <1>1 DEF StartLayer, PhaseInv
<1>3. ASSUME Executes, NEW a \in applied'[layer]
      PROVE  /\ a.op.key[1] = Salt[batch[1].req]
             /\ Last(a.op.key[2]) = Blocks[batch[1].req][a.block]
  <2>1. PICK c \in Reusable :
          a = [block |-> c.block, op |-> sidecar[layer].data[sidecar[layer].slot[c.key]]]
    BY <1>2, <1>3
  <2> DEFINE s == sidecar[layer]
             r == batch[1].req
  <2>2. r \in Request /\ c \in worker[r]
    BY <1>1, <1>3, FirstRow DEF Executes, Reusable
  <2>3. c \in Candidate
    BY <1>1, <2>2 DEF QueueInv
  <2>4. c.key \in Key /\ s.slot[c.key] # 0
    BY <1>3, <2>3 DEF Candidate, Executes, ContainsMany
  <2>5. Consistent(s)
    BY <1>1 DEF SidecarInv, SidecarsConsistent, PhaseInv
  <2> HIDE DEF s, r
  <2>6. s.data[s.slot[c.key]].key = c.key
    BY <2>4, <2>5 DEF Consistent, Resident
  <2>7. a.block = c.block /\ a.op.key = c.key
    BY <2>1, <2>6 DEF s
  <2>8. Fits(worker[r], r)
    BY <1>1, <2>2 DEF PlanInv
  <2>9. c.key[1] = Salt[r] /\ Last(c.key[2]) = Blocks[r][c.block]
    BY <2>2, <2>8 DEF Fits
  <2> QED BY <2>7, <2>9 DEF r
<1> QED BY <1>2, <1>3 DEF AppliedOperatorsFit

(* A task that is applied fits, since the keys of plans are contexts.       *)
LEMMA FitStep == ReuseInv /\ AppliedOperatorsFit /\ [Next]_vars => AppliedOperatorsFit'
<1> SUFFICES ASSUME ReuseInv, AppliedOperatorsFit, [Next]_vars PROVE AppliedOperatorsFit'
  OBVIOUS
<1>1. CASE UNCHANGED <<phase, layer, applied, batch>>
  BY <1>1 DEF AppliedOperatorsFit
<1>2. CASE phase' # "layer"
  BY <1>2 DEF AppliedOperatorsFit
<1>3. ASSUME NEW r \in Request, Add(r) \/ End(r) PROVE AppliedOperatorsFit'
  BY <1>1, <1>3 DEF Add, End, forward
<1>4. CASE Reset \/ LookupNext \/ StoreNext \/ UNCHANGED vars
  BY <1>1, <1>4 DEF Reset, LookupNext, StoreNext, vars, forward, scheduler
<1>5. CASE ScheduleRunning \/ SchedulePreempting \/ Admit \/ Launch \/ Prepare \/ NextLayer
           \/ RaiseUnaligned
  BY <1>2, <1>5 DEF ScheduleRunning, SchedulePreempting, Admit, Launch, Prepare, NextLayer,
     RaiseUnaligned
<1> QED BY <1>3, <1>4, <1>5, StartLayerFits DEF Next

(* An operator put in the place of a block was computed from the same       *)
(* tokens under the same salt: execute_gdn_delta_sequence_plan takes the    *)
(* slot of the hash at the time it runs, whatever was evicted since the     *)
(* scheduler located the source.                                            *)
THEOREM AppliedFits == Spec => []AppliedOperatorsFit
<1>1. Init => AppliedOperatorsFit
  BY DEF Init, AppliedOperatorsFit
<1> QED BY <1>1, ReuseInvariant, FitStep, PTL DEF Spec

-----------------------------------------------------------------------------
(* The operators of an admitted plan stay on the layers that have not run.  *)
Pending(l) == \/ phase = "preflight"
              \/ phase = "layer_start" /\ l >= layer
              \/ phase = "layer" /\ l > layer

AdmissionInv ==
  \A r \in ToSet(new), l \in 1 .. Layers :
    Pending(l) => \A c \in worker[r] : sidecar[l].slot[c.key] # 0

(* What preflight admitted stays resident until it is applied.              *)
LEMMA AdmissionStep == ReuseInv /\ AdmissionInv /\ [Next]_vars => AdmissionInv'
<1> SUFFICES ASSUME ReuseInv, AdmissionInv, [Next]_vars PROVE AdmissionInv'
  OBVIOUS
<1>1. QueueInv /\ SidecarInv /\ PhaseInv
  BY DEF ReuseInv
<1>2. CASE UNCHANGED <<phase, layer, new, worker, sidecar>>
  BY <1>2 DEF AdmissionInv, Pending
<1>3. CASE phase' \notin {"preflight", "layer_start", "layer"}
  BY <1>3 DEF AdmissionInv, Pending
<1>4. ASSUME NEW r \in Request, Add(r) \/ End(r) PROVE AdmissionInv'
  BY <1>2, <1>4 DEF Add, End, forward
<1>5. CASE Reset \/ UNCHANGED vars
  BY <1>2, <1>5 DEF Reset, vars, forward
<1>6. CASE ScheduleRunning \/ SchedulePreempting \/ Admit \/ Launch \/ RaiseUnaligned
  BY <1>3, <1>6 DEF ScheduleRunning, SchedulePreempting, Admit, Launch, RaiseUnaligned,
     Scheduling
<1>7. CASE Prepare
  <2>1. ToSet(new) \subseteq Request
    BY <1>1 DEF QueueInv, ToSet
  <2>2. ASSUME NEW r \in ToSet(new), NEW l \in 1 .. Layers, NEW c \in worker'[r]
        PROVE  sidecar[l].slot[c.key] # 0
    <3>1. r \in Request
      BY <2>1
    <3>2. worker'[r] = IF Eligible(plan[r]) THEN plan[r] ELSE {}
      BY <1>7, <3>1 DEF Prepare
    <3>3. Eligible(plan[r]) /\ c \in plan[r]
      BY <2>2, <3>2
    <3> QED BY <3>3 DEF Eligible, ContainsMany
  <2>3. new' = new /\ sidecar' = sidecar
    BY <1>7 DEF Prepare
  <2> QED BY <2>2, <2>3 DEF AdmissionInv
<1>8. CASE LookupNext
  <2>1. PICK t \in lookups : sidecar' = [sidecar EXCEPT ![t.layer] = Lookup(@, t.key)]
    BY <1>8 DEF LookupNext
  <2>2. t.layer \in 1 .. Layers /\ t.key \in Key
    BY <1>1, <2>1 DEF SidecarInv, Task
  <2>3. \A l \in 1 .. Layers : sidecar'[l].slot = sidecar[l].slot
    BY <1>1, <2>1, <2>2, LookupKeeps DEF SidecarInv, SidecarsConsistent
  <2>4. UNCHANGED <<phase, layer, new, worker>>
    BY <1>8 DEF LookupNext
  <2> QED BY <2>3, <2>4 DEF AdmissionInv, Pending
<1>9. CASE StartLayer
  <2>1. /\ phase = "layer_start" /\ phase' = "layer" /\ layer \in 1 .. Layers
        /\ UNCHANGED <<layer, new, worker, sidecar>>
    BY <1>1, <1>9 DEF StartLayer, PhaseInv
  <2>2. \A l \in 1 .. Layers : Pending(l)' => Pending(l)
    BY <2>1 DEF Pending
  <2> QED BY <2>1, <2>2 DEF AdmissionInv
<1>10. CASE StoreNext
  <2>1. PICK t \in stores :
          sidecar' = [sidecar EXCEPT ![t.layer] =
                        Store(@, [key |-> t.key, epoch |-> epoch])]
    BY <1>10 DEF StoreNext
  <2>2. phase = "layer" /\ UNCHANGED <<phase, layer, new, worker>> /\ t.layer = layer
        /\ layer \in 1 .. Layers
    BY <1>1, <1>10, <2>1 DEF StoreNext, PhaseInv
  <2>3. \A l \in 1 .. Layers : l > layer => sidecar'[l] = sidecar[l]
    BY <1>1, <2>1, <2>2 DEF SidecarInv
  <2> QED BY <2>2, <2>3 DEF AdmissionInv, Pending
<1>11. CASE NextLayer
  <2>1. UNCHANGED <<new, worker, sidecar>> /\ layer \in 1 .. Layers
    BY <1>1, <1>11 DEF NextLayer, PhaseInv
  <2>2. \A l \in 1 .. Layers : Pending(l)' => Pending(l)
    BY <1>11, <2>1 DEF NextLayer, Pending
  <2> QED BY <2>1, <2>2 DEF AdmissionInv
<1> QED BY <1>4, <1>5, <1>6, <1>7, <1>8, <1>9, <1>10, <1>11 DEF Next

(* An admitted plan is carried out: the forward pass of the request the     *)
(* preflight admitted finds on every layer the operators preflight saw.     *)
THEOREM AdmittedHappens == Spec => AdmittedReuseHappens
<1>1. Init => AdmissionInv
  BY DEF Init, AdmissionInv, ToSet
<1>2. ASSUME ReuseInv, AdmissionInv, [Next]_vars, NEW r \in ToSet(new),
             phase = "layer_start", phase' = "layer", Admissible, batch[1].req = r,
             Reusable # {}
      PROVE  applied'[layer] # {}
  <2>1. StartLayer
    <3>1. ~ UNCHANGED vars
      BY <1>2 DEF vars
    <3> QED BY <1>2, <3>1 DEF Next, Add, End, Reset, ScheduleRunning, SchedulePreempting,
       Admit, Launch, Prepare, LookupNext, StoreNext, NextLayer, RaiseUnaligned, Scheduling
  <2>2. layer \in 1 .. Layers /\ layer \in DOMAIN applied /\ layer \in Int
    BY <1>2 DEF ReuseInv, PhaseInv
  <2>3. \A c \in Reusable : c \in worker[r]
    BY <1>2 DEF Reusable
  <2>4. Pending(layer)
    BY <1>2, <2>2 DEF Pending
  <2>5. Executes
    BY <1>2, <2>2, <2>3, <2>4 DEF Executes, ContainsMany, AdmissionInv
  <2>6. applied'[layer] = {[block |-> c.block,
                            op |-> sidecar[layer].data[sidecar[layer].slot[c.key]]] :
                             c \in Reusable}
    BY <2>1, <2>2, <2>5 DEF StartLayer
  <2> QED BY <1>2, <2>6
<1>3. ReuseInv /\ AdmissionInv /\ [Next]_vars =>
        [\A r \in ToSet(new) :
           phase = "layer_start" /\ phase' = "layer" /\ Admissible /\ batch[1].req = r
             /\ Reusable # {} => applied'[layer] # {}]_vars
  BY <1>2
<1> QED BY <1>1, <1>3, ReuseInvariant, AdmissionStep, PTL DEF Spec, AdmittedReuseHappens

-----------------------------------------------------------------------------
(* Why the layers agree.  Each of them goes through the same tasks in the   *)
(* same order, but at a different time.  A place is what a layer has still  *)
(* to do, with the tasks named as if they were the first layer's; the trace *)
(* H says, for the places some layer has been at, what its sidecar holds    *)
(* there, and lead is the place of the layer that is farthest.              *)
At(t, l) == [t EXCEPT !.layer = l]
Local(tasks, l) == {t \in Task : t.layer = 1 /\ At(t, l) \in tasks}

Place == [lookups : SUBSET Task, stores : SUBSET Task]

Takes(P, t) == IF P.lookups # {} THEN First(P.lookups, t) ELSE First(P.stores, t)

After(P, t) == IF P.lookups # {} THEN [P EXCEPT !.lookups = @ \ {t}]
               ELSE [P EXCEPT !.stores = @ \ {t}]

Do(P, s, t, e) == IF P.lookups # {} THEN Lookup(s, t.key)
                  ELSE Store(s, [key |-> t.key, epoch |-> e])

IsTrace(H, lead, e) ==
  /\ lead \in DOMAIN H
  /\ \A P \in DOMAIN H :
       /\ P \in Place /\ OneKey(P.lookups) /\ OneKey(P.stores)
       /\ lead.lookups \subseteq P.lookups /\ lead.stores \subseteq P.stores
       /\ P # lead => \E t : /\ Takes(P, t) /\ After(P, t) \in DOMAIN H
                             /\ H[After(P, t)] = Do(P, H[P], t, e)

(* The first task of a set with one key per place is unique.                *)
LEMMA FirstIsOne ==
  ASSUME NEW T \in SUBSET Task, OneKey(T), NEW t, NEW u, First(T, t), First(T, u)
  PROVE  t = u
<1>1. t \in T /\ u \in T /\ Before(t, u) /\ Before(u, t)
  BY DEF First
<1>2. /\ t.row \in Int /\ u.row \in Int /\ t.layer \in Int /\ u.layer \in Int
      /\ t.block \in Int /\ u.block \in Int
  <2>1. t \in Task /\ u \in Task
    BY <1>1
  <2> QED BY <2>1 DEF Task
<1>3. t.row = u.row /\ t.layer = u.layer /\ t.block = u.block
  BY <1>1, <1>2 DEF Before
<1> QED BY <1>1, <1>3 DEF OneKey

(* A pass takes one task at a time: lookups in order, then stores.          *)
LEMMA TakesOne ==
  ASSUME NEW P \in Place, OneKey(P.lookups), OneKey(P.stores),
         NEW t, NEW u, Takes(P, t), Takes(P, u)
  PROVE  t = u
<1>1. P.lookups \in SUBSET Task /\ P.stores \in SUBSET Task
  BY DEF Place
<1> QED BY <1>1, FirstIsOne DEF Takes

(* A layer that does its next task either follows the trace or extends it.  *)
LEMMA TraceStep ==
  ASSUME NEW H, NEW lead, NEW e, IsTrace(H, lead, e),
         NEW P \in DOMAIN H, NEW t, Takes(P, t)
  PROVE  \E G, front :
           /\ IsTrace(G, front, e)
           /\ \A Q \in DOMAIN H : Q \in DOMAIN G /\ G[Q] = H[Q]
           /\ After(P, t) \in DOMAIN G
           /\ G[After(P, t)] = Do(P, H[P], t, e)
<1>1. P \in Place /\ OneKey(P.lookups) /\ OneKey(P.stores)
  BY DEF IsTrace
<1>2. CASE P # lead
  <2>1. PICK u : /\ Takes(P, u) /\ After(P, u) \in DOMAIN H
                 /\ H[After(P, u)] = Do(P, H[P], u, e)
    BY <1>2 DEF IsTrace
  <2>2. u = t
    BY <1>1, <2>1, TakesOne
  <2> QED BY <2>1, <2>2
<1>3. CASE P = lead
  <2> DEFINE Q == After(P, t)
             D == DOMAIN H \cup {Q}
             G == [R \in D |-> IF R = Q THEN Do(P, H[P], t, e) ELSE H[R]]
  <2>1. /\ Q \in Place /\ Q.lookups \subseteq P.lookups /\ Q.stores \subseteq P.stores
        /\ OneKey(Q.lookups) /\ OneKey(Q.stores)
        /\ ~ (P.lookups \subseteq Q.lookups /\ P.stores \subseteq Q.stores)
    <3>1. CASE P.lookups # {}
      <4>1. Q = [P EXCEPT !.lookups = @ \ {t}] /\ t \in P.lookups
        BY <3>1 DEF After, Takes, First
      <4> HIDE DEF Q
      <4>2. Q \in Place /\ Q.lookups = P.lookups \ {t} /\ Q.stores = P.stores
        BY <1>1, <4>1 DEF Place
      <4> QED BY <1>1, <4>1, <4>2 DEF OneKey
    <3>2. CASE P.lookups = {}
      <4>1. Q = [P EXCEPT !.stores = @ \ {t}] /\ t \in P.stores
        BY <3>2 DEF After, Takes, First
      <4> HIDE DEF Q
      <4>2. Q \in Place /\ Q.stores = P.stores \ {t} /\ Q.lookups = P.lookups
        BY <1>1, <4>1 DEF Place
      <4> QED BY <1>1, <4>1, <4>2 DEF OneKey
    <3> QED BY <3>1, <3>2
  <2> HIDE DEF Q
  <2>2. Q \notin DOMAIN H
    BY <1>3, <2>1 DEF IsTrace
  <2>3. /\ DOMAIN G = D /\ Q \in D /\ G[Q] = Do(P, H[P], t, e)
        /\ \A R \in DOMAIN H : R \in D /\ G[R] = H[R]
    BY <2>2
  <2> HIDE DEF G, D
  <2>4. ASSUME NEW R \in D
        PROVE  /\ R \in Place /\ OneKey(R.lookups) /\ OneKey(R.stores)
               /\ Q.lookups \subseteq R.lookups /\ Q.stores \subseteq R.stores
               /\ R # Q => \E u : /\ Takes(R, u) /\ After(R, u) \in D
                                  /\ G[After(R, u)] = Do(R, G[R], u, e)
    <3>1. CASE R = Q
      BY <2>1, <3>1
    <3>2. CASE R = P
      <4>1. Takes(P, t) /\ After(P, t) \in D /\ G[After(P, t)] = Do(P, G[P], t, e)
        BY <2>3 DEF Q
      <4> QED BY <1>1, <2>1, <3>2, <4>1
    <3>3. CASE R # Q /\ R # P
      <4>1. R \in DOMAIN H
        BY <3>3 DEF D
      <4>2. /\ R \in Place /\ OneKey(R.lookups) /\ OneKey(R.stores)
            /\ P.lookups \subseteq R.lookups /\ P.stores \subseteq R.stores
        BY <1>3, <4>1 DEF IsTrace
      <4>3. PICK u : /\ Takes(R, u) /\ After(R, u) \in DOMAIN H
                     /\ H[After(R, u)] = Do(R, H[R], u, e)
        BY <1>3, <3>3, <4>1 DEF IsTrace
      <4>4. After(R, u) \in D /\ G[After(R, u)] = Do(R, G[R], u, e)
        BY <2>3, <4>1, <4>3
      <4> QED BY <2>1, <4>2, <4>3, <4>4
    <3> QED BY <3>1, <3>2, <3>3
  <2>5. IsTrace(G, Q, e)
    BY <2>3, <2>4 DEF IsTrace
  <2> QED BY <2>3, <2>5 DEF Q
<1> QED BY <1>2, <1>3

(* The same task of another layer.                                          *)
LEMMA AtIs ==
  ASSUME NEW t \in Task, NEW l \in 1 .. Layers
  PROVE  /\ At(t, l) \in Task /\ At(t, l).layer = l /\ At(t, l).key = t.key
         /\ At(t, l).row = t.row /\ At(t, l).block = t.block
         /\ At(t, t.layer) = t
         /\ \A m \in 1 .. Layers : At(At(t, l), m) = At(t, m)
BY DEF At, Task

(* A task of a layer, seen without its layer.                               *)
LEMMA LocalElement ==
  ASSUME NEW T \in SUBSET Task, NEW t \in T
  PROVE  At(t, 1) \in Local(T, t.layer)
<1>1. t \in Task /\ t.layer \in 1 .. Layers /\ 1 \in 1 .. Layers
  BY ContextAssumption DEF Task
<1>2. /\ At(t, 1) \in Task /\ At(t, 1).layer = 1
      /\ At(t, t.layer) = t
      /\ \A m \in 1 .. Layers : At(At(t, 1), m) = At(t, m)
  BY <1>1, AtIs
<1>3. At(At(t, 1), t.layer) = t
  BY <1>1, <1>2
<1> QED BY <1>2, <1>3 DEF Local

(* The first of all tasks is the first of its layer; when it is done the    *)
(* other layers have as much to do as before.                               *)
LEMMA LocalStep ==
  ASSUME NEW T \in SUBSET Task, NEW t, First(T, t)
  PROVE  /\ First(Local(T, t.layer), At(t, 1))
         /\ Local(T \ {t}, t.layer) = Local(T, t.layer) \ {At(t, 1)}
         /\ \A l \in 1 .. Layers : l # t.layer => Local(T \ {t}, l) = Local(T, l)
<1>1. t \in T /\ t \in Task /\ t.layer \in 1 .. Layers /\ 1 \in 1 .. Layers
  BY ContextAssumption DEF First, Task
<1>2. At(t, 1) \in Local(T, t.layer)
  BY <1>1, LocalElement
<1>3. ASSUME NEW u \in Local(T, t.layer) PROVE Before(At(t, 1), u)
  <2>1. u \in Task /\ u.layer = 1 /\ At(u, t.layer) \in T
    BY DEF Local
  <2>2. /\ At(t, 1).layer = 1 /\ At(t, 1).row = t.row /\ At(t, 1).block = t.block
        /\ At(u, t.layer).layer = t.layer /\ At(u, t.layer).row = u.row
        /\ At(u, t.layer).block = u.block
    BY <1>1, <2>1, AtIs
  <2>3. Before(t, At(u, t.layer))
    BY <2>1 DEF First
  <2>4. t.layer \in Int
    BY <1>1
  <2> QED BY <2>1, <2>2, <2>3, <2>4 DEF Before
<1>4. ASSUME NEW l \in 1 .. Layers, NEW u \in Task, u.layer = 1
      PROVE  At(u, l) = t <=> l = t.layer /\ u = At(t, 1)
  <2>1. ASSUME At(u, l) = t PROVE l = t.layer /\ u = At(t, 1)
    <3>1. At(u, l).layer = l /\ At(At(u, l), 1) = At(u, 1) /\ At(u, u.layer) = u
      BY <1>1, AtIs
    <3> QED BY <1>4, <2>1, <3>1
  <2>2. ASSUME l = t.layer, u = At(t, 1) PROVE At(u, l) = t
    <3>1. At(t, t.layer) = t /\ \A m \in 1 .. Layers : At(At(t, 1), m) = At(t, m)
      BY <1>1, AtIs
    <3> QED BY <2>2, <3>1
  <2> QED BY <2>1, <2>2
<1>5. \A l \in 1 .. Layers : \A u :
        u \in Local(T \ {t}, l) <=> u \in Local(T, l) /\ ~ (l = t.layer /\ u = At(t, 1))
  BY <1>4 DEF Local
<1>6. Local(T \ {t}, t.layer) = Local(T, t.layer) \ {At(t, 1)}
  BY <1>1, <1>5
<1>7. \A l \in 1 .. Layers : l # t.layer => Local(T \ {t}, l) = Local(T, l)
  BY <1>5
<1> QED BY <1>2, <1>3, <1>6, <1>7 DEF First

(* A layer's tasks have one key per place, as all tasks have.               *)
LEMMA LocalKeys ==
  ASSUME NEW T \in SUBSET Task, OneKey(T), NEW l \in 1 .. Layers
  PROVE  Local(T, l) \in SUBSET Task /\ OneKey(Local(T, l))
<1>1. ASSUME NEW t \in Local(T, l), NEW u \in Local(T, l),
             t.row = u.row, t.block = u.block
      PROVE  t.key = u.key
  <2>1. t \in Task /\ u \in Task /\ At(t, l) \in T /\ At(u, l) \in T
    BY DEF Local
  <2>2. /\ At(t, l).layer = l /\ At(t, l).row = t.row /\ At(t, l).block = t.block
        /\ At(t, l).key = t.key
        /\ At(u, l).layer = l /\ At(u, l).row = u.row /\ At(u, l).block = u.block
        /\ At(u, l).key = u.key
    BY <2>1, AtIs
  <2>3. At(t, l) = At(u, l)
    BY <1>1, <2>1, <2>2 DEF OneKey
  <2> QED BY <2>2, <2>3
<1>2. Local(T, l) \in SUBSET Task
  BY DEF Local
<1> QED BY <1>1, <1>2, TasksOfPlans

(* No tasks, no tasks of a layer.                                           *)
LEMMA LocalEmpty == \A l : Local({}, l) = {}
BY DEF Local

-----------------------------------------------------------------------------
(* Where a layer begins its forward pass with the sidecar s.                *)
ExecutesOn(s) ==
  Admissible /\ Reusable # {} /\ ContainsMany(s, {c.key : c \in Reusable})

AppliedBlocks(s) == IF ExecutesOn(s) THEN {c.block : c \in Reusable} ELSE {}

BeginLookups(s) ==
  {t \in Task : /\ t.layer = 1 /\ t.row \in Prefills
                /\ [block |-> t.block, key |-> t.key] \in
                     (IF ExecutesOn(s) THEN Reusable ELSE worker[batch[t.row].req])}

BeginStores ==
  {t \in Task : /\ t.layer = 1 /\ t.row \in Prefills
                /\ t.block \in DOMAIN Blocks[batch[t.row].req]
                /\ FullyScheduled(batch[t.row], t.block)
                /\ t.key = ContextHash(batch[t.row].req, t.block)}

Begin(s) == [lookups |-> BeginLookups(s), stores |-> BeginStores]
Done == [lookups |-> {}, stores |-> {}]

(* Where layer l is in the pass.                                            *)
PlaceOf(l, s) ==
  IF phase = "preflight" THEN [lookups |-> Local(lookups, l), stores |-> {}]
  ELSE IF l < layer THEN Done
  ELSE IF l = layer /\ phase = "layer"
       THEN [lookups |-> Local(lookups, l), stores |-> Local(stores, l)]
  ELSE Begin(s)

Traced(H, lead, s) ==
  /\ IsTrace(H, lead, epoch)
  /\ \A l \in 1 .. Layers : PlaceOf(l, s) \in DOMAIN H /\ H[PlaceOf(l, s)] = sidecar[l]
  /\ phase # "preflight" => Begin(s) \in DOMAIN H /\ H[Begin(s)] = s
  /\ \A l \in 1 .. Layers :
       l < layer \/ (l = layer /\ phase = "layer") =>
         {a.block : a \in applied[l]} = AppliedBlocks(s)

AllEqual == \A l \in 1 .. Layers : sidecar[l] = sidecar[1]

PassInv ==
  /\ phase \in {"idle", "launched"} \cup Scheduling => AllEqual
  /\ phase \in {"preflight", "layer_start", "layer"} => \E H, lead, s : Traced(H, lead, s)

(* A pass begins with lookups and stores, one key per place.                *)
LEMMA BeginPlace ==
  ASSUME QueueInv, PlanInv, NEW s
  PROVE  Begin(s) \in Place /\ OneKey(Begin(s).lookups) /\ OneKey(Begin(s).stores)
<1>1. batch \in Seq(RowType) /\ \A r \in Request : Fits(worker[r], r)
  BY DEF QueueInv, GoodRows, PlanInv
<1>2. \A i \in Prefills : i \in DOMAIN batch /\ batch[i].req \in Request
  <2>1. \A i \in DOMAIN batch : batch[i] \in RowType
    BY <1>1
  <2> QED BY <2>1 DEF Prefills, RowType
<1>3. BeginLookups(s) \in SUBSET Task /\ BeginStores \in SUBSET Task
  BY DEF BeginLookups, BeginStores
<1>4. \A c \in Reusable : c \in worker[batch[1].req]
  BY DEF Reusable
<1>5. ASSUME NEW t \in BeginLookups(s), NEW u \in BeginLookups(s),
             t.row = u.row, t.block = u.block
      PROVE  t.key = u.key
  <2> DEFINE r == batch[t.row].req
             c == [block |-> t.block, key |-> t.key]
             d == [block |-> u.block, key |-> u.key]
  <2>1. /\ t.row \in Prefills
        /\ \/ c \in worker[r] /\ d \in worker[r]
           \/ ExecutesOn(s) /\ c \in Reusable /\ d \in Reusable
    BY <1>5 DEF BeginLookups
  <2>2. c.block = d.block /\ c.key = t.key /\ d.key = u.key
    BY <1>5
  <2>3. r \in Request
    BY <1>2, <2>1
  <2> HIDE DEF c, d, r
  <2>4. CASE c \in worker[r] /\ d \in worker[r]
    <3>1. c = d
      BY <1>1, <2>2, <2>3, <2>4 DEF Fits
    <3> QED BY <2>2, <3>1
  <2>5. CASE ExecutesOn(s) /\ c \in Reusable /\ d \in Reusable
    <3>1. batch[1].req \in Request
      <4>1. 1 \in Prefills
        BY <2>5 DEF ExecutesOn, Admissible
      <4> QED BY <1>2, <4>1
    <3>2. c = d
      BY <1>1, <1>4, <2>2, <2>5, <3>1 DEF Fits
    <3> QED BY <2>2, <3>2
  <2> QED BY <2>1, <2>4, <2>5
<1>6. ASSUME NEW t \in BeginStores, NEW u \in BeginStores, t.row = u.row, t.block = u.block
      PROVE  t.key = u.key
  BY <1>6 DEF BeginStores
<1>7. OneKey(BeginLookups(s)) /\ OneKey(BeginStores)
  BY <1>3, <1>5, <1>6, TasksOfPlans
<1> QED BY <1>3, <1>7 DEF Begin, Place

(* The tasks StartLayer sets are those of Begin, at the layer it starts.    *)
LEMMA StartLayerTasks ==
  ASSUME PhaseInv, StartLayer
  PROVE  /\ lookups' \in SUBSET Task /\ stores' \in SUBSET Task
         /\ \A t \in lookups' \cup stores' : t.layer = layer
         /\ Local(lookups', layer) = BeginLookups(sidecar[layer])
         /\ Local(stores', layer) = BeginStores
<1>1. layer \in 1 .. Layers
  BY DEF PhaseInv
<1>2. Executes <=> ExecutesOn(sidecar[layer])
  BY DEF Executes, ExecutesOn
<1>3. /\ lookups' \in SUBSET Task /\ stores' \in SUBSET Task
      /\ \A t \in lookups' \cup stores' : t.layer = layer
  BY DEF StartLayer
<1>4. ASSUME NEW t \in Task, t.layer = 1
      PROVE  /\ At(t, layer) \in lookups' <=> t \in BeginLookups(sidecar[layer])
             /\ At(t, layer) \in stores' <=> t \in BeginStores
  <2> DEFINE u == At(t, layer)
  <2>1. /\ u \in Task /\ u.layer = layer /\ u.row = t.row /\ u.block = t.block
        /\ u.key = t.key
    BY <1>1, AtIs
  <2> HIDE DEF u
  <2>2. u \in lookups' <=> t \in BeginLookups(sidecar[layer])
    BY <1>2, <1>4, <2>1 DEF StartLayer, BeginLookups
  <2>3. u \in stores' <=> t \in BeginStores
    BY <1>4, <2>1 DEF StartLayer, BeginStores
  <2> QED BY <2>2, <2>3 DEF u
<1>5. Local(lookups', layer) = BeginLookups(sidecar[layer])
  BY <1>4 DEF Local, BeginLookups
<1>6. Local(stores', layer) = BeginStores
  BY <1>4 DEF Local, BeginStores
<1> QED BY <1>3, <1>5, <1>6

(* Where a pass begins depends on the step and the plans alone.             *)
LEMMA BeginKept ==
  ASSUME UNCHANGED <<batch, worker>>, NEW s
  PROVE  UNCHANGED <<Begin(s), AppliedBlocks(s)>>
<1>1. Admissible' = Admissible /\ Reusable' = Reusable /\ Prefills' = Prefills
  BY DEF Admissible, Reusable, Prefills
<1>2. ExecutesOn(s)' = ExecutesOn(s)
  BY <1>1 DEF ExecutesOn
<1>3. BeginLookups(s)' = BeginLookups(s) /\ BeginStores' = BeginStores
  BY <1>1, <1>2 DEF BeginLookups, BeginStores
<1> QED BY <1>1, <1>2, <1>3 DEF Begin, AppliedBlocks

(* One layer does its next task, the others stay where they are.            *)
LEMMA TaskDone ==
  ASSUME NEW H, NEW lead, NEW s, Traced(H, lead, s),
         NEW l \in 1 .. Layers, NEW u, Takes(PlaceOf(l, s), u),
         phase \in {"preflight", "layer"},
         UNCHANGED <<phase, batch, worker, layer, applied, epoch>>,
         PlaceOf(l, s)' = After(PlaceOf(l, s), u),
         sidecar'[l] = Do(PlaceOf(l, s), sidecar[l], u, epoch),
         \A m \in 1 .. Layers :
           m # l => UNCHANGED PlaceOf(m, s) /\ sidecar'[m] = sidecar[m]
  PROVE  PassInv'
<1>1. /\ IsTrace(H, lead, epoch)
      /\ \A m \in 1 .. Layers : PlaceOf(m, s) \in DOMAIN H /\ H[PlaceOf(m, s)] = sidecar[m]
      /\ phase # "preflight" => Begin(s) \in DOMAIN H /\ H[Begin(s)] = s
      /\ \A m \in 1 .. Layers :
           m < layer \/ (m = layer /\ phase = "layer") =>
             {a.block : a \in applied[m]} = AppliedBlocks(s)
  BY DEF Traced
<1> DEFINE P == PlaceOf(l, s)
<1>2. P \in DOMAIN H /\ Takes(P, u)
  BY <1>1
<1> HIDE DEF P
<1>3. PICK G, front :
        /\ IsTrace(G, front, epoch)
        /\ \A Q \in DOMAIN H : Q \in DOMAIN G /\ G[Q] = H[Q]
        /\ After(P, u) \in DOMAIN G
        /\ G[After(P, u)] = Do(P, H[P], u, epoch)
  BY <1>1, <1>2, TraceStep
<1>4. UNCHANGED <<Begin(s), AppliedBlocks(s)>>
  BY BeginKept
<1>5. ASSUME NEW m \in 1 .. Layers
      PROVE  PlaceOf(m, s)' \in DOMAIN G /\ G[PlaceOf(m, s)'] = sidecar'[m]
  <2>1. CASE m = l
    BY <1>1, <1>3, <2>1 DEF P
  <2>2. CASE m # l
    BY <1>1, <1>3, <2>2
  <2> QED BY <2>1, <2>2
<1>6. phase' # "preflight" => Begin(s)' \in DOMAIN G /\ G[Begin(s)'] = s
  BY <1>1, <1>3, <1>4
<1>7. \A m \in 1 .. Layers :
        m < layer' \/ (m = layer' /\ phase' = "layer") =>
          {a.block : a \in applied'[m]} = AppliedBlocks(s)'
  BY <1>1, <1>4
<1>8. IsTrace(G, front, epoch')
  BY <1>3
<1>9. Traced(G, front, s)'
  BY <1>5, <1>6, <1>7, <1>8 DEF Traced
<1> QED BY <1>9 DEF PassInv, Scheduling

(* A lookup moves its layer one place along the trace.                      *)
LEMMA LookupPass ==
  ASSUME ReuseInv, PassInv, LookupNext
  PROVE  PassInv'
<1>1. PICK t \in lookups :
        /\ First(lookups, t)
        /\ sidecar' = [sidecar EXCEPT ![t.layer] = Lookup(@, t.key)]
        /\ lookups' = lookups \ {t}
  BY DEF LookupNext
<1>2. /\ SidecarInv /\ lookups \in SUBSET Task /\ t \in Task /\ t.layer \in 1 .. Layers
      /\ phase = "layer" => t.layer = layer
  BY <1>1 DEF ReuseInv, SidecarInv, PhaseInv, Task
<1>3. /\ phase \in {"preflight", "layer"}
      /\ UNCHANGED <<phase, batch, worker, layer, stores, applied, epoch>>
  BY DEF LookupNext, scheduler
<1>4. PICK H, lead, s : Traced(H, lead, s)
  BY <1>3 DEF PassInv
<1> DEFINE l == t.layer
           u == At(t, 1)
           P == PlaceOf(l, s)
<1>5. /\ First(Local(lookups, l), u)
      /\ Local(lookups', l) = Local(lookups, l) \ {u}
      /\ \A m \in 1 .. Layers : m # l => Local(lookups', m) = Local(lookups, m)
  <2>1. lookups \in SUBSET Task /\ First(lookups, t)
    BY <1>1, <1>2
  <2>2. /\ First(Local(lookups, t.layer), At(t, 1))
        /\ Local(lookups \ {t}, t.layer) = Local(lookups, t.layer) \ {At(t, 1)}
        /\ \A m \in 1 .. Layers :
             m # t.layer => Local(lookups \ {t}, m) = Local(lookups, m)
    BY <2>1, LocalStep
  <2>3. lookups' = lookups \ {t}
    BY <1>1
  <2> QED BY <2>2, <2>3
<1>6. u.key = t.key
  <2>1. 1 \in 1 .. Layers
    BY ContextAssumption
  <2> QED BY <1>2, <2>1, AtIs
<1>7. \E X : P = [lookups |-> Local(lookups, l), stores |-> X]
             /\ P' = [lookups |-> Local(lookups', l), stores |-> X]
  <2>1. CASE phase = "preflight"
    BY <1>3, <2>1 DEF PlaceOf
  <2>2. CASE phase = "layer"
    <3>1. l = layer /\ ~ (l < layer)
      BY <1>2, <2>2
    <3>2. P = [lookups |-> Local(lookups, l), stores |-> Local(stores, l)]
      BY <2>2, <3>1 DEF PlaceOf
    <3>3. P' = [lookups |-> Local(lookups', l), stores |-> Local(stores, l)]
      BY <1>3, <2>2, <3>1 DEF PlaceOf
    <3> QED BY <3>2, <3>3
  <2> QED BY <1>3, <2>1, <2>2
<1>8. \A m \in 1 .. Layers : m # l => UNCHANGED PlaceOf(m, s)
  <2>1. UNCHANGED Begin(s)
    BY <1>3, BeginKept
  <2>2. CASE phase = "preflight"
    BY <1>3, <1>5, <2>2 DEF PlaceOf
  <2>3. CASE phase = "layer"
    BY <1>2, <1>3, <2>1, <2>3 DEF PlaceOf
  <2> QED BY <1>3, <2>2, <2>3
<1>9. sidecar'[l] = Lookup(sidecar[l], t.key)
      /\ \A m \in 1 .. Layers : m # l => sidecar'[m] = sidecar[m]
  BY <1>1, <1>2 DEF SidecarInv
<1> HIDE DEF u
<1>10. /\ P.lookups = Local(lookups, l) /\ P.lookups # {}
       /\ P' = [P EXCEPT !.lookups = @ \ {u}]
  BY <1>5, <1>7 DEF First
<1>11. Takes(P, u)
  BY <1>5, <1>10 DEF Takes
<1>12. P' = After(P, u)
  BY <1>10 DEF After
<1>13. sidecar'[l] = Do(P, sidecar[l], u, epoch)
  BY <1>6, <1>9, <1>10 DEF Do
<1> QED BY <1>2, <1>3, <1>4, <1>8, <1>9, <1>11, <1>12, <1>13, TaskDone

(* A store moves its layer one place along the trace.                       *)
LEMMA StorePass ==
  ASSUME ReuseInv, PassInv, StoreNext
  PROVE  PassInv'
<1>1. PICK t \in stores :
        /\ First(stores, t)
        /\ sidecar' = [sidecar EXCEPT ![t.layer] =
                         Store(@, [key |-> t.key, epoch |-> epoch])]
        /\ stores' = stores \ {t}
  BY DEF StoreNext
<1>2. /\ phase = "layer" /\ lookups = {}
      /\ UNCHANGED <<phase, batch, worker, layer, lookups, applied, epoch>>
  BY DEF StoreNext, scheduler
<1>3. /\ SidecarInv /\ stores \in SUBSET Task /\ t \in Task /\ t.layer = layer
      /\ layer \in 1 .. Layers
  BY <1>1, <1>2 DEF ReuseInv, SidecarInv, PhaseInv
<1>4. PICK H, lead, s : Traced(H, lead, s)
  BY <1>2 DEF PassInv
<1> DEFINE u == At(t, 1)
           P == PlaceOf(layer, s)
<1>5. /\ First(Local(stores, layer), u)
      /\ Local(stores', layer) = Local(stores, layer) \ {u}
  <2>1. stores \in SUBSET Task /\ First(stores, t)
    BY <1>1, <1>3
  <2>2. /\ First(Local(stores, t.layer), At(t, 1))
        /\ Local(stores \ {t}, t.layer) = Local(stores, t.layer) \ {At(t, 1)}
    BY <2>1, LocalStep
  <2>3. stores' = stores \ {t} /\ t.layer = layer
    BY <1>1, <1>3
  <2> QED BY <2>2, <2>3
<1>6. u.key = t.key
  <2>1. 1 \in 1 .. Layers
    BY ContextAssumption
  <2> QED BY <1>3, <2>1, AtIs
<1>7. /\ P = [lookups |-> {}, stores |-> Local(stores, layer)]
      /\ P' = [lookups |-> {}, stores |-> Local(stores', layer)]
  <2>1. ~ (layer < layer)
    BY <1>3
  <2> QED BY <1>2, <2>1, LocalEmpty DEF PlaceOf
<1>8. \A m \in 1 .. Layers : m # layer => UNCHANGED PlaceOf(m, s)
  <2>1. UNCHANGED Begin(s)
    BY <1>2, BeginKept
  <2> QED BY <1>2, <2>1 DEF PlaceOf
<1>9. sidecar'[layer] = Store(sidecar[layer], [key |-> t.key, epoch |-> epoch])
      /\ \A m \in 1 .. Layers : m # layer => sidecar'[m] = sidecar[m]
  BY <1>1, <1>3 DEF SidecarInv
<1> HIDE DEF u
<1>10. P.lookups = {} /\ P.stores = Local(stores, layer) /\ P' = [P EXCEPT !.stores = @ \ {u}]
  BY <1>5, <1>7
<1>11. Takes(P, u)
  BY <1>5, <1>10 DEF Takes
<1>12. P' = After(P, u)
  BY <1>10 DEF After
<1>13. sidecar'[layer] = Do(P, sidecar[layer], u, epoch)
  BY <1>6, <1>9, <1>10 DEF Do
<1>14. PlaceOf(layer, s)' = After(PlaceOf(layer, s), u)
  BY <1>2, <1>12
<1> QED BY <1>2, <1>3, <1>4, <1>8, <1>9, <1>11, <1>13, <1>14, TaskDone

(* A pass that is where all layers hold the same.                           *)
LEMMA OnePlace ==
  ASSUME NEW P \in Place, OneKey(P.lookups), OneKey(P.stores), NEW s, NEW e
  PROVE  \E H : /\ IsTrace(H, P, e) /\ DOMAIN H = {P} /\ H[P] = s
<1> DEFINE H == [Q \in {P} |-> s]
<1>1. DOMAIN H = {P} /\ H[P] = s
  OBVIOUS
<1> HIDE DEF H
<1>2. IsTrace(H, P, e)
  BY <1>1 DEF IsTrace
<1> QED BY <1>1, <1>2

(* Preflight starts: every layer has the same lookups before it.            *)
LEMMA PreparePass ==
  ASSUME ReuseInv, ReuseInv', PassInv, Prepare
  PROVE  PassInv'
<1>1. /\ phase = "launched" /\ phase' = "preflight" /\ layer' = 1
      /\ UNCHANGED <<sidecar, epoch>>
      /\ lookups' = {t \in Task : /\ t.row \in DOMAIN new
                                  /\ [block |-> t.block, key |-> t.key] \in worker'[new[t.row]]}
  BY DEF Prepare, scheduler
<1>2. \A l \in 1 .. Layers : sidecar[l] = sidecar[1]
  BY <1>1 DEF PassInv, AllEqual
<1>3. 1 \in 1 .. Layers
  BY ContextAssumption
<1>4. lookups' \in SUBSET Task /\ OneKey(lookups')
  BY <1>1 DEF ReuseInv, PhaseInv, OneKey
<1>5. ASSUME NEW l \in 1 .. Layers PROVE Local(lookups', l) = Local(lookups', 1)
  <2>1. ASSUME NEW t \in Task PROVE At(t, l) \in lookups' <=> At(t, 1) \in lookups'
    <3> DEFINE a == At(t, l)
               b == At(t, 1)
    <3>1. /\ a \in Task /\ a.row = t.row /\ a.block = t.block /\ a.key = t.key
          /\ b \in Task /\ b.row = t.row /\ b.block = t.block /\ b.key = t.key
      BY <1>3, AtIs
    <3> HIDE DEF a, b
    <3>2. a \in lookups' <=> b \in lookups'
      BY <1>1, <3>1
    <3> QED BY <3>2 DEF a, b
  <2> QED BY <2>1 DEF Local
<1> DEFINE P == [lookups |-> Local(lookups', 1), stores |-> {}]
           s == sidecar[1]
<1>6. Local(lookups', 1) \in SUBSET Task /\ OneKey(Local(lookups', 1))
  BY <1>3, <1>4, LocalKeys
<1>7. P \in Place /\ OneKey(P.lookups) /\ OneKey(P.stores)
  BY <1>6 DEF Place, OneKey
<1>8. \A l \in 1 .. Layers : PlaceOf(l, s)' = P
  BY <1>1, <1>5 DEF PlaceOf
<1>9. \A l \in 1 .. Layers : sidecar'[l] = s
  BY <1>1, <1>2
<1> HIDE DEF P
<1>10. \E H, lead, x : /\ IsTrace(H, lead, epoch') /\ DOMAIN H = {lead}
                       /\ \A l \in 1 .. Layers :
                            PlaceOf(l, x)' = lead /\ sidecar'[l] = H[lead]
  <2>1. PICK H : IsTrace(H, P, epoch') /\ DOMAIN H = {P} /\ H[P] = s
    BY <1>7, OnePlace
  <2> QED BY <1>8, <1>9, <2>1
<1>11. PICK H, lead, x : /\ IsTrace(H, lead, epoch') /\ DOMAIN H = {lead}
                         /\ \A l \in 1 .. Layers :
                              PlaceOf(l, x)' = lead /\ sidecar'[l] = H[lead]
  BY <1>10
<1>12. \A l \in 1 .. Layers : ~ (l < layer') /\ phase' # "layer"
  BY <1>1
<1>13. Traced(H, lead, x)'
  BY <1>1, <1>11, <1>12 DEF Traced
<1> QED BY <1>1, <1>13 DEF PassInv, Scheduling

(* The layer that starts is where all layers begin the pass.                *)
LEMMA StartLayerPass ==
  ASSUME ReuseInv, PassInv, StartLayer
  PROVE  PassInv'
<1>1. /\ phase = "layer_start" /\ phase' = "layer"
      /\ UNCHANGED <<batch, worker, sidecar, layer, epoch>>
      /\ applied' = [applied EXCEPT ![layer] =
           IF Executes THEN {[block |-> c.block,
                              op |-> sidecar[layer].data[sidecar[layer].slot[c.key]]] :
                               c \in Reusable}
           ELSE {}]
  BY DEF StartLayer, scheduler
<1>2. PhaseInv /\ layer \in 1 .. Layers /\ DOMAIN applied = 1 .. Layers
  BY DEF ReuseInv, PhaseInv
<1>3. PICK H, lead, s : Traced(H, lead, s)
  BY <1>1 DEF PassInv
<1>4. /\ IsTrace(H, lead, epoch')
      /\ \A l \in 1 .. Layers : PlaceOf(l, s) \in DOMAIN H /\ H[PlaceOf(l, s)] = sidecar[l]
      /\ Begin(s) \in DOMAIN H /\ H[Begin(s)] = s
      /\ \A l \in 1 .. Layers : l < layer => {a.block : a \in applied[l]} = AppliedBlocks(s)
  BY <1>1, <1>3 DEF Traced
<1>5. ~ (layer < layer)
  BY <1>2
<1>6. PlaceOf(layer, s) = Begin(s)
  BY <1>1, <1>5 DEF PlaceOf
<1>7. sidecar[layer] = s
  BY <1>2, <1>4, <1>6
<1>8. UNCHANGED <<Begin(s), AppliedBlocks(s)>>
  BY <1>1, BeginKept
<1>9. PlaceOf(layer, s)' = Begin(s)
  <2>1. Local(lookups', layer) = BeginLookups(s) /\ Local(stores', layer) = BeginStores
    BY <1>2, <1>7, StartLayerTasks
  <2> QED BY <1>1, <1>5, <2>1 DEF PlaceOf, Begin
<1>10. \A l \in 1 .. Layers : l # layer => UNCHANGED PlaceOf(l, s)
  BY <1>1, <1>8 DEF PlaceOf
<1>11. ASSUME NEW l \in 1 .. Layers
       PROVE  PlaceOf(l, s)' \in DOMAIN H /\ H[PlaceOf(l, s)'] = sidecar'[l]
  <2>1. CASE l = layer
    BY <1>1, <1>4, <1>7, <1>9, <2>1
  <2>2. CASE l # layer
    BY <1>1, <1>4, <1>10, <2>2
  <2> QED BY <2>1, <2>2
<1>12. {a.block : a \in applied'[layer]} = AppliedBlocks(s)
  <2>1. Executes <=> ExecutesOn(s)
    BY <1>7 DEF Executes, ExecutesOn
  <2>2. applied'[layer] =
          IF Executes THEN {[block |-> c.block,
                             op |-> sidecar[layer].data[sidecar[layer].slot[c.key]]] :
                              c \in Reusable}
          ELSE {}
    BY <1>1, <1>2
  <2>3. CASE Executes
    <3>1. ASSUME NEW c \in Reusable PROVE c.block \in {a.block : a \in applied'[layer]}
      <4> DEFINE a == [block |-> c.block,
                       op |-> sidecar[layer].data[sidecar[layer].slot[c.key]]]
      <4>1. a \in applied'[layer]
        BY <2>2, <2>3
      <4>2. a.block = c.block
        OBVIOUS
      <4> HIDE DEF a
      <4> QED BY <4>1, <4>2
    <3>2. ASSUME NEW a \in applied'[layer] PROVE \E c \in Reusable : a.block = c.block
      BY <2>2, <2>3
    <3>3. {a.block : a \in applied'[layer]} = {c.block : c \in Reusable}
      BY <3>1, <3>2
    <3> QED BY <2>1, <2>3, <3>3 DEF AppliedBlocks
  <2>4. CASE ~ Executes
    BY <2>1, <2>2, <2>4 DEF AppliedBlocks
  <2> QED BY <2>3, <2>4
<1>13. \A l \in 1 .. Layers : l < layer' => {a.block : a \in applied'[l]} = AppliedBlocks(s)
  BY <1>1, <1>2, <1>4
<1>14. /\ \A l \in 1 .. Layers :
           l < layer' \/ (l = layer' /\ phase' = "layer") =>
             {a.block : a \in applied'[l]} = AppliedBlocks(s)'
       /\ Begin(s)' \in DOMAIN H /\ H[Begin(s)'] = s
  BY <1>1, <1>4, <1>8, <1>12, <1>13
<1>15. Traced(H, lead, s)'
  BY <1>4, <1>11, <1>14 DEF Traced
<1> QED BY <1>1, <1>15 DEF PassInv, Scheduling

(* The layers that are done, and all of them after the preflight, are at    *)
(* the same place.                                                          *)
LEMMA NextLayerPass ==
  ASSUME ReuseInv, PassInv, NextLayer
  PROVE  PassInv'
<1>1. /\ lookups = {} /\ stores = {} /\ phase \in {"preflight", "layer"}
      /\ UNCHANGED <<batch, worker, sidecar, applied, epoch, lookups, stores>>
  BY DEF NextLayer, scheduler
<1>2. QueueInv /\ PlanInv /\ layer \in 1 .. Layers /\ 1 \in 1 .. Layers /\ Layers \in Nat
  BY ContextAssumption DEF ReuseInv, PhaseInv
<1>3. PICK H, lead, s : Traced(H, lead, s)
  BY <1>1 DEF PassInv
<1>4. /\ IsTrace(H, lead, epoch')
      /\ \A l \in 1 .. Layers : PlaceOf(l, s) \in DOMAIN H /\ H[PlaceOf(l, s)] = sidecar[l]
      /\ phase # "preflight" => Begin(s) \in DOMAIN H /\ H[Begin(s)] = s
      /\ \A l \in 1 .. Layers :
           l < layer \/ (l = layer /\ phase = "layer") =>
             {a.block : a \in applied[l]} = AppliedBlocks(s)
  BY <1>1, <1>3 DEF Traced
<1>5. CASE phase = "preflight"
  <2>1. layer' = 1 /\ phase' = "layer_start"
    BY <1>2, <1>5 DEF NextLayer, ReuseInv, PhaseInv
  <2>2. \A l \in 1 .. Layers : PlaceOf(l, s) = [lookups |-> {}, stores |-> {}]
    BY <1>1, <1>5, LocalEmpty DEF PlaceOf
  <2>3. \A l \in 1 .. Layers : sidecar'[l] = sidecar[1]
    BY <1>1, <1>2, <1>4, <2>2
  <2>4. \E x : \A l \in 1 .. Layers : sidecar'[l] = x
    BY <2>3
  <2>5. PICK x : \A l \in 1 .. Layers : sidecar'[l] = x
    BY <2>4
  <2>6. Begin(x) \in Place /\ OneKey(Begin(x).lookups) /\ OneKey(Begin(x).stores)
    BY <1>2, BeginPlace
  <2>7. \E P : /\ P \in Place /\ OneKey(P.lookups) /\ OneKey(P.stores) /\ P = Begin(x)
    BY <2>6
  <2>8. PICK P : P \in Place /\ OneKey(P.lookups) /\ OneKey(P.stores) /\ P = Begin(x)
    BY <2>7
  <2>9. PICK G : IsTrace(G, P, epoch') /\ DOMAIN G = {P} /\ G[P] = x
    BY <2>8, OnePlace
  <2>10. UNCHANGED Begin(x)
    BY <1>1, BeginKept
  <2>11. \A l \in 1 .. Layers : ~ (l < layer') /\ PlaceOf(l, x)' = P
    BY <2>1, <2>8, <2>10 DEF PlaceOf
  <2>12. Begin(x)' \in DOMAIN G /\ G[Begin(x)'] = x
    BY <2>8, <2>9, <2>10
  <2>13. Traced(G, P, x)'
    BY <2>1, <2>5, <2>9, <2>11, <2>12 DEF Traced
  <2> QED BY <2>1, <2>13 DEF PassInv, Scheduling
<1>6. CASE phase = "layer" /\ layer < Layers
  <2>1. layer' = layer + 1 /\ phase' = "layer_start"
    BY <1>2, <1>6 DEF NextLayer
  <2>2. UNCHANGED <<Begin(s), AppliedBlocks(s)>>
    BY <1>1, BeginKept
  <2>3. \A l \in 1 .. Layers : l < layer' <=> l < layer \/ l = layer
    BY <1>2, <2>1
  <2>4. \A l \in 1 .. Layers : UNCHANGED PlaceOf(l, s)
    BY <1>1, <1>6, <2>1, <2>2, <2>3, LocalEmpty DEF PlaceOf, Done
  <2>5. Traced(H, lead, s)'
    BY <1>1, <1>4, <1>6, <2>1, <2>2, <2>3, <2>4 DEF Traced
  <2> QED BY <2>1, <2>5 DEF PassInv, Scheduling
<1>7. CASE phase = "layer" /\ layer = Layers
  <2>1. phase' = "idle"
    BY <1>2, <1>7 DEF NextLayer
  <2>2. \A l \in 1 .. Layers : l < layer \/ l = layer
    BY <1>2, <1>7
  <2>3. \A l \in 1 .. Layers : PlaceOf(l, s) = Done
    BY <1>1, <1>7, <2>2, LocalEmpty DEF PlaceOf, Done
  <2>4. \A l \in 1 .. Layers : sidecar[l] = sidecar[1]
    BY <1>2, <1>4, <2>3
  <2> QED BY <1>1, <2>1, <2>4 DEF PassInv, AllEqual
<1> QED BY <1>1, <1>2, <1>5, <1>6, <1>7

(* PassInv is inductive.                                                    *)
LEMMA PassStep == ReuseInv /\ ReuseInv' /\ PassInv /\ [Next]_vars => PassInv'
<1> SUFFICES ASSUME ReuseInv, ReuseInv', PassInv, [Next]_vars PROVE PassInv'
  OBVIOUS
<1>1. CASE /\ phase \in {"idle", "launched"} \cup Scheduling
           /\ phase' \in {"idle", "launched"} \cup Scheduling
           /\ UNCHANGED sidecar
  BY <1>1 DEF PassInv, AllEqual, Scheduling
<1>2. ASSUME UNCHANGED <<phase, batch, forward, epoch>> PROVE PassInv'
  <2>1. \A s : UNCHANGED <<Begin(s), AppliedBlocks(s)>>
    BY <1>2, BeginKept DEF forward
  <2>2. \A l, s : UNCHANGED PlaceOf(l, s)
    BY <1>2, <2>1 DEF PlaceOf, forward
  <2>3. \A H, lead, s : Traced(H, lead, s) => Traced(H, lead, s)'
    BY <1>2, <2>1, <2>2 DEF Traced, forward
  <2> QED BY <1>2, <2>3 DEF PassInv, AllEqual, forward
<1>3. ASSUME NEW r \in Request, Add(r) \/ End(r) PROVE PassInv'
  BY <1>2, <1>3 DEF Add, End
<1>4. CASE UNCHANGED vars
  BY <1>2, <1>4 DEF vars, scheduler
<1>5. CASE Reset \/ ScheduleRunning \/ SchedulePreempting \/ Admit \/ Launch
  BY <1>1, <1>5 DEF Reset, ScheduleRunning, SchedulePreempting, Admit, Launch, Scheduling,
     forward
<1>6. CASE RaiseUnaligned
  BY <1>6 DEF RaiseUnaligned, PassInv, Scheduling
<1> QED BY <1>3, <1>4, <1>5, <1>6, PreparePass, LookupPass, StartLayerPass, StorePass,
        NextLayerPass DEF Next

(* Between two steps every layer's sidecar holds the same operators in the  *)
(* same order, and in a pass every layer replaces the same blocks: each     *)
(* layer goes through the places of one trace, whatever the preflight and   *)
(* GDNDeltaSidecar touch, refuse or evict on the way, and aborts between.   *)
THEOREM LayersStayEqual == Spec => []LayersAgree
<1>1. Init => PassInv
  <2> SUFFICES ASSUME Init PROVE PassInv
    OBVIOUS
  <2>1. /\ phase = "idle" /\ 1 \in 1 .. Layers
        /\ sidecar = [l \in 1 .. Layers |-> EmptySidecar]
    BY ContextAssumption DEF Init
  <2>2. AllEqual
    BY <2>1 DEF AllEqual
  <2> QED BY <2>1, <2>2 DEF PassInv
<1>2. PassInv /\ ReuseInv => LayersAgree
  <2> SUFFICES ASSUME PassInv, ReuseInv PROVE LayersAgree
    OBVIOUS
  <2>1. ASSUME phase = "layer", NEW l \in 1 .. layer
        PROVE  {a.block : a \in applied[l]} = {a.block : a \in applied[1]}
    <3>1. PICK H, lead, s : Traced(H, lead, s)
      BY <2>1 DEF PassInv
    <3>2. layer \in 1 .. Layers /\ Layers \in Nat
      BY ContextAssumption DEF ReuseInv, PhaseInv
    <3>3. /\ l \in 1 .. Layers /\ (l < layer \/ l = layer)
          /\ 1 \in 1 .. Layers /\ (1 < layer \/ 1 = layer)
      BY <2>1, <3>2
    <3> QED BY <2>1, <3>1, <3>3 DEF Traced
  <2> QED BY <2>1 DEF LayersAgree, PassInv, AllEqual
<1> QED BY <1>1, <1>2, ReuseInvariant, PassStep, PTL DEF Spec
=============================================================================
