---------------------------- MODULE OperatorCache ----------------------------
(* What the layers' operator sidecars promise, without slots and without an *)
(* order of use: a layer keeps the operator stored last under a context     *)
(* hash until it gives one up for another hash, which it does only when it  *)
(* holds Capacity of them.                                                  *)
EXTENDS Naturals, FiniteSets

CONSTANTS Key, Capacity, Layers, NoOperator

VARIABLE held   \* the operator each layer has under each hash

Init == held = [l \in 1 .. Layers |-> [k \in Key |-> NoOperator]]

Holds(l) == {k \in Key : held[l][k] # NoOperator}

(* One operator comes, at most one goes.                                    *)
StoreUnder(l, k) ==
  /\ held'[l][k] \in [key : {k}, epoch : Nat]
  /\ \/ held' = [held EXCEPT ![l] = [@ EXCEPT ![k] = held'[l][k]]]
     \/ \E gone \in Holds(l) :
          /\ k \notin Holds(l) /\ Cardinality(Holds(l)) = Capacity
          /\ held' = [held EXCEPT ![l] =
                        [@ EXCEPT ![gone] = NoOperator, ![k] = held'[l][k]]]

Next == \E l \in 1 .. Layers, k \in Key : StoreUnder(l, k)

Spec == Init /\ [][Next]_held
=============================================================================
