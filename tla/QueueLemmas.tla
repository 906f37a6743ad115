---------------------------- MODULE QueueLemmas ----------------------------
(***************************************************************************)
(* Facts about the sequence operators the scheduler is modelled with: what *)
(* appending to, prepending to and removing from a queue does to the set   *)
(* of its elements, and that it keeps the elements distinct; what a fold   *)
(* over a sequence computes step by step, and that a sum over a sequence   *)
(* does not depend on its order.                                           *)
(***************************************************************************)
EXTENDS Integers, Sequences, FiniteSets, SequencesExt, SequenceTheorems,
        FiniteSetTheorems, TLAPS

(* Appending an element adds it to the elements: how AddRequest and the     *)
(* admission of a request extend a queue.                                   *)
LEMMA AppendElements ==
  ASSUME NEW S, NEW s \in Seq(S), NEW e \in S
  PROVE  /\ Append(s, e) \in Seq(S)
         /\ Len(Append(s, e)) = Len(s) + 1
         /\ ToSet(Append(s, e)) = ToSet(s) \cup {e}
         /\ IsInjective(s) /\ e \notin ToSet(s) => IsInjective(Append(s, e))
<1> DEFINE t == Append(s, e)
<1>1. /\ t \in Seq(S) /\ Len(t) = Len(s) + 1
      /\ \A i \in 1 .. Len(s) : t[i] = s[i]
      /\ t[Len(s) + 1] = e
  BY AppendProperties
<1>2. DOMAIN t = 1 .. Len(s) + 1 /\ DOMAIN s = 1 .. Len(s) /\ Len(s) \in Nat
  BY <1>1, LenProperties
<1> HIDE DEF t
<1>3. \A x \in ToSet(t) : x \in ToSet(s) \cup {e}
  BY <1>1, <1>2 DEF ToSet
<1>4. \A x \in ToSet(s) \cup {e} : x \in ToSet(t)
  <2>1. e \in ToSet(t)
    <3>1. Len(s) + 1 \in DOMAIN t
      BY <1>2
    <3> QED BY <1>1, <3>1 DEF ToSet
  <2>2. ASSUME NEW x \in ToSet(s) PROVE x \in ToSet(t)
    <3>1. PICK i \in DOMAIN s : x = s[i]
      BY DEF ToSet
    <3>2. i \in DOMAIN t /\ t[i] = x
      BY <1>1, <1>2, <3>1
    <3> QED BY <3>2 DEF ToSet
  <2> QED BY <2>1, <2>2
<1>5. ASSUME IsInjective(s), e \notin ToSet(s) PROVE IsInjective(t)
  <2> SUFFICES ASSUME NEW i \in DOMAIN t, NEW j \in DOMAIN t, t[i] = t[j]
               PROVE  i = j
    BY DEF IsInjective
  <2>1. \A k \in 1 .. Len(s) : t[k] \in ToSet(s)
    BY <1>1, <1>2 DEF ToSet
  <2>2. CASE i = Len(s) + 1 \/ j = Len(s) + 1
    BY <2>1, <2>2, <1>1, <1>2, <1>5
  <2>3. CASE i # Len(s) + 1 /\ j # Len(s) + 1
    <3>1. i \in DOMAIN s /\ j \in DOMAIN s /\ s[i] = s[j]
      BY <2>3, <1>1, <1>2
    <3> QED BY <3>1, <1>5 DEF IsInjective
  <2> QED BY <2>2, <2>3
<1> QED BY <1>1, <1>3, <1>4, <1>5 DEF t

(* The elements of a concatenation, and when they are distinct.             *)
LEMMA ConcatElements ==
  ASSUME NEW S, NEW s \in Seq(S), NEW t \in Seq(S)
  PROVE  /\ s \o t \in Seq(S)
         /\ Len(s \o t) = Len(s) + Len(t)
         /\ ToSet(s \o t) = ToSet(s) \cup ToSet(t)
         /\ IsInjective(s \o t) <=>
              IsInjective(s) /\ IsInjective(t) /\ ToSet(s) \cap ToSet(t) = {}
<1> DEFINE u == s \o t
<1>1. /\ u \in Seq(S) /\ Len(u) = Len(s) + Len(t)
      /\ \A i \in 1 .. Len(s) + Len(t) :
           u[i] = IF i <= Len(s) THEN s[i] ELSE t[i - Len(s)]
  BY ConcatProperties
<1>2. /\ DOMAIN u = 1 .. Len(s) + Len(t)
      /\ DOMAIN s = 1 .. Len(s) /\ Len(s) \in Nat
      /\ DOMAIN t = 1 .. Len(t) /\ Len(t) \in Nat
  BY <1>1, LenProperties
<1> HIDE DEF u
<1>3. \A i \in DOMAIN s : i \in DOMAIN u /\ u[i] = s[i]
  BY <1>1, <1>2
<1>4. \A i \in DOMAIN t : i + Len(s) \in DOMAIN u /\ u[i + Len(s)] = t[i]
  BY <1>1, <1>2
<1>5. \A i \in DOMAIN u : \/ i \in DOMAIN s /\ u[i] = s[i]
                          \/ i - Len(s) \in DOMAIN t /\ u[i] = t[i - Len(s)]
  BY <1>1, <1>2
<1>6. ToSet(u) = ToSet(s) \cup ToSet(t)
  <2>1. \A x \in ToSet(u) : x \in ToSet(s) \cup ToSet(t)
    BY <1>5 DEF ToSet
  <2>2. \A x \in ToSet(s) : x \in ToSet(u)
    BY <1>3 DEF ToSet
  <2>3. \A x \in ToSet(t) : x \in ToSet(u)
    BY <1>4 DEF ToSet
  <2> QED BY <2>1, <2>2, <2>3
<1>7. ASSUME IsInjective(u)
      PROVE  IsInjective(s) /\ IsInjective(t) /\ ToSet(s) \cap ToSet(t) = {}
  <2>1. \A i, j \in DOMAIN u : u[i] = u[j] => i = j
    BY <1>7 DEF IsInjective
  <2>2. IsInjective(s)
    BY <1>3, <2>1 DEF IsInjective
  <2>3. IsInjective(t)
    <3> SUFFICES ASSUME NEW i \in DOMAIN t, NEW j \in DOMAIN t, t[i] = t[j]
                 PROVE  i = j
      BY DEF IsInjective
    <3>1. i + Len(s) = j + Len(s)
      BY <1>4, <2>1
    <3> QED BY <3>1, <1>2
  <2>4. ASSUME NEW i \in DOMAIN s, NEW j \in DOMAIN t PROVE s[i] # t[j]
    <3>1. i # j + Len(s)
      BY <1>2
    <3> QED BY <3>1, <1>3, <1>4, <2>1
  <2> QED BY <2>2, <2>3, <2>4 DEF ToSet
<1>8. ASSUME IsInjective(s), IsInjective(t), ToSet(s) \cap ToSet(t) = {}
      PROVE  IsInjective(u)
  <2>1. ASSUME NEW i \in DOMAIN u, NEW j \in DOMAIN u, u[i] = u[j]
        PROVE  i = j
    <3>1. \A k \in DOMAIN s, l \in DOMAIN t : s[k] # t[l]
      BY <1>8 DEF ToSet
    <3>2. \A k, l \in DOMAIN s : s[k] = s[l] => k = l
      BY <1>8 DEF IsInjective
    <3>3. \A k, l \in DOMAIN t : t[k] = t[l] => k = l
      BY <1>8 DEF IsInjective
    <3>4. CASE i \in DOMAIN s /\ j \in DOMAIN s
      BY <3>4, <3>2, <1>3, <2>1
    <3>5. CASE i \notin DOMAIN s /\ j \notin DOMAIN s
      <4>1. i - Len(s) = j - Len(s)
        BY <3>5, <3>3, <1>5, <2>1
      <4> QED BY <4>1, <1>2
    <3>6. CASE i \in DOMAIN s /\ j \notin DOMAIN s
      BY <3>6, <3>1, <1>3, <1>5, <2>1
    <3>7. CASE i \notin DOMAIN s /\ j \in DOMAIN s
      BY <3>7, <3>1, <1>3, <1>5, <2>1
    <3> QED BY <3>4, <3>5, <3>6, <3>7
  <2> QED BY <2>1 DEF IsInjective
<1> QED BY <1>1, <1>6, <1>7, <1>8 DEF u

(* Prepending an element: how a preempted request is put back in front.     *)
LEMMA PrependElements ==
  ASSUME NEW S, NEW s \in Seq(S), NEW e \in S
  PROVE  /\ <<e>> \o s \in Seq(S)
         /\ ToSet(<<e>> \o s) = ToSet(s) \cup {e}
         /\ IsInjective(s) /\ e \notin ToSet(s) => IsInjective(<<e>> \o s)
<1>1. <<e>> \in Seq(S) /\ DOMAIN <<e>> = {1} /\ <<e>>[1] = e
  OBVIOUS
<1>2. ToSet(<<e>>) = {e} /\ IsInjective(<<e>>)
  BY <1>1 DEF ToSet, IsInjective
<1>3. /\ <<e>> \o s \in Seq(S)
      /\ ToSet(<<e>> \o s) = ToSet(<<e>>) \cup ToSet(s)
      /\ IsInjective(<<e>> \o s) <=>
           IsInjective(<<e>>) /\ IsInjective(s) /\ ToSet(<<e>>) \cap ToSet(s) = {}
  <2> DEFINE h == <<e>>
  <2>1. h \in Seq(S)
    BY <1>1
  <2> HIDE DEF h
  <2>2. /\ h \o s \in Seq(S)
        /\ ToSet(h \o s) = ToSet(h) \cup ToSet(s)
        /\ IsInjective(h \o s) <=>
             IsInjective(h) /\ IsInjective(s) /\ ToSet(h) \cap ToSet(s) = {}
    BY <2>1, ConcatElements
  <2> QED BY <2>2 DEF h
<1> QED BY <1>2, <1>3

(* All but the last element, as a preemption leaves running.                *)
LEMMA FrontElements ==
  ASSUME NEW S, NEW s \in Seq(S), s # << >>
  PROVE  /\ Front(s) \in Seq(S) /\ Len(Front(s)) = Len(s) - 1
         /\ Last(s) \in S /\ Last(s) \in ToSet(s)
         /\ IsInjective(s) => /\ IsInjective(Front(s))
                              /\ ToSet(Front(s)) = ToSet(s) \ {Last(s)}
<1> DEFINE t == SubSeq(s, 1, Len(s) - 1)
<1>1. Len(s) \in Nat \ {0} /\ DOMAIN s = 1 .. Len(s)
  BY EmptySeq, LenProperties
<1>2. /\ t \in Seq(S) /\ Len(t) = Len(s) - 1
      /\ \A i \in 1 .. Len(s) - 1 : t[i] = s[i]
  BY <1>1, SubSeqProperties
<1>3. DOMAIN t = 1 .. Len(s) - 1
  BY <1>2, LenProperties
<1> HIDE DEF t
<1>4. Last(s) \in S /\ Last(s) \in ToSet(s)
  BY <1>1 DEF Last, ToSet
<1>5. ASSUME IsInjective(s)
      PROVE  IsInjective(t) /\ ToSet(t) = ToSet(s) \ {Last(s)}
  <2>1. \A i, j \in DOMAIN s : s[i] = s[j] => i = j
    BY <1>5 DEF IsInjective
  <2>2. IsInjective(t)
    BY <1>1, <1>2, <1>3, <2>1 DEF IsInjective
  <2>3. ASSUME NEW x \in ToSet(t) PROVE x \in ToSet(s) /\ x # Last(s)
    <3>1. PICK i \in DOMAIN t : x = t[i]
      BY DEF ToSet
    <3>2. i \in DOMAIN s /\ i # Len(s) /\ x = s[i] /\ Len(s) \in DOMAIN s
      BY <1>1, <1>2, <1>3, <3>1
    <3> QED BY <2>1, <3>2 DEF ToSet, Last
  <2>4. ASSUME NEW x \in ToSet(s), x # Last(s) PROVE x \in ToSet(t)
    <3>1. PICK i \in DOMAIN s : x = s[i]
      BY DEF ToSet
    <3>2. i \in DOMAIN t /\ x = t[i]
      BY <1>1, <1>2, <1>3, <2>4, <3>1 DEF Last
    <3> QED BY <3>2 DEF ToSet
  <2> QED BY <2>2, <2>3, <2>4
<1> QED BY <1>2, <1>4, <1>5 DEF t, Front

(* All but the first element, as an admission leaves waiting.               *)
LEMMA TailElements ==
  ASSUME NEW S, NEW s \in Seq(S), s # << >>
  PROVE  /\ Tail(s) \in Seq(S) /\ Len(Tail(s)) = Len(s) - 1
         /\ Head(s) \in S /\ Head(s) \in ToSet(s)
         /\ IsInjective(s) => /\ IsInjective(Tail(s))
                              /\ ToSet(Tail(s)) = ToSet(s) \ {Head(s)}
<1> DEFINE t == Tail(s)
<1>1. Len(s) \in Nat \ {0} /\ DOMAIN s = 1 .. Len(s) /\ Head(s) = s[1]
  BY EmptySeq, LenProperties
<1>2. /\ t \in Seq(S) /\ Len(t) = Len(s) - 1
      /\ \A i \in 1 .. Len(s) - 1 : t[i] = s[i + 1]
  BY <1>1, HeadTailProperties
<1>3. DOMAIN t = 1 .. Len(s) - 1
  BY <1>2, LenProperties
<1> HIDE DEF t
<1>4. 1 \in DOMAIN s /\ Head(s) \in S /\ Head(s) \in ToSet(s)
  BY <1>1 DEF ToSet
<1>5. ASSUME IsInjective(s)
      PROVE  IsInjective(t) /\ ToSet(t) = ToSet(s) \ {Head(s)}
  <2>1. \A i, j \in DOMAIN s : s[i] = s[j] => i = j
    BY <1>5 DEF IsInjective
  <2>2. \A i \in DOMAIN t : i + 1 \in DOMAIN s /\ t[i] = s[i + 1]
    BY <1>1, <1>2, <1>3
  <2>3. ASSUME NEW i \in DOMAIN t, NEW j \in DOMAIN t, t[i] = t[j] PROVE i = j
    <3>1. i + 1 = j + 1
      BY <2>1, <2>2, <2>3
    <3> QED BY <3>1, <1>3
  <2>4. ASSUME NEW x \in ToSet(t) PROVE x \in ToSet(s) /\ x # Head(s)
    <3>1. PICK i \in DOMAIN t : x = t[i]
      BY DEF ToSet
    <3>2. i + 1 # 1
      BY <1>3
    <3> QED BY <1>1, <1>4, <2>1, <2>2, <3>1, <3>2 DEF ToSet
  <2>5. ASSUME NEW x \in ToSet(s), x # Head(s) PROVE x \in ToSet(t)
    <3>1. PICK i \in DOMAIN s : x = s[i]
      BY DEF ToSet
    <3>2. i - 1 \in DOMAIN t /\ x = t[i - 1]
      BY <1>1, <1>2, <1>3, <2>5, <3>1
    <3> QED BY <3>2 DEF ToSet
  <2>6. IsInjective(t)
    BY <2>3 DEF IsInjective
  <2> QED BY <2>4, <2>5, <2>6
<1> QED BY <1>2, <1>4, <1>5 DEF t

(* Every nonempty set of naturals has a least element.                      *)
LEMMA NatMin ==
  ASSUME NEW T \in SUBSET Nat, T # {}
  PROVE  \E m \in T : \A n \in T : m <= n
<1> DEFINE R == StrictSubsetOrdering(Nat)
           F == {1 .. n : n \in T}
<1>1. F \subseteq FiniteSubsetsOf(Nat) /\ F # {}
  <2>1. \A n \in T : IsFiniteSet(1 .. n)
    BY FS_Interval
  <2>2. \A n \in T : 1 .. n \in SUBSET Nat
    OBVIOUS
  <2>3. \A n \in T : 1 .. n \in FiniteSubsetsOf(Nat)
    BY <2>1, <2>2 DEF FiniteSubsetsOf
  <2> QED BY <2>3
<1>2. \A m, n \in Nat : m < n => <<1 .. m, 1 .. n>> \in R
  <2> SUFFICES ASSUME NEW m \in Nat, NEW n \in Nat, m < n
               PROVE  (1 .. m) \subseteq (1 .. n) /\ 1 .. m # 1 .. n
    BY DEF StrictSubsetOrdering
  <2>1. n \in 1 .. n /\ n \notin 1 .. m
    OBVIOUS
  <2> QED BY <2>1
<1> HIDE DEF R
<1>3. \E x \in F : \A y \in F : ~ (<<y, x>> \in R)
  <2>1. IsWellFoundedOn(R, FiniteSubsetsOf(Nat))
    BY FS_StrictSubsetOrderingWellFounded DEF R
  <2> HIDE DEF F
  <2> QED BY <1>1, <2>1, WFMin
<1>4. PICK m \in T : \A y \in F : ~ (<<y, 1 .. m>> \in R)
  BY <1>3
<1>5. \A n \in T : ~ (<<1 .. n, 1 .. m>> \in R)
  BY <1>4
<1>6. \A n \in T : m \in Nat /\ n \in Nat /\ ~ n < m
  BY <1>2, <1>5
<1> QED BY <1>6

(* Removing an element leaves a sequence of the same elements' set.         *)
LEMMA RemoveFirstType ==
  ASSUME NEW S, NEW s \in Seq(S), NEW e
  PROVE  RemoveFirst(s, e) \in Seq(S)
<1>1. CASE ~ \E i \in 1 .. Len(s) : s[i] = e
  BY <1>1 DEF RemoveFirst
<1>2. CASE \E i \in 1 .. Len(s) : s[i] = e
  <2> DEFINE I == {i \in 1 .. Len(s) : s[i] = e}
  <2>1. I \in SUBSET Nat /\ I # {}
    BY <1>2
  <2>2. \E k \in I : \A i \in I : k <= i
    BY <2>1, NatMin
  <2>3. Min(I) \in I
    BY <2>2 DEF Min
  <2>4. SelectInSeq(s, LAMBDA v : v = e) = Min(I)
    BY <2>1 DEF SelectInSeq
  <2>5. PICK k \in 1 .. Len(s) : SelectInSeq(s, LAMBDA v : v = e) = k
    BY <2>3, <2>4
  <2>6. RemoveFirst(s, e) = SubSeq(s, 1, k - 1) \o SubSeq(s, k + 1, Len(s))
    BY <1>2, <2>5 DEF RemoveFirst, RemoveAt
  <2>7. SubSeq(s, 1, k - 1) \in Seq(S) /\ SubSeq(s, k + 1, Len(s)) \in Seq(S)
    BY SubSeqProperties
  <2> QED BY <2>6, <2>7, ConcatProperties
<1> QED BY <1>1, <1>2

(* Removing an element from a queue without duplicates, as finishing a      *)
(* request does, removes it altogether.                                     *)
LEMMA RemoveFirstProperties ==
  ASSUME NEW S, NEW s \in Seq(S), NEW e, IsInjective(s)
  PROVE  /\ RemoveFirst(s, e) \in Seq(S)
         /\ IsInjective(RemoveFirst(s, e))
         /\ ToSet(RemoveFirst(s, e)) = ToSet(s) \ {e}
         /\ Len(RemoveFirst(s, e)) <= Len(s)
<1>1. CASE ~ \E i \in 1 .. Len(s) : s[i] = e
  BY <1>1 DEF RemoveFirst, ToSet
<1>2. CASE \E i \in 1 .. Len(s) : s[i] = e
  <2>1. PICK k \in 1 .. Len(s) : s[k] = e
    BY <1>2
  <2>2. {i \in 1 .. Len(s) : s[i] = e} = {k}
    BY <2>1 DEF IsInjective
  <2>3. SelectInSeq(s, LAMBDA v : v = e) = k
    BY <2>1, <2>2 DEF SelectInSeq, Min
  <2> DEFINE t == SubSeq(s, 1, k - 1) \o SubSeq(s, k + 1, Len(s))
  <2>4. RemoveFirst(s, e) = t
    BY <1>2, <2>3 DEF RemoveFirst, RemoveAt
  <2>5. /\ t \in Seq(S) /\ Len(t) = Len(s) - 1
        /\ \A i \in 1 .. Len(s) - 1 : t[i] = IF i < k THEN s[i] ELSE s[i + 1]
    <3> DEFINE a == SubSeq(s, 1, k - 1)
               c == SubSeq(s, k + 1, Len(s))
    <3>1. /\ a \in Seq(S) /\ Len(a) = k - 1
          /\ \A i \in 1 .. k - 1 : a[i] = s[i]
      BY SubSeqProperties
    <3>2. /\ c \in Seq(S) /\ Len(c) = Len(s) - k
          /\ \A i \in 1 .. Len(s) - k : c[i] = s[i + k]
      BY SubSeqProperties
    <3> HIDE DEF a, c
    <3>3. /\ a \o c \in Seq(S) /\ Len(a \o c) = Len(s) - 1
          /\ \A i \in 1 .. Len(s) - 1 : (a \o c)[i] = IF i < k THEN s[i] ELSE s[i + 1]
      <4>1. /\ a \o c \in Seq(S) /\ Len(a \o c) = Len(a) + Len(c)
            /\ \A i \in 1 .. Len(a) + Len(c) :
                 (a \o c)[i] = IF i <= Len(a) THEN a[i] ELSE c[i - Len(a)]
        BY <3>1, <3>2, ConcatProperties
      <4> QED BY <3>1, <3>2, <4>1
    <3> QED BY <3>3 DEF a, c
  <2> HIDE DEF t
  <2>6. IsInjective(t)
    <3>1. DOMAIN t = 1 .. Len(s) - 1 /\ DOMAIN s = 1 .. Len(s)
      BY <2>5, LenProperties
    <3> SUFFICES ASSUME NEW i \in 1 .. Len(s) - 1, NEW j \in 1 .. Len(s) - 1,
                        t[i] = t[j]
                 PROVE  i = j
      BY <3>1 DEF IsInjective
    <3> DEFINE at(n) == IF n < k THEN n ELSE n + 1
    <3>2. at(i) \in 1 .. Len(s) /\ at(j) \in 1 .. Len(s)
      BY LenProperties
    <3>3. s[at(i)] = s[at(j)]
      BY <2>5
    <3>4. at(i) = at(j)
      <4> HIDE DEF at
      <4> QED BY <3>1, <3>2, <3>3 DEF IsInjective
    <3> QED BY <3>4, LenProperties
  <2>7. ToSet(t) \subseteq ToSet(s) \ {e}
    <3>1. DOMAIN t = 1 .. Len(s) - 1 /\ DOMAIN s = 1 .. Len(s)
      BY <2>5, LenProperties
    <3>2. ASSUME NEW i \in 1 .. Len(s) - 1 PROVE t[i] \in ToSet(s) /\ t[i] # e
      <4>1. CASE i < k
        <5>1. t[i] = s[i] /\ i \in DOMAIN s /\ i # k
          BY <2>5, <3>1, <4>1
        <5>2. s[i] # s[k]
          BY <5>1, <3>1 DEF IsInjective
        <5> QED BY <5>1, <5>2, <2>1 DEF ToSet
      <4>2. CASE ~ i < k
        <5>1. t[i] = s[i + 1] /\ i + 1 \in DOMAIN s /\ i + 1 # k
          BY <2>5, <3>1, <4>2
        <5>2. s[i + 1] # s[k]
          BY <5>1, <3>1 DEF IsInjective
        <5> QED BY <5>1, <5>2, <2>1 DEF ToSet
      <4> QED BY <4>1, <4>2
    <3> QED BY <3>1, <3>2 DEF ToSet
  <2>8. ASSUME NEW j \in 1 .. Len(s), s[j] # e PROVE s[j] \in ToSet(t)
    <3>1. CASE j < k
      BY <3>1, <2>1, <2>5 DEF ToSet
    <3>2. CASE j > k
      <4>1. t[j - 1] = s[j]
        BY <3>2, <2>1, <2>5
      <4>2. j - 1 \in DOMAIN t
        BY <3>2, <2>1, <2>5
      <4> QED BY <4>1, <4>2 DEF ToSet
    <3> QED BY <3>1, <3>2, <2>1, <2>8
  <2>9. ToSet(s) \ {e} \subseteq ToSet(t)
    BY <2>8 DEF ToSet
  <2> QED BY <2>4, <2>5, <2>6, <2>7, <2>9
<1> QED BY <1>1, <1>2

(* An element that is there leaves the queue one shorter.                   *)
LEMMA RemoveFirstShortens ==
  ASSUME NEW S, NEW s \in Seq(S), NEW e \in ToSet(s), IsInjective(s)
  PROVE  Len(RemoveFirst(s, e)) = Len(s) - 1
<1>1. PICK k \in 1 .. Len(s) : s[k] = e
  BY DEF ToSet
<1>2. {i \in 1 .. Len(s) : s[i] = e} = {k}
  BY <1>1 DEF IsInjective
<1>3. SelectInSeq(s, LAMBDA v : v = e) = k
  BY <1>1, <1>2 DEF SelectInSeq, Min
<1> DEFINE a == SubSeq(s, 1, k - 1)
           c == SubSeq(s, k + 1, Len(s))
<1>4. RemoveFirst(s, e) = a \o c
  BY <1>1, <1>3 DEF RemoveFirst, RemoveAt
<1>5. a \in Seq(S) /\ Len(a) = k - 1
  BY SubSeqProperties
<1>6. c \in Seq(S) /\ Len(c) = Len(s) - k
  BY SubSeqProperties
<1> HIDE DEF a, c
<1>7. Len(a \o c) = Len(a) + Len(c)
  BY <1>5, <1>6, ConcatProperties
<1> QED BY <1>4, <1>5, <1>6, <1>7

(* Moving an element of a queue without duplicates to its end keeps the     *)
(* others in order: from place k on each is one place earlier.              *)
LEMMA MoveToEndPlaces ==
  ASSUME NEW S, NEW s \in Seq(S), NEW e \in S, IsInjective(s)
  PROVE  LET m == Append(RemoveFirst(s, e), e)
         IN  \E k \in 1 .. Len(s) + 1 :
               /\ Len(m) = (IF k <= Len(s) THEN Len(s) ELSE Len(s) + 1)
               /\ k <= Len(s) => s[k] = e
               /\ m[Len(m)] = e
               /\ \A i \in 1 .. Len(m) - 1 : m[i] = s[IF i < k THEN i ELSE i + 1]
<1> DEFINE t == RemoveFirst(s, e)
           m == Append(t, e)
<1>1. /\ t \in Seq(S) /\ Len(s) \in Nat
      /\ Len(m) = Len(t) + 1 /\ m[Len(t) + 1] = e
      /\ \A i \in 1 .. Len(t) : m[i] = t[i]
  <2>1. t \in Seq(S)
    BY RemoveFirstProperties
  <2> HIDE DEF t
  <2> QED BY <2>1
<1>2. CASE ~ \E i \in 1 .. Len(s) : s[i] = e
  <2>1. t = s
    BY <1>2 DEF RemoveFirst
  <2> HIDE DEF t, m
  <2>2. /\ Len(m) = Len(s) + 1 /\ m[Len(m)] = e
        /\ \A i \in 1 .. Len(m) - 1 : m[i] = s[IF i < Len(s) + 1 THEN i ELSE i + 1]
    BY <1>1, <2>1
  <2>3. Len(s) + 1 \in 1 .. Len(s) + 1 /\ ~ Len(s) + 1 <= Len(s)
    BY <1>1
  <2> QED BY <2>2, <2>3 DEF m, t
<1>3. CASE \E i \in 1 .. Len(s) : s[i] = e
  <2>1. PICK k \in 1 .. Len(s) : s[k] = e
    BY <1>3
  <2>2. {i \in 1 .. Len(s) : s[i] = e} = {k}
    BY <2>1 DEF IsInjective
  <2>3. SelectInSeq(s, LAMBDA v : v = e) = k
    BY <2>1, <2>2 DEF SelectInSeq, Min
  <2>4. t = SubSeq(s, 1, k - 1) \o SubSeq(s, k + 1, Len(s))
    BY <1>3, <2>3 DEF RemoveFirst, RemoveAt
  <2>5. /\ Len(t) = Len(s) - 1
        /\ \A i \in 1 .. Len(s) - 1 : t[i] = s[IF i < k THEN i ELSE i + 1]
    <3> DEFINE a == SubSeq(s, 1, k - 1)
               c == SubSeq(s, k + 1, Len(s))
    <3>1. /\ a \in Seq(S) /\ Len(a) = k - 1
          /\ \A i \in 1 .. k - 1 : a[i] = s[i]
      BY SubSeqProperties
    <3>2. /\ c \in Seq(S) /\ Len(c) = Len(s) - k
          /\ \A i \in 1 .. Len(s) - k : c[i] = s[i + k]
      BY SubSeqProperties
    <3>3. t = a \o c
      BY <2>4
    <3> HIDE DEF a, c, t, m
    <3>4. /\ Len(t) = Len(a) + Len(c)
          /\ \A i \in 1 .. Len(a) + Len(c) :
               t[i] = IF i <= Len(a) THEN a[i] ELSE c[i - Len(a)]
      BY <3>1, <3>2, <3>3, ConcatProperties
    <3> QED BY <1>1, <3>1, <3>2, <3>4
  <2> HIDE DEF t, m
  <2>6. /\ Len(m) = Len(s) /\ m[Len(m)] = e
        /\ \A i \in 1 .. Len(m) - 1 : m[i] = s[IF i < k THEN i ELSE i + 1]
    BY <1>1, <2>1, <2>5
  <2>7. k \in 1 .. Len(s) + 1 /\ k <= Len(s)
    BY <1>1, <2>1
  <2> QED BY <2>1, <2>6, <2>7 DEF m, t
<1> QED BY <1>2, <1>3

(* A set of positions closed downwards is an initial segment: the entries   *)
(* _drain_deferred_frees takes are as many as it removes.                   *)
LEMMA InitialSegment ==
  ASSUME NEW L \in Nat, NEW D \in SUBSET (1 .. L),
         \A j \in D : \A k \in 1 .. j : k \in D
  PROVE  Cardinality(D) \in 0 .. L /\ D = 1 .. Cardinality(D)
<1> DEFINE T == {k \in 1 .. L + 1 : k \notin D}
<1>1. T \in SUBSET Nat /\ T # {}
  <2>1. L + 1 \in T
    OBVIOUS
  <2> QED BY <2>1
<1>2. PICK m \in T : \A n \in T : m <= n
  BY <1>1, NatMin
<1>3. m \in 1 .. L + 1 /\ m \notin D
  BY <1>2
<1>4. ASSUME NEW k \in 1 .. m - 1 PROVE k \in D
  <2>1. k \in 1 .. L + 1 /\ ~ m <= k
    BY <1>3
  <2>2. k \notin T
    BY <1>2, <2>1
  <2> QED BY <2>1, <2>2
<1>5. ASSUME NEW k \in D PROVE k \in 1 .. m - 1
  <2>1. CASE m <= k
    <3>1. m \in 1 .. k
      BY <1>3, <2>1
    <3> QED BY <1>3, <3>1
  <2>2. CASE ~ m <= k
    BY <1>3, <2>2
  <2> QED BY <2>1, <2>2
<1>6. D = 1 .. m - 1
  BY <1>4, <1>5
<1>7. m - 1 \in 0 .. L /\ Cardinality(1 .. m - 1) = m - 1
  <2>1. m - 1 \in Int /\ 1 \in Int
    BY <1>3
  <2>2. Cardinality(1 .. m - 1) = IF 1 > m - 1 THEN 0 ELSE m - 1 - 1 + 1
    BY <2>1, FS_Interval
  <2> QED BY <1>3, <2>2
<1> QED BY <1>6, <1>7

(* What is left of a sequence after its first n elements are taken.         *)
LEMMA SuffixElements ==
  ASSUME NEW S, NEW s \in Seq(S), NEW n \in 0 .. Len(s), IsInjective(s)
  PROVE  LET t == SubSeq(s, n + 1, Len(s))
         IN  /\ t \in Seq(S) /\ IsInjective(t)
             /\ ToSet(t) = ToSet(s) \ {s[j] : j \in 1 .. n}
<1> DEFINE t == SubSeq(s, n + 1, Len(s))
<1>1. Len(s) \in Nat /\ DOMAIN s = 1 .. Len(s)
  BY LenProperties
<1>2. /\ t \in Seq(S) /\ Len(t) = Len(s) - n
      /\ \A i \in 1 .. Len(s) - n : t[i] = s[n + i]
  <2>1. n \in Int /\ n + 1 \in Int /\ Len(s) \in Int /\ n <= Len(s)
    BY <1>1
  <2>2. \A i \in n + 1 .. Len(s) : s[i] \in S
    BY <1>1, <2>1
  <2>3. /\ t \in Seq(S)
        /\ Len(t) = IF n + 1 <= Len(s) THEN Len(s) - (n + 1) + 1 ELSE 0
        /\ \A i \in 1 .. Len(s) - (n + 1) + 1 : t[i] = s[n + 1 + i - 1]
    BY <2>1, <2>2, SubSeqProperties
  <2> HIDE DEF t
  <2>4. Len(t) = Len(s) - n
    BY <2>1, <2>3
  <2>5. \A i \in 1 .. Len(s) - n : t[i] = s[n + i]
    <3> TAKE i \in 1 .. Len(s) - n
    <3>1. i \in 1 .. Len(s) - (n + 1) + 1 /\ n + 1 + i - 1 = n + i
      BY <2>1
    <3> QED BY <2>3, <3>1
  <2> QED BY <2>3, <2>4, <2>5
<1>3. DOMAIN t = 1 .. Len(s) - n
  BY <1>2, LenProperties
<1> HIDE DEF t
<1>4. \A i, j \in DOMAIN s : s[i] = s[j] => i = j
  BY DEF IsInjective
<1>5. \A i \in DOMAIN t : n + i \in DOMAIN s /\ n + i \notin 1 .. n /\ t[i] = s[n + i]
  BY <1>1, <1>2, <1>3
<1>6. ASSUME NEW i \in DOMAIN t, NEW j \in DOMAIN t, t[i] = t[j] PROVE i = j
  <2>1. n + i = n + j
    BY <1>4, <1>5, <1>6
  <2> QED BY <1>3, <2>1
<1>7. ASSUME NEW x \in ToSet(t) PROVE x \in ToSet(s) \ {s[j] : j \in 1 .. n}
  <2>1. PICK i \in DOMAIN t : x = t[i]
    BY DEF ToSet
  <2>2. x = s[n + i] /\ x \in ToSet(s)
    BY <1>5, <2>1 DEF ToSet
  <2>3. ASSUME NEW j \in 1 .. n, x = s[j] PROVE FALSE
    <3>1. j \in DOMAIN s
      BY <1>1
    <3>2. j = n + i
      BY <1>4, <1>5, <2>2, <2>3, <3>1
    <3> QED BY <1>5, <3>2
  <2> QED BY <2>2, <2>3
<1>8. ASSUME NEW x \in ToSet(s), x \notin {s[j] : j \in 1 .. n} PROVE x \in ToSet(t)
  <2>1. PICK i \in DOMAIN s : x = s[i]
    BY DEF ToSet
  <2>2. i \notin 1 .. n
    BY <1>8, <2>1
  <2>3. i - n \in 1 .. Len(s) - n /\ n + (i - n) = i
    BY <1>1, <2>1, <2>2
  <2>4. i - n \in DOMAIN t /\ t[i - n] = x
    BY <1>2, <1>3, <2>1, <2>3
  <2> QED BY <2>4 DEF ToSet
<1>9. IsInjective(t)
  BY <1>6 DEF IsInjective
<1>10. ToSet(t) = ToSet(s) \ {s[j] : j \in 1 .. n}
  BY <1>7, <1>8
<1> QED BY <1>2, <1>9, <1>10 DEF t

-----------------------------------------------------------------------------
(* The largest element of a set of places in a sequence.                    *)
LEMMA MaxPlace ==
  ASSUME NEW n \in Nat, NEW s \in SUBSET (1 .. n), s # {}
  PROVE  Max(s) \in s /\ \A x \in s : x <= Max(s)
<1> DEFINE T == {n - x : x \in s}
<1>1. T \in SUBSET Nat /\ T # {}
  <2>1. \A x \in s : n - x \in Nat
    OBVIOUS
  <2> QED BY <2>1
<1>2. PICK m \in T : \A k \in T : m <= k
  BY <1>1, NatMin
<1>3. PICK x \in s : m = n - x
  BY <1>2
<1>4. \A y \in s : y <= x
  <2> TAKE y \in s
  <2>1. n - y \in T
    OBVIOUS
  <2>2. n - x <= n - y
    BY <1>2, <1>3, <2>1
  <2> QED BY <2>2
<1> HIDE DEF T
<1>5. x \in s /\ \A y \in s : x >= y
  BY <1>4
<1> QED BY <1>5 DEF Max

(* The recursion behind a fold over the places of a sequence, from the      *)
(* last one down.                                                           *)
Recursion(n, base, step, h) ==
  \A s \in SUBSET (1 .. n) :
    h[s] = IF s = {} THEN base ELSE step[Max(s)][h[s \ {Max(s)}]]

HasRecursion(n, U, base, step) ==
  \E h \in [SUBSET (1 .. n) -> U] : Recursion(n, base, step, h)

(* It defines a function.                                                   *)
LEMMA FoldDefined ==
  ASSUME NEW n \in Nat, NEW U, NEW base \in U, NEW step \in [1 .. n -> [U -> U]]
  PROVE  HasRecursion(n, U, base, step)
<1> DEFINE Solves(h, k) ==
             \A s \in SUBSET (1 .. k) :
               h[s] = IF s = {} THEN base ELSE step[Max(s)][h[s \ {Max(s)}]]
           P(k) == \E h \in [SUBSET (1 .. k) -> U] : Solves(h, k)
           T == {k \in 0 .. n : ~ P(k)}
<1>1. P(0)
  <2> DEFINE h == [s \in SUBSET (1 .. 0) |-> base]
  <2>1. \A s \in SUBSET (1 .. 0) : s = {}
    OBVIOUS
  <2>2. h \in [SUBSET (1 .. 0) -> U] /\ Solves(h, 0)
    BY <2>1
  <2> QED BY <2>2
<1>2. ASSUME NEW k \in 0 .. n, k < n, P(k)
      PROVE  P(k + 1)
  <2>1. PICK h \in [SUBSET (1 .. k) -> U] : Solves(h, k)
    BY <1>2
  <2> DEFINE g == [s \in SUBSET (1 .. k + 1) |->
                     IF k + 1 \in s THEN step[k + 1][h[s \ {k + 1}]] ELSE h[s]]
  <2>2. k \in Nat /\ k + 1 \in 1 .. n
    BY <1>2
  <2>3. ASSUME NEW s \in SUBSET (1 .. k + 1), k + 1 \in s
        PROVE  /\ g[s] \in U
               /\ g[s] = IF s = {} THEN base ELSE step[Max(s)][g[s \ {Max(s)}]]
    <3>1. Max(s) = k + 1
      <4>1. k + 1 \in Nat /\ s # {} /\ \A x \in s : x <= k + 1
        BY <2>2, <2>3
      <4>2. Max(s) \in s /\ k + 1 <= Max(s)
        BY <2>3, <4>1, MaxPlace
      <4>3. Max(s) \in 1 .. k + 1
        BY <4>2
      <4> QED BY <2>2, <4>2, <4>3
    <3> DEFINE r == s \ {k + 1}
    <3>2. r \in SUBSET (1 .. k) /\ r \in SUBSET (1 .. k + 1) /\ k + 1 \notin r
      BY <2>2
    <3>3. g[r] = h[r] /\ h[r] \in U
      BY <2>1, <3>2
    <3>4. g[s] = step[k + 1][h[r]]
      BY <2>3
    <3> HIDE DEF g, r
    <3>5. step[k + 1][h[r]] \in U
      BY <2>2, <3>3
    <3>6. s # {} /\ s \ {Max(s)} = r
      BY <2>3, <3>1 DEF r
    <3> QED BY <3>1, <3>3, <3>4, <3>5, <3>6
  <2>4. ASSUME NEW s \in SUBSET (1 .. k + 1), k + 1 \notin s
        PROVE  /\ g[s] \in U
               /\ g[s] = IF s = {} THEN base ELSE step[Max(s)][g[s \ {Max(s)}]]
    <3>1. s \in SUBSET (1 .. k)
      BY <2>2, <2>4
    <3>2. g[s] = h[s] /\ h[s] \in U
      BY <2>1, <2>4, <3>1
    <3>3. h[s] = IF s = {} THEN base ELSE step[Max(s)][h[s \ {Max(s)}]]
      BY <2>1, <3>1
    <3> DEFINE r == s \ {Max(s)}
    <3>4. r \in SUBSET (1 .. k) /\ r \in SUBSET (1 .. k + 1) /\ k + 1 \notin r
      <4>1. 1 .. k \subseteq 1 .. k + 1 /\ k + 1 \notin 1 .. k
        BY <2>2
      <4>2. r \subseteq s
        OBVIOUS
      <4> HIDE DEF r
      <4> QED BY <3>1, <4>1, <4>2
    <3> HIDE DEF r
    <3>5. g[r] = h[r]
      BY <3>4
    <3> HIDE DEF g
    <3> QED BY <3>2, <3>3, <3>5 DEF r
  <2>5. g \in [SUBSET (1 .. k + 1) -> U] /\ Solves(g, k + 1)
    <3>1. \A s \in SUBSET (1 .. k + 1) :
            /\ g[s] \in U
            /\ g[s] = IF s = {} THEN base ELSE step[Max(s)][g[s \ {Max(s)}]]
      BY <2>3, <2>4
    <3>2. g = [s \in SUBSET (1 .. k + 1) |-> g[s]]
      OBVIOUS
    <3> HIDE DEF g
    <3> QED BY <3>1, <3>2
  <2> HIDE DEF g
  <2> QED BY <2>5
<1> HIDE DEF P
<1>3. T = {}
  <2> SUFFICES ASSUME T # {} PROVE FALSE
    OBVIOUS
  <2>1. T \in SUBSET Nat
    OBVIOUS
  <2>2. PICK m \in T : \A k \in T : m <= k
    BY <2>1, NatMin
  <2>3. m \in 0 .. n /\ ~ P(m) /\ m # 0
    BY <1>1, <2>2
  <2> DEFINE j == m - 1
  <2>4. j \in 0 .. n /\ j < n /\ j + 1 = m /\ ~ m <= j
    BY <2>3
  <2>5. j \notin T
    BY <2>2, <2>4
  <2> HIDE DEF j
  <2>6. P(j)
    BY <2>4, <2>5
  <2>7. P(j + 1)
    BY <1>2, <2>4, <2>6
  <2> QED BY <2>3, <2>4, <2>7
<1>4. n \in 0 .. n
  OBVIOUS
<1>5. P(n)
  BY <1>3, <1>4
<1> QED BY <1>5 DEF P, HasRecursion, Recursion

(* Induction along the places of a sequence.                                *)
LEMMA InductionUpTo ==
  ASSUME NEW n \in Nat, NEW T, 0 \in T,
         \A k \in 0 .. n : k < n /\ k \in T => k + 1 \in T
  PROVE  \A k \in 0 .. n : k \in T
<1> DEFINE D == {k \in 0 .. n : k \notin T}
<1> SUFFICES ASSUME D # {} PROVE FALSE
  OBVIOUS
<1>1. D \in SUBSET Nat
  OBVIOUS
<1>2. PICK m \in D : \A k \in D : m <= k
  BY <1>1, NatMin
<1>3. m \in 0 .. n /\ m \notin T /\ m # 0
  BY <1>2
<1> DEFINE j == m - 1
<1>4. j \in 0 .. n /\ j < n /\ j + 1 = m /\ ~ m <= j
  BY <1>3
<1>5. j \in T
  BY <1>2, <1>4
<1> HIDE DEF j
<1>6. j + 1 \in T
  BY <1>4, <1>5
<1> QED BY <1>3, <1>4, <1>6

(* The places up to the k-th one end with the k-th.                         *)
LEMMA PlacesUpTo ==
  ASSUME NEW n \in Nat, NEW k \in 1 .. n
  PROVE  /\ 1 .. k \in SUBSET (1 .. n) /\ 1 .. k # {}
         /\ Max(1 .. k) = k /\ (1 .. k) \ {k} = 1 .. k - 1
<1>1. k \in Nat /\ k \in 1 .. k /\ 1 .. k \in SUBSET (1 .. n)
  OBVIOUS
<1>2. Max(1 .. k) \in 1 .. k /\ k <= Max(1 .. k)
  BY <1>1, MaxPlace
<1>3. Max(1 .. k) = k
  BY <1>2
<1>4. (1 .. k) \ {k} = 1 .. k - 1
  OBVIOUS
<1> QED BY <1>1, <1>3, <1>4

(* A function from a finite interval into itself that is injective reaches  *)
(* every place: it permutes the places.                                     *)
LEMMA InjectionReachesAll ==
  ASSUME NEW n \in Nat, NEW p \in [1 .. n -> 1 .. n], IsInjective(p)
  PROVE  \A i \in 1 .. n : \E k \in 1 .. n : p[k] = i
<1> DEFINE S == 1 .. n
<1>1. IsFiniteSet(S)
  BY FS_Interval
<1>2. p \in Injection(S, S)
  BY DEF Injection, IsInjective
<1> HIDE DEF S
<1>3. p \in Surjection(S, S)
  BY <1>1, <1>2, FS_Injection
<1> QED BY <1>3 DEF Surjection, S

(* The last place, when it is taken.                                        *)
LEMMA MaxTop ==
  ASSUME NEW k \in Nat, NEW s \in SUBSET (1 .. k), k \in s
  PROVE  Max(s) = k
<1>1. Max(s) \in s /\ k <= Max(s)
  BY MaxPlace
<1>2. Max(s) \in 1 .. k
  BY <1>1
<1> QED BY <1>1, <1>2

(* The sum of the numbers attached to a set of places.                      *)
IsSum(n, c, h) ==
  /\ h \in [SUBSET (1 .. n) -> Nat]
  /\ h[{}] = 0
  /\ \A s \in SUBSET (1 .. n) : \A x \in s : h[s] = h[s \ {x}] + c[x]

(* Sums over the sets of places, taken from the greatest place down.        *)
LEMMA SumFromTheTop ==
  ASSUME NEW n \in Nat, NEW c \in [1 .. n -> Nat]
  PROVE  \E h \in [SUBSET (1 .. n) -> Nat] :
           /\ h[{}] = 0
           /\ \A s \in SUBSET (1 .. n) : s # {} => h[s] = h[s \ {Max(s)}] + c[Max(s)]
<1> DEFINE U == Nat
           base == 0
           step == [i \in 1 .. n |-> [v \in Nat |-> v + c[i]]]
<1>1. step \in [1 .. n -> [U -> U]] /\ base \in U
  OBVIOUS
<1> HIDE DEF step, U, base
<1>2. HasRecursion(n, U, base, step)
  BY <1>1, FoldDefined
<1>3. PICK h \in [SUBSET (1 .. n) -> U] : Recursion(n, base, step, h)
  BY <1>2 DEF HasRecursion
<1>4. ASSUME NEW s \in SUBSET (1 .. n), s # {}
      PROVE  h[s] = h[s \ {Max(s)}] + c[Max(s)]
  <2>1. Max(s) \in 1 .. n
    BY <1>4, MaxPlace
  <2>2. s \ {Max(s)} \in SUBSET (1 .. n)
    OBVIOUS
  <2>3. h[s \ {Max(s)}] \in Nat
    BY <1>3, <2>2 DEF U
  <2>4. h[s] = step[Max(s)][h[s \ {Max(s)}]]
    BY <1>3, <1>4 DEF Recursion
  <2> QED BY <2>1, <2>3, <2>4 DEF step
<1>5. h[{}] = 0
  BY <1>3 DEF Recursion, base
<1> QED BY <1>3, <1>4, <1>5 DEF U

(* It does not matter which place is taken out first.                       *)
LEMMA SumExists ==
  ASSUME NEW n \in Nat, NEW c \in [1 .. n -> Nat]
  PROVE  \E h : IsSum(n, c, h)
<1>1. PICK h \in [SUBSET (1 .. n) -> Nat] :
        /\ h[{}] = 0
        /\ \A s \in SUBSET (1 .. n) : s # {} => h[s] = h[s \ {Max(s)}] + c[Max(s)]
  BY SumFromTheTop
<1> DEFINE Free(k) == \A s \in SUBSET (1 .. k) : \A x \in s : h[s] = h[s \ {x}] + c[x]
           T == {k \in 0 .. n : Free(k)}
<1>2. 0 \in T
  OBVIOUS
<1>3. ASSUME NEW k \in 0 .. n, k < n, k \in T
      PROVE  k + 1 \in T
  <2> DEFINE m == k + 1
  <2>1. m \in Nat /\ m \in 1 .. n /\ m \in 0 .. n /\ 1 .. m \subseteq 1 .. n
        /\ \A i \in 1 .. m : i # m => i \in 1 .. k
    BY <1>3
  <2> HIDE DEF m
  <2>2. ASSUME NEW s \in SUBSET (1 .. m), NEW x \in s, m \notin s
        PROVE  h[s] = h[s \ {x}] + c[x]
    <3>1. s \in SUBSET (1 .. k)
      BY <2>1, <2>2
    <3> QED BY <1>3, <3>1
  <2>3. ASSUME NEW s \in SUBSET (1 .. m), NEW x \in s, m \in s
        PROVE  h[s] = h[s \ {x}] + c[x]
    <3> DEFINE r == s \ {m}
               q == s \ {x}
               both == r \ {x}
    <3>1. s \in SUBSET (1 .. n) /\ s # {} /\ Max(s) = m
      BY <2>1, <2>3, MaxTop
    <3>2. h[s] = h[r] + c[m]
      BY <1>1, <3>1
    <3>3. CASE x = m
      BY <3>2, <3>3
    <3>4. CASE x # m
      <4>1. r \in SUBSET (1 .. k) /\ x \in r
        BY <2>1, <3>4
      <4>2. h[r] = h[both] + c[x]
        BY <1>3, <4>1
      <4>3. /\ q \in SUBSET (1 .. n) /\ q # {} /\ m \in q
            /\ both \in SUBSET (1 .. n) /\ q \in SUBSET (1 .. m)
        BY <2>3, <3>1, <3>4
      <4>4. Max(q) = m
        BY <2>1, <4>3, MaxTop
      <4>5. q \ {m} = both
        OBVIOUS
      <4>6. h[q] = h[both] + c[m]
        BY <1>1, <4>3, <4>4, <4>5
      <4>7. h[both] \in Nat /\ c[x] \in Nat /\ c[m] \in Nat
        BY <1>1, <2>1, <3>1, <4>3
      <4> HIDE DEF both, q, r
      <4>8. h[s] = h[both] + c[x] + c[m] /\ h[q] = h[both] + c[m]
        BY <3>2, <4>2, <4>6
      <4>9. h[s] = h[q] + c[x]
        BY <4>7, <4>8
      <4> QED BY <4>9 DEF q
    <3> QED BY <3>3, <3>4
  <2>4. Free(m)
    BY <2>2, <2>3
  <2> HIDE DEF Free
  <2> QED BY <2>1, <2>4 DEF m
<1> HIDE DEF T
<1>4. \A k \in 0 .. n : k \in T
  BY <1>2, <1>3, InductionUpTo
<1>5. n \in T
  BY <1>4
<1>6. Free(n)
  BY <1>5 DEF T
<1>7. h \in [SUBSET (1 .. n) -> Nat] /\ h[{}] = 0
  BY <1>1
<1>8. IsSum(n, c, h)
  BY <1>6, <1>7 DEF IsSum
<1> QED BY <1>8

(* The sums of the first numbers.                                           *)
RunningSum(n, c, g) ==
  /\ g \in [0 .. n -> Nat] /\ g[0] = 0
  /\ \A k \in 1 .. n : g[k] = g[k - 1] + c[k]

(* A running sum grows by one count at a time.                              *)
LEMMA RunningStep ==
  ASSUME NEW n \in Nat, NEW c, NEW g, RunningSum(n, c, g), NEW k \in 1 .. n
  PROVE  g[k] = g[k - 1] + c[k]
BY DEF RunningSum

(* The numbers in the order p.                                              *)
Reordered(n, c, p) == [k \in 1 .. n |-> c[p[k]]]

(* Places taken one by one, each once, add up to the sum over those taken.  *)
LEMMA SumAlong ==
  ASSUME NEW n \in Nat, NEW c \in [1 .. n -> Nat], NEW h, IsSum(n, c, h),
         NEW p \in [1 .. n -> 1 .. n], IsInjective(p),
         NEW g, RunningSum(n, Reordered(n, c, p), g)
  PROVE  g[n] = h[1 .. n]
<1> DEFINE Seen(k) == {p[i] : i \in 1 .. k}
           A == {k \in 0 .. n : g[k] = h[Seen(k)]}
           d == Reordered(n, c, p)
<1>1. 0 \in A
  <2>1. Seen(0) = {}
    OBVIOUS
  <2>2. g[0] = 0 /\ h[{}] = 0
    BY DEF IsSum, RunningSum
  <2>3. g[0] = h[Seen(0)]
    BY <2>1, <2>2
  <2> QED BY <2>3
<1>2. ASSUME NEW k \in 0 .. n, k < n, k \in A
      PROVE  k + 1 \in A
  <2> DEFINE m == k + 1
  <2>1. m \in 1 .. n /\ m \in 0 .. n /\ m - 1 = k
    BY <1>2
  <2> HIDE DEF m
  <2>2. /\ \A i \in 1 .. m : i \in 1 .. n /\ (i = m \/ i \in 1 .. k)
        /\ \A i \in 1 .. k : i \in 1 .. m /\ i \in 1 .. n /\ i # m
        /\ m \in 1 .. m
    BY <2>1
  <2>3. Seen(m) \in SUBSET (1 .. n) /\ p[m] \in Seen(m)
    BY <2>1, <2>2
  <2>4. Seen(m) \ {p[m]} = Seen(k)
    <3>1. \A i \in 1 .. k : p[i] # p[m]
      BY <2>1, <2>2 DEF IsInjective
    <3> QED BY <2>2, <3>1
  <2> HIDE DEF Seen
  <2>5. h[Seen(m)] = h[Seen(m) \ {p[m]}] + c[p[m]]
    BY <2>3 DEF IsSum
  <2>6. g[m] = g[m - 1] + c[p[m]]
    <3>1. g[m] = g[m - 1] + d[m]
      BY <2>1, RunningStep
    <3> QED BY <2>1, <3>1 DEF Reordered
  <2>7. g[k] = h[Seen(k)]
    BY <1>2
  <2>8. m \in A
    BY <2>1, <2>4, <2>5, <2>6, <2>7
  <2> QED BY <2>8 DEF m
<1>3. Seen(n) = 1 .. n
  <2>1. \A i \in 1 .. n : \E k \in 1 .. n : p[k] = i
    BY InjectionReachesAll
  <2> QED BY <2>1
<1> HIDE DEF A
<1>4. \A k \in 0 .. n : k \in A
  BY <1>1, <1>2, InductionUpTo
<1>5. n \in A
  BY <1>4
<1> HIDE DEF Seen
<1> QED BY <1>3, <1>5 DEF A

(* Numbers attached to the places add up to the same in whatever order the  *)
(* places are taken.                                                        *)
LEMMA SumsAreOrderFree ==
  ASSUME NEW n \in Nat, NEW c \in [1 .. n -> Nat],
         NEW p \in [1 .. n -> 1 .. n], IsInjective(p)
  PROVE  \A f, g : RunningSum(n, c, f) /\ RunningSum(n, Reordered(n, c, p), g)
                     => f[n] = g[n]
<1> SUFFICES ASSUME NEW f, RunningSum(n, c, f),
                    NEW g, RunningSum(n, Reordered(n, c, p), g)
             PROVE  f[n] = g[n]
  OBVIOUS
<1> DEFINE same == [k \in 1 .. n |-> k]
<1>1. PICK h : IsSum(n, c, h)
  BY SumExists
<1>2. g[n] = h[1 .. n]
  BY <1>1, SumAlong
<1>3. same \in [1 .. n -> 1 .. n] /\ IsInjective(same)
  BY DEF IsInjective
<1>4. Reordered(n, c, same) = c
  BY DEF Reordered
<1> HIDE DEF same
<1>5. RunningSum(n, Reordered(n, c, same), f)
  BY <1>4
<1>6. f[n] = h[1 .. n]
  BY <1>1, <1>3, <1>5, SumAlong
<1> QED BY <1>2, <1>6

-----------------------------------------------------------------------------
(* Which element of a sequence comes before which.                          *)
Precedes(s, b, c) == \E i, j \in DOMAIN s : i < j /\ s[i] = b /\ s[j] = c

(* The elements of a sequence are distinct when none comes before itself.   *)
LEMMA InjectiveIsStrict ==
  ASSUME NEW S, NEW s \in Seq(S)
  PROVE  IsInjective(s) <=> \A b : ~ Precedes(s, b, b)
<1>1. Len(s) \in Nat /\ DOMAIN s = 1 .. Len(s)
  OBVIOUS
<1>2. ASSUME IsInjective(s), NEW b, Precedes(s, b, b) PROVE FALSE
  <2>1. PICK i \in DOMAIN s, j \in DOMAIN s : i < j /\ s[i] = b /\ s[j] = b
    BY <1>2 DEF Precedes
  <2>2. i = j
    BY <1>2, <2>1 DEF IsInjective
  <2> QED BY <1>1, <2>1, <2>2
<1>3. ASSUME \A b : ~ Precedes(s, b, b), NEW i \in DOMAIN s, NEW j \in DOMAIN s,
             s[i] = s[j]
      PROVE  i = j
  <2>1. ~ (i < j) /\ ~ (j < i)
    BY <1>3 DEF Precedes
  <2> QED BY <1>1, <2>1
<1> QED BY <1>2, <1>3 DEF IsInjective

(* Only elements of a sequence precede one another in it.                   *)
LEMMA PrecedesTyped ==
  ASSUME NEW S, NEW s \in Seq(S), NEW b, NEW c, Precedes(s, b, c)
  PROVE  b \in ToSet(s) /\ c \in ToSet(s)
BY DEF Precedes, ToSet

(* In the empty sequence nothing precedes anything.                         *)
LEMMA EmptyOrder == \A b, c : ~ Precedes(<< >>, b, c)
BY DEF Precedes

(* In a concatenation the first sequence comes before the second.           *)
LEMMA ConcatOrder ==
  ASSUME NEW S, NEW s \in Seq(S), NEW t \in Seq(S), NEW b, NEW c
  PROVE  Precedes(s \o t, b, c) <=>
           \/ Precedes(s, b, c) \/ Precedes(t, b, c)
           \/ b \in ToSet(s) /\ c \in ToSet(t)
<1> DEFINE u == s \o t
           m == Len(s)
           n == Len(t)
<1>1. /\ m \in Nat /\ n \in Nat /\ DOMAIN s = 1 .. m /\ DOMAIN t = 1 .. n
      /\ DOMAIN u = 1 .. m + n
      /\ \A i \in 1 .. m : u[i] = s[i]
      /\ \A i \in m + 1 .. m + n : u[i] = t[i - m]
  OBVIOUS
<1> HIDE DEF u, m, n
<1>2. \A i \in 1 .. n : i + m \in m + 1 .. m + n /\ u[i + m] = t[i]
  <2> TAKE i \in 1 .. n
  <2>1. i + m \in m + 1 .. m + n /\ (i + m) - m = i
    BY <1>1
  <2> QED BY <1>1, <2>1
<1>3. ASSUME Precedes(u, b, c)
      PROVE  \/ Precedes(s, b, c) \/ Precedes(t, b, c)
             \/ b \in ToSet(s) /\ c \in ToSet(t)
  <2>1. PICK i \in DOMAIN u, j \in DOMAIN u : i < j /\ u[i] = b /\ u[j] = c
    BY <1>3 DEF Precedes
  <2>2. CASE j <= m
    <3>1. i \in DOMAIN s /\ j \in DOMAIN s /\ s[i] = b /\ s[j] = c
      BY <1>1, <2>1, <2>2
    <3> QED BY <2>1, <3>1 DEF Precedes
  <2>3. CASE i <= m /\ m < j
    <3>1. i \in DOMAIN s /\ s[i] = b /\ j - m \in DOMAIN t /\ t[j - m] = c
      BY <1>1, <2>1, <2>3
    <3> QED BY <3>1 DEF ToSet
  <2>4. CASE m < i
    <3>1. /\ i - m \in DOMAIN t /\ j - m \in DOMAIN t /\ t[i - m] = b /\ t[j - m] = c
          /\ i - m < j - m
      BY <1>1, <2>1, <2>4
    <3> QED BY <3>1 DEF Precedes
  <2> QED BY <1>1, <2>1, <2>2, <2>3, <2>4
<1>4. ASSUME Precedes(s, b, c) PROVE Precedes(u, b, c)
  <2>1. PICK i \in DOMAIN s, j \in DOMAIN s : i < j /\ s[i] = b /\ s[j] = c
    BY <1>4 DEF Precedes
  <2>2. i \in DOMAIN u /\ j \in DOMAIN u /\ u[i] = b /\ u[j] = c
    BY <1>1, <2>1
  <2> QED BY <2>1, <2>2 DEF Precedes
<1>5. ASSUME Precedes(t, b, c) PROVE Precedes(u, b, c)
  <2>1. PICK i \in DOMAIN t, j \in DOMAIN t : i < j /\ t[i] = b /\ t[j] = c
    BY <1>5 DEF Precedes
  <2>2. i + m \in DOMAIN u /\ j + m \in DOMAIN u /\ u[i + m] = b /\ u[j + m] = c
        /\ i + m < j + m
    BY <1>1, <1>2, <2>1
  <2> QED BY <2>2 DEF Precedes
<1>6. ASSUME b \in ToSet(s), c \in ToSet(t) PROVE Precedes(u, b, c)
  <2>1. PICK i \in DOMAIN s, j \in DOMAIN t : s[i] = b /\ t[j] = c
    BY <1>6 DEF ToSet
  <2>2. i \in DOMAIN u /\ j + m \in DOMAIN u /\ u[i] = b /\ u[j + m] = c /\ i < j + m
    BY <1>1, <1>2, <2>1
  <2> QED BY <2>2 DEF Precedes
<1>7. Precedes(u, b, c) <=>
        \/ Precedes(s, b, c) \/ Precedes(t, b, c)
        \/ b \in ToSet(s) /\ c \in ToSet(t)
  BY <1>3, <1>4, <1>5, <1>6
<1> QED BY <1>7 DEF u

(* What is appended comes last.                                             *)
LEMMA AppendOrder ==
  ASSUME NEW S, NEW s \in Seq(S), NEW e \in S, NEW b, NEW c
  PROVE  Precedes(Append(s, e), b, c) <=>
           Precedes(s, b, c) \/ (b \in ToSet(s) /\ c = e)
<1> DEFINE one == <<e>>
<1>1. Append(s, e) = s \o one
  BY AppendIsConcat
<1>2. one \in Seq(S)
  OBVIOUS
<1>3. ~ Precedes(one, b, c) /\ ToSet(one) = {e}
  BY DEF Precedes, ToSet
<1> HIDE DEF one
<1>4. Precedes(s \o one, b, c) <=>
        \/ Precedes(s, b, c) \/ Precedes(one, b, c)
        \/ b \in ToSet(s) /\ c \in ToSet(one)
  BY <1>2, ConcatOrder
<1> QED BY <1>1, <1>3, <1>4

(* The reversed sequence has the same elements in the opposite order.       *)
LEMMA ReverseOrder ==
  ASSUME NEW S, NEW s \in Seq(S)
  PROVE  /\ Reverse(s) \in Seq(S) /\ ToSet(Reverse(s)) = ToSet(s)
         /\ \A b, c : Precedes(Reverse(s), b, c) <=> Precedes(s, c, b)
<1> DEFINE n == Len(s)
           u == Reverse(s)
<1>1. n \in Nat /\ DOMAIN s = 1 .. n /\ \A i \in 1 .. n : s[i] \in S
  OBVIOUS
<1>2. u = [i \in 1 .. n |-> s[(n - i) + 1]]
  BY DEF Reverse
<1> HIDE DEF n, u
<1>3. \A i \in 1 .. n : (n - i) + 1 \in 1 .. n /\ u[i] = s[(n - i) + 1]
                        /\ u[(n - i) + 1] = s[i]
  <2> TAKE i \in 1 .. n
  <2> DEFINE k == (n - i) + 1
  <2>1. k \in 1 .. n /\ (n - k) + 1 = i
    BY <1>1
  <2>2. u[i] = s[k]
    BY <1>2
  <2>3. u[k] = s[(n - k) + 1]
    BY <1>2, <2>1
  <2> QED BY <2>1, <2>2, <2>3
<1>4. u \in Seq(S) /\ DOMAIN u = 1 .. n
  <2>1. u \in [1 .. n -> S]
    BY <1>1, <1>2, <1>3
  <2> QED BY <1>1, <2>1
<1>5. ToSet(u) = ToSet(s)
  BY <1>1, <1>3, <1>4 DEF ToSet
<1>6. ASSUME NEW b, NEW c, Precedes(u, b, c) PROVE Precedes(s, c, b)
  <2>1. PICK i \in 1 .. n, j \in 1 .. n : i < j /\ u[i] = b /\ u[j] = c
    BY <1>4, <1>6 DEF Precedes
  <2>2. /\ (n - i) + 1 \in DOMAIN s /\ (n - j) + 1 \in DOMAIN s
        /\ (n - j) + 1 < (n - i) + 1 /\ s[(n - i) + 1] = b /\ s[(n - j) + 1] = c
    BY <1>1, <1>3, <2>1
  <2> QED BY <2>2 DEF Precedes
<1>7. ASSUME NEW b, NEW c, Precedes(s, c, b) PROVE Precedes(u, b, c)
  <2>1. PICK i \in 1 .. n, j \in 1 .. n : i < j /\ s[i] = c /\ s[j] = b
    BY <1>1, <1>7 DEF Precedes
  <2>2. /\ (n - i) + 1 \in DOMAIN u /\ (n - j) + 1 \in DOMAIN u
        /\ (n - j) + 1 < (n - i) + 1 /\ u[(n - i) + 1] = c /\ u[(n - j) + 1] = b
    BY <1>1, <1>3, <1>4, <2>1
  <2> QED BY <2>2 DEF Precedes
<1>8. /\ u \in Seq(S) /\ ToSet(u) = ToSet(s)
      /\ \A b, c : Precedes(u, b, c) <=> Precedes(s, c, b)
  BY <1>4, <1>5, <1>6, <1>7
<1> QED BY <1>8 DEF u

(* The elements of a sequence that are in a set, in their order.            *)
Kept(s, keep) ==
  FoldLeft(LAMBDA out, e : IF e \in keep THEN Append(out, e) ELSE out, << >>, s)

(* The fold keeps what it should, and keeps it in order.                    *)
LEMMA KeptOrder ==
  ASSUME NEW S, NEW s \in Seq(S), NEW keep
  PROVE  /\ Kept(s, keep) \in Seq(S)
         /\ ToSet(Kept(s, keep)) = ToSet(s) \cap keep
         /\ \A b, c : Precedes(Kept(s, keep), b, c) <=>
                        Precedes(s, b, c) /\ b \in keep /\ c \in keep
<1> DEFINE n == Len(s)
           U == Seq(S)
           base == << >>
           More(out, e) == IF e \in keep THEN Append(out, e) ELSE out
           step == [i \in 1 .. n |-> [out \in U |-> More(out, s[i])]]
           Eq(f) == f = [p \in SUBSET (DOMAIN s) |->
                           IF p = {} THEN << >> ELSE More(f[p \ {Max(p)}], s[Max(p)])]
           iter == CHOOSE f : Eq(f)
           SeenBy(k, b) == \E i \in 1 .. k : s[i] = b
           InOrder(k, b, c) == \E i, j \in 1 .. k : i < j /\ s[i] = b /\ s[j] = c
           Good(k, out) ==
             /\ out \in U
             /\ \A b : b \in ToSet(out) <=> b \in keep /\ SeenBy(k, b)
             /\ \A b, c : Precedes(out, b, c) <=> InOrder(k, b, c) /\ b \in keep /\ c \in keep
<1>1. n \in Nat /\ DOMAIN s = 1 .. n /\ \A i \in 1 .. n : s[i] \in S
  OBVIOUS
<1>2. Kept(s, keep) = iter[DOMAIN s]
  BY DEF Kept, FoldLeft, MapThenFoldSet
<1>3. base \in U /\ ToSet(base) = {} /\ \A b, c : ~ Precedes(base, b, c)
  BY EmptyOrder DEF ToSet
<1>4. \A out \in U, e \in S : More(out, e) \in U
  OBVIOUS
<1> HIDE DEF n
<1>5. Eq(iter)
  <2> HIDE DEF U, base, More
  <2>1. step \in [1 .. n -> [U -> U]]
    BY <1>1, <1>4
  <2> HIDE DEF step
  <2>2. HasRecursion(n, U, base, step)
    BY <1>1, <1>3, <2>1, FoldDefined
  <2>3. PICK h \in [SUBSET (1 .. n) -> U] : Recursion(n, base, step, h)
    BY <2>2 DEF HasRecursion
  <2>4. ASSUME NEW p \in SUBSET (1 .. n)
        PROVE  h[p] = IF p = {} THEN << >> ELSE More(h[p \ {Max(p)}], s[Max(p)])
    <3>1. CASE p = {}
      BY <2>3, <3>1 DEF Recursion, base
    <3>2. CASE p # {}
      <4>1. Max(p) \in 1 .. n
        BY <1>1, <3>2, MaxPlace
      <4>2. p \ {Max(p)} \in SUBSET (1 .. n)
        OBVIOUS
      <4>3. h[p \ {Max(p)}] \in U
        BY <2>3, <4>2
      <4>4. h[p] = step[Max(p)][h[p \ {Max(p)}]]
        BY <2>3, <3>2 DEF Recursion
      <4> QED BY <3>2, <4>1, <4>3, <4>4 DEF step
    <3> QED BY <3>1, <3>2
  <2>5. h = [p \in SUBSET (DOMAIN s) |-> h[p]]
    BY <1>1, <2>3
  <2>6. Eq(h)
    BY <1>1, <2>4, <2>5
  <2> HIDE DEF Eq
  <2> QED BY <2>6
<1> HIDE DEF iter, step
<1>6. Good(0, iter[1 .. 0])
  <2>1. iter[1 .. 0] = base
    <3>1. 1 .. 0 \in SUBSET (DOMAIN s) /\ 1 .. 0 = {}
      OBVIOUS
    <3> QED BY <1>5, <3>1
  <2> HIDE DEF base
  <2> QED BY <1>3, <2>1
<1>7. ASSUME NEW k \in 0 .. n, k < n, NEW out, Good(k, out)
      PROVE  Good(k + 1, More(out, s[k + 1]))
  <2> DEFINE m == k + 1
             e == s[m]
  <2>1. /\ m \in 1 .. n /\ e \in S /\ out \in Seq(S)
        /\ \A i : i \in 1 .. m <=> i \in 1 .. k \/ i = m
        /\ \A i \in 1 .. k : i < m /\ ~ (m < i)
    BY <1>1, <1>7
  <2> HIDE DEF m
  <2>2. \A b : SeenBy(m, b) <=> SeenBy(k, b) \/ b = e
    BY <2>1
  <2>3. \A b, c : InOrder(m, b, c) <=> InOrder(k, b, c) \/ (SeenBy(k, b) /\ c = e)
    <3>1. ~ (m < m)
      BY <2>1
    <3> QED BY <2>1, <3>1
  <2> HIDE DEF SeenBy, InOrder, e
  <2>4. CASE e \in keep
    <3> DEFINE t == Append(out, e)
    <3>1. t \in Seq(S) /\ ToSet(t) = ToSet(out) \cup {e}
      BY <2>1, AppendElements
    <3>2. \A b, c : Precedes(t, b, c) <=> Precedes(out, b, c) \/ (b \in ToSet(out) /\ c = e)
      BY <2>1, AppendOrder
    <3>3. More(out, e) = t
      BY <2>4
    <3> HIDE DEF t, More
    <3>4. Good(m, t)
      BY <1>7, <2>2, <2>3, <2>4, <3>1, <3>2
    <3> QED BY <3>3, <3>4 DEF e, m
  <2>5. CASE e \notin keep
    <3>1. More(out, e) = out
      BY <2>5
    <3>2. Good(m, out)
      BY <1>7, <2>2, <2>3, <2>5
    <3> QED BY <3>1, <3>2 DEF e, m
  <2> QED BY <2>4, <2>5
<1> HIDE DEF Good, More
<1> DEFINE T == {k \in 0 .. n : Good(k, iter[1 .. k])}
<1>8. 0 \in T
  BY <1>1, <1>6
<1>9. ASSUME NEW k \in 0 .. n, k < n, k \in T
      PROVE  k + 1 \in T
  <2> DEFINE m == k + 1
  <2>1. m \in 1 .. n /\ m \in 0 .. n /\ m - 1 = k
    BY <1>1, <1>9
  <2>2. Good(m, More(iter[1 .. k], s[m]))
    BY <1>7, <1>9
  <2> HIDE DEF m
  <2>3. 1 .. m \in SUBSET (1 .. n) /\ 1 .. m # {} /\ Max(1 .. m) = m
        /\ (1 .. m) \ {m} = 1 .. m - 1
    BY <1>1, <2>1, PlacesUpTo
  <2>4. iter[1 .. m] = More(iter[1 .. k], s[m])
    BY <1>1, <1>5, <2>1, <2>3
  <2>5. m \in T
    BY <2>1, <2>2, <2>4
  <2> QED BY <2>5 DEF m
<1> HIDE DEF T
<1>10. \A k \in 0 .. n : k \in T
  BY <1>1, <1>8, <1>9, InductionUpTo
<1>11. n \in T
  BY <1>1, <1>10
<1>12. Good(n, Kept(s, keep))
  BY <1>1, <1>2, <1>11 DEF T
<1>13. /\ \A b : SeenBy(n, b) <=> b \in ToSet(s)
       /\ \A b, c : InOrder(n, b, c) <=> Precedes(s, b, c)
  BY <1>1 DEF ToSet, Precedes
<1> HIDE DEF SeenBy, InOrder
<1> QED BY <1>12, <1>13 DEF Good

(* A sequence is what is taken from its front and what is left.             *)
LEMMA SplitSequence ==
  ASSUME NEW S, NEW s \in Seq(S), NEW n \in 0 .. Len(s)
  PROVE  LET t == SubSeq(s, 1, n)
             u == SubSeq(s, n + 1, Len(s))
         IN  t \in Seq(S) /\ Len(t) = n /\ u \in Seq(S) /\ s = t \o u
<1> DEFINE t == SubSeq(s, 1, n)
           u == SubSeq(s, n + 1, Len(s))
<1>1. Len(s) \in Nat /\ n \in Int /\ n + 1 \in Int /\ \A i \in 1 .. Len(s) : s[i] \in S
  OBVIOUS
<1>2. t \in Seq(S) /\ Len(t) = n
  <2>1. /\ t \in Seq(S) /\ Len(t) = IF 1 <= n THEN n - 1 + 1 ELSE 0
    BY <1>1, SubSeqProperties
  <2> QED BY <1>1, <2>1
<1>3. u \in Seq(S)
  BY <1>1, SubSeqProperties
<1>4. t \o u = SubSeq(s, 1, Len(s))
  <2>1. 1 \in 1 .. Len(s) + 1 /\ n \in 1 - 1 .. Len(s) /\ Len(s) \in n .. Len(s)
    BY <1>1
  <2> QED BY <2>1, ConcatAdjacentSubSeq
<1>5. SubSeq(s, 1, Len(s)) = s
  BY SubSeqFull
<1> QED BY <1>2, <1>3, <1>4, <1>5

(* Distinct elements are as many as their places.                           *)
LEMMA ImageCount ==
  ASSUME NEW S, NEW s \in Seq(S), IsInjective(s), NEW D \in SUBSET (DOMAIN s)
  PROVE  /\ IsFiniteSet({s[i] : i \in D})
         /\ Cardinality({s[i] : i \in D}) = Cardinality(D)
<1> DEFINE T == {s[i] : i \in D}
           f == [i \in D |-> s[i]]
<1>1. IsFiniteSet(D)
  <2>1. DOMAIN s = 1 .. Len(s) /\ Len(s) \in Int /\ 1 \in Int
    OBVIOUS
  <2>2. IsFiniteSet(DOMAIN s)
    BY <2>1, FS_Interval
  <2> QED BY <2>2, FS_Subset
<1>2. f \in [D -> T] /\ \A x, y \in D : f[x] = f[y] => x = y
  BY DEF IsInjective
<1>3. \A y \in T : \E x \in D : f[x] = y
  OBVIOUS
<1> HIDE DEF f, T
<1>4. f \in Bijection(D, T)
  BY <1>2, <1>3 DEF Bijection, Injection, Surjection, IsInjective
<1>5. IsFiniteSet(T) /\ Cardinality(T) = Cardinality(D)
  <2>1. ExistsBijection(D, T)
    BY <1>4 DEF ExistsBijection
  <2> QED BY <1>1, <2>1, FS_Bijection
<1> QED BY <1>5 DEF T

(* A sequence without duplicates has as many elements as places.            *)
LEMMA ElementCount ==
  ASSUME NEW S, NEW s \in Seq(S), IsInjective(s)
  PROVE  IsFiniteSet(ToSet(s)) /\ Cardinality(ToSet(s)) = Len(s)
<1> DEFINE D == DOMAIN s
<1>1. Len(s) \in Nat /\ DOMAIN s = 1 .. Len(s) /\ D \in SUBSET (DOMAIN s)
  OBVIOUS
<1>2. Cardinality(DOMAIN s) = Len(s)
  <2>1. 1 \in Int /\ Len(s) \in Int
    BY <1>1
  <2>2. Cardinality(1 .. Len(s)) = IF 1 > Len(s) THEN 0 ELSE Len(s) - 1 + 1
    BY <2>1, FS_Interval
  <2> QED BY <1>1, <2>2
<1>3. ToSet(s) = {s[i] : i \in DOMAIN s}
  BY DEF ToSet
<1> HIDE DEF D
<1>4. /\ IsFiniteSet({s[i] : i \in D}) /\ Cardinality({s[i] : i \in D}) = Cardinality(D)
  BY <1>1, ImageCount
<1> QED BY <1>2, <1>3, <1>4 DEF D
-----------------------------------------------------------------------------
(* Rows that count something, and what they count together: the tokens of   *)
(* a step.                                                                  *)
Counted(S) == \A x \in S : x.count \in Nat
TotalOf(rows) == FoldLeft(LAMBDA n, row : n + row.count, 0, rows)
Counts(rows) == [i \in 1 .. Len(rows) |-> rows[i].count]

(* Their counts, as a function over their places.                           *)
LEMMA CountsTyped ==
  ASSUME NEW S, Counted(S), NEW rows \in Seq(S)
  PROVE  /\ Len(rows) \in Nat /\ DOMAIN rows = 1 .. Len(rows)
         /\ Counts(rows) \in [1 .. Len(rows) -> Nat]
<1>1. /\ Len(rows) \in Nat /\ DOMAIN rows = 1 .. Len(rows)
      /\ \A i \in 1 .. Len(rows) : rows[i] \in S
  OBVIOUS
<1>2. \A i \in 1 .. Len(rows) : rows[i].count \in Nat
  BY <1>1 DEF Counted
<1> QED BY <1>1, <1>2 DEF Counts

(* The tokens of the rows are counted row by row.                           *)
LEMMA TotalRuns ==
  ASSUME NEW S, Counted(S), NEW rows \in Seq(S)
  PROVE  \E f : RunningSum(Len(rows), Counts(rows), f) /\ TotalOf(rows) = f[Len(rows)]
<1> DEFINE n == Len(rows)
           step == [i \in 1 .. n |-> [v \in Nat |-> v + rows[i].count]]
           Eq(f) == f = [s \in SUBSET (DOMAIN rows) |->
                           IF s = {} THEN 0 ELSE f[s \ {Max(s)}] + rows[Max(s)].count]
           iter == CHOOSE f : Eq(f)
<1>1. n \in Nat /\ DOMAIN rows = 1 .. n /\ \A i \in 1 .. n : rows[i].count \in Nat
  <2>1. n \in Nat /\ DOMAIN rows = 1 .. n /\ \A i \in 1 .. n : rows[i] \in S
    OBVIOUS
  <2> QED BY <2>1 DEF Counted
<1>2. TotalOf(rows) = iter[DOMAIN rows]
  BY DEF TotalOf, FoldLeft, MapThenFoldSet
<1> HIDE DEF n
<1>3. Eq(iter)
  <2>1. step \in [1 .. n -> [Nat -> Nat]]
    BY <1>1
  <2> HIDE DEF step
  <2>2. PICK h \in [SUBSET (1 .. n) -> Nat] :
          \A s \in SUBSET (1 .. n) :
            h[s] = IF s = {} THEN 0 ELSE step[Max(s)][h[s \ {Max(s)}]]
    <3> DEFINE U == Nat
               base == 0
    <3>1. n \in Nat /\ base \in U /\ step \in [1 .. n -> [U -> U]]
      BY <1>1, <2>1
    <3> HIDE DEF U, base
    <3>2. HasRecursion(n, U, base, step)
      BY <3>1, FoldDefined
    <3> QED BY <3>2 DEF U, base, HasRecursion, Recursion
  <2>3. ASSUME NEW s \in SUBSET (1 .. n)
        PROVE  h[s] = IF s = {} THEN 0 ELSE h[s \ {Max(s)}] + rows[Max(s)].count
    <3>1. CASE s = {}
      BY <2>2, <3>1
    <3>2. CASE s # {}
      <4>1. Max(s) \in 1 .. n
        BY <1>1, <3>2, MaxPlace
      <4>2. s \ {Max(s)} \in SUBSET (1 .. n)
        OBVIOUS
      <4>3. h[s \ {Max(s)}] \in Nat
        BY <2>2, <4>2
      <4>4. h[s] = step[Max(s)][h[s \ {Max(s)}]]
        BY <2>2, <3>2
      <4> QED BY <3>2, <4>1, <4>3, <4>4 DEF step
    <3> QED BY <3>1, <3>2
  <2>4. Eq(h)
    BY <1>1, <2>2, <2>3
  <2> QED BY <2>4
<1> HIDE DEF iter
<1>4. iter = [s \in SUBSET (DOMAIN rows) |->
                IF s = {} THEN 0 ELSE iter[s \ {Max(s)}] + rows[Max(s)].count]
  BY <1>3
<1>5. iter[1 .. 0] = 0
  BY <1>4
<1>6. ASSUME NEW k \in 1 .. n
      PROVE  iter[1 .. k] = iter[1 .. k - 1] + rows[k].count
  <2>1. 1 .. k \in SUBSET (DOMAIN rows) /\ 1 .. k # {} /\ Max(1 .. k) = k
        /\ (1 .. k) \ {k} = 1 .. k - 1
    BY <1>1, PlacesUpTo
  <2> QED BY <1>4, <2>1
<1> DEFINE T == {k \in 0 .. n : iter[1 .. k] \in Nat}
           f == [k \in 0 .. n |-> iter[1 .. k]]
<1>7. \A k \in 0 .. n : k \in T
  <2>1. 0 \in T
    BY <1>1, <1>5
  <2>2. ASSUME NEW k \in 0 .. n, k < n, k \in T
        PROVE  k + 1 \in T
    <3>1. k + 1 \in 1 .. n /\ (k + 1) - 1 = k /\ k + 1 \in 0 .. n
      BY <1>1, <2>2
    <3>2. iter[1 .. k + 1] = iter[1 .. (k + 1) - 1] + rows[k + 1].count
      BY <1>6, <3>1
    <3>3. iter[1 .. k] \in Nat /\ rows[k + 1].count \in Nat
      BY <1>1, <2>2, <3>1
    <3> QED BY <3>1, <3>2, <3>3
  <2> HIDE DEF T
  <2> QED BY <1>1, <2>1, <2>2, InductionUpTo
<1>8. f \in [0 .. n -> Nat]
  BY <1>7
<1>9. \A k \in 1 .. n : f[k] = f[k - 1] + Counts(rows)[k]
  BY <1>1, <1>6 DEF Counts, n
<1>10. f[0] = 0 /\ TotalOf(rows) = f[n]
  BY <1>1, <1>2, <1>5
<1> HIDE DEF f
<1>11. RunningSum(n, Counts(rows), f)
  BY <1>8, <1>9, <1>10 DEF RunningSum
<1> QED BY <1>10, <1>11 DEF n

(* A step without rows takes no tokens.                                     *)
LEMMA TotalOfNone == TotalOf(<< >>) = 0
<1> DEFINE none == << >>
           S == {}
<1>1. Counted(S) /\ none \in Seq(S) /\ Len(none) = 0
  BY DEF Counted
<1> HIDE DEF none, S
<1>2. PICK f : RunningSum(Len(none), Counts(none), f) /\ TotalOf(none) = f[Len(none)]
  BY <1>1, TotalRuns
<1> QED BY <1>1, <1>2 DEF RunningSum, none

(* Any running sum of the counts ends with their sum.                       *)
LEMMA TotalIs ==
  ASSUME NEW S, Counted(S), NEW rows \in Seq(S), NEW g, RunningSum(Len(rows), Counts(rows), g)
  PROVE  TotalOf(rows) = g[Len(rows)] /\ TotalOf(rows) \in Nat
<1>1. Len(rows) \in Nat /\ Counts(rows) \in [1 .. Len(rows) -> Nat]
  BY CountsTyped
<1>2. PICK n \in Nat : n = Len(rows)
  BY <1>1
<1>3. PICK f : RunningSum(n, Counts(rows), f) /\ TotalOf(rows) = f[n]
  BY <1>2, TotalRuns
<1> DEFINE same == [k \in 1 .. n |-> k]
<1>4. same \in [1 .. n -> 1 .. n] /\ IsInjective(same)
  BY DEF IsInjective
<1>5. Reordered(n, Counts(rows), same) = Counts(rows)
  BY <1>1, <1>2 DEF Reordered
<1> HIDE DEF same
<1>6. RunningSum(n, Reordered(n, Counts(rows), same), g)
  BY <1>2, <1>5
<1> DEFINE c == Counts(rows)
<1>7. c \in [1 .. n -> Nat] /\ f[n] \in Nat
  BY <1>1, <1>2, <1>3 DEF RunningSum
<1> HIDE DEF c
<1>8. \A u, v : RunningSum(n, c, u) /\ RunningSum(n, Reordered(n, c, same), v)
                   => u[n] = v[n]
  BY <1>4, <1>7, SumsAreOrderFree
<1>9. f[n] = g[n]
  BY <1>3, <1>6, <1>8 DEF c
<1> QED BY <1>2, <1>3, <1>7, <1>9

(* A row that comes adds its tokens to the step's.                          *)
LEMMA TotalAppended ==
  ASSUME NEW S, Counted(S), NEW rows \in Seq(S), NEW row \in S
  PROVE  TotalOf(rows) \in Nat /\ TotalOf(Append(rows, row)) = TotalOf(rows) + row.count
<1> DEFINE n == Len(rows)
           longer == Append(rows, row)
<1>1. /\ longer \in Seq(S) /\ Len(longer) = n + 1 /\ n \in Nat
      /\ \A i \in 1 .. n : longer[i] = rows[i]
      /\ longer[n + 1] = row
  BY AppendProperties
<1> HIDE DEF longer
<1>2. PICK g : RunningSum(n + 1, Counts(longer), g) /\ TotalOf(longer) = g[n + 1]
  BY <1>1, TotalRuns
<1> DEFINE f == [k \in 0 .. n |-> g[k]]
<1>3. /\ \A k \in 1 .. n : Counts(longer)[k] = Counts(rows)[k]
      /\ Counts(longer)[n + 1] = row.count
  BY <1>1 DEF Counts
<1>4. RunningSum(n, Counts(rows), f)
  <2>1. g \in [0 .. n + 1 -> Nat] /\ g[0] = 0
    BY <1>2 DEF RunningSum
  <2>2. f \in [0 .. n -> Nat] /\ f[0] = 0
    BY <1>1, <2>1
  <2>3. ASSUME NEW k \in 1 .. n PROVE f[k] = f[k - 1] + Counts(rows)[k]
    <3>1. k \in 1 .. n + 1 /\ k \in 0 .. n /\ k - 1 \in 0 .. n
      BY <1>1
    <3>2. g[k] = g[k - 1] + Counts(longer)[k]
      BY <1>1, <1>2, <3>1, RunningStep
    <3> QED BY <1>3, <3>1, <3>2
  <2> HIDE DEF f
  <2> QED BY <2>2, <2>3 DEF RunningSum
<1>5. TotalOf(rows) = f[n] /\ TotalOf(rows) \in Nat
  BY <1>4, TotalIs
<1>6. g[n + 1] = g[n] + row.count
  <2>1. n + 1 \in Nat /\ n + 1 \in 1 .. n + 1 /\ (n + 1) - 1 = n
    BY <1>1
  <2>2. g[n + 1] = g[(n + 1) - 1] + Counts(longer)[n + 1]
    BY <1>2, <2>1, RunningStep
  <2> QED BY <1>3, <2>1, <2>2
<1>7. f[n] = g[n]
  BY <1>1
<1> QED BY <1>2, <1>5, <1>6, <1>7 DEF longer

Permuted(rows, p) == [k \in 1 .. Len(rows) |-> rows[p[k]]]

(* The order of the rows does not change their tokens.                      *)
LEMMA TotalReordered ==
  ASSUME NEW S, Counted(S), NEW rows \in Seq(S),
         NEW p \in [1 .. Len(rows) -> 1 .. Len(rows)], IsInjective(p)
  PROVE  /\ Permuted(rows, p) \in Seq(S)
         /\ TotalOf(Permuted(rows, p)) = TotalOf(rows)
<1>1. /\ Len(rows) \in Nat /\ \A i \in 1 .. Len(rows) : rows[i] \in S
      /\ Counts(rows) \in [1 .. Len(rows) -> Nat]
  BY CountsTyped
<1>2. PICK n \in Nat : n = Len(rows)
  BY <1>1
<1> DEFINE t == [k \in 1 .. n |-> rows[p[k]]]
<1>3. t \in Seq(S) /\ Len(t) = n
  <2>1. t \in [1 .. n -> S]
    BY <1>1, <1>2
  <2> HIDE DEF t
  <2> QED BY <2>1
<1>4. Counts(t) = Reordered(n, Counts(rows), p)
  BY <1>1, <1>2, <1>3 DEF Counts, Reordered
<1> HIDE DEF t
<1>5. PICK f : RunningSum(n, Counts(rows), f) /\ TotalOf(rows) = f[n]
  BY <1>2, TotalRuns
<1>6. PICK g : RunningSum(n, Counts(t), g) /\ TotalOf(t) = g[n]
  BY <1>3, TotalRuns
<1>7. RunningSum(n, Reordered(n, Counts(rows), p), g)
  BY <1>4, <1>6
<1> DEFINE c == Counts(rows)
<1>8. p \in [1 .. n -> 1 .. n] /\ c \in [1 .. n -> Nat]
  BY <1>1, <1>2
<1> HIDE DEF c
<1>9. \A u, v : RunningSum(n, c, u) /\ RunningSum(n, Reordered(n, c, p), v)
                   => u[n] = v[n]
  BY <1>8, SumsAreOrderFree
<1>10. f[n] = g[n]
  BY <1>5, <1>7, <1>9 DEF c
<1> QED BY <1>2, <1>3, <1>5, <1>6, <1>10 DEF t, Permuted

(* What precedes a row, and the row, count no more than all rows do.        *)
LEMMA TotalBefore ==
  ASSUME NEW S, Counted(S), NEW rows \in Seq(S), NEW i \in 1 .. Len(rows)
  PROVE  /\ TotalOf(SubSeq(rows, 1, i - 1)) \in Nat /\ TotalOf(rows) \in Nat
         /\ TotalOf(SubSeq(rows, 1, i - 1)) + rows[i].count <= TotalOf(rows)
<1>1. /\ Len(rows) \in Nat /\ Counts(rows) \in [1 .. Len(rows) -> Nat]
      /\ \A k \in 1 .. Len(rows) : rows[k] \in S
  BY CountsTyped
<1>2. PICK n \in Nat : n = Len(rows)
  BY <1>1
<1>3. PICK f : RunningSum(n, Counts(rows), f) /\ TotalOf(rows) = f[n]
  BY <1>2, TotalRuns
<1> DEFINE part == SubSeq(rows, 1, i - 1)
           g == [k \in 0 .. i - 1 |-> f[k]]
<1>4. f \in [0 .. n -> Nat] /\ f[0] = 0 /\ i \in 1 .. n /\ i - 1 \in Nat
  BY <1>2, <1>3 DEF RunningSum
<1>5. part \in Seq(S) /\ Len(part) = i - 1 /\ \A k \in 1 .. i - 1 : part[k] = rows[k]
  BY <1>1, <1>2, <1>4
<1> HIDE DEF part
<1>6. RunningSum(i - 1, Counts(part), g)
  <2>1. g \in [0 .. i - 1 -> Nat] /\ g[0] = 0
    BY <1>4
  <2>2. ASSUME NEW k \in 1 .. i - 1 PROVE g[k] = g[k - 1] + Counts(part)[k]
    <3>1. k \in 1 .. n /\ k \in 0 .. i - 1 /\ k - 1 \in 0 .. i - 1
      BY <1>4
    <3>2. f[k] = f[k - 1] + Counts(rows)[k]
      BY <1>2, <1>3, <3>1, RunningStep
    <3>3. Counts(part)[k] = Counts(rows)[k]
      BY <1>2, <1>5, <3>1 DEF Counts
    <3> QED BY <3>1, <3>2, <3>3
  <2> HIDE DEF g
  <2> QED BY <2>1, <2>2 DEF RunningSum
<1>7. TotalOf(part) = f[i - 1]
  <2>1. TotalOf(part) = g[i - 1]
    BY <1>5, <1>6, TotalIs
  <2> QED BY <1>4, <2>1
<1>8. f[i] = f[i - 1] + rows[i].count
  <2>1. f[i] = f[i - 1] + Counts(rows)[i]
    BY <1>2, <1>3, <1>4, RunningStep
  <2> QED BY <1>2, <1>4, <2>1 DEF Counts
<1>9. \A k \in i .. n : f[i] <= f[k]
  <2> DEFINE T == {k \in 0 .. n : k >= i => f[i] <= f[k]}
  <2>1. 0 \in T
    BY <1>4
  <2>2. ASSUME NEW k \in 0 .. n, k < n, k \in T PROVE k + 1 \in T
    <3>1. k + 1 \in 1 .. n /\ k + 1 \in 0 .. n /\ (k + 1) - 1 = k /\ k \in Nat
      BY <2>2
    <3>2. f[k + 1] = f[(k + 1) - 1] + Counts(rows)[k + 1]
      BY <1>2, <1>3, <3>1, RunningStep
    <3>3. f[k] \in Nat /\ f[k + 1] \in Nat /\ f[i] \in Nat /\ Counts(rows)[k + 1] \in Nat
      BY <1>1, <1>2, <1>4, <3>1
    <3> QED BY <1>4, <2>2, <3>1, <3>2, <3>3
  <2> HIDE DEF T
  <2>3. \A k \in 0 .. n : k \in T
    BY <2>1, <2>2, InductionUpTo
  <2> QED BY <1>4, <2>3 DEF T
<1>10. f[i] <= f[n] /\ f[i - 1] \in Nat /\ f[n] \in Nat
  BY <1>4, <1>9
<1> QED BY <1>3, <1>7, <1>8, <1>10 DEF part

(* Rows in the order of their counts, those that count the same as they     *)
(* come: the order of the worker's batch.                                   *)
ByCount(rows) ==
  LET Rank(i) == Cardinality({j \in DOMAIN rows :
                    \/ rows[j].count < rows[i].count
                    \/ rows[j].count = rows[i].count /\ j <= i})
  IN  [n \in DOMAIN rows |-> rows[CHOOSE i \in DOMAIN rows : Rank(i) = n]]

IsPermutation(n, p) == p \in [1 .. n -> 1 .. n] /\ IsInjective(p)

(* That order is a permutation of the rows.                                 *)
LEMMA ByCountPermutes ==
  ASSUME NEW S, Counted(S), NEW rows \in Seq(S)
  PROVE  \E p : IsPermutation(Len(rows), p) /\ ByCount(rows) = Permuted(rows, p)
<1> DEFINE n == Len(rows)
           D == DOMAIN rows
           Ahead(i) == {j \in D : \/ rows[j].count < rows[i].count
                                  \/ rows[j].count = rows[i].count /\ j <= i}
           rank == [i \in D |-> Cardinality(Ahead(i))]
           p == [k \in D |-> CHOOSE i \in D : Cardinality(Ahead(i)) = k]
<1>1. n \in Nat /\ D = 1 .. n /\ \A i \in D : rows[i].count \in Nat
  <2>1. n \in Nat /\ D = 1 .. n /\ \A i \in D : rows[i] \in S
    OBVIOUS
  <2> QED BY <2>1 DEF Counted
<1>2. IsFiniteSet(D) /\ Cardinality(D) = n
  BY <1>1, FS_Interval
<1>3. ASSUME NEW i \in D
      PROVE  /\ i \in Ahead(i) /\ Ahead(i) \in SUBSET D
             /\ IsFiniteSet(Ahead(i)) /\ rank[i] \in D
  <2>1. i \in Ahead(i) /\ Ahead(i) \in SUBSET D
    BY <1>1
  <2> HIDE DEF Ahead
  <2>2. IsFiniteSet(Ahead(i)) /\ Cardinality(Ahead(i)) <= n
    BY <1>2, <2>1, FS_Subset
  <2>3. Cardinality(Ahead(i)) \in Nat
    BY <2>2, FS_CardinalityType
  <2>4. Cardinality(Ahead(i)) # 0
    BY <2>1, <2>2, FS_EmptySet
  <2> QED BY <1>1, <2>1, <2>2, <2>3, <2>4
<1>4. ASSUME NEW i \in D, NEW j \in D, i # j, rank[i] = rank[j]
      PROVE  FALSE
  <2>1. Ahead(i) \subseteq Ahead(j) \/ Ahead(j) \subseteq Ahead(i)
    <3>1. \A k \in D : rows[k].count \in Nat /\ k \in Nat
      BY <1>1
    <3> QED BY <3>1
  <2>2. ~ (i \in Ahead(j) /\ j \in Ahead(i))
    <3>1. rows[i].count \in Nat /\ rows[j].count \in Nat /\ i \in Nat /\ j \in Nat
      BY <1>1
    <3> QED BY <1>4, <3>1
  <2>3. IsFiniteSet(Ahead(i)) /\ IsFiniteSet(Ahead(j)) /\ i \in Ahead(i) /\ j \in Ahead(j)
    BY <1>3
  <2>4. Cardinality(Ahead(i)) = Cardinality(Ahead(j))
    BY <1>4
  <2> HIDE DEF Ahead
  <2>5. Ahead(i) = Ahead(j)
    BY <2>1, <2>3, <2>4, FS_Subset
  <2> QED BY <2>2, <2>3, <2>5
<1> HIDE DEF Ahead
<1>5. rank \in [D -> D] /\ IsInjective(rank)
  BY <1>3, <1>4 DEF IsInjective
<1>6. \A k \in D : \E i \in D : rank[i] = k
  <2> HIDE DEF rank
  <2>1. PICK m \in Nat : m = n
    BY <1>1
  <2>2. rank \in [1 .. m -> 1 .. m]
    BY <1>1, <1>5, <2>1
  <2>3. \A k \in 1 .. m : \E i \in 1 .. m : rank[i] = k
    BY <1>5, <2>2, InjectionReachesAll
  <2> QED BY <1>1, <2>1, <2>3
<1>7. p \in [D -> D] /\ \A k \in D : rank[p[k]] = k
  <2>1. \A k \in D : \E i \in D : Cardinality(Ahead(i)) = k
    BY <1>6
  <2>2. \A k \in D : p[k] \in D /\ Cardinality(Ahead(p[k])) = k
    BY <2>1
  <2> HIDE DEF p
  <2>3. \A k \in D : p[k] \in D /\ rank[p[k]] = k
    BY <2>2
  <2>4. DOMAIN p = D /\ p = [k \in D |-> p[k]]
    BY DEF p
  <2> HIDE DEF rank
  <2> QED BY <2>3, <2>4
<1>8. IsInjective(p)
  <2> HIDE DEF p, rank
  <2> QED BY <1>7 DEF IsInjective
<1>9. ByCount(rows) = [k \in D |-> rows[p[k]]]
  <2>1. ByCount(rows) =
          [k \in D |-> rows[CHOOSE i \in D : Cardinality(Ahead(i)) = k]]
    BY DEF ByCount, Ahead
  <2>2. \A k \in D : p[k] = CHOOSE i \in D : Cardinality(Ahead(i)) = k
    OBVIOUS
  <2> HIDE DEF p
  <2> QED BY <2>1, <2>2
<1> HIDE DEF p, rank
<1>10. ByCount(rows) = Permuted(rows, p)
  BY <1>1, <1>9 DEF Permuted
<1>11. p \in [1 .. Len(rows) -> 1 .. Len(rows)]
  BY <1>1, <1>7
<1> QED BY <1>8, <1>10, <1>11 DEF IsPermutation
=============================================================================
