------------------------- MODULE SourceIndexProofs -------------------------
(***************************************************************************)
(* The source index stays consistent, and names the latest source of each  *)
(* session, for any number of sources, sessions and requests, under        *)
(* re-indexing, eviction and reset.  Only Finish and Reset touch it;       *)
(* Finish moves the entry to the end of the order and then drops the first *)
(* if there are too many.                                                  *)
(*                                                                         *)
(* And what is copied from a source is what the target calls for: entries, *)
(* tables and pins keep their hashes (PoolInv), a plan maps windows that   *)
(* spell the target (PlanFits), and pinned blocks are not filled again.    *)
(***************************************************************************)
EXTENDS SourceIndex, QueueLemmas, TLAPS

(* The part of the type invariant that the argument rests on.              *)
IndexTypes ==
  /\ order \in Seq(RequestId)
  /\ latest \in [Session -> RequestId \cup {NoSource}]

(* The order and the entries, and then the session names.                  *)
Ordered == IsInjective(order) /\ ToSet(order) = DOMAIN index

NamesAreLive ==
  \A s \in Session : latest[s] # NoSource =>
    latest[s] \in DOMAIN index /\ index[latest[s]].session = s

IndexInv == IndexTypes /\ Ordered /\ NamesAreLive

-----------------------------------------------------------------------------
(* MovedToEnd: the indexed ids and i, each once, i last.                   *)
LEMMA MovedElements ==
  ASSUME IndexTypes, Ordered, NEW i \in RequestId
  PROVE  /\ MovedToEnd(i) \in Seq(RequestId)
         /\ IsInjective(MovedToEnd(i))
         /\ ToSet(MovedToEnd(i)) = DOMAIN index \cup {i}
<1> DEFINE rest == RemoveFirst(order, i)
<1>1. order \in Seq(RequestId) /\ IsInjective(order)
  BY DEF IndexTypes, Ordered
<1>2. /\ rest \in Seq(RequestId) /\ IsInjective(rest)
      /\ ToSet(rest) = ToSet(order) \ {i}
  BY <1>1, RemoveFirstProperties
<1> HIDE DEF rest
<1>3. /\ Append(rest, i) \in Seq(RequestId)
      /\ ToSet(Append(rest, i)) = ToSet(rest) \cup {i}
      /\ i \notin ToSet(rest) => IsInjective(Append(rest, i))
  BY <1>2, AppendElements
<1>4. MovedToEnd(i) = Append(rest, i)
  BY DEF MovedToEnd, rest
<1> QED BY <1>2, <1>3, <1>4 DEF Ordered

(* The first of several distinct ids, the last of which is i, is not i.    *)
LEMMA EvictedIsAnother ==
  ASSUME IndexTypes, Ordered, NEW i \in RequestId, TooMany(MovedToEnd(i))
  PROVE  /\ MovedToEnd(i) # << >>
         /\ Head(MovedToEnd(i)) \in DOMAIN index /\ Head(MovedToEnd(i)) # i
<1> DEFINE m == MovedToEnd(i)
<1>1. m \in Seq(RequestId) /\ IsInjective(m) /\ ToSet(m) = DOMAIN index \cup {i}
  BY MovedElements
<1>2. MaxSources \in Nat \ {0} /\ Len(m) > MaxSources
  BY SourceAssumption DEF TooMany
<1>3. m[Len(m)] = i
  <2>1. order \in Seq(RequestId) /\ IsInjective(order)
    BY DEF IndexTypes, Ordered
  <2>2. RemoveFirst(order, i) \in Seq(RequestId)
    BY <2>1, RemoveFirstProperties
  <2> QED BY <2>2 DEF MovedToEnd
<1> HIDE DEF m
<1>4. Len(m) \in Nat /\ Len(m) > 1 /\ DOMAIN m = 1 .. Len(m) /\ Head(m) = m[1]
  BY <1>1, <1>2
<1>5. m[1] # m[Len(m)]
  BY <1>1, <1>4 DEF IsInjective
<1>6. m[1] \in ToSet(m)
  BY <1>4 DEF ToSet
<1>7. m # << >>
  BY <1>4
<1> QED BY <1>1, <1>3, <1>4, <1>5, <1>6, <1>7 DEF m

-----------------------------------------------------------------------------
(* index() keeps the invariant.                                            *)
LEMMA IndexSourceKeepsInv ==
  ASSUME IndexInv, NEW r \in Request, IndexSource(r)
  PROVE  IndexInv'
<1> DEFINE id == Id[r]
           m == MovedToEnd(id)
           h == Head(m)
           named == [s \in Session |-> IF s = SessionOf[r] THEN id
                                       ELSE WithoutSessionOf(latest, id)[s]]
<1>1. id \in RequestId /\ NoSource \notin RequestId
  BY SourceAssumption
<1>2. /\ order \in Seq(RequestId) /\ latest \in [Session -> RequestId \cup {NoSource}]
      /\ IndexTypes /\ Ordered /\ NamesAreLive
  BY DEF IndexInv, IndexTypes
<1>3. m \in Seq(RequestId) /\ IsInjective(m) /\ ToSet(m) = DOMAIN index \cup {id}
  BY <1>1, <1>2, MovedElements
<1>4. Source(r).session = SessionOf[r]
  BY DEF Source
(* What a session is called before the eviction.                           *)
<1>5. /\ named \in [Session -> RequestId \cup {NoSource}]
      /\ \A s \in Session : named[s] # NoSource =>
           \/ named[s] = id /\ s = SessionOf[r]
           \/ /\ named[s] # id /\ named[s] = latest[s]
              /\ named[s] \in DOMAIN index /\ index[named[s]].session = s
  <2>1. ASSUME NEW s \in Session
        PROVE  named[s] \in {id, latest[s], NoSource}
    BY DEF WithoutSessionOf
  <2>2. ASSUME NEW s \in Session, s # SessionOf[r], named[s] # NoSource
        PROVE  /\ named[s] # id /\ named[s] = latest[s]
               /\ named[s] \in DOMAIN index /\ index[named[s]].session = s
    <3>1. /\ named[s] = latest[s]
          /\ ~ (id \in DOMAIN index /\ index[id].session = s /\ latest[s] = id)
      BY <2>2 DEF WithoutSessionOf
    <3>2. latest[s] \in DOMAIN index /\ index[latest[s]].session = s
      BY <1>2, <2>2, <3>1 DEF NamesAreLive
    <3> QED BY <3>1, <3>2
  <2>3. \A s \in Session : s = SessionOf[r] => named[s] = id
    OBVIOUS
  <2>4. \A s \in Session : latest[s] \in RequestId \cup {NoSource}
    BY <1>2
  <2>5. named \in [Session -> RequestId \cup {NoSource}]
    <3>1. \A s \in Session : named[s] \in RequestId \cup {NoSource}
      BY <1>1, <2>1, <2>4
    <3>2. named = [s \in Session |-> named[s]]
      OBVIOUS
    <3> HIDE DEF named
    <3> QED BY <3>1, <3>2
  <2> HIDE DEF named
  <2> QED BY <2>2, <2>3, <2>5
<1>6. CASE ~ TooMany(m)
  <2>1. /\ order' = m /\ latest' = named
        /\ index' = [i \in DOMAIN index \cup {id} |-> IF i = id THEN Source(r) ELSE index[i]]
    BY <1>6 DEF IndexSource
  <2> HIDE DEF m, named, id
  <2>2. Ordered'
    BY <1>3, <2>1 DEF Ordered
  <2>3. NamesAreLive'
    <3>1. /\ DOMAIN index' = DOMAIN index \cup {id} /\ index'[id] = Source(r)
          /\ \A i \in DOMAIN index : i # id => index'[i] = index[i]
      BY <2>1
    <3>2. ASSUME NEW s \in Session, named[s] # NoSource
          PROVE  named[s] \in DOMAIN index' /\ index'[named[s]].session = s
      BY <1>4, <1>5, <3>1, <3>2
    <3> QED BY <2>1, <3>2 DEF NamesAreLive
  <2>4. IndexTypes'
    BY <1>3, <1>5, <2>1 DEF IndexTypes
  <2> QED BY <2>2, <2>3, <2>4 DEF IndexInv
<1>7. CASE TooMany(m)
  <2>1. /\ order' = Tail(m) /\ latest' = WithoutSessionOf(named, h)
        /\ index' = [i \in (DOMAIN index \cup {id}) \ {h} |->
                       IF i = id THEN Source(r) ELSE index[i]]
    BY <1>7 DEF IndexSource
  <2>2. m # << >> /\ h \in DOMAIN index /\ h # id
    BY <1>1, <1>2, <1>7, EvictedIsAnother
  <2>3. \A s \in Session :
          latest'[s] = IF h \in DOMAIN index /\ index[h].session = s /\ named[s] = h
                       THEN NoSource ELSE named[s]
    BY <2>1 DEF WithoutSessionOf
  <2>4. latest' = [s \in Session |-> latest'[s]]
    BY <2>1 DEF WithoutSessionOf
  <2> HIDE DEF named, id
  <2>5. Ordered' /\ order' \in Seq(RequestId)
    <3> HIDE DEF m
    <3>1. Tail(m) \in Seq(RequestId) /\ IsInjective(Tail(m)) /\ ToSet(Tail(m)) = ToSet(m) \ {h}
      BY <1>3, <2>2, TailElements
    <3> HIDE DEF h
    <3> QED BY <1>3, <2>1, <3>1 DEF Ordered
  <2> HIDE DEF h, m
  <2>6. ASSUME NEW s \in Session, latest'[s] # NoSource
        PROVE  latest'[s] = named[s] /\ named[s] # h
    BY <1>4, <1>5, <2>2, <2>3, <2>6
  <2>7. NamesAreLive'
    <3>1. /\ DOMAIN index' = (DOMAIN index \cup {id}) \ {h} /\ index'[id] = Source(r)
          /\ \A i \in DOMAIN index : i # id /\ i # h => index'[i] = index[i]
      BY <2>1, <2>2
    <3>2. ASSUME NEW s \in Session, latest'[s] # NoSource
          PROVE  latest'[s] \in DOMAIN index' /\ index'[latest'[s]].session = s
      <4>1. latest'[s] = named[s] /\ named[s] # h /\ named[s] # NoSource
        BY <2>6, <3>2
      <4>2. CASE named[s] = id /\ s = SessionOf[r]
        BY <1>4, <2>2, <3>1, <4>1, <4>2
      <4>3. CASE named[s] # id /\ named[s] \in DOMAIN index /\ index[named[s]].session = s
        BY <3>1, <4>1, <4>3
      <4> QED BY <1>5, <4>1, <4>2, <4>3
    <3> QED BY <3>2 DEF NamesAreLive
  <2>8. IndexTypes'
    <3>1. \A s \in Session : latest'[s] \in RequestId \cup {NoSource}
      BY <1>5, <2>3
    <3> QED BY <2>4, <2>5, <3>1 DEF IndexTypes
  <2> QED BY <2>5, <2>7, <2>8 DEF IndexInv
<1> QED BY <1>6, <1>7

-----------------------------------------------------------------------------
(* An empty index is consistent.                                           *)
LEMMA IndexInvInit == Init => IndexInv
<1> SUFFICES ASSUME Init PROVE IndexInv
  OBVIOUS
<1>1. order = << >> /\ index = << >> /\ latest = [s \in Session |-> NoSource]
  BY DEF Init
<1>2. IsInjective(order) /\ ToSet(order) = {} /\ DOMAIN index = {}
  BY <1>1 DEF IsInjective, ToSet
<1> QED BY <1>1, <1>2 DEF IndexInv, IndexTypes, Ordered, NamesAreLive

(* Every step keeps it consistent: only Finish and Reset touch it.         *)
LEMMA IndexInvNext == IndexInv /\ [Next]_vars => IndexInv'
<1> SUFFICES ASSUME IndexInv, [Next]_vars PROVE IndexInv'
  OBVIOUS
<1>1. ASSUME sources' = sources PROVE IndexInv'
  BY <1>1 DEF IndexInv, IndexTypes, Ordered, NamesAreLive, sources
<1>2. ASSUME NEW r \in Request, Finish(r) PROVE IndexInv'
  BY <1>2, IndexSourceKeepsInv DEF Finish
<1>3. CASE Reset
  <2>1. order' = << >> /\ index' = << >> /\ latest' = [s \in Session |-> NoSource]
    BY <1>3 DEF Reset
  <2>2. IsInjective(order') /\ ToSet(order') = {} /\ DOMAIN index' = {}
    BY <2>1 DEF IsInjective, ToSet
  <2> QED BY <2>1, <2>2 DEF IndexInv, IndexTypes, Ordered, NamesAreLive
<1>4. ASSUME NEW r \in Request,
             Admit(r) \/ Refuse(r) \/ LoadDone(r) \/ AdmitLoaded(r) \/ Preempt(r)
      PROVE  sources' = sources
  BY <1>4 DEF Admit, Refuse, LoadDone, AdmitLoaded, Preempt, sources
<1>5. ASSUME NEW l \in leases, StepDone(l) PROVE sources' = sources
  BY <1>5 DEF StepDone, sources
<1>6. CASE UNCHANGED vars
  BY <1>1, <1>6 DEF vars
<1> QED BY <1>1, <1>2, <1>3, <1>4, <1>5, <1>6 DEF Next

(* The entries, their order and the session names agree in every state:    *)
(* index(), its eviction and clear() leave no name without its entry.      *)
THEOREM IndexIsConsistentInvariant == Spec => []IndexIsConsistent
<1>1. IndexInv => IndexIsConsistent
  BY DEF IndexInv, Ordered, NamesAreLive, IndexIsConsistent
<1> QED BY <1>1, IndexInvInit, IndexInvNext, PTL DEF Spec

-----------------------------------------------------------------------------
(* The latest source of each session.                                      *)

(* Every entry was left by a request.                                      *)
EntriesHaveRequests ==
  \A i \in DOMAIN index : \E r \in Request : Id[r] = i /\ SessionOf[r] = index[i].session

(* LatestOfEachSession, of an order, entries and names given.              *)
Follows(ord, entries, names) ==
  \A s \in Session, j \in DOMAIN ord : entries[ord[j]].session = s =>
    IF names[s] = NoSource
    THEN \E k \in j + 1 .. Len(ord) :
           /\ entries[ord[k]].session # s
           /\ \E r \in Request : Id[r] = ord[k] /\ SessionOf[r] = s
    ELSE \E k \in j .. Len(ord) : ord[k] = names[s]

LatestInv == IndexInv /\ EntriesHaveRequests /\ LatestOfEachSession

(* What index() has made of the entries and names before it evicts.        *)
Entries(r) ==
  [i \in DOMAIN index \cup {Id[r]} |-> IF i = Id[r] THEN Source(r) ELSE index[i]]

Names(r) ==
  [s \in Session |-> IF s = SessionOf[r] THEN Id[r] ELSE WithoutSessionOf(latest, Id[r])[s]]

(* Moving the entry of r to the end and naming it keeps the latest source  *)
(* of every session: the order of the other entries is the same, and a     *)
(* session that loses its name loses it to the entry now at the end.       *)
LEMMA MoveKeepsLatest ==
  ASSUME LatestInv, NEW r \in Request
  PROVE  Follows(MovedToEnd(Id[r]), Entries(r), Names(r))
<1> DEFINE id == Id[r]
           m  == MovedToEnd(id)
<1>1. id \in RequestId /\ NoSource \notin RequestId
  BY SourceAssumption
<1>2. /\ order \in Seq(RequestId) /\ IsInjective(order) /\ ToSet(order) = DOMAIN index
      /\ IndexTypes /\ Ordered /\ NamesAreLive
  BY DEF LatestInv, IndexInv, IndexTypes, Ordered
<1>3. Len(order) \in Nat /\ DOMAIN order = 1 .. Len(order)
  BY <1>2, LenProperties
<1>4. PICK c \in 1 .. Len(order) + 1 :
        /\ Len(m) = (IF c <= Len(order) THEN Len(order) ELSE Len(order) + 1)
        /\ c <= Len(order) => order[c] = id
        /\ m[Len(m)] = id
        /\ \A i \in 1 .. Len(m) - 1 : m[i] = order[IF i < c THEN i ELSE i + 1]
  <2>1. m = Append(RemoveFirst(order, id), id)
    BY DEF MovedToEnd
  <2> HIDE DEF m, id
  <2> QED BY <1>1, <1>2, <2>1, MoveToEndPlaces
<1>5. m \in Seq(RequestId) /\ DOMAIN m = 1 .. Len(m)
  BY <1>1, <1>2, MovedElements, LenProperties
<1>6. /\ Entries(r)[id].session = SessionOf[r]
      /\ \A i \in DOMAIN index : i # id => Entries(r)[i] = index[i]
  BY DEF Entries, Source
<1>7. Len(m) \in Nat \ {0}
  BY <1>3, <1>4
<1> HIDE DEF m, id
(* Another entry at place j of order is at this place of m.                *)
<1> DEFINE now(j) == IF j < c THEN j ELSE j - 1
           old(j) == IF j < c THEN j ELSE j + 1
<1>8. ASSUME NEW j \in 1 .. Len(order), order[j] # id
      PROVE  now(j) \in 1 .. Len(m) - 1 /\ m[now(j)] = order[j]
  <2>1. j # c
    BY <1>3, <1>4, <1>8
  <2>2. now(j) \in 1 .. Len(m) - 1 /\ old(now(j)) = j
    BY <1>3, <1>4, <2>1
  <2> QED BY <1>4, <2>2
<1>9. SUFFICES ASSUME NEW s \in Session, NEW j \in 1 .. Len(m),
                      Entries(r)[m[j]].session = s
               PROVE  IF Names(r)[s] = NoSource
                      THEN \E k \in j + 1 .. Len(m) :
                             /\ Entries(r)[m[k]].session # s
                             /\ \E q \in Request : Id[q] = m[k] /\ SessionOf[q] = s
                      ELSE \E k \in j .. Len(m) : m[k] = Names(r)[s]
  BY <1>5 DEF Follows, m, id
<1>10. CASE s = SessionOf[r]
  <2>1. Names(r)[s] = id /\ id # NoSource
    BY <1>1, <1>10 DEF Names, id
  <2>2. Len(m) \in j .. Len(m) /\ m[Len(m)] = id
    BY <1>4, <1>7
  <2> QED BY <2>1, <2>2
<1>11. CASE s # SessionOf[r]
  <2>1. j \in 1 .. Len(m) - 1
    <3>1. j # Len(m)
      BY <1>4, <1>6, <1>9, <1>11
    <3> QED BY <1>7, <3>1
  <2>2. /\ old(j) \in 1 .. Len(order) /\ m[j] = order[old(j)]
        /\ old(j) # c
    BY <1>3, <1>4, <2>1
  <2>3. order[old(j)] # id /\ order[old(j)] \in DOMAIN index
    <3>1. order[old(j)] \in DOMAIN index
      BY <1>2, <1>3, <2>2 DEF ToSet
    <3>2. order[old(j)] # id
      BY <1>6, <1>9, <1>11, <2>2
    <3> QED BY <3>1, <3>2
  <2>4. index[order[old(j)]].session = s
    BY <1>6, <1>9, <2>2, <2>3
  <2>5. IF latest[s] = NoSource
        THEN \E k \in old(j) + 1 .. Len(order) :
               /\ index[order[k]].session # s
               /\ \E q \in Request : Id[q] = order[k] /\ SessionOf[q] = s
        ELSE \E k \in old(j) .. Len(order) : order[k] = latest[s]
    <3> HIDE DEF old
    <3> QED BY <1>3, <2>2, <2>4 DEF LatestInv, LatestOfEachSession
  <2>6. Names(r)[s] = IF id \in DOMAIN index /\ index[id].session = s /\ latest[s] = id
                      THEN NoSource ELSE latest[s]
    BY <1>11 DEF Names, WithoutSessionOf, id
  (* The end of m, where id is, is after j and belongs to another session. *)
  <2>7. /\ Len(m) \in j + 1 .. Len(m) /\ m[Len(m)] = id
        /\ Entries(r)[m[Len(m)]].session # s
    BY <1>4, <1>6, <1>7, <1>11, <2>1
  <2>8. CASE latest[s] = NoSource
    <3>1. Names(r)[s] = NoSource
      BY <2>6, <2>8
    <3>2. PICK k \in old(j) + 1 .. Len(order) :
            /\ index[order[k]].session # s
            /\ \E q \in Request : Id[q] = order[k] /\ SessionOf[q] = s
      BY <2>5, <2>8
    <3>3. CASE order[k] = id
      BY <2>7, <3>1, <3>2, <3>3
    <3>4. CASE order[k] # id
      <4>1. k \in 1 .. Len(order) /\ order[k] \in DOMAIN index
        <5>1. k \in 1 .. Len(order)
          BY <1>3, <2>2, <3>2
        <5> QED BY <1>2, <1>3, <5>1 DEF ToSet
      <4>2. now(k) \in 1 .. Len(m) - 1 /\ m[now(k)] = order[k]
        BY <1>8, <3>4, <4>1
      <4>3. now(k) \in j + 1 .. Len(m)
        <5>1. k # c
          BY <1>4, <3>4, <4>1
        <5> QED BY <1>3, <1>7, <2>1, <2>2, <3>2, <4>2, <5>1
      <4>4. Entries(r)[m[now(k)]].session # s
        BY <1>6, <3>2, <3>4, <4>1, <4>2
      <4> HIDE DEF now
      <4> QED BY <3>1, <3>2, <4>2, <4>3, <4>4
    <3> QED BY <3>3, <3>4
  <2>9. CASE latest[s] = id
    <3>1. id \in DOMAIN index /\ index[id].session = s
      BY <1>1, <1>2, <2>9 DEF NamesAreLive
    <3>2. Names(r)[s] = NoSource
      BY <2>6, <2>9, <3>1
    <3>3. \E q \in Request : Id[q] = id /\ SessionOf[q] = s
      BY <3>1 DEF LatestInv, EntriesHaveRequests
    <3> QED BY <2>7, <3>2, <3>3
  <2>10. CASE latest[s] # NoSource /\ latest[s] # id
    <3>1. Names(r)[s] = latest[s]
      BY <2>6, <2>10
    <3>2. PICK k \in old(j) .. Len(order) : order[k] = latest[s]
      BY <2>5, <2>10
    <3>3. k \in 1 .. Len(order) /\ k # c
      BY <1>3, <1>4, <2>2, <2>10, <3>2
    <3>4. now(k) \in 1 .. Len(m) - 1 /\ m[now(k)] = order[k]
      BY <1>8, <2>10, <3>2, <3>3
    <3>5. now(k) \in j .. Len(m)
      BY <1>3, <1>7, <2>1, <2>2, <3>2, <3>3, <3>4
    <3> HIDE DEF now
    <3> QED BY <2>10, <3>1, <3>2, <3>4, <3>5
  <2> QED BY <2>8, <2>9, <2>10
<1> QED BY <1>10, <1>11

(* Dropping the first entry, and its session's name if it has it.          *)
LEMMA EvictionKeepsLatest ==
  ASSUME NEW m \in Seq(RequestId), IsInjective(m), m # << >>,
         NEW entries, NEW names, NEW kept, NEW left,
         Follows(m, entries, names),
         \A i \in ToSet(Tail(m)) : kept[i] = entries[i],
         \A s \in Session : left[s] # names[s] =>
           names[s] = Head(m) /\ left[s] = NoSource /\ entries[Head(m)].session = s
  PROVE  Follows(Tail(m), kept, left)
<1> DEFINE t == Tail(m)
<1>1. Len(m) \in Nat \ {0} /\ DOMAIN m = 1 .. Len(m) /\ Head(m) = m[1]
  BY EmptySeq, LenProperties
<1>2. /\ Len(t) = Len(m) - 1 /\ DOMAIN t = 1 .. Len(m) - 1
      /\ \A i \in 1 .. Len(m) - 1 : t[i] = m[i + 1]
  BY <1>1
<1> HIDE DEF t
<1>3. \A i \in 1 .. Len(m) - 1 : kept[t[i]] = entries[m[i + 1]]
  <2> SUFFICES ASSUME NEW i \in 1 .. Len(m) - 1 PROVE kept[t[i]] = entries[m[i + 1]]
    OBVIOUS
  <2>1. t[i] = m[i + 1] /\ i \in DOMAIN t
    BY <1>2
  <2>2. t[i] \in ToSet(t)
    BY <2>1 DEF ToSet
  <2> QED BY <2>1, <2>2 DEF t
<1>4. SUFFICES ASSUME NEW s \in Session, NEW j \in 1 .. Len(m) - 1,
                      kept[t[j]].session = s
               PROVE  IF left[s] = NoSource
                      THEN \E k \in j + 1 .. Len(t) :
                             /\ kept[t[k]].session # s
                             /\ \E r \in Request : Id[r] = t[k] /\ SessionOf[r] = s
                      ELSE \E k \in j .. Len(t) : t[k] = left[s]
  BY <1>2 DEF Follows, t
<1>5. j + 1 \in 1 .. Len(m) /\ entries[m[j + 1]].session = s
  BY <1>1, <1>3, <1>4
<1>6. IF names[s] = NoSource
      THEN \E k \in (j + 1) + 1 .. Len(m) :
             /\ entries[m[k]].session # s
             /\ \E r \in Request : Id[r] = m[k] /\ SessionOf[r] = s
      ELSE \E k \in j + 1 .. Len(m) : m[k] = names[s]
  <2> DEFINE n == j + 1
  <2>1. n \in DOMAIN m /\ entries[m[n]].session = s
    BY <1>1, <1>5
  <2> HIDE DEF n
  <2>2. IF names[s] = NoSource
        THEN \E k \in n + 1 .. Len(m) :
               /\ entries[m[k]].session # s
               /\ \E r \in Request : Id[r] = m[k] /\ SessionOf[r] = s
        ELSE \E k \in n .. Len(m) : m[k] = names[s]
    BY <2>1 DEF Follows
  <2> QED BY <2>2 DEF n
(* A name given is that of an entry after the first.                       *)
<1>7. left[s] = names[s]
  <2>1. SUFFICES ASSUME names[s] # NoSource, names[s] = Head(m) PROVE FALSE
    <3>1. left[s] # names[s] => names[s] = Head(m) /\ left[s] = NoSource
      OBVIOUS
    <3> QED BY <2>1, <3>1
  <2>2. PICK k \in j + 1 .. Len(m) : m[k] = m[1]
    BY <1>1, <1>6, <2>1
  <2>3. k \in DOMAIN m /\ 1 \in DOMAIN m /\ k # 1
    BY <1>1, <1>4, <2>2
  <2> QED BY <2>2, <2>3 DEF IsInjective
<1>8. CASE names[s] = NoSource
  <2>1. PICK k \in (j + 1) + 1 .. Len(m) :
          /\ entries[m[k]].session # s
          /\ \E r \in Request : Id[r] = m[k] /\ SessionOf[r] = s
    BY <1>6, <1>8
  <2>2. k - 1 \in j + 1 .. Len(t) /\ k - 1 \in 1 .. Len(m) - 1
    BY <1>1, <1>2, <2>1
  <2>3. t[k - 1] = m[k] /\ kept[t[k - 1]] = entries[m[k]]
    BY <1>2, <1>3, <2>1, <2>2
  <2> QED BY <1>7, <1>8, <2>1, <2>2, <2>3
<1>9. CASE names[s] # NoSource
  <2>1. PICK k \in j + 1 .. Len(m) : m[k] = names[s]
    BY <1>6, <1>9
  <2>2. k - 1 \in j .. Len(t) /\ k - 1 \in 1 .. Len(m) - 1
    BY <1>1, <1>2, <2>1
  <2>3. t[k - 1] = m[k]
    BY <1>2, <2>1, <2>2
  <2> QED BY <1>7, <1>9, <2>1, <2>2, <2>3
<1> QED BY <1>8, <1>9

(* index() keeps the latest source of every session.                       *)
LEMMA IndexSourceKeepsLatest ==
  ASSUME LatestInv, NEW r \in Request, IndexSource(r)
  PROVE  LatestInv'
<1> DEFINE m == MovedToEnd(Id[r])
<1>1. /\ IndexInv /\ IndexTypes /\ Ordered /\ NamesAreLive /\ Id[r] \in RequestId
  BY SourceAssumption DEF LatestInv, IndexInv
<1>2. IndexInv'
  BY <1>1, IndexSourceKeepsInv
<1>3. m \in Seq(RequestId) /\ IsInjective(m) /\ ToSet(m) = DOMAIN index \cup {Id[r]}
  BY <1>1, MovedElements
<1>4. Follows(m, Entries(r), Names(r))
  BY MoveKeepsLatest
<1>5. /\ DOMAIN Entries(r) = DOMAIN index \cup {Id[r]}
      /\ Entries(r)[Id[r]].session = SessionOf[r]
      /\ \A i \in DOMAIN index : i # Id[r] => Entries(r)[i] = index[i]
  BY DEF Entries, Source
<1>6. \A i \in DOMAIN Entries(r) : \E q \in Request :
        Id[q] = i /\ SessionOf[q] = Entries(r)[i].session
  BY <1>5 DEF LatestInv, EntriesHaveRequests
<1>7. CASE ~ TooMany(m)
  <2>1. order' = m /\ index' = Entries(r) /\ latest' = Names(r)
    BY <1>7 DEF IndexSource, Entries, Names
  <2>2. LatestOfEachSession'
    BY <1>4, <2>1 DEF Follows, LatestOfEachSession
  <2> QED BY <1>2, <1>6, <2>1, <2>2 DEF LatestInv, EntriesHaveRequests
<1>8. CASE TooMany(m)
  <2>1. /\ order' = Tail(m) /\ latest' = WithoutSessionOf(Names(r), Head(m))
        /\ index' = [i \in (DOMAIN index \cup {Id[r]}) \ {Head(m)} |->
                       IF i = Id[r] THEN Source(r) ELSE index[i]]
    BY <1>8 DEF IndexSource, Names
  <2>2. m # << >> /\ Head(m) \in DOMAIN index /\ Head(m) # Id[r]
    BY <1>1, <1>8, EvictedIsAnother
  <2>3. /\ DOMAIN index' = (DOMAIN index \cup {Id[r]}) \ {Head(m)}
        /\ \A i \in DOMAIN index' : index'[i] = Entries(r)[i]
    BY <2>1 DEF Entries
  <2>4. ToSet(Tail(m)) = DOMAIN index'
    <3> HIDE DEF m
    <3> QED BY <1>2, <2>1 DEF IndexInv, Ordered
  <2>5. \A s \in Session :
          latest'[s] = IF index[Head(m)].session = s /\ Names(r)[s] = Head(m)
                       THEN NoSource ELSE Names(r)[s]
    BY <2>1, <2>2 DEF WithoutSessionOf
  <2>6. Entries(r)[Head(m)] = index[Head(m)]
    BY <1>5, <2>2
  <2> HIDE DEF m
  <2>7. Follows(Tail(m), index', latest')
    <3>1. \A i \in ToSet(Tail(m)) : index'[i] = Entries(r)[i]
      BY <2>3, <2>4
    <3>2. \A s \in Session : latest'[s] # Names(r)[s] =>
            /\ Names(r)[s] = Head(m) /\ latest'[s] = NoSource
            /\ Entries(r)[Head(m)].session = s
      BY <2>5, <2>6
    <3> QED BY <1>3, <1>4, <2>2, <3>1, <3>2, EvictionKeepsLatest
  <2>8. LatestOfEachSession'
    <3>1. order' = Tail(m)
      BY <2>1
    <3>2. Follows(order', index', latest')
      BY <2>7, <3>1
    <3> QED BY <3>2 DEF Follows, LatestOfEachSession
  <2>9. EntriesHaveRequests'
    BY <1>5, <1>6, <2>3 DEF EntriesHaveRequests
  <2> QED BY <1>2, <2>8, <2>9 DEF LatestInv
<1> QED BY <1>7, <1>8

(* Every step keeps it.                                                    *)
LEMMA LatestInvNext == LatestInv /\ [Next]_vars => LatestInv'
<1> SUFFICES ASSUME LatestInv, [Next]_vars PROVE LatestInv'
  OBVIOUS
<1>1. IndexInv'
  BY IndexInvNext DEF LatestInv
<1>2. ASSUME sources' = sources PROVE LatestInv'
  BY <1>1, <1>2 DEF LatestInv, EntriesHaveRequests, LatestOfEachSession, sources
<1>3. ASSUME NEW r \in Request, Finish(r) PROVE LatestInv'
  BY <1>3, IndexSourceKeepsLatest DEF Finish
<1>4. CASE Reset
  <2>1. order' = << >> /\ index' = << >>
    BY <1>4 DEF Reset
  <2>2. DOMAIN order' = {} /\ DOMAIN index' = {}
    BY <2>1
  <2> QED BY <1>1, <2>2 DEF LatestInv, EntriesHaveRequests, LatestOfEachSession
<1>5. ASSUME NEW r \in Request,
             Admit(r) \/ Refuse(r) \/ LoadDone(r) \/ AdmitLoaded(r) \/ Preempt(r)
      PROVE  sources' = sources
  BY <1>5 DEF Admit, Refuse, LoadDone, AdmitLoaded, Preempt, sources
<1>6. ASSUME NEW l \in leases, StepDone(l) PROVE sources' = sources
  BY <1>6 DEF StepDone, sources
<1>7. CASE UNCHANGED vars
  BY <1>2, <1>7 DEF vars
<1> QED BY <1>2, <1>3, <1>4, <1>5, <1>6, <1>7 DEF Next

(* _session_sources names the last indexed source of each session, through *)
(* re-indexing under one id and eviction; a session that has entries and   *)
(* no name lost it to a later request of another session with its id.      *)
THEOREM LatestOfEachSessionInvariant == Spec => []LatestOfEachSession
<1>1. Init => LatestInv
  <2> SUFFICES ASSUME Init PROVE LatestInv
    OBVIOUS
  <2>1. IndexInv /\ order = << >> /\ index = << >>
    BY IndexInvInit DEF Init
  <2>2. DOMAIN order = {} /\ DOMAIN index = {}
    BY <2>1
  <2> QED BY <2>1, <2>2 DEF LatestInv, EntriesHaveRequests, LatestOfEachSession
<1>2. LatestInv => LatestOfEachSession
  BY DEF LatestInv
<1> QED BY <1>1, <1>2, LatestInvNext, PTL DEF Spec

-----------------------------------------------------------------------------
(* What the pool holds, what sources name, and what is copied.             *)

Statuses == {"waiting", "loading", "loaded", "running", "preempted", "finished"}
Empty    == {"waiting", "preempted", "finished"}

(* A hash is a block's of some prompt.                                     *)
HashesOK ==
  \A b \in Block : hash[b] # NoHash =>
    \E r \in Request : \E i \in 1 .. FullBlocks(r) : hash[b] = HashOf(r, i)

(* A table holds its request's own blocks, in their places; one that has   *)
(* no hash is nobody else's.                                               *)
Carries(r, blocks, hashes) ==
  \A i \in DOMAIN blocks : hashes[blocks[i]] # NoHash =>
    i <= FullBlocks(r) /\ hashes[blocks[i]] = HashOf(r, i)

TablesOK ==
  /\ status \in [Request -> Statuses] /\ table \in [Request -> Seq(Block)]
  /\ \A r \in Request :
       /\ IsInjective(table[r]) /\ Carries(r, table[r], hash)
       /\ status[r] \in Empty => table[r] = << >>
  /\ \A r, s \in Request : \A b \in ToSet(table[r]) \cap ToSet(table[s]) :
       hash[b] = NoHash => r = s

(* An entry of the index is what the request q left that it names.         *)
IsLeftBy(q, src) ==
  /\ src.domain = Domain[q] /\ src.prompt = Prompt[q] /\ src.session = SessionOf[q]
  /\ \A k \in DOMAIN src.blocks :
       /\ k \in 1 .. FullBlocks(q) /\ src.blocks[k].id \in Block
       /\ src.blocks[k].hash = HashOf(q, k)
  /\ \A j, k \in DOMAIN src.blocks : src.blocks[j].id = src.blocks[k].id => j = k

EntriesOK ==
  \A i \in DOMAIN index : \E q \in Request :
    Id[q] = i /\ status[q] = "finished" /\ IsLeftBy(q, index[i])

(* What is pinned has a hash.                                              *)
LeasesOK ==
  \A l \in leases : l.pins # {} /\ l.pins \subseteq Block /\ \A b \in l.pins : hash[b] # NoHash

PoolInv == HashesOK /\ TablesOK /\ EntriesOK /\ LeasesOK

(* What a candidate is: a window of the source that spells the block of    *)
(* the target, and the indexed blocks it lies in.                          *)
Matches(r, src, c) ==
  \E s \in 0 .. Len(src.prompt) :
    /\ s + BlockSize <= Len(src.prompt) /\ Spanned(s) \subseteq DOMAIN src.blocks
    /\ Spelled(src.prompt, s) = Spelled(Prompt[r], (c.target - 1) * BlockSize)
    /\ c.offset = s % BlockSize
    /\ c.blocks = [k \in 1 .. Cardinality(Spanned(s)) |->
                     src.blocks[s \div BlockSize + 1 + k - 1].id]

(* A plan that is kept, for a request that loads, is of the entry of a     *)
(* request that has ended, and that entry comes back no more once it is    *)
(* gone: the entries and statuses are given.                               *)
PlanOK(r, p, entries, now) ==
  p.candidates # {} =>
    /\ r \in Remote /\ Named[r] \in {NoSource, p.source}
    /\ \E q \in Request : Id[q] = p.source /\ now[q] = "finished"
    /\ p.source \in DOMAIN entries =>
         /\ entries[p.source].domain = Domain[r]
         /\ \A c \in p.candidates : Matches(r, entries[p.source], c)

PlansOK ==
  DOMAIN plan = Request /\ \A r \in Request : PlanOK(r, plan[r], index, status)

(* A source the client names stays the choice.                             *)
ChoicesOK ==
  /\ choice \in [Request -> [source : RequestId \cup {NoSource},
                             how : {"explicit", "session", "fingerprint"}]]
  /\ \A r \in Request : Named[r] # NoSource /\ status[r] # "finished" =>
       choice[r] = Selected(Named[r], "explicit")

(* No two requests have an id that a request with an asynchronous load     *)
(* could choose as its source.                                             *)
LoadedSourcesAreUnique ==
  \A r \in Remote \cap Request : \A q, s \in Request :
    Id[q] = Id[s] /\ Named[r] \in {NoSource, Id[q]} => q = s

-----------------------------------------------------------------------------
(* Tokens and windows.                                                     *)

(* A part of a sequence, a part of a part, and two parts that meet.        *)
LEMMA Part ==
  ASSUME NEW S, NEW t \in Seq(S), NEW a \in Nat, NEW b \in Nat, a <= b, b <= Len(t)
  PROVE  /\ SubSeq(t, a + 1, b) \in Seq(S) /\ Len(SubSeq(t, a + 1, b)) = b - a
         /\ \A i \in 1 .. b - a : SubSeq(t, a + 1, b)[i] = t[a + i]
<1>1. a + 1 \in Int /\ b \in Int /\ \A i \in a + 1 .. b : t[i] \in S
  OBVIOUS
<1>2. /\ SubSeq(t, a + 1, b) \in Seq(S)
      /\ Len(SubSeq(t, a + 1, b)) = IF a + 1 <= b THEN b - (a + 1) + 1 ELSE 0
      /\ \A i \in 1 .. b - (a + 1) + 1 : SubSeq(t, a + 1, b)[i] = t[a + 1 + i - 1]
  BY <1>1, SubSeqProperties
<1>3. b - (a + 1) + 1 = b - a /\ \A i \in 1 .. b - a : a + 1 + i - 1 = a + i
  OBVIOUS
<1> QED BY <1>2, <1>3

(* A part of a part is a part.                                             *)
LEMMA PartOfPart ==
  ASSUME NEW S, NEW t \in Seq(S), NEW a \in Nat, NEW b \in Nat, NEW d \in Nat, NEW e \in Nat,
         b <= Len(t), a + e <= b, d <= e
  PROVE  SubSeq(SubSeq(t, a + 1, b), d + 1, e) = SubSeq(t, a + d + 1, a + e)
<1> DEFINE u == SubSeq(t, a + 1, b)
           v == SubSeq(u, d + 1, e)
           w == SubSeq(t, a + d + 1, a + e)
<1>1. u \in Seq(S) /\ Len(u) = b - a /\ \A i \in 1 .. b - a : u[i] = t[a + i]
  BY Part
<1>2. w \in Seq(S) /\ Len(w) = e - d /\ \A i \in 1 .. e - d : w[i] = t[a + d + i]
  <2>1. PICK m \in Nat, n \in Nat : m = a + d /\ n = a + e
    OBVIOUS
  <2>2. /\ SubSeq(t, m + 1, n) \in Seq(S) /\ Len(SubSeq(t, m + 1, n)) = n - m
        /\ \A i \in 1 .. n - m : SubSeq(t, m + 1, n)[i] = t[m + i]
    BY <2>1, Part
  <2>3. n - m = e - d
    BY <2>1
  <2> QED BY <2>1, <2>2, <2>3
<1> HIDE DEF u
<1>3. v \in Seq(S) /\ Len(v) = e - d /\ \A i \in 1 .. e - d : v[i] = u[d + i]
  BY <1>1, Part
<1> HIDE DEF v, w
<1>4. \A i \in 1 .. e - d : u[d + i] = t[a + d + i]
  BY <1>1
<1>5. \A i \in 1 .. e - d : v[i] = w[i]
  BY <1>2, <1>3, <1>4
<1>6. v = w
  BY <1>2, <1>3, <1>5
<1> QED BY <1>6 DEF u, v, w

(* Two parts that meet make one.                                           *)
LEMMA PartsMeet ==
  ASSUME NEW S, NEW t \in Seq(S), NEW a \in Nat, NEW b \in Nat, NEW d \in Nat,
         a <= b, b <= d, d <= Len(t)
  PROVE  SubSeq(t, a + 1, b) \o SubSeq(t, b + 1, d) = SubSeq(t, a + 1, d)
<1> DEFINE u == SubSeq(t, a + 1, b)
           v == SubSeq(t, b + 1, d)
           w == SubSeq(t, a + 1, d)
<1>1. /\ u \in Seq(S) /\ Len(u) = b - a /\ \A i \in 1 .. b - a : u[i] = t[a + i]
      /\ v \in Seq(S) /\ Len(v) = d - b /\ \A i \in 1 .. d - b : v[i] = t[b + i]
      /\ w \in Seq(S) /\ Len(w) = d - a /\ \A i \in 1 .. d - a : w[i] = t[a + i]
  BY Part
<1> HIDE DEF u, v, w
<1> DEFINE z == u \o v
<1>2. /\ z \in Seq(S) /\ Len(z) = d - a
      /\ \A i \in 1 .. Len(u) + Len(v) : z[i] = IF i <= Len(u) THEN u[i] ELSE v[i - Len(u)]
  <2>1. Len(u) + Len(v) = d - a
    BY <1>1
  <2>2. u \in Seq(S) /\ v \in Seq(S)
    BY <1>1
  <2>3. /\ u \o v \in Seq(S) /\ Len(u \o v) = Len(u) + Len(v)
        /\ \A i \in 1 .. Len(u) + Len(v) :
             (u \o v)[i] = IF i <= Len(u) THEN u[i] ELSE v[i - Len(u)]
    BY <2>2, ConcatProperties
  <2> QED BY <2>1, <2>3
<1> HIDE DEF z
<1>3. ASSUME NEW i \in 1 .. d - a PROVE z[i] = w[i]
  <2>1. CASE i <= b - a
    BY <1>1, <1>2, <2>1
  <2>2. CASE i > b - a
    <3>1. PICK j \in 1 .. d - b : j = i - (b - a)
      BY <2>2
    <3>2. /\ i \in 1 .. Len(u) + Len(v) /\ ~ (i <= Len(u))
          /\ i - Len(u) = j /\ b + j = a + i
      BY <1>1, <2>2, <3>1
    <3>3. z[i] = v[j]
      BY <1>2, <3>2
    <3> QED BY <1>1, <3>1, <3>2, <3>3
  <2>3. i <= b - a \/ i > b - a
    OBVIOUS
  <2> QED BY <2>1, <2>2, <2>3
<1>4. z = w
  BY <1>1, <1>2, <1>3
<1> QED BY <1>4 DEF u, v, w, z

(* One sequence flattened, and two.                                        *)
LEMMA FlattenOne ==
  ASSUME NEW x
  PROVE  FlattenSeq([k \in 1 .. 1 |-> x]) = x
<1> DEFINE s == [k \in 1 .. 1 |-> x]
           F == [i \in 1 .. 1 |-> x]
           Eq(f) == f = [i \in 1 .. Len(s) |-> IF i = 1 THEN s[i] ELSE f[i - 1] \o s[i]]
<1>1. Len(s) = 1 /\ s[1] = x
  OBVIOUS
<1>2. \A i \in 1 .. 1 : (IF i = 1 THEN s[i] ELSE F[i - 1] \o s[i]) = x
  BY <1>1
<1>3. Eq(F)
  BY <1>1, <1>2
<1>4. FlattenSeq(s) = (CHOOSE f : Eq(f))[1]
  BY <1>1 DEF FlattenSeq
<1>5. Eq(CHOOSE f : Eq(f))
  BY <1>3
<1>6. (CHOOSE f : Eq(f))[1] = s[1]
  BY <1>1, <1>5
<1> QED BY <1>1, <1>4, <1>6

(* The second of two follows the first.                                    *)
LEMMA FlattenTwo ==
  ASSUME NEW S, NEW x \in Seq(S), NEW y \in Seq(S), NEW s,
         s = [k \in 1 .. 2 |-> IF k = 1 THEN x ELSE y]
  PROVE  FlattenSeq(s) = x \o y
<1> DEFINE F == [i \in 1 .. 2 |-> IF i = 1 THEN x ELSE x \o y]
           Eq(f) == f = [i \in 1 .. Len(s) |-> IF i = 1 THEN s[i] ELSE f[i - 1] \o s[i]]
<1>1. Len(s) = 2 /\ s[1] = x /\ s[2] = y
  OBVIOUS
<1>2. \A i \in 1 .. 2 : (IF i = 1 THEN s[i] ELSE F[i - 1] \o s[i]) = F[i]
  BY <1>1
<1>3. Eq(F)
  BY <1>1, <1>2
<1>4. FlattenSeq(s) = (CHOOSE f : Eq(f))[2]
  BY <1>1 DEF FlattenSeq
<1>5. Eq(CHOOSE f : Eq(f))
  BY <1>3
<1> DEFINE f == CHOOSE f : Eq(f)
<1>6. f = [i \in 1 .. 2 |-> IF i = 1 THEN s[i] ELSE f[i - 1] \o s[i]]
  BY <1>1, <1>5
<1> HIDE DEF f
<1>7. f[1] = s[1] /\ f[2] = f[1] \o s[2]
  <2>1. 1 \in 1 .. 2 /\ 2 \in 1 .. 2 /\ 2 # 1 /\ 2 - 1 = 1
    OBVIOUS
  <2>2. f[1] = s[1] /\ f[2] = f[2 - 1] \o s[2]
    BY <1>6, <2>1
  <2> QED BY <2>1, <2>2
<1> QED BY <1>1, <1>4, <1>7 DEF f

(* Division by a block size.                                               *)
LEMMA DivisionOf ==
  ASSUME NEW a \in Nat, NEW b \in Nat \ {0}
  PROVE  /\ a \div b \in Nat /\ a % b \in 0 .. b - 1
         /\ a = b * (a \div b) + (a % b)
OBVIOUS

(* The quotient is the only number of whole blocks.                        *)
LEMMA QuotientIs ==
  ASSUME NEW a \in Nat, NEW b \in Nat \ {0}, NEW q \in Nat, b * q <= a, a < b * q + b
  PROVE  a \div b = q
<1> DEFINE d == a \div b
           m == a % b
<1>1. d \in Nat /\ m \in 0 .. b - 1 /\ a = b * d + m
  BY DivisionOf
<1> HIDE DEF d, m
<1>2. b * q \in Nat /\ b * d \in Nat
  BY <1>1
<1>3. ASSUME d >= q + 1 PROVE FALSE
  <2>1. b * d >= b * (q + 1)
    BY <1>1, <1>3
  <2>2. b * (q + 1) = b * q + b
    OBVIOUS
  <2> QED BY <1>1, <1>2, <2>1, <2>2
<1>4. ASSUME q >= d + 1 PROVE FALSE
  <2>1. b * q >= b * (d + 1)
    BY <1>1, <1>4
  <2>2. b * (d + 1) = b * d + b
    BY <1>1
  <2> QED BY <1>1, <1>2, <2>1, <2>2
<1>5. d = q
  BY <1>1, <1>3, <1>4
<1> QED BY <1>5 DEF d

(* A window lies in the block of its first token, if it is aligned, and    *)
(* in that one and the next, if it is not.                                 *)
LEMMA SpannedBlocks ==
  ASSUME NEW s \in Nat
  PROVE  \E f \in Nat, o \in 0 .. BlockSize - 1 :
           /\ f = s \div BlockSize /\ o = s % BlockSize /\ s = f * BlockSize + o
           /\ Spanned(s) = (f + 1) .. (IF o = 0 THEN f + 1 ELSE f + 2)
           /\ Cardinality(Spanned(s)) = IF o = 0 THEN 1 ELSE 2
<1> DEFINE f == s \div BlockSize
           o == s % BlockSize
           e == (s + BlockSize - 1) \div BlockSize
<1>1. BlockSize \in Nat \ {0}
  BY SourceAssumption
<1>2. f \in Nat /\ o \in 0 .. BlockSize - 1 /\ s = BlockSize * f + o
  BY <1>1, DivisionOf
<1>3. s + BlockSize - 1 \in Nat
  BY <1>1
<1>4. Spanned(s) = (f + 1) .. (e + 1)
  BY DEF Spanned
<1> HIDE DEF f, o
<1>5. e = IF o = 0 THEN f ELSE f + 1
  <2>1. BlockSize * f \in Nat /\ BlockSize * (f + 1) = BlockSize * f + BlockSize
        /\ f + 1 \in Nat
    BY <1>1, <1>2
  <2>2. CASE o = 0
    <3>1. BlockSize * f <= s + BlockSize - 1 /\ s + BlockSize - 1 < BlockSize * f + BlockSize
      BY <1>1, <1>2, <2>1, <2>2
    <3> QED BY <1>1, <1>2, <1>3, <2>2, <3>1, QuotientIs
  <2>3. CASE o # 0
    <3>1. /\ BlockSize * (f + 1) <= s + BlockSize - 1
          /\ s + BlockSize - 1 < BlockSize * (f + 1) + BlockSize
      BY <1>1, <1>2, <2>1, <2>3
    <3> QED BY <1>1, <1>2, <1>3, <2>1, <2>3, <3>1, QuotientIs
  <2> QED BY <2>2, <2>3
<1> HIDE DEF e
<1>6. Spanned(s) = (f + 1) .. (IF o = 0 THEN f + 1 ELSE f + 2)
  <2>1. e + 1 = IF o = 0 THEN f + 1 ELSE f + 2
    BY <1>2, <1>5
  <2> QED BY <1>4, <2>1
<1>7. Cardinality(Spanned(s)) = IF o = 0 THEN 1 ELSE 2
  <2>1. CASE o = 0
    <3>1. f + 1 \in Int /\ Spanned(s) = (f + 1) .. (f + 1)
      BY <1>2, <1>6, <2>1
    <3>2. Cardinality((f + 1) .. (f + 1)) =
            IF f + 1 > f + 1 THEN 0 ELSE (f + 1) - (f + 1) + 1
      BY <3>1, FS_Interval
    <3>3. ~ (f + 1 > f + 1) /\ (f + 1) - (f + 1) + 1 = 1
      BY <1>2
    <3>4. Cardinality(Spanned(s)) = 1
      BY <3>1, <3>2, <3>3
    <3> QED BY <2>1, <3>4
  <2>2. CASE o # 0
    <3>1. f + 1 \in Int /\ f + 2 \in Int /\ Spanned(s) = (f + 1) .. (f + 2)
      BY <1>2, <1>6, <2>2
    <3>2. Cardinality((f + 1) .. (f + 2)) = IF f + 1 > f + 2 THEN 0 ELSE (f + 2) - (f + 1) + 1
      BY <3>1, FS_Interval
    <3>3. ~ (f + 1 > f + 2) /\ (f + 2) - (f + 1) + 1 = 2
      BY <1>2
    <3>4. Cardinality(Spanned(s)) = 2
      BY <3>1, <3>2, <3>3
    <3> QED BY <2>2, <3>4
  <2> QED BY <2>1, <2>2
<1>8. f * BlockSize = BlockSize * f
  BY <1>1, <1>2
<1>9. f = s \div BlockSize /\ o = s % BlockSize
  BY DEF f, o
<1> QED BY <1>2, <1>6, <1>7, <1>8, <1>9

-----------------------------------------------------------------------------
(* What is copied.                                                         *)

(* A block's hash ends with the tokens of the block.                       *)
LEMMA LastBlock ==
  ASSUME NEW q \in Request, NEW n \in 1 .. FullBlocks(q)
  PROVE  /\ n * BlockSize \in Nat /\ n * BlockSize <= Len(Prompt[q])
         /\ LET t == HashOf(q, n).tokens
            IN  /\ Len(t) = n * BlockSize
                /\ SubSeq(t, Len(t) - BlockSize + 1, Len(t))
                     = SubSeq(Prompt[q], n * BlockSize - BlockSize + 1, n * BlockSize)
<1> DEFINE A == Prompt[q]
<1>1. /\ BlockSize \in Nat \ {0} /\ A \in Seq(Nat) /\ Len(A) \in Nat
  BY SourceAssumption
<1> HIDE DEF A
<1>2. PICK full \in Nat : full = Len(A) \div BlockSize /\ BlockSize * full <= Len(A)
  <2>1. Len(A) \div BlockSize \in Nat /\ Len(A) % BlockSize \in 0 .. BlockSize - 1
        /\ Len(A) = BlockSize * (Len(A) \div BlockSize) + (Len(A) % BlockSize)
    BY <1>1, DivisionOf
  <2> DEFINE d == Len(A) \div BlockSize
             m == Len(A) % BlockSize
  <2>2. d \in Nat /\ m \in Nat /\ Len(A) = BlockSize * d + m
    BY <1>1, <2>1
  <2> HIDE DEF d, m
  <2>3. BlockSize * d \in Nat
    BY <1>1, <2>2
  <2>4. BlockSize * d <= Len(A)
    BY <1>1, <2>2, <2>3
  <2> QED BY <2>2, <2>4 DEF d
<1>3. n \in Nat /\ n >= 1 /\ n <= full
  BY <1>2 DEF FullBlocks, A
<1>4. PICK m \in Nat, e \in Nat : m = n * BlockSize /\ e = n * BlockSize - BlockSize
  <2>1. n * BlockSize \in Nat
    BY <1>1, <1>3
  <2>2. n * BlockSize >= 1 * BlockSize
    BY <1>1, <1>3
  <2>3. n * BlockSize - BlockSize \in Nat
    BY <1>1, <2>1, <2>2
  <2> QED BY <2>1, <2>3
<1>5. m <= Len(A) /\ e + BlockSize = m
  <2>1. n * BlockSize <= full * BlockSize
    BY <1>1, <1>2, <1>3
  <2>2. full * BlockSize = BlockSize * full /\ BlockSize * full \in Nat
    BY <1>1, <1>2
  <2> QED BY <1>1, <1>2, <1>4, <2>1, <2>2
<1> DEFINE t == SubSeq(A, 0 + 1, m)
<1>6. HashOf(q, n).tokens = t
  BY <1>4 DEF HashOf, A
<1>7. Len(t) = m
  BY <1>1, <1>5, Part
<1>8. SubSeq(t, e + 1, m) = SubSeq(A, 0 + e + 1, 0 + m)
  BY <1>1, <1>5, PartOfPart
<1> HIDE DEF t
<1>9. SubSeq(t, m - BlockSize + 1, m) = SubSeq(A, m - BlockSize + 1, m)
  <2>1. m - BlockSize + 1 = e + 1 /\ 0 + e + 1 = e + 1 /\ 0 + m = m
    BY <1>1, <1>5
  <2> QED BY <1>8, <2>1
<1> QED BY <1>4, <1>5, <1>6, <1>7, <1>9 DEF A

(* What is retained for a plan: blocks of the entry that still have the    *)
(* hash they had when the source was indexed.                              *)
LEMMA RetainedBlocks ==
  ASSUME EntriesOK, NEW p, NEW b \in Retained(p)
  PROVE  /\ p.source \in DOMAIN index /\ b \in Block /\ hash[b] # NoHash
         /\ \E k \in DOMAIN index[p.source].blocks :
              index[p.source].blocks[k].id = b /\ hash[b] = index[p.source].blocks[k].hash
<1>1. p.source \in DOMAIN index
  BY DEF Retained
<1>2. PICK c \in p.candidates : Retainable(p, c) /\ b \in ToSet(c.blocks)
  BY <1>1 DEF Retained
<1>3. PICK k \in DOMAIN index[p.source].blocks :
        index[p.source].blocks[k].id = b /\ Resident(index[p.source].blocks[k])
  BY <1>2 DEF Retainable
<1>4. hash[b] = index[p.source].blocks[k].hash
  BY <1>3 DEF Resident
<1>5. PICK q \in Request : IsLeftBy(q, index[p.source])
  BY <1>1 DEF EntriesOK
<1>6. k \in 1 .. FullBlocks(q) /\ b \in Block /\ hash[b] = HashOf(q, k)
  BY <1>3, <1>4, <1>5 DEF IsLeftBy
<1>7. hash[b] # NoHash
  BY <1>6, HashAssumption
<1> QED BY <1>1, <1>3, <1>4, <1>6, <1>7

(* A candidate whose blocks are all retained copies the right tokens.      *)
LEMMA CopyIsRight ==
  ASSUME EntriesOK, NEW p, NEW r, NEW c, p.source \in DOMAIN index,
         index[p.source].domain = Domain[r], Matches(r, index[p.source], c),
         ToSet(c.blocks) \subseteq Retained(p)
  PROVE  /\ ToSet(c.blocks) # {}
         /\ \A b \in ToSet(c.blocks) : hash[b] # NoHash /\ hash[b].domain = Domain[r]
         /\ Content(c) = Spelled(Prompt[r], (c.target - 1) * BlockSize)
<1> DEFINE src == index[p.source]
<1>1. PICK q \in Request : IsLeftBy(q, src)
  BY DEF EntriesOK
<1>2. PICK s \in 0 .. Len(src.prompt) :
        /\ s + BlockSize <= Len(src.prompt) /\ Spanned(s) \subseteq DOMAIN src.blocks
        /\ Spelled(src.prompt, s) = Spelled(Prompt[r], (c.target - 1) * BlockSize)
        /\ c.offset = s % BlockSize
        /\ c.blocks = [k \in 1 .. Cardinality(Spanned(s)) |->
                         src.blocks[s \div BlockSize + 1 + k - 1].id]
  BY DEF Matches
<1>3. /\ src.prompt = Prompt[q] /\ src.domain = Domain[q]
      /\ \A k \in DOMAIN src.blocks :
           k \in 1 .. FullBlocks(q) /\ src.blocks[k].hash = HashOf(q, k)
      /\ \A j, k \in DOMAIN src.blocks : src.blocks[j].id = src.blocks[k].id => j = k
  BY <1>1 DEF IsLeftBy
<1>4. ASSUME NEW b \in ToSet(c.blocks)
      PROVE  \E k \in DOMAIN src.blocks : src.blocks[k].id = b /\ hash[b] = HashOf(q, k)
                                          /\ hash[b] # NoHash
  BY <1>3, RetainedBlocks
<1>5. ASSUME NEW b \in ToSet(c.blocks)
      PROVE  hash[b] # NoHash /\ hash[b].domain = Domain[r]
  <2>1. PICK k : hash[b] = HashOf(q, k) /\ hash[b] # NoHash
    BY <1>4
  <2>2. HashOf(q, k).domain = Domain[q]
    BY DEF HashOf
  <2> QED BY <1>3, <2>1, <2>2
<1> DEFINE A == Prompt[q]
<1>6. /\ BlockSize \in Nat \ {0} /\ A \in Seq(Nat) /\ Len(A) \in Nat
      /\ s \in Nat /\ s + BlockSize <= Len(A)
  BY <1>2, <1>3, SourceAssumption
<1>7. PICK f \in Nat, o \in 0 .. BlockSize - 1 :
        /\ f = s \div BlockSize /\ o = s % BlockSize /\ s = f * BlockSize + o
        /\ Spanned(s) = (f + 1) .. (IF o = 0 THEN f + 1 ELSE f + 2)
        /\ Cardinality(Spanned(s)) = IF o = 0 THEN 1 ELSE 2
  BY <1>6, SpannedBlocks
<1> DEFINE last(k) == LET t == hash[c.blocks[k]].tokens
                      IN  SubSeq(t, Len(t) - BlockSize + 1, Len(t))
           G == [k \in DOMAIN c.blocks |-> last(k)]
<1>8. Content(c) = SubSeq(FlattenSeq(G), o + 1, o + BlockSize)
  BY <1>2, <1>7 DEF Content
<1>9. c.blocks = [k \in 1 .. (IF o = 0 THEN 1 ELSE 2) |-> src.blocks[f + 1 + k - 1].id]
  BY <1>2, <1>7
<1>10. ASSUME NEW k \in 1 .. (IF o = 0 THEN 1 ELSE 2)
       PROVE  /\ f + k \in 1 .. FullBlocks(q) /\ c.blocks[k] \in ToSet(c.blocks)
              /\ last(k) = SubSeq(A, (f + k) * BlockSize - BlockSize + 1, (f + k) * BlockSize)
  <2>1. f + 1 + k - 1 = f + k /\ f + k \in Spanned(s)
    BY <1>7
  <2>2. f + k \in DOMAIN src.blocks /\ f + k \in 1 .. FullBlocks(q)
    BY <1>2, <1>3, <2>1
  <2>3. c.blocks[k] = src.blocks[f + k].id /\ c.blocks[k] \in ToSet(c.blocks)
    BY <1>9, <2>1 DEF ToSet
  <2>4. hash[c.blocks[k]] = HashOf(q, f + k)
    BY <1>3, <1>4, <2>2, <2>3
  <2>5. last(k) = LET t == HashOf(q, f + k).tokens
                  IN  SubSeq(t, Len(t) - BlockSize + 1, Len(t))
    BY <2>4
  <2>6. Len(HashOf(q, f + k).tokens) = (f + k) * BlockSize
    BY <2>2, LastBlock
  <2>7. LET t == HashOf(q, f + k).tokens
        IN  SubSeq(t, Len(t) - BlockSize + 1, Len(t))
              = SubSeq(A, (f + k) * BlockSize - BlockSize + 1, (f + k) * BlockSize)
    BY <2>2, LastBlock
  <2> QED BY <2>2, <2>3, <2>5, <2>7
<1>11. ToSet(c.blocks) # {}
  <2>1. 1 \in 1 .. (IF o = 0 THEN 1 ELSE 2)
    BY <1>7
  <2> QED BY <1>10, <2>1
<1> HIDE DEF last
<1>12. G = [k \in 1 .. (IF o = 0 THEN 1 ELSE 2) |-> last(k)]
  BY <1>9
<1> HIDE DEF G, A
<1>13. PICK a \in Nat, b \in Nat, d \in Nat :
         /\ a = f * BlockSize /\ b = a + BlockSize /\ d = b + BlockSize
         /\ b = (f + 1) * BlockSize /\ d = (f + 2) * BlockSize /\ s = a + o
  <2>1. /\ f * BlockSize \in Nat /\ (f + 1) * BlockSize = f * BlockSize + BlockSize
        /\ (f + 2) * BlockSize = f * BlockSize + BlockSize + BlockSize
    BY <1>6
  <2>2. PICK a \in Nat : a = f * BlockSize
    BY <2>1
  <2>3. s = a + o
    BY <1>7, <2>2
  <2>4. /\ a + BlockSize \in Nat /\ a + BlockSize + BlockSize \in Nat
        /\ a + BlockSize = (f + 1) * BlockSize
        /\ (a + BlockSize) + BlockSize = (f + 2) * BlockSize
    BY <1>6, <2>1, <2>2
  <2> QED BY <2>2, <2>3, <2>4
<1>14. /\ BlockSize \in Nat \ {0} /\ A \in Seq(Nat) /\ Len(A) \in Nat
       /\ o \in Nat /\ o < BlockSize /\ s = a + o
       /\ b = a + BlockSize /\ d = b + BlockSize
  BY <1>6, <1>13
<1>15. /\ a + o + 1 = s + 1 /\ a + (o + BlockSize) = s + BlockSize
       /\ a <= b /\ b <= d /\ o + BlockSize \in Nat /\ o <= o + BlockSize
       /\ b - BlockSize + 1 = a + 1 /\ d - BlockSize + 1 = b + 1
       /\ a + (o + BlockSize) <= d /\ (o = 0 => a + (o + BlockSize) <= b)
  BY <1>14
<1>16. Spelled(src.prompt, s) = SubSeq(A, s + 1, s + BlockSize)
  BY <1>3 DEF Spelled, A
<1>17. last(1) = SubSeq(A, a + 1, b) /\ b <= Len(A)
  <2>1. 1 \in 1 .. (IF o = 0 THEN 1 ELSE 2)
    OBVIOUS
  <2>2. last(1) = SubSeq(A, b - BlockSize + 1, b) /\ f + 1 \in 1 .. FullBlocks(q)
    BY <1>10, <1>13, <2>1
  <2>3. (f + 1) * BlockSize <= Len(Prompt[q])
    BY <2>2, LastBlock
  <2> QED BY <1>13, <1>15, <2>2, <2>3 DEF A
<1>18. CASE o = 0
  <2>1. G = [k \in 1 .. 1 |-> last(1)]
    BY <1>12, <1>18
  <2>2. FlattenSeq(G) = SubSeq(A, a + 1, b)
    BY <1>17, <2>1, FlattenOne
  <2>3. SubSeq(SubSeq(A, a + 1, b), o + 1, o + BlockSize)
          = SubSeq(A, a + o + 1, a + (o + BlockSize))
    <3>1. b <= Len(A) /\ a + (o + BlockSize) <= b /\ A \in Seq(Nat)
          /\ o + BlockSize \in Nat /\ o <= o + BlockSize
      BY <1>17, <1>18, <1>14, <1>15
    <3> QED BY <1>14, <3>1, PartOfPart
  <2>5. Content(c) = SubSeq(A, s + 1, s + BlockSize)
    BY <1>8, <1>15, <2>2, <2>3
  <2> QED BY <1>2, <1>5, <1>11, <1>16, <2>5
<1>19. CASE o # 0
  <2>1. 2 \in 1 .. (IF o = 0 THEN 1 ELSE 2)
    BY <1>19
  <2>2. last(2) = SubSeq(A, d - BlockSize + 1, d) /\ f + 2 \in 1 .. FullBlocks(q)
    BY <1>10, <1>13, <2>1
  <2>3. (f + 2) * BlockSize <= Len(Prompt[q])
    BY <2>2, LastBlock
  <2>4. last(2) = SubSeq(A, b + 1, d) /\ d <= Len(A)
    BY <1>13, <1>15, <2>2, <2>3 DEF A
  <2> DEFINE x == SubSeq(A, a + 1, b)
             y == SubSeq(A, b + 1, d)
  <2>5. x \in Seq(Nat) /\ y \in Seq(Nat)
    BY <1>17, <1>14, <1>15, <2>4, Part
  <2>6. x \o y = SubSeq(A, a + 1, d)
    BY <1>14, <1>15, <2>4, PartsMeet
  <2>7. SubSeq(SubSeq(A, a + 1, d), o + 1, o + BlockSize)
          = SubSeq(A, a + o + 1, a + (o + BlockSize))
    BY <1>14, <1>15, <2>4, PartOfPart
  <2>8. last(1) = x /\ last(2) = y
    BY <1>17, <2>4
  <2> HIDE DEF x, y
  <2>9. G = [k \in 1 .. 2 |-> IF k = 1 THEN x ELSE y]
    <3>1. G = [k \in 1 .. 2 |-> last(k)]
      BY <1>12, <1>19
    <3>2. \A k \in 1 .. 2 : last(k) = IF k = 1 THEN x ELSE y
      BY <2>8
    <3> QED BY <3>1, <3>2
  <2>10. FlattenSeq(G) = x \o y
    BY <2>5, <2>9, FlattenTwo
  <2>11. Content(c) = SubSeq(A, s + 1, s + BlockSize)
    BY <1>8, <1>15, <2>6, <2>7, <2>10
  <2> QED BY <1>2, <1>5, <1>11, <1>16, <2>11
<1> QED BY <1>18, <1>19

(* Of the windows that match there is a preferred one.                     *)
LEMMA BestWindow ==
  ASSUME NEW src, NEW t \in Int, NEW W \in SUBSET Nat, W # {}
  PROVE  \E s \in W : \A v \in W : Preferred(src, t, s, v)
<1>1. BlockSize \in Nat \ {0}
  BY SourceAssumption
<1>2. ASSUME NEW s \in W PROVE Rank(src, s) \in Nat /\ Distance(s, t) \in Nat /\ s \in Nat
  <2>1. Rank(src, s) \in Nat
    <3>1. Rank(src, s) \in {0, 1, 2, 3}
      BY DEF Rank
    <3> QED BY <3>1
  <2>2. PICK d \in Int : d = s - (t - 1) * BlockSize
    BY <1>1
  <2>3. Distance(s, t) = IF d < 0 THEN -d ELSE d
    BY <2>2 DEF Distance
  <2> QED BY <2>1, <2>2, <2>3
<1> DEFINE rank(s) == Rank(src, s)
           far(s) == Distance(s, t)
           Ranks == {rank(s) : s \in W}
<1> HIDE DEF rank, far
<1>3. \A s \in W : rank(s) \in Nat /\ far(s) \in Nat /\ s \in Nat
  BY <1>2 DEF rank, far
<1>4. PICK m \in Ranks : \A n \in Ranks : m <= n
  <2>1. Ranks \in SUBSET Nat /\ Ranks # {}
    BY <1>3
  <2> HIDE DEF Ranks
  <2> QED BY <2>1, NatMin
<1> DEFINE Near == {s \in W : rank(s) = m}
           Fars == {far(s) : s \in Near}
<1>5. m \in Nat /\ Near # {} /\ \A v \in W : m <= rank(v)
  BY <1>3, <1>4
<1>6. PICK d \in Fars : \A n \in Fars : d <= n
  <2>1. Fars \in SUBSET Nat /\ Fars # {}
    BY <1>3, <1>5
  <2> HIDE DEF Fars
  <2> QED BY <2>1, NatMin
<1> DEFINE First == {s \in Near : far(s) = d}
<1>7. d \in Nat /\ First # {} /\ First \in SUBSET Nat /\ \A v \in Near : d <= far(v)
  BY <1>3, <1>6
<1>8. PICK s \in First : \A v \in First : s <= v
  <2> HIDE DEF First
  <2> QED BY <1>7, NatMin
<1>9. s \in W /\ rank(s) = m /\ far(s) = d
  BY <1>8
<1>10. ASSUME NEW v \in W PROVE Preferred(src, t, s, v)
  <2>1. \/ rank(s) < rank(v)
        \/ /\ rank(s) = rank(v)
           /\ far(s) < far(v) \/ (far(s) = far(v) /\ s <= v)
    <3>1. rank(v) \in Nat /\ far(v) \in Nat /\ m <= rank(v) /\ m \in Nat /\ d \in Nat
      BY <1>3, <1>5, <1>7
    <3>2. CASE rank(v) # m
      BY <1>9, <3>1, <3>2
    <3>3. CASE rank(v) = m /\ far(v) # d
      <4>1. d <= far(v)
        BY <1>7, <3>3
      <4> QED BY <1>9, <3>1, <3>3, <4>1
    <3>4. CASE rank(v) = m /\ far(v) = d
      BY <1>8, <1>9, <3>4
    <3> QED BY <3>2, <3>3, <3>4
  <2> QED BY <2>1 DEF Preferred, rank, far
<1> QED BY <1>9, <1>10

(* What locate() proposes is a window of the source that spells the block. *)
LEMMA CandidatesMatch ==
  ASSUME NEW r \in Request, NEW src, Len(src.prompt) \in Nat, NEW native \in Int,
         NEW c \in Candidates(r, src, native)
  PROVE  Matches(r, src, c)
<1> DEFINE matching(t) ==
             {s \in Windows(src) :
                Spelled(src.prompt, s) = Spelled(Prompt[r], (t - 1) * BlockSize)}
           targets == {t \in (native \div BlockSize + 1) .. FullBlocks(r) : matching(t) # {}}
           best(t) == CHOOSE s \in matching(t) :
                        \A v \in matching(t) : Preferred(src, t, s, v)
<1>1. c \in {Candidate(src, t, best(t)) : t \in targets}
  BY DEF Candidates
<1>2. PICK t \in targets : c = Candidate(src, t, best(t))
  BY <1>1
<1>3. BlockSize \in Nat \ {0}
  BY SourceAssumption
<1>4. t \in Int /\ matching(t) # {}
  OBVIOUS
<1>5. matching(t) \in SUBSET Nat
  BY DEF Windows
<1> DEFINE W == matching(t)
           s == best(t)
<1> HIDE DEF W
<1>6. \E v \in W : \A u \in W : Preferred(src, t, v, u)
  BY <1>4, <1>5, BestWindow DEF W
<1>7. s \in W
  BY <1>6 DEF W
<1> HIDE DEF s
<1>8. /\ s \in Windows(src)
      /\ Spelled(src.prompt, s) = Spelled(Prompt[r], (t - 1) * BlockSize)
  BY <1>7 DEF W
<1>9. /\ s \in 0 .. Len(src.prompt) /\ s + BlockSize <= Len(src.prompt)
      /\ Spanned(s) \subseteq DOMAIN src.blocks
  BY <1>3, <1>8 DEF Windows
<1>10. c = Candidate(src, t, s)
  BY <1>2 DEF s
<1>11. /\ c.target = t /\ c.offset = s % BlockSize
       /\ c.blocks = [k \in 1 .. Cardinality(Spanned(s)) |->
                        src.blocks[s \div BlockSize + 1 + k - 1].id]
  BY <1>10 DEF Candidate
<1> QED BY <1>8, <1>9, <1>11 DEF Matches

-----------------------------------------------------------------------------
(* What an admission is given.                                             *)

(* The longest cached prefix exists.                                       *)
LEMMA HitIs ==
  ASSUME NEW r, NEW limit \in Nat
  PROVE  /\ HitLength(r, limit) \in Nat
         /\ \A i \in 1 .. HitLength(r, limit) :
              i <= FullBlocks(r) /\ \E b \in Block : hash[b] = HashOf(r, i)
<1> DEFINE most == limit \div BlockSize
           cached(i) == i <= FullBlocks(r) /\ \E b \in Block : hash[b] = HashOf(r, i)
           ends(k) == (\A i \in 1 .. k : cached(i)) /\ (k < most => ~ cached(k + 1))
           T == {k \in 0 .. most : k < most => ~ cached(k + 1)}
<1>1. most \in Nat
  BY SourceAssumption, DivisionOf
<1>2. HitLength(r, limit) = CHOOSE k \in 0 .. most : ends(k)
  BY DEF HitLength
<1> HIDE DEF most, cached
<1>3. most \in T /\ T \subseteq 0 .. most /\ T \in SUBSET Nat
  BY <1>1
<1>4. PICK m \in T : \A k \in T : m <= k
  <2> HIDE DEF T
  <2> QED BY <1>3, NatMin
<1>5. m \in 0 .. most
  BY <1>3
<1>6. ASSUME NEW i \in 1 .. m PROVE cached(i)
  <2>1. i \in Nat /\ m \in Nat /\ i >= 1 /\ i <= m /\ m <= most
    BY <1>1, <1>5
  <2>2. i - 1 \in 0 .. most /\ i - 1 < most /\ ~ (m <= i - 1) /\ (i - 1) + 1 = i
    BY <1>1, <2>1
  <2>3. i - 1 \notin T
    BY <1>4, <2>2
  <2> QED BY <2>2, <2>3
<1>7. ends(m)
  BY <1>6
<1> HIDE DEF ends
<1>8. HitLength(r, limit) \in 0 .. most /\ ends(HitLength(r, limit))
  BY <1>2, <1>5, <1>7
<1> QED BY <1>1, <1>8 DEF ends, cached

(* The blocks of one prompt have different hashes.                         *)
LEMMA HashesDiffer ==
  ASSUME NEW r \in Request, NEW i \in 1 .. FullBlocks(r), NEW j \in 1 .. FullBlocks(r),
         HashOf(r, i) = HashOf(r, j)
  PROVE  i = j
<1>1. i * BlockSize = j * BlockSize
  <2>1. Len(HashOf(r, i).tokens) = i * BlockSize /\ Len(HashOf(r, j).tokens) = j * BlockSize
    BY LastBlock
  <2> QED BY <2>1
<1>2. BlockSize \in Nat \ {0} /\ i \in Int /\ j \in Int
  BY SourceAssumption
<1>3. ASSUME i + 1 <= j PROVE FALSE
  <2>1. (i + 1) * BlockSize <= j * BlockSize
    BY <1>2, <1>3
  <2>2. (i + 1) * BlockSize = i * BlockSize + BlockSize /\ i * BlockSize \in Int
    BY <1>2
  <2> QED BY <1>1, <1>2, <2>1, <2>2
<1>4. ASSUME j + 1 <= i PROVE FALSE
  <2>1. (j + 1) * BlockSize <= i * BlockSize
    BY <1>2, <1>4
  <2>2. (j + 1) * BlockSize = j * BlockSize + BlockSize /\ j * BlockSize \in Int
    BY <1>2
  <2> QED BY <1>1, <1>2, <2>1, <2>2
<1> QED BY <1>2, <1>3, <1>4

(* The tokens of a request that waits.                                     *)
LEMMA KnownTokens ==
  ASSUME NEW r \in Request, NEW known \in Known(r)
  PROVE  known - 1 \in Nat
<1>1. Len(Prompt[r]) \in Nat /\ Len(Prompt[r]) # 0
  BY SourceAssumption
<1> QED BY <1>1 DEF Known

(* An admission gets the blocks of its cached prefix, and free ones.       *)
Given(r, p, n, blocks) ==
  /\ n \in Nat /\ blocks \in Seq(Block) /\ IsInjective(blocks) /\ n <= Len(blocks)
  /\ \A i \in 1 .. n : i <= FullBlocks(r) /\ hash[blocks[i]] = HashOf(r, i)
  /\ \A i \in n + 1 .. Len(blocks) : blocks[i] \in FreeBlocks \ Retained(p)

(* allocate_slots, for a plan that is pinned.                              *)
LEMMA AllocatedBlocks ==
  ASSUME NEW r \in Request, NEW known \in Known(r), NEW p, NEW blocks \in Allocated(r, known, p)
  PROVE  Given(r, p, HitLength(r, known - 1), blocks)
<1> DEFINE n == HitLength(r, known - 1)
           hits == {h \in [1 .. n -> Block] : \A i \in 1 .. n : hash[h[i]] = HashOf(r, i)}
           new(h) == UNION {NewBlocks(FreeBlocks \ (Retained(p) \cup ToSet(h)), k) :
                              k \in 1 .. CeilDiv(known, BlockSize) - n}
<1>1. blocks \in UNION {{h \o f : f \in new(h)} : h \in hits}
  BY DEF Allocated
<1>2. PICK h \in hits : \E f \in new(h) : blocks = h \o f
  BY <1>1
<1>3. PICK f \in new(h) : blocks = h \o f
  BY <1>2
<1>4. PICK k \in 1 .. CeilDiv(known, BlockSize) - n :
        f \in NewBlocks(FreeBlocks \ (Retained(p) \cup ToSet(h)), k)
  BY <1>3
<1>5. n \in Nat /\ \A i \in 1 .. n : i <= FullBlocks(r)
  BY KnownTokens, HitIs
<1>6. /\ k \in Nat /\ f \in [1 .. k -> FreeBlocks \ (Retained(p) \cup ToSet(h))]
      /\ IsInjective(f)
  BY <1>4 DEF NewBlocks
<1>7. h \in [1 .. n -> Block] /\ \A i \in 1 .. n : hash[h[i]] = HashOf(r, i)
  BY <1>2
<1> HIDE DEF n, hits, new
<1>8. h \in Seq(Block) /\ Len(h) = n /\ DOMAIN h = 1 .. n
  BY <1>5, <1>7
<1>9. f \in Seq(Block) /\ Len(f) = k /\ DOMAIN f = 1 .. k
  BY <1>6 DEF FreeBlocks
<1>10. IsInjective(h)
  <2> SUFFICES ASSUME NEW i \in 1 .. n, NEW j \in 1 .. n, h[i] = h[j] PROVE i = j
    BY <1>8 DEF IsInjective
  <2>1. HashOf(r, i) = HashOf(r, j)
    BY <1>7
  <2>2. i \in 1 .. FullBlocks(r) /\ j \in 1 .. FullBlocks(r)
    <3>1. FullBlocks(r) \in Int
      BY SourceAssumption DEF FullBlocks
    <3> QED BY <1>5, <3>1
  <2> QED BY <2>1, <2>2, HashesDiffer
<1>11. ToSet(h) \cap ToSet(f) = {}
  <2> SUFFICES ASSUME NEW b \in ToSet(f) PROVE b \notin ToSet(h)
    OBVIOUS
  <2>1. PICK i \in 1 .. k : f[i] = b
    BY <1>9 DEF ToSet
  <2> QED BY <1>6, <2>1
<1>12. h \o f \in Seq(Block) /\ Len(h \o f) = n + k /\ IsInjective(h \o f)
  BY <1>6, <1>8, <1>9, <1>10, <1>11, ConcatElements
<1>13. \A i \in 1 .. n + k : (h \o f)[i] = IF i <= n THEN h[i] ELSE f[i - n]
  BY <1>8, <1>9, ConcatProperties
<1>14. \A i \in 1 .. n : hash[(h \o f)[i]] = HashOf(r, i)
  BY <1>5, <1>6, <1>7, <1>13
<1>15. ASSUME NEW i \in n + 1 .. n + k PROVE (h \o f)[i] \in FreeBlocks \ Retained(p)
  <2>1. i \in 1 .. n + k /\ ~ (i <= n) /\ i - n \in 1 .. k
    BY <1>5, <1>6
  <2> QED BY <1>6, <1>13, <2>1
<1>16. n <= n + k
  BY <1>5, <1>6
<1>17. Given(r, p, n, h \o f)
  BY <1>5, <1>12, <1>14, <1>15, <1>16 DEF Given
<1> QED BY <1>3, <1>17 DEF n

-----------------------------------------------------------------------------
(* PoolInv, step by step.                                                  *)

(* What is in a table or pinned is not free.                               *)
LEMMA HeldIsNotFree ==
  /\ \A r \in Request : \A b \in ToSet(table[r]) : b \notin FreeBlocks
  /\ \A l \in leases : \A b \in l.pins : b \notin FreeBlocks
<1> DEFINE tables == {ToSet(table[r]) : r \in Request}
           pinned == {l.pins : l \in leases}
<1>1. ASSUME NEW r \in Request, NEW b \in ToSet(table[r]) PROVE b \in UNION tables
  <2>1. ToSet(table[r]) \in tables
    OBVIOUS
  <2> QED BY <1>1, <2>1
<1>2. ASSUME NEW l \in leases, NEW b \in l.pins PROVE b \in UNION pinned
  <2>1. l.pins \in pinned
    OBVIOUS
  <2> QED BY <1>2, <2>1
<1>3. FreeBlocks = Block \ ((UNION tables) \cup (UNION pinned))
  BY DEF FreeBlocks
<1> HIDE DEF tables, pinned
<1>4. \A b : b \in UNION tables \/ b \in UNION pinned => b \notin FreeBlocks
  BY <1>3
<1> QED BY <1>1, <1>2, <1>4

(* A table's blocks behind the n-th are filled with the request's own      *)
(* tokens, and nothing else changes.                                       *)
Fills(r, n, blocks, hashes) ==
  \A b \in Block :
    \/ \E i \in n + 1 .. Len(blocks) :
         /\ blocks[i] = b
         /\ hashes[b] = NoHash \/ (i <= FullBlocks(r) /\ hashes[b] = HashOf(r, i))
    \/ /\ \A i \in n + 1 .. Len(blocks) : blocks[i] # b
       /\ hashes[b] = hash[b]

(* Registering the blocks fills them, and so does leaving them to a load.  *)
LEMMA RegisteredFills ==
  ASSUME NEW r, NEW n, NEW blocks
  PROVE  /\ Fills(r, n, blocks, Registered(r, blocks, n + 1))
         /\ Fills(r, n, blocks, [b \in Block |-> IF \E i \in n + 1 .. Len(blocks) : blocks[i] = b
                                                 THEN NoHash ELSE hash[b]])
<1>1. ASSUME NEW b \in Block, NEW m \in n + 1 .. Len(blocks), blocks[m] = b
      PROVE  \E i \in n + 1 .. Len(blocks) :
               /\ blocks[i] = b
               /\ Registered(r, blocks, n + 1)[b]
                    = IF i <= FullBlocks(r) THEN HashOf(r, i) ELSE NoHash
  <2> DEFINE i == CHOOSE i \in n + 1 .. Len(blocks) : blocks[i] = b
  <2>1. i \in n + 1 .. Len(blocks) /\ blocks[i] = b
    BY <1>1
  <2>2. Registered(r, blocks, n + 1)[b] = IF i <= FullBlocks(r) THEN HashOf(r, i) ELSE NoHash
    BY <1>1 DEF Registered
  <2> HIDE DEF i
  <2> QED BY <2>1, <2>2
<1>2. ASSUME NEW b \in Block, \A i \in n + 1 .. Len(blocks) : blocks[i] # b
      PROVE  Registered(r, blocks, n + 1)[b] = hash[b]
  BY <1>2 DEF Registered
<1>3. Fills(r, n, blocks, Registered(r, blocks, n + 1))
  <2> SUFFICES ASSUME NEW b \in Block
               PROVE  \/ \E i \in n + 1 .. Len(blocks) :
                           /\ blocks[i] = b
                           /\ \/ Registered(r, blocks, n + 1)[b] = NoHash
                              \/ /\ i <= FullBlocks(r)
                                 /\ Registered(r, blocks, n + 1)[b] = HashOf(r, i)
                      \/ /\ \A i \in n + 1 .. Len(blocks) : blocks[i] # b
                         /\ Registered(r, blocks, n + 1)[b] = hash[b]
    BY DEF Fills
  <2>1. CASE \E m \in n + 1 .. Len(blocks) : blocks[m] = b
    BY <1>1, <2>1
  <2>2. CASE \A i \in n + 1 .. Len(blocks) : blocks[i] # b
    BY <1>2, <2>2
  <2> QED BY <2>1, <2>2
<1> QED BY <1>3 DEF Fills

(* An admission keeps PoolInv but for the pins: the blocks that are filled *)
(* were nobody's.                                                          *)
LEMMA AdmissionKeeps ==
  ASSUME PoolInv, NEW r \in Request, NEW p, NEW n, NEW blocks, NEW x \in Statuses \ Empty,
         Given(r, p, n, blocks), Fills(r, n, blocks, hash'),
         table' = [table EXCEPT ![r] = blocks], status' = [status EXCEPT ![r] = x],
         index' = index, status[r] # "finished"
  PROVE  /\ HashesOK' /\ TablesOK' /\ EntriesOK'
         /\ \A b \in Block : b \notin FreeBlocks \/ b \in Retained(p) => hash'[b] = hash[b]
<1>1. /\ n \in Nat /\ blocks \in Seq(Block) /\ IsInjective(blocks) /\ n <= Len(blocks)
      /\ \A i \in 1 .. n : i <= FullBlocks(r) /\ hash[blocks[i]] = HashOf(r, i)
      /\ \A i \in n + 1 .. Len(blocks) : blocks[i] \in FreeBlocks \ Retained(p)
  BY DEF Given
<1>2. /\ status \in [Request -> Statuses] /\ table \in [Request -> Seq(Block)]
      /\ \A s \in Request :
           /\ IsInjective(table[s]) /\ Carries(s, table[s], hash)
           /\ status[s] \in Empty => table[s] = << >>
      /\ \A s, u \in Request : \A b \in ToSet(table[s]) \cap ToSet(table[u]) :
           hash[b] = NoHash => s = u
  BY DEF PoolInv, TablesOK
<1>3. ASSUME NEW b \in Block
      PROVE  \/ \E i \in n + 1 .. Len(blocks) :
                  /\ blocks[i] = b
                  /\ hash'[b] = NoHash \/ (i <= FullBlocks(r) /\ hash'[b] = HashOf(r, i))
             \/ /\ \A i \in n + 1 .. Len(blocks) : blocks[i] # b
                /\ hash'[b] = hash[b]
  BY DEF Fills
<1>4. ASSUME NEW b \in Block, b \notin FreeBlocks \/ b \in Retained(p)
      PROVE  hash'[b] = hash[b]
  BY <1>1, <1>3, <1>4
<1>5. HashesOK'
  <2> SUFFICES ASSUME NEW b \in Block, hash'[b] # NoHash
               PROVE  \E q \in Request : \E i \in 1 .. FullBlocks(q) : hash'[b] = HashOf(q, i)
    BY DEF HashesOK, HashOf, FullBlocks
  <2>1. CASE hash'[b] = hash[b]
    BY <2>1 DEF PoolInv, HashesOK
  <2>2. CASE \E i \in n + 1 .. Len(blocks) : i <= FullBlocks(r) /\ hash'[b] = HashOf(r, i)
    <3>1. PICK i \in n + 1 .. Len(blocks) : i <= FullBlocks(r) /\ hash'[b] = HashOf(r, i)
      BY <2>2
    <3>2. FullBlocks(r) \in Int
      BY SourceAssumption DEF FullBlocks
    <3>3. i \in 1 .. FullBlocks(r)
      BY <1>1, <3>1, <3>2
    <3> QED BY <3>1, <3>3
  <2> QED BY <1>3, <2>1, <2>2
<1>6. ASSUME NEW s \in Request
      PROVE  /\ status'[s] = (IF s = r THEN x ELSE status[s])
             /\ table'[s] = (IF s = r THEN blocks ELSE table[s])
  BY <1>2
<1>7. ASSUME NEW i \in DOMAIN blocks
      PROVE  /\ blocks[i] \in Block
             /\ hash'[blocks[i]] # NoHash =>
                  i <= FullBlocks(r) /\ hash'[blocks[i]] = HashOf(r, i)
             /\ hash'[blocks[i]] = NoHash => blocks[i] \in FreeBlocks
  <2>1. blocks[i] \in Block /\ i \in 1 .. Len(blocks)
    BY <1>1
  <2>2. \A j \in DOMAIN blocks : blocks[j] = blocks[i] => j = i
    BY <1>1 DEF IsInjective
  <2>3. DOMAIN blocks = 1 .. Len(blocks) /\ n + 1 .. Len(blocks) \subseteq 1 .. Len(blocks)
    BY <1>1
  <2>4. CASE i \in 1 .. n
    <3>1. \A j \in n + 1 .. Len(blocks) : blocks[j] # blocks[i]
      BY <1>1, <2>2, <2>3, <2>4
    <3>2. hash'[blocks[i]] = HashOf(r, i) /\ i <= FullBlocks(r)
      BY <1>1, <1>3, <2>1, <2>4, <3>1
    <3>3. i \in 1 .. FullBlocks(r)
      <4>1. FullBlocks(r) \in Int
        BY SourceAssumption DEF FullBlocks
      <4> QED BY <2>1, <3>2, <4>1
    <3> QED BY <2>1, <3>2, <3>3, HashAssumption
  <2>5. CASE i \in n + 1 .. Len(blocks)
    <3>1. hash'[blocks[i]] = NoHash \/ (i <= FullBlocks(r) /\ hash'[blocks[i]] = HashOf(r, i))
      BY <1>3, <2>1, <2>2, <2>3, <2>5
    <3> QED BY <1>1, <2>1, <2>5, <3>1
  <2> QED BY <1>1, <2>1, <2>4, <2>5
<1>8. TablesOK'
  <2>1. status' \in [Request -> Statuses] /\ table' \in [Request -> Seq(Block)]
    BY <1>1, <1>2
  <2>2. ASSUME NEW s \in Request
        PROVE  /\ IsInjective(table'[s]) /\ Carries(s, table'[s], hash')
               /\ status'[s] \in Empty => table'[s] = << >>
    <3>1. CASE s = r
      <4>1. Carries(r, blocks, hash')
        BY <1>7 DEF Carries
      <4> QED BY <1>1, <1>6, <3>1, <4>1
    <3>2. CASE s # r
      <4>1. ASSUME NEW i \in DOMAIN table[s] PROVE hash'[table[s][i]] = hash[table[s][i]]
        <5>1. table[s][i] \in Block /\ table[s][i] \in ToSet(table[s])
          BY <1>2 DEF ToSet
        <5> QED BY <1>4, <5>1, HeldIsNotFree
      <4>2. Carries(s, table[s], hash')
        BY <1>2, <4>1 DEF Carries
      <4> QED BY <1>2, <1>6, <3>2, <4>2
    <3> QED BY <3>1, <3>2
  <2>3. ASSUME NEW s \in Request, NEW u \in Request, s # u,
               NEW b \in ToSet(table'[s]) \cap ToSet(table'[u]), hash'[b] = NoHash
        PROVE  FALSE
    <3>1. ASSUME NEW v \in Request, v # r, b \in ToSet(table'[v])
          PROVE  b \in ToSet(table[v]) /\ b \in Block /\ b \notin FreeBlocks
                 /\ hash[b] = NoHash
      <4>1. b \in ToSet(table[v])
        BY <1>6, <3>1
      <4>2. b \in Block
        BY <1>2, <4>1 DEF ToSet
      <4> QED BY <1>4, <2>3, <4>1, <4>2, HeldIsNotFree
    <3>2. b \in ToSet(table'[r]) => b \in FreeBlocks
      <4>1. table'[r] = blocks
        BY <1>6
      <4> QED BY <1>7, <2>3, <4>1 DEF ToSet
    <3> QED BY <1>2, <2>3, <3>1, <3>2
  <2> QED BY <2>1, <2>2, <2>3 DEF TablesOK, Carries, HashOf, FullBlocks
<1>9. EntriesOK'
  <2> SUFFICES ASSUME NEW i \in DOMAIN index
               PROVE  \E q \in Request :
                        Id[q] = i /\ status'[q] = "finished" /\ IsLeftBy(q, index[i])
    BY DEF EntriesOK, IsLeftBy, HashOf, FullBlocks
  <2>1. PICK q \in Request : Id[q] = i /\ status[q] = "finished" /\ IsLeftBy(q, index[i])
    BY DEF PoolInv, EntriesOK
  <2> QED BY <1>6, <2>1
<1> QED BY <1>4, <1>5, <1>8, <1>9

(* What is pinned has a hash, and keeps it.                                *)
LEMMA PinKeeps ==
  ASSUME PoolInv, NEW r, NEW p, NEW copies, Pin(r, p, copies),
         \A b \in Block : b \notin FreeBlocks \/ b \in Retained(p) => hash'[b] = hash[b]
  PROVE  LeasesOK'
<1> SUFFICES ASSUME NEW l \in leases'
             PROVE  /\ l.pins # {} /\ l.pins \subseteq Block
                    /\ \A b \in l.pins : hash'[b] # NoHash
  BY DEF LeasesOK
<1>1. CASE l \in leases
  <2>1. l.pins # {} /\ l.pins \subseteq Block /\ \A b \in l.pins : hash[b] # NoHash
    BY <1>1 DEF PoolInv, LeasesOK
  <2>2. \A b \in l.pins : hash'[b] = hash[b]
    BY <1>1, <2>1, HeldIsNotFree
  <2> QED BY <2>1, <2>2
<1>2. CASE l \notin leases
  <2>1. Retained(p) # {} /\ l.pins = Retained(p)
    BY <1>2 DEF Pin
  <2>2. EntriesOK
    BY DEF PoolInv
  <2>3. \A b \in Retained(p) : b \in Block /\ hash[b] # NoHash
    BY <2>2, RetainedBlocks
  <2> QED BY <2>1, <2>3
<1> QED BY <1>1, <1>2

(* The load fills the blocks of a table: those with a hash keep it, the    *)
(* others are nobody else's.                                               *)
LEMMA LoadKeeps ==
  ASSUME PoolInv, NEW r \in Request, LoadDone(r)
  PROVE  /\ PoolInv' /\ \A b \in Block : hash[b] # NoHash => hash'[b] = hash[b]
<1>1. /\ status \in [Request -> Statuses] /\ table \in [Request -> Seq(Block)]
      /\ \A s \in Request :
           /\ IsInjective(table[s]) /\ Carries(s, table[s], hash)
           /\ status[s] \in Empty => table[s] = << >>
      /\ \A s, u \in Request : \A b \in ToSet(table[s]) \cap ToSet(table[u]) :
           hash[b] = NoHash => s = u
  BY DEF PoolInv, TablesOK
<1>2. /\ status[r] = "loading" /\ status' = [status EXCEPT ![r] = "loaded"]
      /\ UNCHANGED <<table, index, leases>> /\ hash' = Registered(r, table[r], 1)
  BY DEF LoadDone, sources
<1> DEFINE blocks == table[r]
<1>3. /\ blocks \in Seq(Block) /\ DOMAIN blocks = 1 .. Len(blocks)
      /\ \A i, j \in DOMAIN blocks : blocks[i] = blocks[j] => i = j
  BY <1>1 DEF IsInjective
<1>4. Fills(r, 0, blocks, hash')
  <2>1. Fills(r, 0, blocks, Registered(r, blocks, 0 + 1))
    BY RegisteredFills
  <2>2. 0 + 1 = 1
    OBVIOUS
  <2> QED BY <1>2, <2>1, <2>2
<1>5. ASSUME NEW b \in Block
      PROVE  \/ \E i \in 1 .. Len(blocks) :
                  /\ blocks[i] = b
                  /\ hash'[b] = NoHash \/ (i <= FullBlocks(r) /\ hash'[b] = HashOf(r, i))
             \/ /\ \A i \in 1 .. Len(blocks) : blocks[i] # b
                /\ hash'[b] = hash[b]
  <2>1. 0 + 1 .. Len(blocks) = 1 .. Len(blocks)
    OBVIOUS
  <2> QED BY <1>4, <2>1 DEF Fills
<1>6. ASSUME NEW b \in Block, NEW i \in 1 .. Len(blocks), blocks[i] = b, i <= FullBlocks(r)
      PROVE  hash'[b] = HashOf(r, i)
  <2> DEFINE m == CHOOSE m \in 1 .. Len(blocks) : blocks[m] = b
  <2>1. m = i
    BY <1>3, <1>6
  <2>2. Registered(r, blocks, 1)[b] = IF m <= FullBlocks(r) THEN HashOf(r, m) ELSE NoHash
    BY <1>6 DEF Registered
  <2> HIDE DEF m
  <2> QED BY <1>2, <1>6, <2>1, <2>2
<1>7. ASSUME NEW b \in Block, hash[b] # NoHash PROVE hash'[b] = hash[b]
  <2>1. CASE \A i \in 1 .. Len(blocks) : blocks[i] # b
    BY <1>5, <2>1
  <2>2. CASE \E i \in 1 .. Len(blocks) : blocks[i] = b
    <3>1. PICK i \in 1 .. Len(blocks) : blocks[i] = b
      BY <2>2
    <3>2. i <= FullBlocks(r) /\ hash[b] = HashOf(r, i)
      BY <1>1, <1>3, <1>7, <3>1 DEF Carries
    <3> QED BY <1>6, <3>1, <3>2
  <2> QED BY <2>1, <2>2
<1>8. HashesOK'
  <2> SUFFICES ASSUME NEW b \in Block, hash'[b] # NoHash
               PROVE  \E q \in Request : \E i \in 1 .. FullBlocks(q) : hash'[b] = HashOf(q, i)
    BY DEF HashesOK, HashOf, FullBlocks
  <2>1. CASE hash'[b] = hash[b]
    BY <2>1 DEF PoolInv, HashesOK
  <2>2. CASE \E i \in 1 .. Len(blocks) : i <= FullBlocks(r) /\ hash'[b] = HashOf(r, i)
    <3>1. PICK i \in 1 .. Len(blocks) : i <= FullBlocks(r) /\ hash'[b] = HashOf(r, i)
      BY <2>2
    <3>2. FullBlocks(r) \in Int
      BY SourceAssumption DEF FullBlocks
    <3>3. i \in 1 .. FullBlocks(r)
      BY <3>1, <3>2
    <3> QED BY <3>1, <3>3
  <2> QED BY <1>5, <2>1, <2>2
<1>9. TablesOK'
  <2>1. status' \in [Request -> Statuses]
    BY <1>1, <1>2 DEF Statuses
  <2>2. ASSUME NEW s \in Request, NEW i \in DOMAIN table[s], hash'[table[s][i]] # NoHash
        PROVE  i <= FullBlocks(s) /\ hash'[table[s][i]] = HashOf(s, i)
    <3>1. table[s][i] \in Block /\ table[s][i] \in ToSet(table[s])
      BY <1>1 DEF ToSet
    <3>2. CASE hash[table[s][i]] # NoHash
      BY <1>1, <1>7, <3>1, <3>2 DEF Carries
    <3>3. CASE hash[table[s][i]] = NoHash
      <4>1. PICK k \in 1 .. Len(blocks) :
              /\ blocks[k] = table[s][i] /\ k <= FullBlocks(r)
              /\ hash'[table[s][i]] = HashOf(r, k)
        BY <1>5, <2>2, <3>1, <3>3
      <4>2. table[s][i] \in ToSet(table[r])
        BY <1>3, <4>1 DEF ToSet
      <4>3. s = r
        BY <1>1, <3>1, <3>3, <4>2
      <4>4. k = i
        BY <1>3, <4>1, <4>3
      <4> QED BY <4>1, <4>3, <4>4
    <3> QED BY <3>2, <3>3
  <2>3. ASSUME NEW s \in Request
        PROVE  /\ IsInjective(table'[s]) /\ Carries(s, table'[s], hash')
               /\ status'[s] \in Empty => table'[s] = << >>
    <3>1. Carries(s, table'[s], hash')
      BY <1>2, <2>2 DEF Carries
    <3>2. status'[s] \in Empty => status[s] \in Empty
      BY <1>1, <1>2 DEF Empty
    <3> QED BY <1>1, <1>2, <3>1, <3>2
  <2>4. ASSUME NEW s \in Request, NEW u \in Request,
               NEW b \in ToSet(table'[s]) \cap ToSet(table'[u]), hash'[b] = NoHash
        PROVE  s = u
    <3>1. b \in ToSet(table[s]) \cap ToSet(table[u])
      BY <1>2
    <3>2. b \in Block
      BY <1>1, <3>1 DEF ToSet
    <3>3. hash[b] = NoHash
      BY <1>7, <2>4, <3>2
    <3> QED BY <1>1, <3>1, <3>3
  <2> QED BY <1>1, <1>2, <2>1, <2>3, <2>4 DEF TablesOK, Carries, HashOf, FullBlocks
<1>10. EntriesOK'
  <2> SUFFICES ASSUME NEW i \in DOMAIN index
               PROVE  \E q \in Request :
                        Id[q] = i /\ status'[q] = "finished" /\ IsLeftBy(q, index[i])
    BY <1>2 DEF EntriesOK, IsLeftBy, HashOf, FullBlocks
  <2>1. PICK q \in Request : Id[q] = i /\ status[q] = "finished" /\ IsLeftBy(q, index[i])
    BY DEF PoolInv, EntriesOK
  <2> QED BY <1>1, <1>2, <2>1
<1>11. LeasesOK'
  BY <1>2, <1>7 DEF PoolInv, LeasesOK
<1> QED BY <1>7, <1>8, <1>9, <1>10, <1>11 DEF PoolInv

(* index() replaces the entry of an id and adds no other.                  *)
LEMMA IndexedEntries ==
  ASSUME NEW r, IndexSource(r), NEW i \in DOMAIN index'
  PROVE  IF i = Id[r] THEN index'[i] = Source(r)
         ELSE i \in DOMAIN index /\ index'[i] = index[i]
<1> DEFINE entries(ids) == [j \in ids |-> IF j = Id[r] THEN Source(r) ELSE index[j]]
<1>1. \E ids \in SUBSET (DOMAIN index \cup {Id[r]}) : index' = entries(ids)
  <2>1. CASE TooMany(MovedToEnd(Id[r]))
    BY <2>1 DEF IndexSource
  <2>2. CASE ~ TooMany(MovedToEnd(Id[r]))
    BY <2>2 DEF IndexSource
  <2> QED BY <2>1, <2>2
<1> QED BY <1>1

(* What a request leaves: the blocks of its table that have a hash.        *)
LEMMA SourceIsLeft ==
  ASSUME TablesOK, NEW r \in Request
  PROVE  IsLeftBy(r, Source(r))
<1> DEFINE full == {i \in DOMAIN table[r] : i <= FullBlocks(r) /\ hash[table[r][i]] # NoHash}
           src == Source(r)
<1>1. /\ src.domain = Domain[r] /\ src.prompt = Prompt[r] /\ src.session = SessionOf[r]
      /\ src.blocks = [i \in full |-> [id |-> table[r][i], hash |-> hash[table[r][i]]]]
  BY DEF Source
<1>2. /\ table[r] \in Seq(Block) /\ IsInjective(table[r]) /\ Carries(r, table[r], hash)
  BY DEF TablesOK
<1>3. FullBlocks(r) \in Int
  BY SourceAssumption DEF FullBlocks
<1>4. ASSUME NEW k \in DOMAIN src.blocks
      PROVE  /\ k \in DOMAIN table[r] /\ k \in 1 .. FullBlocks(r)
             /\ src.blocks[k].id = table[r][k] /\ src.blocks[k].hash = HashOf(r, k)
             /\ table[r][k] \in Block
  <2>1. k \in full /\ src.blocks[k] = [id |-> table[r][k], hash |-> hash[table[r][k]]]
    BY <1>1
  <2>2. k \in 1 .. Len(table[r])
    BY <1>2, <2>1
  <2> QED BY <1>2, <1>3, <2>1, <2>2 DEF Carries
<1> HIDE DEF src
<1>5. ASSUME NEW j \in DOMAIN src.blocks, NEW k \in DOMAIN src.blocks,
             src.blocks[j].id = src.blocks[k].id
      PROVE  j = k
  BY <1>2, <1>4, <1>5 DEF IsInjective
<1> QED BY <1>1, <1>4, <1>5 DEF IsLeftBy, src

(* A request that ends leaves its blocks, and an entry of them.            *)
LEMMA FinishKeeps ==
  ASSUME PoolInv, NEW r \in Request, Finish(r)
  PROVE  PoolInv'
<1>1. /\ status \in [Request -> Statuses] /\ table \in [Request -> Seq(Block)]
      /\ \A s \in Request :
           /\ IsInjective(table[s]) /\ Carries(s, table[s], hash)
           /\ status[s] \in Empty => table[s] = << >>
      /\ \A s, u \in Request : \A b \in ToSet(table[s]) \cap ToSet(table[u]) :
           hash[b] = NoHash => s = u
  BY DEF PoolInv, TablesOK
<1>2. /\ status' = [status EXCEPT ![r] = "finished"] /\ table' = [table EXCEPT ![r] = << >>]
      /\ hash' = hash /\ leases' = leases
  BY DEF Finish
<1>3. HashesOK' /\ LeasesOK'
  BY <1>2 DEF PoolInv, HashesOK, LeasesOK, HashOf, FullBlocks
<1>4. DOMAIN << >> = {} /\ << >> \in Seq(Block) /\ ToSet(<< >>) = {}
  BY DEF ToSet
<1> DEFINE none == << >>
<1>5. IsInjective(none) /\ Carries(r, none, hash)
  BY <1>4 DEF IsInjective, Carries
<1>6. ASSUME NEW s \in Request
      PROVE  /\ status'[s] = (IF s = r THEN "finished" ELSE status[s])
             /\ table'[s] = (IF s = r THEN none ELSE table[s])
  BY <1>1, <1>2
<1>7. none \in Seq(Block) /\ ToSet(none) = {}
  BY <1>4
<1>8. status' \in [Request -> Statuses] /\ table' \in [Request -> Seq(Block)]
  BY <1>1, <1>2, <1>7 DEF Statuses
<1>9. none = << >>
  OBVIOUS
<1> HIDE DEF none
<1>10. TablesOK'
  <2>1. ASSUME NEW s \in Request
        PROVE  /\ IsInjective(table'[s]) /\ Carries(s, table'[s], hash')
               /\ status'[s] \in Empty => table'[s] = << >>
    BY <1>1, <1>2, <1>5, <1>6, <1>9
  <2>2. ASSUME NEW s \in Request, NEW u \in Request,
               NEW b \in ToSet(table'[s]) \cap ToSet(table'[u]), hash'[b] = NoHash
        PROVE  s = u
    <3>1. s # r /\ u # r
      BY <1>6, <1>7, <2>2
    <3> QED BY <1>1, <1>2, <1>6, <2>2, <3>1
  <2> QED BY <1>8, <2>1, <2>2 DEF TablesOK, Carries, HashOf, FullBlocks
<1>11. EntriesOK'
  <2> SUFFICES ASSUME NEW i \in DOMAIN index'
               PROVE  \E q \in Request :
                        Id[q] = i /\ status'[q] = "finished" /\ IsLeftBy(q, index'[i])
    BY DEF EntriesOK, IsLeftBy, HashOf, FullBlocks
  <2>1. IF i = Id[r] THEN index'[i] = Source(r)
        ELSE i \in DOMAIN index /\ index'[i] = index[i]
    BY IndexedEntries DEF Finish
  <2>2. CASE i = Id[r]
    BY <1>6, <2>1, <2>2, SourceIsLeft DEF PoolInv
  <2>3. CASE i # Id[r]
    <3>1. PICK q \in Request : Id[q] = i /\ status[q] = "finished" /\ IsLeftBy(q, index[i])
      BY <2>1, <2>3 DEF PoolInv, EntriesOK
    <3> QED BY <1>6, <2>1, <2>3, <3>1
  <2> QED BY <2>2, <2>3
<1> QED BY <1>3, <1>10, <1>11 DEF PoolInv

(* A reset takes the hashes, and there is no table and no pin.             *)
LEMMA ResetKeeps ==
  ASSUME PoolInv, Reset
  PROVE  PoolInv' /\ leases = {}
<1>1. /\ status \in [Request -> Statuses] /\ table \in [Request -> Seq(Block)]
      /\ \A s \in Request : status[s] \in Empty => table[s] = << >>
  BY DEF PoolInv, TablesOK
<1>2. /\ FreeBlocks = Block /\ hash' = [b \in Block |-> NoHash] /\ index' = << >>
      /\ status' = status /\ table' = table /\ leases' = leases
  BY DEF Reset, requests
<1>3. ASSUME NEW l \in leases PROVE FALSE
  BY <1>2, HeldIsNotFree DEF PoolInv, LeasesOK
<1>4. ASSUME NEW s \in Request PROVE DOMAIN table[s] = {} /\ ToSet(table[s]) = {}
  <2>1. ToSet(table[s]) \subseteq Block
    BY <1>1 DEF ToSet
  <2>2. ToSet(table[s]) = {}
    BY <1>2, <2>1, HeldIsNotFree
  <2> QED BY <2>2 DEF ToSet
<1>5. HashesOK' /\ LeasesOK'
  BY <1>2, <1>3 DEF HashesOK, LeasesOK
<1>6. \A s \in Request : IsInjective(table[s]) /\ Carries(s, table[s], hash')
  BY <1>4 DEF IsInjective, Carries
<1>7. TablesOK'
  BY <1>1, <1>2, <1>4, <1>6 DEF TablesOK, Carries, HashOf, FullBlocks
<1>8. DOMAIN index' = {}
  BY <1>2
<1>9. EntriesOK'
  BY <1>8 DEF EntriesOK
<1> QED BY <1>3, <1>5, <1>7, <1>9 DEF PoolInv

-----------------------------------------------------------------------------
(* The pool's invariant.                                                   *)

(* What an admission looked up.                                            *)
Hit(r, known) == HitLength(r, known - 1)
Plan(r, known) == Planned(r, Hit(r, known) * BlockSize)

(* What an admission does with its plan, p, however it fills the blocks:   *)
(* what is held, or pinned for p, keeps its hash.                          *)
Admits(r, known, p) ==
  /\ choice' = [choice EXCEPT ![r] = Located(r, Hit(r, known) * BlockSize)]
  /\ \A b \in Block : b \notin FreeBlocks \/ b \in Retained(p) => hash'[b] = hash[b]
  /\ \/ /\ plan' = plan /\ status' = [status EXCEPT ![r] = "running"]
        /\ Pin(r, p, Forwarded(p))
     \/ /\ r \in Remote /\ plan' = [plan EXCEPT ![r] = p]
        /\ status' = [status EXCEPT ![r] = "loading"] /\ Pin(r, p, {})
  /\ UNCHANGED sources

LEMMA AdmitKeeps ==
  ASSUME PoolInv, NEW r \in Request, Admit(r)
  PROVE  PoolInv' /\ \E known \in Known(r) : Admits(r, known, Plan(r, known))
<1>1. PICK known \in Known(r) :
        LET n == HitLength(r, known - 1)
            p == Planned(r, n * BlockSize)
        IN  /\ choice' = [choice EXCEPT ![r] = Located(r, n * BlockSize)]
            /\ \E blocks \in Allocated(r, known, p) :
                 /\ table' = [table EXCEPT ![r] = blocks]
                 /\ \/ /\ hash' = Registered(r, blocks, n + 1)
                       /\ plan' = plan
                       /\ status' = [status EXCEPT ![r] = "running"]
                       /\ Pin(r, p, Forwarded(p))
                    \/ /\ r \in Remote
                       /\ hash' = [b \in Block |->
                                     IF \E i \in n + 1 .. Len(blocks) : blocks[i] = b
                                     THEN NoHash ELSE hash[b]]
                       /\ plan' = [plan EXCEPT ![r] = p]
                       /\ status' = [status EXCEPT ![r] = "loading"]
                       /\ Pin(r, p, {})
  BY DEF Admit
<1> DEFINE n == HitLength(r, known - 1)
           p == Planned(r, n * BlockSize)
<1>2. p = Plan(r, known) /\ n = Hit(r, known)
  BY DEF Plan, Hit
<1>3. status[r] \notin {"finished"} /\ UNCHANGED sources
  BY DEF Admit
<1>4. index' = index
  BY <1>3 DEF sources
<1> HIDE DEF n, p
<1>5. PICK blocks \in Allocated(r, known, p) :
        /\ table' = [table EXCEPT ![r] = blocks]
        /\ \/ /\ hash' = Registered(r, blocks, n + 1)
              /\ plan' = plan
              /\ status' = [status EXCEPT ![r] = "running"]
              /\ Pin(r, p, Forwarded(p))
           \/ /\ r \in Remote
              /\ hash' = [b \in Block |-> IF \E i \in n + 1 .. Len(blocks) : blocks[i] = b
                                          THEN NoHash ELSE hash[b]]
              /\ plan' = [plan EXCEPT ![r] = p]
              /\ status' = [status EXCEPT ![r] = "loading"]
              /\ Pin(r, p, {})
  BY <1>1 DEF n, p
<1>6. Given(r, p, n, blocks)
  BY AllocatedBlocks DEF n
<1>7. Fills(r, n, blocks, hash')
  <2>1. /\ Fills(r, n, blocks, Registered(r, blocks, n + 1))
        /\ Fills(r, n, blocks, [b \in Block |-> IF \E i \in n + 1 .. Len(blocks) : blocks[i] = b
                                                THEN NoHash ELSE hash[b]])
    BY RegisteredFills
  <2> QED BY <1>5, <2>1
<1>8. PICK x \in {"running", "loading"} : status' = [status EXCEPT ![r] = x]
  BY <1>5
<1>9. x \in Statuses \ Empty
  BY DEF Statuses, Empty
<1>10. /\ HashesOK' /\ TablesOK' /\ EntriesOK'
       /\ \A b \in Block : b \notin FreeBlocks \/ b \in Retained(p) => hash'[b] = hash[b]
  BY <1>3, <1>4, <1>5, <1>6, <1>7, <1>8, <1>9, AdmissionKeeps
<1>11. LeasesOK'
  <2>1. PICK copies : Pin(r, p, copies)
    BY <1>5
  <2> QED BY <1>10, <2>1, PinKeeps
<1>12. Admits(r, known, Plan(r, known))
  BY <1>1, <1>2, <1>3, <1>5, <1>10 DEF Admits, n
<1> QED BY <1>10, <1>11, <1>12 DEF PoolInv

(* A plan that was kept is pinned: hashes stay.                            *)
LEMMA AdmitLoadedKeeps ==
  ASSUME PoolInv, NEW r \in Request, AdmitLoaded(r)
  PROVE  PoolInv'
<1>1. /\ status[r] = "loaded" /\ status' = [status EXCEPT ![r] = "running"]
      /\ table' = table /\ hash' = hash /\ index' = index
      /\ Pin(r, plan[r], Forwarded(plan[r]))
  BY DEF AdmitLoaded, sources
<1>2. HashesOK'
  BY <1>1 DEF PoolInv, HashesOK
<1>3. status' \in [Request -> Statuses]
  BY <1>1 DEF PoolInv, TablesOK, Statuses
<1>4. \A q \in Request : status'[q] \in Empty \cup {"finished"} => status'[q] = status[q]
  BY <1>1, <1>3 DEF PoolInv, TablesOK, Empty
<1>5. TablesOK'
  BY <1>1, <1>3, <1>4 DEF PoolInv, TablesOK, Carries, HashOf, FullBlocks
<1>6. \A q \in Request : status[q] = "finished" => status'[q] = "finished"
  BY <1>1 DEF PoolInv, TablesOK
<1>7. EntriesOK'
  BY <1>1, <1>6 DEF PoolInv, EntriesOK, IsLeftBy, HashOf, FullBlocks
<1>8. LeasesOK'
  BY <1>1, PinKeeps
<1> QED BY <1>2, <1>5, <1>7, <1>8 DEF PoolInv

(* A preempted request gives its blocks back.                              *)
LEMMA PreemptKeeps ==
  ASSUME PoolInv, NEW r \in Request, Preempt(r)
  PROVE  PoolInv'
<1> DEFINE none == << >>
<1>1. /\ status[r] = "running" /\ status' = [status EXCEPT ![r] = "preempted"]
      /\ table' = [table EXCEPT ![r] = none] /\ hash' = hash /\ index' = index
      /\ leases' = leases
  BY DEF Preempt, sources
<1>2. none \in Seq(Block) /\ IsInjective(none) /\ DOMAIN none = {} /\ ToSet(none) = {}
  BY DEF IsInjective, ToSet
<1> HIDE DEF none
<1>3. status \in [Request -> Statuses] /\ table \in [Request -> Seq(Block)]
  BY DEF PoolInv, TablesOK
<1>4. /\ status' \in [Request -> Statuses] /\ table' \in [Request -> Seq(Block)]
      /\ table'[r] = none /\ \A q \in Request \ {r} : table'[q] = table[q] /\ status'[q] = status[q]
  BY <1>1, <1>2, <1>3 DEF Statuses
<1>5. TablesOK'
  <2>1. ASSUME NEW q \in Request
        PROVE  /\ IsInjective(table'[q]) /\ Carries(q, table'[q], hash)
               /\ status'[q] \in Empty => table'[q] = << >>
    <3>1. CASE q = r
      BY <1>2, <1>4, <3>1 DEF Carries, none
    <3>2. CASE q # r
      BY <1>4, <3>2 DEF PoolInv, TablesOK
    <3> QED BY <3>1, <3>2
  <2>2. ASSUME NEW q \in Request, NEW s \in Request,
               NEW b \in ToSet(table'[q]) \cap ToSet(table'[s]), hash[b] = NoHash
        PROVE  q = s
    <3>1. q # r /\ s # r
      BY <1>2, <1>4, <2>2
    <3>2. table'[q] = table[q] /\ table'[s] = table[s]
      BY <1>4, <3>1
    <3> QED BY <2>2, <3>2 DEF PoolInv, TablesOK
  <2> QED BY <1>1, <1>4, <2>1, <2>2 DEF TablesOK, Carries, HashOf, FullBlocks
<1>6. HashesOK' /\ LeasesOK'
  BY <1>1 DEF PoolInv, HashesOK, LeasesOK, HashOf, FullBlocks
<1>7. \A q \in Request : status[q] = "finished" => status'[q] = "finished"
  BY <1>1, <1>4
<1>8. EntriesOK'
  BY <1>1, <1>7 DEF PoolInv, EntriesOK, IsLeftBy, HashOf, FullBlocks
<1> QED BY <1>5, <1>6, <1>8 DEF PoolInv

(* At the start nothing is held, hashed, indexed or pinned.                *)
LEMMA PoolInvInit == Init => PoolInv
<1> SUFFICES ASSUME Init PROVE PoolInv
  OBVIOUS
<1> DEFINE none == << >>
<1>1. /\ status = [r \in Request |-> "waiting"] /\ table = [r \in Request |-> none]
      /\ hash = [b \in Block |-> NoHash] /\ index = << >> /\ leases = {}
  BY DEF Init
<1>2. none \in Seq(Block) /\ IsInjective(none) /\ DOMAIN none = {} /\ ToSet(none) = {}
  BY DEF IsInjective, ToSet
<1>3. DOMAIN index = {}
  BY <1>1
<1>4. HashesOK /\ EntriesOK /\ LeasesOK
  BY <1>1, <1>3 DEF HashesOK, EntriesOK, LeasesOK
<1>5. \A r \in Request : table[r] = none /\ status[r] = "waiting"
  BY <1>1
<1>6. \A r \in Request : IsInjective(table[r]) /\ ToSet(table[r]) = {} /\ Carries(r, table[r], hash)
  BY <1>2, <1>5 DEF Carries
<1>7. \A r \in Request : table[r] = << >>
  BY <1>5
<1> HIDE DEF none
<1>8. status \in [Request -> Statuses] /\ table \in [Request -> Seq(Block)]
  BY <1>1, <1>2 DEF Statuses
<1>9. TablesOK
  BY <1>6, <1>7, <1>8 DEF TablesOK
<1> QED BY <1>4, <1>9 DEF PoolInv

LEMMA PoolInvNext == PoolInv /\ [Next]_vars => PoolInv'
<1> SUFFICES ASSUME PoolInv, [Next]_vars PROVE PoolInv'
  OBVIOUS
<1>1. ASSUME UNCHANGED <<status, table, hash, index>>, leases' \subseteq leases
      PROVE  PoolInv'
  BY <1>1 DEF PoolInv, HashesOK, TablesOK, EntriesOK, LeasesOK, Carries, IsLeftBy, HashOf,
              FullBlocks
<1>2. ASSUME NEW r \in Request, Refuse(r) PROVE PoolInv'
  BY <1>1, <1>2 DEF Refuse, requests, sources
<1>3. ASSUME NEW l \in leases, StepDone(l) PROVE PoolInv'
  BY <1>1, <1>3 DEF StepDone, requests, sources
<1>4. CASE UNCHANGED vars
  BY <1>1, <1>4 DEF vars, requests, sources
<1> QED
  BY <1>2, <1>3, <1>4, AdmitKeeps, AdmitLoadedKeeps, PreemptKeeps, LoadKeeps, FinishKeeps,
     ResetKeeps DEF Next

-----------------------------------------------------------------------------
(* What a request chooses.                                                 *)

(* The windows of a prompt are finitely many.                              *)
LEMMA FingerprintFinite ==
  ASSUME NEW tokens, Len(tokens) \in Nat
  PROVE  IsFiniteSet(Fingerprint(tokens))
<1> DEFINE D == 1 .. Len(tokens) - FingerprintWindow + 1
           f == [i \in D |-> SubSeq(tokens, i, i + FingerprintWindow - 1)]
           T == Fingerprint(tokens)
<1>1. FingerprintWindow \in Nat
  BY SourceAssumption
<1>2. 1 \in Int /\ Len(tokens) - FingerprintWindow + 1 \in Int
  BY <1>1
<1>3. IsFiniteSet(D)
  BY <1>2, FS_Interval
<1>4. T = {f[i] : i \in D}
  BY DEF Fingerprint
<1>5. f = [i \in D |-> f[i]]
  OBVIOUS
<1> HIDE DEF D, f, T
<1>6. f \in Surjection(D, T)
  BY <1>4, <1>5 DEF Surjection
<1>7. IsFiniteSet(T)
  BY <1>3, <1>6, FS_Surjection
<1> QED BY <1>7 DEF T

(* Some place has the greatest value, and is the last that has it.         *)
LEMMA GreatestLast ==
  ASSUME NEW E \in SUBSET Nat, E # {}, NEW f, NEW m \in Nat, NEW n \in Nat,
         \A j \in E : j <= n /\ f[j] \in Nat /\ f[j] <= m
  PROVE  \E j \in E : \A k \in E : f[k] < f[j] \/ (f[k] = f[j] /\ k <= j)
<1> DEFINE V == {x \in Nat : \E j \in E : x = m - f[j]}
<1>1. V \in SUBSET Nat /\ V # {}
  <2>1. PICK j \in E : TRUE
    OBVIOUS
  <2>2. m - f[j] \in Nat
    BY <2>1
  <2> QED BY <2>1, <2>2
<1>2. PICK x \in V : \A y \in V : x <= y
  <2> HIDE DEF V
  <2> QED BY <1>1, NatMin
<1>3. PICK b \in E : x = m - f[b]
  BY <1>2
<1>4. \A k \in E : f[k] <= f[b]
  <2> SUFFICES ASSUME NEW k \in E PROVE f[k] <= f[b]
    OBVIOUS
  <2>1. m - f[k] \in V
    OBVIOUS
  <2>2. m - f[b] <= m - f[k]
    BY <1>2, <1>3, <2>1
  <2> QED BY <1>3, <2>2
<1> DEFINE W == {y \in Nat : \E j \in E : f[j] = f[b] /\ y = n - j}
<1>5. W \in SUBSET Nat /\ W # {}
  <2>1. n - b \in Nat
    BY <1>3
  <2> QED BY <1>3, <2>1
<1>6. PICK y \in W : \A z \in W : y <= z
  <2> HIDE DEF W
  <2> QED BY <1>5, NatMin
<1>7. PICK j \in E : f[j] = f[b] /\ y = n - j
  BY <1>6
<1>8. ASSUME NEW k \in E PROVE f[k] < f[j] \/ (f[k] = f[j] /\ k <= j)
  <2>1. f[k] <= f[j] /\ f[k] \in Nat /\ f[j] \in Nat /\ k \in Nat /\ j \in Nat
    BY <1>4, <1>7, <1>8
  <2>2. CASE f[k] = f[j]
    <3>1. n - k \in W
      BY <1>7, <2>2
    <3>2. n - j <= n - k
      BY <1>6, <1>7, <3>1
    <3> QED BY <2>1, <2>2, <3>2
  <2>3. CASE f[k] # f[j]
    BY <2>1, <2>3
  <2> QED BY <2>2, <2>3
<1> QED BY <1>8

ChoiceTypes == [source : RequestId \cup {NoSource}, how : {"explicit", "session", "fingerprint"}]

(* The source found by fingerprint is an indexed one: of finitely many     *)
(* there is a last with the most windows in common.                        *)
LEMMA FingerprintSourceTyped ==
  ASSUME IndexInv, PoolInv, NEW r \in Request, NEW native \in Nat, NEW exclude
  PROVE  FingerprintSource(r, native, exclude) \in RequestId \cup {NoSource}
<1> DEFINE tokens == SubSeq(Prompt[r], native + 1, Len(Prompt[r]))
           target == Fingerprint(tokens)
           shared(j) == Cardinality(target \cap Fingerprint(index[order[j]].prompt))
           eligible == {j \in DOMAIN order :
                          /\ j > Len(order) - SearchLimit
                          /\ order[j] \notin {Id[r], exclude}
                          /\ Usable(r, order[j])
                          /\ shared(j) >= MinShared}
           best(j) == \A k \in eligible :
                        shared(k) < shared(j) \/ (shared(k) = shared(j) /\ k <= j)
<1>1. /\ order \in Seq(RequestId) /\ Len(order) \in Nat /\ DOMAIN order = 1 .. Len(order)
      /\ \A j \in DOMAIN order : order[j] \in RequestId /\ j \in Nat /\ j <= Len(order)
  BY DEF IndexInv, IndexTypes
<1>2. IsFiniteSet(target)
  <2>1. Prompt[r] \in Seq(Nat) /\ Len(Prompt[r]) \in Nat
    BY SourceAssumption
  <2>2. Len(tokens) = IF native + 1 <= Len(Prompt[r]) THEN Len(Prompt[r]) - (native + 1) + 1 ELSE 0
    <3>1. native + 1 \in Int /\ \A i \in native + 1 .. Len(Prompt[r]) : Prompt[r][i] \in Nat
      BY <2>1
    <3> QED BY <2>1, <3>1, SubSeqProperties
  <2>3. Len(tokens) \in Nat
    BY <2>1, <2>2
  <2> HIDE DEF tokens
  <2> QED BY <2>3, FingerprintFinite
<1>3. Cardinality(target) \in Nat
  BY <1>2, FS_CardinalityType
<1> HIDE DEF target
<1>4. \A j : shared(j) \in Nat /\ shared(j) <= Cardinality(target)
  <2> SUFFICES ASSUME NEW j PROVE shared(j) \in Nat /\ shared(j) <= Cardinality(target)
    OBVIOUS
  <2> DEFINE other == Fingerprint(index[order[j]].prompt)
  <2> HIDE DEF other
  <2>1. /\ IsFiniteSet(target \cap other)
        /\ Cardinality(target \cap other) <= Cardinality(target)
    BY <1>2, FS_Intersection
  <2>2. Cardinality(target \cap other) \in Nat
    BY <2>1, FS_CardinalityType
  <2> QED BY <2>1, <2>2 DEF other
<1>5. FingerprintSource(r, native, exclude) =
        IF eligible = {} THEN NoSource ELSE order[CHOOSE j \in eligible : best(j)]
  BY DEF FingerprintSource, target
<1>6. eligible \subseteq DOMAIN order
  OBVIOUS
<1> HIDE DEF shared, eligible
<1>7. CASE eligible # {}
  <2> DEFINE f == [j \in eligible |-> shared(j)]
  <2>1. \A j \in eligible : f[j] = shared(j)
    OBVIOUS
  <2>2. \A j \in eligible : j <= Len(order) /\ f[j] \in Nat /\ f[j] <= Cardinality(target)
    BY <1>1, <1>4, <1>6
  <2>3. eligible \in SUBSET Nat
    BY <1>1, <1>6
  <2> HIDE DEF f
  <2>4. \E j \in eligible : \A k \in eligible : f[k] < f[j] \/ (f[k] = f[j] /\ k <= j)
    BY <1>1, <1>3, <1>7, <2>2, <2>3, GreatestLast
  <2>5. \E j \in eligible : best(j)
    BY <2>1, <2>4
  <2> HIDE DEF best
  <2>6. (CHOOSE j \in eligible : best(j)) \in eligible
    BY <2>5
  <2> QED BY <1>1, <1>5, <1>6, <1>7, <2>6
<1> QED BY <1>5, <1>7

(* locate() chooses a source by its name, or none.                         *)
LEMMA LocatedTyped ==
  ASSUME IndexInv, PoolInv, ChoicesOK, NEW r \in Request, NEW native \in Nat
  PROVE  /\ Located(r, native) \in ChoiceTypes
         /\ choice[r].how = "explicit" /\ choice[r].source # NoSource =>
              Located(r, native) = choice[r]
<1>1. choice[r] \in ChoiceTypes
  BY DEF ChoicesOK, ChoiceTypes
<1>2. \A x : FingerprintSource(r, native, x) \in RequestId \cup {NoSource}
  BY FingerprintSourceTyped
<1>3. \A i \in RequestId \cup {NoSource} :
        Selected(i, "session") \in ChoiceTypes /\ Selected(i, "fingerprint") \in ChoiceTypes
  BY DEF Selected, ChoiceTypes
<1>4. SessionOf[r] # NoSession => latest[SessionOf[r]] \in RequestId \cup {NoSource}
  BY SourceAssumption DEF IndexInv, IndexTypes
<1>5. AutomaticSource(r, native) \in ChoiceTypes
  <2>1. AutomaticSource(r, native) =
          IF SessionOf[r] # NoSession /\ latest[SessionOf[r]] # NoSource
               /\ Usable(r, latest[SessionOf[r]])
          THEN Selected(latest[SessionOf[r]], "session")
          ELSE IF r \in AutoSource /\ FingerprintSource(r, native, NoSource) # NoSource
          THEN Selected(FingerprintSource(r, native, NoSource), "fingerprint")
          ELSE choice[r]
    BY DEF AutomaticSource
  <2> QED BY <1>1, <1>2, <1>3, <1>4, <2>1
<1> DEFINE first == IF choice[r].source # NoSource THEN choice[r] ELSE AutomaticSource(r, native)
           fallback == FingerprintSource(r, native, first.source)
<1>6. Located(r, native) \in {first, Selected(fallback, "fingerprint")}
  BY DEF Located
<1>7. first.how # "session" => Located(r, native) = first
  BY DEF Located
<1>8. first \in ChoiceTypes
  BY <1>1, <1>5
<1> HIDE DEF first
<1> QED BY <1>2, <1>3, <1>6, <1>7, <1>8 DEF first

(* A lookup hits a number of whole blocks.                                 *)
LEMMA NativeTokens ==
  ASSUME NEW r \in Request, NEW known \in Known(r)
  PROVE  Hit(r, known) * BlockSize \in Nat
<1>1. known - 1 \in Nat
  BY KnownTokens
<1>2. Hit(r, known) \in Nat
  BY <1>1, HitIs DEF Hit
<1>3. BlockSize \in Nat
  BY SourceAssumption
<1> QED BY <1>2, <1>3

(* Choosing keeps the choices: a source that the client named is chosen as *)
(* long as the request lasts.                                              *)
LEMMA LocatedKeeps ==
  ASSUME IndexInv, PoolInv, ChoicesOK, NEW r \in Request, NEW known \in Known(r),
         choice' = [choice EXCEPT ![r] = Located(r, Hit(r, known) * BlockSize)],
         status[r] # "finished",
         \A q \in Request : status[q] = "finished" => status'[q] = "finished"
  PROVE  ChoicesOK'
<1> DEFINE new == Located(r, Hit(r, known) * BlockSize)
<1>1. /\ new \in ChoiceTypes
      /\ choice[r].how = "explicit" /\ choice[r].source # NoSource => new = choice[r]
  <2>1. Hit(r, known) * BlockSize \in Nat
    BY NativeTokens
  <2> QED BY <2>1, LocatedTyped
<1>2. choice' = [choice EXCEPT ![r] = new] /\ choice \in [Request -> ChoiceTypes]
  BY DEF ChoicesOK, ChoiceTypes
<1> HIDE DEF new
<1>3. choice' \in [Request -> ChoiceTypes]
  BY <1>1, <1>2
<1>4. ASSUME NEW q \in Request, Named[q] # NoSource, status'[q] # "finished"
      PROVE  choice'[q] = Selected(Named[q], "explicit")
  <2>1. choice[q] = Selected(Named[q], "explicit")
    BY <1>4 DEF ChoicesOK
  <2>2. choice'[q] = IF q = r THEN new ELSE choice[q]
    BY <1>2
  <2>3. choice[q].how = "explicit" /\ choice[q].source = Named[q]
    BY <2>1 DEF Selected
  <2> QED BY <1>1, <1>4, <2>1, <2>2, <2>3
<1> QED BY <1>3, <1>4 DEF ChoicesOK, ChoiceTypes

-----------------------------------------------------------------------------
(* The types of the state.                                                 *)

TypesInv == IndexInv /\ PoolInv /\ ChoicesOK /\ Len(order) <= MaxSources

(* index() keeps at most max_source_requests sources.                      *)
LEMMA IndexStaysBounded ==
  ASSUME IndexInv, Len(order) <= MaxSources, NEW r \in Request, IndexSource(r)
  PROVE  Len(order') <= MaxSources
<1> DEFINE m == MovedToEnd(Id[r])
<1>1. /\ order \in Seq(RequestId) /\ IsInjective(order) /\ Len(order) \in Nat
      /\ IndexTypes /\ Ordered /\ Id[r] \in RequestId /\ MaxSources \in Nat
  BY SourceAssumption DEF IndexInv, IndexTypes, Ordered
<1>2. m \in Seq(RequestId)
  BY <1>1, MovedElements
<1>3. Len(m) \in Nat /\ Len(m) <= Len(order) + 1
  <2>1. m = Append(RemoveFirst(order, Id[r]), Id[r])
    BY DEF MovedToEnd
  <2> HIDE DEF m
  <2>2. \E k \in 1 .. Len(order) + 1 :
          Len(m) = (IF k <= Len(order) THEN Len(order) ELSE Len(order) + 1)
    <3> DEFINE id == Id[r]
    <3> HIDE DEF id
    <3>1. id \in RequestId /\ m = Append(RemoveFirst(order, id), id)
      BY <1>1, <2>1 DEF id
    <3> QED BY <1>1, <3>1, MoveToEndPlaces
  <2> QED BY <1>1, <2>2
<1>4. order' = IF TooMany(m) THEN Tail(m) ELSE m
  BY DEF IndexSource
<1> HIDE DEF m
<1>5. CASE TooMany(m)
  <2>1. Len(m) > MaxSources /\ m # << >>
    <3>1. Len(m) > MaxSources
      BY <1>5 DEF TooMany
    <3> QED BY <1>1, <1>3, <3>1
  <2>2. Len(Tail(m)) = Len(m) - 1
    BY <1>2, <2>1, TailElements
  <2> QED BY <1>1, <1>3, <1>4, <1>5, <2>2
<1>6. CASE ~ TooMany(m)
  BY <1>1, <1>3, <1>4, <1>6 DEF TooMany
<1> QED BY <1>5, <1>6

LEMMA TypesInvInit == Init => TypesInv
<1> SUFFICES ASSUME Init PROVE TypesInv
  OBVIOUS
<1>1. /\ order = << >> /\ choice = [r \in Request |-> Selected(Named[r], "explicit")]
  BY DEF Init, Selected
<1>2. Len(order) <= MaxSources
  BY <1>1, SourceAssumption
<1>3. \A r \in Request : Selected(Named[r], "explicit") \in ChoiceTypes
  BY SourceAssumption DEF ChoiceTypes, Selected
<1>4. choice \in [Request -> ChoiceTypes]
  BY <1>1, <1>3
<1>5. ChoicesOK
  BY <1>1, <1>4 DEF ChoicesOK, ChoiceTypes
<1> QED BY <1>2, <1>5, IndexInvInit, PoolInvInit DEF TypesInv

(* Every step keeps them; a request that has ended stays so.               *)
LEMMA TypesInvNext == TypesInv /\ [Next]_vars => TypesInv'
<1> SUFFICES ASSUME TypesInv, [Next]_vars PROVE TypesInv'
  OBVIOUS
<1>1. IndexInv /\ PoolInv /\ ChoicesOK /\ Len(order) <= MaxSources
  BY DEF TypesInv
<1>2. IndexInv' /\ PoolInv'
  BY <1>1, IndexInvNext, PoolInvNext
<1>3. status \in [Request -> Statuses] /\ choice \in [Request -> ChoiceTypes]
  BY <1>1 DEF PoolInv, TablesOK, ChoicesOK, ChoiceTypes
<1>4. ASSUME choice' = choice,
             \A q \in Request : status[q] = "finished" => status'[q] = "finished"
      PROVE  ChoicesOK'
  BY <1>1, <1>4 DEF ChoicesOK
<1>5. ASSUME NEW r \in Request, Admit(r) \/ Refuse(r)
      PROVE  ChoicesOK' /\ order' = order
  <2>1. status[r] \in {"waiting", "preempted"} /\ order' = order
    BY <1>5 DEF Admit, Refuse, sources
  <2>2. \A q \in Request : status[q] = "finished" => status'[q] = "finished"
    <3>1. \E x : status' = [status EXCEPT ![r] = x] \/ status' = status
      BY <1>5 DEF Admit, Refuse, requests
    <3> QED BY <1>3, <2>1, <3>1
  <2>3. PICK known \in Known(r) :
          choice' = [choice EXCEPT ![r] = Located(r, Hit(r, known) * BlockSize)]
    <3>1. CASE Admit(r)
      BY <1>1, <3>1, AdmitKeeps DEF Admits
    <3>2. CASE Refuse(r)
      BY <3>2 DEF Refuse, Hit
    <3> QED BY <1>5, <3>1, <3>2
  <2> QED BY <1>1, <2>1, <2>2, <2>3, LocatedKeeps
<1>6. ASSUME NEW r \in Request, LoadDone(r) \/ AdmitLoaded(r) \/ Preempt(r)
      PROVE  ChoicesOK' /\ order' = order
  <2>1. /\ choice' = choice /\ order' = order /\ status[r] # "finished"
        /\ \E x : status' = [status EXCEPT ![r] = x]
    BY <1>6 DEF LoadDone, AdmitLoaded, Preempt, chosen, sources
  <2> QED BY <1>3, <1>4, <2>1
<1>7. ASSUME NEW r \in Request, Finish(r)
      PROVE  ChoicesOK' /\ Len(order') <= MaxSources
  <2>1. /\ status' = [status EXCEPT ![r] = "finished"]
        /\ choice' = [choice EXCEPT ![r] = Selected(NoSource, "explicit")] /\ IndexSource(r)
    BY <1>7 DEF Finish
  <2>2. Selected(NoSource, "explicit") \in ChoiceTypes
    BY DEF Selected, ChoiceTypes
  <2>3. choice' \in [Request -> ChoiceTypes]
    BY <1>3, <2>1, <2>2
  <2>4. \A q \in Request : status'[q] # "finished" => q # r /\ status[q] # "finished"
                                                     /\ choice'[q] = choice[q]
    BY <1>3, <2>1
  <2>5. ChoicesOK'
    BY <1>1, <2>3, <2>4 DEF ChoicesOK, ChoiceTypes
  <2> QED BY <1>1, <2>1, <2>5, IndexStaysBounded
<1>8. ASSUME NEW l \in leases, StepDone(l) PROVE ChoicesOK' /\ order' = order
  BY <1>4, <1>8 DEF StepDone, chosen, requests, sources
<1>9. CASE Reset
  <2>1. order' = << >> /\ choice' = choice /\ status' = status
    BY <1>9 DEF Reset, chosen, requests
  <2> QED BY <1>2, <1>4, <2>1, SourceAssumption DEF TypesInv
<1>10. CASE UNCHANGED vars
  BY <1>1, <1>2, <1>4, <1>10 DEF vars, chosen, requests, sources, TypesInv
<1> QED
  BY <1>1, <1>2, <1>5, <1>6, <1>7, <1>8, <1>9, <1>10 DEF Next, TypesInv

(* The state keeps its types: a block that has a hash was filled with the  *)
(* tokens of a prompt, no request holds more blocks than there are, no     *)
(* more sources are kept than max_source_requests, and what a step pins    *)
(* are blocks.                                                             *)
THEOREM SourceTypes == Spec => []TypeOK
<1>1. ASSUME TypesInv PROVE TypeOK
  <2>1. IndexInv /\ PoolInv /\ ChoicesOK /\ Len(order) <= MaxSources
    BY <1>1 DEF TypesInv
  <2>2. ASSUME NEW r \in Request PROVE table[r] \in BoundedSeq(Block, Cardinality(Block))
    <3>1. table[r] \in Seq(Block) /\ IsInjective(table[r])
      BY <2>1 DEF PoolInv, TablesOK
    <3> DEFINE s == table[r]
    <3> HIDE DEF s
    <3>2. s \in Seq(Block) /\ IsInjective(s)
      BY <3>1 DEF s
    <3>3. ToSet(s) \subseteq Block /\ Len(s) \in Nat
      BY <3>2 DEF ToSet
    <3>4. Cardinality(ToSet(s)) = Len(s)
      BY <3>2, ElementCount
    <3>5. Len(s) <= Cardinality(Block) /\ Cardinality(Block) \in Nat
      BY <3>3, <3>4, FS_Subset, FS_CardinalityType, SourceAssumption
    <3>6. s \in [1 .. Len(s) -> Block] /\ Len(s) \in 0 .. Cardinality(Block)
      BY <3>2, <3>3, <3>5
    <3>7. s \in BoundedSeq(Block, Cardinality(Block))
      BY <3>6 DEF BoundedSeq, SeqOf
    <3> QED BY <3>7 DEF s
  <2>3. order \in BoundedSeq(RequestId, MaxSources)
    <3>1. order \in Seq(RequestId) /\ Len(order) \in Nat /\ MaxSources \in Nat
      BY <2>1, SourceAssumption DEF IndexInv, IndexTypes
    <3>2. order \in [1 .. Len(order) -> RequestId] /\ Len(order) \in 0 .. MaxSources
      BY <2>1, <3>1
    <3> QED BY <3>2 DEF BoundedSeq, SeqOf
  <2>4. ASSUME NEW i \in DOMAIN index PROVE index[i].session \in Session \cup {NoSession}
    <3>1. PICK q \in Request : IsLeftBy(q, index[i])
      BY <2>1 DEF PoolInv, EntriesOK
    <3> QED BY <3>1, SourceAssumption DEF IsLeftBy
  <2>5. /\ status \in [Request -> Statuses]
        /\ latest \in [Session -> RequestId \cup {NoSource}]
    BY <2>1 DEF PoolInv, TablesOK, IndexInv, IndexTypes
  <2>6. HashesOK /\ LeasesOK
    BY <2>1 DEF PoolInv
  <2>7. \A r \in Request : choice[r] \in ChoiceTypes
    BY <2>1 DEF ChoicesOK, ChoiceTypes
  <2> QED
    BY <2>2, <2>3, <2>4, <2>5, <2>6, <2>7
       DEF TypeOK, Statuses, HashesOK, LeasesOK, ChoiceTypes
<1> QED BY <1>1, TypesInvInit, TypesInvNext, PTL DEF Spec

-----------------------------------------------------------------------------
(* What a plan maps.                                                       *)

(* The plan's source, while it is indexed, has the windows the plan says.  *)
PlanFits(r, p) ==
  p.candidates # {} /\ p.source \in DOMAIN index =>
    /\ index[p.source].domain = Domain[r]
    /\ \A c \in p.candidates : Matches(r, index[p.source], c)

(* A plan just made fits, and keeps to the source the client named.        *)
LEMMA FreshPlan ==
  ASSUME TypesInv, NEW r \in Request, NEW known \in Known(r), status[r] # "finished",
         NEW p, p = Plan(r, known)
  PROVE  /\ PlanFits(r, p)
         /\ p.candidates # {} => p.source \in DOMAIN index /\ Named[r] \in {NoSource, p.source}
<1> DEFINE native == Hit(r, known) * BlockSize
           i == Located(r, native).source
<1>1. native \in Nat
  BY NativeTokens
<1>2. p = IF i = NoSource THEN NoPlan ELSE [source |-> i, candidates |-> Found(r, i, native)]
  BY DEF Plan, Planned
<1>3. Named[r] # NoSource => i = Named[r]
  <2>1. ASSUME Named[r] # NoSource
        PROVE  choice[r].how = "explicit" /\ choice[r].source = Named[r]
    BY <2>1 DEF TypesInv, ChoicesOK, Selected
  <2>2. choice[r].how = "explicit" /\ choice[r].source # NoSource =>
          Located(r, native) = choice[r]
    BY <1>1, LocatedTyped DEF TypesInv
  <2> QED BY <2>1, <2>2
<1> HIDE DEF i
<1>4. SUFFICES ASSUME p.candidates # {}
               PROVE  /\ p.source \in DOMAIN index /\ Named[r] \in {NoSource, p.source}
                      /\ index[p.source].domain = Domain[r]
                      /\ \A c \in p.candidates : Matches(r, index[p.source], c)
  BY DEF PlanFits
<1>5. p.source = i /\ p.candidates = Found(r, i, native)
  BY <1>2, <1>4 DEF NoPlan
<1>6. Comparable(r, i) /\ p.candidates = Candidates(r, index[i], native)
  BY <1>4, <1>5 DEF Found
<1>7. i \in DOMAIN index /\ index[i].domain = Domain[r]
  BY <1>6 DEF Comparable
<1>8. Len(index[i].prompt) \in Nat
  <2>1. PICK q \in Request : IsLeftBy(q, index[i])
    BY <1>7 DEF TypesInv, PoolInv, EntriesOK
  <2>2. Prompt[q] \in Seq(Nat)
    BY SourceAssumption
  <2> QED BY <2>1, <2>2 DEF IsLeftBy
<1>9. \A c \in Candidates(r, index[i], native) : Matches(r, index[i], c)
  <2>1. native \in Int
    BY <1>1
  <2> HIDE DEF native
  <2> QED BY <1>8, <2>1, CandidatesMatch
<1> QED BY <1>3, <1>5, <1>6, <1>7, <1>9

(* What the plans' invariant says of the next state.                       *)
LEMMA PlansNext ==
  /\ DOMAIN plan' = Request
  /\ \A r \in Request : PlanOK(r, plan'[r], index', status')
  => PlansOK'
BY DEF PlansOK, PlanOK, Matches, Spanned, Spelled

(* A plan stays right while the entries do and who has ended has.          *)
LEMMA PlanStays ==
  ASSUME NEW r \in Request, PlansOK, plan'[r].candidates # {} => plan'[r] = plan[r],
         plan[r].source \in DOMAIN index' =>
           plan[r].source \in DOMAIN index /\ index'[plan[r].source] = index[plan[r].source],
         \A q \in Request : status[q] = "finished" => status'[q] = "finished"
  PROVE  PlanOK(r, plan'[r], index', status')
<1>1. CASE plan'[r].candidates = {}
  BY <1>1 DEF PlanOK
<1>2. CASE plan'[r].candidates # {}
  <2> DEFINE p == plan[r]
  <2>1. plan'[r] = p /\ p.candidates # {} /\ PlanOK(r, p, index, status)
    BY <1>2 DEF PlansOK
  <2> HIDE DEF p
  <2>2. p.source \in DOMAIN index' => p.source \in DOMAIN index /\ index'[p.source] = index[p.source]
    BY DEF p
  <2> QED BY <2>1, <2>2 DEF PlanOK
<1> QED BY <1>1, <1>2

(* Plans outlive what else happens while their requests load: the source   *)
(* they map is never replaced by another with its id.                      *)
LEMMA PlansKeep ==
  ASSUME LoadedSourcesAreUnique, TypesInv, PlansOK, [Next]_vars
  PROVE  PlansOK'
<1>1. /\ status \in [Request -> Statuses] /\ DOMAIN plan = Request
      /\ EntriesOK /\ PoolInv /\ IndexInv
  BY DEF TypesInv, PoolInv, TablesOK, PlansOK
<1>2. ASSUME plan' = plan, index' = index,
             \A q \in Request : status[q] = "finished" => status'[q] = "finished"
      PROVE  PlansOK'
  BY <1>1, <1>2, PlanStays, PlansNext
<1>3. ASSUME NEW r \in Request, Admit(r) PROVE PlansOK'
  <2>1. status[r] \in {"waiting", "preempted"}
    BY <1>3 DEF Admit
  <2>2. PICK known \in Known(r) : Admits(r, known, Plan(r, known))
    BY <1>1, <1>3, AdmitKeeps
  <2> DEFINE p == Plan(r, known)
  <2>3. /\ PlanFits(r, p)
        /\ p.candidates # {} => p.source \in DOMAIN index /\ Named[r] \in {NoSource, p.source}
    BY <2>1, FreshPlan
  <2>4. index' = index /\ \E x : status' = [status EXCEPT ![r] = x]
    BY <2>2 DEF Admits, sources
  <2>5. plan' = plan \/ (r \in Remote /\ plan' = [plan EXCEPT ![r] = p])
    BY <2>2 DEF Admits
  <2>6. \A q \in Request : status[q] = "finished" => status'[q] = "finished"
    BY <1>1, <2>1, <2>4
  <2> HIDE DEF p
  <2>7. CASE plan' = plan
    BY <1>2, <2>4, <2>6, <2>7
  <2>8. CASE r \in Remote /\ plan' = [plan EXCEPT ![r] = p]
    <3>1. DOMAIN plan' = Request /\ plan'[r] = p
      BY <1>1, <2>8
    <3>2. PlanOK(r, p, index, status')
      <4>1. p.candidates # {} => \E s \in Request : Id[s] = p.source /\ status[s] = "finished"
        BY <1>1, <2>3 DEF EntriesOK
      <4>2. p.candidates # {} => \E s \in Request : Id[s] = p.source /\ status'[s] = "finished"
        BY <2>6, <4>1
      <4> QED BY <2>3, <2>8, <4>2 DEF PlanOK, PlanFits
    <3>3. ASSUME NEW q \in Request, q # r PROVE PlanOK(q, plan'[q], index', status')
      <4>1. plan'[q] = plan[q]
        BY <1>1, <2>8, <3>3
      <4> QED BY <2>4, <2>6, <4>1, PlanStays
    <3> QED BY <2>4, <3>1, <3>2, <3>3, PlansNext
  <2> QED BY <2>5, <2>7, <2>8
<1>4. ASSUME NEW r \in Request, AdmitLoaded(r) PROVE PlansOK'
  <2>1. /\ status[r] = "loaded" /\ status' = [status EXCEPT ![r] = "running"]
        /\ plan' = [plan EXCEPT ![r] = NoPlan] /\ index' = index
    BY <1>4 DEF AdmitLoaded, sources
  <2>2. DOMAIN plan' = Request
    BY <1>1, <2>1
  <2>3. \A q \in Request : plan'[q].candidates # {} => plan'[q] = plan[q]
    BY <1>1, <2>1 DEF NoPlan
  <2>4. \A q \in Request : status[q] = "finished" => status'[q] = "finished"
    BY <1>1, <2>1
  <2> QED BY <2>1, <2>2, <2>3, <2>4, PlanStays, PlansNext
<1>5. ASSUME NEW r \in Request, Finish(r) PROVE PlansOK'
  <2>1. /\ status[r] # "finished" /\ status' = [status EXCEPT ![r] = "finished"]
        /\ plan' = [plan EXCEPT ![r] = NoPlan] /\ IndexSource(r)
    BY <1>5 DEF Finish
  <2>2. DOMAIN plan' = Request
    BY <1>1, <2>1
  <2>3. \A q \in Request : plan'[q].candidates # {} => plan'[q] = plan[q]
    BY <1>1, <2>1 DEF NoPlan
  <2>4. \A q \in Request : status[q] = "finished" => status'[q] = "finished"
    BY <1>1, <2>1
  <2>5. ASSUME NEW q \in Request PROVE PlanOK(q, plan'[q], index', status')
    <3>1. CASE plan'[q].candidates = {}
      BY <3>1 DEF PlanOK
    <3>2. CASE plan'[q].candidates # {}
      <4> DEFINE i == plan[q].source
      <4>1. plan[q].candidates # {} /\ PlanOK(q, plan[q], index, status)
        BY <2>3, <3>2 DEF PlansOK
      <4>2. /\ q \in Remote /\ Named[q] \in {NoSource, i}
            /\ \E s \in Request : Id[s] = i /\ status[s] = "finished"
        BY <4>1 DEF PlanOK
      <4>3. PICK s \in Request : Id[s] = i /\ status[s] = "finished"
        BY <4>2
      <4>4. i # Id[r]
        <5>1. s # r
          BY <2>1, <4>3
        <5> QED BY <4>2, <4>3, <5>1 DEF LoadedSourcesAreUnique
      <4>5. i \in DOMAIN index' => i \in DOMAIN index /\ index'[i] = index[i]
        <5> HIDE DEF i
        <5> QED BY <2>1, <4>4, IndexedEntries
      <4> QED BY <2>3, <2>4, <4>5, PlanStays
    <3> QED BY <3>1, <3>2
  <2> QED BY <2>2, <2>5, PlansNext
<1>6. ASSUME NEW r \in Request, Refuse(r) \/ LoadDone(r) \/ Preempt(r) PROVE PlansOK'
  <2>1. /\ plan' = plan /\ index' = index
        /\ status' = status \/ \E x : status[r] # "finished" /\ status' = [status EXCEPT ![r] = x]
    <3>1. Refuse(r) => plan' = plan /\ index' = index /\ status' = status
      BY DEF Refuse, sources, requests
    <3>2. LoadDone(r) => /\ plan' = plan /\ index' = index /\ status[r] # "finished"
                         /\ status' = [status EXCEPT ![r] = "loaded"]
      BY DEF LoadDone, sources, chosen
    <3>3. Preempt(r) => /\ plan' = plan /\ index' = index /\ status[r] # "finished"
                        /\ status' = [status EXCEPT ![r] = "preempted"]
      BY DEF Preempt, sources, chosen
    <3> QED BY <1>6, <3>1, <3>2, <3>3
  <2>2. \A q \in Request : status[q] = "finished" => status'[q] = "finished"
    BY <1>1, <2>1
  <2> QED BY <1>2, <2>1, <2>2
<1>7. ASSUME NEW l \in leases, StepDone(l) PROVE PlansOK'
  BY <1>2, <1>7 DEF StepDone, chosen, sources, requests
<1>8. CASE Reset
  <2>1. index' = << >> /\ plan' = plan /\ status' = status
    BY <1>8 DEF Reset, chosen, requests
  <2>2. DOMAIN index' = {}
    BY <2>1
  <2> QED BY <1>1, <2>1, <2>2, PlanStays, PlansNext
<1>9. CASE UNCHANGED vars
  BY <1>2, <1>9 DEF vars, chosen, sources, requests
<1> QED BY <1>3, <1>4, <1>5, <1>6, <1>7, <1>8, <1>9 DEF Next

-----------------------------------------------------------------------------
(* What a step copies.                                                     *)

(* What a copy brings is in the hashes of its blocks.                      *)
LEMMA ContentStays ==
  ASSUME NEW c, \A b \in ToSet(c.blocks) : hash'[b] = hash[b]
  PROVE  Content(c)' = Content(c)
<1> DEFINE part(t) == SubSeq(t, Len(t) - BlockSize + 1, Len(t))
<1>1. \A k \in DOMAIN c.blocks : hash'[c.blocks[k]] = hash[c.blocks[k]]
  BY DEF ToSet
<1>2. [k \in DOMAIN c.blocks |-> part(hash'[c.blocks[k]].tokens)]
        = [k \in DOMAIN c.blocks |-> part(hash[c.blocks[k]].tokens)]
  <2> HIDE DEF part
  <2> QED BY <1>1
<1> QED BY <1>2 DEF Content

(* A copy that is right.                                                   *)
Copied(l, c, hashes, content) ==
  /\ \A b \in ToSet(c.blocks) : b \in l.pins /\ hashes[b] # NoHash
                                /\ hashes[b].domain = Domain[l.req]
  /\ content = Spelled(Prompt[l.req], (c.target - 1) * BlockSize)

(* It stays right while its blocks keep their hashes.                      *)
LEMMA CopyStays ==
  ASSUME NEW l, NEW c, Copied(l, c, hash, Content(c)), \A b \in ToSet(c.blocks) : hash'[b] = hash[b]
  PROVE  Copied(l, c, hash', Content(c)')
<1>1. Content(c)' = Content(c)
  BY ContentStays
<1>2. \A b \in ToSet(c.blocks) : b \in l.pins /\ hash'[b] # NoHash
                                 /\ hash'[b].domain = Domain[l.req]
  BY DEF Copied
<1>3. Content(c) = Spelled(Prompt[l.req], (c.target - 1) * BlockSize)
  BY DEF Copied
<1> QED BY <1>1, <1>2, <1>3 DEF Copied

(* Pinned blocks keep their hashes, so the copies of the steps in flight   *)
(* stay right.                                                             *)
LEMMA CopiesStay ==
  ASSUME CopiesMatchTheirTargets, NEW l \in leases, NEW c \in l.copies,
         \A b \in l.pins : hash'[b] = hash[b]
  PROVE  Copied(l, c, hash', Content(c)')
<1>1. Copied(l, c, hash, Content(c))
  BY DEF CopiesMatchTheirTargets, Copied
<1>2. \A b \in ToSet(c.blocks) : hash'[b] = hash[b]
  BY <1>1 DEF Copied
<1> QED BY <1>1, <1>2, CopyStays

(* It is all there is to say of the copies of the next state.              *)
LEMMA CopiesNext ==
  ASSUME \A l \in leases' : \A c \in l.copies : Copied(l, c, hash', Content(c)')
  PROVE  CopiesMatchTheirTargets'
BY DEF CopiesMatchTheirTargets, Copied, Spelled

(* A step that pins the sources of its plan copies what the plan says.     *)
LEMMA PinnedCopies ==
  ASSUME TypesInv, CopiesMatchTheirTargets, NEW r \in Request, NEW p, NEW copies,
         Pin(r, p, copies), copies \in {{}, Forwarded(p)}, PlanFits(r, p),
         \A b \in Block : b \notin FreeBlocks \/ b \in Retained(p) => hash'[b] = hash[b]
  PROVE  CopiesMatchTheirTargets'
<1> DEFINE new == [req |-> r, pins |-> Retained(p), copies |-> copies]
<1>1. leases' = leases \/ (Retained(p) # {} /\ leases' = leases \cup {new})
  BY DEF Pin
<1>2. ASSUME NEW l \in leases, NEW c \in l.copies PROVE Copied(l, c, hash', Content(c)')
  <2>1. l.pins \subseteq Block
    BY DEF TypesInv, PoolInv, LeasesOK
  <2>2. \A b \in l.pins : hash'[b] = hash[b]
    BY <2>1, HeldIsNotFree
  <2> QED BY <1>2, <2>2, CopiesStay
<1>3. ASSUME Retained(p) # {}, NEW c \in copies PROVE Copied(new, c, hash', Content(c)')
  <2>1. EntriesOK
    BY DEF TypesInv, PoolInv
  <2>2. c \in p.candidates /\ ToSet(c.blocks) \subseteq Retained(p)
    BY <1>3 DEF Forwarded
  <2>3. p.source \in DOMAIN index
    BY <1>3 DEF Retained
  <2>4. index[p.source].domain = Domain[r] /\ Matches(r, index[p.source], c)
    BY <2>2, <2>3 DEF PlanFits
  <2>5. /\ \A b \in ToSet(c.blocks) : hash[b] # NoHash /\ hash[b].domain = Domain[r]
        /\ Content(c) = Spelled(Prompt[r], (c.target - 1) * BlockSize)
    BY <2>1, <2>2, <2>3, <2>4, CopyIsRight
  <2>6. Copied(new, c, hash, Content(c))
    BY <2>2, <2>5 DEF Copied
  <2>7. \A b \in ToSet(c.blocks) : hash'[b] = hash[b]
    <3>1. \A b \in Retained(p) : b \in Block
      BY <2>1, RetainedBlocks
    <3> QED BY <2>2, <3>1
  <2>8. \A l : Copied(l, c, hash, Content(c)) => Copied(l, c, hash', Content(c)')
    BY <2>7, CopyStays
  <2> HIDE DEF new
  <2> QED BY <2>6, <2>8
<1>4. new.copies = copies
  OBVIOUS
<1>5. ASSUME NEW l \in leases', NEW c \in l.copies PROVE Copied(l, c, hash', Content(c)')
  <2>1. CASE l \in leases
    BY <1>2, <1>5, <2>1
  <2>2. CASE l \notin leases
    <3>1. l = new /\ Retained(p) # {}
      BY <1>1, <1>5, <2>2
    <3>2. c \in copies
      BY <1>4, <1>5, <3>1
    <3> HIDE DEF new
    <3> QED BY <1>3, <3>1, <3>2
  <2> QED BY <2>1, <2>2
<1> QED BY <1>5, CopiesNext

CopiesInv == TypesInv /\ PlansOK /\ CopiesMatchTheirTargets

LEMMA CopiesInvInit == Init => CopiesInv
<1> SUFFICES ASSUME Init PROVE CopiesInv
  OBVIOUS
<1>1. plan = [r \in Request |-> NoPlan] /\ leases = {}
  BY DEF Init
<1>2. PlansOK
  BY <1>1 DEF PlansOK, PlanOK, NoPlan
<1>3. CopiesMatchTheirTargets
  BY <1>1 DEF CopiesMatchTheirTargets
<1> QED BY <1>2, <1>3, TypesInvInit DEF CopiesInv

(* Copies begin where a request enters a step; any other step leaves what  *)
(* is pinned as it is, or nothing is.                                      *)
LEMMA CopiesKeep ==
  ASSUME TypesInv, PlansOK, CopiesMatchTheirTargets, [Next]_vars
  PROVE  CopiesMatchTheirTargets'
<1>1. PoolInv /\ \A l \in leases : l.pins \subseteq Block /\ \A b \in l.pins : hash[b] # NoHash
  BY DEF TypesInv, PoolInv, LeasesOK
<1>2. ASSUME leases' \subseteq leases, \A l \in leases : \A b \in l.pins : hash'[b] = hash[b]
      PROVE  CopiesMatchTheirTargets'
  BY <1>2, CopiesStay, CopiesNext
<1>3. ASSUME NEW r \in Request, Admit(r) PROVE CopiesMatchTheirTargets'
  <2>1. PICK known \in Known(r) : Admits(r, known, Plan(r, known))
    BY <1>1, <1>3, AdmitKeeps
  <2> DEFINE p == Plan(r, known)
  <2>2. status[r] # "finished"
    BY <1>3 DEF Admit
  <2>3. PlanFits(r, p)
    BY <2>2, FreshPlan
  <2> HIDE DEF p
  <2>4. Admits(r, known, p)
    BY <2>1 DEF p
  <2>5. \E copies \in {{}, Forwarded(p)} : Pin(r, p, copies)
    BY <2>4 DEF Admits
  <2>6. \A b \in Block : b \notin FreeBlocks \/ b \in Retained(p) => hash'[b] = hash[b]
    BY <2>4 DEF Admits
  <2> QED BY <2>3, <2>5, <2>6, PinnedCopies
<1>4. ASSUME NEW r \in Request, AdmitLoaded(r) PROVE CopiesMatchTheirTargets'
  <2> DEFINE p == plan[r]
  <2>1. Pin(r, p, Forwarded(p)) /\ hash' = hash
    BY <1>4 DEF AdmitLoaded
  <2>2. PlanFits(r, p)
    BY DEF PlansOK, PlanOK, PlanFits
  <2> HIDE DEF p
  <2>3. \A b \in Block : b \notin FreeBlocks \/ b \in Retained(p) => hash'[b] = hash[b]
    BY <2>1
  <2> QED BY <2>1, <2>2, <2>3, PinnedCopies
<1>5. ASSUME NEW r \in Request, LoadDone(r) PROVE CopiesMatchTheirTargets'
  <2>1. leases' = leases
    BY <1>5 DEF LoadDone
  <2>2. \A b \in Block : hash[b] # NoHash => hash'[b] = hash[b]
    BY <1>1, <1>5, LoadKeeps
  <2>3. \A l \in leases : \A b \in l.pins : hash'[b] = hash[b]
    BY <1>1, <2>2
  <2> QED BY <1>2, <2>1, <2>3
<1>6. ASSUME NEW r \in Request, Refuse(r) \/ Preempt(r) \/ Finish(r)
      PROVE  CopiesMatchTheirTargets'
  BY <1>2, <1>6 DEF Refuse, Preempt, Finish
<1>7. ASSUME NEW l \in leases, StepDone(l) PROVE CopiesMatchTheirTargets'
  BY <1>2, <1>7 DEF StepDone
<1>8. CASE Reset
  <2>1. leases = {} /\ leases' = leases
    BY <1>1, <1>8, ResetKeeps DEF Reset
  <2> QED BY <1>2, <2>1
<1>9. CASE UNCHANGED vars
  BY <1>2, <1>9 DEF vars
<1> QED BY <1>3, <1>4, <1>5, <1>6, <1>7, <1>8, <1>9 DEF Next

(* What a step copies is what its target calls for, for any prompts, block *)
(* size, pool and index, whatever was evicted, reallocated or indexed      *)
(* since the source ended.  Requests whose KV is loaded asynchronously     *)
(* keep their plan over other steps, and the plan names its source only by *)
(* its id: if a second request with this id ends meanwhile, the plan is    *)
(* matched with the wrong entry, and the property fails (finding 3).  The  *)
(* hypothesis excludes that: without asynchronous loads (Remote = {}) it   *)
(* holds of any requests.                                                  *)
THEOREM CopiesAreRight ==
  ASSUME LoadedSourcesAreUnique
  PROVE  Spec => []CopiesMatchTheirTargets
<1>1. CopiesInv /\ [Next]_vars => CopiesInv'
  BY TypesInvNext, PlansKeep, CopiesKeep DEF CopiesInv
<1>2. CopiesInv => CopiesMatchTheirTargets
  BY DEF CopiesInv
<1> QED BY <1>1, <1>2, CopiesInvInit, PTL DEF Spec
=============================================================================
