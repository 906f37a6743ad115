------------------------ MODULE ReuseSchedulerProofs ------------------------
(***************************************************************************)
(* What of ReuseScheduler holds for every number of requests, blocks and   *)
(* overlapping steps: its queues agree with the life cycle of requests,    *)
(* only running requests hold blocks, the reference counts balance, no     *)
(* block of a launched step is in the pool, and, with two steps that       *)
(* overlap at most, the outputs still to come are counted right.           *)
(*                                                                         *)
(* They are proved one on top of the other, over a type invariant of the   *)
(* variables they speak of (ControlTypes) and of the rows of steps.        *)
(***************************************************************************)
EXTENDS ReuseScheduler, QueueLemmas

ControlTypes ==
  /\ status \in [Request -> {"none", "waiting", "preempted", "running", "finished"}]
  /\ tokens \in [Request -> Nat \ {0}]
  /\ computed \in [Request -> Int] /\ placeholders \in [Request -> Int]
  /\ running \in Seq(Request) /\ waiting \in Seq(Request)
  /\ table \in [Request -> Seq(Block)]
  /\ DOMAIN lease = Lease
  /\ retained \in Seq(Lease) /\ deferred \in Seq(Lease)
  /\ phase \in Phases /\ cursor \in Nat \ {0} /\ budget \in Int

(* A row names a request and ends at a position; the proofs need to know   *)
(* no more of the rest of it than that some set A has all of it.           *)
AnyRow(A) ==
  [req : Request, from : A, to : Int, blocks : A, copies : A, reuse : A, samples : A]

RowsNameRequests ==
  /\ \E A : /\ batch \in Seq(AnyRow(A)) /\ todo \in Seq(AnyRow(A))
            /\ inflight \in Seq(Seq(AnyRow(A)))
  /\ phase = "update" => todo # << >>

Types == ControlTypes /\ RowsNameRequests

(* The longest cached prefix get_computed_blocks looks for exists.         *)
LEMMA HitLengthRange ==
  ASSUME ControlTypes, NEW r \in Request
  PROVE  HitLength(r) \in 0 .. (tokens[r] - 1) \div BlockSize
<1> DEFINE most == (tokens[r] - 1) \div BlockSize
           T == {k \in 0 .. most : k < most => ~ Cached(Hashes[r][k + 1])}
<1>1. tokens[r] - 1 \in Nat /\ BlockSize \in Nat \ {0}
  BY ConfigAssumption DEF ControlTypes
<1>2. most \in Nat
  BY <1>1
<1> HIDE DEF most
<1>3. T \in SUBSET Nat /\ T # {}
  <2>1. most \in T
    BY <1>2
  <2> QED BY <2>1, <1>2
<1>4. PICK m \in T : \A n \in T : m <= n
  BY <1>3, NatMin
<1>5. ASSUME NEW i \in 1 .. m PROVE Cached(Hashes[r][i])
  <2>1. m \in 0 .. most
    BY <1>4
  <2>2. i - 1 \in 0 .. most /\ i - 1 < most /\ ~ m <= i - 1 /\ i - 1 + 1 = i
    BY <1>2, <2>1
  <2>3. i - 1 \notin T
    BY <1>4, <2>2
  <2>4. Cached(Hashes[r][i - 1 + 1])
    BY <2>2, <2>3
  <2> QED BY <2>2, <2>4
<1>6. m \in 0 .. most /\ (m < most => ~ Cached(Hashes[r][m + 1]))
  BY <1>4
<1> HIDE DEF T
<1>7. \E k \in 0 .. most : /\ \A i \in 1 .. k : Cached(Hashes[r][i])
                           /\ k < most => ~ Cached(Hashes[r][k + 1])
  BY <1>5, <1>6
<1>8. HitLength(r) \in 0 .. most
  BY <1>7 DEF HitLength, most
<1> QED BY <1>8 DEF most

(* Its length is a natural number.                                         *)
LEMMA HitLengthType ==
  ASSUME ControlTypes, NEW r \in Request
  PROVE  HitLength(r) \in Nat
<1>1. tokens[r] - 1 \in Nat /\ BlockSize \in Nat \ {0}
  BY ConfigAssumption DEF ControlTypes
<1>2. (tokens[r] - 1) \div BlockSize \in Nat
  BY <1>1
<1> QED BY <1>2, HitLengthRange

(* _free_request_blocks.                                                   *)
LEMMA FreeTypes ==
  ASSUME ControlTypes, NEW r \in Request, FreeRequestBlocks(r)
  PROVE  /\ table' \in [Request -> Seq(Block)]
         /\ DOMAIN lease' = Lease
         /\ deferred' \in Seq(Lease)
<1>1. table' \in [Request -> Seq(Block)]
  BY DEF FreeRequestBlocks, ControlTypes
<1>2. CASE UNCHANGED <<lease, deferred>>
  BY <1>1, <1>2 DEF ControlTypes
<1>3. CASE ~ UNCHANGED <<lease, deferred>>
  <2>1. /\ IdleLeases # {}
        /\ lease' = [lease EXCEPT ![NextLease] = ToSet(table[r])]
        /\ deferred' = Append(deferred, NextLease)
    BY <1>3 DEF FreeRequestBlocks
  <2>2. NextLease \in Lease
    BY <2>1 DEF NextLease, IdleLeases
  <2> QED BY <1>1, <2>1, <2>2, AppendProperties DEF ControlTypes
<1> QED BY <1>2, <1>3

(* _preempt_request.                                                       *)
LEMMA PreemptTypes ==
  ASSUME ControlTypes, running # << >>, PreemptLast
  PROVE  /\ Last(running) \in Request
         /\ status' \in [Request -> {"none", "waiting", "preempted", "running", "finished"}]
         /\ computed' \in [Request -> Int]
         /\ running' \in Seq(Request) /\ waiting' \in Seq(Request)
         /\ table' \in [Request -> Seq(Block)]
         /\ DOMAIN lease' = Lease
         /\ deferred' \in Seq(Lease)
<1>1. running \in Seq(Request) /\ waiting \in Seq(Request)
  BY DEF ControlTypes
<1>2. Last(running) \in Request /\ Front(running) \in Seq(Request)
  BY <1>1, FrontElements
<1>3. <<Last(running)>> \o waiting \in Seq(Request)
  BY <1>1, <1>2, PrependElements
<1>4. /\ table' \in [Request -> Seq(Block)]
      /\ DOMAIN lease' = Lease
      /\ deferred' \in Seq(Lease)
  BY <1>2, FreeTypes DEF PreemptLast
<1>5. /\ running' = Front(running) /\ waiting' = <<Last(running)>> \o waiting
      /\ status' = [status EXCEPT ![Last(running)] = "preempted"]
      /\ computed' = [computed EXCEPT ![Last(running)] = 0]
  BY DEF PreemptLast
<1>6. status' \in [Request -> {"none", "waiting", "preempted", "running", "finished"}]
  BY <1>2, <1>5 DEF ControlTypes
<1>7. computed' \in [Request -> Int]
  BY <1>2, <1>5 DEF ControlTypes
<1> QED BY <1>2, <1>3, <1>4, <1>5, <1>6, <1>7

(* What leaves the three lists of rows alone keeps their typing.           *)
LEMMA RowsKept ==
  ASSUME RowsNameRequests, UNCHANGED <<batch, todo, inflight>>,
         phase' = "update" => phase = "update"
  PROVE  RowsNameRequests'
BY DEF RowsNameRequests

(* AnyRow grows with A, so two sets of rows fit in one.                    *)
LEMMA AnyRowGrows ==
  ASSUME NEW A, NEW B, A \subseteq B
  PROVE  /\ AnyRow(A) \subseteq AnyRow(B)
         /\ \A s \in Seq(AnyRow(A)) : s \in Seq(AnyRow(B))
         /\ \A s \in Seq(Seq(AnyRow(A))) : s \in Seq(Seq(AnyRow(B)))
<1>1. AnyRow(A) \subseteq AnyRow(B)
  BY DEF AnyRow
<1>2. \A s \in Seq(AnyRow(A)) : s \in Seq(AnyRow(B))
  BY <1>1, SeqMonotonic
<1>3. Seq(AnyRow(A)) \subseteq Seq(AnyRow(B))
  BY <1>2
<1> HIDE DEF AnyRow
<1>4. \A s \in Seq(Seq(AnyRow(A))) : s \in Seq(Seq(AnyRow(B)))
  BY <1>3, SeqMonotonic
<1> QED BY <1>1, <1>2, <1>4

(* ScheduleRunning and Admit add one row of a known request to the batch.  *)
LEMMA RowAdded ==
  ASSUME RowsNameRequests, UNCHANGED <<todo, inflight, phase>>,
         NEW r \in Request, NEW from, NEW to \in Int, NEW blocks, NEW copies,
         batch' = Append(batch, NewRow(r, from, to, blocks, copies))
  PROVE  RowsNameRequests'
<1>1. PICK A : /\ batch \in Seq(AnyRow(A)) /\ todo \in Seq(AnyRow(A))
               /\ inflight \in Seq(Seq(AnyRow(A)))
  BY DEF RowsNameRequests
<1> DEFINE B == A \cup {from, blocks, copies, {}, FALSE}
<1>2. /\ batch \in Seq(AnyRow(B)) /\ todo \in Seq(AnyRow(B))
      /\ inflight \in Seq(Seq(AnyRow(B)))
  <2>1. A \subseteq B
    OBVIOUS
  <2> HIDE DEF B
  <2> QED BY <1>1, <2>1, AnyRowGrows
<1>3. NewRow(r, from, to, blocks, copies) \in AnyRow(B)
  BY DEF NewRow, AnyRow
<1>4. batch' \in Seq(AnyRow(B))
  BY <1>2, <1>3, AppendProperties
<1> QED BY <1>2, <1>4 DEF RowsNameRequests

(* update_from_output() goes on to the next row, or ends.                  *)
LEMMA RowTaken ==
  ASSUME RowsNameRequests, phase = "update", UNCHANGED <<batch, inflight>>, RowDone
  PROVE  /\ RowsNameRequests'
         /\ NextRow.req \in Request
         /\ phase' \in {"idle", "update"}
<1>1. PICK A : /\ batch \in Seq(AnyRow(A)) /\ todo \in Seq(AnyRow(A))
               /\ inflight \in Seq(Seq(AnyRow(A)))
  BY DEF RowsNameRequests
<1>2. todo # << >>
  BY DEF RowsNameRequests
<1>3. /\ Head(todo) \in AnyRow(A) /\ Tail(todo) \in Seq(AnyRow(A))
      /\ Len(Tail(todo)) = Len(todo) - 1
  BY <1>1, <1>2, HeadTailProperties
<1>4. NextRow.req \in Request
  BY <1>3 DEF NextRow, AnyRow
<1>5. phase' = "update" => todo' # << >>
  <2> SUFFICES ASSUME Len(todo) # 1 PROVE Tail(todo) # << >>
    BY DEF RowDone
  <2>1. Len(todo) \in Nat
    BY <1>1, LenProperties
  <2>2. Len(Tail(todo)) # Len(<< >>)
    BY <1>3, <2>1
  <2> QED BY <2>2
<1> QED BY <1>1, <1>3, <1>4, <1>5 DEF RowsNameRequests, RowDone

(* The request at the cursor of the running loop is a running request.     *)
LEMMA CandidateType ==
  ASSUME ControlTypes, InRunningLoop
  PROVE  Candidate \in Request /\ Candidate \in ToSet(running) /\ running # << >>
<1>1. running \in Seq(Request) /\ cursor \in 1 .. Len(running)
  BY DEF ControlTypes, InRunningLoop
<1>2. cursor \in DOMAIN running
  BY <1>1, LenProperties
<1> QED BY <1>1, <1>2 DEF Candidate, ToSet

(* get_new_blocks returns distinct blocks that were free.                  *)
LEMMA NewBlocksType ==
  ASSUME NEW n \in Int, NEW free \in SUBSET Block, NEW new \in NewBlocks(free, n)
  PROVE  /\ new \in Seq(Block) /\ ToSet(new) \subseteq free
<1>1. new \in [1 .. n -> free]
  BY DEF NewBlocks
<1>2. new \in Seq(Block)
  BY <1>1
<1>3. ToSet(new) \subseteq free
  BY <1>1 DEF ToSet
<1> QED BY <1>2, <1>3

(* cdiv of an integer by the block size is an integer.                     *)
LEMMA CeilDivType ==
  ASSUME NEW a \in Int
  PROVE  CeilDiv(a, BlockSize) \in Int
BY ConfigAssumption DEF CeilDiv

(* The smaller of two integers is an integer.                              *)
LEMMA SmallerType ==
  ASSUME NEW a \in Int, NEW b \in Int
  PROVE  Smaller(a, b) \in Int
BY DEF Smaller

(* What ScheduleRunning does to the request at the cursor.                 *)
LEMMA ScheduledRunning ==
  ASSUME ControlTypes, ScheduleRunning
  PROVE  \E new \in Seq(Block), to \in Int :
           /\ ToSet(new) \subseteq FreeBlocks
           /\ table' = [table EXCEPT ![Candidate] = table[Candidate] \o new]
           /\ ref' = [b \in Block |-> IF b \in ToSet(new) THEN 1 ELSE ref[b]]
           /\ batch' = Append(batch, NewRow(Candidate, computed[Candidate], to,
                                          table[Candidate] \o new, {}))
<1> DEFINE r == Candidate
           to == computed[r] + NewTokens(r)
<1>1. r \in Request
  BY CandidateType DEF ScheduleRunning
<1>2. NewTokens(r) \in Int
  <2>1. Missing(r) \in Int /\ budget \in Int
    BY <1>1 DEF ControlTypes, Missing
  <2> QED BY <2>1, SmallerType DEF NewTokens
<1>3. to \in Int
  BY <1>1, <1>2 DEF ControlTypes
<1>4. table[r] \in Seq(Block)
  BY <1>1 DEF ControlTypes
<1>5. NeededBlocks(r) \in Int
  <2>1. CeilDiv(to, BlockSize) \in Int
    BY <1>3, CeilDivType
  <2>2. Len(table[r]) \in Int
    BY <1>4, LenProperties
  <2> QED BY <2>1, <2>2 DEF NeededBlocks
<1>6. PICK new \in NewBlocks(FreeBlocks, NeededBlocks(r)) :
        /\ table' = [table EXCEPT ![r] = table[r] \o new]
        /\ ref' = [b \in Block |-> IF b \in ToSet(new) THEN 1 ELSE ref[b]]
        /\ batch' = Append(batch, NewRow(r, computed[r], to, table[r] \o new, {}))
  BY DEF ScheduleRunning
<1>7. new \in Seq(Block) /\ ToSet(new) \subseteq FreeBlocks
  BY <1>5, NewBlocksType DEF FreeBlocks
<1> HIDE DEF to
<1> QED BY <1>3, <1>6, <1>7

(* What AdmitWaiting does to the first waiting request: its blocks are     *)
(* cached ones followed by new ones, its pins become a lease.              *)
LEMMA Admitted ==
  ASSUME ControlTypes, AdmitWaiting
  PROVE  /\ waiting # << >>
         /\ Head(waiting) \in Request
         /\ \E hits \in Seq(Block), new \in Seq(Block), from \in Int, to \in Int :
            \E copies :
              /\ ToSet(new) \subseteq FreeBlocks \ (Pins(Head(waiting)) \cup ToSet(hits))
              /\ table' = [table EXCEPT ![Head(waiting)] = hits \o new]
              /\ ref' = [b \in Block |->
                   ref[b] + (IF b \in ToSet(hits \o new) THEN 1 ELSE 0)
                          + (IF b \in Pins(Head(waiting)) THEN 1 ELSE 0)]
              /\ batch' = Append(batch, NewRow(Head(waiting), from, to,
                                             hits \o new, copies))
              /\ computed' = [computed EXCEPT ![Head(waiting)] = from]
              /\ budget' = budget - (to - from)
<1> DEFINE r == Head(waiting)
           from == HitLength(r) * BlockSize
           to == ChunkEnd(r)
           free == FreeBlocks \ Pins(r)
<1>1. waiting # << >>
  BY DEF AdmitWaiting, InWaitingLoop
<1>2. r \in Request
  BY <1>1, HeadTailProperties DEF ControlTypes
<1>3. HitLength(r) \in Nat
  BY <1>2, HitLengthType
<1>4. from \in Int
  BY <1>3, ConfigAssumption
<1>5. to \in Int
  <2>1. tokens[r] \in Int /\ budget \in Int
    BY <1>2 DEF ControlTypes
  <2>2. to = from + Smaller(tokens[r] - from, budget)
    BY DEF ChunkEnd
  <2> HIDE DEF from, to
  <2>3. tokens[r] - from \in Int
    BY <1>4, <2>1
  <2>4. Smaller(tokens[r] - from, budget) \in Int
    BY <2>1, <2>3, SmallerType
  <2> QED BY <1>4, <2>2, <2>4
<1>6. PICK hits \in ComputedBlocks(r) :
        \E new \in NewBlocks(free \ ToSet(hits), CeilDiv(to, BlockSize) - Len(hits)) :
          Admit(r, hits \o new, new)
  BY DEF AdmitWaiting
<1>7. hits \in Seq(Block)
  BY <1>3 DEF ComputedBlocks
<1>8. CeilDiv(to, BlockSize) - Len(hits) \in Int
  BY <1>5, <1>7, CeilDivType, LenProperties
<1>9. PICK new \in NewBlocks(free \ ToSet(hits), CeilDiv(to, BlockSize) - Len(hits)) :
        Admit(r, hits \o new, new)
  BY <1>6
<1>10. new \in Seq(Block) /\ ToSet(new) \subseteq free \ ToSet(hits)
  BY <1>8, NewBlocksType DEF FreeBlocks
<1>11. \E copies :
        /\ table' = [table EXCEPT ![r] = hits \o new]
        /\ ref' = [b \in Block |-> ref[b] + (IF b \in ToSet(hits \o new) THEN 1 ELSE 0)
                                        + (IF b \in Pins(r) THEN 1 ELSE 0)]
        /\ batch' = Append(batch, NewRow(r, from, to, hits \o new, copies))
  BY <1>9 DEF Admit
<1>12. /\ computed' = [computed EXCEPT ![r] = from]
       /\ budget' = budget - (to - from)
  BY DEF AdmitWaiting
<1> HIDE DEF from, to
<1> QED BY <1>1, <1>2, <1>4, <1>5, <1>7, <1>10, <1>11, <1>12

(* The rows of the batch, completed at launch, are rows of a launched step. *)
LEMMA BatchLaunched ==
  ASSUME RowsNameRequests, Launch
  PROVE  /\ RowsNameRequests'
         /\ \A i \in DOMAIN batch : batch[i].to \in Int
<1>1. PICK A : /\ batch \in Seq(AnyRow(A)) /\ todo \in Seq(AnyRow(A))
               /\ inflight \in Seq(Seq(AnyRow(A)))
  BY DEF RowsNameRequests
<1> DEFINE Launched(i) == [batch[i] EXCEPT !.reuse = reused[batch[i].req],
                                           !.samples = Samples(batch[i])]
           step == [i \in DOMAIN batch |-> Launched(i)]
           B == A \cup {reused[batch[i].req] : i \in DOMAIN batch}
                  \cup {Samples(batch[i]) : i \in DOMAIN batch}
<1>2. \A i \in DOMAIN batch : batch[i] \in AnyRow(A)
  BY <1>1, LenProperties
<1>3. \A i \in DOMAIN batch : Launched(i) \in AnyRow(B)
  <2> SUFFICES ASSUME NEW i \in DOMAIN batch PROVE Launched(i) \in AnyRow(B)
    OBVIOUS
  <2>1. reused[batch[i].req] \in B /\ Samples(batch[i]) \in B
    OBVIOUS
  <2>2. batch[i] \in AnyRow(B)
    <3>1. A \subseteq B
      OBVIOUS
    <3> HIDE DEF B
    <3> QED BY <1>2, <3>1, AnyRowGrows
  <2> HIDE DEF B
  <2> QED BY <2>1, <2>2 DEF AnyRow
<1>4. step \in Seq(AnyRow(B))
  <2>1. DOMAIN batch = 1 .. Len(batch) /\ Len(batch) \in Nat
    BY <1>1, LenProperties
  <2>2. step \in [1 .. Len(batch) -> AnyRow(B)]
    BY <1>3, <2>1
  <2> HIDE DEF step, B
  <2> QED BY <2>1, <2>2
<1>5. todo \in Seq(AnyRow(B)) /\ inflight \in Seq(Seq(AnyRow(B)))
  <2>1. A \subseteq B
    OBVIOUS
  <2> HIDE DEF B
  <2> QED BY <1>1, <2>1, AnyRowGrows
<1>6. /\ inflight' = Append(inflight, step) /\ batch' = << >> /\ todo' = todo
      /\ phase' = "idle"
  BY DEF Launch
<1> HIDE DEF B, step, Launched
<1>7. inflight' \in Seq(Seq(AnyRow(B)))
  BY <1>4, <1>5, <1>6, AppendProperties
<1>8. RowsNameRequests'
  <2>1. batch' \in Seq(AnyRow(B))
    BY <1>6
  <2> QED BY <1>5, <1>6, <1>7, <2>1 DEF RowsNameRequests
<1>9. \A i \in DOMAIN batch : batch[i].to \in Int
  BY <1>2 DEF AnyRow
<1> QED BY <1>8, <1>9

(***************************************************************************)
(* Types is inductive.                                                     *)
(***************************************************************************)
LEMMA InitTypes == Init => Types
<1> SUFFICES ASSUME Init PROVE Types
  OBVIOUS
<1>1. ControlTypes
  BY RequestAssumption DEF Init, ControlTypes, Phases
<1>2. RowsNameRequests
  BY DEF Init, RowsNameRequests
<1> QED BY <1>1, <1>2 DEF Types

(* Every step keeps the typing: the inductive step of TypesInvariant.      *)
LEMMA NextTypes == Types /\ [Next]_vars => Types'
<1> SUFFICES ASSUME ControlTypes, RowsNameRequests, [Next]_vars
             PROVE  ControlTypes' /\ RowsNameRequests'
  BY DEF Types
<1> USE DEF request, queues, pool, leases, seqs, call, worker
<1>1. CASE UNCHANGED vars \/ Idle
  <2>1. UNCHANGED vars
    BY <1>1 DEF Idle
  <2> QED BY <2>1, RowsKept DEF vars, ControlTypes
<1>2. ASSUME NEW r \in Request, AddRequest(r)
      PROVE  ControlTypes' /\ RowsNameRequests'
  <2>1. waiting' \in Seq(Request)
    BY <1>2, AppendProperties DEF AddRequest, ControlTypes
  <2> QED BY <1>2, <2>1, RowsKept DEF AddRequest, ControlTypes
<1>3. ASSUME NEW r \in Request, Abort(r)
      PROVE  ControlTypes' /\ RowsNameRequests'
  <2>1. running' \in Seq(Request) /\ waiting' \in Seq(Request)
    BY <1>3, RemoveFirstType DEF Abort, ControlTypes
  <2> QED BY <1>3, <2>1, FreeTypes, RowsKept DEF Abort, ControlTypes
<1>4. CASE ResetPrefixCache
  BY <1>4, RowsKept DEF ResetPrefixCache, ControlTypes
<1>5. CASE ForceReset
  BY <1>5, RowsKept DEF ForceReset, ControlTypes, Phases
<1>6. CASE ResetPreempt
  <2>1. running # << >> /\ PreemptLast
    BY <1>6 DEF ResetPreempt
  <2>2. Last(running) \in Request
    BY <2>1, PreemptTypes
  <2>3. placeholders' \in [Request -> Int]
    BY <1>6, <2>2 DEF ResetPreempt, ControlTypes
  <2> QED BY <1>6, <2>1, <2>3, PreemptTypes, RowsKept DEF ResetPreempt, ControlTypes
<1>7. CASE ResetEnd
  BY <1>7, RowsKept DEF ResetEnd, ControlTypes, Phases
<1>8. CASE BeginSchedule
  BY <1>8, ConfigAssumption DEF BeginSchedule, ControlTypes, Phases, RowsNameRequests
<1>9. CASE SkipRunning
  BY <1>9, RowsKept DEF SkipRunning, ControlTypes
<1>10. CASE ScheduleRunning
  <2>1. Candidate \in Request
    BY <1>10, CandidateType DEF ScheduleRunning
  <2>2. PICK new \in Seq(Block), to \in Int :
          /\ table' = [table EXCEPT ![Candidate] = table[Candidate] \o new]
          /\ batch' = Append(batch, NewRow(Candidate, computed[Candidate], to,
                                         table[Candidate] \o new, {}))
    BY <1>10, ScheduledRunning
  <2>3. table' \in [Request -> Seq(Block)]
    BY <2>1, <2>2 DEF ControlTypes
  <2>4. RowsNameRequests'
    BY <1>10, <2>1, <2>2, RowAdded DEF ScheduleRunning
  <2>5. budget' \in Int
    <3>1. Missing(Candidate) \in Int /\ budget \in Int
      BY <2>1 DEF ControlTypes, Missing
    <3>2. NewTokens(Candidate) \in Int
      BY <3>1, SmallerType DEF NewTokens
    <3> QED BY <1>10, <3>1, <3>2 DEF ScheduleRunning
  <2>6. UNCHANGED <<request, queues, leases, phase>> /\ cursor' = cursor + 1
    BY <1>10 DEF ScheduleRunning
  <2> QED BY <2>3, <2>4, <2>5, <2>6 DEF ControlTypes
<1>11. CASE PreemptForSlots
  <2>1. running # << >> /\ PreemptLast
    BY <1>11, CandidateType DEF PreemptForSlots
  <2>2. phase = "running" /\ phase' \in {"launch", "running"}
    BY <1>11 DEF PreemptForSlots, InRunningLoop
  <2> QED BY <1>11, <2>1, <2>2, PreemptTypes, RowsKept
          DEF PreemptForSlots, ControlTypes, Phases
<1>12. CASE EndRunning
  BY <1>12, RowsKept DEF EndRunning, ControlTypes, Phases
<1>13. CASE AdmitWaiting
  <2> DEFINE r == Head(waiting)
  <2>1. waiting # << >> /\ r \in Request
    BY <1>13, Admitted
  <2>2. PICK hits \in Seq(Block), new \in Seq(Block), from \in Int, to \in Int :
          /\ table' = [table EXCEPT ![r] = hits \o new]
          /\ \E copies : batch' = Append(batch, NewRow(r, from, to, hits \o new, copies))
          /\ computed' = [computed EXCEPT ![r] = from]
          /\ budget' = budget - (to - from)
    BY <1>13, Admitted
  <2>3. RowsNameRequests'
    BY <1>13, <2>1, <2>2, RowAdded DEF AdmitWaiting
  <2>4. table' \in [Request -> Seq(Block)]
    BY <2>1, <2>2 DEF ControlTypes
  <2>5. computed' \in [Request -> Int] /\ budget' \in Int
    BY <2>1, <2>2 DEF ControlTypes
  <2>6. /\ status' = [status EXCEPT ![r] = "running"]
        /\ running' = Append(running, r) /\ waiting' = Tail(waiting)
        /\ UNCHANGED <<tokens, placeholders, deferred, phase, cursor>>
    BY <1>13 DEF AdmitWaiting
  <2>7. DOMAIN lease' = Lease /\ retained' \in Seq(Lease)
    <3>1. CASE UNCHANGED <<lease, retained>>
      BY <3>1 DEF ControlTypes
    <3>2. CASE ~ UNCHANGED <<lease, retained>>
      <4>1. /\ IdleLeases # {}
            /\ lease' = [lease EXCEPT ![NextLease] = Pins(r)]
            /\ retained' = Append(retained, NextLease)
        BY <1>13, <3>2 DEF AdmitWaiting
      <4>2. NextLease \in Lease
        BY <4>1 DEF NextLease, IdleLeases
      <4> QED BY <4>1, <4>2, AppendProperties DEF ControlTypes
    <3> QED BY <3>1, <3>2
  <2>8. running' \in Seq(Request) /\ waiting' \in Seq(Request)
    BY <2>1, <2>6, AppendProperties, HeadTailProperties DEF ControlTypes
  <2>9. status' \in [Request -> {"none", "waiting", "preempted", "running", "finished"}]
    BY <2>1, <2>6 DEF ControlTypes
  <2> QED BY <2>3, <2>4, <2>5, <2>6, <2>7, <2>8, <2>9 DEF ControlTypes
<1>14. CASE RefuseWaiting
  BY <1>14, RowsKept DEF RefuseWaiting, ControlTypes, Phases
<1>15. CASE EndWaiting
  BY <1>15, RowsKept DEF EndWaiting, ControlTypes, Phases
<1>16. CASE Launch
  <2>1. RowsNameRequests' /\ \A i \in DOMAIN batch : batch[i].to \in Int
    BY <1>16, BatchLaunched
  <2>2. /\ computed' = [r \in Request |->
             IF RowsOf(r) # {} THEN batch[CHOOSE i \in RowsOf(r) : TRUE].to
                               ELSE computed[r]]
        /\ placeholders' = [r \in Request |->
             IF Async /\ \E i \in RowsOf(r) : Samples(batch[i])
             THEN placeholders[r] + 1 ELSE placeholders[r]]
        /\ retained' = << >> /\ phase' = "idle" /\ cursor' = 1 /\ budget' = 0
        /\ UNCHANGED <<status, tokens, running, waiting, table>>
    BY <1>16 DEF Launch
  <2>3. computed' \in [Request -> Int]
    <3>1. \A r \in Request : RowsOf(r) # {} => (CHOOSE i \in RowsOf(r) : TRUE) \in DOMAIN batch
      BY DEF RowsOf
    <3> QED BY <2>1, <2>2, <3>1 DEF ControlTypes
  <2>4. placeholders' \in [Request -> Int]
    BY <2>2 DEF ControlTypes
  <2>5. DOMAIN lease' = Lease /\ deferred' \in Seq(Lease)
    <3>1. deferred \o retained \in Seq(Lease)
      BY ConcatProperties DEF ControlTypes
    <3>2. CASE Defer
      BY <1>16, <3>1, <3>2 DEF Launch, ControlTypes
    <3>3. CASE ~ Defer
      BY <1>16, <3>3 DEF Launch, ReleaseLeases, ControlTypes
    <3> QED BY <3>2, <3>3
  <2> QED BY <2>1, <2>2, <2>3, <2>4, <2>5 DEF ControlTypes, Phases
<1>17. CASE TakeResults
  <2>1. DOMAIN lease' = Lease /\ deferred' \in Seq(Lease)
    <3>1. CASE UNCHANGED <<lease, deferred>>
      BY <3>1 DEF ControlTypes
    <3>2. CASE ~ UNCHANGED <<lease, deferred>>
      <4>1. PICK n : /\ DOMAIN lease' = Lease
                     /\ deferred' = SubSeq(deferred, NumDue(n) + 1, Len(deferred))
        BY <1>17, <3>2 DEF TakeResults, ReleaseLeases
      <4>2. NumDue(n) \in Nat
        <5>1. DueEntries(n) \in SUBSET (1 .. Len(deferred)) /\ Len(deferred) \in Nat
          BY LenProperties DEF DueEntries, ControlTypes
        <5>2. IsFiniteSet(DueEntries(n))
          <6>1. IsFiniteSet(1 .. Len(deferred))
            BY <5>1, FS_Interval
          <6> QED BY <5>1, <6>1, FS_Subset
        <5> QED BY <5>2, FS_CardinalityType DEF NumDue
      <4>3. \A i \in NumDue(n) + 1 .. Len(deferred) : deferred[i] \in Lease
        BY <4>2, LenProperties DEF ControlTypes
      <4>4. Len(deferred) \in Int /\ NumDue(n) + 1 \in Int
        BY <4>2, LenProperties DEF ControlTypes
      <4> QED BY <4>1, <4>3, <4>4, SubSeqProperties
    <3> QED BY <3>1, <3>2
  <2>2. /\ inflight # << >> /\ todo' = Head(inflight) /\ inflight' = Tail(inflight)
        /\ phase' = IF Head(inflight) = << >> THEN "idle" ELSE "update"
        /\ UNCHANGED <<batch, status, tokens, computed, placeholders, running, waiting,
                       table, retained, cursor, budget>>
    BY <1>17 DEF TakeResults
  <2>3. RowsNameRequests'
    <3>1. PICK A : /\ batch \in Seq(AnyRow(A)) /\ todo \in Seq(AnyRow(A))
                   /\ inflight \in Seq(Seq(AnyRow(A)))
      BY DEF RowsNameRequests
    <3>2. todo' \in Seq(AnyRow(A)) /\ inflight' \in Seq(Seq(AnyRow(A)))
      BY <2>2, <3>1, HeadTailProperties
    <3> QED BY <2>2, <3>1, <3>2 DEF RowsNameRequests
  <2> QED BY <2>1, <2>2, <2>3 DEF ControlTypes, Phases
<1>18. CASE IgnoreRow
  BY <1>18, RowTaken DEF IgnoreRow, ControlTypes, Phases
<1>19. CASE DiscardRow
  BY <1>19, RowTaken DEF DiscardRow, ControlTypes, Phases
<1>20. CASE AppendToken
  <2> DEFINE r == NextRow.req
  <2>1. /\ phase = "update" /\ RowDone
        /\ UNCHANGED <<batch, inflight, computed, retained, cursor, budget>>
    BY <1>20 DEF AppendToken
  <2>2. RowsNameRequests' /\ r \in Request /\ phase' \in {"idle", "update"}
    BY <2>1, RowTaken
  <2>3. /\ tokens' = [tokens EXCEPT ![r] = @ + 1]
        /\ placeholders' = [placeholders EXCEPT ![r] = IF Async THEN @ - 1 ELSE @]
        /\ \/ UNCHANGED <<status, running, waiting, table, lease, deferred>>
           \/ Stop(r, hash')
    BY <1>20 DEF AppendToken
  <2>4. tokens' \in [Request -> Nat \ {0}] /\ placeholders' \in [Request -> Int]
    <3> HIDE DEF r
    <3>1. tokens' \in [Request -> Nat \ {0}]
      BY <2>2, <2>3 DEF ControlTypes
    <3>2. CASE Async
      BY <2>2, <2>3, <3>2 DEF ControlTypes
    <3>3. CASE ~ Async
      BY <2>2, <2>3, <3>3 DEF ControlTypes
    <3> QED BY <3>1, <3>2, <3>3
  <2>5. CASE UNCHANGED <<status, running, waiting, table, lease, deferred>>
    BY <2>1, <2>2, <2>4, <2>5 DEF ControlTypes, Phases
  <2>6. CASE Stop(r, hash')
    <3>1. running' \in Seq(Request) /\ waiting' \in Seq(Request)
      BY <2>6, RemoveFirstType DEF Stop, ControlTypes
    <3>2. status' \in [Request -> {"none", "waiting", "preempted", "running", "finished"}]
      BY <2>2, <2>6 DEF Stop, ControlTypes
    <3>3. /\ table' \in [Request -> Seq(Block)] /\ DOMAIN lease' = Lease
          /\ deferred' \in Seq(Lease)
      BY <2>2, <2>6, FreeTypes DEF Stop
    <3> QED BY <2>1, <2>2, <2>4, <3>1, <3>2, <3>3 DEF ControlTypes, Phases
  <2> QED BY <2>3, <2>5, <2>6
<1> QED
  BY <1>1, <1>2, <1>3, <1>4, <1>5, <1>6, <1>7, <1>8, <1>9, <1>10, <1>11, <1>12, <1>13,
     <1>14, <1>15, <1>16, <1>17, <1>18, <1>19, <1>20
  DEF Next, Client, Engine

(* The variables of the scheduler's bookkeeping have their types: what the *)
(* other theorems rest on.                                                 *)
THEOREM TypesInvariant == Spec => []Types
<1>1. Init => Types
  BY InitTypes
<1>2. Types /\ [Next]_vars => Types'
  BY NextTypes
<1> QED BY <1>1, <1>2, PTL DEF Spec

-----------------------------------------------------------------------------
(***************************************************************************)
(* QueuesMatchStatus.  It is inductive over Types: a request that moves is *)
(* found in the queue its status names and nowhere else, so taking it out  *)
(* once takes it out.  Queues is the same statement, one queue at a time.  *)
(***************************************************************************)
Queues ==
  /\ IsInjective(running) /\ IsInjective(waiting) /\ Len(running) <= MaxRunning
  /\ ToSet(running) = {r \in Request : status[r] = "running"}
  /\ ToSet(waiting) = {r \in Request : status[r] \in {"waiting", "preempted"}}

(* The strengthening Queues implies the invariant a run checks.            *)
LEMMA QueuesSuffice == Types /\ Queues => QueuesMatchStatus
<1> SUFFICES ASSUME ControlTypes, Queues PROVE QueuesMatchStatus
  BY DEF Types
<1>1. running \in Seq(Request) /\ waiting \in Seq(Request)
  BY DEF ControlTypes
<1>2. ToSet(running) \cap ToSet(waiting) = {}
  BY DEF Queues
<1>3. IsInjective(running \o waiting)
  BY <1>1, <1>2, ConcatElements DEF Queues
<1> QED BY <1>3 DEF Queues, QueuesMatchStatus

(* A step that touches neither queue nor a status keeps Queues.            *)
LEMMA QueuesKept ==
  ASSUME Queues, UNCHANGED <<running, waiting, status>>
  PROVE  Queues'
BY DEF Queues

(* _preempt_request pops the last running request and prepends it.         *)
LEMMA PreemptQueues ==
  ASSUME ControlTypes, Queues, running # << >>, PreemptLast
  PROVE  Queues'
<1> DEFINE r == Last(running)
<1>1. running \in Seq(Request) /\ waiting \in Seq(Request)
  BY DEF ControlTypes
<1>2. /\ r \in Request /\ r \in ToSet(running)
      /\ IsInjective(Front(running)) /\ ToSet(Front(running)) = ToSet(running) \ {r}
      /\ Len(Front(running)) = Len(running) - 1
  BY <1>1, FrontElements DEF Queues
<1>3. status[r] = "running" /\ r \notin ToSet(waiting)
  BY <1>2 DEF Queues
<1>4. /\ ToSet(<<r>> \o waiting) = ToSet(waiting) \cup {r}
      /\ IsInjective(<<r>> \o waiting)
  BY <1>1, <1>2, <1>3, PrependElements DEF Queues
<1>5. /\ running' = Front(running) /\ waiting' = <<r>> \o waiting
      /\ status' = [status EXCEPT ![r] = "preempted"]
  BY DEF PreemptLast
<1>6. Len(running') <= MaxRunning
  <2>1. Len(running) \in Nat /\ MaxRunning \in Nat
    BY <1>1, LenProperties, ConfigAssumption
  <2> QED BY <1>2, <1>5, <2>1 DEF Queues
<1> HIDE DEF r
<1>7. \A q \in Request : status'[q] = IF q = r THEN "preempted" ELSE status[q]
  BY <1>2, <1>5 DEF ControlTypes
<1>8. ToSet(running') = {q \in Request : status'[q] = "running"}
  BY <1>2, <1>5, <1>7 DEF Queues
<1>9. ToSet(waiting') = {q \in Request : status'[q] \in {"waiting", "preempted"}}
  BY <1>2, <1>4, <1>5, <1>7 DEF Queues
<1> QED BY <1>2, <1>4, <1>5, <1>6, <1>8, <1>9 DEF Queues

(* Abort and Stop take a request out of both queues.                       *)
LEMMA FinishQueues ==
  ASSUME ControlTypes, Queues, NEW r \in Request,
         status' = [status EXCEPT ![r] = "finished"],
         running' = RemoveFirst(running, r), waiting' = RemoveFirst(waiting, r)
  PROVE  Queues'
<1>1. running \in Seq(Request) /\ waiting \in Seq(Request)
  BY DEF ControlTypes
<1>2. /\ IsInjective(running') /\ ToSet(running') = ToSet(running) \ {r}
      /\ Len(running') <= Len(running) /\ running' \in Seq(Request)
  BY <1>1, RemoveFirstProperties DEF Queues
<1>3. IsInjective(waiting') /\ ToSet(waiting') = ToSet(waiting) \ {r}
  BY <1>1, RemoveFirstProperties DEF Queues
<1>4. Len(running') <= MaxRunning
  <2>1. Len(running) \in Nat /\ Len(running') \in Nat /\ MaxRunning \in Nat
    BY <1>1, <1>2, LenProperties, ConfigAssumption
  <2> QED BY <1>2, <2>1 DEF Queues
<1>5. \A q \in Request : status'[q] = IF q = r THEN "finished" ELSE status[q]
  BY DEF ControlTypes
<1>6. ToSet(running') = {q \in Request : status'[q] = "running"}
  BY <1>2, <1>5 DEF Queues
<1>7. ToSet(waiting') = {q \in Request : status'[q] \in {"waiting", "preempted"}}
  BY <1>3, <1>5 DEF Queues
<1> QED BY <1>2, <1>3, <1>4, <1>6, <1>7 DEF Queues

(* add_request appends to waiting a request that was in no queue.          *)
LEMMA AddQueues ==
  ASSUME ControlTypes, Queues, NEW r \in Request, AddRequest(r)
  PROVE  Queues'
<1>1. running \in Seq(Request) /\ waiting \in Seq(Request)
  BY DEF ControlTypes
<1>2. /\ status[r] = "none" /\ waiting' = Append(waiting, r) /\ running' = running
      /\ status' = [status EXCEPT ![r] = "waiting"]
  BY DEF AddRequest, queues
<1>3. r \notin ToSet(waiting) /\ r \notin ToSet(running)
  BY <1>2 DEF Queues
<1>4. IsInjective(waiting') /\ ToSet(waiting') = ToSet(waiting) \cup {r}
  BY <1>1, <1>2, <1>3, AppendElements DEF Queues
<1>5. \A q \in Request : status'[q] = IF q = r THEN "waiting" ELSE status[q]
  BY <1>2 DEF ControlTypes
<1>6. ToSet(running') = {q \in Request : status'[q] = "running"}
  BY <1>2, <1>3, <1>5 DEF Queues
<1>7. ToSet(waiting') = {q \in Request : status'[q] \in {"waiting", "preempted"}}
  BY <1>4, <1>5 DEF Queues
<1> QED BY <1>2, <1>4, <1>6, <1>7 DEF Queues

(* The waiting loop moves the head of waiting to the end of running.       *)
LEMMA AdmitQueues ==
  ASSUME ControlTypes, Queues, AdmitWaiting
  PROVE  Queues'
<1> DEFINE r == Head(waiting)
<1>1. running \in Seq(Request) /\ waiting \in Seq(Request) /\ waiting # << >>
  BY DEF ControlTypes, AdmitWaiting, InWaitingLoop
<1>2. /\ r \in Request /\ r \in ToSet(waiting)
      /\ IsInjective(Tail(waiting)) /\ ToSet(Tail(waiting)) = ToSet(waiting) \ {r}
  BY <1>1, TailElements DEF Queues
<1>3. /\ running' = Append(running, r) /\ waiting' = Tail(waiting)
      /\ status' = [status EXCEPT ![r] = "running"]
      /\ Len(running) < MaxRunning
  BY DEF AdmitWaiting, InWaitingLoop
<1> HIDE DEF r
<1>4. r \notin ToSet(running)
  BY <1>2 DEF Queues
<1>5. /\ IsInjective(running') /\ ToSet(running') = ToSet(running) \cup {r}
      /\ Len(running') = Len(running) + 1
  BY <1>1, <1>2, <1>3, <1>4, AppendElements DEF Queues
<1>6. Len(running') <= MaxRunning
  <2>1. Len(running) \in Nat /\ MaxRunning \in Nat
    BY <1>1, LenProperties, ConfigAssumption
  <2> QED BY <1>3, <1>5, <2>1
<1>7. \A q \in Request : status'[q] = IF q = r THEN "running" ELSE status[q]
  BY <1>2, <1>3 DEF ControlTypes
<1>8. ToSet(running') = {q \in Request : status'[q] = "running"}
  BY <1>2, <1>5, <1>7 DEF Queues
<1>9. ToSet(waiting') = {q \in Request : status'[q] \in {"waiting", "preempted"}}
  BY <1>2, <1>3, <1>7 DEF Queues
<1> QED BY <1>2, <1>3, <1>5, <1>6, <1>8, <1>9 DEF Queues

(* Both queues start empty and no request has been added.                  *)
LEMMA InitQueues == Init => Queues
<1> SUFFICES ASSUME Init PROVE Queues
  OBVIOUS
<1>1. /\ running = << >> /\ waiting = << >>
      /\ \A r \in Request : status[r] = "none"
  BY DEF Init
<1>2. ToSet(<< >>) = {} /\ IsInjective(<< >>) /\ Len(<< >>) = 0
  BY DEF ToSet, IsInjective
<1>3. 0 <= MaxRunning
  BY ConfigAssumption
<1> QED BY <1>1, <1>2, <1>3 DEF Queues

(* Every step keeps Queues: the inductive step of QueuesInvariant.         *)
LEMMA NextQueues == Types /\ Queues /\ [Next]_vars => Queues'
<1> SUFFICES ASSUME ControlTypes, RowsNameRequests, Queues, [Next]_vars
             PROVE  Queues'
  BY DEF Types
<1> USE DEF request, queues
<1>1. CASE UNCHANGED vars \/ Idle
  BY <1>1, QueuesKept DEF vars, Idle
<1>2. ASSUME NEW r \in Request, AddRequest(r) PROVE Queues'
  BY <1>2, AddQueues
<1>3. ASSUME NEW r \in Request, Abort(r) PROVE Queues'
  BY <1>3, FinishQueues DEF Abort
<1>4. CASE ResetPreempt
  BY <1>4, PreemptQueues DEF ResetPreempt
<1>5. CASE PreemptForSlots
  BY <1>5, CandidateType, PreemptQueues DEF PreemptForSlots
<1>6. CASE AdmitWaiting
  BY <1>6, AdmitQueues
<1>7. CASE AppendToken
  <2>1. NextRow.req \in Request
    BY <1>7, RowTaken DEF AppendToken, worker, call
  <2>2. CASE UNCHANGED <<status, running, waiting>>
    BY <2>2, QueuesKept
  <2>3. CASE Stop(NextRow.req, hash')
    BY <2>1, <2>3, FinishQueues DEF Stop
  <2> QED BY <1>7, <2>2, <2>3 DEF AppendToken
<1>8. CASE \/ ResetPrefixCache \/ ForceReset \/ ResetEnd \/ BeginSchedule
           \/ SkipRunning \/ ScheduleRunning \/ EndRunning \/ RefuseWaiting
           \/ EndWaiting \/ Launch \/ TakeResults \/ IgnoreRow \/ DiscardRow
  <2>1. UNCHANGED <<running, waiting, status>>
    BY <1>8 DEF ResetPrefixCache, ForceReset, ResetEnd, BeginSchedule, SkipRunning,
                ScheduleRunning, EndRunning, RefuseWaiting, EndWaiting, Launch,
                TakeResults, IgnoreRow, DiscardRow
  <2> QED BY <2>1, QueuesKept
<1> QED
  BY <1>1, <1>2, <1>3, <1>4, <1>5, <1>6, <1>7, <1>8 DEF Next, Client, Engine

(* Queues holds always; TablesInvariant and RefsInvariant rest on it.      *)
LEMMA QueuesInvariant == Spec => []Queues
<1>1. Init => Queues
  BY InitQueues
<1>2. Types /\ Queues /\ [Next]_vars => Queues'
  BY NextQueues
<1> QED BY <1>1, <1>2, TypesInvariant, PTL DEF Spec

(* A request is in exactly the queue its status calls for, once, and no    *)
(* more than MaxRunning are running, whatever add_request, preemption,     *)
(* finish_requests, a forced reset and late outputs do.                    *)
THEOREM QueuesMatchStatusInvariant == Spec => []QueuesMatchStatus
BY TypesInvariant, QueuesInvariant, QueuesSuffice, PTL

-----------------------------------------------------------------------------
(***************************************************************************)
(* OnlyRunningHoldBlocks.  A request leaves "running" together with its    *)
(* blocks, and retentions live from an admission to the end of schedule(). *)
(***************************************************************************)
Tables ==
  /\ \A r \in Request : table[r] # << >> => status[r] = "running"
  /\ phase \notin {"waiting", "launch"} => retained = << >>

(* A step that keeps the tables and statuses may only drop retentions.     *)
LEMMA TablesKept ==
  ASSUME Tables, UNCHANGED <<table, status>>,
         \/ UNCHANGED retained /\ (phase' \in {"waiting", "launch"} \/ phase \notin {"waiting", "launch"})
         \/ retained' = << >>
  PROVE  Tables'
BY DEF Tables

(* Whoever stops running gives its blocks up in the same step.             *)
LEMMA FreeTables ==
  ASSUME ControlTypes, Tables, NEW r \in Request, FreeRequestBlocks(r), NEW s,
         status' = [status EXCEPT ![r] = s], UNCHANGED retained,
         phase \notin {"waiting", "launch"}
  PROVE  Tables'
<1>1. table' = [table EXCEPT ![r] = << >>]
  BY DEF FreeRequestBlocks
<1>2. \A q \in Request : /\ table'[q] = IF q = r THEN << >> ELSE table[q]
                         /\ q # r => status'[q] = status[q]
  BY <1>1 DEF ControlTypes
<1> QED BY <1>2 DEF Tables

(* Every step keeps Tables: the inductive step of TablesInvariant.         *)
LEMMA NextTables == Types /\ Queues /\ Tables /\ [Next]_vars => Tables'
<1> SUFFICES ASSUME ControlTypes, RowsNameRequests, Queues, Tables, [Next]_vars
             PROVE  Tables'
  BY DEF Types
<1> USE DEF request, leases, call, worker
<1>1. CASE UNCHANGED vars \/ Idle
  BY <1>1, TablesKept DEF vars, Idle, Tables
<1>2. ASSUME NEW r \in Request, AddRequest(r) PROVE Tables'
  <2>1. /\ status[r] = "none" /\ status' = [status EXCEPT ![r] = "waiting"]
        /\ UNCHANGED <<table, retained, phase>>
    BY <1>2 DEF AddRequest
  <2>2. \A q \in Request : q # r => status'[q] = status[q]
    BY <2>1 DEF ControlTypes
  <2> QED BY <2>1, <2>2 DEF Tables
<1>3. ASSUME NEW r \in Request, Abort(r) PROVE Tables'
  BY <1>3, FreeTables DEF Abort
<1>4. CASE ResetPreempt
  <2>1. Last(running) \in Request
    BY <1>4, PreemptTypes DEF ResetPreempt
  <2> QED BY <1>4, <2>1, FreeTables DEF ResetPreempt, PreemptLast
<1>5. CASE PreemptForSlots
  <2>1. running # << >> /\ PreemptLast /\ phase = "running" /\ UNCHANGED retained
    BY <1>5, CandidateType DEF PreemptForSlots, InRunningLoop
  <2>2. Last(running) \in Request
    BY <2>1, PreemptTypes
  <2> QED BY <2>1, <2>2, FreeTables DEF PreemptLast
<1>6. CASE AdmitWaiting
  <2>1. Head(waiting) \in Request
    BY <1>6, Admitted
  <2>2. /\ status' = [status EXCEPT ![Head(waiting)] = "running"]
        /\ phase' = "waiting"
        /\ \E blocks : table' = [table EXCEPT ![Head(waiting)] = blocks]
    BY <1>6 DEF AdmitWaiting, InWaitingLoop, Admit
  <2>3. \A q \in Request : IF q = Head(waiting) THEN status'[q] = "running"
                           ELSE status'[q] = status[q] /\ table'[q] = table[q]
    BY <2>1, <2>2 DEF ControlTypes
  <2> QED BY <2>2, <2>3 DEF Tables
<1>7. CASE ScheduleRunning
  <2>1. Candidate \in Request /\ status[Candidate] = "running"
    BY <1>7, CandidateType DEF ScheduleRunning, Queues
  <2>2. /\ \E blocks : table' = [table EXCEPT ![Candidate] = blocks]
        /\ UNCHANGED <<status, retained, phase>>
    BY <1>7 DEF ScheduleRunning
  <2>3. \A q \in Request : q # Candidate => table'[q] = table[q]
    BY <2>1, <2>2 DEF ControlTypes
  <2> QED BY <2>1, <2>2, <2>3 DEF Tables
<1>8. CASE AppendToken
  <2>1. NextRow.req \in Request /\ phase' \in {"idle", "update"}
    BY <1>8, RowTaken DEF AppendToken
  <2>2. UNCHANGED retained /\ phase = "update"
    BY <1>8 DEF AppendToken
  <2>3. CASE UNCHANGED <<status, table>>
    BY <2>1, <2>2, <2>3, TablesKept
  <2>4. CASE Stop(NextRow.req, hash')
    BY <2>1, <2>2, <2>4, FreeTables DEF Stop
  <2> QED BY <1>8, <2>3, <2>4 DEF AppendToken
<1>9. CASE Launch
  BY <1>9, TablesKept DEF Launch
<1>10. CASE \/ ResetPrefixCache \/ ForceReset \/ ResetEnd \/ BeginSchedule
            \/ SkipRunning \/ EndRunning \/ RefuseWaiting
            \/ EndWaiting \/ TakeResults \/ IgnoreRow \/ DiscardRow
  <2>1. UNCHANGED <<table, status, retained>>
    BY <1>10 DEF ResetPrefixCache, ForceReset, ResetEnd, BeginSchedule, SkipRunning,
                EndRunning, RefuseWaiting, EndWaiting, TakeResults, IgnoreRow, DiscardRow
  <2>2. phase' \in {"waiting", "launch"} \/ phase \notin {"waiting", "launch"}
    BY <1>10 DEF ResetPrefixCache, ForceReset, ResetEnd, BeginSchedule, BetweenSteps,
                SkipRunning, InRunningLoop, EndRunning, RefuseWaiting, EndWaiting,
                TakeResults, IgnoreRow, DiscardRow
  <2> QED BY <2>1, <2>2, TablesKept
<1> QED
  BY <1>1, <1>2, <1>3, <1>4, <1>5, <1>6, <1>7, <1>8, <1>9, <1>10
  DEF Next, Client, Engine

(* Tables holds always, given the typing and Queues.                       *)
LEMMA TablesInvariant == Spec => []Tables
<1>1. Init => Tables
  BY DEF Init, Tables
<1>2. Types /\ Queues /\ Tables /\ [Next]_vars => Tables'
  BY NextTables
<1> QED BY <1>1, <1>2, TypesInvariant, QueuesInvariant, PTL DEF Spec

(* Only running requests hold blocks, and no retention outlives the        *)
(* schedule() that took it.                                                *)
THEOREM OnlyRunningHoldBlocksInvariant == Spec => []OnlyRunningHoldBlocks
<1>1. Tables => OnlyRunningHoldBlocks
  BY DEF Tables, OnlyRunningHoldBlocks
<1> QED BY <1>1, TablesInvariant, PTL

-----------------------------------------------------------------------------
(***************************************************************************)
(* RefsCountHolders.  Every step that changes a reference count adds or    *)
(* removes as many holders of the block.  What makes the sums right: a new *)
(* block has no holder, an admitted request has no table yet (Tables and   *)
(* Queues), an idle lease is empty, requests and leases are told apart.    *)
(***************************************************************************)
Refs == DOMAIN ref = Block /\ RefsCountHolders

(* A block has finitely many holders, so they can be counted.              *)
LEMMA HoldersFinite ==
  ASSUME NEW b
  PROVE  IsFiniteSet(Holders(b)) /\ Cardinality(Holders(b)) \in Nat
<1>1. IsFiniteSet(Holder)
  BY RequestAssumption, FS_Union DEF Holder
<1>2. Holders(b) \in SUBSET Holder
  BY DEF Holders
<1>3. IsFiniteSet(Holders(b))
  BY <1>1, <1>2, FS_Subset
<1> QED BY <1>3, FS_CardinalityType

(* A step that keeps counts, tables and leases keeps Refs.                 *)
LEMMA RefsKept ==
  ASSUME Refs, UNCHANGED <<ref, table, lease>>
  PROVE  Refs'
BY DEF Refs, RefsCountHolders, Holders, HeldBy

(* Who holds a block after a step, from what the step did to the tables    *)
(* and to the leases.                                                      *)
LEMMA HoldersAfter ==
  ASSUME NEW b, NEW H,
         \A r \in Request : r \in H <=> b \in ToSet(table'[r]),
         \A l \in Lease : l \in H <=> b \in lease'[l],
         H \subseteq Holder
  PROVE  Holders(b)' = H
BY RequestAssumption DEF Holders, HeldBy, Holder

(* Who holds a block, read off the tables and the leases.                  *)
LEMMA HoldersNow ==
  ASSUME NEW b
  PROVE  /\ \A r \in Request : r \in Holders(b) <=> b \in ToSet(table[r])
         /\ \A l \in Lease : l \in Holders(b) <=> b \in lease[l]
         /\ Holders(b) \subseteq Holder
BY RequestAssumption DEF Holders, HeldBy, Holder

(* Same contents of tables and leases, same holders.                       *)
LEMMA HoldersSame ==
  ASSUME NEW b,
         \A r \in Request : b \in ToSet(table'[r]) <=> b \in ToSet(table[r]),
         \A l \in Lease : b \in lease'[l] <=> b \in lease[l]
  PROVE  Holders(b)' = Holders(b)
BY RequestAssumption DEF Holders, HeldBy, Holder

(* Freeing a request's table either drops its counts or leases it.         *)
LEMMA FreeRefs ==
  ASSUME ControlTypes, Refs, NEW r \in Request, FreeRequestBlocks(r)
  PROVE  Refs'
<1>1. /\ \A q \in Request : table'[q] = IF q = r THEN << >> ELSE table[q]
      /\ ToSet(<< >>) = {}
  BY DEF FreeRequestBlocks, ControlTypes, ToSet
<1>2. CASE /\ ref' = [b \in Block |-> IF b \in ToSet(table[r]) THEN ref[b] - 1 ELSE ref[b]]
           /\ lease' = lease
  <2>1. ASSUME NEW b \in Block PROVE ref'[b] = Cardinality(Holders(b)')
    <3>1. Holders(b)' = Holders(b) \ {r}
      <4>1. \A q \in Request : q \in Holders(b) \ {r} <=> b \in ToSet(table'[q])
        BY <1>1, HoldersNow
      <4>2. \A l \in Lease : l \in Holders(b) \ {r} <=> b \in lease'[l]
        BY <1>2, HoldersNow, RequestAssumption
      <4>3. Holders(b) \ {r} \subseteq Holder
        BY HoldersNow
      <4> QED BY <4>1, <4>2, <4>3, HoldersAfter
    <3>2. Cardinality(Holders(b) \ {r}) = IF b \in ToSet(table[r])
                                         THEN Cardinality(Holders(b)) - 1
                                         ELSE Cardinality(Holders(b))
      BY HoldersFinite, HoldersNow, FS_RemoveElement
    <3> QED BY <1>2, <3>1, <3>2 DEF Refs, RefsCountHolders
  <2> QED BY <1>2, <2>1 DEF Refs, RefsCountHolders
<1>3. CASE table[r] = << >> /\ UNCHANGED <<ref, lease>>
  <2>1. ASSUME NEW b \in Block PROVE Holders(b)' = Holders(b)
    BY <1>1, <1>3, HoldersSame
  <2> QED BY <1>3, <2>1 DEF Refs, RefsCountHolders
<1>4. CASE /\ IdleLeases # {}
           /\ lease' = [lease EXCEPT ![NextLease] = ToSet(table[r])]
           /\ UNCHANGED ref
  <2> DEFINE l == NextLease
  <2>1. l \in Lease /\ lease[l] = {} /\ l \notin Request
    BY <1>4, RequestAssumption DEF NextLease, IdleLeases
  <2> HIDE DEF l
  <2>2. \A m \in Lease : lease'[m] = IF m = l THEN ToSet(table[r]) ELSE lease[m]
    BY <1>4, <2>1 DEF ControlTypes, l
  <2>3. ASSUME NEW b \in Block, b \notin ToSet(table[r]) PROVE Holders(b)' = Holders(b)
    <3>1. \A q \in Request : b \in ToSet(table'[q]) <=> b \in ToSet(table[q])
      BY <1>1, <2>3
    <3>2. \A m \in Lease : b \in lease'[m] <=> b \in lease[m]
      BY <2>1, <2>2, <2>3
    <3> QED BY <3>1, <3>2, HoldersSame
  <2>4. ASSUME NEW b \in Block, b \in ToSet(table[r])
        PROVE  Cardinality(Holders(b)') = Cardinality(Holders(b))
    <3> DEFINE H == Holders(b) \ {r}
    <3>1. r \in Holders(b) /\ l \notin Holders(b)
      BY <2>1, <2>4, HoldersNow
    <3>2. Holders(b)' = H \cup {l}
      <4>1. \A q \in Request : q \in H \cup {l} <=> b \in ToSet(table'[q])
        BY <1>1, <2>1, HoldersNow
      <4>2. \A m \in Lease : m \in H \cup {l} <=> b \in lease'[m]
        BY <2>1, <2>2, <2>4, HoldersNow, RequestAssumption
      <4>3. H \cup {l} \subseteq Holder
        BY <2>1, HoldersNow DEF Holder
      <4> HIDE DEF H
      <4> QED BY <4>1, <4>2, <4>3, HoldersAfter
    <3>3. IsFiniteSet(H) /\ Cardinality(H) = Cardinality(Holders(b)) - 1
      BY <3>1, HoldersFinite, FS_RemoveElement
    <3>4. Cardinality(H \cup {l}) = Cardinality(H) + 1
      <4>1. l \notin H
        BY <3>1
      <4> HIDE DEF H
      <4> QED BY <3>3, <4>1, FS_AddElement
    <3> HIDE DEF H
    <3> QED BY <3>2, <3>3, <3>4, HoldersFinite
  <2> QED BY <1>4, <2>3, <2>4 DEF Refs, RefsCountHolders
<1> QED BY <1>2, <1>3, <1>4 DEF FreeRequestBlocks

(* free_blocks over the lists of some leases.                              *)
LEMMA ReleaseRefs ==
  ASSUME ControlTypes, Refs, NEW L \in SUBSET Lease, ReleaseLeases(L), table' = table
  PROVE  Refs'
<1>1. \A l \in Lease : lease'[l] = IF l \in L THEN {} ELSE lease[l]
  BY DEF ReleaseLeases
<1>2. ASSUME NEW b \in Block PROVE ref'[b] = Cardinality(Holders(b)')
  <2> DEFINE R == {l \in L : b \in lease[l]}
  <2>1. Holders(b)' = Holders(b) \ R
    <3>1. \A r \in Request : r \in Holders(b) \ R <=> b \in ToSet(table'[r])
      BY HoldersNow, RequestAssumption
    <3>2. \A l \in Lease : l \in Holders(b) \ R <=> b \in lease'[l]
      BY <1>1, HoldersNow
    <3>3. Holders(b) \ R \subseteq Holder
      BY HoldersNow
    <3> HIDE DEF R
    <3> QED BY <3>1, <3>2, <3>3, HoldersAfter
  <2>2. Holders(b) \cap R = R
    BY HoldersNow
  <2>3. ref'[b] = ref[b] - Cardinality(R)
    BY DEF ReleaseLeases
  <2> HIDE DEF R
  <2>4. Cardinality(Holders(b) \ R) = Cardinality(Holders(b)) - Cardinality(R)
    <3>1. IsFiniteSet(Holders(b)) /\ IsFiniteSet(R)
      BY <2>2, HoldersFinite, FS_Subset
    <3> QED BY <2>2, <3>1, FS_Difference
  <2> QED BY <2>1, <2>3, <2>4 DEF Refs, RefsCountHolders
<1> QED BY <1>2 DEF Refs, RefsCountHolders, ReleaseLeases

(* Growing the candidate's table counts each new block once.               *)
LEMMA ScheduleRefs ==
  ASSUME ControlTypes, Refs, ScheduleRunning
  PROVE  Refs'
<1> DEFINE r == Candidate
<1>1. r \in Request /\ lease' = lease
  BY CandidateType DEF ScheduleRunning, leases
<1>2. PICK new \in Seq(Block) :
        /\ ToSet(new) \subseteq FreeBlocks
        /\ table' = [table EXCEPT ![r] = table[r] \o new]
        /\ ref' = [b \in Block |-> IF b \in ToSet(new) THEN 1 ELSE ref[b]]
  BY ScheduledRunning
<1>3. ToSet(table[r] \o new) = ToSet(table[r]) \cup ToSet(new)
  BY <1>1, ConcatElements DEF ControlTypes
<1> HIDE DEF r
<1>4. \A q \in Request :
        ToSet(table'[q]) = IF q = r THEN ToSet(table[r]) \cup ToSet(new)
                                    ELSE ToSet(table[q])
  BY <1>1, <1>2, <1>3 DEF ControlTypes
<1>5. ASSUME NEW b \in Block, b \notin ToSet(new) PROVE Holders(b)' = Holders(b)
  BY <1>1, <1>4, <1>5, HoldersSame
<1>6. ASSUME NEW b \in Block, b \in ToSet(new) PROVE Cardinality(Holders(b)') = 1
  <2>1. Cardinality(Holders(b)) = 0
    BY <1>2, <1>6 DEF FreeBlocks, Refs, RefsCountHolders
  <2>2. Holders(b) = {}
    BY <2>1, HoldersFinite, FS_EmptySet
  <2>3. Holders(b)' = {r}
    <3>1. \A q \in Request : q \in {r} <=> b \in ToSet(table'[q])
      BY <1>4, <1>6, <2>2, HoldersNow
    <3>2. \A l \in Lease : l \in {r} <=> b \in lease'[l]
      BY <1>1, <2>2, HoldersNow, RequestAssumption
    <3>3. {r} \subseteq Holder
      BY <1>1 DEF Holder
    <3> QED BY <3>1, <3>2, <3>3, HoldersAfter
  <2> QED BY <2>3, FS_Singleton
<1> QED BY <1>2, <1>5, <1>6 DEF Refs, RefsCountHolders

(* Admission counts what the new table holds and what a copy pins.         *)
LEMMA AdmitRefs ==
  ASSUME ControlTypes, Queues, Tables, Refs, AdmitWaiting
  PROVE  Refs'
<1> DEFINE r == Head(waiting)
           pins == Pins(r)
<1>1. r \in Request
  BY Admitted
<1>2. PICK blocks \in Seq(Block) :
        /\ table' = [table EXCEPT ![r] = blocks]
        /\ ref' = [b \in Block |-> ref[b] + (IF b \in ToSet(blocks) THEN 1 ELSE 0)
                                         + (IF b \in pins THEN 1 ELSE 0)]
  <2>1. PICK hits \in Seq(Block), new \in Seq(Block) :
          /\ table' = [table EXCEPT ![r] = hits \o new]
          /\ ref' = [b \in Block |-> ref[b]
                         + (IF b \in ToSet(hits \o new) THEN 1 ELSE 0)
                         + (IF b \in pins THEN 1 ELSE 0)]
    BY Admitted
  <2>2. hits \o new \in Seq(Block)
    BY ConcatProperties
  <2> QED BY <2>1, <2>2
<1>3. table[r] = << >>
  <2>1. waiting \in Seq(Request) /\ waiting # << >>
    BY Admitted DEF ControlTypes
  <2>2. r \in ToSet(waiting)
    BY <2>1, TailElements
  <2> QED BY <1>1, <2>2 DEF Queues, Tables
<1>4. IF pins = {} THEN lease' = lease
      ELSE IdleLeases # {} /\ lease' = [lease EXCEPT ![NextLease] = pins]
  BY DEF AdmitWaiting
<1> HIDE DEF r, pins
<1>5. \A q \in Request : table'[q] = IF q = r THEN blocks ELSE table[q]
  BY <1>1, <1>2 DEF ControlTypes
<1>6. ASSUME NEW b \in Block PROVE ref'[b] = Cardinality(Holders(b)')
  <2> DEFINE H == IF b \in ToSet(blocks) THEN Holders(b) \cup {r} ELSE Holders(b)
  <2>1. r \notin Holders(b)
    BY <1>1, <1>3, HoldersNow DEF ToSet
  <2>2. /\ IsFiniteSet(H)
        /\ Cardinality(H) = ref[b] + (IF b \in ToSet(blocks) THEN 1 ELSE 0)
        /\ Cardinality(H) \in Nat
    <3>1. /\ IsFiniteSet(Holders(b)) /\ ref[b] = Cardinality(Holders(b))
          /\ Cardinality(Holders(b)) \in Nat
      BY HoldersFinite DEF Refs, RefsCountHolders
    <3>2. CASE b \in ToSet(blocks)
      <4>1. /\ IsFiniteSet(Holders(b) \cup {r})
            /\ Cardinality(Holders(b) \cup {r}) = Cardinality(Holders(b)) + 1
        BY <2>1, <3>1, FS_AddElement
      <4> QED BY <3>1, <3>2, <4>1
    <3>3. CASE b \notin ToSet(blocks)
      BY <3>1, <3>3
    <3> QED BY <3>2, <3>3
  <2>3. \A q \in Request : q \in H <=> b \in ToSet(table'[q])
    <3>1. b \notin ToSet(table[r])
      BY <1>3 DEF ToSet
    <3> QED BY <1>1, <1>5, <3>1, HoldersNow
  <2>4. (\A l \in Lease : l \in H <=> b \in lease[l]) /\ H \subseteq Holder
    BY <1>1, HoldersNow, RequestAssumption DEF Holder
  <2> HIDE DEF H
  <2>5. CASE b \notin pins
    <3>1. \A l \in Lease : b \in lease'[l] <=> b \in lease[l]
      <4>1. CASE pins = {}
        BY <1>4, <4>1
      <4>2. CASE pins # {}
        <5>1. NextLease \in Lease /\ lease[NextLease] = {}
          BY <1>4, <4>2 DEF NextLease, IdleLeases
        <5> QED BY <1>4, <2>5, <4>2, <5>1 DEF ControlTypes
      <4> QED BY <4>1, <4>2
    <3>2. Holders(b)' = H
      BY <2>3, <2>4, <3>1, HoldersAfter
    <3> QED BY <1>2, <2>2, <2>5, <3>2
  <2>6. CASE b \in pins
    <3> DEFINE n == NextLease
    <3>1. /\ n \in Lease /\ lease[n] = {} /\ n \notin Request
          /\ lease' = [lease EXCEPT ![n] = pins]
      BY <1>4, <2>6, RequestAssumption DEF NextLease, IdleLeases
    <3> HIDE DEF n
    <3>2. n \notin H
      BY <2>4, <3>1
    <3>3. \A l \in Lease : l \in H \cup {n} <=> b \in lease'[l]
      BY <2>4, <2>6, <3>1 DEF ControlTypes
    <3>4. \A q \in Request : q \in H \cup {n} <=> b \in ToSet(table'[q])
      BY <2>3, <3>1
    <3>5. Holders(b)' = H \cup {n}
      <4>1. H \cup {n} \subseteq Holder
        BY <2>4, <3>1 DEF Holder
      <4> QED BY <3>3, <3>4, <4>1, HoldersAfter
    <3>6. Cardinality(H \cup {n}) = Cardinality(H) + 1
      BY <2>2, <3>2, FS_AddElement
    <3> QED BY <1>2, <2>2, <2>6, <3>5, <3>6
  <2> QED BY <2>5, <2>6
<1> QED BY <1>2, <1>6 DEF Refs, RefsCountHolders

(* No block is held and no block is counted at the start.                  *)
LEMMA InitRefs == Init => Refs
<1> SUFFICES ASSUME Init PROVE Refs
  OBVIOUS
<1>1. /\ \A r \in Request : ToSet(table[r]) = {}
      /\ \A l \in Lease : lease[l] = {}
      /\ ref = [b \in Block |-> 0]
  BY DEF Init, ToSet
<1>2. ASSUME NEW b \in Block PROVE Holders(b) = {}
  BY <1>1 DEF Holders, HeldBy, Holder
<1> QED BY <1>1, <1>2, FS_EmptySet DEF Refs, RefsCountHolders

(* Every step keeps Refs: the inductive step of RefsCountHoldersInvariant. *)
LEMMA NextRefs == Types /\ Queues /\ Tables /\ Refs /\ [Next]_vars => Refs'
<1> SUFFICES ASSUME ControlTypes, RowsNameRequests, Queues, Tables, Refs, [Next]_vars
             PROVE  Refs'
  BY DEF Types
<1> USE DEF pool, leases, worker
<1>1. CASE UNCHANGED vars \/ Idle
  BY <1>1, RefsKept DEF vars, Idle
<1>2. ASSUME NEW r \in Request, Abort(r) PROVE Refs'
  BY <1>2, FreeRefs DEF Abort
<1>3. CASE ResetPreempt \/ PreemptForSlots
  <2>1. running # << >> /\ PreemptLast
    BY <1>3, CandidateType DEF ResetPreempt, PreemptForSlots
  <2>2. Last(running) \in Request /\ FreeRequestBlocks(Last(running))
    BY <2>1, PreemptTypes DEF PreemptLast
  <2> QED BY <2>2, FreeRefs
<1>4. CASE ScheduleRunning
  BY <1>4, ScheduleRefs
<1>5. CASE AdmitWaiting
  BY <1>5, AdmitRefs
<1>6. CASE Launch
  <2>1. ToSet(retained) \in SUBSET Lease
    BY LenProperties DEF ControlTypes, ToSet
  <2>2. /\ table' = table
        /\ UNCHANGED <<ref, lease>> \/ ReleaseLeases(ToSet(retained))
    BY <1>6 DEF Launch
  <2> QED BY <2>1, <2>2, ReleaseRefs, RefsKept
<1>7. CASE TakeResults
  <2>1. /\ table' = table
        /\ UNCHANGED <<ref, lease>> \/ \E n : ReleaseLeases(Due(n))
    BY <1>7 DEF TakeResults
  <2>2. \A n : Due(n) \in SUBSET Lease
    BY LenProperties DEF Due, DueEntries, ControlTypes
  <2> QED BY <2>1, <2>2, ReleaseRefs, RefsKept
<1>8. CASE AppendToken
  <2>1. NextRow.req \in Request
    BY <1>8, RowTaken DEF AppendToken, call
  <2>2. CASE UNCHANGED <<ref, table, lease>>
    BY <2>2, RefsKept
  <2>3. CASE Stop(NextRow.req, hash')
    BY <2>1, <2>3, FreeRefs DEF Stop
  <2> QED BY <1>8, <2>2, <2>3 DEF AppendToken
<1>9. ASSUME \/ \E r \in Request : AddRequest(r)
             \/ ResetPrefixCache \/ ForceReset \/ ResetEnd \/ BeginSchedule
             \/ SkipRunning \/ EndRunning \/ RefuseWaiting \/ EndWaiting
             \/ IgnoreRow \/ DiscardRow
      PROVE  Refs'
  <2>1. UNCHANGED <<ref, table, lease>>
    BY <1>9 DEF AddRequest, ResetPrefixCache, ForceReset, ResetEnd, BeginSchedule,
                SkipRunning, EndRunning, RefuseWaiting, EndWaiting, IgnoreRow, DiscardRow
  <2> QED BY <2>1, RefsKept
<1> QED
  BY <1>1, <1>2, <1>3, <1>4, <1>5, <1>6, <1>7, <1>8, <1>9 DEF Next, Client, Engine

(* Refs holds always, given the typing, Queues and Tables.                 *)
LEMMA RefsInvariant == Spec => []Refs
<1>1. Init => Refs
  BY InitRefs
<1>2. Types /\ Queues /\ Tables /\ Refs /\ [Next]_vars => Refs'
  BY NextRefs
<1> QED BY <1>1, <1>2, TypesInvariant, QueuesInvariant, TablesInvariant, PTL DEF Spec

(* A block's ref_cnt is the number of tables, retentions and deferred      *)
(* frees it is in: nothing is freed twice or leaked by touch, free_blocks, *)
(* retain_resident_sources, preemption or _drain_deferred_frees.           *)
THEOREM RefsCountHoldersInvariant == Spec => []RefsCountHolders
<1>1. Refs => RefsCountHolders
  BY DEF Refs
<1> QED BY <1>1, RefsInvariant, PTL

-----------------------------------------------------------------------------
(***************************************************************************)
(* EveryLeaseIsQueued.  A list of blocks enters one of the two queues when *)
(* its lease is filled and leaves it when the lease is emptied.            *)
(***************************************************************************)
Leases ==
  /\ IsInjective(retained) /\ IsInjective(deferred)
  /\ ToSet(retained) \cap ToSet(deferred) = {}
  /\ ToSet(retained) \cup ToSet(deferred) = {l \in Lease : lease[l] # {}}

(* The strengthening Leases implies the invariant a run checks.            *)
LEMMA LeasesSuffice == Types /\ Leases => EveryLeaseIsQueued
<1> SUFFICES ASSUME ControlTypes, Leases PROVE EveryLeaseIsQueued
  BY DEF Types
<1>1. retained \in Seq(Lease) /\ deferred \in Seq(Lease)
  BY DEF ControlTypes
<1> QED BY <1>1, ConcatElements DEF Leases, EveryLeaseIsQueued

(* A step that touches neither leases nor their queues keeps Leases.       *)
LEMMA LeasesKept ==
  ASSUME Leases, UNCHANGED <<retained, deferred, lease>>
  PROVE  Leases'
BY DEF Leases

(* An idle lease is in neither queue; it is filled and queued in one step. *)
LEMMA LeaseTaken ==
  ASSUME ControlTypes, Leases, IdleLeases # {}, NEW B, B # {},
         lease' = [lease EXCEPT ![NextLease] = B],
         \/ retained' = Append(retained, NextLease) /\ deferred' = deferred
         \/ deferred' = Append(deferred, NextLease) /\ retained' = retained
  PROVE  Leases'
<1> DEFINE n == NextLease
<1>1. n \in Lease /\ lease[n] = {}
  BY DEF NextLease, IdleLeases
<1>2. retained \in Seq(Lease) /\ deferred \in Seq(Lease)
  BY DEF ControlTypes
<1>3. n \notin ToSet(retained) /\ n \notin ToSet(deferred)
  BY <1>1 DEF Leases
<1>4. /\ ToSet(Append(retained, n)) = ToSet(retained) \cup {n}
      /\ IsInjective(Append(retained, n))
      /\ ToSet(Append(deferred, n)) = ToSet(deferred) \cup {n}
      /\ IsInjective(Append(deferred, n))
  BY <1>1, <1>2, <1>3, AppendElements DEF Leases
<1> HIDE DEF n
<1>5. \A l \in Lease : lease'[l] = IF l = n THEN B ELSE lease[l]
  BY DEF ControlTypes, n
<1>6. {l \in Lease : lease'[l] # {}} = {l \in Lease : lease[l] # {}} \cup {n}
  BY <1>1, <1>5
<1>7. CASE retained' = Append(retained, n) /\ deferred' = deferred
  BY <1>3, <1>4, <1>6, <1>7 DEF Leases
<1>8. CASE deferred' = Append(deferred, n) /\ retained' = retained
  BY <1>3, <1>4, <1>6, <1>8 DEF Leases
<1> QED BY <1>7, <1>8 DEF n

(* A deferred free fills an idle lease and queues it in one step.          *)
LEMMA FreeLeases ==
  ASSUME ControlTypes, Leases, NEW r \in Request, FreeRequestBlocks(r),
         retained' = retained
  PROVE  Leases'
<1>1. CASE UNCHANGED <<lease, deferred>>
  BY <1>1, LeasesKept
<1>2. CASE ~ UNCHANGED <<lease, deferred>>
  <2>1. /\ table[r] # << >> /\ IdleLeases # {}
        /\ lease' = [lease EXCEPT ![NextLease] = ToSet(table[r])]
        /\ deferred' = Append(deferred, NextLease)
    BY <1>2 DEF FreeRequestBlocks
  <2>2. ToSet(table[r]) # {}
    <3>1. table[r] \in Seq(Block)
      BY DEF ControlTypes
    <3> QED BY <2>1, <3>1, TailElements
  <2> QED BY <2>1, <2>2, LeaseTaken
<1> QED BY <1>1, <1>2

(* Launch moves every retention of the step to the deferred queue.         *)
LEMMA LaunchLeases ==
  ASSUME ControlTypes, Leases, Launch
  PROVE  Leases'
<1>1. retained \in Seq(Lease) /\ deferred \in Seq(Lease)
  BY DEF ControlTypes
<1>2. retained' = << >> /\ ToSet(retained') = {} /\ IsInjective(retained')
  <2>1. retained' = << >>
    BY DEF Launch
  <2>2. ToSet(<< >>) = {} /\ IsInjective(<< >>)
    BY DEF ToSet, IsInjective
  <2> QED BY <2>1, <2>2
<1>3. CASE Defer
  <2>1. deferred' = deferred \o retained /\ lease' = lease
    BY <1>3 DEF Launch
  <2>2. /\ ToSet(deferred') = ToSet(deferred) \cup ToSet(retained)
        /\ IsInjective(deferred')
    BY <1>1, <2>1, ConcatElements DEF Leases
  <2> QED BY <1>2, <2>1, <2>2 DEF Leases
<1>4. CASE ~ Defer
  <2>1. deferred' = deferred
        /\ lease' = [l \in Lease |-> IF l \in ToSet(retained) THEN {} ELSE lease[l]]
    BY <1>4 DEF Launch, ReleaseLeases
  <2>2. {l \in Lease : lease'[l] # {}} = {l \in Lease : lease[l] # {}} \ ToSet(retained)
    BY <2>1
  <2> QED BY <1>2, <2>1, <2>2 DEF Leases
<1> QED BY <1>3, <1>4

(* _drain_deferred_frees frees exactly the entries it removes.             *)
LEMMA TakeLeases ==
  ASSUME ControlTypes, Leases, TakeResults
  PROVE  Leases'
<1>1. retained' = retained
  BY DEF TakeResults
<1>2. CASE UNCHANGED <<lease, deferred>>
  BY <1>1, <1>2, LeasesKept
<1>3. CASE ~ UNCHANGED <<lease, deferred>>
  <2>1. PICK p : /\ lease' = [l \in Lease |-> IF l \in Due(p) THEN {} ELSE lease[l]]
                 /\ deferred' = SubSeq(deferred, NumDue(p) + 1, Len(deferred))
    BY <1>3 DEF TakeResults, ReleaseLeases
  <2> DEFINE D == DueEntries(p)
             n == NumDue(p)
  <2>2. deferred \in Seq(Lease) /\ Len(deferred) \in Nat /\ IsInjective(deferred)
    BY LenProperties DEF ControlTypes, Leases
  <2>3. n \in 0 .. Len(deferred) /\ D = 1 .. n
    <3>1. D \in SUBSET (1 .. Len(deferred))
      BY <2>2, LenProperties DEF DueEntries
    <3>2. \A j \in D : \A k \in 1 .. j : k \in D
      <4> SUFFICES ASSUME NEW j \in D, NEW k \in 1 .. j PROVE k \in D
        OBVIOUS
      <4>1. k \in DOMAIN deferred /\ 1 .. k \subseteq 1 .. j
        BY <2>2, <3>1, LenProperties
      <4> QED BY <4>1 DEF DueEntries
    <3> HIDE DEF D
    <3>3. Cardinality(D) \in 0 .. Len(deferred) /\ D = 1 .. Cardinality(D)
      BY <2>2, <3>1, <3>2, InitialSegment
    <3> QED BY <3>3 DEF NumDue, D
  <2> HIDE DEF D, n
  <2>4. Due(p) = {deferred[j] : j \in 1 .. n}
    BY <2>3 DEF Due, D
  <2>5. IsInjective(deferred') /\ ToSet(deferred') = ToSet(deferred) \ Due(p)
    BY <2>1, <2>2, <2>3, <2>4, SuffixElements DEF n
  <2>6. Due(p) \subseteq ToSet(deferred)
    BY <2>2, <2>3, <2>4, LenProperties DEF ToSet
  <2>7. {l \in Lease : lease'[l] # {}} = {l \in Lease : lease[l] # {}} \ Due(p)
    BY <2>1
  <2> QED BY <1>1, <2>5, <2>6, <2>7 DEF Leases
<1> QED BY <1>2, <1>3

(* Every step keeps Leases: the inductive step of the invariant.           *)
LEMMA NextLeases == Types /\ Leases /\ [Next]_vars => Leases'
<1> SUFFICES ASSUME ControlTypes, RowsNameRequests, Leases, [Next]_vars
             PROVE  Leases'
  BY DEF Types
<1> USE DEF leases
<1>1. CASE UNCHANGED vars \/ Idle
  BY <1>1, LeasesKept DEF vars, Idle
<1>2. ASSUME NEW r \in Request, Abort(r) PROVE Leases'
  BY <1>2, FreeLeases DEF Abort
<1>3. CASE ResetPreempt \/ PreemptForSlots
  <2>1. running # << >> /\ PreemptLast /\ retained' = retained
    BY <1>3, CandidateType DEF ResetPreempt, PreemptForSlots
  <2>2. Last(running) \in Request /\ FreeRequestBlocks(Last(running))
    BY <2>1, PreemptTypes DEF PreemptLast
  <2> QED BY <2>1, <2>2, FreeLeases
<1>4. CASE AdmitWaiting
  <2>1. deferred' = deferred
    BY <1>4 DEF AdmitWaiting
  <2>2. CASE UNCHANGED <<lease, retained>>
    BY <2>1, <2>2, LeasesKept
  <2>3. CASE ~ UNCHANGED <<lease, retained>>
    <3>1. /\ Pins(Head(waiting)) # {} /\ IdleLeases # {}
          /\ lease' = [lease EXCEPT ![NextLease] = Pins(Head(waiting))]
          /\ retained' = Append(retained, NextLease)
      BY <1>4, <2>3 DEF AdmitWaiting
    <3> QED BY <2>1, <3>1, LeaseTaken
  <2> QED BY <2>2, <2>3
<1>5. CASE Launch
  BY <1>5, LaunchLeases
<1>6. CASE TakeResults
  BY <1>6, TakeLeases
<1>7. CASE AppendToken
  <2>1. NextRow.req \in Request /\ retained' = retained
    BY <1>7, RowTaken DEF AppendToken, call, worker
  <2>2. CASE UNCHANGED <<lease, deferred>>
    BY <2>1, <2>2, LeasesKept
  <2>3. CASE Stop(NextRow.req, hash')
    BY <2>1, <2>3, FreeLeases DEF Stop
  <2> QED BY <1>7, <2>2, <2>3 DEF AppendToken
<1>8. ASSUME \/ \E r \in Request : AddRequest(r)
             \/ ResetPrefixCache \/ ForceReset \/ ResetEnd \/ BeginSchedule
             \/ SkipRunning \/ ScheduleRunning \/ EndRunning \/ RefuseWaiting
             \/ EndWaiting \/ IgnoreRow \/ DiscardRow
      PROVE  Leases'
  <2>1. UNCHANGED <<retained, deferred, lease>>
    BY <1>8 DEF AddRequest, ResetPrefixCache, ForceReset, ResetEnd, BeginSchedule,
                SkipRunning, ScheduleRunning, EndRunning, RefuseWaiting, EndWaiting,
                IgnoreRow, DiscardRow
  <2> QED BY <2>1, LeasesKept
<1> QED
  BY <1>1, <1>2, <1>3, <1>4, <1>5, <1>6, <1>7, <1>8 DEF Next, Client, Engine

(* Leases holds always, given the typing.                                  *)
LEMMA LeasesInvariant == Spec => []Leases
<1>1. Init => Leases
  BY DEF Init, Leases, ToSet, IsInjective
<1>2. Types /\ Leases /\ [Next]_vars => Leases'
  BY NextLeases
<1> QED BY <1>1, <1>2, TypesInvariant, PTL DEF Spec

(* Every outstanding retention or deferred free is in exactly one of the   *)
(* two lists that will release it, once, so it is released exactly once.   *)
THEOREM EveryLeaseIsQueuedInvariant == Spec => []EveryLeaseIsQueued
BY TypesInvariant, LeasesInvariant, LeasesSuffice, PTL

-----------------------------------------------------------------------------
(***************************************************************************)
(* What defer_block_free is for: no block of a launched step is in the     *)
(* pool before the step is done, the fences of deferred_frees are in       *)
(* order, and a forced reset fails for deferred blocks only.               *)
(***************************************************************************)

(* Step numbers, and the fences made from them, are integers.              *)
StepTypes ==
  /\ lastSched \in [Request -> Int] /\ fence \in [Lease -> Int]
  /\ schedSeq \in Int /\ processedSeq \in Int

(* _free_request_blocks sets at most the fence of an idle lease.           *)
LEMMA FreeStepTypes ==
  ASSUME StepTypes, NEW r \in Request, FreeRequestBlocks(r),
         UNCHANGED <<lastSched, schedSeq, processedSeq>>
  PROVE  StepTypes'
<1>1. CASE fence' = fence
  BY <1>1 DEF StepTypes
<1>2. CASE fence' # fence
  <2>1. fence' = [fence EXCEPT ![NextLease] = schedSeq]
    BY <1>2 DEF FreeRequestBlocks
  <2> QED BY <2>1 DEF StepTypes
<1> QED BY <1>1, <1>2

(* Every step keeps StepTypes: steps are counted one at a time.            *)
LEMMA NextStepTypes == Types /\ StepTypes /\ [Next]_vars => StepTypes'
<1> SUFFICES ASSUME ControlTypes, RowsNameRequests, StepTypes, [Next]_vars
             PROVE  StepTypes'
  BY DEF Types
<1> USE DEF request, leases, seqs
<1>1. CASE UNCHANGED vars \/ Idle
  BY <1>1 DEF vars, Idle, StepTypes
<1>2. ASSUME NEW r \in Request, Abort(r) PROVE StepTypes'
  BY <1>2, FreeStepTypes DEF Abort
<1>3. CASE ResetPreempt \/ PreemptForSlots
  <2>1. running # << >> /\ PreemptLast
    BY <1>3, CandidateType DEF ResetPreempt, PreemptForSlots
  <2>2. Last(running) \in Request /\ FreeRequestBlocks(Last(running))
    BY <2>1, PreemptTypes DEF PreemptLast
  <2> QED BY <1>3, <2>2, FreeStepTypes DEF ResetPreempt, PreemptForSlots
<1>4. CASE Launch
  <2>1. /\ fence' = fence \/ fence' = [l \in Lease |-> IF l \in ToSet(retained)
                                                       THEN schedSeq + 1 ELSE fence[l]]
        /\ schedSeq' \in {schedSeq, schedSeq + 1} /\ processedSeq' = processedSeq
        /\ \E T : lastSched' = [r \in Request |-> IF r \in T THEN schedSeq' ELSE lastSched[r]]
    <3>1. lastSched' = [r \in Request |-> IF r \in {q \in Request : Defer /\ RowsOf(q) # {}}
                                          THEN schedSeq' ELSE lastSched[r]]
      BY <1>4 DEF Launch
    <3> QED BY <1>4, <3>1 DEF Launch, RetentionFence
  <2> QED BY <2>1 DEF StepTypes
<1>5. CASE TakeResults
  <2>1. UNCHANGED <<lastSched, fence, schedSeq>> /\ processedSeq' \in {processedSeq, processedSeq + 1}
    BY <1>5 DEF TakeResults
  <2> QED BY <2>1 DEF StepTypes
<1>6. CASE AppendToken
  <2>1. NextRow.req \in Request /\ UNCHANGED <<lastSched, schedSeq, processedSeq>>
    BY <1>6, RowTaken DEF AppendToken, worker, call
  <2>2. CASE fence' = fence
    BY <2>1, <2>2 DEF StepTypes
  <2>3. CASE Stop(NextRow.req, hash')
    BY <2>1, <2>3, FreeStepTypes DEF Stop
  <2> QED BY <1>6, <2>2, <2>3 DEF AppendToken
<1>7. ASSUME \/ \E r \in Request : AddRequest(r)
             \/ ResetPrefixCache \/ ForceReset \/ ResetEnd \/ BeginSchedule
             \/ SkipRunning \/ ScheduleRunning \/ EndRunning \/ AdmitWaiting
             \/ RefuseWaiting \/ EndWaiting \/ IgnoreRow \/ DiscardRow
      PROVE  StepTypes'
  <2>1. UNCHANGED <<lastSched, fence, schedSeq, processedSeq>>
    BY <1>7 DEF AddRequest, ResetPrefixCache, ForceReset, ResetEnd, BeginSchedule,
                SkipRunning, ScheduleRunning, EndRunning, AdmitWaiting, RefuseWaiting,
                EndWaiting, IgnoreRow, DiscardRow
  <2> QED BY <2>1 DEF StepTypes
<1> QED
  BY <1>1, <1>2, <1>3, <1>4, <1>5, <1>6, <1>7 DEF Next, Client, Engine

-----------------------------------------------------------------------------
(***************************************************************************)
(* The step that schedule() is putting together: its requests run and have *)
(* the blocks its rows name, and what it copies from is retained.  While   *)
(* the running loop may still preempt, its rows are of requests it passed. *)
(***************************************************************************)
RowIsHeld(row) ==
  /\ row.req \in ToSet(running)
  /\ \A j \in 1 .. BlockOf(row.to) : row.blocks[j] \in ToSet(table[row.req])
  /\ \A c \in row.copies : \A e \in c.from :
       \E l \in ToSet(retained) : e.block \in lease[l]

Scheduled ==
  /\ retained # << >> => batch # << >>
  /\ \A i \in DOMAIN batch : RowIsHeld(batch[i])
  /\ phase \in {"idle", "update", "reset"} => batch = << >>
  /\ phase = "running" => \A i \in DOMAIN batch :
       \E k \in 1 .. cursor - 1 : k <= Len(running) /\ batch[i].req = running[k]

(* Outside schedule() there is no such step.                               *)
LEMMA NothingScheduled ==
  ASSUME batch' = << >>, retained' = << >>
  PROVE  Scheduled'
BY DEF Scheduled

(* The phases in which requests are scheduled go on with the same rows.    *)
LEMMA ScheduledKept ==
  ASSUME Scheduled, ControlTypes, UNCHANGED <<batch, retained, lease, running, table>>,
         phase \notin {"idle", "update", "reset"},
         \/ phase' = phase /\ cursor' = cursor + 1
         \/ phase' \in {"waiting", "launch"}
  PROVE  Scheduled'
<1>1. \A i \in DOMAIN batch' : RowIsHeld(batch[i])'
  BY DEF Scheduled, RowIsHeld
<1>2. cursor \in Int
  BY DEF ControlTypes
<1>3. 1 .. cursor - 1 \subseteq 1 .. (cursor + 1) - 1
  BY <1>2
<1>4. phase' \notin {"idle", "update", "reset"}
  OBVIOUS
<1>5. phase' = "running" => phase = "running" /\ cursor' = cursor + 1
  OBVIOUS
<1> QED BY <1>1, <1>3, <1>4, <1>5 DEF Scheduled

(* get_new_blocks returns as many blocks as it is asked for.               *)
LEMMA NewBlocksLength ==
  ASSUME NEW n \in Int, NEW free \in SUBSET Block, NEW new \in NewBlocks(free, n)
  PROVE  n <= Len(new)
<1>1. new \in [1 .. n -> free]
  BY DEF NewBlocks
<1>2. new \in Seq(Block) /\ DOMAIN new = 1 .. n
  BY <1>1, NewBlocksType
<1>3. Len(new) \in Nat /\ 1 .. Len(new) = 1 .. n
  BY <1>2, LenProperties
<1> QED BY <1>3

(* A table that was extended by what a row needs has the row's blocks.     *)
LEMMA BlocksInTable ==
  ASSUME NEW old \in Seq(Block), NEW new \in Seq(Block), NEW n \in Int,
         n - Len(old) <= Len(new)
  PROVE  \A j \in 1 .. n : (old \o new)[j] \in ToSet(old \o new)
<1>1. Len(old) \in Nat /\ Len(new) \in Nat
  BY LenProperties
<1>2. old \o new \in Seq(Block) /\ Len(old \o new) = Len(old) + Len(new)
  BY ConcatElements
<1> DEFINE u == old \o new
<1>3. DOMAIN u = 1 .. Len(old) + Len(new)
  BY <1>2, LenProperties
<1> HIDE DEF u
<1>4. \A j \in 1 .. n : j \in DOMAIN u
  BY <1>1, <1>3
<1>5. \A j \in 1 .. n : u[j] \in ToSet(u)
  BY <1>4 DEF ToSet
<1> QED BY <1>5 DEF u

(* The running loop extends the table of the request at the cursor.        *)
LEMMA ScheduleKeepsScheduled ==
  ASSUME ControlTypes, RowsNameRequests, Scheduled, ScheduleRunning
  PROVE  Scheduled'
<1> DEFINE r == Candidate
           to == computed[r] + NewTokens(r)
<1>1. /\ r \in Request /\ r \in ToSet(running) /\ phase = "running"
      /\ cursor \in Nat /\ cursor >= 1 /\ cursor <= Len(running)
  <2>1. InRunningLoop
    BY DEF ScheduleRunning
  <2>2. r \in Request /\ r \in ToSet(running)
    BY <2>1, CandidateType
  <2>3. cursor \in Nat \ {0}
    BY DEF ControlTypes
  <2>4. phase = "running" /\ cursor <= Len(running)
    BY <2>1 DEF InRunningLoop
  <2> QED BY <2>2, <2>3, <2>4
<1>2. table[r] \in Seq(Block) /\ computed[r] \in Int
  BY <1>1 DEF ControlTypes
<1>3. to \in Int
  <2>1. Missing(r) \in Int /\ budget \in Int
    BY <1>1 DEF ControlTypes, Missing
  <2>2. NewTokens(r) \in Int
    BY <2>1, SmallerType DEF NewTokens
  <2> QED BY <1>2, <2>2
<1>4. BlockOf(to) \in Int /\ NeededBlocks(r) = BlockOf(to) - Len(table[r])
      /\ Len(table[r]) \in Int /\ NeededBlocks(r) \in Int
  <2>1. CeilDiv(to, BlockSize) \in Int
    BY <1>3, CeilDivType
  <2>2. Len(table[r]) \in Int
    BY <1>2, LenProperties
  <2> QED BY <2>1, <2>2 DEF NeededBlocks, BlockOf
<1>5. PICK new \in NewBlocks(FreeBlocks, NeededBlocks(r)) :
        /\ table' = [table EXCEPT ![r] = table[r] \o new]
        /\ batch' = Append(batch, NewRow(r, computed[r], to, table[r] \o new, {}))
  BY DEF ScheduleRunning
<1>6. new \in Seq(Block) /\ NeededBlocks(r) <= Len(new)
  BY <1>4, <1>5, NewBlocksType, NewBlocksLength DEF FreeBlocks
<1>7. UNCHANGED <<running, retained, lease, phase>> /\ cursor' = cursor + 1
  BY DEF ScheduleRunning, queues, leases
<1> DEFINE row == NewRow(r, computed[r], to, table[r] \o new, {})
<1>8. /\ row.req = r /\ row.to = to /\ row.blocks = table[r] \o new /\ row.copies = {}
  BY DEF NewRow
<1>9. \A j \in 1 .. BlockOf(to) : (table[r] \o new)[j] \in ToSet(table[r] \o new)
  BY <1>2, <1>4, <1>6, BlocksInTable
<1>10. PICK A : batch \in Seq(AnyRow(A))
  BY DEF RowsNameRequests
<1>11. /\ DOMAIN batch = 1 .. Len(batch) /\ Len(batch) \in Nat
       /\ DOMAIN batch' = 1 .. Len(batch) + 1 /\ batch' # << >>
       /\ \A i \in DOMAIN batch : batch'[i] = batch[i]
       /\ batch'[Len(batch) + 1] = row
  <2> HIDE DEF row
  <2>1. batch' = Append(batch, row)
    BY <1>5 DEF row
  <2> QED BY <1>10, <2>1, LenProperties
<1>12. ToSet(table[r] \o new) = ToSet(table[r]) \cup ToSet(new)
  BY <1>2, <1>6, ConcatElements
<1> HIDE DEF r, to, row
<1>13. \A q \in Request : ToSet(table[q]) \subseteq ToSet(table'[q])
  BY <1>1, <1>5, <1>12 DEF ControlTypes
<1>14. table'[r] = table[r] \o new
  BY <1>1, <1>5 DEF ControlTypes
<1>15. ToSet(running) \subseteq Request
  BY LenProperties DEF ControlTypes, ToSet
<1>16. ASSUME NEW i \in DOMAIN batch' PROVE RowIsHeld(batch[i])'
  <2>1. CASE i \in DOMAIN batch
    <3>1. RowIsHeld(batch[i]) /\ batch'[i] = batch[i] /\ batch[i].req \in Request
      BY <1>11, <1>15, <2>1 DEF Scheduled, RowIsHeld
    <3> QED BY <1>7, <1>13, <3>1 DEF RowIsHeld, BlockOf, CeilDiv
  <2>2. CASE i \notin DOMAIN batch
    <3>1. batch'[i] = row
      BY <1>11, <2>2
    <3> QED BY <1>1, <1>7, <1>8, <1>9, <1>14, <3>1 DEF RowIsHeld, BlockOf, CeilDiv
  <2> QED BY <2>1, <2>2
<1>17. ASSUME NEW i \in DOMAIN batch'
       PROVE  \E k \in 1 .. cursor' - 1 : k <= Len(running') /\ batch'[i].req = running'[k]
  <2>1. CASE i \in DOMAIN batch
    <3>1. PICK k \in 1 .. cursor - 1 : k <= Len(running) /\ batch[i].req = running[k]
      BY <1>1, <2>1 DEF Scheduled
    <3>2. k \in 1 .. cursor' - 1
      BY <1>1, <1>7, <3>1
    <3> QED BY <1>7, <1>11, <2>1, <3>1, <3>2
  <2>2. CASE i \notin DOMAIN batch
    <3>1. batch'[i].req = running[cursor]
      BY <1>8, <1>11, <2>2 DEF r, Candidate
    <3>2. cursor \in 1 .. cursor' - 1
      BY <1>1, <1>7
    <3> QED BY <1>1, <1>7, <3>1, <3>2
  <2> QED BY <2>1, <2>2
<1> QED BY <1>1, <1>7, <1>11, <1>16, <1>17 DEF Scheduled

(* The running loop preempts the last running request, at or behind the    *)
(* cursor: none of those that already have a row.                          *)
LEMMA PreemptKeepsScheduled ==
  ASSUME ControlTypes, Queues, Tables, Scheduled, PreemptForSlots
  PROVE  Scheduled'
<1> DEFINE r == Last(running)
<1>1. /\ running # << >> /\ PreemptLast /\ phase = "running" /\ cursor <= Len(running)
      /\ phase' \in {"running", "launch"} /\ UNCHANGED <<retained, batch, cursor>>
  BY CandidateType DEF PreemptForSlots, InRunningLoop
<1>2. /\ running \in Seq(Request) /\ Len(running) \in Nat /\ cursor \in Nat \ {0}
      /\ DOMAIN running = 1 .. Len(running) /\ IsInjective(running)
  BY LenProperties DEF ControlTypes, Queues
<1>3. retained = << >> /\ retained' = << >>
  BY <1>1 DEF Tables
<1>4. running' = Front(running) /\ table' = [table EXCEPT ![r] = << >>]
  BY <1>1 DEF PreemptLast, FreeRequestBlocks
<1>5. /\ r = running[Len(running)] /\ r \in Request
      /\ ToSet(Front(running)) = ToSet(running) \ {r}
      /\ Len(Front(running)) = Len(running) - 1
      /\ \A k \in 1 .. Len(running) - 1 : Front(running)[k] = running[k]
  <2>1. /\ r \in Request /\ ToSet(Front(running)) = ToSet(running) \ {r}
        /\ Len(Front(running)) = Len(running) - 1
    BY <1>1, <1>2, FrontElements
  <2>2. r = running[Len(running)]
    BY DEF Last
  <2>3. \A k \in 1 .. Len(running) - 1 : Front(running)[k] = running[k]
    BY <1>2 DEF Front
  <2> QED BY <2>1, <2>2, <2>3
<1> HIDE DEF r
<1>6. ASSUME NEW i \in DOMAIN batch
      PROVE  \E k \in 1 .. cursor - 1 : /\ k <= Len(running) - 1
                                        /\ batch[i].req = running[k] /\ running[k] # r
  <2>1. PICK k \in 1 .. cursor - 1 : k <= Len(running) /\ batch[i].req = running[k]
    BY <1>1 DEF Scheduled
  <2>2. k \in 1 .. Len(running) /\ Len(running) \in 1 .. Len(running) /\ k < Len(running)
    BY <1>1, <1>2, <2>1
  <2>3. running[k] # r
    BY <1>2, <1>5, <2>2 DEF IsInjective
  <2> QED BY <1>2, <2>1, <2>2, <2>3
<1>7. \A q \in Request : q # r => table'[q] = table[q]
  BY <1>4, <1>5 DEF ControlTypes
<1>8. ASSUME NEW i \in DOMAIN batch' PROVE RowIsHeld(batch[i])'
  <2>1. RowIsHeld(batch[i]) /\ batch'[i] = batch[i] /\ batch[i].req # r
    BY <1>1, <1>6 DEF Scheduled
  <2>2. batch[i].req \in ToSet(running') /\ batch[i].req \in Request
    <3>1. batch[i].req \in ToSet(running)
      BY <2>1 DEF RowIsHeld
    <3>2. ToSet(running) \subseteq Request
      BY <1>2 DEF ToSet
    <3> QED BY <1>4, <1>5, <2>1, <3>1, <3>2
  <2>3. table'[batch[i].req] = table[batch[i].req]
    BY <1>7, <2>1, <2>2
  <2>4. \A c \in batch[i].copies : c.from = {}
    <3>1. ToSet(retained) = {}
      BY <1>3 DEF ToSet
    <3> QED BY <2>1, <3>1 DEF RowIsHeld
  <2> QED BY <2>1, <2>2, <2>3, <2>4 DEF RowIsHeld, BlockOf, CeilDiv
<1>9. ASSUME NEW i \in DOMAIN batch'
      PROVE  \E k \in 1 .. cursor' - 1 : k <= Len(running') /\ batch'[i].req = running'[k]
  <2>1. PICK k \in 1 .. cursor - 1 : k <= Len(running) - 1 /\ batch[i].req = running[k]
    BY <1>1, <1>6
  <2>2. k \in 1 .. Len(running) - 1
    BY <1>2, <2>1
  <2> QED BY <1>1, <1>4, <1>5, <2>1, <2>2
<1> QED BY <1>1, <1>3, <1>8, <1>9 DEF Scheduled

(* What of an admission its row and its retention are made of.             *)
LEMMA AdmittedRow ==
  ASSUME ControlTypes, AdmitWaiting
  PROVE  \E blocks \in Seq(Block), from, to \in Int : \E copies :
           LET r == Head(waiting)
           IN  /\ table' = [table EXCEPT ![r] = blocks]
               /\ batch' = Append(batch, NewRow(r, from, to, blocks, copies))
               /\ \A j \in 1 .. BlockOf(to) : blocks[j] \in ToSet(blocks)
               /\ \A c \in copies : \A e \in c.from : e.block \in Pins(r)
<1> DEFINE r == Head(waiting)
           from == HitLength(r) * BlockSize
           to == ChunkEnd(r)
           free == FreeBlocks \ Pins(r)
<1>1. r \in Request
  BY Admitted
<1>2. HitLength(r) \in Nat
  BY <1>1, HitLengthType
<1>3. from \in Int
  BY <1>2, ConfigAssumption
<1>4. to \in Int
  <2>1. tokens[r] \in Int /\ budget \in Int
    BY <1>1 DEF ControlTypes
  <2>2. to = from + Smaller(tokens[r] - from, budget)
    BY DEF ChunkEnd
  <2> HIDE DEF from, to
  <2>3. tokens[r] - from \in Int
    BY <1>3, <2>1
  <2>4. Smaller(tokens[r] - from, budget) \in Int
    BY <2>1, <2>3, SmallerType
  <2> QED BY <1>3, <2>2, <2>4
<1>5. PICK hits \in ComputedBlocks(r) :
        \E new \in NewBlocks(free \ ToSet(hits), CeilDiv(to, BlockSize) - Len(hits)) :
          Admit(r, hits \o new, new)
  BY DEF AdmitWaiting
<1>6. hits \in Seq(Block)
  BY <1>2 DEF ComputedBlocks
<1>7. BlockOf(to) \in Int /\ BlockOf(to) - Len(hits) \in Int
  <2>1. CeilDiv(to, BlockSize) \in Int
    BY <1>4, CeilDivType
  <2>2. Len(hits) \in Int
    BY <1>6, LenProperties
  <2> QED BY <2>1, <2>2 DEF BlockOf
<1>8. PICK new \in NewBlocks(free \ ToSet(hits), BlockOf(to) - Len(hits)) :
        Admit(r, hits \o new, new)
  BY <1>5 DEF BlockOf
<1>9. new \in Seq(Block) /\ BlockOf(to) - Len(hits) <= Len(new)
  BY <1>7, <1>8, NewBlocksType, NewBlocksLength DEF FreeBlocks
<1>10. hits \o new \in Seq(Block)
  BY <1>6, <1>9, ConcatElements
<1>11. \A j \in 1 .. BlockOf(to) : (hits \o new)[j] \in ToSet(hits \o new)
  BY <1>6, <1>7, <1>9, BlocksInTable
<1>12. PICK chosen :
        /\ chosen \subseteq Plan(r)
        /\ table' = [table EXCEPT ![r] = hits \o new]
        /\ batch' = Append(batch, NewRow(r, from, to, hits \o new, chosen))
  BY <1>8 DEF Admit
<1>13. \A c \in chosen : \A e \in c.from : e.block \in Pins(r)
  BY <1>12 DEF Pins
<1> HIDE DEF from, to
<1> QED BY <1>3, <1>4, <1>10, <1>11, <1>12, <1>13

(* The waiting loop adds the row of a request that was not running, over   *)
(* leases of its own.                                                      *)
LEMMA AdmitKeepsScheduled ==
  ASSUME ControlTypes, RowsNameRequests, Queues, Leases, Scheduled, AdmitWaiting
  PROVE  Scheduled'
<1> DEFINE r == Head(waiting)
<1>1. /\ waiting # << >> /\ r \in Request /\ phase = "waiting" /\ phase' = "waiting"
      /\ running' = Append(running, r)
  BY Admitted DEF AdmitWaiting, InWaitingLoop
<1>2. r \notin ToSet(running)
  <2>1. waiting \in Seq(Request)
    BY DEF ControlTypes
  <2>2. r \in ToSet(waiting)
    BY <1>1, <2>1, TailElements
  <2> QED BY <2>2 DEF Queues
<1>3. ToSet(running') = ToSet(running) \cup {r}
  <2>1. running \in Seq(Request)
    BY DEF ControlTypes
  <2> QED BY <1>1, <2>1, AppendElements
<1>4. PICK blocks \in Seq(Block), from, to \in Int : \E copies :
        /\ table' = [table EXCEPT ![r] = blocks]
        /\ batch' = Append(batch, NewRow(r, from, to, blocks, copies))
        /\ \A j \in 1 .. BlockOf(to) : blocks[j] \in ToSet(blocks)
        /\ \A c \in copies : \A e \in c.from : e.block \in Pins(r)
  BY AdmittedRow
<1>5. PICK copies :
        /\ table' = [table EXCEPT ![r] = blocks]
        /\ batch' = Append(batch, NewRow(r, from, to, blocks, copies))
        /\ \A j \in 1 .. BlockOf(to) : blocks[j] \in ToSet(blocks)
        /\ \A c \in copies : \A e \in c.from : e.block \in Pins(r)
  BY <1>4
<1> DEFINE row == NewRow(r, from, to, blocks, copies)
<1>6. row.req = r /\ row.to = to /\ row.blocks = blocks /\ row.copies = copies
  BY DEF NewRow
<1>7. \A q \in Request : table'[q] = IF q = r THEN blocks ELSE table[q]
  BY <1>1, <1>5 DEF ControlTypes
<1>8. \/ Pins(r) = {} /\ UNCHANGED <<lease, retained>>
      \/ /\ IdleLeases # {}
         /\ lease' = [lease EXCEPT ![NextLease] = Pins(r)]
         /\ retained' = Append(retained, NextLease)
  BY DEF AdmitWaiting
<1> HIDE DEF r, row
<1>9. /\ \A l \in ToSet(retained) : l \in ToSet(retained') /\ lease'[l] = lease[l]
      /\ Pins(r) # {} => \E l \in ToSet(retained') : lease'[l] = Pins(r)
  <2>1. CASE Pins(r) = {} /\ UNCHANGED <<lease, retained>>
    BY <2>1
  <2>2. CASE /\ IdleLeases # {}
             /\ lease' = [lease EXCEPT ![NextLease] = Pins(r)]
             /\ retained' = Append(retained, NextLease)
    <3> DEFINE n == NextLease
    <3>1. n \in Lease /\ lease[n] = {}
      BY <2>2 DEF NextLease, IdleLeases
    <3>2. n \notin ToSet(retained) /\ ToSet(retained) \subseteq Lease
      BY <3>1 DEF Leases
    <3>3. retained \in Seq(Lease)
      BY DEF ControlTypes
    <3>4. ToSet(retained') = ToSet(retained) \cup {n}
      BY <2>2, <3>1, <3>3, AppendElements
    <3>5. \A l \in Lease : lease'[l] = IF l = n THEN Pins(r) ELSE lease[l]
      BY <2>2, <3>1 DEF ControlTypes
    <3> HIDE DEF n
    <3> QED BY <3>1, <3>2, <3>4, <3>5
  <2> QED BY <1>8, <2>1, <2>2
<1>10. PICK A : batch \in Seq(AnyRow(A))
  BY DEF RowsNameRequests
<1>11. /\ DOMAIN batch = 1 .. Len(batch) /\ Len(batch) \in Nat
       /\ DOMAIN batch' = 1 .. Len(batch) + 1 /\ batch' # << >>
       /\ \A i \in DOMAIN batch : batch'[i] = batch[i]
       /\ batch'[Len(batch) + 1] = row
  <2>1. batch' = Append(batch, row)
    BY <1>5 DEF row
  <2> QED BY <1>10, <2>1, LenProperties
<1>12. ASSUME NEW i \in DOMAIN batch' PROVE RowIsHeld(batch[i])'
  <2>1. CASE i \in DOMAIN batch
    <3>1. RowIsHeld(batch[i]) /\ batch'[i] = batch[i]
      BY <1>11, <2>1 DEF Scheduled
    <3>2. batch[i].req \in ToSet(running) /\ batch[i].req # r
      BY <1>2, <3>1 DEF RowIsHeld
    <3>3. ToSet(running) \subseteq Request
      BY DEF Queues
    <3>4. table'[batch[i].req] = table[batch[i].req] /\ batch[i].req \in ToSet(running')
      BY <1>3, <1>7, <3>2, <3>3
    <3>5. \A c \in batch[i].copies : \A e \in c.from :
            \E l \in ToSet(retained') : e.block \in lease'[l]
      BY <1>9, <3>1 DEF RowIsHeld
    <3> QED BY <3>1, <3>4, <3>5 DEF RowIsHeld, BlockOf, CeilDiv
  <2>2. CASE i \notin DOMAIN batch
    <3>1. batch'[i] = row
      BY <1>11, <2>2
    <3>2. table'[r] = blocks /\ r \in ToSet(running')
      BY <1>1, <1>3, <1>7 DEF r
    <3>3. \A c \in copies : \A e \in c.from :
            \E l \in ToSet(retained') : e.block \in lease'[l]
      BY <1>5, <1>9
    <3> QED BY <1>5, <1>6, <3>1, <3>2, <3>3 DEF RowIsHeld, BlockOf, CeilDiv
  <2> QED BY <2>1, <2>2
<1> QED BY <1>1, <1>11, <1>12 DEF Scheduled

(* Every step keeps Scheduled: the inductive step of the invariant.        *)
LEMMA NextScheduled ==
  Types /\ Queues /\ Tables /\ Leases /\ Scheduled /\ [Next]_vars => Scheduled'
<1> SUFFICES ASSUME ControlTypes, RowsNameRequests, Queues, Tables, Leases, Scheduled,
                    [Next]_vars
             PROVE  Scheduled'
  BY DEF Types
<1> USE DEF queues, leases, call
<1>1. CASE UNCHANGED vars \/ Idle
  <2>1. UNCHANGED <<batch, retained, lease, running, table, phase, cursor>>
    BY <1>1 DEF vars, Idle
  <2> QED BY <2>1 DEF Scheduled, RowIsHeld, BlockOf, CeilDiv
<1>2. ASSUME \/ \E r \in Request : AddRequest(r) \/ Abort(r)
             \/ ResetPrefixCache \/ ForceReset \/ ResetPreempt \/ ResetEnd
             \/ TakeResults \/ IgnoreRow \/ DiscardRow \/ AppendToken
      PROVE  Scheduled'
  <2>1. phase \in {"idle", "update", "reset"} /\ UNCHANGED <<batch, retained>>
    BY <1>2 DEF AddRequest, Abort, BetweenSteps, ResetPrefixCache, ForceReset,
                ResetPreempt, ResetEnd, TakeResults, IgnoreRow, DiscardRow, AppendToken
  <2>2. batch = << >> /\ retained = << >>
    BY <2>1 DEF Scheduled, Tables
  <2> QED BY <2>1, <2>2, NothingScheduled
<1>3. CASE BeginSchedule
  <2>1. phase = "idle" /\ batch' = << >> /\ retained' = retained
    BY <1>3 DEF BeginSchedule, BetweenSteps
  <2> QED BY <2>1, NothingScheduled DEF Tables
<1>4. CASE Launch
  BY <1>4, NothingScheduled DEF Launch
<1>5. CASE ScheduleRunning
  BY <1>5, ScheduleKeepsScheduled
<1>6. CASE PreemptForSlots
  BY <1>6, PreemptKeepsScheduled
<1>7. CASE AdmitWaiting
  BY <1>7, AdmitKeepsScheduled
<1>8. CASE SkipRunning \/ EndRunning \/ RefuseWaiting \/ EndWaiting
  <2>1. /\ UNCHANGED <<batch, retained, lease, running, table>>
        /\ phase \in {"running", "waiting"}
        /\ \/ phase' = phase /\ cursor' = cursor + 1
           \/ phase' \in {"waiting", "launch"}
    BY <1>8 DEF SkipRunning, InRunningLoop, EndRunning, RefuseWaiting, InWaitingLoop,
                EndWaiting
  <2> QED BY <2>1, ScheduledKept
<1> QED
  BY <1>1, <1>2, <1>3, <1>4, <1>5, <1>6, <1>7, <1>8 DEF Next, Client, Engine

-----------------------------------------------------------------------------
(***************************************************************************)
(* The fences of deferred_frees grow, and none is past the last launched   *)
(* step: a retention waits for the step launched with it, which is never   *)
(* empty, and a deferred free for the last step launched before it.        *)
(***************************************************************************)
Fences ==
  \A j \in DOMAIN deferred :
    /\ fence[deferred[j]] <= schedSeq
    /\ \A i \in 1 .. j : fence[deferred[i]] <= fence[deferred[j]]

(* In particular they are nearly monotonic, as the run checks.             *)
LEMMA FencesSuffice == Types /\ StepTypes /\ Fences => FencesAreNearMonotonic
<1> SUFFICES ASSUME ControlTypes, StepTypes, Fences PROVE FencesAreNearMonotonic
  BY DEF Types
<1>1. deferred \in Seq(Lease)
  BY DEF ControlTypes
<1>2. /\ DOMAIN deferred = 1 .. Len(deferred) /\ Len(deferred) \in Nat
      /\ \A j \in DOMAIN deferred : deferred[j] \in Lease
  BY <1>1, LenProperties
<1>3. ASSUME NEW i \in DOMAIN deferred, NEW j \in DOMAIN deferred, i < j
      PROVE  fence[deferred[i]] <= fence[deferred[j]] + 1
  <2>1. i \in 1 .. j
    BY <1>2, <1>3
  <2>2. fence[deferred[i]] <= fence[deferred[j]]
    BY <2>1 DEF Fences
  <2>3. fence[deferred[i]] \in Int /\ fence[deferred[j]] \in Int
    BY <1>2 DEF StepTypes
  <2> QED BY <2>2, <2>3
<1> QED BY <1>3 DEF FencesAreNearMonotonic, Fences

(* The drain takes a prefix of deferred_frees off.                         *)
LEMMA DrainedPrefix ==
  ASSUME ControlTypes, NEW p
  PROVE  /\ NumDue(p) \in 0 .. Len(deferred)
         /\ DueEntries(p) = 1 .. NumDue(p)
         /\ DOMAIN SubSeq(deferred, NumDue(p) + 1, Len(deferred))
              = 1 .. Len(deferred) - NumDue(p)
         /\ \A i \in 1 .. Len(deferred) - NumDue(p) :
              /\ SubSeq(deferred, NumDue(p) + 1, Len(deferred))[i] = deferred[NumDue(p) + i]
              /\ NumDue(p) + i \in DOMAIN deferred
<1> DEFINE D == DueEntries(p)
           n == NumDue(p)
<1>1. deferred \in Seq(Lease)
  BY DEF ControlTypes
<1>2. Len(deferred) \in Nat /\ DOMAIN deferred = 1 .. Len(deferred)
  BY <1>1, LenProperties
<1>3. n \in 0 .. Len(deferred) /\ D = 1 .. n
  <2>1. D \in SUBSET (1 .. Len(deferred))
    BY <1>2 DEF DueEntries
  <2>2. \A j \in D : \A k \in 1 .. j : k \in D
    <3> SUFFICES ASSUME NEW j \in D, NEW k \in 1 .. j PROVE k \in D
      OBVIOUS
    <3>1. k \in DOMAIN deferred /\ 1 .. k \subseteq 1 .. j
      BY <1>2, <2>1
    <3> QED BY <3>1 DEF DueEntries
  <2> HIDE DEF D
  <2>3. Cardinality(D) \in 0 .. Len(deferred) /\ D = 1 .. Cardinality(D)
    BY <1>2, <2>1, <2>2, InitialSegment
  <2> QED BY <2>3 DEF NumDue, D
<1> HIDE DEF D, n
<1>4. LET t == SubSeq(deferred, n + 1, Len(deferred))
      IN  DOMAIN t = 1 .. Len(deferred) - n
          /\ \A i \in 1 .. Len(deferred) - n : t[i] = deferred[n + i]
  <2>1. n \in Int /\ n + 1 \in Int /\ Len(deferred) \in Int /\ 0 <= n /\ n <= Len(deferred)
    BY <1>2, <1>3
  <2> QED BY <1>1, <1>2, <2>1
<1>5. \A i \in 1 .. Len(deferred) - n : n + i \in DOMAIN deferred
  BY <1>2, <1>3
<1> QED BY <1>3, <1>4, <1>5 DEF D, n

(* Entries are added to deferred_frees for the last launched step.         *)
LEMMA FencesGrow ==
  ASSUME ControlTypes, StepTypes, StepTypes', Fences,
         NEW t \in Seq(Lease), deferred' = deferred \o t, schedSeq <= schedSeq',
         \A j \in DOMAIN deferred : fence'[deferred[j]] = fence[deferred[j]],
         \A j \in DOMAIN t : fence'[t[j]] = schedSeq'
  PROVE  Fences'
<1>1. deferred \in Seq(Lease)
  BY DEF ControlTypes
<1>2. /\ DOMAIN deferred = 1 .. Len(deferred) /\ Len(deferred) \in Nat
      /\ DOMAIN t = 1 .. Len(t) /\ Len(t) \in Nat
      /\ \A j \in DOMAIN deferred : deferred[j] \in Lease
  BY <1>1, LenProperties
<1>3. /\ DOMAIN deferred' = 1 .. Len(deferred) + Len(t)
      /\ \A j \in DOMAIN deferred' :
           deferred'[j] = IF j <= Len(deferred) THEN deferred[j] ELSE t[j - Len(deferred)]
  <2>1. /\ deferred' \in Seq(Lease) /\ Len(deferred') = Len(deferred) + Len(t)
        /\ \A j \in 1 .. Len(deferred) + Len(t) :
             deferred'[j] = IF j <= Len(deferred) THEN deferred[j] ELSE t[j - Len(deferred)]
    BY <1>1, ConcatProperties
  <2> QED BY <2>1, LenProperties
<1>4. schedSeq \in Int /\ schedSeq' \in Int
  BY DEF StepTypes
<1>5. \A j \in DOMAIN deferred : fence[deferred[j]] \in Int
  BY <1>2 DEF StepTypes
<1>6. ASSUME NEW j \in DOMAIN deferred', j <= Len(deferred)
      PROVE  /\ j \in DOMAIN deferred /\ fence'[deferred'[j]] = fence[deferred[j]]
             /\ fence'[deferred'[j]] <= schedSeq'
  <2>1. j \in DOMAIN deferred
    BY <1>2, <1>3, <1>6
  <2>2. fence'[deferred'[j]] = fence[deferred[j]] /\ fence[deferred[j]] <= schedSeq
    BY <1>3, <1>6, <2>1 DEF Fences
  <2> QED BY <1>4, <1>5, <2>1, <2>2
<1>7. ASSUME NEW j \in DOMAIN deferred', ~ j <= Len(deferred)
      PROVE  fence'[deferred'[j]] = schedSeq'
  <2>1. j - Len(deferred) \in DOMAIN t
    BY <1>2, <1>3, <1>7
  <2> QED BY <1>3, <1>7, <2>1
<1>8. ASSUME NEW j \in DOMAIN deferred', NEW i \in 1 .. j
      PROVE  fence'[deferred'[i]] <= fence'[deferred'[j]]
  <2>1. i \in DOMAIN deferred' /\ i <= j /\ j \in Nat /\ i \in Nat
    BY <1>2, <1>3
  <2>2. CASE j <= Len(deferred)
    <3>1. i <= Len(deferred)
      BY <1>2, <2>1, <2>2
    <3>2. fence[deferred[i]] <= fence[deferred[j]]
      BY <1>6, <2>2 DEF Fences
    <3> QED BY <1>6, <2>1, <2>2, <3>1, <3>2
  <2>3. CASE ~ j <= Len(deferred)
    <3>1. fence'[deferred'[i]] <= schedSeq'
      BY <1>4, <1>6, <1>7, <2>1
    <3> QED BY <1>7, <2>3, <3>1
  <2> QED BY <2>2, <2>3
<1>9. \A j \in DOMAIN deferred' : fence'[deferred'[j]] <= schedSeq'
  BY <1>4, <1>6, <1>7
<1> QED BY <1>8, <1>9 DEF Fences

(* A deferred free is queued behind the last launched step.                *)
LEMMA FreeFences ==
  ASSUME ControlTypes, StepTypes, Leases, Fences, NEW r \in Request,
         FreeRequestBlocks(r), UNCHANGED <<lastSched, schedSeq, processedSeq>>
  PROVE  Fences'
<1>1. CASE UNCHANGED <<fence, deferred>>
  BY <1>1 DEF Fences
<1>2. CASE ~ UNCHANGED <<fence, deferred>>
  <2> DEFINE n == NextLease
  <2>1. /\ IdleLeases # {}
        /\ fence' = [fence EXCEPT ![n] = schedSeq]
        /\ deferred' = Append(deferred, n)
    BY <1>2 DEF FreeRequestBlocks
  <2>2. n \in Lease /\ lease[n] = {}
    BY <2>1 DEF NextLease, IdleLeases
  <2> HIDE DEF n
  <2>3. deferred \in Seq(Lease)
    BY DEF ControlTypes
  <2>4. n \notin ToSet(deferred)
    BY <2>2 DEF Leases
  <2>5. \A j \in DOMAIN deferred : deferred[j] \in Lease /\ deferred[j] # n
    <3>1. \A j \in DOMAIN deferred : deferred[j] \in Lease
      BY <2>3, LenProperties
    <3> QED BY <2>4, <3>1 DEF ToSet
  <2>6. \A l \in Lease : fence'[l] = IF l = n THEN schedSeq ELSE fence[l]
    BY <2>1, <2>2 DEF StepTypes
  <2> DEFINE t == <<n>>
  <2>7. t \in Seq(Lease) /\ DOMAIN t = {1} /\ t[1] = n /\ deferred' = deferred \o t
    BY <2>1, <2>2, <2>3
  <2>8. schedSeq \in Int
    BY DEF StepTypes
  <2>9. StepTypes'
    BY FreeStepTypes
  <2> HIDE DEF t
  <2>10. \A j \in DOMAIN t : fence'[t[j]] = schedSeq'
    BY <2>2, <2>6, <2>7
  <2>11. \A j \in DOMAIN deferred : fence'[deferred[j]] = fence[deferred[j]]
    BY <2>5, <2>6
  <2>12. schedSeq <= schedSeq'
    BY <2>8
  <2> QED BY <2>7, <2>9, <2>10, <2>11, <2>12, FencesGrow
<1> QED BY <1>1, <1>2

(* The retentions of a step wait for the step itself, which is not empty.  *)
LEMMA LaunchFences ==
  ASSUME ControlTypes, StepTypes, StepTypes', Leases, Scheduled, Fences, Launch
  PROVE  Fences'
<1>1. schedSeq \in Int /\ schedSeq' \in {schedSeq, schedSeq + 1}
  BY DEF StepTypes, Launch
<1>2. deferred \in Seq(Lease) /\ retained \in Seq(Lease)
  BY DEF ControlTypes
<1>3. CASE ~ Defer
  BY <1>3 DEF Launch, Fences
<1>4. CASE Defer
  <2>1. /\ deferred' = deferred \o retained
        /\ fence' = [l \in Lease |-> IF l \in ToSet(retained) THEN RetentionFence
                                     ELSE fence[l]]
        /\ schedSeq' = IF batch # << >> THEN schedSeq + 1 ELSE schedSeq
    BY <1>4 DEF Launch
  <2>2. /\ \A j \in DOMAIN deferred : deferred[j] \in Lease /\ deferred[j] \in ToSet(deferred)
        /\ \A j \in DOMAIN retained : retained[j] \in Lease /\ retained[j] \in ToSet(retained)
    BY <1>2, LenProperties DEF ToSet
  <2>3. \A j \in DOMAIN deferred : fence'[deferred[j]] = fence[deferred[j]]
    BY <2>1, <2>2 DEF Leases
  <2>4. \A j \in DOMAIN retained : fence'[retained[j]] = schedSeq'
    <3>1. ASSUME NEW j \in DOMAIN retained PROVE batch # << >>
      <4>1. retained # << >>
        BY EmptySeq, LenProperties, <1>2
      <4> QED BY <4>1 DEF Scheduled
    <3> QED BY <2>1, <2>2, <3>1 DEF RetentionFence
  <2>5. schedSeq <= schedSeq'
    BY <1>1
  <2> QED BY <1>2, <2>1, <2>3, <2>4, <2>5, FencesGrow
<1> QED BY <1>3, <1>4

(* What the drain leaves was in order before.                              *)
LEMMA TakeFences ==
  ASSUME ControlTypes, Fences, TakeResults
  PROVE  Fences'
<1>1. UNCHANGED <<fence, schedSeq>>
  BY DEF TakeResults
<1>2. CASE deferred' = deferred
  BY <1>1, <1>2 DEF Fences
<1>3. CASE deferred' # deferred
  <2>1. PICK p : deferred' = SubSeq(deferred, NumDue(p) + 1, Len(deferred))
    BY <1>3 DEF TakeResults
  <2> DEFINE n == NumDue(p)
             L == Len(deferred)
  <2>2. /\ n \in 0 .. L /\ DOMAIN deferred' = 1 .. L - n
        /\ \A i \in 1 .. L - n : deferred'[i] = deferred[n + i] /\ n + i \in DOMAIN deferred
    BY <2>1, DrainedPrefix
  <2>3. L \in Nat
    <3>1. deferred \in Seq(Lease)
      BY DEF ControlTypes
    <3> QED BY <3>1, LenProperties
  <2> HIDE DEF n, L
  <2>4. ASSUME NEW j \in DOMAIN deferred', NEW i \in 1 .. j
        PROVE  fence'[deferred'[i]] <= fence'[deferred'[j]]
    <3>1. i \in 1 .. L - n /\ j \in 1 .. L - n /\ n + i \in 1 .. n + j
      BY <2>2, <2>3
    <3>2. n + j \in DOMAIN deferred
      BY <2>2, <3>1
    <3>3. fence[deferred[n + i]] <= fence[deferred[n + j]]
      BY <3>1, <3>2 DEF Fences
    <3> QED BY <1>1, <2>2, <3>1, <3>3
  <2>5. ASSUME NEW j \in DOMAIN deferred'
        PROVE  fence'[deferred'[j]] <= schedSeq'
    BY <1>1, <2>2, <2>5 DEF Fences
  <2> QED BY <2>4, <2>5 DEF Fences
<1> QED BY <1>2, <1>3

(* Every step keeps Fences: the inductive step of the invariant.           *)
LEMMA NextFences ==
  Types /\ StepTypes /\ Leases /\ Scheduled /\ Fences /\ [Next]_vars => Fences'
<1> SUFFICES ASSUME ControlTypes, RowsNameRequests, StepTypes, Leases, Scheduled, Fences,
                    [Next]_vars
             PROVE  Fences'
  BY DEF Types
<1>0. StepTypes'
  BY NextStepTypes DEF Types
<1> USE DEF request, leases, seqs
<1>1. CASE UNCHANGED vars \/ Idle
  BY <1>1 DEF vars, Idle, Fences
<1>2. ASSUME NEW r \in Request, Abort(r) PROVE Fences'
  BY <1>2, FreeFences DEF Abort
<1>3. CASE ResetPreempt \/ PreemptForSlots
  <2>1. running # << >> /\ PreemptLast
    BY <1>3, CandidateType DEF ResetPreempt, PreemptForSlots
  <2>2. Last(running) \in Request /\ FreeRequestBlocks(Last(running))
    BY <2>1, PreemptTypes DEF PreemptLast
  <2> QED BY <1>3, <2>2, FreeFences DEF ResetPreempt, PreemptForSlots
<1>4. CASE Launch
  BY <1>0, <1>4, LaunchFences
<1>5. CASE TakeResults
  BY <1>5, TakeFences
<1>6. CASE AppendToken
  <2>1. NextRow.req \in Request /\ UNCHANGED <<lastSched, schedSeq, processedSeq>>
    BY <1>6, RowTaken DEF AppendToken, worker, call
  <2>2. CASE UNCHANGED <<fence, deferred>>
    BY <2>1, <2>2 DEF Fences
  <2>3. CASE Stop(NextRow.req, hash')
    BY <2>1, <2>3, FreeFences DEF Stop
  <2> QED BY <1>6, <2>2, <2>3 DEF AppendToken
<1>7. ASSUME \/ \E r \in Request : AddRequest(r)
             \/ ResetPrefixCache \/ ForceReset \/ ResetEnd \/ BeginSchedule
             \/ SkipRunning \/ ScheduleRunning \/ EndRunning \/ AdmitWaiting
             \/ RefuseWaiting \/ EndWaiting \/ IgnoreRow \/ DiscardRow
      PROVE  Fences'
  <2>1. UNCHANGED <<deferred, fence, schedSeq>>
    BY <1>7 DEF AddRequest, ResetPrefixCache, ForceReset, ResetEnd, BeginSchedule,
                SkipRunning, ScheduleRunning, EndRunning, AdmitWaiting, RefuseWaiting,
                EndWaiting, IgnoreRow, DiscardRow
  <2> QED BY <2>1 DEF Fences
<1> QED
  BY <1>1, <1>2, <1>3, <1>4, <1>5, <1>6, <1>7 DEF Next, Client, Engine

-----------------------------------------------------------------------------
(***************************************************************************)
(* Why no block of a launched step is free: the nonempty steps in flight   *)
(* are the ones numbered after processedSeq, in order, and each block of   *)
(* step n is in the table of a request scheduled in step n or later, or in *)
(* a deferred entry with a fence of n or later.                            *)
(***************************************************************************)
Covered(b, n) ==
  \/ \E q \in Request : b \in ToSet(table[q]) /\ lastSched[q] >= n
  \/ \E l \in ToSet(deferred) : b \in lease[l] /\ fence[l] >= n

Numbered(s) ==
  \A k \in DOMAIN inflight : inflight[k] # << >> =>
    /\ processedSeq < s[k] /\ s[k] <= schedSeq
    /\ \A b \in StepBlocks(inflight[k]) : Covered(b, s[k])
    /\ \A i \in DOMAIN inflight : i < k /\ inflight[i] # << >> => s[i] < s[k]

InFlight ==
  Defer => /\ processedSeq <= schedSeq
           /\ \E s \in [DOMAIN inflight -> Int] : Numbered(s)

(* A covered block has a holder, so it is not free.                        *)
LEMMA InFlightSuffices ==
  Types /\ Refs /\ InFlight => InFlightBlocksAreHeld
<1> SUFFICES ASSUME ControlTypes, Refs, InFlight, Defer,
                    NEW k \in DOMAIN inflight, NEW b \in StepBlocks(inflight[k]),
                    b \in FreeBlocks
             PROVE  FALSE
  BY DEF InFlightBlocksAreHeld, Types
<1>1. PICK s \in [DOMAIN inflight -> Int] : Numbered(s)
  BY DEF InFlight
<1>2. inflight[k] # << >>
  BY DEF StepBlocks
<1>3. Covered(b, s[k])
  BY <1>1, <1>2 DEF Numbered
<1>4. \E c \in Holder : b \in HeldBy(c)
  <2>1. deferred \in Seq(Lease)
    BY DEF ControlTypes
  <2>2. ToSet(deferred) \subseteq Lease
    BY <2>1, LenProperties DEF ToSet
  <2>3. CASE \E q \in Request : b \in ToSet(table[q])
    BY <2>3 DEF Holder, HeldBy
  <2>4. CASE \E l \in Lease : b \in lease[l]
    BY <2>4, RequestAssumption DEF Holder, HeldBy
  <2> QED BY <1>3, <2>2, <2>3, <2>4 DEF Covered
<1>5. Holders(b) # {}
  BY <1>4 DEF Holders
<1>6. b \in Block /\ Cardinality(Holders(b)) = 0
  BY DEF FreeBlocks, Refs, RefsCountHolders
<1>7. Holders(b) = {}
  BY <1>6, HoldersFinite, FS_EmptySet
<1> QED BY <1>5, <1>7

(* A step that launches and completes nothing has to keep what is covered. *)
LEMMA InFlightKept ==
  ASSUME InFlight, UNCHANGED <<inflight, schedSeq, processedSeq>>,
         ASSUME Defer, NEW b, NEW n \in Int, processedSeq < n, n <= schedSeq, Covered(b, n)
         PROVE  Covered(b, n)'
  PROVE  InFlight'
<1> SUFFICES ASSUME Defer PROVE InFlight'
  BY DEF InFlight
<1>1. PICK s \in [DOMAIN inflight -> Int] : Numbered(s)
  BY DEF InFlight
<1>2. s \in [DOMAIN inflight' -> Int]
  BY <1>1
<1>3. ASSUME NEW k \in DOMAIN inflight, inflight[k] # << >>, NEW b \in StepBlocks(inflight[k])
      PROVE  Covered(b, s[k])'
  <2>1. s[k] \in Int /\ processedSeq < s[k] /\ s[k] <= schedSeq /\ Covered(b, s[k])
    BY <1>1, <1>3 DEF Numbered
  <2> QED BY <2>1
<1>4. Numbered(s)'
  BY <1>1, <1>3 DEF Numbered, StepBlocks, BlockOf, CeilDiv
<1> QED BY <1>2, <1>4 DEF InFlight

(* A table that an in-flight step may still write is leased as it is freed.*)
LEMMA FreeInFlight ==
  ASSUME ControlTypes, StepTypes, Leases, InFlight, NEW r \in Request,
         FreeRequestBlocks(r),
         UNCHANGED <<inflight, lastSched, schedSeq, processedSeq>>
  PROVE  InFlight'
<1>1. /\ \A q \in Request : table'[q] = IF q = r THEN << >> ELSE table[q]
  BY DEF FreeRequestBlocks, ControlTypes
<1>2. deferred \in Seq(Lease)
  BY DEF ControlTypes
<1>3. ASSUME Defer, NEW b, NEW n \in Int, processedSeq < n, n <= schedSeq, Covered(b, n)
      PROVE  Covered(b, n)'
  <2>1. ASSUME NEW l \in ToSet(deferred), b \in lease[l], fence[l] >= n
        PROVE  /\ l \in ToSet(deferred') /\ lease'[l] = lease[l] /\ fence'[l] = fence[l]
    <3>1. CASE UNCHANGED <<lease, fence, deferred>>
      BY <2>1, <3>1
    <3>2. CASE /\ IdleLeases # {}
               /\ lease' = [lease EXCEPT ![NextLease] = ToSet(table[r])]
               /\ fence' = [fence EXCEPT ![NextLease] = schedSeq]
               /\ deferred' = Append(deferred, NextLease)
      <4>1. NextLease \in Lease /\ lease[NextLease] = {}
        BY <3>2 DEF NextLease, IdleLeases
      <4>2. l # NextLease
        BY <2>1, <4>1
      <4>3. ToSet(deferred') = ToSet(deferred) \cup {NextLease}
        BY <1>2, <3>2, <4>1, AppendElements
      <4> QED BY <2>1, <3>2, <4>2, <4>3
    <3> QED BY <3>1, <3>2 DEF FreeRequestBlocks
  <2>2. CASE \E l \in ToSet(deferred) : b \in lease[l] /\ fence[l] >= n
    BY <2>1, <2>2 DEF Covered
  <2>3. CASE \E q \in Request : q # r /\ b \in ToSet(table[q]) /\ lastSched[q] >= n
    BY <1>1, <2>3 DEF Covered
  <2>4. CASE b \in ToSet(table[r]) /\ lastSched[r] >= n
    <3>1. lastSched[r] \in Int /\ processedSeq \in Int /\ schedSeq \in Int
      BY DEF StepTypes
    <3>2. ~ NoWriteInFlight(r)
      BY <1>3, <2>4, <3>1 DEF NoWriteInFlight
    <3>3. table[r] # << >>
      BY <2>4 DEF ToSet
    <3>4. /\ IdleLeases # {}
          /\ lease' = [lease EXCEPT ![NextLease] = ToSet(table[r])]
          /\ fence' = [fence EXCEPT ![NextLease] = schedSeq]
          /\ deferred' = Append(deferred, NextLease)
      BY <3>2, <3>3 DEF FreeRequestBlocks
    <3>5. NextLease \in Lease
      BY <3>4 DEF NextLease, IdleLeases
    <3>6. NextLease \in ToSet(deferred')
      BY <1>2, <3>4, <3>5, AppendElements
    <3>7. lease'[NextLease] = ToSet(table[r]) /\ fence'[NextLease] = schedSeq
      BY <3>4, <3>5 DEF ControlTypes, StepTypes
    <3>8. b \in lease'[NextLease] /\ fence'[NextLease] >= n
      BY <1>3, <2>4, <3>1, <3>7
    <3> HIDE DEF NextLease
    <3> QED BY <3>6, <3>8 DEF Covered
  <2> QED BY <1>3, <2>2, <2>3, <2>4 DEF Covered
<1> QED BY <1>3, InFlightKept

(* Scheduling extends tables, and fills leases that were empty.            *)
LEMMA ScheduleInFlight ==
  ASSUME InFlight, UNCHANGED <<inflight, lastSched, deferred, fence, schedSeq, processedSeq>>,
         \A q \in Request : ToSet(table[q]) \subseteq ToSet(table'[q]),
         \A l \in ToSet(deferred) : lease[l] \subseteq lease'[l]
  PROVE  InFlight'
<1>1. ASSUME Defer, NEW b, NEW n \in Int, processedSeq < n, n <= schedSeq, Covered(b, n)
      PROVE  Covered(b, n)'
  BY <1>1 DEF Covered
<1> QED BY <1>1, InFlightKept

(* A request about to be admitted has no blocks, and its pins are new.     *)
LEMMA AdmitInFlight ==
  ASSUME ControlTypes, Queues, Tables, Leases, InFlight, AdmitWaiting
  PROVE  InFlight'
<1> DEFINE r == Head(waiting)
<1>1. /\ r \in Request /\ waiting # << >>
      /\ \E blocks \in Seq(Block) : table' = [table EXCEPT ![r] = blocks]
  BY Admitted, AdmittedRow
<1>2. table[r] = << >> /\ ToSet(<< >>) = {}
  <2>1. waiting \in Seq(Request)
    BY DEF ControlTypes
  <2>2. r \in ToSet(waiting)
    BY <1>1, <2>1, TailElements
  <2> QED BY <1>1, <2>2 DEF Queues, Tables, ToSet
<1>3. /\ UNCHANGED <<inflight, lastSched, deferred, fence, schedSeq, processedSeq>>
      /\ \/ lease' = lease
         \/ IdleLeases # {} /\ lease' = [lease EXCEPT ![NextLease] = Pins(r)]
  BY DEF AdmitWaiting, worker, seqs
<1> HIDE DEF r
<1>4. \A q \in Request : ToSet(table[q]) \subseteq ToSet(table'[q])
  BY <1>1, <1>2 DEF ControlTypes
<1>5. \A l \in ToSet(deferred) : lease[l] \subseteq lease'[l]
  <2>1. CASE lease' = lease
    BY <2>1
  <2>2. CASE IdleLeases # {} /\ lease' = [lease EXCEPT ![NextLease] = Pins(r)]
    <3>1. NextLease \in Lease /\ lease[NextLease] = {}
      BY <2>2 DEF NextLease, IdleLeases
    <3>2. \A l \in Lease : lease'[l] = IF l = NextLease THEN Pins(r) ELSE lease[l]
      BY <2>2, <3>1 DEF ControlTypes
    <3>3. ToSet(deferred) \subseteq Lease
      BY DEF Leases
    <3> QED BY <3>1, <3>2, <3>3
  <2> QED BY <1>3, <2>1, <2>2
<1> QED BY <1>3, <1>4, <1>5, ScheduleInFlight

(* The launched step gets the next number, and is covered by its requests' *)
(* tables and by the retentions it leaves behind.                          *)
LEMMA LaunchInFlight ==
  ASSUME ControlTypes, RowsNameRequests, StepTypes, Leases, Scheduled, InFlight, Launch
  PROVE  InFlight'
<1> SUFFICES ASSUME Defer PROVE InFlight'
  BY DEF InFlight
<1> DEFINE Launched(i) == [batch[i] EXCEPT !.reuse = reused[batch[i].req],
                                           !.samples = Samples(batch[i])]
           step == [i \in DOMAIN batch |-> Launched(i)]
<1>1. /\ deferred' = deferred \o retained
      /\ fence' = [l \in Lease |-> IF l \in ToSet(retained) THEN RetentionFence ELSE fence[l]]
      /\ schedSeq' = IF batch # << >> THEN schedSeq + 1 ELSE schedSeq
      /\ \A q \in Request : lastSched'[q] = IF RowsOf(q) # {} THEN schedSeq' ELSE lastSched[q]
      /\ UNCHANGED <<lease, table, processedSeq>>
      /\ inflight' = Append(inflight, step)
  BY DEF Launch
<1>2. PICK A : batch \in Seq(AnyRow(A)) /\ inflight \in Seq(Seq(AnyRow(A)))
  BY DEF RowsNameRequests
<1>3. \A i \in DOMAIN batch : batch[i] \in AnyRow(A)
  BY <1>2, LenProperties
<1>4. \A i \in DOMAIN batch : /\ step[i].req = batch[i].req /\ step[i].to = batch[i].to
                              /\ step[i].blocks = batch[i].blocks
                              /\ step[i].copies = batch[i].copies
                              /\ batch[i].req \in Request
  BY <1>3 DEF AnyRow
<1>5. DOMAIN step = DOMAIN batch
  OBVIOUS
<1> HIDE DEF step, Launched
<1>6. /\ DOMAIN inflight = 1 .. Len(inflight) /\ Len(inflight) \in Nat
      /\ DOMAIN inflight' = 1 .. Len(inflight) + 1
      /\ \A k \in DOMAIN inflight : inflight'[k] = inflight[k]
      /\ inflight'[Len(inflight) + 1] = step
  BY <1>1, <1>2, LenProperties
<1>7. step # << >> => batch # << >>
  <2>1. PICK B : inflight' \in Seq(Seq(AnyRow(B)))
    BY BatchLaunched DEF RowsNameRequests
  <2>2. step \in Seq(AnyRow(B))
    BY <1>6, <2>1, LenProperties
  <2>3. batch = << >> => DOMAIN step = {}
    BY <1>5
  <2> QED BY <2>2, <2>3, LenProperties, EmptySeq
<1>8. /\ retained \in Seq(Lease) /\ deferred \in Seq(Lease)
      /\ ToSet(deferred') = ToSet(deferred) \cup ToSet(retained)
      /\ ToSet(retained) \subseteq Lease /\ ToSet(deferred) \subseteq Lease
      /\ ToSet(retained) \cap ToSet(deferred) = {}
  <2>1. retained \in Seq(Lease) /\ deferred \in Seq(Lease)
    BY DEF ControlTypes
  <2> QED BY <1>1, <2>1, ConcatElements DEF Leases
<1>9. schedSeq \in Int /\ schedSeq' \in Int /\ schedSeq <= schedSeq' /\ processedSeq \in Int
  BY <1>1 DEF StepTypes
<1>10. ASSUME NEW b, NEW n \in Int, n <= schedSeq, Covered(b, n)
       PROVE  Covered(b, n)'
  <2>1. CASE \E q \in Request : b \in ToSet(table[q]) /\ lastSched[q] >= n
    BY <1>1, <1>9, <1>10, <2>1 DEF Covered
  <2>2. CASE \E l \in ToSet(deferred) : b \in lease[l] /\ fence[l] >= n
    BY <1>1, <1>8, <2>2 DEF Covered
  <2> QED BY <1>10, <2>1, <2>2 DEF Covered
<1> DEFINE next == schedSeq + 1
<1>11. PICK n \in Int : n = next
  BY <1>9
<1> HIDE DEF next
<1>12. schedSeq' = IF batch # << >> THEN n ELSE schedSeq
  BY <1>1, <1>11 DEF next
<1>13. n = schedSeq + 1
  BY <1>11 DEF next
<1>14. ASSUME step # << >>, NEW b \in StepBlocks(step)
       PROVE  Covered(b, n)'
  <2>1. schedSeq' = n
    BY <1>7, <1>12, <1>14
  <2>2. PICK i \in DOMAIN step :
          \/ b \in {step[i].blocks[j] : j \in 1 .. BlockOf(step[i].to)}
          \/ \E c \in step[i].copies : \E e \in c.from : b = e.block
    BY <1>14 DEF StepBlocks
  <2>3. RowIsHeld(batch[i]) /\ i \in DOMAIN batch
    BY <1>5 DEF Scheduled
  <2>4. CASE b \in {step[i].blocks[j] : j \in 1 .. BlockOf(step[i].to)}
    <3>1. batch[i].req \in Request /\ b \in ToSet(table[batch[i].req])
      BY <1>4, <2>3, <2>4 DEF RowIsHeld
    <3>2. lastSched'[batch[i].req] = schedSeq'
      BY <1>1, <2>3, <3>1 DEF RowsOf
    <3>3. b \in ToSet(table'[batch[i].req]) /\ lastSched'[batch[i].req] >= n
      BY <1>1, <1>11, <2>1, <3>1, <3>2
    <3> QED BY <3>1, <3>3 DEF Covered
  <2>5. CASE \E c \in step[i].copies : \E e \in c.from : b = e.block
    <3>1. PICK l \in ToSet(retained) : b \in lease[l]
      BY <1>4, <2>3, <2>5 DEF RowIsHeld
    <3>2. fence'[l] = schedSeq' /\ l \in ToSet(deferred')
      BY <1>1, <1>7, <1>8, <1>14 DEF RetentionFence
    <3>3. b \in lease'[l] /\ fence'[l] >= n
      BY <1>1, <1>11, <2>1, <3>1, <3>2
    <3> QED BY <3>2, <3>3 DEF Covered
  <2> QED BY <2>2, <2>4, <2>5
<1>15. PICK s \in [DOMAIN inflight -> Int] : Numbered(s)
  BY DEF InFlight
<1>16. processedSeq <= schedSeq
  BY DEF InFlight
<1> DEFINE numbers == [k \in 1 .. Len(inflight) + 1 |->
                        IF k \in DOMAIN inflight THEN s[k] ELSE n]
<1>17. numbers \in [1 .. Len(inflight) + 1 -> Int]
  BY <1>6
<1>18. PICK t \in [1 .. Len(inflight) + 1 -> Int] : t = numbers
  BY <1>17
<1>19. /\ t \in [DOMAIN inflight' -> Int]
       /\ \A k \in DOMAIN inflight : t[k] = s[k] /\ s[k] \in Int
       /\ t[Len(inflight) + 1] = n
  BY <1>6, <1>18
<1> HIDE DEF numbers
<1>20. ASSUME NEW k \in DOMAIN inflight', inflight'[k] # << >>
       PROVE  /\ processedSeq' < t[k] /\ t[k] <= schedSeq'
              /\ \A b \in StepBlocks(inflight'[k]) : Covered(b, t[k])'
              /\ \A i \in DOMAIN inflight' : i < k /\ inflight'[i] # << >> => t[i] < t[k]
  <2>1. CASE k \in DOMAIN inflight
    <3>1. /\ inflight[k] # << >> /\ inflight'[k] = inflight[k] /\ t[k] = s[k] /\ s[k] \in Int
          /\ processedSeq < s[k] /\ s[k] <= schedSeq
          /\ \A b \in StepBlocks(inflight[k]) : Covered(b, s[k])
      BY <1>6, <1>15, <1>19, <1>20, <2>1 DEF Numbered
    <3>2. \A b \in StepBlocks(inflight'[k]) : Covered(b, t[k])'
      BY <1>10, <3>1
    <3>3. ASSUME NEW i \in DOMAIN inflight', i < k, inflight'[i] # << >> PROVE t[i] < t[k]
      <4>1. i \in DOMAIN inflight
        BY <1>6, <2>1, <3>3
      <4>2. s[i] < s[k]
        BY <1>6, <1>15, <2>1, <3>1, <3>3, <4>1 DEF Numbered
      <4> QED BY <1>19, <3>1, <4>1, <4>2
    <3> QED BY <1>1, <1>9, <3>1, <3>2, <3>3
  <2>2. CASE k \notin DOMAIN inflight
    <3>1. k = Len(inflight) + 1 /\ inflight'[k] = step /\ t[k] = n
      BY <1>6, <1>19, <2>2
    <3>2. schedSeq' = n
      BY <1>7, <1>20, <1>12, <3>1
    <3>3. \A b \in StepBlocks(inflight'[k]) : Covered(b, t[k])'
      BY <1>14, <1>20, <3>1
    <3>4. ASSUME NEW i \in DOMAIN inflight', i < k, inflight'[i] # << >> PROVE t[i] < t[k]
      <4>1. i \in DOMAIN inflight
        BY <1>6, <3>1, <3>4
      <4>2. s[i] <= schedSeq /\ t[i] = s[i] /\ s[i] \in Int
        BY <1>6, <1>15, <1>19, <3>4, <4>1 DEF Numbered
      <4> QED BY <1>9, <1>13, <3>1, <4>2
    <3> QED BY <1>1, <1>9, <1>16, <1>13, <3>1, <3>2, <3>3, <3>4
  <2> QED BY <2>1, <2>2
<1>21. Numbered(t)'
  BY <1>20 DEF Numbered, StepBlocks, BlockOf, CeilDiv
<1> QED BY <1>1, <1>9, <1>16, <1>19, <1>21 DEF InFlight

(* The entries the drain frees are due, and the others stay.               *)
LEMMA Drained ==
  ASSUME ControlTypes, Leases, NEW p
  PROVE  /\ ToSet(SubSeq(deferred, NumDue(p) + 1, Len(deferred))) = ToSet(deferred) \ Due(p)
         /\ \A l \in Due(p) : fence[l] <= p
<1> DEFINE n == NumDue(p)
<1>1. n \in 0 .. Len(deferred) /\ DueEntries(p) = 1 .. n
  BY DrainedPrefix
<1>2. deferred \in Seq(Lease) /\ IsInjective(deferred)
  BY DEF ControlTypes, Leases
<1>3. Due(p) = {deferred[j] : j \in 1 .. n}
  BY <1>1 DEF Due
<1>4. \A l \in Due(p) : fence[l] <= p
  <2> SUFFICES ASSUME NEW j \in DueEntries(p) PROVE fence[deferred[j]] <= p
    BY DEF Due
  <2>1. j \in 1 .. j
    BY <1>1
  <2> QED BY <2>1 DEF DueEntries
<1> HIDE DEF n
<1>5. ToSet(SubSeq(deferred, n + 1, Len(deferred))) = ToSet(deferred) \ {deferred[j] : j \in 1 .. n}
  BY <1>1, <1>2, SuffixElements
<1> QED BY <1>3, <1>4, <1>5 DEF n

(* The oldest step is done: a nonempty one was number processedSeq + 1 or  *)
(* later, so the steps behind it are covered past what the drain frees.    *)
LEMMA TakeInFlight ==
  ASSUME ControlTypes, RowsNameRequests, StepTypes, Leases, InFlight, TakeResults
  PROVE  InFlight'
<1> SUFFICES ASSUME Defer PROVE InFlight'
  BY DEF InFlight
<1> DEFINE step == Head(inflight)
<1>1. /\ inflight # << >> /\ inflight' = Tail(inflight)
      /\ UNCHANGED <<table, lastSched, fence, schedSeq>>
      /\ processedSeq' = IF step # << >> THEN processedSeq + 1 ELSE processedSeq
  BY DEF TakeResults, request
<1>2. \/ step = << >> /\ UNCHANGED <<lease, deferred>>
      \/ /\ step # << >>
         /\ lease' = [l \in Lease |-> IF l \in Due(processedSeq + 1) THEN {} ELSE lease[l]]
         /\ deferred' = SubSeq(deferred, NumDue(processedSeq + 1) + 1, Len(deferred))
  BY DEF TakeResults, ReleaseLeases
<1>3. PICK A : inflight \in Seq(Seq(AnyRow(A)))
  BY DEF RowsNameRequests
<1>4. /\ DOMAIN inflight = 1 .. Len(inflight) /\ Len(inflight) \in Nat \ {0}
      /\ step = inflight[1]
      /\ DOMAIN inflight' = 1 .. Len(inflight) - 1
      /\ \A k \in 1 .. Len(inflight) - 1 : inflight'[k] = inflight[k + 1]
  BY <1>1, <1>3, LenProperties, EmptySeq, HeadTailProperties
<1> HIDE DEF step
<1>5. processedSeq \in Int /\ processedSeq' \in Int /\ schedSeq \in Int
  BY <1>1 DEF StepTypes
<1>6. ASSUME NEW b, NEW n \in Int, processedSeq' < n, Covered(b, n)
      PROVE  Covered(b, n)'
  <2>1. CASE \E q \in Request : b \in ToSet(table[q]) /\ lastSched[q] >= n
    BY <1>1, <2>1 DEF Covered
  <2>2. CASE \E l \in ToSet(deferred) : b \in lease[l] /\ fence[l] >= n
    <3>1. PICK l \in ToSet(deferred) : b \in lease[l] /\ fence[l] >= n
      BY <2>2
    <3>2. l \in Lease /\ fence[l] \in Int
      BY <3>1 DEF Leases, StepTypes
    <3>3. l \in ToSet(deferred') /\ b \in lease'[l]
      <4>1. CASE UNCHANGED <<lease, deferred>>
        BY <3>1, <4>1
      <4>2. CASE /\ step # << >>
                 /\ lease' = [m \in Lease |-> IF m \in Due(processedSeq + 1) THEN {} ELSE lease[m]]
                 /\ deferred' = SubSeq(deferred, NumDue(processedSeq + 1) + 1, Len(deferred))
        <5>1. processedSeq' = processedSeq + 1
          BY <1>1, <4>2
        <5>2. l \notin Due(processedSeq + 1)
          <6>1. l \in Due(processedSeq + 1) => fence[l] <= processedSeq + 1
            BY Drained
          <6> QED BY <1>5, <1>6, <3>1, <3>2, <5>1, <6>1
        <5>3. ToSet(deferred') = ToSet(deferred) \ Due(processedSeq + 1)
          BY <4>2, Drained
        <5> QED BY <3>1, <3>2, <4>2, <5>2, <5>3
      <4> QED BY <1>2, <4>1, <4>2
    <3> QED BY <1>1, <3>1, <3>3 DEF Covered
  <2> QED BY <1>6, <2>1, <2>2 DEF Covered
<1>7. PICK s \in [DOMAIN inflight -> Int] : Numbered(s)
  BY DEF InFlight
<1> DEFINE numbers == [k \in 1 .. Len(inflight) - 1 |-> s[k + 1]]
<1>8. numbers \in [1 .. Len(inflight) - 1 -> Int]
  BY <1>4
<1>9. PICK t \in [1 .. Len(inflight) - 1 -> Int] : t = numbers
  BY <1>8
<1>10. /\ t \in [DOMAIN inflight' -> Int]
       /\ \A k \in DOMAIN inflight' :
            /\ t[k] = s[k + 1] /\ s[k + 1] \in Int /\ k + 1 \in DOMAIN inflight
            /\ k \in Nat \ {0}
  BY <1>4, <1>9
<1> HIDE DEF numbers
<1>11. step # << >> => processedSeq < s[1] /\ s[1] <= schedSeq /\ s[1] \in Int
  BY <1>4, <1>7 DEF Numbered
<1>12. processedSeq' <= schedSeq'
  <2>1. processedSeq <= schedSeq
    BY DEF InFlight
  <2> QED BY <1>1, <1>5, <1>11, <2>1
<1>13. ASSUME NEW k \in DOMAIN inflight', inflight'[k] # << >>
       PROVE  /\ processedSeq' < t[k] /\ t[k] <= schedSeq'
              /\ \A b \in StepBlocks(inflight'[k]) : Covered(b, t[k])'
              /\ \A i \in DOMAIN inflight' : i < k /\ inflight'[i] # << >> => t[i] < t[k]
  <2>1. inflight'[k] = inflight[k + 1] /\ k \in Nat \ {0}
    BY <1>4, <1>10
  <2>2. /\ processedSeq < s[k + 1] /\ s[k + 1] <= schedSeq
        /\ \A b \in StepBlocks(inflight[k + 1]) : Covered(b, s[k + 1])
        /\ \A i \in DOMAIN inflight : i < k + 1 /\ inflight[i] # << >> => s[i] < s[k + 1]
    BY <1>7, <1>10, <1>13, <2>1 DEF Numbered
  <2>3. processedSeq' < t[k]
    <3>1. CASE step = << >>
      BY <1>1, <1>10, <2>2, <3>1
    <3>2. CASE step # << >>
      <4>1. s[1] < s[k + 1]
        BY <1>4, <2>1, <2>2, <3>2
      <4> QED BY <1>1, <1>5, <1>10, <1>11, <3>2, <4>1
    <3> QED BY <3>1, <3>2
  <2>4. t[k] \in Int
    BY <1>10
  <2>5. \A b \in StepBlocks(inflight'[k]) : Covered(b, t[k])
    BY <1>10, <2>1, <2>2
  <2>6. \A b \in StepBlocks(inflight'[k]) : Covered(b, t[k])'
    BY <1>6, <2>3, <2>4, <2>5
  <2>7. ASSUME NEW i \in DOMAIN inflight', i < k, inflight'[i] # << >> PROVE t[i] < t[k]
    <3>1. i + 1 < k + 1 /\ inflight[i + 1] # << >> /\ i + 1 \in DOMAIN inflight
      BY <1>4, <1>10, <2>1, <2>7
    <3> QED BY <1>10, <2>2, <3>1
  <2> QED BY <1>1, <1>10, <2>2, <2>3, <2>6, <2>7
<1>14. Numbered(t)'
  BY <1>13 DEF Numbered, StepBlocks, BlockOf, CeilDiv
<1> QED BY <1>10, <1>12, <1>14 DEF InFlight

(* Every step keeps InFlight: the inductive step of the invariant.         *)
LEMMA NextInFlight ==
  Types /\ StepTypes /\ Queues /\ Tables /\ Leases /\ Scheduled /\ InFlight /\ [Next]_vars
    => InFlight'
<1> SUFFICES ASSUME ControlTypes, RowsNameRequests, StepTypes, Queues, Tables, Leases,
                    Scheduled, InFlight, [Next]_vars
             PROVE  InFlight'
  BY DEF Types
<1> USE DEF request, leases, seqs, worker
<1>1. CASE UNCHANGED vars \/ Idle
  <2>1. /\ UNCHANGED <<inflight, table, lease, lastSched, deferred, fence>>
        /\ UNCHANGED <<schedSeq, processedSeq>>
    BY <1>1 DEF vars, Idle
  <2> QED BY <2>1, ScheduleInFlight
<1>2. ASSUME NEW r \in Request, Abort(r) PROVE InFlight'
  BY <1>2, FreeInFlight DEF Abort
<1>3. CASE ResetPreempt \/ PreemptForSlots
  <2>1. running # << >> /\ PreemptLast
    BY <1>3, CandidateType DEF ResetPreempt, PreemptForSlots
  <2>2. Last(running) \in Request /\ FreeRequestBlocks(Last(running))
    BY <2>1, PreemptTypes DEF PreemptLast
  <2> QED BY <1>3, <2>2, FreeInFlight DEF ResetPreempt, PreemptForSlots
<1>4. CASE ScheduleRunning
  <2>1. Candidate \in Request
    BY <1>4, CandidateType DEF ScheduleRunning
  <2>2. PICK new \in Seq(Block) : table' = [table EXCEPT ![Candidate] = table[Candidate] \o new]
    BY <1>4, ScheduledRunning
  <2>3. table[Candidate] \in Seq(Block)
    BY <2>1 DEF ControlTypes
  <2>4. ToSet(table[Candidate] \o new) = ToSet(table[Candidate]) \cup ToSet(new)
    BY <2>3, ConcatElements
  <2>5. \A q \in Request : ToSet(table[q]) \subseteq ToSet(table'[q])
    BY <2>1, <2>2, <2>4 DEF ControlTypes
  <2>6. UNCHANGED <<inflight, lease, lastSched, deferred, fence, schedSeq, processedSeq>>
    BY <1>4 DEF ScheduleRunning
  <2> QED BY <2>5, <2>6, ScheduleInFlight
<1>5. CASE AdmitWaiting
  BY <1>5, AdmitInFlight
<1>6. CASE Launch
  BY <1>6, LaunchInFlight
<1>7. CASE TakeResults
  BY <1>7, TakeInFlight
<1>8. CASE AppendToken
  <2>1. /\ NextRow.req \in Request
        /\ UNCHANGED <<inflight, lastSched, schedSeq, processedSeq>>
    BY <1>8, RowTaken DEF AppendToken
  <2>2. CASE UNCHANGED <<table, lease, fence, deferred>>
    BY <2>1, <2>2, ScheduleInFlight
  <2>3. CASE Stop(NextRow.req, hash')
    BY <2>1, <2>3, FreeInFlight DEF Stop
  <2> QED BY <1>8, <2>2, <2>3 DEF AppendToken
<1>9. ASSUME \/ \E r \in Request : AddRequest(r)
             \/ ResetPrefixCache \/ ForceReset \/ ResetEnd \/ BeginSchedule
             \/ SkipRunning \/ EndRunning \/ RefuseWaiting \/ EndWaiting
             \/ IgnoreRow \/ DiscardRow
      PROVE  InFlight'
  <2>1. /\ UNCHANGED <<inflight, table, lease, lastSched, deferred, fence>>
        /\ UNCHANGED <<schedSeq, processedSeq>>
    BY <1>9 DEF AddRequest, ResetPrefixCache, ForceReset, ResetEnd, BeginSchedule,
                SkipRunning, EndRunning, RefuseWaiting, EndWaiting, IgnoreRow, DiscardRow
  <2> QED BY <2>1, ScheduleInFlight
<1> QED
  BY <1>1, <1>2, <1>3, <1>4, <1>5, <1>6, <1>7, <1>8, <1>9 DEF Next, Client, Engine

-----------------------------------------------------------------------------
(* What the proofs of this module need of the step in progress, always.    *)
LEMMA ScheduledInvariant == Spec => [](StepTypes /\ Scheduled)
<1>1. Init => StepTypes /\ Scheduled
  BY DEF Init, StepTypes, Scheduled
<1>2. Types /\ StepTypes /\ [Next]_vars => StepTypes'
  BY NextStepTypes
<1>3. Types /\ Queues /\ Tables /\ Leases /\ Scheduled /\ [Next]_vars => Scheduled'
  BY NextScheduled
<1> QED
  BY <1>1, <1>2, <1>3, TypesInvariant, QueuesInvariant, TablesInvariant, LeasesInvariant,
     PTL DEF Spec

(* defer_block_free: a block that a launched step reads, writes or copies  *)
(* from is not in the pool while the step is in flight, whatever preempts, *)
(* finishes, aborts or resets its requests in between.                     *)
THEOREM InFlightBlocksAreHeldInvariant == Spec => []InFlightBlocksAreHeld
<1>1. Init => InFlight
  <2> SUFFICES ASSUME Init PROVE InFlight
    OBVIOUS
  <2> DEFINE s == [k \in DOMAIN inflight |-> 0]
  <2>1. Numbered(s) /\ s \in [DOMAIN inflight -> Int]
    BY DEF Init, Numbered
  <2>2. processedSeq <= schedSeq
    BY DEF Init
  <2> HIDE DEF s
  <2> QED BY <2>1, <2>2 DEF InFlight
<1>2. /\ Types /\ StepTypes /\ Queues /\ Tables /\ Leases /\ Scheduled /\ InFlight
      /\ [Next]_vars
      => InFlight'
  BY NextInFlight
<1>3. Types /\ Refs /\ InFlight => InFlightBlocksAreHeld
  BY InFlightSuffices
<1> QED
  BY <1>1, <1>2, <1>3, TypesInvariant, QueuesInvariant, TablesInvariant, LeasesInvariant,
     RefsInvariant, ScheduledInvariant, PTL DEF Spec

(* _drain_deferred_frees: an entry that is due waits behind one later step *)
(* at most, and outside schedule() none waits for a step not yet launched. *)
THEOREM FencesAreNearMonotonicInvariant == Spec => []FencesAreNearMonotonic
<1>1. Init => Fences
  BY DEF Init, Fences
<1>2. Types /\ StepTypes /\ Leases /\ Scheduled /\ Fences /\ [Next]_vars => Fences'
  BY NextFences
<1> QED
  BY <1>1, <1>2, TypesInvariant, LeasesInvariant, ScheduledInvariant, FencesSuffice,
     PTL DEF Spec

(* reset_prefix_cache(reset_running_requests=True): when the preemptions   *)
(* are done, the blocks that are not free are those of deferred_frees.     *)
THEOREM ResetFailsOnlyForDeferredHolds == Spec => ResetFailsOnlyForDeferred
<1>1. ASSUME Types, Queues, Tables, Leases, Refs, [Next]_vars,
             phase = "reset", phase' = "idle"
      PROVE  FreeBlocks = Block \ UNION {lease[l] : l \in ToSet(deferred)}
  <2>1. running = << >>
    BY <1>1 DEF vars, call, Idle, Next, Client, Engine, AddRequest, Abort,
       BetweenSteps, ResetPrefixCache, ForceReset, ResetPreempt, ResetEnd, BeginSchedule,
       SkipRunning, ScheduleRunning, PreemptForSlots, EndRunning, InRunningLoop,
       AdmitWaiting, RefuseWaiting, InWaitingLoop, EndWaiting, Launch, TakeResults,
       IgnoreRow, DiscardRow, AppendToken
  <2>2. \A r \in Request : ToSet(table[r]) = {}
    <3>1. ToSet(running) = {}
      BY <2>1 DEF ToSet
    <3>2. \A r \in Request : table[r] = << >>
      BY <1>1, <3>1 DEF Queues, Tables
    <3> QED BY <3>2 DEF ToSet
  <2>3. ToSet(deferred) = {l \in Lease : lease[l] # {}}
    <3>1. ToSet(retained) = {}
      BY <1>1 DEF Tables, ToSet
    <3> QED BY <1>1, <3>1 DEF Leases
  <2>4. ASSUME NEW b \in Block
        PROVE  b \in FreeBlocks <=> b \notin UNION {lease[l] : l \in ToSet(deferred)}
    <3>1. b \in FreeBlocks <=> Holders(b) = {}
      BY <1>1, HoldersFinite, FS_EmptySet DEF FreeBlocks, Refs, RefsCountHolders
    <3>2. Holders(b) = {} <=> \A l \in Lease : b \notin lease[l]
      BY <2>2, HoldersNow DEF Holder
    <3> QED BY <2>3, <3>1, <3>2
  <2> QED BY <2>4 DEF FreeBlocks
<1>2. Types /\ Queues /\ Tables /\ Leases /\ Refs /\ [Next]_vars
      => [phase = "reset" /\ phase' = "idle" =>
            FreeBlocks = Block \ UNION {lease[l] : l \in ToSet(deferred)}]_vars
  BY <1>1
<1> QED
  BY <1>2, TypesInvariant, QueuesInvariant, TablesInvariant, LeasesInvariant,
     RefsInvariant, PTL DEF Spec, ResetFailsOnlyForDeferred

-----------------------------------------------------------------------------
(***************************************************************************)
(* The outputs still to come.  A step has one row for a request at most,   *)
(* so it owes the request one output or none.                              *)
(***************************************************************************)
DistinctRows(step) == \A i, j \in DOMAIN step : step[i].req = step[j].req => i = j

Yields(step, r) ==
  IF \E i \in DOMAIN step : step[i].req = r /\ step[i].samples THEN 1 ELSE 0

(* The steps of the batch queue, of which no more than max_concurrent_batches *)
(* are in flight, also while the next one is put together.                 *)
Steps ==
  /\ DistinctRows(batch) /\ DistinctRows(todo)
  /\ \A k \in DOMAIN inflight :
       DistinctRows(inflight[k]) /\ Len(inflight[k]) <= MaxRunning
  /\ Len(inflight) <= MaxConcurrent
  /\ phase \notin {"idle", "update"} => Len(inflight) < MaxConcurrent
  /\ phase # "update" => todo = << >>

(* The rows of a step, whatever else they are, are in sequence.            *)
LEMMA RowSequences ==
  ASSUME RowsNameRequests
  PROVE  /\ Len(batch) \in Nat /\ DOMAIN batch = 1 .. Len(batch)
         /\ Len(todo) \in Nat /\ DOMAIN todo = 1 .. Len(todo)
         /\ Len(inflight) \in Nat /\ DOMAIN inflight = 1 .. Len(inflight)
         /\ \A k \in DOMAIN inflight :
              Len(inflight[k]) \in Nat /\ DOMAIN inflight[k] = 1 .. Len(inflight[k])
         /\ \A i \in DOMAIN batch : batch[i].req \in Request
<1>1. PICK A : /\ batch \in Seq(AnyRow(A)) /\ todo \in Seq(AnyRow(A))
               /\ inflight \in Seq(Seq(AnyRow(A)))
  BY DEF RowsNameRequests
<1>2. \A k \in DOMAIN inflight : inflight[k] \in Seq(AnyRow(A))
  BY <1>1
<1>3. \A i \in DOMAIN batch : batch[i] \in AnyRow(A)
  BY <1>1
<1>4. \A i \in DOMAIN batch : batch[i].req \in Request
  BY <1>3 DEF AnyRow
<1> HIDE DEF AnyRow
<1> QED BY <1>1, <1>2, <1>4, LenProperties

(* Taking the first row off a step whose rows are of distinct requests.    *)
LEMMA FirstRowTaken ==
  ASSUME NEW S, NEW step \in Seq(S), step # << >>, DistinctRows(step)
  PROVE  /\ DistinctRows(Tail(step))
         /\ \A r : Yields(Tail(step), r) =
                     IF Head(step).req = r THEN 0 ELSE Yields(step, r)
         /\ \A r : Head(step).req = r =>
                     Yields(step, r) = IF Head(step).samples THEN 1 ELSE 0
<1>1. /\ Len(step) \in Nat \ {0} /\ DOMAIN step = 1 .. Len(step)
      /\ Len(Tail(step)) = Len(step) - 1 /\ DOMAIN Tail(step) = 1 .. Len(step) - 1
      /\ Head(step) = step[1]
      /\ \A i \in 1 .. Len(step) - 1 : Tail(step)[i] = step[i + 1]
  OBVIOUS
<1>2. \A i \in DOMAIN Tail(step) : i + 1 \in DOMAIN step /\ i + 1 # 1 /\ 1 \in DOMAIN step
  BY <1>1
<1>3. DistinctRows(Tail(step))
  <2> SUFFICES ASSUME NEW i \in DOMAIN Tail(step), NEW j \in DOMAIN Tail(step),
                      Tail(step)[i].req = Tail(step)[j].req
               PROVE  i = j
    BY DEF DistinctRows
  <2>1. i + 1 = j + 1
    BY <1>1, <1>2 DEF DistinctRows
  <2> QED BY <1>1, <2>1
<1>4. ASSUME NEW r, Head(step).req = r
      PROVE  /\ ~ \E i \in DOMAIN Tail(step) : Tail(step)[i].req = r
             /\ Yields(step, r) = IF Head(step).samples THEN 1 ELSE 0
  BY <1>1, <1>2, <1>4 DEF DistinctRows, Yields
<1>5. ASSUME NEW r, Head(step).req # r
      PROVE  Yields(Tail(step), r) = Yields(step, r)
  <2>1. ASSUME NEW i \in DOMAIN step, step[i].req = r, step[i].samples
        PROVE  \E j \in DOMAIN Tail(step) : Tail(step)[j].req = r /\ Tail(step)[j].samples
    <3>1. i # 1 /\ i - 1 \in DOMAIN Tail(step) /\ Tail(step)[i - 1] = step[i]
      BY <1>1, <1>5, <2>1
    <3> QED BY <2>1, <3>1
  <2>2. ASSUME NEW j \in DOMAIN Tail(step), Tail(step)[j].req = r, Tail(step)[j].samples
        PROVE  \E i \in DOMAIN step : step[i].req = r /\ step[i].samples
    BY <1>1, <1>2, <2>2
  <2> QED BY <2>1, <2>2 DEF Yields
<1> QED BY <1>3, <1>4, <1>5 DEF Yields

(* The step being put together never has more rows than requests run.      *)
LEMMA BatchFits ==
  ASSUME Types, Queues, Scheduled, Steps
  PROVE  Len(batch) <= MaxRunning
<1> DEFINE reqs == [i \in 1 .. Len(batch) |-> batch[i].req]
<1>1. /\ Len(batch) \in Nat /\ DOMAIN batch = 1 .. Len(batch)
      /\ \A i \in DOMAIN batch : batch[i].req \in Request
  BY RowSequences DEF Types
<1>2. reqs \in Seq(Request) /\ Len(reqs) = Len(batch) /\ IsInjective(reqs)
  BY <1>1 DEF Steps, DistinctRows, IsInjective
<1>3. ToSet(reqs) \subseteq ToSet(running)
  BY <1>1 DEF Scheduled, RowIsHeld, ToSet
<1> HIDE DEF reqs
<1>4. IsFiniteSet(ToSet(reqs)) /\ Cardinality(ToSet(reqs)) = Len(batch)
  BY <1>2, ElementCount
<1>5. IsFiniteSet(ToSet(running)) /\ Cardinality(ToSet(running)) = Len(running)
  BY ElementCount DEF Queues, Types, ControlTypes
<1>6. Cardinality(ToSet(reqs)) <= Cardinality(ToSet(running))
  BY <1>3, <1>5, FS_Subset
<1>7. Len(running) \in Nat /\ Len(running) <= MaxRunning /\ MaxRunning \in Nat
  BY ConfigAssumption DEF Queues, Types, ControlTypes
<1> QED BY <1>1, <1>4, <1>5, <1>6, <1>7

(* The step Launch appends has the rows of the batch, and owes an output   *)
(* to the requests whose known tokens it computes to the last.             *)
LEMMA LaunchedStep ==
  ASSUME Types, Steps, Launch
  PROVE  \E step :
           /\ inflight' = Append(inflight, step)
           /\ DistinctRows(step) /\ Len(step) = Len(batch)
           /\ \A r : Yields(step, r) =
                IF \E i \in RowsOf(r) : Samples(batch[i]) THEN 1 ELSE 0
<1> DEFINE step == [i \in DOMAIN batch |->
                      [batch[i] EXCEPT !.reuse = reused[batch[i].req],
                                       !.samples = Samples(batch[i])]]
<1>1. /\ Len(batch) \in Nat /\ DOMAIN batch = 1 .. Len(batch)
  BY RowSequences DEF Types
<1>2. PICK A : batch \in Seq(AnyRow(A))
  BY DEF Types, RowsNameRequests
<1>3. \A i \in DOMAIN batch : batch[i] \in AnyRow(A)
  BY <1>2
<1>4. \A i \in DOMAIN batch :
        step[i].req = batch[i].req /\ step[i].samples = Samples(batch[i])
  BY <1>3 DEF AnyRow
<1>5. DOMAIN step = DOMAIN batch /\ Len(step) = Len(batch)
  BY <1>1
<1>6. inflight' = Append(inflight, step)
  BY DEF Launch
<1> HIDE DEF step
<1>7. DistinctRows(step)
  BY <1>4, <1>5 DEF Steps, DistinctRows
<1>8. ASSUME NEW r
      PROVE  Yields(step, r) = IF \E i \in RowsOf(r) : Samples(batch[i]) THEN 1 ELSE 0
  BY <1>4, <1>5 DEF Yields, RowsOf
<1> QED BY <1>5, <1>6, <1>7, <1>8

(* A row appended for a request that has none yet keeps rows distinct.     *)
LEMMA RowStaysDistinct ==
  ASSUME NEW S, NEW step \in Seq(S), DistinctRows(step), NEW row,
         \A i \in DOMAIN step : step[i].req # row.req
  PROVE  DistinctRows(Append(step, row))
<1>1. /\ Len(step) \in Nat /\ DOMAIN step = 1 .. Len(step)
      /\ DOMAIN Append(step, row) = 1 .. Len(step) + 1
      /\ Append(step, row)[Len(step) + 1] = row
      /\ \A i \in 1 .. Len(step) : Append(step, row)[i] = step[i]
  OBVIOUS
<1> QED BY <1>1 DEF DistinctRows

(* A step that touches no rows keeps Steps, if its phase is of the same kind. *)
LEMMA StepsKept ==
  ASSUME Steps, UNCHANGED <<batch, todo, inflight>>,
         phase' \notin {"idle", "update"} => Len(inflight) < MaxConcurrent,
         phase' # "update" => todo = << >>
  PROVE  Steps'
BY DEF Steps, DistinctRows

(* Every step keeps Steps: the inductive step of the invariant.            *)
LEMMA NextSteps ==
  Types /\ Queues /\ Scheduled /\ Steps /\ [Next]_vars => Steps'
<1> SUFFICES ASSUME Types, Queues, Scheduled, Steps, [Next]_vars
             PROVE  Steps'
  OBVIOUS
<1> USE DEF call, worker
<1>1. CASE UNCHANGED vars \/ Idle
  <2>1. UNCHANGED <<batch, todo, inflight, phase>>
    BY <1>1 DEF vars, Idle
  <2> QED BY <2>1, StepsKept DEF Steps
<1>2. ASSUME \/ \E r \in Request : AddRequest(r) \/ Abort(r)
             \/ ResetPrefixCache
             \/ ResetPreempt \/ ResetEnd
             \/ SkipRunning \/ PreemptForSlots \/ EndRunning \/ RefuseWaiting \/ EndWaiting
      PROVE  Steps'
  <2>1. /\ UNCHANGED <<batch, todo, inflight>>
        /\ phase # "update" /\ phase' # "update"
        /\ phase' = "idle" \/ phase \notin {"idle", "update"}
    BY <1>2 DEF AddRequest, Abort, BetweenSteps, ResetPrefixCache, ResetPreempt, ResetEnd,
                SkipRunning, PreemptForSlots, EndRunning, InRunningLoop, RefuseWaiting,
                InWaitingLoop, EndWaiting
  <2> QED BY <2>1, StepsKept DEF Steps
<1>3. CASE ForceReset
  <2>1. /\ UNCHANGED <<batch, todo, inflight>>
        /\ phase = "idle" /\ phase' = "reset" /\ Len(inflight) < MaxConcurrent
    BY <1>3 DEF ForceReset, BetweenSteps
  <2> QED BY <2>1, StepsKept DEF Steps
<1>4. CASE BeginSchedule
  <2>1. /\ UNCHANGED <<todo, inflight>> /\ batch' = << >>
        /\ phase = "idle" /\ phase' = "running" /\ Len(inflight) < MaxConcurrent
    BY <1>4 DEF BeginSchedule, BetweenSteps
  <2> QED BY <2>1 DEF Steps, DistinctRows
<1>5. CASE ScheduleRunning
  <2>1. PICK from, to, blocks :
          batch' = Append(batch, NewRow(Candidate, from, to, blocks, {}))
    BY <1>5 DEF ScheduleRunning
  <2>2. /\ UNCHANGED <<todo, inflight, phase>> /\ phase = "running"
        /\ cursor <= Len(running)
    BY <1>5 DEF ScheduleRunning, InRunningLoop
  <2>3. \A i \in DOMAIN batch : batch[i].req # Candidate
    <3>1. running \in Seq(Request) /\ cursor \in Nat \ {0}
      BY DEF Types, ControlTypes
    <3>2. \A i \in DOMAIN batch : \E k \in 1 .. cursor - 1 :
            k <= Len(running) /\ batch[i].req = running[k]
      BY <2>2 DEF Scheduled
    <3>3. \A k \in 1 .. cursor - 1 : running[k] # running[cursor]
      BY <2>2, <3>1 DEF Queues, IsInjective
    <3> QED BY <3>2, <3>3 DEF Candidate
  <2>4. DistinctRows(batch')
    <3>1. PICK A : batch \in Seq(AnyRow(A))
      BY DEF Types, RowsNameRequests
    <3> HIDE DEF AnyRow
    <3> QED BY <2>1, <2>3, <3>1, RowStaysDistinct DEF NewRow, Steps
  <2> QED BY <2>2, <2>4 DEF Steps, DistinctRows
<1>6. CASE AdmitWaiting
  <2>1. PICK from, to, blocks, copies :
          batch' = Append(batch, NewRow(Head(waiting), from, to, blocks, copies))
    BY <1>6, Admitted DEF Types
  <2>2. UNCHANGED <<todo, inflight, phase>> /\ waiting # << >>
    BY <1>6 DEF AdmitWaiting, InWaitingLoop
  <2>3. \A i \in DOMAIN batch : batch[i].req # Head(waiting)
    <3>1. waiting \in Seq(Request) /\ Head(waiting) \in ToSet(waiting)
      BY <2>2, TailElements DEF Types, ControlTypes
    <3>2. Head(waiting) \notin ToSet(running)
      BY <3>1 DEF Queues
    <3> QED BY <3>2 DEF Scheduled, RowIsHeld
  <2>4. DistinctRows(batch')
    <3>1. PICK A : batch \in Seq(AnyRow(A))
      BY DEF Types, RowsNameRequests
    <3> HIDE DEF AnyRow
    <3> QED BY <2>1, <2>3, <3>1, RowStaysDistinct DEF NewRow, Steps
  <2> QED BY <2>2, <2>4 DEF Steps, DistinctRows
<1>7. CASE Launch
  <2>1. PICK step : /\ inflight' = Append(inflight, step)
                    /\ DistinctRows(step) /\ Len(step) = Len(batch)
    BY <1>7, LaunchedStep
  <2>2. /\ phase = "launch" /\ phase' = "idle" /\ batch' = << >> /\ todo' = todo
    BY <1>7 DEF Launch
  <2>3. Len(inflight) \in Nat /\ DOMAIN inflight = 1 .. Len(inflight)
    BY RowSequences DEF Types
  <2>4. /\ Len(inflight') = Len(inflight) + 1 /\ DOMAIN inflight' = 1 .. Len(inflight) + 1
        /\ inflight'[Len(inflight) + 1] = step
        /\ \A k \in 1 .. Len(inflight) : inflight'[k] = inflight[k]
    <3>1. PICK A : inflight \in Seq(Seq(AnyRow(A)))
      BY DEF Types, RowsNameRequests
    <3> DEFINE S == Seq(AnyRow(A)) \cup {step}
    <3>2. inflight \in Seq(S) /\ step \in S
      BY <3>1
    <3> HIDE DEF S
    <3> QED BY <2>1, <2>3, <3>2, AppendProperties
  <2>5. \A k \in DOMAIN inflight' : DistinctRows(inflight'[k]) /\ Len(inflight'[k]) <= MaxRunning
    BY <2>1, <2>3, <2>4, BatchFits DEF Steps
  <2>6. Len(inflight') <= MaxConcurrent
    BY <2>2, <2>3, <2>4, ConfigAssumption DEF Steps
  <2> QED BY <2>2, <2>5, <2>6 DEF Steps, DistinctRows
<1>8. CASE TakeResults
  <2>1. /\ batch' = batch /\ inflight # << >> /\ inflight' = Tail(inflight)
        /\ todo' = Head(inflight)
        /\ phase' = IF Head(inflight) = << >> THEN "idle" ELSE "update"
    BY <1>8 DEF TakeResults
  <2>2. /\ Len(inflight) \in Nat \ {0} /\ DOMAIN inflight = 1 .. Len(inflight)
        /\ Head(inflight) = inflight[1] /\ DOMAIN inflight' = 1 .. Len(inflight) - 1
        /\ Len(inflight') = Len(inflight) - 1
        /\ \A k \in DOMAIN inflight' : k + 1 \in DOMAIN inflight /\ inflight'[k] = inflight[k + 1]
    <3>1. PICK A : inflight \in Seq(Seq(AnyRow(A)))
      BY DEF Types, RowsNameRequests
    <3> DEFINE S == Seq(AnyRow(A))
    <3>2. inflight \in Seq(S)
      BY <3>1
    <3> HIDE DEF S
    <3> QED BY <2>1, <3>2
  <2>3. DistinctRows(todo') /\ \A k \in DOMAIN inflight' :
          DistinctRows(inflight'[k]) /\ Len(inflight'[k]) <= MaxRunning
    BY <2>1, <2>2 DEF Steps
  <2>4. Len(inflight') <= MaxConcurrent
    BY <2>2, ConfigAssumption DEF Steps
  <2> QED BY <2>1, <2>3, <2>4 DEF Steps, DistinctRows
<1>9. CASE IgnoreRow \/ DiscardRow \/ AppendToken
  <2>1. /\ phase = "update" /\ UNCHANGED <<batch, inflight>> /\ RowDone
    BY <1>9 DEF IgnoreRow, DiscardRow, AppendToken
  <2>2. todo # << >>
    BY <2>1 DEF Types, RowsNameRequests
  <2>3. PICK A : todo \in Seq(AnyRow(A))
    BY DEF Types, RowsNameRequests
  <2>4. todo' = Tail(todo) /\ DistinctRows(todo')
    <3> DEFINE S == AnyRow(A)
    <3>1. todo \in Seq(S)
      BY <2>3
    <3> HIDE DEF S
    <3> QED BY <2>1, <2>2, <3>1, FirstRowTaken DEF RowDone, Steps
  <2>5. phase' # "update" => todo' = << >>
    <3>1. phase' # "update" => Len(todo) = 1
      BY <2>1 DEF RowDone
    <3>2. Tail(todo) \in Seq(AnyRow(A)) /\ Len(Tail(todo)) = Len(todo) - 1
      BY <2>2, <2>3, TailElements
    <3> QED BY <2>4, <3>1, <3>2, EmptySeq
  <2>6. phase' \in {"idle", "update"}
    BY <2>1 DEF RowDone
  <2> QED BY <2>1, <2>4, <2>5, <2>6 DEF Steps, DistinctRows
<1> QED
  BY <1>1, <1>2, <1>3, <1>4, <1>5, <1>6, <1>7, <1>8, <1>9 DEF Next, Client, Engine

-----------------------------------------------------------------------------
(***************************************************************************)
(* PlaceholdersCountOutputs, where no more than two steps are in flight.   *)
(* The placeholders and the outputs to be discarded are as many as the     *)
(* outputs still owed, by the rows at hand and by the two steps.  Outputs  *)
(* to be discarded are the first to come; a running request has such ones  *)
(* only after it was admitted again, with the stale step still in front of *)
(* the one that admitted it, and then the next step is not scheduled yet:  *)
(* so a reset never overwrites a count that is still needed.               *)
(***************************************************************************)
First(r)  == IF Len(inflight) < 1 THEN 0 ELSE Yields(inflight[1], r)
Second(r) == IF Len(inflight) < 2 THEN 0 ELSE Yields(inflight[2], r)

AccountOf(r) ==
  /\ placeholders[r] >= 0 /\ discard[r] >= 0
  /\ status[r] = "none" => placeholders[r] = 0 /\ discard[r] = 0
  /\ status[r] # "finished" =>
       /\ placeholders[r] + discard[r] = Yields(todo, r) + First(r) + Second(r)
       /\ discard[r] <= IF todo = << >> THEN First(r) ELSE Yields(todo, r)
  /\ status[r] = "running" /\ discard[r] > 0 =>
       phase \in {"waiting", "launch", "update"} \/ Len(inflight) >= 2

Accounts ==
  /\ discard \in [Request -> Int]
  /\ \A r \in Request : AccountOf(r)

(* What a step owes a request is a count of outputs.                       *)
LEMMA OwedTypes ==
  /\ \A step, r : Yields(step, r) \in {0, 1} /\ Yields(<< >>, r) = 0
  /\ \A r : First(r) \in {0, 1} /\ Second(r) \in {0, 1}
BY DEF Yields, First, Second

(* OutputsToCome counts pairs of a step in flight and a place of a row in  *)
(* it.  With one row for a request at most it counts steps.                *)
LEMMA OutputsCounted ==
  ASSUME Types, Steps, MaxConcurrent <= 2, NEW r \in Request
  PROVE  OutputsToCome(r) = Yields(todo, r) + First(r) + Second(r)
<1> DEFINE Promises(row) == row.req = r /\ row.samples
           now == {i \in DOMAIN todo : Promises(todo[i])}
           later == {o \in (DOMAIN inflight) \X (1 .. MaxRunning) :
                       /\ o[2] \in DOMAIN inflight[o[1]]
                       /\ Promises(inflight[o[1]][o[2]])}
           In(k) == {o \in later : o[1] = k}
<1>1. /\ Len(todo) \in Nat /\ DOMAIN todo = 1 .. Len(todo)
      /\ Len(inflight) \in Nat /\ DOMAIN inflight = 1 .. Len(inflight)
      /\ Len(inflight) <= 2
      /\ \A k \in DOMAIN inflight :
           Len(inflight[k]) \in Nat /\ DOMAIN inflight[k] = 1 .. Len(inflight[k])
    BY RowSequences, ConfigAssumption DEF Types, Steps
<1>2. OutputsToCome(r) = Cardinality(now) + Cardinality(later)
  BY DEF OutputsToCome
<1>3. Cardinality(now) = Yields(todo, r)
  <2>1. CASE now = {}
    BY <2>1, FS_EmptySet DEF Yields
  <2>2. CASE now # {}
    <3>1. PICK i \in DOMAIN todo : Promises(todo[i])
      BY <2>2
    <3>2. now = {i}
      BY <3>1 DEF Steps, DistinctRows
    <3>3. Yields(todo, r) = 1
      BY <3>1 DEF Yields
    <3> HIDE DEF now, Promises
    <3> QED BY <3>2, <3>3, FS_Singleton
  <2> QED BY <2>1, <2>2
<1>4. ASSUME NEW k \in DOMAIN inflight
      PROVE  IsFiniteSet(In(k)) /\ Cardinality(In(k)) = Yields(inflight[k], r)
  <2>1. \A j \in DOMAIN inflight[k] : j \in 1 .. MaxRunning
    BY <1>1, <1>4, ConfigAssumption DEF Steps
  <2>2. CASE \E j \in DOMAIN inflight[k] : Promises(inflight[k][j])
    <3>1. PICK j \in DOMAIN inflight[k] : Promises(inflight[k][j])
      BY <2>2
    <3>2. In(k) = {<<k, j>>}
      <4>1. <<k, j>> \in In(k)
        BY <1>4, <2>1, <3>1
      <4>2. ASSUME NEW o \in In(k) PROVE o = <<k, j>>
        <5>1. /\ o \in (DOMAIN inflight) \X (1 .. MaxRunning) /\ o[1] = k
              /\ o[2] \in DOMAIN inflight[k] /\ Promises(inflight[k][o[2]])
          BY <4>2
        <5>2. o[2] = j
          BY <1>4, <3>1, <5>1 DEF Steps, DistinctRows
        <5> QED BY <5>1, <5>2
      <4> HIDE DEF In
      <4> QED BY <4>1, <4>2
    <3>3. Yields(inflight[k], r) = 1
      BY <3>1 DEF Yields
    <3> HIDE DEF In, Promises
    <3> QED BY <3>2, <3>3, FS_Singleton
  <2>3. CASE ~ \E j \in DOMAIN inflight[k] : Promises(inflight[k][j])
    <3>1. In(k) = {}
      BY <2>3
    <3>2. Yields(inflight[k], r) = 0
      BY <2>3 DEF Yields
    <3> HIDE DEF In, Promises
    <3> QED BY <3>1, <3>2, FS_EmptySet
  <2> QED BY <2>2, <2>3
<1>5. later = UNION {In(k) : k \in DOMAIN inflight}
  OBVIOUS
<1> HIDE DEF now, later
<1>6. Cardinality(later) = First(r) + Second(r)
  <2>1. CASE Len(inflight) = 0
    <3>1. DOMAIN inflight = {}
      BY <1>1, <2>1
    <3>2. later = {}
      BY <1>5, <3>1
    <3> QED BY <2>1, <3>2, FS_EmptySet DEF First, Second
  <2>2. CASE Len(inflight) = 1
    <3>1. DOMAIN inflight = {1}
      BY <1>1, <2>2
    <3>2. later = In(1)
      BY <1>5, <3>1
    <3>3. Cardinality(later) = Yields(inflight[1], r)
      BY <1>4, <3>1, <3>2
    <3>4. First(r) = Yields(inflight[1], r) /\ Second(r) = 0
      BY <2>2 DEF First, Second
    <3> QED BY <3>3, <3>4, OwedTypes
  <2>3. CASE Len(inflight) = 2
    <3>1. DOMAIN inflight = {1, 2}
      BY <1>1, <2>3
    <3>2. later = In(1) \cup In(2) /\ In(1) \cap In(2) = {}
      BY <1>5, <3>1
    <3>3. /\ IsFiniteSet(In(1)) /\ Cardinality(In(1)) = Yields(inflight[1], r)
          /\ IsFiniteSet(In(2)) /\ Cardinality(In(2)) = Yields(inflight[2], r)
      BY <1>4, <3>1
    <3> HIDE DEF In
    <3>4. Cardinality(In(1) \cap In(2)) = 0
      BY <3>2, FS_EmptySet
    <3>5. Cardinality(later) = Yields(inflight[1], r) + Yields(inflight[2], r)
      <4>1. Cardinality(In(1) \cup In(2)) = Cardinality(In(1)) + Cardinality(In(2))
                                            - Cardinality(In(1) \cap In(2))
        BY <3>3, FS_Union
      <4> QED BY <3>2, <3>3, <3>4, <4>1, OwedTypes
    <3>6. First(r) = Yields(inflight[1], r) /\ Second(r) = Yields(inflight[2], r)
      BY <2>3 DEF First, Second
    <3> QED BY <3>5, <3>6
  <2>4. Len(inflight) \in {0, 1, 2}
    BY <1>1
  <2> QED BY <2>1, <2>2, <2>3, <2>4
<1> QED BY <1>2, <1>3, <1>6, OwedTypes

(* The invariant implies the property a run checks.                        *)
LEMMA AccountsSuffice ==
  ASSUME Types, Steps, MaxConcurrent <= 2, Async => Accounts
  PROVE  PlaceholdersCountOutputs
<1> SUFFICES ASSUME Accounts, NEW r \in Request
             PROVE  /\ placeholders[r] >= 0
                    /\ status[r] \in Live => placeholders[r] + discard[r] = OutputsToCome(r)
  BY DEF PlaceholdersCountOutputs
<1>1. AccountOf(r)
  BY DEF Accounts
<1> QED BY <1>1, OutputsCounted DEF AccountOf, Live

(* A launched step owes an output for each placeholder added with it.      *)
LEMMA LaunchOwes ==
  ASSUME Types, Steps, MaxConcurrent <= 2, Launch, NEW r
  PROVE  /\ First(r)' + Second(r)' = First(r) + Second(r) +
              (IF \E i \in RowsOf(r) : Samples(batch[i]) THEN 1 ELSE 0)
         /\ First(r) <= First(r)'
         /\ Len(inflight) > 0 => First(r)' = First(r) /\ Len(inflight') >= 2
<1>1. PICK step : /\ inflight' = Append(inflight, step)
                  /\ Yields(step, r) = IF \E i \in RowsOf(r) : Samples(batch[i]) THEN 1 ELSE 0
  BY LaunchedStep
<1>2. Len(inflight) \in Nat /\ Len(inflight) < 2
  <2>1. phase = "launch"
    BY DEF Launch
  <2> QED BY <2>1, RowSequences, ConfigAssumption DEF Types, Steps
<1>3. /\ Len(inflight') = Len(inflight) + 1
      /\ inflight'[Len(inflight) + 1] = step
      /\ \A k \in 1 .. Len(inflight) : inflight'[k] = inflight[k]
  <2>1. PICK A : inflight \in Seq(Seq(AnyRow(A)))
    BY DEF Types, RowsNameRequests
  <2> DEFINE S == Seq(AnyRow(A)) \cup {step}
  <2>2. inflight \in Seq(S) /\ step \in S
    BY <2>1
  <2> HIDE DEF S
  <2> QED BY <1>1, <2>2, AppendProperties
<1>4. First(r)' = IF Len(inflight') < 1 THEN 0 ELSE Yields(inflight'[1], r)
  BY DEF First, Yields
<1>5. Second(r)' = IF Len(inflight') < 2 THEN 0 ELSE Yields(inflight'[2], r)
  BY DEF Second, Yields
<1>6. CASE Len(inflight) = 0
  BY <1>1, <1>3, <1>4, <1>5, <1>6, OwedTypes DEF First, Second
<1>7. CASE Len(inflight) = 1
  <2>1. First(r)' = First(r) /\ Second(r) = 0 /\ Second(r)' = Yields(step, r)
    BY <1>3, <1>4, <1>5, <1>7 DEF First, Second
  <2> QED BY <1>1, <1>3, <1>7, <2>1, OwedTypes
<1>8. Len(inflight) = 0 \/ Len(inflight) = 1
  BY <1>2
<1> QED BY <1>6, <1>7, <1>8

(* Taking the results of the first step moves what is owed up by one.      *)
LEMMA TakeOwes ==
  ASSUME Types, Steps, MaxConcurrent <= 2, TakeResults, NEW r
  PROVE  /\ Yields(todo', r) = First(r) /\ First(r)' = Second(r) /\ Second(r)' = 0
         /\ phase' # "update" => First(r) = 0
<1>1. /\ inflight # << >> /\ inflight' = Tail(inflight) /\ todo' = Head(inflight)
      /\ phase' # "update" => todo' = << >>
  BY DEF TakeResults
<1>2. /\ Len(inflight) \in Nat /\ Len(inflight) <= 2
  BY RowSequences, ConfigAssumption DEF Types, Steps
<1>3. /\ Len(inflight) >= 1 /\ Head(inflight) = inflight[1]
      /\ Len(inflight') = Len(inflight) - 1
      /\ Len(inflight) = 2 => inflight'[1] = inflight[2]
  <2>1. PICK A : inflight \in Seq(Seq(AnyRow(A)))
    BY DEF Types, RowsNameRequests
  <2> DEFINE S == Seq(AnyRow(A))
  <2>2. inflight \in Seq(S)
    BY <2>1
  <2> HIDE DEF S
  <2> QED BY <1>1, <2>2
<1>4. First(r)' = IF Len(inflight') < 1 THEN 0 ELSE Yields(inflight'[1], r)
  BY DEF First, Yields
<1>5. Second(r)' = IF Len(inflight') < 2 THEN 0 ELSE Yields(inflight'[2], r)
  BY DEF Second, Yields
<1>6. Yields(todo', r) = First(r)
  BY <1>1, <1>3 DEF First
<1>7. First(r)' = Second(r) /\ Second(r)' = 0
  BY <1>2, <1>3, <1>4, <1>5 DEF Second
<1>8. phase' # "update" => First(r) = 0
  BY <1>1, <1>6, OwedTypes
<1> QED BY <1>6, <1>7, <1>8

(* A step that counts nothing keeps Accounts.                              *)
LEMMA AccountsKept ==
  ASSUME Accounts, UNCHANGED <<placeholders, discard, todo, inflight>>,
         \A r \in Request :
           /\ status'[r] = "none" => status[r] = "none"
           /\ status'[r] # "finished" => status[r] # "finished"
           /\ status'[r] = "running" => \/ phase' \in {"waiting", "launch"}
                                        \/ /\ status[r] = "running"
                                           /\ phase \notin {"waiting", "launch", "update"}
  PROVE  Accounts'
<1> SUFFICES ASSUME NEW r \in Request PROVE AccountOf(r)'
  BY DEF Accounts
<1>1. First(r)' = First(r) /\ Second(r)' = Second(r) /\ Yields(todo, r)' = Yields(todo, r)
  BY DEF First, Second, Yields
<1>2. AccountOf(r)
  BY DEF Accounts
<1> QED BY <1>1, <1>2 DEF AccountOf

(* reset_prefix_cache(reset_running_requests=True): no running request has *)
(* a count that the assignment would overwrite.                            *)
LEMMA ResetAccounts ==
  ASSUME Types, Queues, Steps, MaxConcurrent <= 2, Accounts, ResetPreempt
  PROVE  Accounts'
<1> DEFINE last == Last(running)
<1>1. /\ phase = "reset" /\ phase' = phase /\ UNCHANGED <<todo, inflight>>
      /\ status' = [status EXCEPT ![last] = "preempted"]
      /\ discard' = [discard EXCEPT ![last] = placeholders[last]]
      /\ placeholders' = [placeholders EXCEPT ![last] = 0]
  BY DEF ResetPreempt, PreemptLast, call, worker
<1>2. last \in Request /\ last \in ToSet(running) /\ status[last] = "running"
  <2>1. running \in Seq(Request) /\ running # << >>
    BY DEF ResetPreempt, Types, ControlTypes
  <2> QED BY <2>1, FrontElements DEF Queues
<1> HIDE DEF last
<1>3. /\ status \in [Request -> {"none", "waiting", "preempted", "running", "finished"}]
      /\ placeholders \in [Request -> Int] /\ discard \in [Request -> Int]
  BY DEF Types, ControlTypes, Accounts
<1>4. todo = << >> /\ Len(inflight) \in Nat /\ Len(inflight) < 2
  BY <1>1, RowSequences, ConfigAssumption DEF Types, Steps
<1>5. ASSUME NEW r \in Request PROVE AccountOf(r)'
  <2>1. First(r)' = First(r) /\ Second(r)' = Second(r) /\ Yields(todo, r)' = Yields(todo, r)
    BY <1>1 DEF First, Second, Yields
  <2>2. AccountOf(r) /\ Second(r) = 0 /\ Yields(todo, r) = 0
    BY <1>4, OwedTypes DEF Accounts, Second
  <2>3. CASE r = last
    <3>1. placeholders[r] = First(r) /\ discard[r] = 0
      BY <1>1, <1>2, <1>3, <1>4, <2>2, <2>3, OwedTypes DEF AccountOf
    <3>2. placeholders'[r] = 0 /\ discard'[r] = First(r) /\ status'[r] = "preempted"
      BY <1>1, <1>3, <2>3, <3>1
    <3> QED BY <1>1, <1>4, <2>1, <2>2, <3>2, OwedTypes DEF AccountOf
  <2>4. CASE r # last
    <3>1. placeholders'[r] = placeholders[r] /\ discard'[r] = discard[r] /\ status'[r] = status[r]
      BY <1>1, <1>3, <2>4
    <3> QED BY <1>1, <2>1, <2>2, <3>1 DEF AccountOf
  <2> QED BY <2>3, <2>4
<1> QED BY <1>1, <1>2, <1>3, <1>5 DEF Accounts

(* _update_after_schedule adds a placeholder for each output the launched  *)
(* step owes.                                                              *)
LEMMA LaunchAccounts ==
  ASSUME Types, Queues, Scheduled, Steps, MaxConcurrent <= 2, Async, Accounts, Launch
  PROVE  Accounts'
<1>1. /\ phase = "launch" /\ phase' = "idle" /\ UNCHANGED <<status, discard, todo>>
      /\ placeholders' = [r \in Request |->
           IF \E i \in RowsOf(r) : Samples(batch[i]) THEN placeholders[r] + 1
           ELSE placeholders[r]]
  BY DEF Launch
<1>2. todo = << >> /\ Len(inflight) \in Nat
  BY <1>1, RowSequences DEF Types, Steps
<1>3. ASSUME NEW r \in Request PROVE AccountOf(r)'
  <2> DEFINE more == IF \E i \in RowsOf(r) : Samples(batch[i]) THEN 1 ELSE 0
  <2>1. /\ First(r)' + Second(r)' = First(r) + Second(r) + more
        /\ First(r) <= First(r)'
        /\ Len(inflight) > 0 => First(r)' = First(r) /\ Len(inflight') >= 2
    BY LaunchOwes
  <2>2. status[r] = "none" => more = 0
    BY DEF RowsOf, Scheduled, RowIsHeld, Queues
  <2>3. /\ placeholders'[r] = placeholders[r] + more /\ discard'[r] = discard[r]
        /\ status'[r] = status[r] /\ placeholders[r] \in Int /\ discard[r] \in Int
    BY <1>1 DEF Types, ControlTypes, Accounts
  <2>4. AccountOf(r) /\ Yields(todo, r)' = Yields(todo, r)
    BY <1>1 DEF Accounts, Yields
  <2>5. more \in {0, 1} /\ First(r)' \in {0, 1} /\ Second(r)' \in {0, 1}
    BY OwedTypes DEF First, Second, Yields
  <2>6. Len(inflight) = 0 => First(r) = 0
    BY DEF First
  <2>7. status[r] = "running" => status[r] # "finished"
    OBVIOUS
  <2> HIDE DEF more
  <2> QED BY <1>1, <1>2, <2>1, <2>2, <2>3, <2>4, <2>5, <2>6, <2>7, OwedTypes DEF AccountOf
<1> QED BY <1>1, <1>3 DEF Accounts

(* The results taken are those of the step the stale outputs are in.       *)
LEMMA TakeAccounts ==
  ASSUME Types, Steps, MaxConcurrent <= 2, Accounts, TakeResults
  PROVE  Accounts'
<1>1. /\ phase = "idle" /\ UNCHANGED <<status, placeholders, discard>>
      /\ phase' \in {"idle", "update"}
  BY DEF TakeResults, request
<1>2. todo = << >>
  BY <1>1 DEF Steps
<1>3. ASSUME NEW r \in Request PROVE AccountOf(r)'
  <2>1. /\ Yields(todo', r) = First(r) /\ First(r)' = Second(r) /\ Second(r)' = 0
        /\ phase' # "update" => First(r) = 0
    BY TakeOwes
  <2>2. AccountOf(r) /\ placeholders[r] \in Int /\ discard[r] \in Int
    BY DEF Accounts, Types, ControlTypes
  <2>3. Yields(todo, r)' = Yields(todo', r)
    BY DEF Yields
  <2>4. todo' = << >> => Yields(todo', r) = 0
    BY OwedTypes
  <2>5. Yields(todo, r) = 0
    BY <1>2, OwedTypes
  <2> QED BY <1>1, <1>2, <2>1, <2>2, <2>3, <2>4, <2>5, OwedTypes DEF AccountOf
<1> QED BY <1>1, <1>3 DEF Accounts

(* The next row of the step at hand is taken off what the step owes.       *)
LEMMA RowOwes ==
  ASSUME Types, Steps, phase = "update", UNCHANGED <<batch, inflight>>, RowDone
  PROVE  /\ NextRow.req \in Request
         /\ todo # << >> /\ phase' \in {"idle", "update"}
         /\ phase' = "idle" => todo' = << >>
         /\ \A r : /\ First(r)' = First(r) /\ Second(r)' = Second(r)
                   /\ Yields(todo, r)' =
                        IF NextRow.req = r THEN 0 ELSE Yields(todo, r)
                   /\ NextRow.req = r =>
                        Yields(todo, r) = IF NextRow.samples THEN 1 ELSE 0
<1>1. NextRow.req \in Request /\ todo # << >> /\ phase' \in {"idle", "update"}
  BY RowTaken DEF Types, RowsNameRequests
<1>2. PICK A : todo \in Seq(AnyRow(A))
  BY DEF Types, RowsNameRequests
<1> DEFINE S == AnyRow(A)
<1>3. todo \in Seq(S)
  BY <1>2
<1> HIDE DEF S
<1>4. todo' = Tail(todo) /\ (phase' = "idle" => Len(todo) = 1)
  BY DEF RowDone
<1>5. phase' = "idle" => todo' = << >>
  <2>1. Tail(todo) \in Seq(S) /\ Len(Tail(todo)) = Len(todo) - 1
    BY <1>1, <1>3, TailElements
  <2> QED BY <1>4, <2>1, EmptySeq
<1>6. \A r : /\ Yields(Tail(todo), r) = IF Head(todo).req = r THEN 0 ELSE Yields(todo, r)
             /\ Head(todo).req = r =>
                  Yields(todo, r) = IF Head(todo).samples THEN 1 ELSE 0
  BY <1>1, <1>3, FirstRowTaken DEF Steps
<1>7. \A r : First(r)' = First(r) /\ Second(r)' = Second(r)
  BY DEF First, Second, Yields
<1>8. \A r : Yields(todo, r)' = Yields(Tail(todo), r)
  BY <1>4 DEF Yields
<1> QED BY <1>1, <1>5, <1>6, <1>7, <1>8 DEF NextRow

(* A row that yields no token was not counted; one that does is discarded  *)
(* or taken off the placeholders, and the rows of other requests count on. *)
LEMMA RowAccounts ==
  ASSUME Types, Steps, MaxConcurrent <= 2, Async, Accounts,
         IgnoreRow \/ DiscardRow \/ AppendToken
  PROVE  Accounts'
<1>1. phase = "update" /\ UNCHANGED <<batch, inflight>> /\ RowDone
  BY DEF IgnoreRow, DiscardRow, AppendToken, call, worker
<1> DEFINE q == NextRow.req
<1>2. /\ q \in Request /\ todo # << >> /\ phase' \in {"idle", "update"}
      /\ phase' = "idle" => todo' = << >>
      /\ \A r : /\ First(r)' = First(r) /\ Second(r)' = Second(r)
                /\ Yields(todo, r)' = IF q = r THEN 0 ELSE Yields(todo, r)
                /\ q = r => Yields(todo, r) = IF NextRow.samples THEN 1 ELSE 0
  BY <1>1, RowOwes
<1>3. /\ status \in [Request -> {"none", "waiting", "preempted", "running", "finished"}]
      /\ placeholders \in [Request -> Int] /\ discard \in [Request -> Int]
  BY DEF Types, ControlTypes, Accounts
<1>4. /\ \A r \in Request \ {q} : /\ placeholders'[r] = placeholders[r]
                                  /\ discard'[r] = discard[r] /\ status'[r] = status[r]
      /\ \/ /\ UNCHANGED <<placeholders, discard, status>>
            /\ NextRow.samples => status[q] \in {"none", "finished"}
         \/ /\ NextRow.samples /\ discard[q] > 0 /\ discard' = [discard EXCEPT ![q] = @ - 1]
            /\ UNCHANGED <<placeholders, status>>
         \/ /\ NextRow.samples /\ discard[q] = 0 /\ UNCHANGED discard
            /\ status[q] \in {"waiting", "preempted", "running"}
            /\ placeholders' = [placeholders EXCEPT ![q] = @ - 1]
            /\ status' = status \/ status' = [status EXCEPT ![q] = "finished"]
      /\ discard' \in [Request -> Int]
  <2>1. CASE IgnoreRow
    BY <1>2, <1>3, <2>1 DEF IgnoreRow, YieldsToken, request
  <2>2. CASE DiscardRow
    BY <1>2, <1>3, <2>2 DEF DiscardRow, YieldsToken
  <2>3. CASE AppendToken
    <3>1. /\ NextRow.samples /\ discard[q] = 0 /\ UNCHANGED discard
          /\ status[q] \in {"waiting", "preempted", "running"}
      BY <2>3 DEF AppendToken, YieldsToken
    <3>2. placeholders' = [placeholders EXCEPT ![q] = @ - 1]
      BY <2>3 DEF AppendToken
    <3>3. status' = status \/ status' = [status EXCEPT ![q] = "finished"]
      BY <2>3 DEF AppendToken, Stop
    <3> HIDE DEF q
    <3> QED BY <1>2, <1>3, <3>1, <3>2, <3>3
  <2> QED BY <2>1, <2>2, <2>3
<1> HIDE DEF q
<1>5. ASSUME NEW r \in Request PROVE AccountOf(r)'
  <2>1. /\ AccountOf(r) /\ placeholders[r] \in Int /\ discard[r] \in Int
    BY <1>3 DEF Accounts
  <2>2. CASE r # q
    <3>1. /\ placeholders'[r] = placeholders[r] /\ discard'[r] = discard[r]
          /\ status'[r] = status[r] /\ Yields(todo, r)' = Yields(todo, r)
          /\ First(r)' = First(r) /\ Second(r)' = Second(r)
      BY <1>2, <1>4, <2>2
    <3>2. todo' = << >> => Yields(todo, r)' = 0
      BY OwedTypes DEF Yields
    <3>3. status[r] # "finished" => discard[r] <= Yields(todo, r)
      BY <1>2, <2>1 DEF AccountOf
    <3> QED BY <1>1, <1>2, <2>1, <3>1, <3>2, <3>3, OwedTypes DEF AccountOf
  <2>3. CASE r = q
    <3>1. /\ Yields(todo, r)' = 0 /\ First(r)' = First(r) /\ Second(r)' = Second(r)
          /\ Yields(todo, r) = IF NextRow.samples THEN 1 ELSE 0
      BY <1>2, <2>3
    <3>2. status[r] # "finished" => discard[r] <= Yields(todo, r)
      BY <1>2, <2>1 DEF AccountOf
    <3>3. CASE /\ UNCHANGED <<placeholders, discard, status>>
               /\ NextRow.samples => status[q] \in {"none", "finished"}
      BY <1>1, <1>2, <2>1, <2>3, <3>1, <3>2, <3>3, OwedTypes DEF AccountOf
    <3>4. CASE /\ NextRow.samples /\ discard[q] > 0 /\ discard' = [discard EXCEPT ![q] = @ - 1]
               /\ UNCHANGED <<placeholders, status>>
      <4>1. discard'[r] = discard[r] - 1
        BY <1>3, <2>3, <3>4
      <4> QED BY <1>1, <1>2, <2>1, <2>3, <3>1, <3>2, <3>4, <4>1, OwedTypes DEF AccountOf
    <3>5. CASE /\ NextRow.samples /\ discard[q] = 0 /\ UNCHANGED discard
               /\ status[q] \in {"waiting", "preempted", "running"}
               /\ placeholders' = [placeholders EXCEPT ![q] = @ - 1]
               /\ status' = status \/ status' = [status EXCEPT ![q] = "finished"]
      <4>1. /\ placeholders'[r] = placeholders[r] - 1
            /\ status'[r] \in {status[r], "finished"}
        BY <1>3, <2>3, <3>5
      <4> QED BY <1>1, <1>2, <2>1, <2>3, <3>1, <3>2, <3>5, <4>1, OwedTypes DEF AccountOf
    <3> QED BY <1>4, <3>3, <3>4, <3>5
  <2> QED BY <2>2, <2>3
<1> QED BY <1>4, <1>5 DEF Accounts

(* Every step keeps Accounts: the inductive step of the invariant.         *)
LEMMA NextAccounts ==
  ASSUME MaxConcurrent <= 2, Async, Types, Queues, Scheduled, Steps, Accounts, [Next]_vars
  PROVE  Accounts'
<1> USE DEF request, queues, call, worker
<1>0. status \in [Request -> {"none", "waiting", "preempted", "running", "finished"}]
  BY DEF Types, ControlTypes
<1>1. CASE UNCHANGED vars \/ Idle
  <2>1. UNCHANGED <<status, placeholders, discard, todo, inflight, phase>>
    BY <1>1 DEF vars, Idle
  <2> QED BY <2>1 DEF Accounts, AccountOf, First, Second, Yields
<1>2. ASSUME NEW r \in Request, AddRequest(r) \/ Abort(r) PROVE Accounts'
  <2>1. /\ UNCHANGED <<placeholders, discard, todo, inflight>> /\ phase = "idle"
        /\ \/ status[r] = "none" /\ status' = [status EXCEPT ![r] = "waiting"]
           \/ status' = [status EXCEPT ![r] = "finished"]
    BY <1>2 DEF AddRequest, Abort, BetweenSteps
  <2> QED BY <1>0, <2>1, AccountsKept
<1>3. CASE ResetPreempt
  BY <1>3, ResetAccounts
<1>4. CASE PreemptForSlots
  <2>1. /\ UNCHANGED <<placeholders, discard, todo, inflight>> /\ phase = "running"
        /\ status' = [status EXCEPT ![Last(running)] = "preempted"]
    BY <1>4 DEF PreemptForSlots, PreemptLast, InRunningLoop
  <2>2. Last(running) \in Request /\ Last(running) \in ToSet(running)
    <3>1. running \in Seq(Request) /\ running # << >>
      BY <1>4, CandidateType DEF PreemptForSlots, Types, ControlTypes
    <3> QED BY <3>1, FrontElements
  <2>3. status[Last(running)] = "running"
    BY <2>2 DEF Queues
  <2> QED BY <1>0, <2>1, <2>3, AccountsKept
<1>5. CASE AdmitWaiting
  <2>1. /\ UNCHANGED <<placeholders, discard, todo, inflight>>
        /\ phase = "waiting" /\ phase' = phase
        /\ status' = [status EXCEPT ![Head(waiting)] = "running"]
        /\ waiting # << >>
    BY <1>5 DEF AdmitWaiting, InWaitingLoop
  <2>2. status[Head(waiting)] # "finished"
    BY <2>1, TailElements DEF Queues, Types, ControlTypes
  <2> QED BY <1>0, <2>1, <2>2, AccountsKept
<1>6. CASE Launch
  BY <1>6, LaunchAccounts
<1>7. CASE TakeResults
  BY <1>7, TakeAccounts
<1>8. CASE IgnoreRow \/ DiscardRow \/ AppendToken
  BY <1>8, RowAccounts
<1>9. CASE ResetPrefixCache \/ ForceReset \/ ResetEnd \/ BeginSchedule \/ SkipRunning
           \/ ScheduleRunning
  <2>1. /\ UNCHANGED <<status, placeholders, discard, todo, inflight>>
        /\ phase \in {"idle", "reset", "running"}
    BY <1>9 DEF ResetPrefixCache, ForceReset, ResetEnd, BeginSchedule, BetweenSteps,
                SkipRunning, ScheduleRunning, InRunningLoop
  <2> QED BY <2>1, AccountsKept
<1>10. CASE EndRunning \/ RefuseWaiting \/ EndWaiting
  <2>1. /\ UNCHANGED <<status, placeholders, discard, todo, inflight>>
        /\ phase' \in {"waiting", "launch"}
    BY <1>10 DEF EndRunning, RefuseWaiting, EndWaiting
  <2> QED BY <2>1, AccountsKept
<1> QED
  BY <1>1, <1>2, <1>3, <1>4, <1>5, <1>6, <1>7, <1>8, <1>9, <1>10 DEF Next, Client, Engine

(* At most max_concurrent_batches steps are in flight, with a row for a    *)
(* request at most in each.                                                *)
LEMMA StepsInvariant == Spec => []Steps
<1>1. Init => Steps
  BY ConfigAssumption DEF Init, Steps, DistinctRows
<1>2. Types /\ Queues /\ Scheduled /\ Steps /\ [Next]_vars => Steps'
  BY NextSteps
<1> QED
  BY <1>1, <1>2, TypesInvariant, QueuesInvariant, ScheduledInvariant, PTL DEF Spec

(* The strengthening of PlaceholdersCountOutputs, always.                  *)
LEMMA AccountsInvariant ==
  ASSUME MaxConcurrent <= 2, Async
  PROVE  Spec => []Accounts
<1>1. Init => Accounts
  <2> SUFFICES ASSUME Init PROVE Accounts
    OBVIOUS
  <2>1. /\ inflight = << >> /\ todo = << >> /\ placeholders = [r \in Request |-> 0]
        /\ discard = [r \in Request |-> 0] /\ status = [r \in Request |-> "none"]
    BY DEF Init
  <2> QED BY <2>1, OwedTypes DEF Accounts, AccountOf, First, Second
<1>2. Types /\ Queues /\ Scheduled /\ Steps /\ Accounts /\ [Next]_vars => Accounts'
  BY NextAccounts
<1> QED
  BY <1>1, <1>2, TypesInvariant, QueuesInvariant, ScheduledInvariant, StepsInvariant,
     PTL DEF Spec

(* async_scheduler.py's assertion that num_output_placeholders is not      *)
(* negative, and that no stale token is kept and no good one discarded,    *)
(* after any number of forced resets: without pipeline parallelism, that   *)
(* is with two batches at most.  (With three, a second reset can overwrite *)
(* a count of stale outputs that are still to come.)                       *)
THEOREM PlaceholdersCountOutputsInvariant ==
  ASSUME Async => MaxConcurrent <= 2
  PROVE  Spec => []PlaceholdersCountOutputs
<1>1. CASE Async
  <2>1. Types /\ Steps /\ Accounts => PlaceholdersCountOutputs
    BY <1>1, AccountsSuffice
  <2>2. Spec => []Accounts
    BY <1>1, AccountsInvariant
  <2> QED BY <2>1, <2>2, TypesInvariant, StepsInvariant, PTL
<1>2. CASE ~ Async
  <2>1. PlaceholdersCountOutputs
    BY <1>2 DEF PlaceholdersCountOutputs
  <2> QED BY <2>1, PTL
<1> QED BY <1>1, <1>2
=============================================================================
