------------------------- MODULE SpanExecutionProofs -------------------------
(***************************************************************************)
(* Reuse in spans, for any requests, prompts, plans and block sizes, any   *)
(* chunking of the prompts and any batches: no span attends to a slot      *)
(* that was not written or to a copy that is to be repaired, the rows that *)
(* are sampled from are computed, and each row of a step is computed or    *)
(* keeps the copy it is to reuse.                                          *)
(***************************************************************************)
EXTENDS SpanExecution, QueueLemmas, TLAPS

(* The invariant, in parts.                                                 *)
RowType == [req : Request, start : Nat, count : Nat \ {0}]

Busy == {"add", "failed", "execute"}
OnBatch == {batch[i].req : i \in 1 .. Len(batch)}

(* The queues and the requests that are new to the worker.                  *)
Queues ==
  /\ waiting \in Seq(Request) /\ running \in Seq(Request) /\ new \in Seq(Request)
  /\ IsInjective(waiting) /\ IsInjective(running) /\ IsInjective(new)
  /\ ToSet(running) \cap ToSet(waiting) = {}
  /\ phase \in {"idle", "admit", "launch"} \cup Busy
  /\ phase \in {"idle", "launch", "execute"} => new = << >>
  /\ phase # "idle" => ToSet(new) \subseteq OnBatch

(* The rows of a step continue their requests, each of them once.           *)
RowFits(row) ==
  /\ row.req \in ToSet(running) /\ row.start + row.count <= length[row.req]
  /\ computed[row.req] = IF phase \in Busy THEN row.start + row.count ELSE row.start

GoodRows ==
  /\ batch \in Seq(RowType) /\ CountOf(batch) <= Budget
  /\ \A i, j \in 1 .. Len(batch) : batch[i].req = batch[j].req => i = j
  /\ phase # "idle" => \A i \in 1 .. Len(batch) : RowFits(batch[i])

(* A request that runs has tokens to compute, but for those of the step.    *)
Lengths ==
  /\ length \in [Request -> Nat] /\ computed \in [Request -> Nat]
  /\ \A r \in Request :
       /\ computed[r] <= length[r] /\ Prompt[r] <= length[r]
       /\ length[r] <= Prompt[r] + Outputs[r]
  /\ \A r \in ToSet(running) \cup ToSet(waiting) : length[r] < Prompt[r] + Outputs[r]
  /\ \A r \in ToSet(running) :
       phase \notin Busy \/ r \notin OnBatch => computed[r] < length[r]

(* What the plans and the worker's tables may contain; a repaired block is  *)
(* never copied, and a plan begins where its request does.                  *)
Tables ==
  /\ plan \in [Request -> SUBSET Nat] /\ repairs \in [Request -> SUBSET Nat]
  /\ reused \in [Request -> SUBSET Token] /\ copied \in [Request -> SUBSET Token]
  /\ written \in [Request -> SUBSET Token]
  /\ \A r \in Request :
       /\ plan[r] \subseteq Candidates[r] /\ repairs[r] \subseteq Affected[r]
       /\ written[r] \cap copied[r] = {} /\ copied[r] \cap TokensOf(repairs[r]) = {}
  /\ metrics \in SUBSET Request
  /\ \A r \in metrics : phase \in Busy /\ r \in OnBatch
  /\ phase # "execute" => hidden = {}
  /\ phase # "idle" => \A i \in 1 .. Len(batch) :
       LET row == batch[i] IN
       row.req \in ToSet(new) =>
         /\ \A b \in plan[row.req] : row.start <= b * BlockSize
         /\ phase # "admit" => written[row.req] = {t \in Token : t < row.start}

(* Where the KV of a request is: all of it up to n, and what is to be       *)
(* reused from n on.                                                        *)
Filled(r, n) == \A t \in Token : t < n => t \in written[r] \cup copied[r]
Later(r, n) == \A t \in reused[r] : t >= n => t \in copied[r]
Ready(r, n) == Filled(r, n) /\ Later(r, n)

Present ==
  /\ phase \notin Busy => \A r \in ToSet(running) \ ToSet(new) : Ready(r, computed[r])
  /\ phase \in Busy => \A r \in ToSet(running) \ OnBatch : Ready(r, computed[r])
  /\ phase \in Busy => \A i \in 1 .. Len(batch) :
       LET row == batch[i] IN
       /\ Filled(row.req, row.start)
       /\ Later(row.req, IF phase = "execute" THEN computed[row.req] ELSE row.start)

(* While spans run: a row has run, is to run, or keeps a copy.              *)
InSpan(k) == \E span \in spans : k \in span[1] .. span[2]

Executing ==
  phase = "execute" =>
    /\ \A span \in spans : /\ span \in Int \X Int
                           /\ span[1] .. span[2] \subseteq BatchRows
    /\ hidden \subseteq BatchRows
    /\ \A k \in RequiredRows : k \in hidden \/ InSpan(k)
    /\ \A i \in 1 .. Len(batch) : \A k \in RowsOf(i) :
         IF k \in hidden THEN TokenAt(i, k) \in written[batch[i].req]
         ELSE \/ InSpan(k)
              \/ TokenAt(i, k) \in copied[batch[i].req] \cap reused[batch[i].req]

SpanInv == Queues /\ GoodRows /\ Lengths /\ Tables /\ Present /\ Executing

-----------------------------------------------------------------------------
(* The rows of a batch.                                                     *)

(* Rows count their tokens.                                                 *)
LEMMA RowsCount == Counted(RowType) /\ \A rows : CountOf(rows) = TotalOf(rows)
<1>1. Counted(RowType)
  BY DEF Counted, RowType
<1>2. \A rows : CountOf(rows) = TotalOf(rows)
  BY DEF CountOf, TotalOf
<1> QED BY <1>1, <1>2

(* The tokens of the rows together are a number.                            *)
LEMMA CountTyped == \A rows \in Seq(RowType) : CountOf(rows) \in Nat
<1> TAKE rows \in Seq(RowType)
<1>1. PICK n \in Nat : n = Len(rows)
  OBVIOUS
<1>2. PICK f : RunningSum(n, Counts(rows), f) /\ TotalOf(rows) = f[n]
  BY <1>1, RowsCount, TotalRuns
<1>3. f[n] \in Nat
  BY <1>2 DEF RunningSum
<1> QED BY <1>2, <1>3, RowsCount

(* A row that comes adds its tokens to the step's.                          *)
LEMMA CountAppended ==
  ASSUME NEW rows \in Seq(RowType), NEW row \in RowType
  PROVE  CountOf(Append(rows, row)) = CountOf(rows) + row.count
BY RowsCount, TotalAppended

(* A row continues its request, within what is left and the room there is.  *)
LEMMA RowContinues ==
  ASSUME NEW r \in Request, NEW start \in Nat, NEW room \in Nat \ {0},
         length[r] \in Nat, start < length[r]
  PROVE  LET row == Row(r, start, room)
         IN  /\ row \in RowType /\ row.count <= room
             /\ row.req = r /\ row.start = start /\ start + row.count <= length[r]
<1> DEFINE left == length[r] - start
           count == IF left < room THEN left ELSE room
<1>1. left \in Nat \ {0} /\ count \in Nat \ {0} /\ count <= room /\ start + count <= length[r]
  OBVIOUS
<1> HIDE DEF count
<1>2. Row(r, start, room) = [req |-> r, start |-> start, count |-> count]
  BY DEF Row, count
<1> QED BY <1>1, <1>2 DEF RowType

(* A row more keeps the rows within the budget.                             *)
LEMMA RowAdded ==
  ASSUME NEW rows \in Seq(RowType), CountOf(rows) < Budget,
         NEW r \in Request, NEW start \in Nat, length[r] \in Nat, start < length[r]
  PROVE  LET row == Row(r, start, Budget - CountOf(rows))
             longer == Append(rows, row)
         IN  /\ row \in RowType /\ longer \in Seq(RowType) /\ CountOf(longer) <= Budget
             /\ row.req = r /\ row.start = start /\ start + row.count <= length[r]
<1> DEFINE room == Budget - CountOf(rows)
           row == Row(r, start, room)
           longer == Append(rows, row)
<1>1. CountOf(rows) \in Nat /\ Budget \in Nat
  BY CountTyped, PromptAssumption
<1>2. room \in Nat \ {0}
  BY <1>1
<1>3. /\ row \in RowType /\ row.count <= room
      /\ row.req = r /\ row.start = start /\ start + row.count <= length[r]
  <2> HIDE DEF room
  <2> QED BY <1>2, RowContinues
<1> HIDE DEF row
<1>4. row.count \in Nat
  BY <1>3 DEF RowType
<1>5. longer \in Seq(RowType) /\ CountOf(longer) = CountOf(rows) + row.count
  BY <1>3, CountAppended
<1> HIDE DEF longer
<1>6. CountOf(longer) <= Budget
  BY <1>1, <1>3, <1>4, <1>5
<1> QED BY <1>3, <1>5, <1>6 DEF longer, row

Continues(requests, row) ==
  /\ row.req \in ToSet(requests) /\ row.start = computed[row.req]
  /\ row.start + row.count <= length[row.req]

(* The rows of the running requests: one after the other, each of them at   *)
(* most once, until the budget is used up.                                  *)
LEMMA RowsContinue ==
  ASSUME NEW requests \in Seq(Request), IsInjective(requests),
         computed \in [Request -> Nat], length \in [Request -> Nat],
         \A r \in ToSet(requests) : computed[r] < length[r]
  PROVE  LET rows == Rows(requests)
         IN  /\ rows \in Seq(RowType) /\ CountOf(rows) <= Budget
             /\ \A i, j \in 1 .. Len(rows) : rows[i].req = rows[j].req => i = j
             /\ \A i \in 1 .. Len(rows) : Continues(requests, rows[i])
<1> DEFINE n == Len(requests)
           Good(rows) == \A i \in 1 .. Len(rows) : Continues(requests, rows[i])
           U == {rows \in Seq(RowType) : CountOf(rows) <= Budget /\ Good(rows)}
           base == << >>
           More(rows, r) == IF CountOf(rows) = Budget THEN rows
                            ELSE Append(rows, Row(r, computed[r], Budget - CountOf(rows)))
           step == [i \in 1 .. n |-> [rows \in U |-> More(rows, requests[i])]]
           Eq(f) == f = [s \in SUBSET (DOMAIN requests) |->
                           IF s = {} THEN << >>
                           ELSE More(f[s \ {Max(s)}], requests[Max(s)])]
           iter == CHOOSE f : Eq(f)
<1>1. n \in Nat /\ DOMAIN requests = 1 .. n
      /\ \A i \in 1 .. n : requests[i] \in Request /\ requests[i] \in ToSet(requests)
  BY DEF ToSet
<1>2. Rows(requests) = iter[DOMAIN requests]
  BY DEF Rows, FoldLeft, MapThenFoldSet
<1>3. base \in U
  <2>1. CountOf(base) = 0 /\ Budget \in Nat
    BY RowsCount, TotalOfNone, PromptAssumption
  <2> QED BY <2>1
<1>4. ASSUME NEW rows \in U, NEW r \in Request, r \in ToSet(requests), CountOf(rows) # Budget
      PROVE  LET row == Row(r, computed[r], Budget - CountOf(rows))
             IN  More(rows, r) = Append(rows, row) /\ row \in RowType
                 /\ row.req = r /\ More(rows, r) \in U
  <2> DEFINE row == Row(r, computed[r], Budget - CountOf(rows))
             longer == Append(rows, row)
  <2>1. rows \in Seq(RowType) /\ CountOf(rows) < Budget
    <3>1. rows \in Seq(RowType) /\ CountOf(rows) <= Budget /\ Budget \in Nat
      BY PromptAssumption
    <3>2. CountOf(rows) \in Nat
      BY <3>1, CountTyped
    <3> QED BY <1>4, <3>1, <3>2
  <2>2. computed[r] \in Nat /\ length[r] \in Nat /\ computed[r] < length[r]
    BY <1>4
  <2>3. /\ row \in RowType /\ longer \in Seq(RowType) /\ CountOf(longer) <= Budget
        /\ row.req = r /\ row.start = computed[r] /\ computed[r] + row.count <= length[r]
    BY <2>1, <2>2, RowAdded
  <2> HIDE DEF row
  <2>4. Continues(requests, row)
    BY <1>4, <2>3 DEF Continues
  <2>5. Good(rows)
    OBVIOUS
  <2>6. Good(longer)
    <3> SUFFICES ASSUME NEW i \in 1 .. Len(longer) PROVE Continues(requests, longer[i])
      OBVIOUS
    <3>1. /\ Len(longer) = Len(rows) + 1 /\ Len(rows) \in Nat
          /\ longer[Len(rows) + 1] = row /\ \A k \in 1 .. Len(rows) : longer[k] = rows[k]
      BY <2>1, <2>3, AppendProperties
    <3>2. CASE i = Len(rows) + 1
      BY <2>4, <3>1, <3>2
    <3>3. CASE i # Len(rows) + 1
      <4>1. i \in 1 .. Len(rows)
        BY <3>1, <3>3
      <4> QED BY <2>5, <3>1, <4>1
    <3> QED BY <3>2, <3>3
  <2> HIDE DEF longer, Good
  <2>7. longer \in U
    BY <2>3, <2>6
  <2>8. More(rows, r) = longer
    BY <1>4 DEF longer, row
  <2> QED BY <2>3, <2>7, <2>8 DEF longer, row
<1>5. ASSUME NEW rows \in U, NEW r \in Request, r \in ToSet(requests)
      PROVE  More(rows, r) \in U
  BY <1>4, <1>5
<1> HIDE DEF n, U, base, More
<1>6. Eq(iter)
  <2>1. step \in [1 .. n -> [U -> U]]
    BY <1>1, <1>5
  <2> HIDE DEF step
  <2>2. HasRecursion(n, U, base, step)
    BY <1>1, <1>3, <2>1, FoldDefined
  <2>3. PICK h \in [SUBSET (1 .. n) -> U] : Recursion(n, base, step, h)
    BY <2>2 DEF HasRecursion
  <2>4. ASSUME NEW s \in SUBSET (1 .. n)
        PROVE  h[s] = IF s = {} THEN << >> ELSE More(h[s \ {Max(s)}], requests[Max(s)])
    <3>1. CASE s = {}
      BY <2>3, <3>1 DEF Recursion, base
    <3>2. CASE s # {}
      <4>1. Max(s) \in 1 .. n
        BY <1>1, <3>2, MaxPlace
      <4>2. s \ {Max(s)} \in SUBSET (1 .. n)
        OBVIOUS
      <4>3. h[s \ {Max(s)}] \in U
        BY <2>3, <4>2
      <4>4. h[s] = step[Max(s)][h[s \ {Max(s)}]]
        BY <2>3, <3>2 DEF Recursion
      <4> QED BY <3>2, <4>1, <4>3, <4>4 DEF step
    <3> QED BY <3>1, <3>2
  <2>5. h = [s \in SUBSET (DOMAIN requests) |-> h[s]]
    BY <1>1, <2>3
  <2>6. Eq(h)
    BY <1>1, <2>4, <2>5
  <2> HIDE DEF Eq
  <2> QED BY <2>6
<1> HIDE DEF iter
<1> DEFINE Along(k, rows) ==
             /\ Len(rows) <= k /\ \A i \in 1 .. Len(rows) : rows[i].req = requests[i]
             /\ Len(rows) = k \/ CountOf(rows) = Budget
<1>7. iter[1 .. 0] = << >>
  BY <1>1, <1>6
<1> DEFINE T == {k \in 0 .. n : iter[1 .. k] \in U /\ Along(k, iter[1 .. k])}
<1>8. 0 \in T
  <2>1. iter[1 .. 0] \in U /\ Along(0, iter[1 .. 0])
    BY <1>3, <1>7 DEF base
  <2> QED BY <1>1, <2>1
<1>9. ASSUME NEW k \in 0 .. n, k < n, k \in T
      PROVE  k + 1 \in T
  <2> DEFINE m == k + 1
             rows == iter[1 .. k]
             longer == iter[1 .. m]
  <2>1. m \in 1 .. n /\ m \in 0 .. n /\ m - 1 = k /\ k \in Nat
    BY <1>1, <1>9
  <2>2. rows \in U /\ Along(k, rows)
    BY <1>9
  <2>3. 1 .. m \in SUBSET (1 .. n) /\ 1 .. m # {} /\ Max(1 .. m) = m
        /\ (1 .. m) \ {m} = 1 .. m - 1
    <3> HIDE DEF m
    <3> QED BY <1>1, <2>1, PlacesUpTo
  <2>4. longer = More(rows, requests[m])
    <3> HIDE DEF m
    <3> QED BY <1>1, <1>6, <2>1, <2>3
  <2>5. requests[m] \in Request /\ requests[m] \in ToSet(requests)
    BY <1>1, <2>1
  <2> HIDE DEF rows, longer
  <2>6. longer \in U
    BY <1>5, <2>2, <2>4, <2>5
  <2>7. rows \in Seq(RowType)
    BY <2>2 DEF U
  <2>8. Along(m, longer)
    <3>1. CASE CountOf(rows) = Budget
      <4>1. longer = rows
        BY <2>4, <3>1 DEF More
      <4>2. Len(rows) \in Nat
        BY <2>7
      <4> QED BY <2>1, <2>2, <3>1, <4>1, <4>2
    <3>2. CASE CountOf(rows) # Budget
      <4>1. PICK row \in RowType : longer = Append(rows, row) /\ row.req = requests[m]
        BY <1>4, <2>2, <2>4, <2>5, <3>2
      <4>2. /\ Len(longer) = Len(rows) + 1 /\ Len(rows) \in Nat
            /\ longer[Len(rows) + 1] = row /\ \A i \in 1 .. Len(rows) : longer[i] = rows[i]
        BY <2>7, <4>1, AppendProperties
      <4>3. Len(rows) = k /\ Len(longer) = m
        BY <2>2, <3>2, <4>2
      <4>4. \A i \in 1 .. Len(longer) : longer[i].req = requests[i]
        <5> SUFFICES ASSUME NEW i \in 1 .. Len(longer) PROVE longer[i].req = requests[i]
          OBVIOUS
        <5>1. CASE i = m
          BY <4>1, <4>2, <4>3, <5>1
        <5>2. CASE i # m
          <6>1. i \in 1 .. Len(rows)
            BY <2>1, <4>2, <4>3, <5>2
          <6> QED BY <2>2, <4>2, <6>1
        <5> QED BY <5>1, <5>2
      <4> QED BY <2>1, <4>3, <4>4
    <3> QED BY <3>1, <3>2
  <2> QED BY <2>1, <2>6, <2>8 DEF longer
<1> HIDE DEF T
<1>10. \A k \in 0 .. n : k \in T
  BY <1>1, <1>8, <1>9, InductionUpTo
<1>11. iter[1 .. n] \in U /\ Along(n, iter[1 .. n])
  <2>1. n \in T
    BY <1>1, <1>10
  <2> QED BY <2>1 DEF T
<1> DEFINE rows == iter[1 .. n]
<1>12. Rows(requests) = rows
  BY <1>1, <1>2
<1>13. /\ rows \in Seq(RowType) /\ CountOf(rows) <= Budget
       /\ \A i \in 1 .. Len(rows) : Continues(requests, rows[i])
  BY <1>11 DEF U
<1> HIDE DEF rows
<1>14. \A i, j \in 1 .. Len(rows) : rows[i].req = rows[j].req => i = j
  <2> SUFFICES ASSUME NEW i \in 1 .. Len(rows), NEW j \in 1 .. Len(rows),
                      rows[i].req = rows[j].req
               PROVE  i = j
    OBVIOUS
  <2>1. /\ Len(rows) <= n /\ Len(rows) \in Nat
        /\ rows[i].req = requests[i] /\ rows[j].req = requests[j]
    BY <1>11, <1>13 DEF rows
  <2>2. i \in 1 .. n /\ j \in 1 .. n
    <3>1. n \in Nat
      BY <1>1
    <3> QED BY <2>1, <3>1
  <2>3. requests[i] = requests[j]
    BY <2>1
  <2> QED BY <1>1, <2>2, <2>3 DEF IsInjective
<1> QED BY <1>12, <1>13, <1>14

(* The worker's order is a permutation of the rows.                         *)
LEMMA OrderPermutes ==
  ASSUME NEW rows \in Seq(RowType)
  PROVE  LET sorted == InWorkerOrder(rows)
         IN  /\ sorted \in Seq(RowType) /\ CountOf(sorted) = CountOf(rows)
             /\ \E p : /\ IsPermutation(Len(rows), p) /\ Len(sorted) = Len(rows)
                       /\ \A k \in 1 .. Len(rows) : sorted[k] = rows[p[k]]
<1>1. InWorkerOrder(rows) = ByCount(rows)
  BY DEF InWorkerOrder, ByCount
<1>2. PICK p : IsPermutation(Len(rows), p) /\ ByCount(rows) = Permuted(rows, p)
  BY RowsCount, ByCountPermutes
<1>3. p \in [1 .. Len(rows) -> 1 .. Len(rows)] /\ IsInjective(p)
  BY <1>2 DEF IsPermutation
<1> DEFINE sorted == Permuted(rows, p)
<1>4. sorted \in Seq(RowType) /\ TotalOf(sorted) = TotalOf(rows)
  BY <1>3, RowsCount, TotalReordered
<1>5. /\ DOMAIN sorted = 1 .. Len(rows)
      /\ \A k \in 1 .. Len(rows) : sorted[k] = rows[p[k]]
  BY DEF Permuted
<1> HIDE DEF sorted
<1>6. Len(sorted) = Len(rows)
  <2>1. Len(rows) \in Nat /\ Len(sorted) \in Nat /\ DOMAIN sorted = 1 .. Len(sorted)
    BY <1>4
  <2> QED BY <1>5, <2>1
<1>7. CountOf(sorted) = CountOf(rows)
  BY <1>4, RowsCount
<1> QED BY <1>1, <1>2, <1>4, <1>5, <1>6, <1>7 DEF sorted

-----------------------------------------------------------------------------
(* The maximal runs of a set of rows or tokens.                             *)

(* A run lies in the set.                                                   *)
LEMMA RunsInside ==
  ASSUME NEW S, NEW run \in Runs(S)
  PROVE  run \in S \X S /\ run[1] .. run[2] \subseteq S
BY DEF Runs

(* Every element of a set of numbers is in a run.                           *)
LEMMA RunsCover ==
  ASSUME NEW m \in Nat, NEW S \in SUBSET (0 .. m - 1), NEW x \in S
  PROVE  \E run \in Runs(S) : x \in run[1] .. run[2]
<1>1. x \in Nat /\ x < m /\ m \notin S /\ m + 1 \notin S /\ -1 \notin S
  OBVIOUS
<1> DEFINE E == {y \in Nat : y >= x /\ y + 1 \notin S}
           F == {d \in Nat : d <= x /\ x - d - 1 \notin S}
<1>2. m \in E /\ x \in F
  BY <1>1
<1>3. PICK hi \in E : \A y \in E : hi <= y
  <2>1. E \in SUBSET Nat /\ E # {}
    BY <1>2
  <2> HIDE DEF E
  <2> QED BY <2>1, NatMin
<1>4. PICK d \in F : \A y \in F : d <= y
  <2>1. F \in SUBSET Nat /\ F # {}
    BY <1>2
  <2> HIDE DEF F
  <2> QED BY <2>1, NatMin
<1> DEFINE lo == x - d
<1>5. hi \in Nat /\ hi >= x /\ hi + 1 \notin S
  BY <1>3
<1>6. lo \in Nat /\ lo <= x /\ lo - 1 \notin S
  BY <1>1, <1>4
<1>7. \A z \in x .. hi : z \in S
  <2> SUFFICES ASSUME NEW z \in x .. hi, z # x PROVE z \in S
    OBVIOUS
  <2> DEFINE y == z - 1
  <2>1. y \in Nat /\ y >= x /\ y < hi /\ y + 1 = z
    BY <1>1, <1>5
  <2>2. y \notin E
    BY <1>3, <1>5, <2>1
  <2> QED BY <2>1, <2>2
<1>8. \A z \in lo .. x : z \in S
  <2> SUFFICES ASSUME NEW z \in lo .. x, z # x PROVE z \in S
    OBVIOUS
  <2> DEFINE y == x - z - 1
  <2>1. y \in Nat /\ y <= x /\ y < d /\ x - y - 1 = z /\ d \in Nat
    BY <1>1, <1>4, <1>6
  <2>2. y \notin F
    <3> HIDE DEF y, F
    <3> QED BY <1>4, <2>1
  <2> QED BY <2>1, <2>2
<1> HIDE DEF lo, E, F
<1>9. lo .. hi \subseteq S /\ lo \in S /\ hi \in S /\ lo <= hi
  <2>1. \A z \in lo .. hi : z \in lo .. x \/ z \in x .. hi
    BY <1>1, <1>5, <1>6
  <2>2. lo \in lo .. x /\ hi \in x .. hi
    BY <1>1, <1>5, <1>6
  <2> QED BY <1>1, <1>5, <1>6, <1>7, <1>8, <2>1, <2>2
<1> DEFINE run == <<lo, hi>>
<1>10. run \in Runs(S)
  BY <1>5, <1>6, <1>9 DEF Runs
<1>11. x \in run[1] .. run[2]
  BY <1>1, <1>5, <1>6
<1> QED BY <1>10, <1>11

-----------------------------------------------------------------------------
(* The rows of a request in a batch, and the tokens they stand for.         *)
LEMMA RowTyped ==
  ASSUME batch \in Seq(RowType), NEW i \in 1 .. Len(batch)
  PROVE  /\ batch[i] \in RowType /\ batch[i].req \in Request
         /\ batch[i].start \in Nat /\ batch[i].count \in Nat \ {0}
<1>1. batch[i] \in RowType
  OBVIOUS
<1> QED BY <1>1 DEF RowType

(* They are rows of the batch, and the last is one of them.                 *)
LEMMA RowPlaces ==
  ASSUME batch \in Seq(RowType), NEW i \in 1 .. Len(batch)
  PROVE  /\ Offset(i) \in Nat /\ CountOf(batch) \in Nat
         /\ Offset(i) + batch[i].count <= CountOf(batch)
         /\ RowsOf(i) \subseteq BatchRows
         /\ Offset(i) + batch[i].count - 1 \in RowsOf(i)
<1>1. batch[i].count \in Nat \ {0}
  BY RowTyped
<1>2. /\ Offset(i) \in Nat /\ CountOf(batch) \in Nat
      /\ Offset(i) + batch[i].count <= CountOf(batch)
  BY RowsCount, TotalBefore DEF Offset
<1>3. RowsOf(i) \subseteq BatchRows
  <2> SUFFICES ASSUME NEW k \in 0 .. batch[i].count - 1 PROVE Offset(i) + k \in BatchRows
    BY DEF RowsOf
  <2> QED BY <1>1, <1>2 DEF BatchRows
<1>4. Offset(i) + batch[i].count - 1 \in RowsOf(i)
  <2> DEFINE k == batch[i].count - 1
  <2>1. k \in 0 .. batch[i].count - 1 /\ Offset(i) + k = Offset(i) + batch[i].count - 1
    BY <1>1, <1>2
  <2> HIDE DEF k
  <2> QED BY <2>1 DEF RowsOf
<1> QED BY <1>2, <1>3, <1>4

(* A row of a request is one of its tokens of the step.                     *)
LEMMA TokenPlaces ==
  ASSUME batch \in Seq(RowType), NEW i \in 1 .. Len(batch), NEW k \in RowsOf(i)
  PROVE  /\ k \in Nat /\ TokenAt(i, k) \in Nat
         /\ batch[i].start <= TokenAt(i, k)
         /\ TokenAt(i, k) < batch[i].start + batch[i].count
         /\ Offset(i) <= k /\ k < Offset(i) + batch[i].count
         /\ TokenAt(i, k) = batch[i].start + (k - Offset(i))
<1>1. batch[i].start \in Nat /\ batch[i].count \in Nat \ {0} /\ Offset(i) \in Nat
  BY RowTyped, RowPlaces
<1>2. PICK j \in 0 .. batch[i].count - 1 : k = Offset(i) + j
  BY DEF RowsOf
<1>3. TokenAt(i, k) = batch[i].start + (k - Offset(i))
  BY DEF TokenAt
<1> HIDE DEF Offset
<1>4. /\ k \in Nat /\ Offset(i) <= k /\ k < Offset(i) + batch[i].count
      /\ k - Offset(i) = j /\ j \in Nat /\ j < batch[i].count
  BY <1>1, <1>2
<1> QED BY <1>1, <1>3, <1>4

(* And each of these tokens has its row.                                    *)
LEMMA RowOfToken ==
  ASSUME batch \in Seq(RowType), NEW i \in 1 .. Len(batch), NEW t \in Nat,
         batch[i].start <= t, t < batch[i].start + batch[i].count
  PROVE  \E k \in RowsOf(i) : TokenAt(i, k) = t /\ k = Offset(i) + (t - batch[i].start)
<1>1. batch[i].start \in Nat /\ batch[i].count \in Nat \ {0} /\ Offset(i) \in Nat
  BY RowTyped, RowPlaces
<1> DEFINE j == t - batch[i].start
           k == Offset(i) + j
<1>2. j \in 0 .. batch[i].count - 1
  BY <1>1
<1>3. k \in RowsOf(i)
  BY <1>2 DEF RowsOf
<1>4. TokenAt(i, k) = t
  BY <1>1 DEF TokenAt
<1> QED BY <1>3, <1>4

-----------------------------------------------------------------------------
(* The invariant holds at first, and each action keeps it.                  *)

(* The empty queue has no request.                                          *)
LEMMA NoElements ==
  /\ << >> \in Seq(Request) /\ IsInjective(<< >>) /\ ToSet(<< >>) = {}
BY DEF IsInjective, ToSet

(* Tokens are numbers.                                                      *)
LEMMA TokenTyped == Token \subseteq Nat
BY PromptAssumption DEF Token

(* The invariant holds at first: nothing runs and nothing is cached.        *)
LEMMA SpanInit == Init => SpanInv
<1> SUFFICES ASSUME Init PROVE SpanInv
  OBVIOUS
<1>1. waiting \in Seq(Request) /\ IsInjective(waiting)
  <2>1. Cardinality(Request) \in Nat
    BY PromptAssumption, FS_CardinalityType
  <2>2. waiting \in [1 .. Cardinality(Request) -> Request] /\ IsInjective(waiting)
    BY DEF Init
  <2> HIDE DEF Init
  <2> QED BY <2>1, <2>2
<1>2. /\ running = << >> /\ new = << >> /\ batch = << >> /\ phase = "idle"
      /\ length = Prompt /\ computed = [r \in Request |-> 0]
      /\ plan = [r \in Request |-> {}] /\ repairs = plan /\ reused = plan
      /\ written = plan /\ copied = plan /\ metrics = {} /\ hidden = {}
  BY DEF Init
<1> HIDE DEF Init
<1>3. Queues
  BY <1>1, <1>2, NoElements DEF Queues
<1>4. GoodRows
  <2>1. << >> \in Seq(RowType) /\ Len(<< >>) = 0
    OBVIOUS
  <2>2. CountOf(<< >>) = 0 /\ Budget \in Nat
    BY RowsCount, TotalOfNone, PromptAssumption
  <2> QED BY <1>2, <2>1, <2>2 DEF GoodRows
<1>5. Lengths
  <2>1. \A r \in Request : Prompt[r] \in Nat /\ Outputs[r] \in Nat \ {0}
                           /\ Cached[r] \in Nat /\ Cached[r] < Prompt[r]
    BY PromptAssumption
  <2>2. length \in [Request -> Nat] /\ computed \in [Request -> Nat]
    BY <1>2, PromptAssumption
  <2>3. ToSet(running) = {} /\ ToSet(waiting) \subseteq Request
    BY <1>1, <1>2, NoElements DEF ToSet
  <2>4. \A r \in Request : /\ length[r] = Prompt[r] /\ computed[r] = 0
                           /\ length[r] < Prompt[r] + Outputs[r]
    BY <1>2, <2>1
  <2> QED BY <2>1, <2>2, <2>3, <2>4 DEF Lengths
<1>6. Tables
  BY <1>2 DEF Tables, TokensOf
<1>7. Present
  BY <1>2, NoElements DEF Present, Busy
<1>8. Executing
  BY <1>2 DEF Executing
<1> QED BY <1>3, <1>4, <1>5, <1>6, <1>7, <1>8 DEF SpanInv

(* The rows of the running requests continue them.                          *)
LEMMA ScheduleRunningKeeps == ASSUME SpanInv, ScheduleRunning PROVE SpanInv'
<1> DEFINE rows == Rows(running)
<1>1. /\ phase = "idle" /\ phase' = "admit" /\ batch' = rows /\ new' = << >>
      /\ UNCHANGED <<waiting, running, length, computed, plan>>
      /\ UNCHANGED <<repairs, reused, metrics, written, copied, spans, hidden>>
  BY DEF ScheduleRunning, scheduler, tables, cache
<1>2. /\ running \in Seq(Request) /\ IsInjective(running) /\ new = << >>
      /\ computed \in [Request -> Nat] /\ length \in [Request -> Nat]
      /\ \A r \in ToSet(running) : computed[r] < length[r]
  BY <1>1 DEF SpanInv, Queues, Lengths, Busy
<1>3. /\ rows \in Seq(RowType) /\ CountOf(rows) <= Budget
      /\ \A i, j \in 1 .. Len(rows) : rows[i].req = rows[j].req => i = j
      /\ \A i \in 1 .. Len(rows) : Continues(running, rows[i])
  BY <1>2, RowsContinue
<1> HIDE DEF rows
<1>4. Queues'
  BY <1>1, <1>2, NoElements DEF SpanInv, Queues, OnBatch
<1>5. GoodRows'
  <2>1. \A i \in 1 .. Len(batch') : RowFits(batch[i])'
    BY <1>1, <1>3 DEF RowFits, Continues, Busy
  <2> QED BY <1>1, <1>3, <2>1 DEF GoodRows
<1>6. Lengths'
  BY <1>1, <1>2 DEF SpanInv, Lengths, Busy
<1>7. Tables'
  <2>1. metrics' = {} /\ hidden' = {} /\ ToSet(new') = {}
    BY <1>1, NoElements DEF SpanInv, Tables, Busy
  <2> QED BY <1>1, <2>1 DEF SpanInv, Tables, TokensOf
<1>8. Present'
  BY <1>1, <1>2, NoElements DEF SpanInv, Present, Ready, Filled, Later, Busy
<1>9. Executing'
  BY <1>1 DEF Executing
<1> QED BY <1>4, <1>5, <1>6, <1>7, <1>8, <1>9 DEF SpanInv

(* A preempted request starts over and waits at the head of the queue.      *)
LEMMA SchedulePreemptingKeeps == ASSUME SpanInv, SchedulePreempting PROVE SpanInv'
<1> DEFINE r == Last(running)
           u == Front(running)
           w == <<r>> \o waiting
           rows == Rows(u)
<1>1. /\ phase = "idle" /\ phase' = "launch" /\ batch' = rows /\ new' = << >>
      /\ running' = u /\ waiting' = w /\ computed' = [computed EXCEPT ![r] = 0]
      /\ UNCHANGED <<length, plan>>
      /\ UNCHANGED <<repairs, reused, metrics, written, copied, spans, hidden>>
  BY DEF SchedulePreempting, tables, cache
<1>2. /\ running \in Seq(Request) /\ IsInjective(running) /\ new = << >>
      /\ waiting \in Seq(Request) /\ IsInjective(waiting)
      /\ ToSet(running) \cap ToSet(waiting) = {}
      /\ computed \in [Request -> Nat] /\ length \in [Request -> Nat]
      /\ \A q \in ToSet(running) : computed[q] < length[q]
  BY <1>1 DEF SpanInv, Queues, Lengths, Busy
<1>3. running # << >>
  <2>1. Len(running) > 1
    BY DEF SchedulePreempting
  <2> QED BY <2>1
<1>4. /\ u \in Seq(Request) /\ IsInjective(u) /\ r \in Request /\ r \in ToSet(running)
      /\ ToSet(u) = ToSet(running) \ {r}
  BY <1>2, <1>3, FrontElements
<1> HIDE DEF r, u
<1>5. w \in Seq(Request) /\ ToSet(w) = ToSet(waiting) \cup {r} /\ IsInjective(w)
  BY <1>2, <1>4, PrependElements
<1> HIDE DEF w
<1>6. /\ rows \in Seq(RowType) /\ CountOf(rows) <= Budget
      /\ \A i, j \in 1 .. Len(rows) : rows[i].req = rows[j].req => i = j
      /\ \A i \in 1 .. Len(rows) : Continues(u, rows[i])
  <2>1. \A q \in ToSet(u) : computed[q] < length[q]
    BY <1>2, <1>4
  <2> QED BY <1>2, <1>4, <2>1, RowsContinue
<1> HIDE DEF rows
<1>7. Queues'
  <2>1. ToSet(u) \cap ToSet(w) = {}
    BY <1>2, <1>4, <1>5
  <2> QED BY <1>1, <1>4, <1>5, <2>1, NoElements DEF Queues, OnBatch
<1>8. computed' \in [Request -> Nat] /\ computed'[r] = 0
      /\ \A q \in Request : q # r => computed'[q] = computed[q]
  BY <1>1, <1>2, <1>4
<1>9. ToSet(u) \subseteq Request /\ r \notin ToSet(u)
  BY <1>4 DEF ToSet
<1>10. GoodRows'
  <2>1. \A i \in 1 .. Len(batch') : RowFits(batch[i])'
    <3> SUFFICES ASSUME NEW i \in 1 .. Len(rows), Continues(u, rows[i])
                 PROVE  RowFits(batch[i])'
      BY <1>1, <1>6
    <3>1. rows[i].req \in ToSet(u) /\ rows[i].req # r /\ rows[i].req \in Request
      BY <1>9 DEF Continues
    <3> QED BY <1>1, <1>8, <3>1 DEF RowFits, Continues, Busy
  <2> QED BY <1>1, <1>6, <2>1 DEF GoodRows
<1>11. Lengths'
  <2>1. \A q \in Request : computed'[q] <= length[q]
    <3>1. \A q \in Request : computed[q] <= length[q] /\ length[q] \in Nat
      BY <1>2 DEF SpanInv, Lengths
    <3> QED BY <1>8, <3>1
  <2>2. \A q \in ToSet(u) : computed'[q] < length[q]
    BY <1>2, <1>4, <1>8, <1>9
  <2>3. ToSet(u) \cup ToSet(w) = ToSet(running) \cup ToSet(waiting)
    BY <1>4, <1>5
  <2> QED BY <1>1, <1>8, <2>1, <2>2, <2>3 DEF SpanInv, Lengths
<1>12. Tables'
  <2>1. metrics' = {} /\ hidden' = {} /\ ToSet(new') = {}
    BY <1>1, NoElements DEF SpanInv, Tables, Busy
  <2> QED BY <1>1, <2>1 DEF SpanInv, Tables, TokensOf
<1>13. Present'
  <2>1. \A q \in ToSet(running) : Ready(q, computed[q])
    BY <1>1, <1>2, NoElements DEF SpanInv, Present, Busy
  <2>2. \A q \in ToSet(u) : Ready(q, computed[q]) /\ computed'[q] = computed[q]
    BY <1>4, <1>8, <1>9, <2>1
  <2> QED BY <1>1, <2>2 DEF Present, Ready, Filled, Later, Busy
<1>14. Executing'
  BY <1>1 DEF Executing
<1> QED BY <1>7, <1>10, <1>11, <1>12, <1>13, <1>14 DEF SpanInv

(* A request that is admitted gets the first row after what it has cached,  *)
(* and a plan that begins there.                                            *)
Admits(r, n, kept) ==
  /\ n \in Nat /\ kept \in SUBSET Candidates[r]
  /\ \A b \in kept : n <= b * BlockSize
  /\ n < Prompt[r]
  /\ plan' = [plan EXCEPT ![r] = kept]
  /\ batch' = Append(batch, Row(r, n, Budget - CountOf(batch)))
  /\ computed' = [computed EXCEPT ![r] = n]

(* Admission picks such a beginning and such a plan.                        *)
LEMMA AdmitPicks ==
  ASSUME Admit, Head(waiting) \in Request
  PROVE  \E n, kept : Admits(Head(waiting), n, kept)
<1> DEFINE r == Head(waiting)
<1>1. PICK n \in {0, Cached[r]} :
        \E kept \in SUBSET {b \in Candidates[r] : b * BlockSize >= n} :
          /\ plan' = [plan EXCEPT ![r] = kept]
          /\ batch' = Append(batch, Row(r, n, Budget - CountOf(batch)))
          /\ computed' = [computed EXCEPT ![r] = n]
  BY DEF Admit
<1>2. PICK kept \in SUBSET {b \in Candidates[r] : b * BlockSize >= n} :
          /\ plan' = [plan EXCEPT ![r] = kept]
          /\ batch' = Append(batch, Row(r, n, Budget - CountOf(batch)))
          /\ computed' = [computed EXCEPT ![r] = n]
  BY <1>1
<1> HIDE DEF r
<1>3. /\ Prompt[r] \in Nat /\ Cached[r] \in Nat /\ Cached[r] < Prompt[r]
      /\ Candidates[r] \in SUBSET Nat /\ BlockSize \in Nat
  BY PromptAssumption DEF r
<1>4. n \in Nat /\ n < Prompt[r]
  BY <1>1, <1>3
<1>5. kept \in SUBSET Candidates[r] /\ \A b \in kept : b \in Nat /\ b * BlockSize >= n
  BY <1>2, <1>3
<1>6. \A b \in kept : n <= b * BlockSize
  <2> SUFFICES ASSUME NEW b \in kept PROVE n <= b * BlockSize
    OBVIOUS
  <2>1. b * BlockSize \in Nat
    BY <1>3, <1>5
  <2> QED BY <1>4, <1>5, <2>1
<1>7. Admits(r, n, kept)
  BY <1>2, <1>4, <1>5, <1>6 DEF Admits
<1> QED BY <1>7 DEF r

(* An admitted request has nothing on the worker yet.                       *)
LEMMA AdmitKeeps == ASSUME SpanInv, Admit PROVE SpanInv'
<1> DEFINE r == Head(waiting)
           w == Tail(waiting)
           u == Append(running, r)
           m == Append(new, r)
<1>1. /\ phase = "admit" /\ phase' = "admit" /\ waiting # << >> /\ CountOf(batch) < Budget
      /\ new' = m /\ running' = u /\ waiting' = w
      /\ UNCHANGED <<length, repairs, reused, metrics, written, copied, spans, hidden>>
  BY DEF Admit, tables, cache
<1>2. /\ waiting \in Seq(Request) /\ IsInjective(waiting)
      /\ running \in Seq(Request) /\ IsInjective(running)
      /\ new \in Seq(Request) /\ IsInjective(new) /\ ToSet(new) \subseteq OnBatch
      /\ ToSet(running) \cap ToSet(waiting) = {}
      /\ computed \in [Request -> Nat] /\ length \in [Request -> Nat]
  BY <1>1 DEF SpanInv, Queues, Lengths
<1>3. /\ batch \in Seq(RowType) /\ Len(batch) \in Nat
      /\ \A i, j \in 1 .. Len(batch) : batch[i].req = batch[j].req => i = j
      /\ \A i \in 1 .. Len(batch) : RowFits(batch[i])
  BY <1>1 DEF SpanInv, GoodRows
<1>4. /\ w \in Seq(Request) /\ IsInjective(w) /\ r \in Request /\ r \in ToSet(waiting)
      /\ ToSet(w) = ToSet(waiting) \ {r}
  BY <1>1, <1>2, TailElements
<1>5. PICK n, kept : Admits(r, n, kept)
  BY <1>4, AdmitPicks
<1> HIDE DEF r, w
<1>6. r \notin ToSet(running) /\ \A i \in 1 .. Len(batch) : batch[i].req # r
  BY <1>2, <1>3, <1>4 DEF RowFits
<1>7. r \notin ToSet(new)
  BY <1>2, <1>6 DEF OnBatch
<1>8. /\ u \in Seq(Request) /\ IsInjective(u) /\ ToSet(u) = ToSet(running) \cup {r}
      /\ m \in Seq(Request) /\ IsInjective(m) /\ ToSet(m) = ToSet(new) \cup {r}
  BY <1>2, <1>4, <1>6, <1>7, AppendElements
<1> HIDE DEF u, m
<1> DEFINE row == Row(r, n, Budget - CountOf(batch))
           rows == Append(batch, row)
<1>9. /\ row \in RowType /\ rows \in Seq(RowType) /\ CountOf(rows) <= Budget
      /\ row.req = r /\ row.start = n /\ n + row.count <= length[r]
  <2>1. length[r] \in Nat /\ Prompt[r] <= length[r] /\ Prompt[r] \in Nat
    BY <1>2, <1>4, PromptAssumption DEF SpanInv, Lengths
  <2>2. n \in Nat /\ n < length[r]
    BY <1>5, <2>1 DEF Admits
  <2> QED BY <1>1, <1>3, <1>4, <2>1, <2>2, RowAdded
<1>10. batch' = rows
  BY <1>5 DEF Admits
<1> HIDE DEF row
<1>11. /\ Len(rows) = Len(batch) + 1 /\ rows[Len(batch) + 1] = row
       /\ \A i \in 1 .. Len(batch) : rows[i] = batch[i]
  BY <1>3, <1>9, AppendProperties
<1> HIDE DEF rows
<1>12. \A i \in 1 .. Len(rows) : i = Len(batch) + 1 \/ i \in 1 .. Len(batch)
  BY <1>3, <1>11
<1>13. /\ computed' \in [Request -> Nat] /\ computed'[r] = n
       /\ \A q \in Request : q # r => computed'[q] = computed[q]
  BY <1>2, <1>4, <1>5 DEF Admits
<1>14. OnBatch' = OnBatch \cup {r}
  <2>1. OnBatch' = {rows[i].req : i \in 1 .. Len(rows)}
    BY <1>10 DEF OnBatch
  <2>2. \A q \in OnBatch' : q \in OnBatch \cup {r}
    BY <1>9, <1>11, <1>12, <2>1 DEF OnBatch
  <2>3. r \in OnBatch'
    <3>1. Len(batch) + 1 \in 1 .. Len(rows)
      BY <1>3, <1>11
    <3> QED BY <1>9, <1>11, <2>1, <3>1
  <2>4. \A q \in OnBatch : q \in OnBatch'
    <3>1. \A i \in 1 .. Len(batch) : i \in 1 .. Len(rows)
      BY <1>3, <1>11
    <3> QED BY <1>11, <2>1, <3>1 DEF OnBatch
  <2> QED BY <2>2, <2>3, <2>4
<1>15. Queues'
  <2>1. ToSet(u) \cap ToSet(w) = {} /\ ToSet(m) \subseteq OnBatch'
    BY <1>2, <1>4, <1>8, <1>14
  <2> QED BY <1>1, <1>4, <1>8, <2>1 DEF Queues
<1>16. GoodRows'
  <2>1. ASSUME NEW i \in 1 .. Len(rows), NEW j \in 1 .. Len(rows), rows[i].req = rows[j].req
        PROVE  i = j
    BY <1>3, <1>6, <1>9, <1>11, <1>12, <2>1
  <2>2. ASSUME NEW i \in 1 .. Len(rows) PROVE RowFits(batch[i])'
    <3>1. CASE i = Len(batch) + 1
      <4>1. /\ rows[i] = row /\ row.req \in ToSet(u) /\ computed'[row.req] = row.start
            /\ row.start + row.count <= length[row.req]
        BY <1>8, <1>9, <1>11, <1>13, <3>1
      <4> QED BY <1>1, <1>10, <4>1 DEF RowFits, Busy
    <3>2. CASE i \in 1 .. Len(batch)
      <4>1. RowFits(batch[i]) /\ rows[i] = batch[i] /\ batch[i].req # r
            /\ batch[i].req \in Request
        BY <1>3, <1>6, <1>11, <3>2, RowTyped
      <4> QED BY <1>1, <1>8, <1>10, <1>13, <4>1 DEF RowFits, Busy
    <3> QED BY <1>12, <3>1, <3>2
  <2>3. \A i \in 1 .. Len(batch') : RowFits(batch[i])'
    BY <1>10, <2>2
  <2> QED BY <1>9, <1>10, <2>1, <2>3 DEF GoodRows
<1>17. Lengths'
  <2>1. /\ \A q \in Request : computed[q] <= length[q] /\ length[q] \in Nat
        /\ \A q \in ToSet(running) : q \in Request /\ computed[q] < length[q]
    BY <1>1, <1>2 DEF SpanInv, Lengths, Busy, ToSet
  <2>2. n < length[r] /\ n \in Nat
    <3>1. row.count \in Nat \ {0} /\ n \in Nat /\ length[r] \in Nat
      BY <1>4, <1>5, <1>9, <2>1 DEF RowType, Admits
    <3> QED BY <1>9, <3>1
  <2>3. \A q \in Request : computed'[q] <= length[q]
    BY <1>4, <1>13, <2>1, <2>2
  <2>4. \A q \in ToSet(u) : computed'[q] < length[q]
    BY <1>4, <1>8, <1>13, <2>1, <2>2
  <2>5. ToSet(u) \cup ToSet(w) = ToSet(running) \cup ToSet(waiting)
    BY <1>4, <1>8
  <2> QED BY <1>1, <1>13, <2>3, <2>4, <2>5 DEF SpanInv, Lengths
<1>18. Tables'
  <2>1. metrics' = {} /\ hidden' = {}
    BY <1>1 DEF SpanInv, Tables, Busy
  <2>2. /\ plan' \in [Request -> SUBSET Nat]
        /\ \A q \in Request : plan'[q] \subseteq Candidates[q]
        /\ plan'[r] = kept /\ \A q \in Request : q # r => plan'[q] = plan[q]
    <3>1. /\ plan \in [Request -> SUBSET Nat]
          /\ \A q \in Request : plan[q] \subseteq Candidates[q]
      BY DEF SpanInv, Tables
    <3>2. kept \in SUBSET Nat /\ kept \subseteq Candidates[r]
      BY <1>4, <1>5, PromptAssumption DEF Admits
    <3> QED BY <1>4, <1>5, <3>1, <3>2 DEF Admits
  <2>3. ASSUME NEW i \in 1 .. Len(rows), rows[i].req \in ToSet(m)
        PROVE  \A b \in plan'[rows[i].req] : rows[i].start <= b * BlockSize
    <3>1. CASE i = Len(batch) + 1
      BY <1>5, <1>9, <1>11, <2>2, <3>1 DEF Admits
    <3>2. CASE i \in 1 .. Len(batch)
      <4>1. rows[i] = batch[i] /\ batch[i].req # r /\ batch[i].req \in Request
            /\ batch[i].req \in ToSet(new)
        BY <1>3, <1>6, <1>8, <1>11, <2>3, <3>2, RowTyped
      <4> QED BY <1>1, <2>2, <3>2, <4>1 DEF SpanInv, Tables
    <3> QED BY <1>12, <3>1, <3>2
  <2>4. repairs \in [Request -> SUBSET Nat]
        /\ reused \in [Request -> SUBSET Token] /\ copied \in [Request -> SUBSET Token]
        /\ written \in [Request -> SUBSET Token]
        /\ \A q \in Request :
             /\ repairs[q] \subseteq Affected[q]
             /\ written[q] \cap copied[q] = {} /\ copied[q] \cap TokensOf(repairs[q]) = {}
    BY DEF SpanInv, Tables
  <2> QED BY <1>1, <1>10, <2>1, <2>2, <2>3, <2>4 DEF Tables, TokensOf
<1>19. Present'
  <2>1. \A q \in ToSet(running) \ ToSet(new) : q \in Request /\ q # r /\ Ready(q, computed[q])
    <3>1. \A q \in ToSet(running) : q \in Request /\ q # r
      BY <1>2, <1>6 DEF ToSet
    <3>2. \A q \in ToSet(running) \ ToSet(new) : Ready(q, computed[q])
      BY <1>1 DEF SpanInv, Present, Busy
    <3> QED BY <3>1, <3>2
  <2>2. \A q \in ToSet(u) \ ToSet(m) : Ready(q, computed'[q])
    BY <1>8, <1>13, <2>1
  <2> QED BY <1>1, <2>2 DEF Present, Ready, Filled, Later, Busy
<1>20. Executing'
  BY <1>1 DEF Executing
<1> QED BY <1>15, <1>16, <1>17, <1>18, <1>19, <1>20 DEF SpanInv

(* What the launch of a step does to the tables of a request: they are      *)
(* forgotten unless it goes on, and what a new one has cached is written.   *)
Goes(q) == q \in ToSet(running) \ ToSet(new)

(* The tables after a launch, request by request.                           *)
LEMMA LaunchTables ==
  ASSUME Launch, NEW q \in Request
  PROVE  /\ repairs'[q] = IF Goes(q) THEN repairs[q] ELSE {}
         /\ reused'[q] = IF Goes(q) THEN reused[q] ELSE {}
         /\ copied'[q] = IF Goes(q) THEN copied[q] ELSE {}
         /\ written'[q] = IF q \in ToSet(new)
                          THEN {t \in Token : \E row \in ToSet(batch) :
                                                 row.req = q /\ t < row.start}
                          ELSE IF Goes(q) THEN written[q] ELSE {}
<1> DEFINE gone == Request \ (ToSet(running) \ ToSet(new))
           Forget(table) == [r \in Request |-> IF r \in gone THEN {} ELSE table[r]]
<1>1. /\ repairs' = Forget(repairs) /\ reused' = Forget(reused) /\ copied' = Forget(copied)
      /\ written' = [r \in Request |->
           IF r \in ToSet(new) THEN {t \in Token : \E row \in ToSet(batch) :
                                                     row.req = r /\ t < row.start}
           ELSE Forget(written)[r]]
  BY DEF Launch
<1>2. q \in gone <=> ~ Goes(q)
  BY DEF Goes
<1> HIDE DEF gone
<1>3. \A table : Forget(table)[q] = IF Goes(q) THEN table[q] ELSE {}
  BY <1>2
<1> HIDE DEF Forget
<1> QED BY <1>1, <1>3

(* What a launched request has cached counts as written.                    *)
LEMMA LaunchKeeps == ASSUME SpanInv, Launch PROVE SpanInv'
<1> DEFINE rows == InWorkerOrder(batch)
           n == Len(batch)
<1>1. /\ phase \in {"admit", "launch"} /\ phase' = "add" /\ batch' = rows
      /\ UNCHANGED <<waiting, running, length, plan, new, spans, hidden>>
  BY DEF Launch
<1>2. /\ running \in Seq(Request) /\ new \in Seq(Request) /\ ToSet(new) \subseteq OnBatch
      /\ computed \in [Request -> Nat] /\ length \in [Request -> Nat]
  BY <1>1 DEF SpanInv, Queues, Lengths
<1>3. /\ batch \in Seq(RowType) /\ n \in Nat /\ CountOf(batch) <= Budget
      /\ \A i, j \in 1 .. n : batch[i].req = batch[j].req => i = j
      /\ \A i \in 1 .. n : /\ RowFits(batch[i]) /\ batch[i] \in RowType
                           /\ batch[i].req \in Request /\ batch[i].req \in ToSet(running)
                           /\ computed[batch[i].req] = batch[i].start
                           /\ batch[i].start + batch[i].count <= length[batch[i].req]
  BY <1>1, RowTyped DEF SpanInv, GoodRows, RowFits, Busy
<1>4. rows \in Seq(RowType) /\ CountOf(rows) = CountOf(batch)
  BY <1>3, OrderPermutes
<1>5. PICK p : /\ IsPermutation(n, p) /\ Len(rows) = n
               /\ \A k \in 1 .. n : rows[k] = batch[p[k]]
  BY <1>3, OrderPermutes
<1> HIDE DEF rows
<1>6. /\ \A k \in 1 .. n : p[k] \in 1 .. n
      /\ \A i \in 1 .. n : \E k \in 1 .. n : p[k] = i
      /\ \A j, k \in 1 .. n : p[j] = p[k] => j = k
  <2>1. p \in [1 .. n -> 1 .. n] /\ IsInjective(p)
    BY <1>5 DEF IsPermutation
  <2>2. \A i \in 1 .. n : \E k \in 1 .. n : p[k] = i
    <3> HIDE DEF n
    <3> QED BY <1>3, <2>1, InjectionReachesAll
  <2> QED BY <2>1, <2>2 DEF IsInjective
<1>7. OnBatch' = OnBatch
  <2>1. OnBatch' = {rows[k].req : k \in 1 .. n}
    BY <1>1, <1>5 DEF OnBatch
  <2>2. \A q \in OnBatch' : q \in OnBatch
    <3> SUFFICES ASSUME NEW k \in 1 .. n PROVE rows[k].req \in OnBatch
      BY <2>1
    <3>1. p[k] \in 1 .. n /\ rows[k] = batch[p[k]]
      BY <1>5, <1>6
    <3> QED BY <3>1 DEF OnBatch
  <2>3. \A q \in OnBatch : q \in OnBatch'
    <3> SUFFICES ASSUME NEW i \in 1 .. n PROVE batch[i].req \in OnBatch'
      BY DEF OnBatch
    <3>1. PICK k \in 1 .. n : p[k] = i
      BY <1>6
    <3> QED BY <1>5, <2>1, <3>1
  <2> QED BY <2>2, <2>3
<1>8. ASSUME NEW i \in 1 .. n
      PROVE  computed'[batch[i].req] = batch[i].start + batch[i].count
  <2> DEFINE q == batch[i].req
             row == CHOOSE w \in ToSet(batch) : w.req = q
  <2>1. batch[i] \in ToSet(batch) /\ q \in Request
    BY <1>3 DEF ToSet
  <2>2. \A w \in ToSet(batch) : w.req = q => w = batch[i]
    <3> SUFFICES ASSUME NEW j \in 1 .. n, batch[j].req = q PROVE batch[j] = batch[i]
      BY <1>3 DEF ToSet
    <3> QED BY <1>3
  <2>3. row = batch[i]
    BY <2>1, <2>2
  <2>4. computed'[q] = row.start + row.count
    BY <2>1 DEF Launch
  <2> QED BY <2>3, <2>4
<1>9. ASSUME NEW q \in Request, q \notin OnBatch
      PROVE  computed'[q] = computed[q]
  <2>1. ~ \E row \in ToSet(batch) : row.req = q
    BY <1>3, <1>9 DEF OnBatch, ToSet
  <2> QED BY <2>1 DEF Launch
<1>10. computed' \in [Request -> Nat] /\ \A q \in Request : computed'[q] <= length[q]
  <2>1. computed' = [q \in Request |-> computed'[q]]
    BY DEF Launch
  <2>2. ASSUME NEW q \in Request PROVE computed'[q] \in Nat /\ computed'[q] <= length[q]
    <3>1. CASE q \in OnBatch
      <4>1. PICK i \in 1 .. n : q = batch[i].req
        BY <3>1 DEF OnBatch
      <4>2. batch[i].start + batch[i].count \in Nat
        BY <1>3 DEF RowType
      <4> QED BY <1>3, <1>8, <4>1, <4>2
    <3>2. CASE q \notin OnBatch
      BY <1>2, <1>9, <3>2 DEF SpanInv, Lengths
    <3> QED BY <3>1, <3>2
  <2> QED BY <2>1, <2>2
<1>11. Queues'
  BY <1>1, <1>2, <1>7 DEF SpanInv, Queues, Busy
<1>12. GoodRows'
  <2>1. ASSUME NEW j \in 1 .. n, NEW k \in 1 .. n, rows[j].req = rows[k].req
        PROVE  j = k
    <3>1. p[j] \in 1 .. n /\ p[k] \in 1 .. n /\ batch[p[j]].req = batch[p[k]].req
      BY <1>5, <1>6, <2>1
    <3>2. p[j] = p[k]
      BY <1>3, <3>1
    <3> QED BY <1>6, <3>2
  <2>2. ASSUME NEW k \in 1 .. n PROVE RowFits(batch[k])'
    <3>1. PICK i \in 1 .. n : rows[k] = batch[i]
      BY <1>5, <1>6
    <3>2. /\ rows[k].req \in ToSet(running)
          /\ rows[k].start + rows[k].count <= length[rows[k].req]
          /\ computed'[rows[k].req] = rows[k].start + rows[k].count
      BY <1>3, <1>8, <3>1
    <3> QED BY <1>1, <3>2 DEF RowFits, Busy
  <2> QED BY <1>1, <1>3, <1>4, <1>5, <2>1, <2>2 DEF GoodRows
<1>13. Lengths'
  <2>1. \A q \in ToSet(running) : q \notin OnBatch => computed'[q] < length[q]
    <3>1. \A q \in ToSet(running) : q \in Request
      BY <1>2 DEF ToSet
    <3>2. \A q \in ToSet(running) : computed[q] < length[q]
      BY <1>1 DEF SpanInv, Lengths, Busy
    <3> QED BY <1>9, <3>1, <3>2
  <2> QED BY <1>1, <1>7, <1>10, <2>1 DEF SpanInv, Lengths, Busy
<1>14. ASSUME NEW i \in 1 .. n, batch[i].req \in ToSet(new)
       PROVE  written'[batch[i].req] = {t \in Token : t < batch[i].start}
  <2> DEFINE q == batch[i].req
  <2>1. batch[i] \in ToSet(batch) /\ q \in Request
    BY <1>3 DEF ToSet
  <2>2. \A w \in ToSet(batch) : w.req = q => w = batch[i]
    <3> SUFFICES ASSUME NEW j \in 1 .. n, batch[j].req = q PROVE batch[j] = batch[i]
      BY <1>3 DEF ToSet
    <3> QED BY <1>3
  <2>3. written'[q] = {t \in Token : \E row \in ToSet(batch) : row.req = q /\ t < row.start}
    BY <1>14, <2>1, LaunchTables
  <2>4. \A t : (\E row \in ToSet(batch) : row.req = q /\ t < row.start) <=> t < batch[i].start
    BY <2>1, <2>2
  <2> QED BY <2>3, <2>4
<1>15. Tables'
  <2>1. metrics' = {} /\ hidden' = {}
    <3>1. metrics = {} /\ hidden = {}
      BY <1>1 DEF SpanInv, Tables, Busy
    <3>2. metrics' \subseteq metrics
      BY DEF Launch
    <3> QED BY <1>1, <3>1, <3>2
  <2>2. /\ repairs \in [Request -> SUBSET Nat] /\ reused \in [Request -> SUBSET Token]
        /\ copied \in [Request -> SUBSET Token] /\ written \in [Request -> SUBSET Token]
        /\ \A q \in Request :
             /\ repairs[q] \subseteq Affected[q]
             /\ written[q] \cap copied[q] = {} /\ copied[q] \cap TokensOf(repairs[q]) = {}
    BY DEF SpanInv, Tables
  <2>3. /\ repairs' = [q \in Request |-> repairs'[q]] /\ reused' = [q \in Request |-> reused'[q]]
        /\ copied' = [q \in Request |-> copied'[q]]
        /\ written' = [q \in Request |-> written'[q]]
    BY DEF Launch
  <2>4. ASSUME NEW q \in Request
        PROVE  /\ repairs'[q] \in SUBSET Nat /\ reused'[q] \in SUBSET Token
               /\ copied'[q] \in SUBSET Token /\ written'[q] \in SUBSET Token
               /\ repairs'[q] \subseteq Affected[q] /\ written'[q] \cap copied'[q] = {}
               /\ copied'[q] \cap TokensOf(repairs'[q]) = {}
    <3>1. CASE Goes(q)
      <4>1. q \notin ToSet(new)
        BY <3>1 DEF Goes
      <4>2. /\ repairs'[q] = repairs[q] /\ reused'[q] = reused[q]
            /\ copied'[q] = copied[q] /\ written'[q] = written[q]
        BY <3>1, <4>1, LaunchTables
      <4> QED BY <2>2, <4>2
    <3>2. CASE ~ Goes(q)
      <4>1. repairs'[q] = {} /\ reused'[q] = {} /\ copied'[q] = {}
        BY <3>2, LaunchTables
      <4>2. written'[q] \subseteq Token
        BY <3>2, LaunchTables
      <4> QED BY <4>1, <4>2
    <3> QED BY <3>1, <3>2
  <2>5. /\ repairs' \in [Request -> SUBSET Nat] /\ reused' \in [Request -> SUBSET Token]
        /\ copied' \in [Request -> SUBSET Token] /\ written' \in [Request -> SUBSET Token]
    BY <2>3, <2>4
  <2>6. ASSUME NEW k \in 1 .. n, rows[k].req \in ToSet(new)
        PROVE  /\ \A b \in plan[rows[k].req] : rows[k].start <= b * BlockSize
               /\ written'[rows[k].req] = {t \in Token : t < rows[k].start}
    <3>1. PICK i \in 1 .. n : rows[k] = batch[i]
      BY <1>5, <1>6
    <3>2. \A b \in plan[batch[i].req] : batch[i].start <= b * BlockSize
      BY <1>1, <2>6, <3>1 DEF SpanInv, Tables
    <3> QED BY <1>14, <2>6, <3>1, <3>2
  <2>7. /\ plan \in [Request -> SUBSET Nat]
        /\ \A q \in Request : plan[q] \subseteq Candidates[q]
    BY DEF SpanInv, Tables
  <2>8. \A q \in Request :
          /\ repairs'[q] \subseteq Affected[q] /\ written'[q] \cap copied'[q] = {}
          /\ copied'[q] \cap TokensOf(repairs'[q]) = {}
    BY <2>4
  <2> QED BY <1>1, <1>5, <2>1, <2>5, <2>6, <2>7, <2>8 DEF Tables, TokensOf
<1>16. Present'
  <2>1. ASSUME NEW q \in ToSet(running) \ ToSet(new)
        PROVE  /\ q \in Request
               /\ copied'[q] = copied[q] /\ written'[q] = written[q]
               /\ reused'[q] = reused[q] /\ Ready(q, computed[q])
    <3>1. q \in Request
      BY <1>2 DEF ToSet
    <3>2. Goes(q) /\ q \notin ToSet(new)
      BY DEF Goes
    <3>3. Ready(q, computed[q])
      BY <1>1 DEF SpanInv, Present, Busy
    <3> QED BY <3>1, <3>2, <3>3, LaunchTables
  <2> DEFINE FilledThen(q, m) == \A t \in Token : t < m => t \in written'[q] \cup copied'[q]
             LaterThen(q, m) == \A t \in reused'[q] : t >= m => t \in copied'[q]
  <2>2. ASSUME NEW q \in ToSet(running), q \notin OnBatch
        PROVE  FilledThen(q, computed'[q]) /\ LaterThen(q, computed'[q])
    <3>1. q \in ToSet(running) \ ToSet(new)
      BY <1>2, <2>2
    <3>2. q \in Request /\ computed'[q] = computed[q]
      BY <1>9, <2>1, <2>2, <3>1
    <3> QED BY <2>1, <3>1, <3>2 DEF Ready, Filled, Later
  <2>3. ASSUME NEW i \in 1 .. n
        PROVE  FilledThen(batch[i].req, batch[i].start) /\ LaterThen(batch[i].req, batch[i].start)
    <3> DEFINE q == batch[i].req
    <3>1. q \in Request /\ q \in ToSet(running) /\ computed[q] = batch[i].start
      BY <1>3
    <3>2. CASE q \in ToSet(new)
      <4>1. written'[q] = {t \in Token : t < batch[i].start}
        BY <1>14, <3>2
      <4>2. ~ Goes(q)
        BY <3>2 DEF Goes
      <4>3. reused'[q] = {}
        <5> HIDE DEF q
        <5> QED BY <3>1, <4>2, LaunchTables
      <4> QED BY <4>1, <4>3
    <3>3. CASE q \notin ToSet(new)
      <4>1. q \in ToSet(running) \ ToSet(new)
        BY <3>1, <3>3
      <4> HIDE DEF q
      <4>2. /\ copied'[q] = copied[q] /\ written'[q] = written[q] /\ reused'[q] = reused[q]
            /\ Ready(q, computed[q])
        BY <2>1, <4>1
      <4> QED BY <3>1, <4>2 DEF Ready, Filled, Later, q
    <3> QED BY <3>2, <3>3
  <2>4. ASSUME NEW k \in 1 .. n
        PROVE  FilledThen(rows[k].req, rows[k].start) /\ LaterThen(rows[k].req, rows[k].start)
    <3>1. PICK i \in 1 .. n : rows[k] = batch[i]
      BY <1>5, <1>6
    <3> QED BY <2>3, <3>1
  <2>5. phase' \in Busy /\ phase' # "execute"
    BY <1>1 DEF Busy
  <2> QED BY <1>1, <1>5, <1>7, <2>2, <2>4, <2>5 DEF Present, Ready, Filled, Later, Busy
<1>17. Executing'
  BY <1>1 DEF Executing
<1> QED BY <1>11, <1>12, <1>13, <1>15, <1>16, <1>17 DEF SpanInv

-----------------------------------------------------------------------------
(* A request comes to the worker.                                           *)

(* A block begins at or before each of its tokens.                          *)
LEMMA BlockBegins ==
  ASSUME NEW t \in Nat, NEW s \in Nat \ {0}
  PROVE  t \div s \in Nat /\ (t \div s) * s <= t
BY SMT

(* The runs that are worth their split are part of the tokens.              *)
LEMMA LongRunsInside == \A r, S : LongRuns(r, S) \subseteq S
<1> SUFFICES ASSUME NEW r, NEW S, NEW t \in LongRuns(r, S) PROVE t \in S
  OBVIOUS
<1>1. PICK run \in Runs(S) : t \in run[1] .. run[2]
  BY DEF LongRuns
<1> QED BY <1>1, RunsInside

(* What a request that comes is given: blocks to repair, tokens to reuse    *)
(* behind what is cached, and copies of blocks of the plan that hold them   *)
(* and that are not repaired.                                               *)
Adds(r, n, chosen, tokens, copies) ==
  /\ chosen \in SUBSET Nat /\ chosen \subseteq Affected[r]
  /\ tokens \in SUBSET Token /\ copies \in SUBSET Token
  /\ tokens \subseteq copies /\ copies \cap TokensOf(chosen) = {}
  /\ \A t \in copies : n <= t
  /\ repairs' = [repairs EXCEPT ![r] = chosen]
  /\ reused' = [reused EXCEPT ![r] = tokens]
  /\ copied' = [copied EXCEPT ![r] = copies]

(* A request that comes is given such blocks, tokens and copies.            *)
LEMMA AddPicks ==
  ASSUME AddRequest, Head(new) \in Request, NEW n \in Nat,
         plan \in [Request -> SUBSET Nat],
         \A b \in plan[Head(new)] : n <= b * BlockSize
  PROVE  \E chosen, tokens, copies : Adds(Head(new), n, chosen, tokens, copies)
<1> DEFINE r == Head(new)
           Tokens(chosen) == LongRuns(r, CandidateTokens(r, chosen))
<1>1. PICK chosen \in Selections(r) :
        /\ repairs' = [repairs EXCEPT ![r] = chosen]
        /\ reused' = [reused EXCEPT ![r] = Tokens(chosen)]
        /\ copied' = [copied EXCEPT ![r] = TokensOf(BlocksWith(Tokens(chosen)))]
  BY DEF AddRequest
<1> DEFINE tokens == Tokens(chosen)
           copies == TokensOf(BlocksWith(tokens))
<1>2. tokens \subseteq TokensOf(Resolved(r)) \ TokensOf(chosen)
  BY LongRunsInside DEF CandidateTokens
<1>3. chosen \subseteq Resolved(r) \cap Affected[r]
  BY DEF Selections
<1> HIDE DEF r, Tokens, tokens
<1>4. Resolved(r) \subseteq plan[r] /\ plan[r] \subseteq Nat
  BY DEF Resolved, r
<1>5. tokens \subseteq Token
  BY <1>2 DEF TokensOf
<1>6. copies \subseteq Token
  BY DEF TokensOf
<1>7. tokens \subseteq copies
  BY <1>5 DEF TokensOf, BlocksWith
<1>8. ASSUME NEW t \in copies
      PROVE  t \notin TokensOf(chosen) /\ n <= t
  <2>1. t \in Token /\ t \div BlockSize \in BlocksWith(tokens)
    BY DEF TokensOf
  <2>2. PICK u \in tokens : u \div BlockSize = t \div BlockSize
    BY <2>1 DEF BlocksWith
  <2>3. /\ u \in Token /\ u \div BlockSize \in Resolved(r)
        /\ u \div BlockSize \notin chosen
    BY <1>2 DEF TokensOf
  <2>4. t \notin TokensOf(chosen)
    BY <2>2, <2>3 DEF TokensOf
  <2>5. t \in Nat /\ BlockSize \in Nat \ {0}
    BY <2>1, TokenTyped, PromptAssumption
  <2> DEFINE b == t \div BlockSize
  <2>6. b \in Nat /\ b * BlockSize <= t
    BY <2>5, BlockBegins
  <2>7. b \in plan[r]
    BY <1>4, <2>2, <2>3
  <2>8. n <= b * BlockSize
    <3> HIDE DEF b
    <3> QED BY <2>7 DEF r
  <2>9. b * BlockSize \in Nat
    <3> HIDE DEF b
    <3> QED BY <2>5, <2>6
  <2>10. n <= t
    <3> DEFINE p == b * BlockSize
    <3>1. p \in Nat /\ n <= p /\ p <= t
      BY <2>6, <2>8, <2>9
    <3> HIDE DEF p
    <3> QED BY <2>5, <3>1
  <2> QED BY <2>4, <2>10
<1>9. copies \cap TokensOf(chosen) = {} /\ \A t \in copies : n <= t
  BY <1>8
<1>10. /\ repairs' = [repairs EXCEPT ![r] = chosen]
       /\ reused' = [reused EXCEPT ![r] = tokens]
       /\ copied' = [copied EXCEPT ![r] = copies]
  BY <1>1 DEF tokens, Tokens
<1> HIDE DEF copies
<1>11. Adds(r, n, chosen, tokens, copies)
  BY <1>3, <1>4, <1>5, <1>6, <1>7, <1>9, <1>10 DEF Adds
<1> QED BY <1>11 DEF r

(* A request that comes to the worker keeps the invariant.                  *)
LEMMA AddRequestKeeps == ASSUME SpanInv, AddRequest PROVE SpanInv'
<1> DEFINE r == Head(new)
           m == Tail(new)
<1>1. /\ phase = "add" /\ phase' = "add" /\ new # << >> /\ new' = m /\ batch' = batch
      /\ UNCHANGED <<waiting, running, length, computed, plan, written, spans, hidden>>
      /\ metrics' \subseteq metrics \cup {r}
  BY DEF AddRequest, scheduler
<1>2. /\ new \in Seq(Request) /\ IsInjective(new) /\ ToSet(new) \subseteq OnBatch
      /\ batch \in Seq(RowType)
      /\ \A i, j \in 1 .. Len(batch) : batch[i].req = batch[j].req => i = j
  BY <1>1 DEF SpanInv, Queues, GoodRows
<1>3. /\ m \in Seq(Request) /\ IsInjective(m) /\ r \in Request /\ r \in ToSet(new)
      /\ ToSet(m) = ToSet(new) \ {r}
  BY <1>1, <1>2, TailElements
<1>4. PICK k \in 1 .. Len(batch) : batch[k].req = r
  BY <1>2, <1>3 DEF OnBatch
<1> DEFINE n == batch[k].start
<1>5. /\ n \in Nat /\ \A b \in plan[r] : n <= b * BlockSize
      /\ written[r] = {t \in Token : t < n}
      /\ plan \in [Request -> SUBSET Nat]
  <2>1. n \in Nat
    BY <1>2, RowTyped
  <2>2. \A b \in plan[batch[k].req] : n <= b * BlockSize
    BY <1>1, <1>3, <1>4 DEF SpanInv, Tables
  <2>3. written[batch[k].req] = {t \in Token : t < batch[k].start}
    BY <1>1, <1>3, <1>4 DEF SpanInv, Tables
  <2> QED BY <1>4, <2>1, <2>2, <2>3 DEF SpanInv, Tables
<1>6. PICK chosen, tokens, copies : Adds(r, n, chosen, tokens, copies)
  <2> HIDE DEF n
  <2> QED BY <1>3, <1>5, AddPicks
<1> HIDE DEF r, m
<1>7. /\ repairs \in [Request -> SUBSET Nat] /\ reused \in [Request -> SUBSET Token]
      /\ copied \in [Request -> SUBSET Token] /\ written \in [Request -> SUBSET Token]
      /\ \A q \in Request :
           /\ plan[q] \subseteq Candidates[q] /\ repairs[q] \subseteq Affected[q]
           /\ written[q] \cap copied[q] = {} /\ copied[q] \cap TokensOf(repairs[q]) = {}
  BY DEF SpanInv, Tables
<1>8. /\ repairs' \in [Request -> SUBSET Nat] /\ reused' \in [Request -> SUBSET Token]
      /\ copied' \in [Request -> SUBSET Token]
      /\ repairs'[r] = chosen /\ reused'[r] = tokens /\ copied'[r] = copies
      /\ \A q \in Request : q # r => /\ repairs'[q] = repairs[q]
                                     /\ reused'[q] = reused[q] /\ copied'[q] = copied[q]
  BY <1>3, <1>6, <1>7 DEF Adds
<1>9. \A t \in Nat : t \in written[r] => t < n
  BY <1>5
<1>10. OnBatch' = OnBatch
  BY <1>1 DEF OnBatch
<1>11. Queues'
  BY <1>1, <1>2, <1>3, <1>10 DEF SpanInv, Queues
<1>12. GoodRows'
  BY <1>1 DEF SpanInv, GoodRows, RowFits
<1>13. Lengths'
  BY <1>1, <1>10 DEF SpanInv, Lengths
<1>14. Tables'
  <2>1. ASSUME NEW q \in Request
        PROVE  /\ repairs'[q] \subseteq Affected[q] /\ written[q] \cap copied'[q] = {}
               /\ copied'[q] \cap TokensOf(repairs'[q]) = {}
    <3>1. CASE q = r
      <4>1. /\ chosen \subseteq Affected[r] /\ copies \cap TokensOf(chosen) = {}
            /\ copies \subseteq Token /\ \A t \in copies : n <= t
        BY <1>6 DEF Adds
      <4>2. written[r] \cap copies = {}
        <5> SUFFICES ASSUME NEW t \in written[r], t \in copies PROVE FALSE
          OBVIOUS
        <5>1. t \in Nat /\ t < n /\ n <= t /\ n \in Nat
          BY <1>5, <1>9, <4>1, TokenTyped
        <5> HIDE DEF n
        <5> QED BY <5>1
      <4> QED BY <1>8, <3>1, <4>1, <4>2
    <3>2. CASE q # r
      BY <1>7, <1>8, <3>2
    <3> QED BY <3>1, <3>2
  <2>2. metrics' \in SUBSET Request /\ \A q \in metrics' : q \in OnBatch
    <3>1. metrics \in SUBSET Request /\ \A q \in metrics : q \in OnBatch
      BY DEF SpanInv, Tables
    <3> QED BY <1>1, <1>2, <1>3, <3>1
  <2>3. /\ \A i \in 1 .. Len(batch) :
             LET row == batch[i] IN
             row.req \in ToSet(m) =>
               /\ \A b \in plan[row.req] : row.start <= b * BlockSize
               /\ written[row.req] = {t \in Token : t < row.start}
        /\ hidden = {}
    BY <1>1, <1>3 DEF SpanInv, Tables
  <2> QED BY <1>1, <1>5, <1>7, <1>8, <1>10, <2>1, <2>2, <2>3 DEF Tables, TokensOf, Busy
<1>15. Present'
  <2> DEFINE FilledThen(q, x) == \A t \in Token : t < x => t \in written[q] \cup copied'[q]
             LaterThen(q, x) == \A t \in reused'[q] : t >= x => t \in copied'[q]
  <2>1. ASSUME NEW q \in ToSet(running) \ OnBatch
        PROVE  FilledThen(q, computed[q]) /\ LaterThen(q, computed[q])
    <3>1. q \in Request /\ q # r
      BY <1>2, <1>3 DEF SpanInv, Queues, ToSet
    <3>2. Ready(q, computed[q])
      BY <1>1 DEF SpanInv, Present, Busy
    <3> QED BY <1>8, <3>1, <3>2 DEF Ready, Filled, Later
  <2>2. ASSUME NEW i \in 1 .. Len(batch)
        PROVE  FilledThen(batch[i].req, batch[i].start) /\ LaterThen(batch[i].req, batch[i].start)
    <3>1. CASE i = k
      <4>1. /\ \A t \in Token : t < n => t \in written[r]
            /\ tokens \subseteq copies
        BY <1>5, <1>6 DEF Adds
      <4> QED BY <1>4, <1>8, <3>1, <4>1
    <3>2. CASE i # k
      <4>1. batch[i].req # r /\ batch[i].req \in Request
        BY <1>2, <1>4, <3>2, RowTyped
      <4>2. Filled(batch[i].req, batch[i].start) /\ Later(batch[i].req, batch[i].start)
        BY <1>1 DEF SpanInv, Present, Busy
      <4> QED BY <1>8, <4>1, <4>2 DEF Filled, Later
    <3> QED BY <3>1, <3>2
  <2>3. phase' \in Busy /\ phase' # "execute"
    BY <1>1 DEF Busy
  <2> QED BY <1>1, <1>10, <2>1, <2>2, <2>3 DEF Present, Ready, Filled, Later, Busy
<1>16. Executing'
  BY <1>1 DEF Executing
<1> QED BY <1>11, <1>12, <1>13, <1>14, <1>15, <1>16 DEF SpanInv

(* An error ends the engine and changes nothing else.                       *)
LEMMA RaiseKeeps ==
  ASSUME SpanInv, RaiseCounterfactual \/ RaiseUnmeasured
  PROVE  SpanInv'
<1>1. /\ phase = "add" /\ phase' = "failed" /\ new' = new /\ batch' = batch
      /\ UNCHANGED <<waiting, running, length, computed, plan, written, spans, hidden>>
      /\ UNCHANGED <<repairs, reused, metrics, copied>>
  BY DEF RaiseCounterfactual, RaiseUnmeasured, scheduler, tables, cache
<1>2. OnBatch' = OnBatch
  BY <1>1 DEF OnBatch
<1>3. Queues'
  BY <1>1, <1>2 DEF SpanInv, Queues, Busy
<1>4. GoodRows'
  BY <1>1 DEF SpanInv, GoodRows, RowFits, Busy
<1>5. Lengths'
  BY <1>1, <1>2 DEF SpanInv, Lengths, Busy
<1>6. Tables'
  BY <1>1, <1>2 DEF SpanInv, Tables, TokensOf, Busy
<1>7. Present'
  BY <1>1, <1>2 DEF SpanInv, Present, Ready, Filled, Later, Busy
<1>8. Executing'
  BY <1>1 DEF Executing
<1> QED BY <1>3, <1>4, <1>5, <1>6, <1>7, <1>8 DEF SpanInv

-----------------------------------------------------------------------------
(* The rows of a step are run.                                              *)

(* What the batch and its requests are while a step is on the worker.       *)
LEMMA StepRows ==
  ASSUME SpanInv, phase \in {"add", "execute"}
  PROVE  /\ batch \in Seq(RowType) /\ DOMAIN batch = 1 .. Len(batch)
         /\ CountOf(batch) \in Nat
         /\ \A i, j \in 1 .. Len(batch) : batch[i].req = batch[j].req => i = j
         /\ \A i \in 1 .. Len(batch) :
              /\ batch[i].req \in Request /\ batch[i].req \in ToSet(running)
              /\ batch[i].start \in Nat /\ batch[i].count \in Nat \ {0}
              /\ computed[batch[i].req] = batch[i].start + batch[i].count
              /\ batch[i].start + batch[i].count <= length[batch[i].req]
<1>1. /\ batch \in Seq(RowType)
      /\ \A i, j \in 1 .. Len(batch) : batch[i].req = batch[j].req => i = j
      /\ \A i \in 1 .. Len(batch) : RowFits(batch[i])
  BY DEF SpanInv, GoodRows
<1>2. DOMAIN batch = 1 .. Len(batch) /\ CountOf(batch) \in Nat
  BY <1>1, CountTyped
<1> QED BY <1>1, <1>2, RowTyped DEF RowFits, Busy

(* Every row is put into a span, or it is protected and keeps its copy.     *)
LEMMA PreparedRows ==
  ASSUME SpanInv, PrepareInputs
  PROVE  /\ \A span \in spans' : /\ span \in Int \X Int
                                 /\ span[1] .. span[2] \subseteq BatchRows
         /\ \A k \in RequiredRows : \E span \in spans' : k \in span[1] .. span[2]
         /\ \A i \in 1 .. Len(batch) : \A k \in RowsOf(i) :
              \/ \E span \in spans' : k \in span[1] .. span[2]
              \/ TokenAt(i, k) \in copied[batch[i].req] \cap reused[batch[i].req]
<1> DEFINE n == CountOf(batch)
           InSpanThen(k) == \E span \in spans' : k \in span[1] .. span[2]
<1>1. phase = "add" /\ spans' = IF Eligible THEN Runs(BatchRows \ ProtectedRows(1))
                                ELSE {<<0, n - 1>>}
  BY DEF PrepareInputs
<1>2. /\ batch \in Seq(RowType) /\ DOMAIN batch = 1 .. Len(batch) /\ n \in Nat
      /\ \A i \in 1 .. Len(batch) : batch[i].start \in Nat
  BY <1>1, StepRows
<1> HIDE DEF n
<1>3. BatchRows = 0 .. n - 1
  BY DEF BatchRows, n
<1>4. \A i \in 1 .. Len(batch) : RowsOf(i) \subseteq BatchRows
  BY <1>2, RowPlaces
<1>5. RequiredRows \subseteq BatchRows
  <2> SUFFICES ASSUME NEW i \in 1 .. Len(batch)
               PROVE  Offset(i) + batch[i].count - 1 \in BatchRows
    BY <1>2 DEF RequiredRows
  <2> QED BY <1>2, <1>4, RowPlaces
<1>6. CASE ~ Eligible
  <2> DEFINE span == <<0, n - 1>>
  <2>1. /\ spans' = {span} /\ span \in Int \X Int /\ span[1] = 0 /\ span[2] = n - 1
    BY <1>1, <1>2, <1>6
  <2> HIDE DEF span
  <2>2. span[1] .. span[2] = BatchRows
    BY <1>3, <2>1
  <2> QED BY <1>4, <1>5, <2>1, <2>2
<1>7. CASE Eligible
  <2> DEFINE S == BatchRows \ ProtectedRows(1)
  <2>1. spans' = Runs(S) /\ S \in SUBSET (0 .. n - 1)
    BY <1>1, <1>3, <1>7
  <2>2. Len(batch) = 1
    BY <1>7 DEF Eligible
  <2> HIDE DEF S
  <2>3. \A k \in S : InSpanThen(k)
    BY <1>2, <2>1, RunsCover
  <2>4. \A span \in spans' : span \in S \X S /\ span[1] .. span[2] \subseteq S
    BY <2>1, RunsInside
  <2>5. S \subseteq Int /\ S \subseteq BatchRows
    BY <1>2, <1>3, <2>1
  <2>6. \A span \in spans' : span \in Int \X Int /\ span[1] .. span[2] \subseteq BatchRows
    BY <2>4, <2>5
  <2>7. \A k \in RequiredRows : InSpanThen(k)
    BY <1>5, <2>3 DEF S, ProtectedRows
  <2>8. ASSUME NEW i \in 1 .. Len(batch), NEW k \in RowsOf(i), ~ InSpanThen(k)
        PROVE  TokenAt(i, k) \in copied[batch[i].req] \cap reused[batch[i].req]
    <3>1. i = 1
      BY <2>2
    <3>2. k \in ReusedRows(1)
      BY <1>4, <2>3, <2>8, <3>1 DEF S, ProtectedRows
    <3>3. TokenAt(i, k) \in reused[batch[i].req]
      BY <3>1, <3>2 DEF ReusedRows
    <3>4. TokenAt(i, k) \in Nat /\ batch[i].start <= TokenAt(i, k) /\ batch[i].start \in Nat
      BY <1>2, TokenPlaces
    <3>5. Later(batch[i].req, batch[i].start)
      BY <1>1 DEF SpanInv, Present, Busy
    <3> DEFINE t == TokenAt(i, k)
               s == batch[i].start
    <3>6. t >= s
      <4> HIDE DEF t, s
      <4>1. t \in Nat /\ s <= t /\ s \in Nat
        BY <3>4 DEF t, s
      <4> QED BY <4>1
    <3> QED BY <3>3, <3>5, <3>6 DEF Later
  <2> QED BY <2>6, <2>7, <2>8
<1> QED BY <1>6, <1>7

(* The spans of a step and what is protected cover its rows.                *)
LEMMA PrepareInputsKeeps == ASSUME SpanInv, PrepareInputs PROVE SpanInv'
<1>1. /\ phase = "add" /\ phase' = "execute" /\ new = << >> /\ new' = new /\ batch' = batch
      /\ UNCHANGED <<waiting, running, length, computed, plan, written>>
      /\ UNCHANGED <<repairs, reused, metrics, copied>> /\ hidden' = {}
  BY DEF PrepareInputs, scheduler, tables, cache
<1>2. OnBatch' = OnBatch
  BY <1>1 DEF OnBatch
<1>3. Queues'
  BY <1>1, <1>2 DEF SpanInv, Queues, Busy
<1>4. GoodRows'
  BY <1>1 DEF SpanInv, GoodRows, RowFits, Busy
<1>5. Lengths'
  BY <1>1, <1>2 DEF SpanInv, Lengths, Busy
<1>6. Tables'
  <2>1. ToSet(new) = {}
    BY <1>1, NoElements
  <2> QED BY <1>1, <1>2, <2>1 DEF SpanInv, Tables, TokensOf, Busy
<1>7. Present'
  <2>1. ASSUME NEW i \in 1 .. Len(batch)
        PROVE  Filled(batch[i].req, batch[i].start) /\ Later(batch[i].req, computed[batch[i].req])
    <3>1. Filled(batch[i].req, batch[i].start) /\ Later(batch[i].req, batch[i].start)
      BY <1>1 DEF SpanInv, Present, Busy
    <3>2. batch[i].start \in Nat /\ batch[i].count \in Nat
          /\ computed[batch[i].req] = batch[i].start + batch[i].count
          /\ batch[i].req \in Request
      BY <1>1, StepRows
    <3>3. \A t \in Nat : t >= computed[batch[i].req] => t >= batch[i].start
      BY <3>2
    <3>4. reused[batch[i].req] \subseteq Nat
      BY <3>2, TokenTyped DEF SpanInv, Tables
    <3> QED BY <3>1, <3>3, <3>4 DEF Later
  <2>2. \A q \in ToSet(running) \ OnBatch : Ready(q, computed[q])
    BY <1>1 DEF SpanInv, Present, Busy
  <2> QED BY <1>1, <1>2, <2>1, <2>2 DEF Present, Ready, Filled, Later, Busy
<1>8. Executing'
  <2>1. /\ \A span \in spans' : /\ span \in Int \X Int
                                /\ span[1] .. span[2] \subseteq BatchRows
        /\ \A k \in RequiredRows : \E span \in spans' : k \in span[1] .. span[2]
        /\ \A i \in 1 .. Len(batch) : \A k \in RowsOf(i) :
             \/ \E span \in spans' : k \in span[1] .. span[2]
             \/ TokenAt(i, k) \in copied[batch[i].req] \cap reused[batch[i].req]
    BY PreparedRows
  <2> QED BY <1>1, <2>1
          DEF Executing, InSpan, BatchRows, RequiredRows, RowsOf, TokenAt, Offset
<1> QED BY <1>3, <1>4, <1>5, <1>6, <1>7, <1>8 DEF SpanInv

(* A span computes, of each request of the batch, the tokens of the rows it *)
(* holds, and of the other requests none.                                   *)
LEMMA ComputesRows ==
  ASSUME DOMAIN batch = 1 .. Len(batch),
         \A i, j \in 1 .. Len(batch) : batch[i].req = batch[j].req => i = j,
         NEW span
  PROVE  /\ \A i \in 1 .. Len(batch) :
              Computes(span, batch[i].req) =
                {TokenAt(i, k) : k \in RowsOf(i) \cap (span[1] .. span[2])}
         /\ \A q : q \notin OnBatch => Computes(span, q) = {}
<1>1. ASSUME NEW i \in 1 .. Len(batch)
      PROVE  Computes(span, batch[i].req) =
               {TokenAt(i, k) : k \in RowsOf(i) \cap (span[1] .. span[2])}
  <2>1. {j \in DOMAIN batch : batch[j].req = batch[i].req} = {i}
    OBVIOUS
  <2> QED BY <2>1 DEF Computes
<1>2. ASSUME NEW q, q \notin OnBatch PROVE Computes(span, q) = {}
  <2>1. {j \in DOMAIN batch : batch[j].req = q} = {}
    BY <1>2 DEF OnBatch
  <2> QED BY <2>1 DEF Computes
<1> QED BY <1>1, <1>2

(* A token is computed by a span just when its row is in the span.          *)
LEMMA ComputedRow ==
  ASSUME SpanInv, phase = "execute", NEW span,
         NEW i \in 1 .. Len(batch), NEW k \in RowsOf(i)
  PROVE  TokenAt(i, k) \in Computes(span, batch[i].req) <=> k \in span[1] .. span[2]
<1>1. /\ batch \in Seq(RowType) /\ DOMAIN batch = 1 .. Len(batch)
      /\ \A h, j \in 1 .. Len(batch) : batch[h].req = batch[j].req => h = j
  BY StepRows
<1>2. Computes(span, batch[i].req) =
        {TokenAt(i, j) : j \in RowsOf(i) \cap (span[1] .. span[2])}
  BY <1>1, ComputesRows
<1>3. ASSUME NEW j \in RowsOf(i), TokenAt(i, j) = TokenAt(i, k)
      PROVE  j = k
  <2>1. /\ j \in Nat /\ k \in Nat /\ Offset(i) \in Nat /\ batch[i].start \in Nat
        /\ TokenAt(i, j) = batch[i].start + (j - Offset(i))
        /\ TokenAt(i, k) = batch[i].start + (k - Offset(i))
    BY <1>1, TokenPlaces, RowPlaces, RowTyped
  <2>2. PICK o \in Nat, s \in Nat : o = Offset(i) /\ s = batch[i].start
    BY <2>1
  <2>3. s + (j - o) = s + (k - o)
    BY <1>3, <2>1, <2>2
  <2> QED BY <2>1, <2>2, <2>3
<1> QED BY <1>2, <1>3

(* What a span computes are tokens of the step.                             *)
LEMMA ComputedTokens ==
  ASSUME SpanInv, phase = "execute", NEW span, NEW i \in 1 .. Len(batch),
         NEW t \in Computes(span, batch[i].req)
  PROVE  t \in Token /\ t < computed[batch[i].req]
<1>1. /\ batch \in Seq(RowType) /\ DOMAIN batch = 1 .. Len(batch)
      /\ \A h, j \in 1 .. Len(batch) : batch[h].req = batch[j].req => h = j
  BY StepRows
<1>2. PICK k \in RowsOf(i) : t = TokenAt(i, k)
  <2>1. Computes(span, batch[i].req) =
          {TokenAt(i, k) : k \in RowsOf(i) \cap (span[1] .. span[2])}
    BY <1>1, ComputesRows
  <2> QED BY <2>1
<1> DEFINE q == batch[i].req
           n == batch[i].start + batch[i].count
<1>3. /\ q \in Request /\ n \in Nat /\ computed[q] = n /\ n <= length[q]
  BY StepRows
<1>4. t \in Nat /\ t < n
  BY <1>1, <1>2, TokenPlaces
<1> HIDE DEF q, n
<1>5. /\ length[q] \in Nat /\ length[q] <= Prompt[q] + Outputs[q]
      /\ Prompt[q] \in Nat /\ Outputs[q] \in Nat
  BY <1>3, PromptAssumption DEF SpanInv, Lengths
<1>6. t \in 0 .. Prompt[q] + Outputs[q]
  BY <1>3, <1>4, <1>5
<1>7. t \in Token
  BY <1>3, <1>6 DEF Token
<1> QED BY <1>3, <1>4, <1>7 DEF q

(* A span that has run computed its rows and touched no others.             *)
LEMMA ExecuteSpanKeeps == ASSUME SpanInv, ExecuteSpan PROVE SpanInv'
<1>1. /\ phase = "execute" /\ phase' = "execute" /\ new' = new /\ batch' = batch
      /\ UNCHANGED <<waiting, running, length, computed, plan, repairs, reused, metrics>>
  BY DEF ExecuteSpan, scheduler, tables
<1>2. PICK span \in spans :
        /\ spans' = spans \ {span}
        /\ hidden' = hidden \cup (span[1] .. span[2])
        /\ written' = [r \in Request |-> written[r] \cup Computes(span, r)]
        /\ copied' = [r \in Request |-> copied[r] \ Computes(span, r)]
  BY DEF ExecuteSpan
<1>3. /\ batch \in Seq(RowType) /\ DOMAIN batch = 1 .. Len(batch)
      /\ \A i, j \in 1 .. Len(batch) : batch[i].req = batch[j].req => i = j
      /\ \A i \in 1 .. Len(batch) : batch[i].req \in Request
  BY <1>1, StepRows
<1>4. \A q : q \notin OnBatch => Computes(span, q) = {}
  BY <1>3, ComputesRows
<1>5. /\ reused \in [Request -> SUBSET Token] /\ copied \in [Request -> SUBSET Token]
      /\ written \in [Request -> SUBSET Token]
      /\ \A q \in Request :
           written[q] \cap copied[q] = {} /\ copied[q] \cap TokensOf(repairs[q]) = {}
  BY DEF SpanInv, Tables
<1>6. \A q \in Request : /\ written'[q] = written[q] \cup Computes(span, q)
                         /\ copied'[q] = copied[q] \ Computes(span, q)
  BY <1>2
<1>7. \A q \in Request : Computes(span, q) \subseteq Token
  <2> SUFFICES ASSUME NEW q \in Request, NEW t \in Computes(span, q) PROVE t \in Token
    OBVIOUS
  <2>1. PICK i \in 1 .. Len(batch) : q = batch[i].req
    BY <1>4 DEF OnBatch
  <2> QED BY <1>1, <2>1, ComputedTokens
<1>8. OnBatch' = OnBatch
  BY <1>1 DEF OnBatch
<1>9. Queues'
  BY <1>1, <1>8 DEF SpanInv, Queues
<1>10. GoodRows'
  BY <1>1 DEF SpanInv, GoodRows, RowFits
<1>11. Lengths'
  BY <1>1, <1>8 DEF SpanInv, Lengths
<1>12. Tables'
  <2>1. ASSUME NEW q \in Request
        PROVE  /\ written'[q] \in SUBSET Token /\ copied'[q] \in SUBSET Token
               /\ written'[q] \cap copied'[q] = {} /\ copied'[q] \cap TokensOf(repairs[q]) = {}
    BY <1>5, <1>6, <1>7
  <2>2. /\ written' = [r \in Request |-> written'[r]] /\ copied' = [r \in Request |-> copied'[r]]
    BY <1>2, <1>6
  <2>3. written' \in [Request -> SUBSET Token] /\ copied' \in [Request -> SUBSET Token]
    BY <2>1, <2>2
  <2>4. new = << >> /\ ToSet(new) = {}
    BY <1>1, NoElements DEF SpanInv, Queues
  <2>5. /\ plan \in [Request -> SUBSET Nat] /\ repairs \in [Request -> SUBSET Nat]
        /\ \A q \in Request : plan[q] \subseteq Candidates[q] /\ repairs[q] \subseteq Affected[q]
        /\ metrics \in SUBSET Request
        /\ \A q \in metrics : phase \in Busy /\ q \in OnBatch
    BY DEF SpanInv, Tables
  <2> QED BY <1>1, <1>5, <1>8, <2>1, <2>3, <2>4, <2>5 DEF Tables, TokensOf
<1>13. Present'
  <2>1. ASSUME NEW i \in 1 .. Len(batch)
        PROVE  /\ \A t \in Token : t < batch[i].start =>
                    t \in written'[batch[i].req] \cup copied'[batch[i].req]
               /\ \A t \in reused[batch[i].req] :
                    t >= computed[batch[i].req] => t \in copied'[batch[i].req]
    <3>1. Filled(batch[i].req, batch[i].start) /\ Later(batch[i].req, computed[batch[i].req])
      BY <1>1 DEF SpanInv, Present, Busy
    <3>2. batch[i].req \in Request /\ computed[batch[i].req] \in Nat
      BY <1>3 DEF SpanInv, Lengths
    <3>3. \A t \in Computes(span, batch[i].req) : t \in Nat /\ t < computed[batch[i].req]
      BY <1>1, ComputedTokens, TokenTyped
    <3>4. \A t \in Computes(span, batch[i].req) : ~ (t >= computed[batch[i].req])
      BY <3>2, <3>3
    <3> QED BY <1>6, <3>1, <3>2, <3>4 DEF Filled, Later
  <2>2. ASSUME NEW q \in ToSet(running) \ OnBatch
        PROVE  /\ \A t \in Token : t < computed[q] => t \in written'[q] \cup copied'[q]
               /\ \A t \in reused[q] : t >= computed[q] => t \in copied'[q]
    <3>1. q \in Request /\ Computes(span, q) = {}
      BY <1>4 DEF SpanInv, Queues, ToSet
    <3>2. Ready(q, computed[q])
      BY <1>1 DEF SpanInv, Present, Busy
    <3> QED BY <1>6, <3>1, <3>2 DEF Ready, Filled, Later
  <2> QED BY <1>1, <1>8, <2>1, <2>2 DEF Present, Ready, Filled, Later, Busy
<1>14. Executing'
  <2>1. /\ \A s \in spans : s \in Int \X Int /\ s[1] .. s[2] \subseteq BatchRows
        /\ hidden \subseteq BatchRows
        /\ \A k \in RequiredRows : k \in hidden \/ InSpan(k)
        /\ \A i \in 1 .. Len(batch) : \A k \in RowsOf(i) :
             IF k \in hidden THEN TokenAt(i, k) \in written[batch[i].req]
             ELSE \/ InSpan(k)
                  \/ TokenAt(i, k) \in copied[batch[i].req] \cap reused[batch[i].req]
    BY <1>1 DEF SpanInv, Executing
  <2> DEFINE InSpanThen(k) == \E s \in spans' : k \in s[1] .. s[2]
  <2>2. \A k : InSpan(k) => k \in span[1] .. span[2] \/ InSpanThen(k)
    BY <1>2 DEF InSpan
  <2>3. ASSUME NEW i \in 1 .. Len(batch), NEW k \in RowsOf(i)
        PROVE  IF k \in hidden' THEN TokenAt(i, k) \in written'[batch[i].req]
               ELSE \/ InSpanThen(k)
                    \/ TokenAt(i, k) \in copied'[batch[i].req] \cap reused[batch[i].req]
    <3>1. TokenAt(i, k) \in Computes(span, batch[i].req) <=> k \in span[1] .. span[2]
      BY <1>1, ComputedRow
    <3>2. /\ written'[batch[i].req] = written[batch[i].req] \cup Computes(span, batch[i].req)
          /\ copied'[batch[i].req] = copied[batch[i].req] \ Computes(span, batch[i].req)
      BY <1>3, <1>6
    <3>3. CASE k \in span[1] .. span[2]
      BY <1>2, <3>1, <3>2, <3>3
    <3>4. CASE k \notin span[1] .. span[2]
      <4> HIDE DEF InSpanThen
      <4>1. k \in hidden' <=> k \in hidden
        BY <1>2, <3>4
      <4>2. CASE k \in hidden
        BY <2>1, <3>2, <4>1, <4>2
      <4>3. CASE k \notin hidden
        <5>1. \/ InSpan(k)
              \/ TokenAt(i, k) \in copied[batch[i].req] \cap reused[batch[i].req]
          BY <2>1, <4>3
        <5> QED BY <2>2, <3>1, <3>2, <3>4, <4>1, <4>3, <5>1
      <4> QED BY <4>2, <4>3
    <3> QED BY <3>3, <3>4
  <2>4. /\ \A s \in spans' : s \in Int \X Int /\ s[1] .. s[2] \subseteq BatchRows
        /\ hidden' \subseteq BatchRows
    BY <1>2, <2>1
  <2>5. \A k \in RequiredRows : k \in hidden' \/ InSpanThen(k)
    <3> HIDE DEF InSpanThen
    <3> QED BY <1>2, <2>1, <2>2
  <2> QED BY <1>1, <2>3, <2>4, <2>5
          DEF Executing, InSpan, BatchRows, RequiredRows, RowsOf, TokenAt, Offset
<1> QED BY <1>9, <1>10, <1>11, <1>12, <1>13, <1>14 DEF SpanInv

(* A queue without some of its requests.                                    *)
LEMMA ThoseLeft ==
  ASSUME NEW requests \in Seq(Request), IsInjective(requests), NEW keep
  PROVE  LET left == Those(requests, keep)
         IN  /\ left \in Seq(Request) /\ IsInjective(left)
             /\ ToSet(left) = ToSet(requests) \cap keep
<1>1. Those(requests, keep) = Kept(requests, keep)
  BY DEF Those, Kept, FoldLeft, MapThenFoldSet
<1>2. /\ Those(requests, keep) \in Seq(Request)
      /\ ToSet(Those(requests, keep)) = ToSet(requests) \cap keep
      /\ \A b, c : Precedes(Those(requests, keep), b, c) <=>
                     Precedes(requests, b, c) /\ b \in keep /\ c \in keep
  BY <1>1, KeptOrder
<1>3. IsInjective(Those(requests, keep))
  BY <1>2, InjectiveIsStrict
<1> QED BY <1>2, <1>3

(* Where all spans have run, the tokens of the step have their KV.          *)
LEMMA StepIsFilled ==
  ASSUME SpanInv, phase = "execute", spans = {}, NEW i \in 1 .. Len(batch)
  PROVE  Ready(batch[i].req, computed[batch[i].req])
<1> DEFINE q == batch[i].req
           s == batch[i].start
<1>1. /\ batch \in Seq(RowType) /\ s \in Nat /\ batch[i].count \in Nat
      /\ computed[q] = s + batch[i].count
  BY StepRows
<1>2. Filled(q, s) /\ Later(q, computed[q])
  BY DEF SpanInv, Present, Busy
<1>3. ASSUME NEW t \in Token, t < computed[q]
      PROVE  t \in written[q] \cup copied[q]
  <2>1. t \in Nat
    BY TokenTyped
  <2>2. CASE t < s
    BY <1>2, <2>2 DEF Filled
  <2>3. CASE ~ t < s
    <3>1. s <= t /\ t < s + batch[i].count
      BY <1>1, <1>3, <2>1, <2>3
    <3>2. PICK k \in RowsOf(i) : TokenAt(i, k) = t
      BY <1>1, <2>1, <3>1, RowOfToken
    <3>3. ~ InSpan(k)
      BY DEF InSpan
    <3>4. IF k \in hidden THEN t \in written[q] ELSE t \in copied[q]
      BY <3>2, <3>3 DEF SpanInv, Executing
    <3> QED BY <3>4
  <2> QED BY <2>2, <2>3
<1>4. Filled(q, computed[q])
  BY <1>3 DEF Filled
<1> QED BY <1>2, <1>4 DEF Ready

(* After a step its requests are filled up to what is computed.             *)
LEMMA SampleKeeps == ASSUME SpanInv, Sample PROVE SpanInv'
<1> DEFINE sampled == {r \in ToSet(running) : computed[r] = length[r]}
           done == {r \in sampled : length[r] = Prompt[r] + Outputs[r] - 1}
           u == Those(running, Request \ done)
<1>1. /\ phase = "execute" /\ spans = {} /\ phase' = "idle" /\ hidden' = {}
      /\ metrics' = metrics \ {row.req : row \in ToSet(batch)}
      /\ length' = [r \in Request |-> IF r \in sampled THEN length[r] + 1 ELSE length[r]]
      /\ running' = u /\ new' = new /\ batch' = batch
      /\ UNCHANGED <<waiting, computed, plan, repairs, reused, written, copied>>
  BY DEF Sample, cache
<1>2. /\ running \in Seq(Request) /\ IsInjective(running)
      /\ ToSet(running) \cap ToSet(waiting) = {} /\ new = << >>
      /\ waiting \in Seq(Request)
  BY <1>1 DEF SpanInv, Queues
<1>3. u \in Seq(Request) /\ IsInjective(u) /\ ToSet(u) = ToSet(running) \cap (Request \ done)
  <2> HIDE DEF done
  <2> QED BY <1>2, ThoseLeft
<1> HIDE DEF u
<1>4. ToSet(u) \subseteq ToSet(running) /\ \A q \in ToSet(u) : q \in Request /\ q \notin done
  BY <1>3
<1>5. Queues'
  BY <1>1, <1>2, <1>3, <1>4 DEF SpanInv, Queues, Busy
<1>6. GoodRows'
  BY <1>1 DEF SpanInv, GoodRows
<1>7. \A q \in Request :
        /\ length[q] \in Nat /\ computed[q] \in Nat /\ computed[q] <= length[q]
        /\ Prompt[q] \in Nat /\ Outputs[q] \in Nat /\ Prompt[q] <= length[q]
        /\ length[q] <= Prompt[q] + Outputs[q]
        /\ length'[q] = IF q \in sampled THEN length[q] + 1 ELSE length[q]
  BY <1>1, PromptAssumption DEF SpanInv, Lengths
<1>8. \A q \in ToSet(running) \cup ToSet(waiting) :
        q \in Request /\ length[q] < Prompt[q] + Outputs[q]
  <2>1. ToSet(running) \subseteq Request /\ ToSet(waiting) \subseteq Request
    BY <1>2 DEF ToSet
  <2> QED BY <2>1 DEF SpanInv, Lengths
<1>9. Lengths'
  <2>1. ASSUME NEW q \in Request
        PROVE  /\ length'[q] \in Nat /\ computed[q] <= length'[q] /\ Prompt[q] <= length'[q]
               /\ length'[q] <= Prompt[q] + Outputs[q]
    <3>1. CASE q \in sampled
      <4>1. length[q] < Prompt[q] + Outputs[q]
        BY <1>8, <3>1
      <4> QED BY <1>7, <3>1, <4>1
    <3>2. CASE q \notin sampled
      BY <1>7, <3>2
    <3> QED BY <3>1, <3>2
  <2>2. ASSUME NEW q \in ToSet(u)
        PROVE  computed[q] < length'[q] /\ length'[q] < Prompt[q] + Outputs[q]
    <3>1. q \in Request /\ q \in ToSet(running) /\ length[q] < Prompt[q] + Outputs[q]
      BY <1>4, <1>8
    <3>2. CASE q \in sampled
      <4>1. length[q] # Prompt[q] + Outputs[q] - 1 /\ computed[q] = length[q]
        BY <1>4, <3>2
      <4> HIDE DEF sampled
      <4> QED BY <1>7, <3>1, <3>2, <4>1
    <3>3. CASE q \notin sampled
      <4>1. computed[q] # length[q]
        BY <3>1, <3>3
      <4> HIDE DEF sampled
      <4> QED BY <1>7, <3>1, <3>3, <4>1
    <3> QED BY <3>2, <3>3
  <2>3. ASSUME NEW q \in ToSet(waiting) PROVE length'[q] < Prompt[q] + Outputs[q]
    BY <1>2, <1>7, <1>8
  <2>4. length' \in [Request -> Nat] /\ computed \in [Request -> Nat]
    BY <1>1, <1>7, <2>1 DEF SpanInv, Lengths
  <2> HIDE DEF sampled, done
  <2> QED BY <1>1, <2>1, <2>2, <2>3, <2>4 DEF Lengths
<1>10. metrics' = {}
  <2>1. \A q \in metrics : q \in OnBatch
    BY DEF SpanInv, Tables
  <2>2. OnBatch = {row.req : row \in ToSet(batch)}
    <3>1. DOMAIN batch = 1 .. Len(batch)
      BY <1>1, StepRows
    <3> QED BY <3>1 DEF OnBatch, ToSet
  <2> QED BY <1>1, <2>1, <2>2
<1>11. Tables'
  BY <1>1, <1>10 DEF SpanInv, Tables, TokensOf
<1>12. Present'
  <2>1. ASSUME NEW q \in ToSet(running) PROVE Ready(q, computed[q])
    <3>1. CASE q \in OnBatch
      <4>1. PICK i \in 1 .. Len(batch) : q = batch[i].req
        BY <3>1 DEF OnBatch
      <4> QED BY <1>1, <4>1, StepIsFilled
    <3>2. CASE q \notin OnBatch
      BY <1>1, <3>2 DEF SpanInv, Present, Busy
    <3> QED BY <3>1, <3>2
  <2> QED BY <1>1, <1>4, <2>1 DEF Present, Ready, Filled, Later, Busy
<1>13. Executing'
  BY <1>1 DEF Executing
<1> QED BY <1>5, <1>6, <1>9, <1>11, <1>12, <1>13 DEF SpanInv

-----------------------------------------------------------------------------
(* The invariant holds throughout.                                          *)

(* Every step keeps the invariant.                                          *)
LEMMA SpanNext == SpanInv /\ [Next]_vars => SpanInv'
<1> SUFFICES ASSUME SpanInv, [Next]_vars PROVE SpanInv'
  OBVIOUS
<1>1. CASE ScheduleRunning
  BY <1>1, ScheduleRunningKeeps
<1>2. CASE SchedulePreempting
  BY <1>2, SchedulePreemptingKeeps
<1>3. CASE Admit
  BY <1>3, AdmitKeeps
<1>4. CASE Launch
  BY <1>4, LaunchKeeps
<1>5. CASE AddRequest
  BY <1>5, AddRequestKeeps
<1>6. CASE RaiseCounterfactual \/ RaiseUnmeasured
  BY <1>6, RaiseKeeps
<1>7. CASE PrepareInputs
  BY <1>7, PrepareInputsKeeps
<1>8. CASE ExecuteSpan
  BY <1>8, ExecuteSpanKeeps
<1>9. CASE Sample
  BY <1>9, SampleKeeps
<1>10. CASE UNCHANGED vars
  <2>1. /\ phase' = phase /\ new' = new /\ batch' = batch
        /\ UNCHANGED <<waiting, running, length, computed, plan, written, spans, hidden>>
        /\ UNCHANGED <<repairs, reused, metrics, copied>>
    BY <1>10 DEF vars, scheduler, tables, cache
  <2>2. OnBatch' = OnBatch
    BY <2>1 DEF OnBatch
  <2>3. Queues' /\ Lengths'
    BY <2>1, <2>2 DEF SpanInv, Queues, Lengths
  <2>4. GoodRows'
    BY <2>1 DEF SpanInv, GoodRows, RowFits
  <2>5. Tables'
    BY <2>1, <2>2 DEF SpanInv, Tables, TokensOf
  <2>6. Present'
    BY <2>1, <2>2 DEF SpanInv, Present, Ready, Filled, Later
  <2>7. Executing'
    BY <2>1 DEF SpanInv, Executing, InSpan, BatchRows, RequiredRows, RowsOf, TokenAt, Offset
  <2> QED BY <2>3, <2>4, <2>5, <2>6, <2>7 DEF SpanInv
<1> QED BY <1>1, <1>2, <1>3, <1>4, <1>5, <1>6, <1>7, <1>8, <1>9, <1>10 DEF Next

(* So it holds in every behaviour.                                          *)
LEMMA SpanInvHolds == Spec => []SpanInv
BY SpanInit, SpanNext, PTL DEF Spec

-----------------------------------------------------------------------------
(* The queues of the scheduler and the tables of the worker hold what they  *)
(* should: no request is queued twice, only running ones are on the worker, *)
(* a token is not both computed and copied, and the budget is kept.         *)
THEOREM SpanTypes == Spec => []TypeOK
<1>1. SpanInv => TypeOK
  <2> SUFFICES ASSUME SpanInv PROVE TypeOK
    OBVIOUS
  <2>1. IsInjective(running \o waiting)
    <3>1. /\ running \in Seq(Request) /\ waiting \in Seq(Request)
          /\ IsInjective(running) /\ IsInjective(waiting)
          /\ ToSet(running) \cap ToSet(waiting) = {}
      BY DEF SpanInv, Queues
    <3> QED BY <3>1, ConcatElements
  <2>2. phase # "idle" => OnBatch \subseteq ToSet(running)
    BY DEF SpanInv, GoodRows, RowFits, OnBatch
  <2>3. ToSet(new) \subseteq ToSet(running)
    <3>1. CASE phase = "idle"
      BY <3>1, NoElements DEF SpanInv, Queues
    <3>2. CASE phase # "idle"
      BY <2>2, <3>2 DEF SpanInv, Queues
    <3> QED BY <3>1, <3>2
  <2>4. metrics \subseteq ToSet(running)
    BY <2>2 DEF SpanInv, Tables, Busy
  <2>5. ASSUME NEW r \in Request
        PROVE  /\ computed[r] \in 0 .. length[r] /\ length[r] \in 0 .. Prompt[r] + Outputs[r]
               /\ repairs[r] \subseteq Affected[r] /\ plan[r] \subseteq Candidates[r]
               /\ written[r] \cap copied[r] = {} /\ reused[r] \subseteq Token
    <3>1. /\ length[r] \in Nat /\ computed[r] \in Nat /\ computed[r] <= length[r]
          /\ length[r] <= Prompt[r] + Outputs[r] /\ Prompt[r] \in Nat /\ Outputs[r] \in Nat
      BY PromptAssumption DEF SpanInv, Lengths
    <3> QED BY <3>1 DEF SpanInv, Tables
  <2>6. CountOf(batch) <= Budget
    BY DEF SpanInv, GoodRows
  <2>7. hidden \subseteq BatchRows
    BY DEF SpanInv, Tables, Executing
  <2> QED BY <2>1, <2>3, <2>4, <2>5, <2>6, <2>7 DEF TypeOK
<1> QED BY <1>1, SpanInvHolds, PTL

(* What the next span reads: a token before the step has been filled; one   *)
(* of the step belongs to a row that no remaining span will still compute.  *)
LEMMA ContextIsFilled ==
  ASSUME SpanInv, phase = "execute", NEW span, IsNext(span),
         NEW i \in 1 .. Len(batch), NEW t \in ContextOf(span, i)
  PROVE  t \in written[batch[i].req] \cup copied[batch[i].req]
<1> DEFINE q == batch[i].req
           s == batch[i].start
           o == Offset(i)
           c == batch[i].count
<1>1. /\ batch \in Seq(RowType) /\ s \in Nat /\ c \in Nat /\ o \in Nat
  BY StepRows, RowPlaces
<1>2. PICK row \in RowsOf(i) :
        /\ row \in span[1] .. span[2] /\ t < TokenAt(i, row)
        /\ row - 1 \notin RowsOf(i) \cap (span[1] .. span[2])
  BY DEF ContextOf
<1>3. t \in Nat /\ t \in Token
  BY TokenTyped DEF ContextOf
<1>4. /\ row \in Nat /\ o <= row /\ row < o + c
      /\ TokenAt(i, row) = s + (row - o) /\ TokenAt(i, row) < s + c
  BY <1>1, <1>2, TokenPlaces
<1>5. CASE t < s
  <2>1. Filled(q, s)
    BY DEF SpanInv, Present, Busy
  <2> QED BY <1>3, <1>5, <2>1 DEF Filled
<1>6. CASE ~ t < s
  <2> DEFINE k == o + (t - s)
  <2>1. s <= t /\ t < s + c
    <3> HIDE DEF s, c, o
    <3> QED BY <1>1, <1>2, <1>3, <1>4, <1>6
  <2>2. k \in RowsOf(i) /\ TokenAt(i, k) = t
    BY <1>1, <1>3, <2>1, RowOfToken
  <2>3. k \in Nat /\ o <= k /\ k < row
    <3> HIDE DEF s, c, o
    <3> QED BY <1>1, <1>2, <1>3, <1>4, <2>1
  <2> HIDE DEF k
  <2>4. ~ InSpan(k)
    <3> SUFFICES ASSUME NEW other \in spans, k \in other[1] .. other[2] PROVE FALSE
      BY DEF InSpan
    <3>1. span \in spans /\ span[1] <= other[1]
      BY DEF IsNext
    <3>2. span \in Int \X Int /\ other \in Int \X Int
      BY <3>1 DEF SpanInv, Executing
    <3>3. span[1] \in Int /\ span[2] \in Int /\ other[1] \in Int /\ other[2] \in Int
      BY <3>2
    <3>4. row - 1 \in span[1] .. span[2]
      BY <1>2, <1>4, <2>3, <3>1, <3>3
    <3> DEFINE j == row - 1 - o
    <3>5. j \in 0 .. c - 1 /\ o + j = row - 1
      <4> HIDE DEF c, o
      <4> QED BY <1>1, <1>4, <2>3
    <3>6. row - 1 \in RowsOf(i)
      <4> HIDE DEF j
      <4> QED BY <3>5 DEF RowsOf
    <3> QED BY <1>2, <3>4, <3>6
  <2>5. IF k \in hidden THEN t \in written[q] ELSE t \in copied[q]
    BY <2>2, <2>4 DEF SpanInv, Executing
  <2> QED BY <2>5
<1> QED BY <1>5, <1>6

(* No span attends to a slot to which nothing was written, in whatever      *)
(* chunks and batches a request is run and however often it is preempted.   *)
THEOREM NoSlotIsReadUnwritten == Spec => []ContextIsWritten
<1>1. SpanInv => ContextIsWritten
  <2> SUFFICES ASSUME SpanInv, phase = "execute", NEW span \in spans, IsNext(span),
                      NEW i \in DOMAIN batch, NEW t \in ContextOf(span, i)
               PROVE  t \in written[batch[i].req] \cup copied[batch[i].req]
    BY DEF ContextIsWritten
  <2>1. i \in 1 .. Len(batch)
    BY StepRows
  <2> QED BY <2>1, ContextIsFilled
<1> QED BY <1>1, SpanInvHolds, PTL

(* No span attends to the copy of a block that the selector wants repaired. *)
THEOREM NoCopyIsReadUnrepaired == Spec => []RepairsPrecedeUse
<1>1. SpanInv => RepairsPrecedeUse
  <2> SUFFICES ASSUME SpanInv, phase = "execute", NEW i \in DOMAIN batch
               PROVE  copied[batch[i].req] \cap TokensOf(repairs[batch[i].req]) = {}
    BY DEF RepairsPrecedeUse
  <2>1. batch[i].req \in Request
    BY StepRows
  <2> QED BY <2>1 DEF SpanInv, Tables
<1> QED BY <1>1, SpanInvHolds, PTL

(* No request of a batch is sampled from a placeholder.                     *)
THEOREM EveryLastRowIsComputed == Spec => []SampledRowsAreComputed
<1>1. SpanInv => SampledRowsAreComputed
  BY DEF SpanInv, Executing, InSpan, SampledRowsAreComputed
<1> QED BY <1>1, SpanInvHolds, PTL

(* Of the rows of a step none is left out: each was computed, or it has no  *)
(* hidden state and keeps the copy that is to be reused.                    *)
THEOREM EveryRowIsAccounted == Spec => []RowsAreComputedOrCopied
<1>1. SpanInv => RowsAreComputedOrCopied
  <2> SUFFICES ASSUME SpanInv, phase = "execute", spans = {},
                      NEW i \in DOMAIN batch, NEW row \in RowsOf(i)
               PROVE  IF row \in hidden THEN TokenAt(i, row) \in written[batch[i].req]
                      ELSE TokenAt(i, row) \in copied[batch[i].req] \cap reused[batch[i].req]
    BY DEF RowsAreComputedOrCopied
  <2>1. i \in 1 .. Len(batch)
    BY StepRows
  <2>2. ~ InSpan(row)
    BY DEF InSpan
  <2> QED BY <2>1, <2>2 DEF SpanInv, Executing
<1> QED BY <1>1, SpanInvHolds, PTL
=============================================================================
