---------------------------- MODULE PrefixProofs ----------------------------
(***************************************************************************)
(* What the tables and blocks of ReuseScheduler hold, for every number of  *)
(* requests, blocks and, with async scheduling, two steps that overlap.    *)
(*                                                                         *)
(* First how far requests are computed and how long their tables are, and  *)
(* on top of it all of TypeOK; then what KV each slot will hold once the   *)
(* steps in flight have run, and from it PrefixesAreComputed.              *)
(***************************************************************************)
EXTENDS ReuseSchedulerProofs

-----------------------------------------------------------------------------
(***************************************************************************)
(* All of TypeOK.  What takes an argument is that a block's hash is one of *)
(* its request's: the AsyncScheduler registers blocks up to the computed   *)
(* tokens less the placeholders, and a request has a hash for each full    *)
(* block of at most MaxTokens tokens only.                                 *)
(***************************************************************************)
Numbers ==
  /\ discard \in [Request -> Int] /\ lastSched \in [Request -> Nat]
  /\ fence \in [Lease -> Nat] /\ schedSeq \in Nat /\ processedSeq \in Nat
  /\ resets \in Nat /\ preempting \in BOOLEAN

(* _free_request_blocks sets at most the fence of an idle lease.           *)
LEMMA FreeNumbers ==
  ASSUME Numbers, NEW r \in Request, FreeRequestBlocks(r),
         UNCHANGED <<discard, lastSched, schedSeq, processedSeq, resets, preempting>>
  PROVE  Numbers'
<1>1. CASE fence' = fence
  BY <1>1 DEF Numbers
<1>2. CASE fence' # fence
  <2>1. fence' = [fence EXCEPT ![NextLease] = schedSeq]
    BY <1>2 DEF FreeRequestBlocks
  <2> QED BY <2>1 DEF Numbers
<1> QED BY <1>1, <1>2

(* Every step keeps Numbers.                                               *)
LEMMA NextNumbers == Types /\ Numbers /\ [Next]_vars => Numbers'
<1> SUFFICES ASSUME ControlTypes, RowsNameRequests, Numbers, [Next]_vars
             PROVE  Numbers'
  BY DEF Types
<1> USE DEF request, leases, seqs, call
<1>1. CASE UNCHANGED vars \/ Idle
  BY <1>1 DEF vars, Idle, Numbers
<1>2. ASSUME NEW r \in Request, Abort(r) PROVE Numbers'
  BY <1>2, FreeNumbers DEF Abort
<1>3. CASE ResetPreempt \/ PreemptForSlots
  <2>1. running # << >> /\ PreemptLast
    BY <1>3, CandidateType DEF ResetPreempt, PreemptForSlots
  <2>2. Last(running) \in Request /\ FreeRequestBlocks(Last(running))
    BY <2>1, PreemptTypes DEF PreemptLast
  <2>3. /\ fence' = fence \/ fence' = [fence EXCEPT ![NextLease] = schedSeq]
        /\ UNCHANGED <<lastSched, schedSeq, processedSeq, resets>>
    BY <1>3, <2>2 DEF ResetPreempt, PreemptForSlots, FreeRequestBlocks
  <2>4. discard' \in [Request -> Int] /\ preempting' \in BOOLEAN
    BY <1>3, <2>2 DEF ResetPreempt, PreemptForSlots, Numbers, ControlTypes
  <2> QED BY <2>3, <2>4 DEF Numbers
<1>4. CASE Launch
  <2>1. /\ fence' = fence \/ fence' = [l \in Lease |-> IF l \in ToSet(retained)
                                                       THEN schedSeq + 1 ELSE fence[l]]
        /\ schedSeq' \in {schedSeq, schedSeq + 1} /\ processedSeq' = processedSeq
        /\ lastSched' = [r \in Request |-> IF r \in {q \in Request : Defer /\ RowsOf(q) # {}}
                                           THEN schedSeq' ELSE lastSched[r]]
        /\ UNCHANGED <<discard, resets>> /\ preempting' = FALSE
    <3>1. lastSched' = [r \in Request |-> IF r \in {q \in Request : Defer /\ RowsOf(q) # {}}
                                          THEN schedSeq' ELSE lastSched[r]]
      BY <1>4 DEF Launch
    <3> QED BY <1>4, <3>1 DEF Launch, RetentionFence
  <2>2. preempting' \in BOOLEAN
    BY <2>1
  <2>3. fence' \in [Lease -> Nat]
    BY <2>1 DEF Numbers
  <2>4. /\ discard' \in [Request -> Int] /\ lastSched' \in [Request -> Nat]
        /\ schedSeq' \in Nat /\ processedSeq' \in Nat /\ resets' \in Nat
    BY <2>1 DEF Numbers
  <2> QED BY <2>2, <2>3, <2>4 DEF Numbers
<1>5. CASE TakeResults
  <2>1. /\ UNCHANGED <<discard, lastSched, fence, schedSeq, resets, preempting>>
        /\ processedSeq' \in {processedSeq, processedSeq + 1}
    BY <1>5 DEF TakeResults
  <2> QED BY <2>1 DEF Numbers
<1>6. CASE AppendToken
  <2>1. /\ NextRow.req \in Request
        /\ UNCHANGED <<discard, lastSched, schedSeq, processedSeq, resets, preempting>>
    BY <1>6, RowTaken DEF AppendToken, worker
  <2>2. CASE fence' = fence
    BY <2>1, <2>2 DEF Numbers
  <2>3. CASE Stop(NextRow.req, hash')
    BY <2>1, <2>3, FreeNumbers DEF Stop
  <2> QED BY <1>6, <2>2, <2>3 DEF AppendToken
<1>7. CASE DiscardRow
  <2>1. /\ discard' = [discard EXCEPT ![NextRow.req] = @ - 1]
        /\ UNCHANGED <<lastSched, fence, schedSeq, processedSeq, resets, preempting>>
    BY <1>7 DEF DiscardRow
  <2>2. NextRow.req \in Request
    BY <1>7, RowTaken DEF DiscardRow, worker
  <2> QED BY <2>1, <2>2 DEF Numbers
<1>8. ASSUME \/ \E r \in Request : AddRequest(r)
             \/ ResetPrefixCache \/ ForceReset \/ ResetEnd \/ BeginSchedule
             \/ SkipRunning \/ ScheduleRunning \/ EndRunning \/ AdmitWaiting
             \/ RefuseWaiting \/ EndWaiting \/ IgnoreRow
      PROVE  Numbers'
  <2>1. /\ UNCHANGED <<discard, lastSched, fence, schedSeq, processedSeq>>
        /\ resets' \in {resets, resets + 1} /\ preempting' \in {preempting, FALSE}
    BY <1>8 DEF AddRequest, ResetPrefixCache, ForceReset, ResetEnd, BeginSchedule,
                SkipRunning, ScheduleRunning, EndRunning, AdmitWaiting, RefuseWaiting,
                EndWaiting, IgnoreRow
  <2>2. preempting' \in BOOLEAN
    BY <2>1 DEF Numbers
  <2>3. resets' \in Nat
    BY <2>1 DEF Numbers
  <2> QED BY <2>1, <2>2, <2>3 DEF Numbers
<1> QED
  BY <1>1, <1>2, <1>3, <1>4, <1>5, <1>6, <1>7, <1>8 DEF Next, Client, Engine

(***************************************************************************)
(* Lengths of requests: a request that is not finished has room for a      *)
(* token, and is computed up to its known tokens and the outputs to come.  *)
(***************************************************************************)
RowIsShort(row) ==
  /\ row.from \in Nat /\ row.to \in Nat
  /\ row.to <= tokens[row.req] + placeholders[row.req]

Lengths ==
  /\ \A r \in Request :
       /\ computed[r] >= 0 /\ computed[r] <= tokens[r] + placeholders[r]
       /\ tokens[r] <= MaxTokens[r]
       /\ status[r] # "finished" => tokens[r] < MaxTokens[r]
  /\ \A i \in DOMAIN batch : RowIsShort(batch[i])
  /\ budget >= 0

(* What Accounts says of placeholders; the synchronous scheduler has none.  *)
NoDebt == \A r \in Request : placeholders[r] >= 0 /\ (~ Async => placeholders[r] = 0)

(* The prefix hit, and the first chunk behind it, end within the known     *)
(* tokens.                                                                 *)
LEMMA ChunkIsShort ==
  ASSUME ControlTypes, NEW r \in Request, budget >= 0
  PROVE  /\ HitLength(r) \in Nat /\ HitLength(r) * BlockSize \in Nat
         /\ HitLength(r) * BlockSize < tokens[r]
         /\ ChunkEnd(r) \in Nat /\ ChunkEnd(r) <= tokens[r]
         /\ ChunkEnd(r) - HitLength(r) * BlockSize <= budget
<1> DEFINE most == (tokens[r] - 1) \div BlockSize
           from == HitLength(r) * BlockSize
<1>1. /\ tokens[r] - 1 \in Nat /\ tokens[r] \in Int
      /\ BlockSize \in Nat \ {0} /\ budget \in Int
  BY ConfigAssumption DEF ControlTypes
<1>2. most \in Nat /\ most * BlockSize <= tokens[r] - 1
  BY <1>1
<1>3. HitLength(r) \in 0 .. most
  BY HitLengthRange
<1> HIDE DEF most
<1>4. from \in Nat /\ from <= tokens[r] - 1
  <2>1. from \in Nat /\ from <= most * BlockSize /\ most * BlockSize \in Int
    BY <1>1, <1>2, <1>3
  <2> QED BY <1>1, <1>2, <2>1
<1>5. ChunkEnd(r) = from + Smaller(tokens[r] - from, budget)
  BY DEF ChunkEnd
<1> HIDE DEF from
<1>6. /\ Smaller(tokens[r] - from, budget) \in Nat
      /\ Smaller(tokens[r] - from, budget) <= tokens[r] - from
      /\ Smaller(tokens[r] - from, budget) <= budget
  BY <1>1, <1>4 DEF Smaller
<1>7. /\ from < tokens[r] /\ ChunkEnd(r) \in Nat /\ ChunkEnd(r) <= tokens[r]
      /\ ChunkEnd(r) - from <= budget
  BY <1>1, <1>4, <1>5, <1>6
<1>8. HitLength(r) \in Nat
  BY <1>2, <1>3
<1> QED BY <1>4, <1>7, <1>8 DEF from

(* The synchronous scheduler never adds a placeholder.                     *)
LEMMA NextNoDebt ==
  ASSUME ~ Async, Types, NoDebt, [Next]_vars
  PROVE  NoDebt'
<1> USE DEF request, NoDebt
<1>0. placeholders \in [Request -> Int]
  BY DEF Types, ControlTypes
<1>1. CASE Launch
  <2>1. placeholders' = [r \in Request |->
          IF Async /\ \E i \in RowsOf(r) : Samples(batch[i])
          THEN placeholders[r] + 1 ELSE placeholders[r]]
    BY <1>1 DEF Launch
  <2> QED BY <2>1
<1>2. CASE ResetPreempt
  <2>1. placeholders' = [placeholders EXCEPT ![Last(running)] = 0]
    BY <1>2 DEF ResetPreempt
  <2> QED BY <1>0, <2>1
<1>3. CASE AppendToken
  <2>1. placeholders' = [placeholders EXCEPT ![NextRow.req] = IF Async THEN @ - 1 ELSE @]
    BY <1>3 DEF AppendToken
  <2> QED BY <1>0, <2>1
<1>4. ASSUME placeholders' = placeholders PROVE NoDebt'
  BY <1>4
<1>5. CASE UNCHANGED vars \/ Idle
  BY <1>4, <1>5 DEF vars, Idle
<1>6. ASSUME \/ \E r \in Request : AddRequest(r) \/ Abort(r)
             \/ ResetPrefixCache \/ ForceReset \/ ResetEnd \/ BeginSchedule
             \/ SkipRunning \/ ScheduleRunning \/ PreemptForSlots \/ EndRunning
             \/ AdmitWaiting \/ RefuseWaiting \/ EndWaiting
             \/ TakeResults \/ IgnoreRow \/ DiscardRow
      PROVE  NoDebt'
  <2>1. placeholders' = placeholders
    BY <1>6 DEF AddRequest, Abort, ResetPrefixCache, ForceReset, ResetEnd, BeginSchedule,
                SkipRunning, ScheduleRunning, PreemptForSlots, EndRunning, AdmitWaiting,
                RefuseWaiting, EndWaiting, TakeResults, IgnoreRow, DiscardRow
  <2> QED BY <1>4, <2>1
<1> QED
  BY <1>1, <1>2, <1>3, <1>5, <1>6 DEF Next, Client, Engine

(* A step that adds no token, placeholder or row keeps Lengths.            *)
LEMMA LengthsKept ==
  ASSUME Types, NoDebt, Lengths, UNCHANGED <<tokens, placeholders>>,
         batch' = batch \/ batch' = << >>, budget' >= 0,
         \A r \in Request :
           /\ computed'[r] \in {0, computed[r]}
           /\ status'[r] # "finished" => status[r] # "finished"
  PROVE  Lengths'
<1>1. tokens \in [Request -> Nat \ {0}] /\ placeholders \in [Request -> Int]
  BY DEF Types, ControlTypes
<1>2. ASSUME NEW r \in Request
      PROVE  /\ computed'[r] >= 0 /\ computed'[r] <= tokens'[r] + placeholders'[r]
             /\ tokens'[r] <= MaxTokens[r]
             /\ status'[r] # "finished" => tokens'[r] < MaxTokens[r]
  <2>1. tokens[r] \in Nat /\ placeholders[r] \in Int /\ placeholders[r] >= 0
    BY <1>1 DEF NoDebt
  <2> QED BY <2>1 DEF Lengths
<1>3. \A i \in DOMAIN batch' : RowIsShort(batch[i])'
  BY DEF Lengths, RowIsShort
<1> QED BY <1>2, <1>3 DEF Lengths

(* Appending a row that is short enough.                                   *)
LEMMA RowAddedIsShort ==
  ASSUME Types, Lengths, NEW row, batch' = Append(batch, row),
         RowIsShort(row), UNCHANGED <<tokens, placeholders>>
  PROVE  \A i \in DOMAIN batch' : RowIsShort(batch[i])'
<1>1. PICK A : batch \in Seq(AnyRow(A))
  BY DEF Types, RowsNameRequests
<1> DEFINE S == AnyRow(A) \cup {row}
<1>2. batch \in Seq(S) /\ row \in S
  BY <1>1
<1> HIDE DEF S
<1>3. \A i \in DOMAIN batch' : (i \in DOMAIN batch /\ batch'[i] = batch[i]) \/ batch'[i] = row
  BY <1>2, AppendProperties, LenProperties
<1> QED BY <1>3 DEF Lengths, RowIsShort

(* Giving slots to the request at the cursor.                              *)
LEMMA ScheduleLengths ==
  ASSUME Types, NoDebt, Lengths, ScheduleRunning
  PROVE  Lengths'
<1> DEFINE r == Candidate
           to == computed[r] + NewTokens(r)
<1>1. r \in Request
  BY CandidateType DEF ScheduleRunning, Types
<1>2. /\ tokens[r] \in Nat /\ placeholders[r] \in Int /\ computed[r] \in Nat
      /\ budget \in Nat
  BY <1>1 DEF Types, ControlTypes, Lengths
<1>3. /\ UNCHANGED <<tokens, placeholders, computed, status>>
      /\ budget' = budget - NewTokens(r)
      /\ Missing(r) > 0
  BY DEF ScheduleRunning, WantsSlots, request
<1>4. PICK blocks : batch' = Append(batch, NewRow(r, computed[r], to, blocks, {}))
  BY DEF ScheduleRunning
<1>5. /\ NewTokens(r) \in Nat /\ NewTokens(r) <= budget
      /\ computed[r] + NewTokens(r) <= tokens[r] + placeholders[r]
  <2>1. /\ Missing(r) = tokens[r] + placeholders[r] - computed[r] /\ Missing(r) \in Nat
    BY <1>2, <1>3 DEF Missing
  <2>2. /\ NewTokens(r) \in Nat /\ NewTokens(r) <= budget /\ NewTokens(r) <= Missing(r)
    BY <1>2, <2>1 DEF NewTokens, Smaller
  <2> QED BY <1>2, <2>1, <2>2
<1>6. to \in Nat /\ budget' >= 0
  BY <1>2, <1>3, <1>5
<1> DEFINE row == NewRow(r, computed[r], to, blocks, {})
<1>7. RowIsShort(row)
  <2>1. row.req = r /\ row.from = computed[r] /\ row.to = to
    BY DEF NewRow
  <2> HIDE DEF r, row
  <2> QED BY <1>2, <1>5, <1>6, <2>1 DEF RowIsShort
<1> HIDE DEF r, to, row
<1>8. \A i \in DOMAIN batch' : RowIsShort(batch[i])'
  BY <1>3, <1>4, <1>7, RowAddedIsShort DEF row
<1> QED BY <1>3, <1>6, <1>8 DEF Lengths

(* What AdmitWaiting does, with the places where the first chunk ends.     *)
LEMMA AdmitLengths ==
  ASSUME Types, Queues, NoDebt, Lengths, AdmitWaiting
  PROVE  Lengths'
<1> DEFINE r == Head(waiting)
           from == HitLength(r) * BlockSize
<1>1. r \in Request
  BY Admitted DEF Types
<1>2. /\ UNCHANGED <<tokens, placeholders>>
      /\ computed' = [computed EXCEPT ![r] = from]
      /\ status' = [status EXCEPT ![r] = "running"]
      /\ budget' = budget - (ChunkEnd(r) - from)
  BY DEF AdmitWaiting
<1>3. PICK blocks, copies :
        batch' = Append(batch, NewRow(r, from, ChunkEnd(r), blocks, copies))
  BY DEF AdmitWaiting, Admit
<1>4. /\ from \in Nat /\ ChunkEnd(r) \in Nat /\ from < tokens[r]
      /\ ChunkEnd(r) <= tokens[r] /\ ChunkEnd(r) - from <= budget
  BY <1>1, ChunkIsShort DEF Types, Lengths
<1>5. /\ computed \in [Request -> Int] /\ tokens[r] \in Nat /\ placeholders[r] \in Nat
      /\ budget \in Int
  BY <1>1 DEF Types, ControlTypes, NoDebt
<1> DEFINE row == NewRow(r, from, ChunkEnd(r), blocks, copies)
<1>6. row.req = r /\ row.from = from /\ row.to = ChunkEnd(r)
  BY DEF NewRow
<1> HIDE DEF row
<1>7. status[r] \in {"waiting", "preempted"}
  <2>1. waiting \in Seq(Request) /\ waiting # << >>
    BY DEF AdmitWaiting, InWaitingLoop, Types, ControlTypes
  <2>2. r \in ToSet(waiting)
    BY <2>1, TailElements
  <2> QED BY <2>2 DEF Queues
<1> HIDE DEF from
<1>8. RowIsShort(row)
  BY <1>4, <1>5, <1>6 DEF RowIsShort
<1>9. \A i \in DOMAIN batch' : RowIsShort(batch[i])'
  BY <1>2, <1>3, <1>8, RowAddedIsShort DEF row
<1>10. budget' >= 0
  BY <1>2, <1>4, <1>5
<1>11. ASSUME NEW q \in Request
       PROVE  /\ computed'[q] >= 0 /\ computed'[q] <= tokens'[q] + placeholders'[q]
              /\ tokens'[q] <= MaxTokens[q]
              /\ status'[q] # "finished" => tokens'[q] < MaxTokens[q]
  <2>1. CASE q = r
    <3>1. computed'[q] = from /\ tokens'[q] = tokens[r] /\ placeholders'[q] = placeholders[r]
      BY <1>2, <1>5, <2>1, <1>1
    <3>2. tokens[r] <= MaxTokens[r] /\ tokens[r] < MaxTokens[r]
      BY <1>1, <1>7 DEF Lengths
    <3> QED BY <1>4, <1>5, <2>1, <3>1, <3>2
  <2>2. CASE q # r
    <3>1. computed'[q] = computed[q] /\ status'[q] = status[q]
      BY <1>2, <1>5, <2>2 DEF Types, ControlTypes
    <3> QED BY <1>2, <3>1 DEF Lengths
  <2> QED BY <2>1, <2>2
<1> QED BY <1>9, <1>10, <1>11 DEF Lengths

(* _update_after_schedule: requests are computed to the ends of their rows. *)
LEMMA LaunchLengths ==
  ASSUME Types, NoDebt, Lengths, Launch
  PROVE  Lengths'
<1>1. /\ UNCHANGED <<tokens, status>> /\ batch' = << >> /\ budget' = 0
      /\ \A r \in Request :
           computed'[r] = IF RowsOf(r) # {} THEN batch[CHOOSE i \in RowsOf(r) : TRUE].to
                          ELSE computed[r]
      /\ \A r \in Request : placeholders'[r] = placeholders[r] + 1
                            \/ placeholders'[r] = placeholders[r]
  BY DEF Launch
<1>2. ASSUME NEW r \in Request
      PROVE  /\ computed'[r] >= 0 /\ computed'[r] <= tokens'[r] + placeholders'[r]
             /\ tokens'[r] <= MaxTokens[r]
             /\ status'[r] # "finished" => tokens'[r] < MaxTokens[r]
  <2>1. tokens[r] \in Nat /\ placeholders[r] \in Int /\ computed[r] \in Int
    BY DEF Types, ControlTypes
  <2>2. computed'[r] \in Nat /\ computed'[r] <= tokens[r] + placeholders[r]
    <3>1. CASE RowsOf(r) = {}
      BY <1>1, <2>1, <3>1 DEF Lengths
    <3>2. CASE RowsOf(r) # {}
      <4>1. PICK i \in RowsOf(r) : computed'[r] = batch[i].to
        BY <1>1, <3>2
      <4>2. i \in DOMAIN batch /\ batch[i].req = r
        BY DEF RowsOf
      <4> QED BY <4>1, <4>2 DEF Lengths, RowIsShort
    <3> QED BY <3>1, <3>2
  <2> QED BY <1>1, <2>1, <2>2 DEF Lengths
<1> QED BY <1>1, <1>2 DEF Lengths

(* A token appended was owed: a placeholder becomes a token.  A request    *)
(* that gets its last token is finished.                                   *)
LEMMA TokenLengths ==
  ASSUME Types, Scheduled, NoDebt, NoDebt', Lengths, AppendToken
  PROVE  Lengths'
<1> DEFINE q == NextRow.req
<1>1. /\ phase = "update" /\ UNCHANGED <<computed, batch, budget>>
      /\ status[q] \in {"waiting", "preempted", "running"}
      /\ tokens' = [tokens EXCEPT ![q] = @ + 1]
      /\ placeholders' = [placeholders EXCEPT ![q] = IF Async THEN @ - 1 ELSE @]
      /\ \/ tokens[q] + 1 < MaxTokens[q] /\ status' = status
         \/ status' = [status EXCEPT ![q] = "finished"]
  BY DEF AppendToken, YieldsToken, Stop
<1>2. q \in Request
  BY RowTaken DEF AppendToken, call, worker, Types
<1> HIDE DEF q
<1>3. batch' = << >>
  BY <1>1 DEF Scheduled
<1>4. ASSUME NEW r \in Request
      PROVE  /\ computed'[r] >= 0 /\ computed'[r] <= tokens'[r] + placeholders'[r]
             /\ tokens'[r] <= MaxTokens[r]
             /\ status'[r] # "finished" => tokens'[r] < MaxTokens[r]
  <2>1. /\ tokens[r] \in Nat /\ placeholders[r] \in Int /\ computed[r] \in Int
        /\ MaxTokens[r] \in Nat
    BY RequestAssumption DEF Types, ControlTypes
  <2>2. CASE r # q
    <3>1. /\ tokens'[r] = tokens[r] /\ placeholders'[r] = placeholders[r]
          /\ status'[r] = status[r] /\ computed'[r] = computed[r]
      BY <1>1, <1>2, <2>2 DEF Types, ControlTypes
    <3> QED BY <2>1, <3>1 DEF Lengths
  <2>3. CASE r = q
    <3>1. /\ tokens'[r] = tokens[r] + 1 /\ computed'[r] = computed[r]
          /\ placeholders'[r] \in {placeholders[r], placeholders[r] - 1}
          /\ status'[r] # "finished" => tokens[r] + 1 < MaxTokens[r]
          /\ status[r] # "finished"
      BY <1>1, <1>2, <2>3 DEF Types, ControlTypes
    <3>2. /\ computed[r] >= 0 /\ computed[r] <= tokens[r] + placeholders[r]
          /\ tokens[r] < MaxTokens[r]
      BY <3>1 DEF Lengths
    <3> QED BY <2>1, <3>1, <3>2
  <2> QED BY <2>2, <2>3
<1> QED BY <1>1, <1>3, <1>4 DEF Lengths

(* Every step keeps Lengths: the inductive step of the invariant.          *)
LEMMA NextLengths ==
  ASSUME Types, Queues, Scheduled, NoDebt, NoDebt', Lengths, [Next]_vars
  PROVE  Lengths'
<1> USE DEF request, call
<1>0. /\ status \in [Request -> {"none", "waiting", "preempted", "running", "finished"}]
      /\ computed \in [Request -> Int] /\ placeholders \in [Request -> Int]
  BY DEF Types, ControlTypes
<1>1. CASE UNCHANGED vars \/ Idle
  <2>1. UNCHANGED <<tokens, placeholders, computed, status, batch, budget>>
    BY <1>1 DEF vars, Idle
  <2> QED BY <2>1, LengthsKept DEF Lengths
<1>2. ASSUME NEW r \in Request, AddRequest(r) \/ Abort(r) PROVE Lengths'
  <2>1. /\ UNCHANGED <<tokens, placeholders, computed, batch, budget>>
        /\ \/ status[r] = "none" /\ status' = [status EXCEPT ![r] = "waiting"]
           \/ status' = [status EXCEPT ![r] = "finished"]
    BY <1>2 DEF AddRequest, Abort
  <2> QED BY <1>0, <2>1, LengthsKept DEF Lengths
<1>3. CASE ResetPreempt
  <2>1. /\ phase = "reset" /\ UNCHANGED <<tokens, batch, budget>>
        /\ status' = [status EXCEPT ![Last(running)] = "preempted"]
        /\ computed' = [computed EXCEPT ![Last(running)] = 0]
        /\ placeholders' = [placeholders EXCEPT ![Last(running)] = 0]
    BY <1>3 DEF ResetPreempt, PreemptLast
  <2>2. batch = << >>
    BY <2>1 DEF Scheduled
  <2>3. Last(running) \in Request /\ status[Last(running)] = "running"
    <3>1. running \in Seq(Request) /\ running # << >>
      BY <1>3 DEF ResetPreempt, Types, ControlTypes
    <3> QED BY <3>1, FrontElements DEF Queues
  <2>4. ASSUME NEW r \in Request
        PROVE  /\ computed'[r] >= 0 /\ computed'[r] <= tokens'[r] + placeholders'[r]
               /\ tokens'[r] <= MaxTokens[r]
               /\ status'[r] # "finished" => tokens'[r] < MaxTokens[r]
    <3>1. tokens[r] \in Nat
      BY DEF Types, ControlTypes
    <3>2. CASE r = Last(running)
      <4>1. computed'[r] = 0 /\ placeholders'[r] = 0 /\ status[r] # "finished"
        BY <1>0, <2>1, <2>3, <3>2
      <4> QED BY <2>1, <3>1, <4>1 DEF Lengths
    <3>3. CASE r # Last(running)
      <4>1. /\ computed'[r] = computed[r] /\ placeholders'[r] = placeholders[r]
            /\ status'[r] = status[r]
        BY <1>0, <2>1, <3>3
      <4> QED BY <2>1, <4>1 DEF Lengths
    <3> QED BY <3>2, <3>3
  <2> QED BY <2>1, <2>2, <2>4 DEF Lengths
<1>4. CASE PreemptForSlots
  <2>1. /\ UNCHANGED <<tokens, placeholders, batch, budget>>
        /\ status' = [status EXCEPT ![Last(running)] = "preempted"]
        /\ computed' = [computed EXCEPT ![Last(running)] = 0]
    BY <1>4 DEF PreemptForSlots, PreemptLast
  <2>2. Last(running) \in Request /\ status[Last(running)] = "running"
    <3>1. running \in Seq(Request) /\ running # << >>
      BY <1>4, CandidateType DEF PreemptForSlots, Types, ControlTypes
    <3> QED BY <3>1, FrontElements DEF Queues
  <2> QED BY <1>0, <2>1, <2>2, LengthsKept DEF Lengths
<1>5. CASE ScheduleRunning
  BY <1>5, ScheduleLengths
<1>6. CASE AdmitWaiting
  BY <1>6, AdmitLengths
<1>7. CASE Launch
  BY <1>7, LaunchLengths
<1>8. CASE AppendToken
  BY <1>8, TokenLengths
<1>9. CASE BeginSchedule
  <2>1. /\ UNCHANGED <<tokens, placeholders, computed, status>> /\ batch' = << >>
        /\ budget' = Budget
    BY <1>9 DEF BeginSchedule
  <2> QED BY <2>1, LengthsKept, ConfigAssumption
<1>10. CASE \/ ResetPrefixCache \/ ForceReset \/ ResetEnd \/ SkipRunning \/ EndRunning
            \/ RefuseWaiting \/ EndWaiting \/ TakeResults \/ IgnoreRow \/ DiscardRow
  <2>1. UNCHANGED <<tokens, placeholders, computed, status, batch, budget>>
    BY <1>10 DEF ResetPrefixCache, ForceReset, ResetEnd, SkipRunning, EndRunning,
                 RefuseWaiting, EndWaiting, TakeResults, IgnoreRow, DiscardRow
  <2> QED BY <2>1, LengthsKept DEF Lengths
<1> QED
  BY <1>1, <1>2, <1>3, <1>4, <1>5, <1>6, <1>7, <1>8, <1>9, <1>10
     DEF Next, Client, Engine

(***************************************************************************)
(* What blocks, leases, the index and the rows of steps hold.              *)
(***************************************************************************)
Stored == Hash \cup {NoHash}

Contents ==
  /\ hash \in [Block -> Stored] /\ sources \in [Request -> SUBSET Indexed]
  /\ lease \in [Lease -> SUBSET Block] /\ reused \in [Request -> SUBSET Nat]
  /\ batch \in Seq(Row) /\ todo \in Seq(Row) /\ inflight \in Seq(Seq(Row))
  /\ kv \in [Block -> [Slot -> Stored]]

(* More tokens fill at least as many blocks.                               *)
LEMMA BlocksGrow ==
  ASSUME NEW a \in Int, NEW b \in Int, a <= b
  PROVE  a \div BlockSize \in Int /\ a \div BlockSize <= b \div BlockSize
<1>1. BlockSize \in Nat \ {0}
  BY ConfigAssumption
<1> DEFINE x == a \div BlockSize
           y == b \div BlockSize
<1>2. /\ x \in Int /\ x * BlockSize <= a
      /\ y \in Int /\ b < (y + 1) * BlockSize
  BY <1>1
<1> HIDE DEF x, y
<1>3. x * BlockSize < (y + 1) * BlockSize
  BY <1>1, <1>2
<1>4. x < y + 1
  BY <1>1, <1>2, <1>3
<1>5. x <= y
  BY <1>2, <1>4
<1> QED BY <1>2, <1>5 DEF x, y

(* Within its tokens a request has a hash for each full block.             *)
LEMMA FullBlocksHaveHashes ==
  ASSUME NEW r \in Request, NEW n \in Int, n <= MaxTokens[r]
  PROVE  /\ n \div BlockSize \in Int
         /\ \A i \in 1 .. n \div BlockSize : Hashes[r][i] \in Hash
<1>1. /\ MaxTokens[r] \in Int /\ Hashes[r] \in Seq(Hash)
      /\ Len(Hashes[r]) = MaxTokens[r] \div BlockSize
  BY RequestAssumption
<1>2. n \div BlockSize \in Int /\ n \div BlockSize <= Len(Hashes[r])
  BY <1>1, BlocksGrow
<1>3. Len(Hashes[r]) \in Nat /\ \A i \in 1 .. Len(Hashes[r]) : Hashes[r][i] \in Hash
  BY <1>1
<1> QED BY <1>2, <1>3

(* cache_blocks gives a block a hash of the request, or takes its hash.    *)
LEMMA HashAfterTyped ==
  ASSUME hash \in [Block -> Stored], NEW r \in Request, NEW n \in Int, n <= MaxTokens[r],
         NEW blocks, NEW new
  PROVE  HashAfter(r, blocks, new, n \div BlockSize) \in [Block -> Stored]
<1> DEFINE full == n \div BlockSize
<1>1. \A i \in 1 .. full : Hashes[r][i] \in Hash
  BY FullBlocksHaveHashes
<1> HIDE DEF full
<1>2. ASSUME NEW b \in Block
      PROVE  (IF \E i \in 1 .. full : blocks[i] = b
              THEN Hashes[r][CHOOSE i \in 1 .. full : blocks[i] = b]
              ELSE IF b \in ToSet(new) THEN NoHash ELSE hash[b]) \in Stored
  BY <1>1 DEF Stored
<1>3. HashAfter(r, blocks, new, full) \in [Block -> Stored]
  BY <1>2 DEF HashAfter
<1> QED BY <1>3 DEF full

(* What the KV of a position stands for.                                   *)
LEMMA HashAtTyped ==
  ASSUME NEW r \in Request, NEW p \in Nat \ {0}
  PROVE  HashAt(r, p) \in Stored
<1>1. BlockOf(p) \in Nat \ {0}
  <2>1. BlockSize \in Nat \ {0} /\ p + BlockSize - 1 \in Nat /\ p + BlockSize - 1 >= BlockSize
    BY ConfigAssumption
  <2>2. BlockSize \div BlockSize = 1
    BY <2>1
  <2>3. (p + BlockSize - 1) \div BlockSize >= 1 /\ (p + BlockSize - 1) \div BlockSize \in Int
    BY <2>1, <2>2, BlocksGrow
  <2> QED BY <2>3 DEF BlockOf, CeilDiv
<1>2. Hashes[r] \in Seq(Hash)
  BY RequestAssumption
<1> QED BY <1>1, <1>2 DEF HashAt, Stored

(* _free_request_blocks: a table becomes a deferred list.                  *)
LEMMA FreeContents ==
  ASSUME ControlTypes, NEW r \in Request, FreeRequestBlocks(r),
         lease \in [Lease -> SUBSET Block], reused \in [Request -> SUBSET Nat]
  PROVE  lease' \in [Lease -> SUBSET Block] /\ reused' \in [Request -> SUBSET Nat]
<1>1. reused' = [reused EXCEPT ![r] = {}]
  BY DEF FreeRequestBlocks
<1>2. \/ lease' = lease
      \/ lease' = [lease EXCEPT ![NextLease] = ToSet(table[r])]
  BY DEF FreeRequestBlocks
<1>3. ToSet(table[r]) \subseteq Block
  <2>1. table[r] \in Seq(Block)
    BY DEF ControlTypes
  <2> QED BY <2>1 DEF ToSet
<1> QED BY <1>1, <1>2, <1>3

(* index(): the entries of a source name its blocks and their hashes.      *)
LEMMA IndexTyped ==
  ASSUME ControlTypes, NEW r \in Request, NEW hashNow \in [Block -> Stored],
         sources \in [Request -> SUBSET Indexed], IndexSource(r, hashNow)
  PROVE  sources' \in [Request -> SUBSET Indexed]
<1> DEFINE entries ==
      {e \in [index : 1 .. Len(table[r]), block : ToSet(table[r]),
              hash : {hashNow[b] : b \in ToSet(table[r])} \ {NoHash}] :
         /\ e.index <= PromptTokens[r] \div BlockSize
         /\ e.block = table[r][e.index]
         /\ e.hash = hashNow[e.block]}
<1>1. ToSet(table[r]) \subseteq Block /\ Len(table[r]) \in Nat
  <2>1. table[r] \in Seq(Block)
    BY DEF ControlTypes
  <2> QED BY <2>1 DEF ToSet
<1>2. ASSUME NEW e \in entries PROVE e \in Indexed
  <2> DEFINE H == {hashNow[b] : b \in ToSet(table[r])} \ {NoHash}
  <2>1. e \in [index : 1 .. Len(table[r]), block : ToSet(table[r]), hash : H]
    BY <1>2
  <2>2. H \subseteq Hash
    BY <1>1 DEF Stored
  <2>3. 1 .. Len(table[r]) \subseteq Nat
    BY <1>1
  <2> HIDE DEF H, entries
  <2> QED BY <1>1, <2>1, <2>2, <2>3 DEF Indexed
<1>3. sources' = [sources EXCEPT ![r] = entries]
  BY DEF IndexSource
<1> HIDE DEF entries
<1> QED BY <1>2, <1>3

(* A plan names blocks of the target and indexed blocks of the source.     *)
LEMMA PlanTyped ==
  ASSUME NEW r \in Request, sources \in [Request -> SUBSET Indexed]
  PROVE  Plan(r) \subseteq Copy /\ Pins(r) \subseteq Block
<1>1. ASSUME NEW c \in Plan(r) PROVE c \in Copy
  <2>1. SourceOf[r] \in Request
    BY RequestAssumption DEF Plan
  <2>2. PICK w \in Windows[r] :
          c = [target |-> w.target,
               from |-> {e \in sources[SourceOf[r]] : e.index \in w.sources}]
    BY DEF Plan
  <2>3. w.target \in Nat \ {0}
    <3>1. w \in Window
      BY RequestAssumption
    <3> QED BY <3>1 DEF Window
  <2>4. {e \in sources[SourceOf[r]] : e.index \in w.sources} \subseteq Indexed
    BY <2>1
  <2> QED BY <2>2, <2>3, <2>4 DEF Copy
<1>2. ASSUME NEW b \in Pins(r) PROVE b \in Block
  <2>1. PICK c \in Plan(r) : \E e \in c.from : b = e.block
    BY DEF Pins
  <2>2. PICK e \in c.from : b = e.block
    BY <2>1
  <2>3. e \in Indexed
    BY <1>1, <2>2 DEF Copy
  <2> QED BY <2>2, <2>3 DEF Indexed
<1> QED BY <1>1, <1>2

(* What a step that copies and computes leaves in a slot.                  *)
LEMMA StepWrites ==
  ASSUME NEW step \in Seq(Row), kv \in [Block -> [Slot -> Stored]]
  PROVE  AfterStep(step) \in [Block -> [Slot -> Stored]]
<1>1. \A i \in DOMAIN step : step[i] \in Row
  OBVIOUS
<1>2. AfterCopies(step) \in [Block -> [Slot -> Stored]]
  <2> SUFFICES ASSUME NEW b \in Block
               PROVE  AfterCopies(step)[b] \in [Slot -> Stored]
    BY DEF AfterCopies
  <2> DEFINE x == CHOOSE y \in CopiesTo(step, b) : TRUE
  <2>1. CASE CopiesTo(step, b) = {}
    BY <2>1 DEF AfterCopies
  <2>2. CASE CopiesTo(step, b) # {}
    <3>1. \A y \in CopiesTo(step, b) : y[1] \in DOMAIN step /\ y[2] \in step[y[1]].copies
      BY DEF CopiesTo
    <3>2. x[1] \in DOMAIN step /\ x[2] \in step[x[1]].copies
      BY <2>2, <3>1
    <3>3. step[x[1]].req \in Request /\ x[2] \in Copy
      BY <1>1, <3>2 DEF Row
    <3>4. x[2].target * BlockSize \in Nat \ {0}
      <4>1. x[2].target \in Nat \ {0} /\ BlockSize \in Nat \ {0}
        BY <3>3, ConfigAssumption DEF Copy
      <4> QED BY <4>1
    <3>5. HashAt(step[x[1]].req, x[2].target * BlockSize) \in Stored
      BY <3>3, <3>4, HashAtTyped
    <3>6. AfterCopies(step)[b] =
            [o \in Slot |-> IF \A e \in x[2].from : IsWritten(e.block, e.hash)
                            THEN HashAt(step[x[1]].req, x[2].target * BlockSize)
                            ELSE NoHash]
      BY <2>2 DEF AfterCopies
    <3> HIDE DEF x
    <3> QED BY <3>5, <3>6 DEF Stored
  <2> QED BY <2>1, <2>2
<1>3. ASSUME NEW b \in Block, NEW o \in Slot
      PROVE  (IF Writers(step, b, o) = {} THEN AfterCopies(step)[b][o]
              ELSE LET w == CHOOSE y \in Writers(step, b, o) : TRUE
                   IN  HashAt(step[w[1]].req, w[2])) \in Stored
  <2> DEFINE w == CHOOSE y \in Writers(step, b, o) : TRUE
  <2>1. CASE Writers(step, b, o) = {}
    BY <1>2, <2>1
  <2>2. CASE Writers(step, b, o) # {}
    <3>1. \A y \in Writers(step, b, o) :
            /\ y[1] \in DOMAIN step
            /\ \E j \in DOMAIN step : y[2] \in 1 .. step[j].to
      BY DEF Writers
    <3>2. PICK j \in DOMAIN step : w[1] \in DOMAIN step /\ w[2] \in 1 .. step[j].to
      BY <2>2, <3>1
    <3>3. step[j].to \in Int
      BY <1>1 DEF Row
    <3>4. step[w[1]].req \in Request /\ w[2] \in Nat \ {0}
      BY <1>1, <3>2, <3>3 DEF Row
    <3> HIDE DEF w
    <3>5. HashAt(step[w[1]].req, w[2]) \in Stored
      BY <3>4, HashAtTyped
    <3> QED BY <2>2, <3>5 DEF w
  <2> QED BY <2>1, <2>2
<1> QED BY <1>3 DEF AfterStep

(* A row of schedule() is a row of a step, before it is completed.         *)
LEMMA NewRowTyped ==
  ASSUME NEW r \in Request, NEW from \in Nat, NEW to \in Nat, NEW blocks \in Seq(Block),
         NEW copies \in SUBSET Copy
  PROVE  NewRow(r, from, to, blocks, copies) \in Row
BY DEF NewRow, Row

(* The row appended is as short as Lengths has it.                         *)
LEMMA LastRowIsShort ==
  ASSUME Types, Lengths', NEW r, NEW from, NEW to, NEW blocks, NEW copies,
         batch' = Append(batch, NewRow(r, from, to, blocks, copies))
  PROVE  from \in Nat /\ to \in Nat
<1> DEFINE row == NewRow(r, from, to, blocks, copies)
<1>1. PICK A : batch \in Seq(AnyRow(A))
  BY DEF Types, RowsNameRequests
<1> DEFINE S == AnyRow(A) \cup {row}
<1>2. batch \in Seq(S) /\ row \in S
  BY <1>1
<1> HIDE DEF S
<1>3. row.from = from /\ row.to = to
  BY DEF NewRow
<1> HIDE DEF row
<1>4. Len(batch) + 1 \in DOMAIN batch' /\ batch'[Len(batch) + 1] = row
  BY <1>2, AppendProperties, LenProperties DEF row
<1>5. batch'[Len(batch) + 1].from \in Nat /\ batch'[Len(batch) + 1].to \in Nat
  BY <1>4 DEF Lengths, RowIsShort
<1> QED BY <1>3, <1>4, <1>5

(* allocate_slots for the request at the cursor.                           *)
LEMMA ScheduleContents ==
  ASSUME Types, Lengths, Lengths', Contents, ScheduleRunning
  PROVE  Contents'
<1> DEFINE r == Candidate
           to == computed[r] + NewTokens(r)
<1>1. r \in Request
  BY CandidateType DEF ScheduleRunning, Types
<1>2. PICK new \in NewBlocks(FreeBlocks, NeededBlocks(r)) :
        /\ hash' = HashAfter(r, table[r] \o new, new,
                             Smaller(to, tokens[r]) \div BlockSize)
        /\ batch' = Append(batch, NewRow(r, computed[r], to, table[r] \o new, {}))
  BY DEF ScheduleRunning
<1>3. /\ UNCHANGED <<sources, lease, reused, todo, inflight, kv>>
  BY DEF ScheduleRunning, leases, worker
<1>4. computed[r] \in Nat /\ to \in Nat
  BY <1>2, LastRowIsShort
<1>5. Smaller(to, tokens[r]) \in Int /\ Smaller(to, tokens[r]) <= MaxTokens[r]
  <2>1. tokens[r] \in Nat /\ tokens[r] <= MaxTokens[r] /\ MaxTokens[r] \in Nat
    BY <1>1, RequestAssumption DEF Types, ControlTypes, Lengths
  <2> HIDE DEF to, r
  <2> QED BY <1>4, <2>1 DEF Smaller
<1>6. hash' \in [Block -> Stored]
  <2> HIDE DEF to, r
  <2> QED BY <1>1, <1>2, <1>5, HashAfterTyped DEF Contents
<1>7. batch' \in Seq(Row)
  <2>1. PICK blocks \in Seq(Block), to2 \in Int :
          batch' = Append(batch, NewRow(r, computed[r], to2, blocks, {}))
    <3>1. PICK n2 \in Seq(Block), to2 \in Int :
            /\ table' = [table EXCEPT ![Candidate] = table[Candidate] \o n2]
            /\ batch' = Append(batch, NewRow(r, computed[r], to2, table[r] \o n2, {}))
      BY ScheduledRunning DEF Types
    <3>2. table[r] \o n2 \in Seq(Block)
      BY <1>1, <3>1 DEF Types, ControlTypes
    <3> QED BY <3>1, <3>2
  <2>2. to2 \in Nat
    BY <2>1, LastRowIsShort
  <2>3. NewRow(r, computed[r], to2, blocks, {}) \in Row
    BY <1>1, <1>4, <2>1, <2>2, NewRowTyped
  <2> QED BY <2>1, <2>3, AppendProperties DEF Contents
<1> QED BY <1>3, <1>6, <1>7 DEF Contents

(* An admission: hits and new blocks, pins, and what is chosen of the plan. *)
LEMMA AdmitContents ==
  ASSUME Types, Lengths, Lengths', Contents, AdmitWaiting
  PROVE  Contents'
<1> DEFINE r == Head(waiting)
           from == HitLength(r) * BlockSize
<1>1. r \in Request
  BY Admitted DEF Types
<1>2. PICK hits \in ComputedBlocks(r) :
        \E new \in NewBlocks((FreeBlocks \ Pins(r)) \ ToSet(hits),
                             CeilDiv(ChunkEnd(r), BlockSize) - Len(hits)) :
          Admit(r, hits \o new, new)
  BY DEF AdmitWaiting
<1>3. PICK new \in NewBlocks((FreeBlocks \ Pins(r)) \ ToSet(hits),
                             CeilDiv(ChunkEnd(r), BlockSize) - Len(hits)) :
          Admit(r, hits \o new, new)
  BY <1>2
<1>4. /\ HitLength(r) \in Nat /\ from \in Nat /\ ChunkEnd(r) \in Nat
      /\ ChunkEnd(r) <= tokens[r]
  BY <1>1, ChunkIsShort DEF Types, Lengths
<1>5. hits \o new \in Seq(Block)
  <2>1. hits \in Seq(Block)
    BY <1>2, <1>4 DEF ComputedBlocks
  <2>2. CeilDiv(ChunkEnd(r), BlockSize) - Len(hits) \in Int
    BY <1>4, <2>1, CeilDivType, LenProperties
  <2>3. new \in Seq(Block)
    BY <1>3, <2>2, NewBlocksType DEF FreeBlocks
  <2> QED BY <2>1, <2>3
<1>6. Plan(r) \subseteq Copy /\ Pins(r) \subseteq Block
  BY <1>1, PlanTyped DEF Contents
<1>7. PICK chosen \in SUBSET Plan(r) :
        /\ hash' = HashAfter(r, hits \o new, new, ChunkEnd(r) \div BlockSize)
        /\ batch' = Append(batch, NewRow(r, from, ChunkEnd(r), hits \o new, chosen))
        /\ reused' = [reused EXCEPT ![r] = {c.target : c \in chosen}]
  BY <1>3 DEF Admit
<1>8. /\ lease' = lease \/ lease' = [lease EXCEPT ![NextLease] = Pins(r)]
      /\ UNCHANGED <<sources, todo, inflight, kv>>
  BY DEF AdmitWaiting, worker
<1>9. tokens[r] <= MaxTokens[r] /\ tokens[r] \in Int /\ MaxTokens[r] \in Int
  BY <1>1, RequestAssumption DEF Types, ControlTypes, Lengths
<1> HIDE DEF r, from
<1>10. hash' \in [Block -> Stored]
  <2> DEFINE blocks == hits \o new
             n == ChunkEnd(r)
  <2>1. n \in Int /\ n <= MaxTokens[r] /\ hash \in [Block -> Stored]
    BY <1>4, <1>9 DEF Contents
  <2>2. hash' = HashAfter(r, blocks, new, n \div BlockSize)
    BY <1>7
  <2> HIDE DEF blocks, n
  <2> QED BY <1>1, <2>1, <2>2, HashAfterTyped
<1>11. batch' \in Seq(Row)
  <2>1. NewRow(r, from, ChunkEnd(r), hits \o new, chosen) \in Row
    BY <1>1, <1>4, <1>5, <1>6, <1>7, NewRowTyped
  <2> QED BY <1>7, <2>1, AppendProperties DEF Contents
<1>12. reused' \in [Request -> SUBSET Nat]
  <2>1. \A c \in chosen : c.target \in Nat
    BY <1>6 DEF Copy
  <2> QED BY <1>7, <2>1 DEF Contents
<1>13. lease' \in [Lease -> SUBSET Block]
  BY <1>6, <1>8 DEF Contents
<1> QED BY <1>8, <1>10, <1>11, <1>12, <1>13 DEF Contents

(* The batch is launched with what its requests may skip and whether its   *)
(* rows sample.                                                            *)
LEMMA LaunchContents ==
  ASSUME Types, Contents, Launch
  PROVE  Contents'
<1> DEFINE step == [i \in DOMAIN batch |->
                      [batch[i] EXCEPT !.reuse = reused[batch[i].req],
                                       !.samples = Samples(batch[i])]]
<1>1. /\ UNCHANGED <<hash, sources, reused, todo, kv>> /\ batch' = << >>
      /\ inflight' = Append(inflight, step)
      /\ \/ lease' = lease
         \/ lease' = [l \in Lease |-> IF l \in ToSet(retained) THEN {} ELSE lease[l]]
  BY DEF Launch, ReleaseLeases
<1>2. lease' \in [Lease -> SUBSET Block]
  BY <1>1 DEF Contents
<1>3. step \in Seq(Row)
  <2>1. batch \in Seq(Row)
    BY DEF Contents
  <2>2. ASSUME NEW i \in DOMAIN batch
        PROVE  [batch[i] EXCEPT !.reuse = reused[batch[i].req],
                                !.samples = Samples(batch[i])] \in Row
    <3>1. batch[i] \in Row
      BY <2>1, <2>2
    <3>2. reused[batch[i].req] \in SUBSET Nat
      BY <3>1 DEF Row, Contents
    <3>3. Samples(batch[i]) \in BOOLEAN
      BY DEF Samples
    <3> QED BY <3>1, <3>2, <3>3 DEF Row
  <2>3. DOMAIN batch = 1 .. Len(batch) /\ Len(batch) \in Nat
    BY <2>1, LenProperties
  <2>4. step \in [1 .. Len(batch) -> Row]
    BY <2>2, <2>3
  <2> HIDE DEF step
  <2> QED BY <2>3, <2>4
<1> HIDE DEF step
<1>4. inflight' \in Seq(Seq(Row))
  BY <1>1, <1>3, AppendProperties DEF Contents
<1> QED BY <1>1, <1>2, <1>4 DEF Contents

(* Forgetting every hash and every source, or none.                        *)
LEMMA ClearContents ==
  ASSUME Contents, ClearCache \/ UNCHANGED <<hash, sources>>,
         UNCHANGED <<lease, reused, todo, inflight, kv, batch>>
  PROVE  Contents'
<1>1. hash' \in [Block -> Stored] /\ sources' \in [Request -> SUBSET Indexed]
  BY DEF ClearCache, Contents, Stored
<1> QED BY <1>1 DEF Contents

(* Results taken: the step has written, and becomes the rows to go over.   *)
LEMMA TakeContents ==
  ASSUME Types, Contents, TakeResults
  PROVE  Contents'
<1>1. /\ inflight # << >> /\ inflight' = Tail(inflight) /\ todo' = Head(inflight)
      /\ kv' = AfterStep(Head(inflight))
      /\ UNCHANGED <<hash, sources, reused, batch>>
      /\ \/ lease' = lease
         \/ \E L : lease' = [l \in Lease |-> IF l \in L THEN {} ELSE lease[l]]
  BY DEF TakeResults, ReleaseLeases
<1>2. Head(inflight) \in Seq(Row) /\ inflight' \in Seq(Seq(Row))
  BY <1>1, HeadTailProperties DEF Contents
<1>3. kv' \in [Block -> [Slot -> Stored]]
  BY <1>1, <1>2, StepWrites DEF Contents
<1>4. lease' \in [Lease -> SUBSET Block]
  BY <1>1 DEF Contents
<1> QED BY <1>1, <1>2, <1>3, <1>4 DEF Contents

(* A token appended completes blocks the request has hashes for.           *)
LEMMA TokenContents ==
  ASSUME Types, Lengths, Contents, AppendToken
  PROVE  Contents'
<1> DEFINE r == NextRow.req
           n == computed[r] - placeholders'[r]
<1>1. /\ phase = "update" /\ RowDone /\ UNCHANGED <<batch, inflight, kv, computed>>
      /\ status[r] \in {"waiting", "preempted", "running"}
      /\ placeholders' = [placeholders EXCEPT ![r] = IF Async THEN @ - 1 ELSE @]
      /\ hash' = IF Async /\ status[r] = "running"
                 THEN HashAfter(r, table[r], << >>, n \div BlockSize) ELSE hash
      /\ \/ UNCHANGED <<sources, reused, lease>>
         \/ IndexSource(r, hash') /\ FreeRequestBlocks(r)
  BY DEF AppendToken, YieldsToken, Stop, worker
<1>2. r \in Request
  BY <1>1, RowTaken DEF Types
<1> HIDE DEF r
<1>3. hash' \in [Block -> Stored]
  <2>1. CASE Async /\ status[r] = "running"
    <3>1. /\ tokens[r] \in Nat /\ placeholders[r] \in Int /\ computed[r] \in Int
          /\ MaxTokens[r] \in Nat
      BY <1>2, RequestAssumption DEF Types, ControlTypes
    <3>2. placeholders'[r] = placeholders[r] - 1
      BY <1>1, <1>2, <2>1 DEF Types, ControlTypes
    <3>3. computed[r] <= tokens[r] + placeholders[r] /\ tokens[r] < MaxTokens[r]
      BY <1>2, <2>1 DEF Lengths
    <3>4. n \in Int /\ n <= MaxTokens[r]
      BY <3>1, <3>2, <3>3
    <3>5. hash' = HashAfter(r, table[r], << >>, n \div BlockSize)
          /\ hash \in [Block -> Stored]
      BY <1>1, <2>1 DEF Contents
    <3> HIDE DEF n
    <3> QED BY <1>2, <3>4, <3>5, HashAfterTyped
  <2>2. CASE ~ (Async /\ status[r] = "running")
    BY <1>1, <2>2 DEF Contents
  <2> QED BY <2>1, <2>2
<1> HIDE DEF n
<1>4. /\ sources' \in [Request -> SUBSET Indexed] /\ lease' \in [Lease -> SUBSET Block]
      /\ reused' \in [Request -> SUBSET Nat]
  <2>1. CASE UNCHANGED <<sources, reused, lease>>
    BY <2>1 DEF Contents
  <2>2. CASE IndexSource(r, hash') /\ FreeRequestBlocks(r)
    BY <1>2, <1>3, <2>2, IndexTyped, FreeContents DEF Contents, Types
  <2> QED BY <1>1, <2>1, <2>2
<1>5. todo' \in Seq(Row)
  BY <1>1, HeadTailProperties DEF RowDone, Types, RowsNameRequests, Contents
<1> QED BY <1>1, <1>3, <1>4, <1>5 DEF Contents

(* Every step keeps Contents: the inductive step of the invariant.         *)
LEMMA NextContents ==
  ASSUME Types, Lengths, Lengths', Contents, [Next]_vars
  PROVE  Contents'
<1> USE DEF leases, worker, call, pool
<1>1. CASE UNCHANGED vars \/ Idle
  BY <1>1 DEF vars, Idle, Contents
<1>2. ASSUME NEW r \in Request, Abort(r) PROVE Contents'
  <2>1. /\ IndexSource(r, hash) /\ FreeRequestBlocks(r)
        /\ UNCHANGED <<hash, batch, todo, inflight, kv>>
    BY <1>2 DEF Abort
  <2>2. lease' \in [Lease -> SUBSET Block] /\ reused' \in [Request -> SUBSET Nat]
    BY <2>1, FreeContents DEF Contents, Types
  <2>3. sources' \in [Request -> SUBSET Indexed]
    BY <2>1, IndexTyped DEF Contents, Types
  <2> QED BY <2>1, <2>2, <2>3 DEF Contents
<1>3. CASE ResetPreempt \/ PreemptForSlots
  <2>1. /\ running # << >> /\ PreemptLast
        /\ UNCHANGED <<hash, sources, batch, todo, inflight, kv>>
    BY <1>3, CandidateType DEF ResetPreempt, PreemptForSlots, Types
  <2>2. Last(running) \in Request /\ FreeRequestBlocks(Last(running))
    BY <2>1, PreemptTypes DEF PreemptLast, Types
  <2>3. lease' \in [Lease -> SUBSET Block] /\ reused' \in [Request -> SUBSET Nat]
    BY <2>2, FreeContents DEF Contents, Types
  <2> QED BY <2>1, <2>3 DEF Contents
<1>4. CASE ResetPrefixCache \/ ResetEnd
  BY <1>4, ClearContents DEF ResetPrefixCache, ResetEnd
<1>5. CASE ScheduleRunning
  BY <1>5, ScheduleContents
<1>6. CASE AdmitWaiting
  BY <1>6, AdmitContents
<1>7. CASE Launch
  BY <1>7, LaunchContents
<1>8. CASE TakeResults
  BY <1>8, TakeContents
<1>9. CASE AppendToken
  BY <1>9, TokenContents
<1>10. CASE IgnoreRow \/ DiscardRow
  <2>1. /\ phase = "update" /\ todo' = Tail(todo)
        /\ UNCHANGED <<hash, sources, lease, reused, batch, inflight, kv>>
    BY <1>10 DEF IgnoreRow, DiscardRow, RowDone
  <2>2. todo' \in Seq(Row)
    BY <2>1, HeadTailProperties DEF Types, RowsNameRequests, Contents
  <2> QED BY <2>1, <2>2 DEF Contents
<1>11. CASE BeginSchedule
  <2>1. batch' \in Seq(Row)
    BY <1>11 DEF BeginSchedule
  <2> QED BY <1>11, <2>1 DEF BeginSchedule, Contents
<1>12. ASSUME \/ \E r \in Request : AddRequest(r)
              \/ ForceReset \/ SkipRunning \/ EndRunning \/ RefuseWaiting \/ EndWaiting
       PROVE  Contents'
  <2>1. UNCHANGED <<hash, sources, lease, reused, batch, todo, inflight, kv>>
    BY <1>12 DEF AddRequest, ForceReset, SkipRunning, EndRunning, RefuseWaiting, EndWaiting
  <2> QED BY <2>1 DEF Contents
<1> QED
  BY <1>1, <1>2, <1>3, <1>4, <1>5, <1>6, <1>7, <1>8, <1>9, <1>10, <1>11, <1>12
     DEF Next, Client, Engine

(* ref has an entry for each block and nothing else.                       *)
RefIsTotal == ref = [b \in Block |-> ref[b]]

(* Every step that changes a reference count goes over all blocks.         *)
LEMMA NextRefIsTotal == RefIsTotal /\ [Next]_vars => RefIsTotal'
<1> SUFFICES ASSUME RefIsTotal, [Next]_vars PROVE RefIsTotal'
  OBVIOUS
<1> USE DEF pool
<1>1. ASSUME ref' = ref PROVE RefIsTotal'
  BY <1>1 DEF RefIsTotal
<1>2. ASSUME NEW r, FreeRequestBlocks(r) PROVE RefIsTotal'
  BY <1>2 DEF FreeRequestBlocks, RefIsTotal
<1>3. ASSUME NEW L, ReleaseLeases(L) PROVE RefIsTotal'
  BY <1>3 DEF ReleaseLeases, RefIsTotal
<1>4. ASSUME \/ \E r \in Request : Abort(r)
             \/ ResetPreempt \/ PreemptForSlots \/ AppendToken
      PROVE  RefIsTotal'
  <2>1. ref' = ref \/ \E r : FreeRequestBlocks(r)
    BY <1>4 DEF Abort, ResetPreempt, PreemptForSlots, AppendToken, PreemptLast, Stop
  <2> QED BY <1>1, <1>2, <2>1
<1>5. CASE ScheduleRunning
  BY <1>5 DEF ScheduleRunning, RefIsTotal
<1>6. CASE AdmitWaiting
  BY <1>6 DEF AdmitWaiting, Admit, RefIsTotal
<1>7. CASE Launch \/ TakeResults
  <2>1. ref' = ref \/ \E L : ReleaseLeases(L)
    BY <1>7 DEF Launch, TakeResults
  <2> QED BY <1>1, <1>3, <2>1
<1>8. CASE UNCHANGED vars \/ Idle
  BY <1>1, <1>8 DEF vars, Idle
<1>9. ASSUME \/ \E r \in Request : AddRequest(r)
             \/ ResetPrefixCache \/ ForceReset \/ ResetEnd \/ BeginSchedule
             \/ SkipRunning \/ EndRunning \/ RefuseWaiting \/ EndWaiting
             \/ IgnoreRow \/ DiscardRow
      PROVE  RefIsTotal'
  <2>1. ref' = ref
    BY <1>9 DEF AddRequest, ResetPrefixCache, ForceReset, ResetEnd, BeginSchedule,
                SkipRunning, EndRunning, RefuseWaiting, EndWaiting, IgnoreRow, DiscardRow
  <2> QED BY <1>1, <2>1
<1> QED
  BY <1>1, <1>4, <1>5, <1>6, <1>7, <1>8, <1>9 DEF Next, Client, Engine

(* Init: nothing is stored, no request has been computed.                  *)
LEMMA InitContents == Init => Numbers /\ NoDebt /\ Lengths /\ Contents /\ RefIsTotal
<1> SUFFICES ASSUME Init PROVE Numbers /\ NoDebt /\ Lengths /\ Contents /\ RefIsTotal
  OBVIOUS
<1>1. NoDebt
  BY DEF Init, NoDebt
<1>2. Lengths
  <2>1. \A r \in Request : /\ tokens[r] = PromptTokens[r] /\ computed[r] = 0
                           /\ placeholders[r] = 0
    BY DEF Init
  <2>2. \A r \in Request : /\ PromptTokens[r] \in Nat /\ MaxTokens[r] \in Nat
                           /\ PromptTokens[r] < MaxTokens[r]
    BY RequestAssumption
  <2>3. batch = << >> /\ budget = 0
    BY DEF Init
  <2> QED BY <2>1, <2>2, <2>3 DEF Lengths
<1>3. Contents
  <2>1. kv \in [Block -> [Slot -> Stored]] /\ hash \in [Block -> Stored]
    BY DEF Init, Stored
  <2>2. batch \in Seq(Row) /\ todo \in Seq(Row) /\ inflight \in Seq(Seq(Row))
    BY DEF Init
  <2>3. /\ sources \in [Request -> SUBSET Indexed] /\ lease \in [Lease -> SUBSET Block]
        /\ reused \in [Request -> SUBSET Nat]
    BY DEF Init
  <2> QED BY <2>1, <2>2, <2>3 DEF Contents
<1>4. RefIsTotal
  BY DEF Init, RefIsTotal
<1>5. Numbers
  <2>1. preempting \in BOOLEAN
    BY DEF Init
  <2>2. /\ discard \in [Request -> Int] /\ lastSched \in [Request -> Nat]
        /\ fence \in [Lease -> Nat] /\ schedSeq \in Nat /\ processedSeq \in Nat
        /\ resets \in Nat
    BY DEF Init
  <2> QED BY <2>1, <2>2 DEF Numbers
<1> QED BY <1>1, <1>2, <1>3, <1>4, <1>5

(* Placeholders are never negative, and the synchronous scheduler has none. *)
LEMMA NoDebtInvariant ==
  ASSUME Async => MaxConcurrent <= 2
  PROVE  Spec => []NoDebt
<1>1. CASE Async
  <2>1. Types /\ Steps /\ Accounts => NoDebt
    <3> SUFFICES ASSUME Types, Steps, Accounts PROVE NoDebt
      OBVIOUS
    <3>1. PlaceholdersCountOutputs
      BY <1>1, AccountsSuffice
    <3> QED BY <1>1, <3>1 DEF PlaceholdersCountOutputs, NoDebt
  <2>2. Spec => []Accounts
    BY <1>1, AccountsInvariant
  <2> QED BY <2>1, <2>2, TypesInvariant, StepsInvariant, PTL
<1>2. CASE ~ Async
  <2>1. Types /\ NoDebt /\ [Next]_vars => NoDebt'
    BY <1>2, NextNoDebt
  <2> QED BY <2>1, InitContents, TypesInvariant, PTL DEF Spec
<1> QED BY <1>1, <1>2

(* All the variables have their types.  The hash of a block is one of its  *)
(* request's, the KV of a slot stands for one, and no request is computed  *)
(* beyond its known tokens and the outputs to come: cache_blocks never     *)
(* asks for a block hash the request does not have yet.                    *)
THEOREM TypeInvariant ==
  ASSUME Async => MaxConcurrent <= 2
  PROVE  Spec => []TypeOK
<1>1. Types /\ Queues /\ Scheduled /\ NoDebt /\ NoDebt' /\ Lengths /\ [Next]_vars => Lengths'
  BY NextLengths
<1>2. Types /\ Lengths /\ Lengths' /\ Contents /\ [Next]_vars => Contents'
  BY NextContents
<1>3. Types /\ Numbers /\ Lengths /\ Contents /\ Refs /\ RefIsTotal => TypeOK
  <2> SUFFICES ASSUME Types, Numbers, Lengths, Contents, Refs, RefIsTotal PROVE TypeOK
    OBVIOUS
  <2>1. ref \in [Block -> Nat]
    <3>1. \A b \in Block : ref[b] \in Nat
      BY HoldersFinite DEF Refs, RefsCountHolders
    <3> QED BY <3>1 DEF RefIsTotal
  <2>2. computed \in [Request -> Nat] /\ budget \in Nat
    BY DEF Types, ControlTypes, Lengths
  <2> QED BY <2>1, <2>2 DEF TypeOK, Types, ControlTypes, Numbers, Contents, Stored
<1>4. Spec => []NoDebt
  BY NoDebtInvariant
<1> QED
  BY <1>1, <1>2, <1>3, <1>4, InitContents, NextNumbers, NextRefIsTotal, TypesInvariant,
     QueuesInvariant, ScheduledInvariant, RefsInvariant, PTL DEF Spec


-----------------------------------------------------------------------------
(***************************************************************************)
(* Positions, blocks and slots.                                            *)
(***************************************************************************)

(* A later block starts behind the whole of an earlier one.                *)
LEMMA BlocksAreDisjoint ==
  ASSUME NEW a \in Int, NEW b \in Int, a < b
  PROVE  a * BlockSize + BlockSize <= b * BlockSize
<1>1. BlockSize \in Nat \ {0}
  BY ConfigAssumption
<1>2. (b - a - 1) * BlockSize >= 0
  BY <1>1
<1>3. (b - a - 1) * BlockSize = b * BlockSize - a * BlockSize - BlockSize
  BY <1>1
<1>4. a * BlockSize \in Int /\ b * BlockSize \in Int
  BY <1>1
<1> QED BY <1>1, <1>2, <1>3, <1>4

(* The place of a position: the only block and slot it falls in.           *)
LEMMA PlaceUnique ==
  ASSUME NEW j \in Int, NEW o \in Slot, NEW k \in Int, NEW s \in Slot,
         j * BlockSize + o = k * BlockSize + s
  PROVE  j = k /\ o = s
<1>1. BlockSize \in Nat \ {0} /\ j * BlockSize \in Int /\ k * BlockSize \in Int
      /\ o \in 1 .. BlockSize /\ s \in 1 .. BlockSize
  BY ConfigAssumption DEF Slot
<1>2. CASE j < k
  <2>1. j * BlockSize + BlockSize <= k * BlockSize
    BY <1>2, BlocksAreDisjoint
  <2> QED BY <1>1, <2>1
<1>3. CASE k < j
  <2>1. k * BlockSize + BlockSize <= j * BlockSize
    BY <1>3, BlocksAreDisjoint
  <2> QED BY <1>1, <2>1
<1>4. CASE j = k
  BY <1>1, <1>4
<1> QED BY <1>2, <1>3, <1>4

(* Block and slot of a position.                                           *)
LEMMA Place ==
  ASSUME NEW p \in Nat \ {0}
  PROVE  /\ BlockOf(p) \in Nat \ {0} /\ SlotOf(p) \in Slot
         /\ p = (BlockOf(p) - 1) * BlockSize + SlotOf(p)
<1>1. BlockSize \in Nat \ {0} /\ p - 1 \in Nat
  BY ConfigAssumption
<1> DEFINE q == (p - 1) \div BlockSize
           m == (p - 1) % BlockSize
           y == (p + BlockSize - 1) \div BlockSize
           z == y - 1
<1>2. /\ q \in Nat /\ m \in Nat /\ m < BlockSize /\ p - 1 = q * BlockSize + m
  BY <1>1
<1>3. /\ y \in Int /\ y * BlockSize <= p + BlockSize - 1
      /\ p + BlockSize - 1 < y * BlockSize + BlockSize
  BY <1>1
<1>4. BlockOf(p) = y /\ SlotOf(p) = m + 1
  BY DEF BlockOf, CeilDiv, SlotOf
<1> HIDE DEF q, m, y
<1>5. z \in Int /\ z * BlockSize = y * BlockSize - BlockSize
      /\ y * BlockSize \in Int /\ q * BlockSize \in Int
  BY <1>1, <1>2, <1>3
<1> HIDE DEF z
<1>6. z * BlockSize <= p - 1 /\ p - 1 < z * BlockSize + BlockSize
  BY <1>1, <1>3, <1>5
<1>7. ~ z < q
  <2> SUFFICES ASSUME z < q PROVE FALSE
    OBVIOUS
  <2>1. z * BlockSize + BlockSize <= q * BlockSize
    BY <1>2, <1>5, BlocksAreDisjoint
  <2>2. z * BlockSize \in Int
    BY <1>1, <1>5
  <2> QED BY <1>1, <1>2, <1>5, <1>6, <2>1, <2>2
<1>8. ~ q < z
  <2> SUFFICES ASSUME q < z PROVE FALSE
    OBVIOUS
  <2>1. q * BlockSize + BlockSize <= z * BlockSize
    BY <1>2, <1>5, BlocksAreDisjoint
  <2>2. z * BlockSize \in Int
    BY <1>1, <1>5
  <2> QED BY <1>1, <1>2, <1>5, <1>6, <2>1, <2>2
<1>9. z = q
  BY <1>2, <1>5, <1>7, <1>8
<1>10. BlockOf(p) = q + 1 /\ y = q + 1
  BY <1>2, <1>3, <1>4, <1>9 DEF z
<1>11. SlotOf(p) \in Slot
  BY <1>1, <1>2, <1>4 DEF Slot
<1>12. p = (BlockOf(p) - 1) * BlockSize + SlotOf(p)
  <2>1. BlockOf(p) - 1 = q
    BY <1>2, <1>10
  <2> QED BY <1>1, <1>2, <1>4, <1>5, <2>1
<1> QED BY <1>2, <1>10, <1>11, <1>12

(* The position of a slot of a block.                                      *)
LEMMA PositionOf ==
  ASSUME NEW j \in Nat \ {0}, NEW o \in Slot
  PROVE  /\ (j - 1) * BlockSize + o \in Nat \ {0}
         /\ BlockOf((j - 1) * BlockSize + o) = j
         /\ SlotOf((j - 1) * BlockSize + o) = o
         /\ (j - 1) * BlockSize + o <= j * BlockSize
<1> DEFINE i == j - 1
           p == i * BlockSize + o
<1>1. BlockSize \in Nat \ {0} /\ o \in 1 .. BlockSize
  BY ConfigAssumption DEF Slot
<1>2. i \in Nat /\ i * BlockSize \in Nat /\ j * BlockSize = i * BlockSize + BlockSize
  BY <1>1
<1>3. p \in Nat \ {0}
  BY <1>1, <1>2
<1> HIDE DEF i
<1>4. /\ BlockOf(p) \in Nat \ {0} /\ SlotOf(p) \in Slot
      /\ p = (BlockOf(p) - 1) * BlockSize + SlotOf(p)
  BY <1>3, Place
<1>5. BlockOf(p) - 1 = i /\ SlotOf(p) = o
  <2>1. BlockOf(p) - 1 \in Int /\ i \in Int
    BY <1>2, <1>4
  <2> DEFINE c == BlockOf(p) - 1
             s == SlotOf(p)
  <2>2. c \in Int /\ s \in Slot /\ i * BlockSize + o = c * BlockSize + s
    BY <1>4, <2>1
  <2> HIDE DEF c, s, p
  <2>3. i = c /\ o = s
    BY <2>1, <2>2, PlaceUnique
  <2> QED BY <2>3 DEF c, s
<1>6. BlockOf(p) = j
  BY <1>2, <1>4, <1>5 DEF i
<1>7. p <= j * BlockSize
  BY <1>1, <1>2
<1> QED BY <1>3, <1>5, <1>6, <1>7 DEF i

(* Earlier positions are in no later blocks.                               *)
LEMMA BlockOfGrows ==
  ASSUME NEW p \in Nat \ {0}, NEW n \in Int, p <= n
  PROVE  BlockOf(p) <= BlockOf(n) /\ BlockOf(n) \in Int
<1>1. BlockSize \in Nat \ {0}
  BY ConfigAssumption
<1>2. p + BlockSize - 1 \in Int /\ n + BlockSize - 1 \in Int
      /\ p + BlockSize - 1 <= n + BlockSize - 1
  BY <1>1
<1>3. (n + BlockSize - 1) \div BlockSize \in Int
  BY <1>1, <1>2
<1> QED BY <1>2, <1>3, BlocksGrow DEF BlockOf, CeilDiv

(* The slots of the full blocks of n tokens are below n.                   *)
LEMMA FullBlocksAreBelow ==
  ASSUME NEW n \in Int, NEW j \in 1 .. n \div BlockSize
  PROVE  j \in Nat \ {0} /\ j * BlockSize <= n
<1>1. BlockSize \in Nat \ {0}
  BY ConfigAssumption
<1> DEFINE d == n \div BlockSize
<1>2. d \in Int /\ d * BlockSize <= n
  BY <1>1
<1> HIDE DEF d
<1>3. j \in 1 .. d
  BY DEF d
<1>4. CASE j = d
  BY <1>2, <1>3, <1>4
<1>5. CASE j < d
  <2>1. j * BlockSize + BlockSize <= d * BlockSize
    BY <1>2, <1>3, <1>5, BlocksAreDisjoint
  <2>2. j * BlockSize \in Int /\ d * BlockSize \in Int
    BY <1>1, <1>2, <1>3
  <2> QED BY <1>1, <1>2, <1>3, <2>1, <2>2
<1> QED BY <1>2, <1>3, <1>4, <1>5

-----------------------------------------------------------------------------
(***************************************************************************)
(* What the steps in flight leave in a slot.  A step puts KV there by      *)
(* computing a row or by a copy; the slot ends up with h if the last step  *)
(* that puts something there puts h, and nothing else.                     *)
(***************************************************************************)
Names(r, j) == IF j <= Len(Hashes[r]) THEN Hashes[r][j] ELSE NoHash

Puts(step, b, o, h) ==
  \E i \in DOMAIN step : \E j \in Nat \ {0} :
    /\ step[i].blocks[j] = b /\ h = Names(step[i].req, j)
    /\ \/ \E p \in step[i].from + 1 .. step[i].to :
            BlockOf(p) = j /\ SlotOf(p) = o /\ ~ Skips(step, step[i], p)
       \/ \E c \in step[i].copies : c.target = j

PutsOnly(step, b, o, h) == \A x : Puts(step, b, o, x) => x = h

(* After the first k of the steps, from what mem holds now.                *)
Ends(steps, k, mem, b, o, h) ==
  \/ \E j \in 1 .. k : /\ Puts(steps[j], b, o, h)
                       /\ \A i \in j .. k : PutsOnly(steps[i], b, o, h)
  \/ mem[b][o] = h /\ \A i \in 1 .. k : PutsOnly(steps[i], b, o, h)

(* It depends on what these steps put there only.                          *)
LEMMA EndsSame ==
  ASSUME NEW s, NEW t, NEW k \in Nat, NEW mem, NEW b, NEW o, NEW h,
         \A i \in 1 .. k : \A x : Puts(s[i], b, o, x) <=> Puts(t[i], b, o, x),
         Ends(s, k, mem, b, o, h)
  PROVE  Ends(t, k, mem, b, o, h)
<1>1. \A i \in 1 .. k : PutsOnly(s[i], b, o, h) => PutsOnly(t[i], b, o, h)
  BY DEF PutsOnly
<1>2. CASE mem[b][o] = h /\ \A i \in 1 .. k : PutsOnly(s[i], b, o, h)
  BY <1>1, <1>2 DEF Ends
<1>3. CASE \E j \in 1 .. k : /\ Puts(s[j], b, o, h)
                             /\ \A i \in j .. k : PutsOnly(s[i], b, o, h)
  <2>1. PICK j \in 1 .. k : /\ Puts(s[j], b, o, h)
                            /\ \A i \in j .. k : PutsOnly(s[i], b, o, h)
    BY <1>3
  <2>2. \A i \in j .. k : i \in 1 .. k
    OBVIOUS
  <2>3. Puts(t[j], b, o, h) /\ \A i \in j .. k : PutsOnly(t[i], b, o, h)
    BY <1>1, <2>1, <2>2
  <2> QED BY <2>3 DEF Ends
<1> QED BY <1>2, <1>3 DEF Ends

(* Rows put the same whatever they sample.                                 *)
LEMMA PutsSame ==
  ASSUME NEW s, NEW t, DOMAIN s = DOMAIN t, Len(s) = Len(t),
         \A i \in DOMAIN s : /\ s[i].req = t[i].req /\ s[i].from = t[i].from
                             /\ s[i].to = t[i].to /\ s[i].blocks = t[i].blocks
                             /\ s[i].copies = t[i].copies /\ s[i].reuse = t[i].reuse,
         NEW b, NEW o, NEW x
  PROVE  Puts(s, b, o, x) <=> Puts(t, b, o, x)
<1>1. \A i \in DOMAIN s : \A p : Skips(s, s[i], p) <=> Skips(t, t[i], p)
  BY DEF Skips, BatchAllowsReuse
<1> QED BY <1>1 DEF Puts

(* The last step puts it there.                                            *)
LEMMA EndsNow ==
  ASSUME NEW s, NEW k \in Nat \ {0}, NEW mem, NEW b, NEW o, NEW h,
         Puts(s[k], b, o, h), PutsOnly(s[k], b, o, h)
  PROVE  Ends(s, k, mem, b, o, h)
<1>1. k \in 1 .. k /\ \A i \in k .. k : i = k
  OBVIOUS
<1> QED BY <1>1 DEF Ends

(* The last step is another one, that still puts what the old one put.     *)
LEMMA EndsKept ==
  ASSUME NEW s, NEW t, NEW k \in Nat \ {0}, NEW mem, NEW b, NEW o, NEW h,
         \A i \in 1 .. k - 1 : s[i] = t[i],
         Puts(s[k], b, o, h) => Puts(t[k], b, o, h),
         PutsOnly(t[k], b, o, h),
         Ends(s, k, mem, b, o, h)
  PROVE  Ends(t, k, mem, b, o, h)
<1>1. \A i \in 1 .. k : i = k \/ i \in 1 .. k - 1
  OBVIOUS
<1>2. CASE mem[b][o] = h /\ \A i \in 1 .. k : PutsOnly(s[i], b, o, h)
  <2>1. \A i \in 1 .. k : PutsOnly(t[i], b, o, h)
    BY <1>1, <1>2
  <2> QED BY <1>2, <2>1 DEF Ends
<1>3. CASE \E j \in 1 .. k : /\ Puts(s[j], b, o, h)
                             /\ \A i \in j .. k : PutsOnly(s[i], b, o, h)
  <2>1. PICK j \in 1 .. k : /\ Puts(s[j], b, o, h)
                            /\ \A i \in j .. k : PutsOnly(s[i], b, o, h)
    BY <1>3
  <2>2. \A i \in j .. k : i \in 1 .. k
    OBVIOUS
  <2>3. Puts(t[j], b, o, h)
    BY <1>1, <2>1
  <2>4. \A i \in j .. k : PutsOnly(t[i], b, o, h)
    BY <1>1, <2>1, <2>2
  <2> QED BY <2>3, <2>4 DEF Ends
<1> QED BY <1>2, <1>3 DEF Ends

(* A last step that puts nothing there makes no difference.                *)
LEMMA EndsBefore ==
  ASSUME NEW s, NEW k \in Nat, NEW mem, NEW b, NEW o, NEW h,
         \A x : ~ Puts(s[k + 1], b, o, x)
  PROVE  Ends(s, k + 1, mem, b, o, h) <=> Ends(s, k, mem, b, o, h)
<1>1. \A i \in 1 .. k + 1 : i = k + 1 \/ i \in 1 .. k
  OBVIOUS
<1>2. \A i \in 1 .. k : i \in 1 .. k + 1
  OBVIOUS
<1>3. PutsOnly(s[k + 1], b, o, h)
  BY DEF PutsOnly
<1>4. ASSUME Ends(s, k + 1, mem, b, o, h) PROVE Ends(s, k, mem, b, o, h)
  <2>1. CASE mem[b][o] = h /\ \A i \in 1 .. k + 1 : PutsOnly(s[i], b, o, h)
    BY <1>2, <2>1 DEF Ends
  <2>2. CASE \E j \in 1 .. k + 1 : /\ Puts(s[j], b, o, h)
                                   /\ \A i \in j .. k + 1 : PutsOnly(s[i], b, o, h)
    <3>1. PICK j \in 1 .. k + 1 : /\ Puts(s[j], b, o, h)
                                  /\ \A i \in j .. k + 1 : PutsOnly(s[i], b, o, h)
      BY <2>2
    <3>2. j \in 1 .. k
      BY <1>1, <3>1
    <3>3. \A i \in j .. k : i \in j .. k + 1
      BY <3>2
    <3> QED BY <3>1, <3>2, <3>3 DEF Ends
  <2> QED BY <1>4, <2>1, <2>2 DEF Ends
<1>5. ASSUME Ends(s, k, mem, b, o, h) PROVE Ends(s, k + 1, mem, b, o, h)
  <2>1. CASE mem[b][o] = h /\ \A i \in 1 .. k : PutsOnly(s[i], b, o, h)
    BY <1>1, <1>3, <2>1 DEF Ends
  <2>2. CASE \E j \in 1 .. k : /\ Puts(s[j], b, o, h)
                               /\ \A i \in j .. k : PutsOnly(s[i], b, o, h)
    <3>1. PICK j \in 1 .. k : /\ Puts(s[j], b, o, h)
                              /\ \A i \in j .. k : PutsOnly(s[i], b, o, h)
      BY <2>2
    <3>2. \A i \in j .. k + 1 : i = k + 1 \/ i \in j .. k
      OBVIOUS
    <3>3. \A i \in j .. k + 1 : PutsOnly(s[i], b, o, h)
      BY <1>3, <3>1, <3>2
    <3> QED BY <1>2, <3>1, <3>3 DEF Ends
  <2> QED BY <1>5, <2>1, <2>2 DEF Ends
<1> QED BY <1>4, <1>5

(* The first step is done: what it has put there is in memory.             *)
LEMMA EndsDone ==
  ASSUME NEW s, NEW t, NEW k \in Nat \ {0}, NEW mem, NEW done, NEW b, NEW o, NEW h,
         \A i \in 1 .. k - 1 : t[i] = s[i + 1],
         Puts(s[1], b, o, h) /\ PutsOnly(s[1], b, o, h) => done[b][o] = h,
         (\A x : ~ Puts(s[1], b, o, x)) => done[b][o] = mem[b][o],
         Ends(s, k, mem, b, o, h)
  PROVE  Ends(t, k - 1, done, b, o, h)
<1>1. \A i \in 1 .. k - 1 : i + 1 \in 1 .. k /\ t[i] = s[i + 1]
  OBVIOUS
<1>2. 1 \in 1 .. k
  OBVIOUS
<1>3. ASSUME PutsOnly(s[1], b, o, h), \A i \in 1 .. k : PutsOnly(s[i], b, o, h),
             Puts(s[1], b, o, h) \/ mem[b][o] = h
      PROVE  Ends(t, k - 1, done, b, o, h)
  <2>1. done[b][o] = h
    BY <1>3 DEF PutsOnly
  <2>2. \A i \in 1 .. k - 1 : PutsOnly(t[i], b, o, h)
    BY <1>1, <1>3
  <2> QED BY <2>1, <2>2 DEF Ends
<1>4. CASE mem[b][o] = h /\ \A i \in 1 .. k : PutsOnly(s[i], b, o, h)
  BY <1>2, <1>3, <1>4
<1>5. CASE \E j \in 1 .. k : /\ Puts(s[j], b, o, h)
                             /\ \A i \in j .. k : PutsOnly(s[i], b, o, h)
  <2>1. PICK j \in 1 .. k : /\ Puts(s[j], b, o, h)
                            /\ \A i \in j .. k : PutsOnly(s[i], b, o, h)
    BY <1>5
  <2>2. CASE j = 1
    BY <1>2, <1>3, <2>1, <2>2
  <2>3. CASE j # 1
    <3>1. j - 1 \in 1 .. k - 1 /\ j = (j - 1) + 1
      BY <2>3
    <3>2. Puts(t[j - 1], b, o, h)
      BY <1>1, <2>1, <3>1
    <3>3. ASSUME NEW i \in j - 1 .. k - 1 PROVE PutsOnly(t[i], b, o, h)
      <4>1. i \in 1 .. k - 1 /\ i + 1 \in j .. k
        BY <3>1
      <4> QED BY <1>1, <2>1, <4>1
    <3> QED BY <3>1, <3>2, <3>3 DEF Ends
  <2> QED BY <2>2, <2>3
<1> QED BY <1>4, <1>5 DEF Ends

(* Puts in terms of the sets of the worker model.                          *)
LEMMA PutsMeans ==
  ASSUME NEW step \in Seq(Row), NEW b, NEW o \in Slot, NEW h
  PROVE  Puts(step, b, o, h) <=>
           \/ \E w \in Writers(step, b, o) : h = HashAt(step[w[1]].req, w[2])
           \/ \E ic \in CopiesTo(step, b) :
                 h = HashAt(step[ic[1]].req, ic[2].target * BlockSize)
<1>1. \A i \in DOMAIN step : step[i] \in Row
  OBVIOUS
<1>2. \A i \in DOMAIN step : step[i].from \in Nat /\ step[i].to \in Nat
  BY <1>1 DEF Row
<1>3. \A i \in DOMAIN step : \A c \in step[i].copies : c.target \in Nat \ {0}
  <2>1. \A i \in DOMAIN step : step[i].copies \subseteq Copy
    BY <1>1 DEF Row
  <2> QED BY <2>1 DEF Copy
<1>4. \A r, j : j \in Nat \ {0} => HashAt(r, j * BlockSize) = Names(r, j)
  <2> SUFFICES ASSUME NEW r, NEW j \in Nat \ {0} PROVE HashAt(r, j * BlockSize) = Names(r, j)
    OBVIOUS
  <2>1. BlockSize \in Slot /\ BlockSize \in Nat
    BY ConfigAssumption DEF Slot
  <2>2. BlockOf((j - 1) * BlockSize + BlockSize) = j
    BY <2>1, PositionOf
  <2>3. (j - 1) * BlockSize + BlockSize = j * BlockSize
    BY <2>1
  <2> QED BY <2>2, <2>3 DEF HashAt, Names
<1>5. ASSUME NEW i \in DOMAIN step, NEW p \in step[i].from + 1 .. step[i].to
      PROVE  p \in Nat \ {0} /\ BlockOf(p) \in Nat \ {0}
  <2>1. p \in Nat \ {0}
    BY <1>2
  <2> QED BY <2>1, Place
<1>6. ASSUME Puts(step, b, o, h)
      PROVE  \/ \E w \in Writers(step, b, o) : h = HashAt(step[w[1]].req, w[2])
             \/ \E ic \in CopiesTo(step, b) :
                   h = HashAt(step[ic[1]].req, ic[2].target * BlockSize)
  <2>1. PICK i \in DOMAIN step, j \in Nat \ {0} :
          /\ step[i].blocks[j] = b /\ h = Names(step[i].req, j)
          /\ \/ \E p \in step[i].from + 1 .. step[i].to :
                  BlockOf(p) = j /\ SlotOf(p) = o /\ ~ Skips(step, step[i], p)
             \/ \E c \in step[i].copies : c.target = j
    BY <1>6 DEF Puts
  <2>2. ASSUME NEW p \in step[i].from + 1 .. step[i].to,
               BlockOf(p) = j, SlotOf(p) = o, ~ Skips(step, step[i], p)
        PROVE  \E w \in Writers(step, b, o) : h = HashAt(step[w[1]].req, w[2])
    <3>1. p \in Nat \ {0} /\ p \in 1 .. step[i].to /\ step[i].from < p /\ p <= step[i].to
      BY <1>2, <1>5
    <3>2. <<i, p>> \in Writers(step, b, o)
      BY <2>1, <2>2, <3>1 DEF Writers
    <3>3. h = HashAt(step[i].req, p)
      BY <2>1, <2>2 DEF HashAt, Names
    <3> QED BY <3>2, <3>3
  <2>3. ASSUME NEW c \in step[i].copies, c.target = j
        PROVE  \E ic \in CopiesTo(step, b) :
                 h = HashAt(step[ic[1]].req, ic[2].target * BlockSize)
    <3>1. <<i, c>> \in CopiesTo(step, b)
      BY <2>1, <2>3 DEF CopiesTo
    <3>2. h = HashAt(step[i].req, c.target * BlockSize)
      BY <1>4, <2>1, <2>3
    <3> QED BY <3>1, <3>2
  <2> QED BY <2>1, <2>2, <2>3
<1>7. ASSUME NEW w \in Writers(step, b, o), h = HashAt(step[w[1]].req, w[2])
      PROVE  Puts(step, b, o, h)
  <2>1. PICK i \in DOMAIN step, p \in UNION {1 .. step[j].to : j \in DOMAIN step} : w = <<i, p>>
    BY DEF Writers
  <2>2. /\ step[i].from < p /\ p <= step[i].to /\ step[i].blocks[BlockOf(p)] = b
        /\ SlotOf(p) = o /\ ~ Skips(step, step[i], p)
    BY <2>1 DEF Writers
  <2>3. p \in Int
    BY <1>2
  <2>4. p \in step[i].from + 1 .. step[i].to
    BY <1>2, <2>2, <2>3
  <2>5. h = Names(step[i].req, BlockOf(p))
    BY <1>7, <2>1 DEF HashAt, Names
  <2> QED BY <1>5, <2>2, <2>4, <2>5 DEF Puts
<1>8. ASSUME NEW ic \in CopiesTo(step, b),
             h = HashAt(step[ic[1]].req, ic[2].target * BlockSize)
      PROVE  Puts(step, b, o, h)
  <2>1. PICK i \in DOMAIN step, c \in UNION {step[j].copies : j \in DOMAIN step} : ic = <<i, c>>
    BY DEF CopiesTo
  <2>2. c \in step[i].copies /\ step[i].blocks[c.target] = b
    BY <2>1 DEF CopiesTo
  <2>3. h = Names(step[i].req, c.target)
    BY <1>3, <1>4, <1>8, <2>1, <2>2
  <2> QED BY <1>3, <2>2, <2>3 DEF Puts
<1> QED BY <1>6, <1>7, <1>8

(* A step leaves in a slot what it puts there, if that is one thing and    *)
(* the sources of its copies are written; it leaves other slots alone.     *)
LEMMA StepLeaves ==
  ASSUME NEW step \in Seq(Row), NEW b \in Block, NEW o \in Slot,
         \A i \in DOMAIN step : \A c \in step[i].copies : \A e \in c.from :
           IsWritten(e.block, e.hash)
  PROVE  /\ \A h : Puts(step, b, o, h) /\ PutsOnly(step, b, o, h)
                   => AfterStep(step)[b][o] = h
         /\ (\A x : ~ Puts(step, b, o, x)) => AfterStep(step)[b][o] = kv[b][o]
<1> DEFINE x == CHOOSE y \in CopiesTo(step, b) : TRUE
           w == CHOOSE y \in Writers(step, b, o) : TRUE
           copied == AfterCopies(step)[b][o]
           written == HashAt(step[w[1]].req, w[2])
<1>1. AfterStep(step)[b][o] = IF Writers(step, b, o) = {} THEN copied ELSE written
  BY DEF AfterStep
<1>2. CASE Writers(step, b, o) # {}
  <2>1. w \in Writers(step, b, o)
    BY <1>2
  <2>2. Puts(step, b, o, written)
    BY <2>1, PutsMeans
  <2> HIDE DEF w, copied, written
  <2> QED BY <1>1, <1>2, <2>2 DEF PutsOnly
<1>3. CASE Writers(step, b, o) = {} /\ CopiesTo(step, b) # {}
  <2> DEFINE v == HashAt(step[x[1]].req, x[2].target * BlockSize)
  <2>1. x \in CopiesTo(step, b)
    BY <1>3
  <2>2. Puts(step, b, o, v)
    BY <2>1, PutsMeans
  <2>3. \A e \in x[2].from : IsWritten(e.block, e.hash)
    <3>1. \A y \in CopiesTo(step, b) : y[1] \in DOMAIN step /\ y[2] \in step[y[1]].copies
      BY DEF CopiesTo
    <3>2. x[1] \in DOMAIN step /\ x[2] \in step[x[1]].copies
      BY <2>1, <3>1
    <3> HIDE DEF x
    <3> QED BY <3>2
  <2>4. AfterCopies(step)[b] =
          [q \in Slot |-> IF \A e \in x[2].from : IsWritten(e.block, e.hash) THEN v ELSE NoHash]
    BY <1>3 DEF AfterCopies
  <2> HIDE DEF x, v
  <2>5. copied = v
    BY <2>3, <2>4
  <2> HIDE DEF w, copied, written
  <2> QED BY <1>1, <1>3, <2>2, <2>5 DEF PutsOnly
<1>4. CASE Writers(step, b, o) = {} /\ CopiesTo(step, b) = {}
  <2>1. copied = kv[b][o]
    BY <1>4 DEF AfterCopies
  <2> HIDE DEF w, copied, written
  <2>2. \A h : ~ Puts(step, b, o, h)
    BY <1>4, PutsMeans
  <2> QED BY <1>1, <1>4, <2>1, <2>2
<1> QED BY <1>2, <1>3, <1>4

-----------------------------------------------------------------------------
(***************************************************************************)
(* The step being scheduled.                                               *)
(***************************************************************************)
StepOf(bt, rd) == [i \in DOMAIN bt |-> [bt[i] EXCEPT !.reuse = rd[bt[i].req]]]

(* Its rows work on the tables of their requests, and within them.         *)
RowsFit(bt, tb) ==
  \A i \in DOMAIN bt :
    /\ bt[i].blocks = tb[bt[i].req] /\ BlockOf(bt[i].to) <= Len(bt[i].blocks)
    /\ \A c \in bt[i].copies : c.target <= Len(bt[i].blocks)

(* Whoever has block b in its table has it for the tokens h stands for.    *)
Belongs(tb, b, h) ==
  \A r \in Request : \A j \in DOMAIN tb[r] : tb[r][j] = b => h = Names(r, j)

(* What is in a row, and in the row as it is launched.                     *)
LEMMA RowFields ==
  ASSUME NEW bt \in Seq(Row), NEW rd
  PROVE  /\ Len(bt) \in Nat /\ DOMAIN bt = 1 .. Len(bt)
         /\ DOMAIN StepOf(bt, rd) = DOMAIN bt /\ Len(StepOf(bt, rd)) = Len(bt)
         /\ \A i \in DOMAIN bt :
              /\ bt[i] \in Row /\ bt[i].req \in Request
              /\ bt[i].from \in Nat /\ bt[i].to \in Nat /\ bt[i].blocks \in Seq(Block)
              /\ \A c \in bt[i].copies : c.target \in Nat \ {0}
              /\ StepOf(bt, rd)[i].req = bt[i].req /\ StepOf(bt, rd)[i].from = bt[i].from
              /\ StepOf(bt, rd)[i].to = bt[i].to /\ StepOf(bt, rd)[i].blocks = bt[i].blocks
              /\ StepOf(bt, rd)[i].copies = bt[i].copies
              /\ StepOf(bt, rd)[i].reuse = rd[bt[i].req]
<1>1. Len(bt) \in Nat /\ DOMAIN bt = 1 .. Len(bt) /\ \A i \in DOMAIN bt : bt[i] \in Row
  OBVIOUS
<1>2. \A i \in DOMAIN bt :
        /\ bt[i].req \in Request /\ bt[i].from \in Nat /\ bt[i].to \in Nat
        /\ bt[i].blocks \in Seq(Block) /\ bt[i].copies \subseteq Copy
  BY <1>1 DEF Row
<1>3. \A i \in DOMAIN bt : \A c \in bt[i].copies : c.target \in Nat \ {0}
  BY <1>2 DEF Copy
<1>4. DOMAIN StepOf(bt, rd) = DOMAIN bt /\ Len(StepOf(bt, rd)) = Len(bt)
  BY <1>1 DEF StepOf
<1>5. ASSUME NEW i \in DOMAIN bt
      PROVE  /\ StepOf(bt, rd)[i].req = bt[i].req /\ StepOf(bt, rd)[i].from = bt[i].from
             /\ StepOf(bt, rd)[i].to = bt[i].to /\ StepOf(bt, rd)[i].blocks = bt[i].blocks
             /\ StepOf(bt, rd)[i].copies = bt[i].copies
             /\ StepOf(bt, rd)[i].reuse = rd[bt[i].req]
  BY <1>1 DEF StepOf, Row
<1> QED BY <1>1, <1>2, <1>3, <1>4, <1>5

(* All that the step puts into a block is what the block is there for.     *)
LEMMA Agree ==
  ASSUME NEW bt \in Seq(Row), NEW rd, NEW tb \in [Request -> Seq(Block)],
         RowsFit(bt, tb), NEW b, NEW o, NEW h, Belongs(tb, b, h)
  PROVE  PutsOnly(StepOf(bt, rd), b, o, h)
<1> DEFINE step == StepOf(bt, rd)
<1> SUFFICES ASSUME NEW x, Puts(step, b, o, x) PROVE x = h
  BY DEF PutsOnly
<1>1. /\ DOMAIN step = DOMAIN bt
      /\ \A i \in DOMAIN bt :
           /\ bt[i].req \in Request /\ bt[i].from \in Nat /\ bt[i].to \in Nat
           /\ bt[i].blocks \in Seq(Block)
           /\ step[i].req = bt[i].req /\ step[i].from = bt[i].from
           /\ step[i].to = bt[i].to /\ step[i].blocks = bt[i].blocks
           /\ step[i].copies = bt[i].copies
  BY RowFields
<1> HIDE DEF step
<1>2. PICK i \in DOMAIN bt, j \in Nat \ {0} :
        /\ bt[i].blocks[j] = b /\ x = Names(bt[i].req, j)
        /\ \/ \E p \in bt[i].from + 1 .. bt[i].to : BlockOf(p) = j
           \/ \E c \in bt[i].copies : c.target = j
  BY <1>1 DEF Puts
<1>3. j <= Len(bt[i].blocks)
  <2>1. ASSUME NEW p \in bt[i].from + 1 .. bt[i].to, BlockOf(p) = j
        PROVE  j <= Len(bt[i].blocks)
    <3>1. p \in Nat \ {0} /\ bt[i].to \in Int /\ p <= bt[i].to
      BY <1>1
    <3>2. BlockOf(p) <= BlockOf(bt[i].to) /\ BlockOf(bt[i].to) \in Int
      BY <3>1, BlockOfGrows
    <3>3. BlockOf(bt[i].to) <= Len(bt[i].blocks) /\ Len(bt[i].blocks) \in Nat
      BY <1>1 DEF RowsFit
    <3> QED BY <2>1, <3>2, <3>3
  <2>2. \A c \in bt[i].copies : c.target <= Len(bt[i].blocks)
    BY DEF RowsFit
  <2> QED BY <1>2, <2>1, <2>2
<1>4. bt[i].blocks = tb[bt[i].req] /\ bt[i].req \in Request
  BY <1>1 DEF RowsFit
<1>5. j \in DOMAIN tb[bt[i].req]
  <2>1. tb[bt[i].req] \in Seq(Block)
    BY <1>4
  <2> QED BY <1>3, <1>4, <2>1
<1> QED BY <1>2, <1>4, <1>5 DEF Belongs

(* A row more, and the step still puts what it did: rows that were skipped *)
(* no longer are.                                                          *)
LEMMA StillPuts ==
  ASSUME NEW bt \in Seq(Row), NEW row \in Row, NEW rd, NEW nrd,
         \A i \in DOMAIN bt : nrd[bt[i].req] = rd[bt[i].req],
         NEW b, NEW o, NEW h, Puts(StepOf(bt, rd), b, o, h)
  PROVE  Puts(StepOf(Append(bt, row), nrd), b, o, h)
<1> DEFINE s == StepOf(bt, rd)
           nbt == Append(bt, row)
           t == StepOf(nbt, nrd)
<1>1. /\ nbt \in Seq(Row) /\ Len(bt) \in Nat /\ DOMAIN bt = 1 .. Len(bt)
      /\ Len(nbt) = Len(bt) + 1 /\ DOMAIN nbt = 1 .. Len(bt) + 1
      /\ \A i \in DOMAIN bt : nbt[i] = bt[i]
  OBVIOUS
<1> HIDE DEF nbt
<1>2. DOMAIN s = DOMAIN bt /\ DOMAIN t = DOMAIN nbt /\ Len(t) = Len(nbt)
  BY <1>1, RowFields
<1>3. ASSUME NEW i \in DOMAIN bt
      PROVE  i \in DOMAIN nbt /\ s[i].req = t[i].req /\ s[i].from = t[i].from
             /\ s[i].to = t[i].to /\ s[i].blocks = t[i].blocks /\ s[i].copies = t[i].copies
  <2>1. i \in DOMAIN nbt /\ nbt[i] = bt[i]
    BY <1>1
  <2>2. /\ s[i].req = bt[i].req /\ s[i].from = bt[i].from /\ s[i].to = bt[i].to
        /\ s[i].blocks = bt[i].blocks /\ s[i].copies = bt[i].copies
    BY RowFields
  <2>3. /\ t[i].req = nbt[i].req /\ t[i].from = nbt[i].from /\ t[i].to = nbt[i].to
        /\ t[i].blocks = nbt[i].blocks /\ t[i].copies = nbt[i].copies
    BY <1>1, <2>1, RowFields
  <2> QED BY <2>1, <2>2, <2>3
<1> HIDE DEF s, t
<1>4. PICK i \in DOMAIN bt, j \in Nat \ {0} :
        /\ s[i].blocks[j] = b /\ h = Names(s[i].req, j)
        /\ \/ \E p \in s[i].from + 1 .. s[i].to :
                BlockOf(p) = j /\ SlotOf(p) = o /\ ~ Skips(s, s[i], p)
           \/ \E c \in s[i].copies : c.target = j
  <2>1. Puts(s, b, o, h)
    BY DEF s
  <2> QED BY <1>2, <2>1 DEF Puts
<1>5. \A p : ~ Skips(t, t[i], p)
  <2>1. Len(bt) >= 1
    BY <1>1
  <2>2. Len(t) # 1
    BY <1>1, <1>2, <2>1
  <2> QED BY <2>2 DEF Skips, BatchAllowsReuse
<1>6. /\ t[i].blocks[j] = b /\ h = Names(t[i].req, j)
      /\ \/ \E p \in t[i].from + 1 .. t[i].to :
                BlockOf(p) = j /\ SlotOf(p) = o /\ ~ Skips(t, t[i], p)
         \/ \E c \in t[i].copies : c.target = j
  BY <1>3, <1>4, <1>5
<1>7. Puts(t, b, o, h)
  <2>1. i \in DOMAIN t
    BY <1>2, <1>3
  <2> QED BY <1>6, <2>1 DEF Puts
<1> QED BY <1>7 DEF t, nbt

-----------------------------------------------------------------------------
(***************************************************************************)
(* Why prefixes are computed.  A claim on a slot says what it will hold    *)
(* once the first k steps have run, the one being scheduled being the last *)
(* of them.  Rows claim the tokens of their requests up to the last one    *)
(* they compute, and what they copy from before they run; tables, hashes   *)
(* and blocks that may be skipped claim theirs when everything has run.    *)
(***************************************************************************)
Building == StepOf(batch, reused)
Pipeline == Append(inflight, Building)
Depth == Len(inflight) + 1

Promised(steps, mem, k, b, o, h) == b \in Block /\ o \in Slot /\ Ends(steps, k, mem, b, o, h)

RowHolds(steps, mem, k, row) ==
  \A p \in 1 .. row.to :
    Promised(steps, mem, k, row.blocks[BlockOf(p)], SlotOf(p), Names(row.req, BlockOf(p)))

SourcesHold(steps, mem, k, row) ==
  \A c \in row.copies : \A e \in c.from : \A o \in Slot :
    Promised(steps, mem, k - 1, e.block, o, e.hash)

RowsHold(steps, mem, k, step) ==
  \A i \in DOMAIN step : /\ RowHolds(steps, mem, k, step[i])
                         /\ SourcesHold(steps, mem, k, step[i])

StepsHold ==
  /\ \A k \in DOMAIN inflight : RowsHold(Pipeline, kv, k, inflight[k])
  /\ RowsHold(Pipeline, kv, Depth, batch)

TablesHold ==
  \A r \in Request : \A p \in 1 .. computed[r] :
    BlockOf(p) \in DOMAIN table[r] =>
      Promised(Pipeline, kv, Depth, table[r][BlockOf(p)], SlotOf(p), Names(r, BlockOf(p)))

HashesHold ==
  \A b \in Block : hash[b] # NoHash =>
    \A o \in Slot : Promised(Pipeline, kv, Depth, b, o, hash[b])

ReuseHolds ==
  \A r \in Request : \A t \in reused[r] :
    /\ t \in DOMAIN table[r]
    /\ \A o \in Slot : Promised(Pipeline, kv, Depth, table[r][t], o, Names(r, t))

(* Blocks that several requests share are there for the same tokens.       *)
Owned ==
  /\ \A r \in Request : \A j \in DOMAIN table[r] : Belongs(table, table[r][j], Names(r, j))
  /\ \A b \in Block : hash[b] # NoHash => Belongs(table, b, hash[b])

(* A running request has a block for each computed token.                  *)
Filled == \A r \in Request : status[r] = "running" => BlockOf(computed[r]) <= Len(table[r])

Claims ==
  /\ StepsHold /\ TablesHold /\ HashesHold /\ ReuseHolds
  /\ Owned /\ Filled /\ RowsFit(batch, table)

(* The steps and their types.                                              *)
LEMMA PipelineTypes ==
  ASSUME Contents
  PROVE  /\ Len(inflight) \in Nat /\ DOMAIN inflight = 1 .. Len(inflight)
         /\ \A k \in DOMAIN inflight : inflight[k] \in Seq(Row) /\ Pipeline[k] = inflight[k]
         /\ Depth \in Nat \ {0} /\ Pipeline[Depth] = Building
         /\ Building \in Seq(Row)
<1>1. /\ inflight \in Seq(Seq(Row)) /\ batch \in Seq(Row)
      /\ reused \in [Request -> SUBSET Nat]
  BY DEF Contents
<1>2. Building \in Seq(Row)
  <2>1. Len(batch) \in Nat /\ DOMAIN batch = 1 .. Len(batch) /\ \A i \in DOMAIN batch : batch[i] \in Row
    BY <1>1
  <2>2. \A i \in DOMAIN batch : [batch[i] EXCEPT !.reuse = reused[batch[i].req]] \in Row
    <3> SUFFICES ASSUME NEW i \in DOMAIN batch
                 PROVE  [batch[i] EXCEPT !.reuse = reused[batch[i].req]] \in Row
      OBVIOUS
    <3> DEFINE row == batch[i]
    <3>1. row \in Row
      BY <2>1
    <3> HIDE DEF row
    <3>2. row.req \in Request
      BY <3>1 DEF Row
    <3>3. reused[row.req] \in SUBSET Nat
      BY <1>1, <3>2
    <3>4. [row EXCEPT !.reuse = reused[row.req]] \in Row
      BY <3>1, <3>3 DEF Row
    <3> QED BY <3>4 DEF row
  <2>3. Building \in [1 .. Len(batch) -> Row]
    BY <2>1, <2>2 DEF Building, StepOf
  <2> QED BY <2>1, <2>3
<1>3. /\ Len(inflight) \in Nat /\ DOMAIN inflight = 1 .. Len(inflight)
      /\ \A k \in DOMAIN inflight : inflight[k] \in Seq(Row)
  BY <1>1
<1> DEFINE last == Building
<1> HIDE DEF last
<1>4. /\ \A k \in DOMAIN inflight : Append(inflight, last)[k] = inflight[k]
      /\ Append(inflight, last)[Len(inflight) + 1] = last
  BY <1>1
<1>5. /\ \A k \in DOMAIN inflight : Pipeline[k] = inflight[k]
      /\ Pipeline[Depth] = Building
  BY <1>4 DEF Pipeline, Depth, last
<1> QED BY <1>2, <1>3, <1>5 DEF Depth

(* A row more in the step being scheduled: what was claimed of the earlier *)
(* steps stays, and what was claimed of all of them if it still belongs.   *)
LEMMA RowAddedKeeps ==
  ASSUME Contents, Contents', NEW row \in Row, batch' = Append(batch, row),
         UNCHANGED <<inflight, kv>>,
         \A i \in DOMAIN batch : reused'[batch[i].req] = reused[batch[i].req],
         table' \in [Request -> Seq(Block)], RowsFit(batch', table')
  PROVE  /\ Depth' = Depth
         /\ \A k \in 0 .. Len(inflight) : \A b, o, h :
              Promised(Pipeline, kv, k, b, o, h) => Promised(Pipeline', kv', k, b, o, h)
         /\ \A b, o, h : Promised(Pipeline, kv, Depth, b, o, h) /\ Belongs(table', b, h)
                           => Promised(Pipeline', kv', Depth', b, o, h)
<1>1. batch \in Seq(Row) /\ batch' \in Seq(Row)
  BY DEF Contents
<1>2. /\ Len(inflight) \in Nat /\ DOMAIN inflight = 1 .. Len(inflight)
      /\ \A k \in 1 .. Len(inflight) : Pipeline[k] = inflight[k]
      /\ Depth \in Nat \ {0} /\ Depth = Len(inflight) + 1 /\ Pipeline[Depth] = Building
  BY PipelineTypes DEF Depth
<1>3. Depth' = Depth
  BY DEF Depth
<1>4. /\ \A k \in 1 .. Len(inflight) : Pipeline'[k] = inflight[k]
      /\ Pipeline'[Depth] = Building'
  <2> DEFINE last == Building'
  <2> HIDE DEF last
  <2>1. /\ \A k \in 1 .. Len(inflight) : Append(inflight, last)[k] = inflight[k]
        /\ Append(inflight, last)[Len(inflight) + 1] = last
    BY DEF Contents
  <2> QED BY <1>2, <2>1 DEF Pipeline, last
<1>5. ASSUME NEW k \in 0 .. Len(inflight), NEW b, NEW o, NEW h, Promised(Pipeline, kv, k, b, o, h)
      PROVE  Promised(Pipeline', kv', k, b, o, h)
  <2>1. \A i \in 1 .. k : Pipeline[i] = Pipeline'[i]
    BY <1>2, <1>4
  <2>2. k \in Nat
    BY <1>2
  <2>3. Ends(Pipeline, k, kv, b, o, h)
    BY <1>5 DEF Promised
  <2>4. Ends(Pipeline', k, kv, b, o, h)
    BY <2>1, <2>2, <2>3, EndsSame
  <2> QED BY <1>5, <2>4 DEF Promised
<1>6. ASSUME NEW b, NEW o, NEW h, Promised(Pipeline, kv, Depth, b, o, h), Belongs(table', b, h)
      PROVE  Promised(Pipeline', kv', Depth', b, o, h)
  <2>1. Puts(Building, b, o, h) => Puts(Building', b, o, h)
    BY <1>1, StillPuts DEF Building
  <2>2. PutsOnly(Building', b, o, h)
    BY <1>1, <1>6, Agree DEF Building
  <2>3. \A i \in 1 .. Depth - 1 : Pipeline[i] = Pipeline'[i]
    BY <1>2, <1>4
  <2>4. Ends(Pipeline, Depth, kv, b, o, h)
    BY <1>6 DEF Promised
  <2>5. Puts(Pipeline[Depth], b, o, h) => Puts(Pipeline'[Depth], b, o, h)
    BY <1>2, <1>4, <2>1
  <2>6. PutsOnly(Pipeline'[Depth], b, o, h)
    BY <1>4, <2>2
  <2>7. Ends(Pipeline', Depth, kv, b, o, h)
    BY <1>2, <2>3, <2>4, <2>5, <2>6, EndsKept
  <2> QED BY <1>3, <1>6, <2>7 DEF Promised
<1> QED BY <1>3, <1>5, <1>6

(* No tokens fill no block.                                                *)
LEMMA NoBlocks == BlockOf(0) = 0
<1> DEFINE m == BlockSize - 1
<1>1. BlockSize \in Nat \ {0} /\ m \in Nat /\ m < BlockSize
  BY ConfigAssumption
<1>2. m \div BlockSize = 0
  <2> HIDE DEF m
  <2> QED BY <1>1
<1>3. 0 + BlockSize - 1 = m
  BY <1>1
<1> QED BY <1>2, <1>3 DEF BlockOf, CeilDiv

(* Steps that only give up blocks, or register blocks that are claimed.    *)
LEMMA ClaimsKept ==
  ASSUME Contents, Contents', Claims, UNCHANGED <<inflight, batch, kv>>,
         table \in [Request -> Seq(Block)], computed \in [Request -> Int],
         \A i \in DOMAIN batch : /\ table'[batch[i].req] = table[batch[i].req]
                                 /\ reused'[batch[i].req] = reused[batch[i].req],
         \A r \in Request :
           /\ table'[r] \in {table[r], << >>} /\ computed'[r] \in {computed[r], 0}
           /\ \/ reused'[r] = {}
              \/ reused'[r] = reused[r] /\ table'[r] = table[r]
           /\ status'[r] = "running" => status[r] = "running" /\ table'[r] = table[r],
         \A b \in Block : hash'[b] # NoHash =>
           /\ \A o \in Slot : Promised(Pipeline, kv, Depth, b, o, hash'[b])
           /\ Belongs(table, b, hash'[b])
  PROVE  Claims'
<1>1. Building' = Building
  <2>1. \A i \in DOMAIN batch : [batch[i] EXCEPT !.reuse = reused'[batch[i].req]]
                                  = [batch[i] EXCEPT !.reuse = reused[batch[i].req]]
    OBVIOUS
  <2> QED BY <2>1 DEF Building, StepOf
<1>2. /\ Depth' = Depth
      /\ \A k, b, o, h :
           Promised(Pipeline, kv, k, b, o, h) => Promised(Pipeline', kv', k, b, o, h)
  BY <1>1 DEF Depth, Promised, Pipeline
<1>3. StepsHold'
  <2>1. \A k, step : RowsHold(Pipeline, kv, k, step) => RowsHold(Pipeline', kv', k, step)
    BY <1>2 DEF RowsHold, RowHolds, SourcesHold
  <2> QED BY <1>2, <2>1 DEF StepsHold, Claims
<1>4. \A r \in Request : /\ table[r] \in Seq(Block)
                         /\ DOMAIN table'[r] \subseteq DOMAIN table[r]
                         /\ \A j \in DOMAIN table'[r] : table'[r][j] = table[r][j]
  <2>1. \A r \in Request : table[r] \in Seq(Block)
    OBVIOUS
  <2> QED BY <2>1
<1>5. \A b, h : Belongs(table, b, h) => Belongs(table', b, h)
  BY <1>4 DEF Belongs
<1>6. TablesHold'
  <2> SUFFICES ASSUME NEW r \in Request, NEW p \in 1 .. computed'[r],
                      BlockOf(p) \in DOMAIN table'[r]
               PROVE  Promised(Pipeline', kv', Depth', table'[r][BlockOf(p)], SlotOf(p),
                               Names(r, BlockOf(p)))
    BY DEF TablesHold
  <2>1. p \in 1 .. computed[r]
    <3>1. computed'[r] = computed[r] \/ computed'[r] = 0
      OBVIOUS
    <3> QED BY <3>1
  <2>2. BlockOf(p) \in DOMAIN table[r] /\ table'[r][BlockOf(p)] = table[r][BlockOf(p)]
    BY <1>4
  <2>3. Promised(Pipeline, kv, Depth, table[r][BlockOf(p)], SlotOf(p), Names(r, BlockOf(p)))
    BY <2>1, <2>2 DEF Claims, TablesHold
  <2> QED BY <1>2, <2>2, <2>3
<1>7. HashesHold'
  BY <1>2 DEF HashesHold
<1>8. ReuseHolds'
  <2> SUFFICES ASSUME NEW r \in Request, NEW t \in reused'[r]
               PROVE  /\ t \in DOMAIN table'[r]
                      /\ \A o \in Slot :
                           Promised(Pipeline', kv', Depth', table'[r][t], o, Names(r, t))
    BY DEF ReuseHolds
  <2>1. t \in reused[r] /\ table'[r] = table[r]
    OBVIOUS
  <2> QED BY <1>2, <2>1 DEF Claims, ReuseHolds
<1>9. Owned'
  <2>1. \A r \in Request : \A j \in DOMAIN table'[r] : Belongs(table', table'[r][j], Names(r, j))
    BY <1>4, <1>5 DEF Claims, Owned
  <2>2. \A b \in Block : hash'[b] # NoHash => Belongs(table', b, hash'[b])
    BY <1>5
  <2> QED BY <2>1, <2>2 DEF Owned
<1>10. Filled'
  <2> SUFFICES ASSUME NEW r \in Request, status'[r] = "running"
               PROVE  BlockOf(computed'[r]) <= Len(table'[r])
    BY DEF Filled
  <2>1. table'[r] = table[r] /\ BlockOf(computed[r]) <= Len(table[r])
    BY DEF Claims, Filled
  <2>2. BlockOf(0) = 0
    BY NoBlocks
  <2>3. Len(table[r]) \in Nat
    BY <1>4
  <2>4. CASE computed'[r] = 0
    BY <2>1, <2>2, <2>3, <2>4
  <2>5. CASE computed'[r] = computed[r]
    BY <2>1, <2>5
  <2> QED BY <2>4, <2>5
<1>11. RowsFit(batch', table')
  BY DEF Claims, RowsFit
<1> QED BY <1>3, <1>6, <1>7, <1>8, <1>9, <1>10, <1>11 DEF Claims

(* The first step runs.  The claims on it have become true, and those on   *)
(* the others are on one step less.                                        *)
LEMMA StepRuns ==
  ASSUME Contents, Contents', Claims, inflight # << >>,
         inflight' = Tail(inflight), kv' = AfterStep(Head(inflight)),
         UNCHANGED <<batch, reused, table, hash, computed, status>>
  PROVE  /\ Claims'
         /\ \A i \in DOMAIN Head(inflight) : HoldsPrefix(Head(inflight)[i], kv')
<1> DEFINE n == Len(inflight)
           step == inflight[1]
<1>1. /\ n \in Nat \ {0} /\ DOMAIN inflight = 1 .. n /\ Head(inflight) = step
      /\ DOMAIN inflight' = 1 .. n - 1 /\ Len(inflight') = n - 1
      /\ \A k \in 1 .. n - 1 : inflight'[k] = inflight[k + 1]
  BY DEF Contents
<1>2. /\ \A k \in 1 .. n : inflight[k] \in Seq(Row) /\ Pipeline[k] = inflight[k]
      /\ Depth = n + 1 /\ Pipeline[n + 1] = Building /\ Building' = Building
  BY <1>1, PipelineTypes DEF Depth, Building, StepOf
<1>3. /\ \A k \in 1 .. n - 1 : Pipeline'[k] = inflight'[k]
      /\ Depth' = n /\ Pipeline'[n] = Building
  <2> DEFINE last == Building
             rest == inflight'
  <2>1. rest \in Seq(Seq(Row)) /\ Len(rest) = n - 1
    BY <1>1 DEF Contents
  <2> HIDE DEF last, rest, n
  <2>2. /\ \A k \in 1 .. n - 1 : Append(rest, last)[k] = rest[k]
        /\ Append(rest, last)[n] = last
    BY <1>1, <2>1
  <2>3. Pipeline' = Append(rest, last)
    BY <1>2 DEF Pipeline, last, rest
  <2>4. Depth' = n
    BY <1>1 DEF Depth
  <2> QED BY <2>2, <2>3, <2>4 DEF last, rest
<1>4. \A k \in 1 .. n : Pipeline'[k] = Pipeline[k + 1]
  <2> SUFFICES ASSUME NEW k \in 1 .. n PROVE Pipeline'[k] = Pipeline[k + 1]
    OBVIOUS
  <2>1. CASE k = n
    BY <1>2, <1>3, <2>1
  <2>2. CASE k # n
    <3>0. n \in Nat \ {0}
      BY <1>1
    <3> HIDE DEF n
    <3>1. k \in 1 .. n - 1 /\ k + 1 \in 1 .. n
      BY <3>0, <2>2
    <3> QED BY <1>1, <1>2, <1>3, <3>1
  <2> QED BY <2>1, <2>2
<1>5. step \in Seq(Row) /\ Pipeline[1] = step
  BY <1>1, <1>2
<1>6. \A i \in DOMAIN step : \A c \in step[i].copies : \A e \in c.from :
        IsWritten(e.block, e.hash)
  <2> SUFFICES ASSUME NEW i \in DOMAIN step, NEW c \in step[i].copies, NEW e \in c.from,
                      NEW o \in Slot
               PROVE  kv[e.block][o] = e.hash
    BY DEF IsWritten
  <2>1. 1 \in DOMAIN inflight
    BY <1>1
  <2>2. SourcesHold(Pipeline, kv, 1, step[i])
    BY <2>1 DEF Claims, StepsHold, RowsHold
  <2>3. Promised(Pipeline, kv, 1 - 1, e.block, o, e.hash)
    BY <2>2 DEF SourcesHold
  <2>4. Promised(Pipeline, kv, 0, e.block, o, e.hash)
    BY <2>3
  <2> QED BY <2>4 DEF Promised, Ends
<1> HIDE DEF step, n
<1>7. ASSUME NEW k \in 1 .. n + 1, NEW b, NEW o, NEW h, Promised(Pipeline, kv, k, b, o, h)
      PROVE  Promised(Pipeline', kv', k - 1, b, o, h)
  <2>1. b \in Block /\ o \in Slot /\ Ends(Pipeline, k, kv, b, o, h) /\ k \in Nat \ {0}
    BY <1>7 DEF Promised
  <2>2. \A i \in 1 .. k - 1 : Pipeline'[i] = Pipeline[i + 1]
    BY <1>1, <1>4
  <2>3. kv' = AfterStep(step)
    BY <1>1
  <2>4. /\ Puts(step, b, o, h) /\ PutsOnly(step, b, o, h) => kv'[b][o] = h
        /\ (\A x : ~ Puts(step, b, o, x)) => kv'[b][o] = kv[b][o]
    BY <1>5, <1>6, <2>1, <2>3, StepLeaves
  <2>5. Ends(Pipeline', k - 1, kv', b, o, h)
    BY <1>5, <2>1, <2>2, <2>4, EndsDone
  <2> QED BY <2>1, <2>5 DEF Promised
<1>8. \A b, o, h : Promised(Pipeline, kv, Depth, b, o, h) => Promised(Pipeline', kv', Depth', b, o, h)
  <2> SUFFICES ASSUME NEW b, NEW o, NEW h, Promised(Pipeline, kv, Depth, b, o, h)
               PROVE  Promised(Pipeline', kv', Depth', b, o, h)
    OBVIOUS
  <2>1. Depth \in 1 .. n + 1 /\ Depth - 1 = n
    BY <1>1, <1>2
  <2>2. Promised(Pipeline', kv', Depth - 1, b, o, h)
    BY <1>7, <2>1
  <2> QED BY <1>3, <2>1, <2>2
<1>9. ASSUME NEW k \in 1 .. n + 1, NEW rows, RowsHold(Pipeline, kv, k, rows)
      PROVE  k # 1 => RowsHold(Pipeline', kv', k - 1, rows)
  <2> SUFFICES ASSUME k # 1, NEW i \in DOMAIN rows
               PROVE  /\ RowHolds(Pipeline', kv', k - 1, rows[i])
                      /\ SourcesHold(Pipeline', kv', k - 1, rows[i])
    BY DEF RowsHold
  <2>1. RowHolds(Pipeline, kv, k, rows[i]) /\ SourcesHold(Pipeline, kv, k, rows[i])
    BY <1>9 DEF RowsHold
  <2>2. k - 1 \in 1 .. n + 1
    BY <1>1
  <2>3. RowHolds(Pipeline', kv', k - 1, rows[i])
    BY <1>7, <2>1 DEF RowHolds
  <2>4. SourcesHold(Pipeline', kv', k - 1, rows[i])
    BY <1>7, <2>1, <2>2 DEF SourcesHold
  <2> QED BY <2>3, <2>4
<1>10. StepsHold'
  <2>1. ASSUME NEW k \in 1 .. n - 1 PROVE RowsHold(Pipeline', kv', k, inflight'[k])
    <3>1. k + 1 \in DOMAIN inflight /\ k + 1 \in 1 .. n + 1 /\ k + 1 # 1 /\ k + 1 - 1 = k
      BY <1>1
    <3>2. RowsHold(Pipeline, kv, k + 1, inflight[k + 1])
      BY <3>1 DEF Claims, StepsHold
    <3> QED BY <1>1, <1>9, <3>1, <3>2
  <2>2. RowsHold(Pipeline', kv', Depth', batch')
    <3>1. RowsHold(Pipeline, kv, Depth, batch)
      BY DEF Claims, StepsHold
    <3>2. Depth \in 1 .. n + 1 /\ Depth # 1 /\ Depth - 1 = n
      BY <1>1, <1>2
    <3>3. RowsHold(Pipeline', kv', Depth - 1, batch)
      BY <1>9, <3>1, <3>2
    <3> QED BY <1>3, <3>2, <3>3
  <2> QED BY <1>1, <2>1, <2>2 DEF StepsHold
<1>11. TablesHold' /\ HashesHold' /\ ReuseHolds'
  BY <1>8 DEF Claims, TablesHold, HashesHold, ReuseHolds
<1>12. Claims'
  <2>1. Owned' /\ Filled' /\ RowsFit(batch', table')
    BY DEF Claims, Owned, Filled
  <2> QED BY <1>10, <1>11, <2>1 DEF Claims
<1>13. ASSUME NEW i \in DOMAIN step PROVE HoldsPrefix(step[i], kv')
  <2> SUFFICES ASSUME NEW p \in 1 .. step[i].to
               PROVE  kv'[step[i].blocks[BlockOf(p)]][SlotOf(p)] = HashAt(step[i].req, p)
    BY DEF HoldsPrefix
  <2>1. 1 \in DOMAIN inflight /\ 1 \in 1 .. n + 1
    BY <1>1
  <2>2. RowHolds(Pipeline, kv, 1, step[i])
    BY <2>1 DEF Claims, StepsHold, RowsHold, step
  <2>3. Promised(Pipeline, kv, 1, step[i].blocks[BlockOf(p)], SlotOf(p), Names(step[i].req, BlockOf(p)))
    BY <2>2 DEF RowHolds
  <2>4. Promised(Pipeline', kv', 1 - 1, step[i].blocks[BlockOf(p)], SlotOf(p), Names(step[i].req, BlockOf(p)))
    BY <1>7, <2>1, <2>3
  <2>5. Promised(Pipeline', kv', 0, step[i].blocks[BlockOf(p)], SlotOf(p), Names(step[i].req, BlockOf(p)))
    BY <2>4
  <2> QED BY <2>5 DEF Promised, Ends, HashAt, Names
<1> QED BY <1>1, <1>12, <1>13

(* The step is launched: it has its place behind the others, and nothing   *)
(* is being scheduled any more.                                            *)
LEMMA LaunchClaims ==
  ASSUME Types, Contents, Contents', Claims, Launch
  PROVE  Claims'
<1> DEFINE n == Len(inflight)
           step == [i \in DOMAIN batch |-> [batch[i] EXCEPT !.reuse = reused[batch[i].req],
                                                            !.samples = Samples(batch[i])]]
<1>1. /\ inflight' = Append(inflight, step) /\ batch' = << >>
      /\ computed' = [r \in Request |-> IF RowsOf(r) # {}
                        THEN batch[CHOOSE i \in RowsOf(r) : TRUE].to ELSE computed[r]]
      /\ UNCHANGED <<status, table, reused, hash, kv>>
  BY DEF Launch
<1>2. /\ batch \in Seq(Row) /\ table \in [Request -> Seq(Block)]
      /\ n \in Nat /\ DOMAIN inflight = 1 .. n
      /\ \A k \in 1 .. n : Pipeline[k] = inflight[k]
      /\ Depth = n + 1 /\ Pipeline[Depth] = Building
  BY PipelineTypes DEF Contents, Depth, Types, ControlTypes
<1>3. /\ DOMAIN step = DOMAIN batch /\ Len(step) = Len(batch)
      /\ \A i \in DOMAIN batch :
           /\ step[i].req = batch[i].req /\ step[i].from = batch[i].from
           /\ step[i].to = batch[i].to /\ step[i].blocks = batch[i].blocks
           /\ step[i].copies = batch[i].copies /\ step[i].reuse = reused[batch[i].req]
  <2>1. Len(batch) \in Nat /\ DOMAIN batch = 1 .. Len(batch) /\ \A i \in DOMAIN batch : batch[i] \in Row
    BY <1>2
  <2>2. DOMAIN step = DOMAIN batch /\ Len(step) = Len(batch)
    BY <2>1
  <2>3. \A row \in Row : \A x, y :
          LET z == [row EXCEPT !.reuse = x, !.samples = y]
          IN  /\ z.req = row.req /\ z.from = row.from /\ z.to = row.to
              /\ z.blocks = row.blocks /\ z.copies = row.copies /\ z.reuse = x
    BY DEF Row
  <2>4. ASSUME NEW i \in DOMAIN batch
        PROVE  /\ step[i].req = batch[i].req /\ step[i].from = batch[i].from
               /\ step[i].to = batch[i].to /\ step[i].blocks = batch[i].blocks
               /\ step[i].copies = batch[i].copies /\ step[i].reuse = reused[batch[i].req]
    <3> DEFINE row == batch[i]
               x == reused[row.req]
               y == Samples(row)
    <3>1. row \in Row /\ step[i] = [row EXCEPT !.reuse = x, !.samples = y]
      BY <2>1
    <3> HIDE DEF row, x, y, step
    <3>2. /\ step[i].req = row.req /\ step[i].from = row.from
          /\ step[i].to = row.to /\ step[i].blocks = row.blocks
          /\ step[i].copies = row.copies /\ step[i].reuse = x
      BY <2>3, <3>1
    <3> QED BY <3>2 DEF row, x
  <2> QED BY <2>2, <2>4
<1> HIDE DEF step
<1>4. \A b, o, x : Puts(Building, b, o, x) <=> Puts(step, b, o, x)
  <2>1. /\ DOMAIN Building = DOMAIN batch /\ Len(Building) = Len(batch)
        /\ \A i \in DOMAIN batch :
             /\ Building[i].req = batch[i].req /\ Building[i].from = batch[i].from
             /\ Building[i].to = batch[i].to /\ Building[i].blocks = batch[i].blocks
             /\ Building[i].copies = batch[i].copies
             /\ Building[i].reuse = reused[batch[i].req]
    BY <1>2, RowFields DEF Building
  <2> DEFINE now == Building
  <2>2. /\ DOMAIN now = DOMAIN step /\ Len(now) = Len(step)
        /\ \A i \in DOMAIN now :
             /\ now[i].req = step[i].req /\ now[i].from = step[i].from
             /\ now[i].to = step[i].to /\ now[i].blocks = step[i].blocks
             /\ now[i].copies = step[i].copies /\ now[i].reuse = step[i].reuse
    BY <1>3, <2>1
  <2> HIDE DEF now
  <2>3. \A b, o, x : Puts(now, b, o, x) <=> Puts(step, b, o, x)
    BY <2>2, PutsSame
  <2> QED BY <2>3 DEF now
<1>5. \A b, o, x : ~ Puts(Building', b, o, x)
  <2>1. DOMAIN Building' = {}
    BY <1>1 DEF Building, StepOf
  <2> QED BY <2>1 DEF Puts
<1>6. /\ \A k \in 1 .. n : Pipeline'[k] = inflight[k]
      /\ Pipeline'[n + 1] = step /\ Pipeline'[n + 2] = Building'
      /\ Depth' = n + 2 /\ DOMAIN inflight' = 1 .. n + 1
      /\ inflight'[n + 1] = step /\ \A k \in 1 .. n : inflight'[k] = inflight[k]
  <2> DEFINE last == Building'
             more == inflight'
  <2>1. more \in Seq(Seq(Row)) /\ inflight \in Seq(Seq(Row)) /\ more = Append(inflight, step)
    BY <1>1 DEF Contents
  <2>2. Pipeline' = Append(more, last) /\ Depth' = Len(more) + 1
    BY DEF Pipeline, Depth
  <2> HIDE DEF last, more
  <2>3. /\ Len(more) = n + 1 /\ DOMAIN more = 1 .. n + 1
        /\ more[n + 1] = step /\ \A k \in 1 .. n : more[k] = inflight[k]
    BY <2>1
  <2>4. /\ \A k \in 1 .. n + 1 : Append(more, last)[k] = more[k]
        /\ Append(more, last)[n + 2] = last
    <3>1. Append(more, last)[Len(more) + 1] = last
      BY <2>1
    <3>2. Len(more) + 1 = n + 2
      BY <1>2, <2>3
    <3>3. \A k \in 1 .. Len(more) : Append(more, last)[k] = more[k]
      BY <2>1
    <3> QED BY <2>3, <3>1, <3>2, <3>3
  <2>5. /\ \A k \in 1 .. n : k \in 1 .. n + 1
        /\ n + 1 \in 1 .. n + 1 /\ Len(more) + 1 = n + 2
    BY <1>2, <2>3
  <2> QED BY <2>2, <2>3, <2>4, <2>5 DEF last, more
<1> HIDE DEF n
<1>7. ASSUME NEW k \in 0 .. n + 1, NEW b, NEW o, NEW h, Promised(Pipeline, kv, k, b, o, h)
      PROVE  Promised(Pipeline', kv', k, b, o, h)
  <2>1. \A i \in 1 .. k : \A x : Puts(Pipeline[i], b, o, x) <=> Puts(Pipeline'[i], b, o, x)
    <3> SUFFICES ASSUME NEW i \in 1 .. k, NEW x
                 PROVE  Puts(Pipeline[i], b, o, x) <=> Puts(Pipeline'[i], b, o, x)
      OBVIOUS
    <3>1. CASE i \in 1 .. n
      BY <1>2, <1>6, <3>1
    <3>2. CASE i = n + 1
      BY <1>2, <1>4, <1>6, <3>2
    <3>3. i \in 1 .. n \/ i = n + 1
      BY <1>2
    <3> QED BY <3>1, <3>2, <3>3
  <2>2. k \in Nat
    BY <1>2
  <2>3. Ends(Pipeline', k, kv, b, o, h)
    BY <1>7, <2>1, <2>2, EndsSame DEF Promised
  <2> QED BY <1>1, <1>7, <2>3 DEF Promised
<1>8. ASSUME NEW b, NEW o, NEW h, Promised(Pipeline, kv, Depth, b, o, h)
      PROVE  Promised(Pipeline', kv', Depth', b, o, h)
  <2>1. Depth \in 0 .. n + 1 /\ Depth \in Nat /\ Depth' = Depth + 1
    BY <1>2, <1>6
  <2>2. Ends(Pipeline', Depth, kv', b, o, h)
    BY <1>7, <1>8, <2>1 DEF Promised
  <2>3. Pipeline'[Depth + 1] = Building'
    <3>1. Depth + 1 = n + 2
      BY <1>2
    <3> QED BY <1>6, <3>1
  <2>4. Ends(Pipeline', Depth + 1, kv', b, o, h)
    BY <1>5, <2>1, <2>2, <2>3, EndsBefore
  <2> QED BY <1>8, <2>1, <2>4 DEF Promised
<1>9. ASSUME NEW k \in 1 .. n + 1, NEW rows, RowsHold(Pipeline, kv, k, rows)
      PROVE  RowsHold(Pipeline', kv', k, rows)
  <2>1. k - 1 \in 0 .. n + 1 /\ k \in 0 .. n + 1
    BY <1>2
  <2>2. \A row : RowHolds(Pipeline, kv, k, row) => RowHolds(Pipeline', kv', k, row)
    BY <1>7, <2>1 DEF RowHolds
  <2>3. \A row : SourcesHold(Pipeline, kv, k, row) => SourcesHold(Pipeline', kv', k, row)
    BY <1>7, <2>1 DEF SourcesHold
  <2> QED BY <1>9, <2>2, <2>3 DEF RowsHold
<1>10. StepsHold'
  <2>1. ASSUME NEW k \in 1 .. n PROVE RowsHold(Pipeline', kv', k, inflight'[k])
    <3>1. k \in 1 .. n + 1 /\ RowsHold(Pipeline, kv, k, inflight[k])
      BY <1>2 DEF Claims, StepsHold
    <3> QED BY <1>6, <1>9, <3>1
  <2>2. RowsHold(Pipeline', kv', n + 1, inflight'[n + 1])
    <3>1. Depth \in 1 .. n + 1 /\ RowsHold(Pipeline, kv, Depth, batch)
      BY <1>2 DEF Claims, StepsHold
    <3>2. RowsHold(Pipeline', kv', Depth, batch)
      BY <1>9, <3>1
    <3>3. RowsHold(Pipeline', kv', Depth, step)
      BY <1>3, <3>2 DEF RowsHold, RowHolds, SourcesHold
    <3> QED BY <1>2, <1>6, <3>3
  <2>3. RowsHold(Pipeline', kv', Depth', batch')
    BY <1>1 DEF RowsHold
  <2>4. \A k \in DOMAIN inflight' : k \in 1 .. n \/ k = n + 1
    BY <1>2, <1>6
  <2> QED BY <2>1, <2>2, <2>3, <2>4 DEF StepsHold
<1>11. ASSUME NEW r \in Request, computed'[r] # computed[r]
       PROVE  \E i \in DOMAIN batch : batch[i].req = r /\ computed'[r] = batch[i].to
  <2>1. RowsOf(r) # {}
    BY <1>1, <1>11
  <2>2. PICK i \in RowsOf(r) : computed'[r] = batch[i].to
    BY <1>1, <2>1
  <2> QED BY <2>2 DEF RowsOf
<1>12. TablesHold'
  <2> SUFFICES ASSUME NEW r \in Request, NEW p \in 1 .. computed'[r],
                      BlockOf(p) \in DOMAIN table[r]
               PROVE  Promised(Pipeline', kv', Depth', table[r][BlockOf(p)], SlotOf(p),
                               Names(r, BlockOf(p)))
    BY <1>1 DEF TablesHold
  <2>1. CASE computed'[r] = computed[r]
    BY <1>8, <2>1 DEF Claims, TablesHold
  <2>2. CASE computed'[r] # computed[r]
    <3>1. PICK i \in DOMAIN batch : batch[i].req = r /\ computed'[r] = batch[i].to
      BY <1>11, <2>2
    <3>2. RowHolds(Pipeline, kv, Depth, batch[i]) /\ batch[i].blocks = table[r]
      BY <3>1 DEF Claims, StepsHold, RowsHold, RowsFit
    <3> QED BY <1>8, <3>1, <3>2 DEF RowHolds
  <2> QED BY <2>1, <2>2
<1>13. HashesHold' /\ ReuseHolds'
  BY <1>1, <1>8 DEF Claims, HashesHold, ReuseHolds
<1>14. Owned' /\ RowsFit(batch', table')
  BY <1>1 DEF Claims, Owned, RowsFit
<1>15. Filled'
  <2> SUFFICES ASSUME NEW r \in Request, status[r] = "running"
               PROVE  BlockOf(computed'[r]) <= Len(table[r])
    BY <1>1 DEF Filled
  <2>1. CASE computed'[r] = computed[r]
    BY <2>1 DEF Claims, Filled
  <2>2. CASE computed'[r] # computed[r]
    <3>1. PICK i \in DOMAIN batch : batch[i].req = r /\ computed'[r] = batch[i].to
      BY <1>11, <2>2
    <3> QED BY <3>1 DEF Claims, RowsFit
  <2> QED BY <2>1, <2>2
<1> QED BY <1>10, <1>12, <1>13, <1>14, <1>15 DEF Claims

(* HashAfter, block by block.                                              *)
LEMMA HashAfterIs ==
  ASSUME NEW r, NEW blocks, NEW new, NEW full, NEW b \in Block
  PROVE  \/ \E i \in 1 .. full :
              blocks[i] = b /\ HashAfter(r, blocks, new, full)[b] = Hashes[r][i]
         \/ /\ \A i \in 1 .. full : blocks[i] # b
            /\ HashAfter(r, blocks, new, full)[b] = IF b \in ToSet(new) THEN NoHash ELSE hash[b]
<1> DEFINE i == CHOOSE k \in 1 .. full : blocks[k] = b
<1>1. CASE \E k \in 1 .. full : blocks[k] = b
  <2>1. i \in 1 .. full /\ blocks[i] = b
    BY <1>1
  <2>2. HashAfter(r, blocks, new, full)[b] = Hashes[r][i]
    BY <1>1 DEF HashAfter
  <2> HIDE DEF i
  <2> QED BY <2>1, <2>2
<1>2. CASE \A k \in 1 .. full : blocks[k] # b
  BY <1>2 DEF HashAfter
<1> QED BY <1>1, <1>2

(* The hashes of full blocks, and where the tokens of these are.           *)
LEMMA FullBlock ==
  ASSUME NEW r \in Request, NEW n \in Int, n <= MaxTokens[r], NEW i \in 1 .. n \div BlockSize
  PROVE  /\ i \in Nat \ {0} /\ i * BlockSize \in Nat \ {0} /\ i * BlockSize <= n
         /\ BlockOf(i * BlockSize) = i
         /\ Hashes[r][i] = Names(r, i)
         /\ \A o \in Slot : /\ (i - 1) * BlockSize + o \in 1 .. n
                            /\ BlockOf((i - 1) * BlockSize + o) = i
                            /\ SlotOf((i - 1) * BlockSize + o) = o
<1>1. i \in Nat \ {0} /\ i * BlockSize <= n
  BY FullBlocksAreBelow
<1>2. \A o \in Slot : /\ (i - 1) * BlockSize + o \in Nat \ {0}
                      /\ BlockOf((i - 1) * BlockSize + o) = i
                      /\ SlotOf((i - 1) * BlockSize + o) = o
                      /\ (i - 1) * BlockSize + o <= i * BlockSize
  BY <1>1, PositionOf
<1>3. BlockSize \in Slot /\ BlockSize \in Nat \ {0}
  BY ConfigAssumption DEF Slot
<1> DEFINE e == i * BlockSize
<1>4. (i - 1) * BlockSize + BlockSize = e
  BY <1>1, <1>3
<1>5. e \in Nat \ {0} /\ BlockOf(e) = i
  BY <1>2, <1>3, <1>4
<1>6. \A o \in Slot : (i - 1) * BlockSize + o \in 1 .. n
  <2> SUFFICES ASSUME NEW o \in Slot PROVE (i - 1) * BlockSize + o \in 1 .. n
    OBVIOUS
  <2> DEFINE p == (i - 1) * BlockSize + o
  <2>1. p \in Nat \ {0} /\ p <= e /\ e <= n
    BY <1>1, <1>2
  <2> HIDE DEF p, e
  <2>2. p \in 1 .. n
    BY <1>5, <2>1
  <2> QED BY <2>2 DEF p
<1>7. i <= Len(Hashes[r])
  <2>1. /\ n \div BlockSize \in Int /\ n \div BlockSize <= MaxTokens[r] \div BlockSize
    BY BlocksGrow, RequestAssumption
  <2>2. Len(Hashes[r]) = MaxTokens[r] \div BlockSize /\ Len(Hashes[r]) \in Nat
    BY RequestAssumption
  <2> QED BY <2>1, <2>2
<1> QED BY <1>1, <1>2, <1>5, <1>6, <1>7 DEF Names

(* A request gets a row in the step being scheduled, with the blocks it    *)
(* needs: those it adds are its own, the others hold its tokens already;   *)
(* then its full blocks are registered, before they are computed.          *)
LEMMA RowScheduled ==
  ASSUME table \in [Request -> Seq(Block)], computed \in [Request -> Int],
         Contents, Contents', Claims,
         NEW r \in Request, NEW from \in Nat, NEW to \in Nat, NEW n \in Int,
         NEW blocks \in Seq(Block), NEW new, NEW copies \in SUBSET Copy,
         from <= to, n <= to, n <= MaxTokens[r],
         table' = [table EXCEPT ![r] = blocks],
         batch' = Append(batch, NewRow(r, from, to, blocks, copies)),
         hash' = HashAfter(r, blocks, new, n \div BlockSize),
         computed' = [computed EXCEPT ![r] = from],
         UNCHANGED <<inflight, kv>>,
         \A q \in Request :
           /\ q # r => reused'[q] = reused[q]
           /\ q # r /\ status'[q] = "running" => status[q] = "running",
         \A i \in DOMAIN batch : batch[i].req # r,
         BlockOf(to) <= Len(blocks), \A c \in copies : c.target <= Len(blocks),
         \A j \in DOMAIN blocks :
           /\ Belongs(table', blocks[j], Names(r, j))
           /\ blocks[j] \notin ToSet(new) /\ hash[blocks[j]] # NoHash
                => hash[blocks[j]] = Names(r, j),
         \A p \in 1 .. from :
           Promised(Pipeline, kv, Depth, blocks[BlockOf(p)], SlotOf(p), Names(r, BlockOf(p))),
         \A t \in reused'[r] : t \in DOMAIN blocks /\
           \/ \E c \in copies : c.target = t
           \/ \A o \in Slot : Promised(Pipeline, kv, Depth, blocks[t], o, Names(r, t)),
         \A c \in copies : \A e \in c.from : \A o \in Slot :
           Promised(Pipeline, kv, Depth - 1, e.block, o, e.hash)
  PROVE  Claims'
<1> DEFINE row == NewRow(r, from, to, blocks, copies)
           N == Len(batch) + 1
           full == n \div BlockSize
<1>1. row \in Row /\ batch \in Seq(Row) /\ batch' \in Seq(Row)
  BY NewRowTyped DEF Contents
<1>2. /\ row.req = r /\ row.from = from /\ row.to = to /\ row.blocks = blocks
      /\ row.copies = copies
  BY DEF NewRow
<1>3. /\ table' \in [Request -> Seq(Block)] /\ table'[r] = blocks
      /\ \A q \in Request : q # r => table'[q] = table[q]
      /\ Len(blocks) \in Nat /\ DOMAIN blocks = 1 .. Len(blocks)
  OBVIOUS
<1> HIDE DEF row
<1>4. /\ N \in Nat \ {0} /\ DOMAIN batch = 1 .. N - 1 /\ DOMAIN batch' = 1 .. N
      /\ batch'[N] = row /\ \A i \in DOMAIN batch : batch'[i] = batch[i]
      /\ \A i \in DOMAIN batch : batch[i].req \in Request /\ batch[i].req # r
  <2>1. batch' = Append(batch, row)
    BY DEF row
  <2>2. \A i \in DOMAIN batch : batch[i].req \in Request
    BY <1>1, RowFields
  <2> QED BY <1>1, <2>1, <2>2
<1> HIDE DEF N
<1>5. \A i \in DOMAIN batch' : i = N \/ i \in DOMAIN batch
  BY <1>4
<1>6. RowsFit(batch', table')
  <2>1. ASSUME NEW i \in DOMAIN batch
        PROVE  /\ batch'[i].blocks = table'[batch'[i].req]
               /\ BlockOf(batch'[i].to) <= Len(batch'[i].blocks)
               /\ \A c \in batch'[i].copies : c.target <= Len(batch'[i].blocks)
    BY <1>3, <1>4 DEF Claims, RowsFit
  <2>2. /\ batch'[N].blocks = table'[batch'[N].req]
        /\ BlockOf(batch'[N].to) <= Len(batch'[N].blocks)
        /\ \A c \in batch'[N].copies : c.target <= Len(batch'[N].blocks)
    BY <1>2, <1>3, <1>4
  <2> QED BY <1>5, <2>1, <2>2 DEF RowsFit
<1>7. /\ Depth' = Depth
      /\ \A k \in 0 .. Len(inflight) : \A b, o, h :
           Promised(Pipeline, kv, k, b, o, h) => Promised(Pipeline', kv', k, b, o, h)
      /\ \A b, o, h : Promised(Pipeline, kv, Depth, b, o, h) /\ Belongs(table', b, h)
                        => Promised(Pipeline', kv', Depth, b, o, h)
  <2>1. \A i \in DOMAIN batch : reused'[batch[i].req] = reused[batch[i].req]
    BY <1>4
  <2>2. batch' = Append(batch, row)
    BY DEF row
  <2>3. /\ \A k \in 0 .. Len(inflight) : \A b, o, h :
             Promised(Pipeline, kv, k, b, o, h) => Promised(Pipeline', kv', k, b, o, h)
        /\ \A b, o, h : Promised(Pipeline, kv, Depth, b, o, h) /\ Belongs(table', b, h)
                          => Promised(Pipeline', kv', Depth', b, o, h)
    BY <1>1, <1>3, <1>6, <2>1, <2>2, RowAddedKeeps
  <2>4. Depth' = Depth
    BY DEF Depth
  <2> QED BY <2>3, <2>4
<1>8. \A b \in Block :
        \/ \E i \in 1 .. full : /\ blocks[i] = b /\ hash'[b] = Names(r, i)
                                /\ i \in DOMAIN blocks
        \/ hash'[b] = NoHash
        \/ b \notin ToSet(new) /\ hash'[b] = hash[b]
  <2> SUFFICES ASSUME NEW b \in Block, hash'[b] # NoHash,
                      b \in ToSet(new) \/ hash'[b] # hash[b]
               PROVE  \E i \in 1 .. full : /\ blocks[i] = b /\ hash'[b] = Names(r, i)
                                           /\ i \in DOMAIN blocks
    OBVIOUS
  <2>0. \/ \E i \in 1 .. full : blocks[i] = b /\ hash'[b] = Hashes[r][i]
        \/ hash'[b] = IF b \in ToSet(new) THEN NoHash ELSE hash[b]
    <3> DEFINE after == HashAfter(r, blocks, new, full)
    <3>1. \/ \E i \in 1 .. full : blocks[i] = b /\ after[b] = Hashes[r][i]
          \/ after[b] = IF b \in ToSet(new) THEN NoHash ELSE hash[b]
      BY HashAfterIs
    <3>2. hash' = after
      OBVIOUS
    <3> HIDE DEF after, full
    <3> QED BY <3>1, <3>2
  <2>1. PICK i \in 1 .. full : blocks[i] = b /\ hash'[b] = Hashes[r][i]
    BY <2>0
  <2>2. /\ i \in Nat \ {0} /\ i * BlockSize \in Nat \ {0} /\ i * BlockSize <= n
        /\ BlockOf(i * BlockSize) = i /\ Hashes[r][i] = Names(r, i)
    BY FullBlock
  <2>3. i * BlockSize <= to
    BY <2>2
  <2>4. i <= BlockOf(to) /\ BlockOf(to) \in Int
    BY <2>2, <2>3, BlockOfGrows
  <2>5. i \in DOMAIN blocks
    BY <1>3, <2>2, <2>4
  <2> QED BY <2>1, <2>2, <2>5
<1>9. Owned'
  <2>1. ASSUME NEW q \in Request, NEW j \in DOMAIN table'[q]
        PROVE  Belongs(table', table'[q][j], Names(q, j))
    <3>1. CASE q = r
      BY <1>3, <3>1
    <3>2. CASE q # r
      <4> SUFFICES ASSUME NEW s \in Request, NEW i \in DOMAIN table'[s],
                          table'[s][i] = table'[q][j]
                   PROVE  Names(q, j) = Names(s, i)
        BY DEF Belongs
      <4>1. CASE s = r
        <5>1. Belongs(table', blocks[i], Names(r, i)) /\ table'[q][j] = blocks[i]
          BY <1>3, <4>1
        <5> QED BY <4>1, <5>1 DEF Belongs
      <4>2. CASE s # r
        <5>1. table'[q] = table[q] /\ table'[s] = table[s]
          BY <1>3, <3>2, <4>2
        <5>2. Belongs(table, table[q][j], Names(q, j))
          BY <5>1 DEF Claims, Owned
        <5> QED BY <5>1, <5>2 DEF Belongs
      <4> QED BY <4>1, <4>2
    <3> QED BY <3>1, <3>2
  <2>2. ASSUME NEW b \in Block, hash'[b] # NoHash PROVE Belongs(table', b, hash'[b])
    <3>1. CASE \E i \in 1 .. full : /\ blocks[i] = b /\ hash'[b] = Names(r, i)
                                    /\ i \in DOMAIN blocks
      BY <3>1
    <3>2. CASE b \notin ToSet(new) /\ hash'[b] = hash[b]
      <4> SUFFICES ASSUME NEW s \in Request, NEW i \in DOMAIN table'[s], table'[s][i] = b
                   PROVE  hash[b] = Names(s, i)
        BY <3>2 DEF Belongs
      <4>1. CASE s = r
        BY <1>3, <2>2, <3>2, <4>1
      <4>2. CASE s # r
        <5>1. table'[s] = table[s] /\ Belongs(table, b, hash[b])
          BY <1>3, <2>2, <3>2, <4>2 DEF Claims, Owned
        <5> QED BY <5>1 DEF Belongs
      <4> QED BY <4>1, <4>2
    <3> QED BY <1>8, <2>2, <3>1, <3>2
  <2> QED BY <2>1, <2>2 DEF Owned
<1>10. \A q \in Request : \A j \in DOMAIN table'[q] : Belongs(table', table'[q][j], Names(q, j))
  BY <1>9 DEF Owned
<1>11. /\ Depth \in Nat \ {0} /\ Pipeline'[Depth] = Building' /\ Depth = Len(inflight) + 1
       /\ Len(inflight) \in Nat /\ DOMAIN inflight = 1 .. Len(inflight)
       /\ DOMAIN Building' = 1 .. N
       /\ Building'[N].req = r /\ Building'[N].from = from /\ Building'[N].to = to
       /\ Building'[N].blocks = blocks /\ Building'[N].copies = copies
       /\ Building'[N].reuse = reused'[r]
  <2>1. Depth' \in Nat \ {0} /\ Pipeline'[Depth'] = Building'
    <3>1. inflight' \in Seq(Seq(Row))
      BY DEF Contents
    <3> DEFINE last == Building'
               more == inflight'
    <3>2. Pipeline' = Append(more, last) /\ Depth' = Len(more) + 1
      BY DEF Pipeline, Depth
    <3>3. more \in Seq(Seq(Row))
      BY <3>1
    <3> HIDE DEF last, more
    <3>4. Append(more, last)[Len(more) + 1] = last /\ Len(more) \in Nat
      BY <3>3
    <3> QED BY <3>2, <3>4 DEF last
  <2>2. DOMAIN Building' = 1 .. N
    BY <1>4 DEF Building, StepOf
  <2>3. N \in DOMAIN batch'
    BY <1>4
  <2>4. /\ Building'[N].req = batch'[N].req /\ Building'[N].from = batch'[N].from
        /\ Building'[N].to = batch'[N].to /\ Building'[N].blocks = batch'[N].blocks
        /\ Building'[N].copies = batch'[N].copies
        /\ Building'[N].reuse = reused'[batch'[N].req]
    <3> DEFINE more == batch'
               skips == reused'
    <3>1. more \in Seq(Row) /\ N \in DOMAIN more /\ Building' = StepOf(more, skips)
      BY <1>1, <2>3 DEF Building
    <3> HIDE DEF more, skips
    <3>2. /\ StepOf(more, skips)[N].req = more[N].req
          /\ StepOf(more, skips)[N].from = more[N].from
          /\ StepOf(more, skips)[N].to = more[N].to
          /\ StepOf(more, skips)[N].blocks = more[N].blocks
          /\ StepOf(more, skips)[N].copies = more[N].copies
          /\ StepOf(more, skips)[N].reuse = skips[more[N].req]
      BY <3>1, RowFields
    <3> QED BY <3>1, <3>2 DEF more, skips
  <2>5. Len(inflight) \in Nat /\ DOMAIN inflight = 1 .. Len(inflight)
    BY PipelineTypes
  <2> QED BY <1>2, <1>4, <1>7, <2>1, <2>2, <2>4, <2>5 DEF Depth
<1>12. ASSUME NEW b \in Block, NEW o \in Slot, NEW h, Puts(Building', b, o, h), Belongs(table', b, h)
       PROVE  Promised(Pipeline', kv', Depth, b, o, h)
  <2>1. PutsOnly(Building', b, o, h)
    BY <1>1, <1>3, <1>6, <1>12, Agree DEF Building
  <2>2. Puts(Pipeline'[Depth], b, o, h) /\ PutsOnly(Pipeline'[Depth], b, o, h)
    BY <1>11, <1>12, <2>1
  <2>3. Ends(Pipeline', Depth, kv', b, o, h)
    BY <1>11, <2>2, EndsNow
  <2> QED BY <2>3 DEF Promised
<1>13. ASSUME NEW t \in reused'[r], NEW o \in Slot
       PROVE  Promised(Pipeline', kv', Depth, blocks[t], o, Names(r, t))
  <2>1. t \in DOMAIN blocks /\ t \in Nat \ {0} /\ blocks[t] \in Block
    BY <1>3
  <2>2. Belongs(table', blocks[t], Names(r, t))
    BY <2>1
  <2>3. CASE \E c \in copies : c.target = t
    <3>1. N \in DOMAIN Building'
      BY <1>4, <1>11
    <3>2. Puts(Building', blocks[t], o, Names(r, t))
      BY <1>11, <2>1, <2>3, <3>1 DEF Puts
    <3> QED BY <1>12, <2>1, <2>2, <3>2
  <2>4. CASE Promised(Pipeline, kv, Depth, blocks[t], o, Names(r, t))
    BY <1>7, <2>2, <2>4
  <2> QED BY <2>3, <2>4
<1>14. ReuseHolds'
  <2> SUFFICES ASSUME NEW q \in Request, NEW t \in reused'[q]
               PROVE  /\ t \in DOMAIN table'[q]
                      /\ \A o \in Slot :
                           Promised(Pipeline', kv', Depth', table'[q][t], o, Names(q, t))
    BY DEF ReuseHolds
  <2>1. CASE q = r
    BY <1>3, <1>7, <1>13, <2>1
  <2>2. CASE q # r
    <3>1. /\ reused'[q] = reused[q] /\ table'[q] = table[q] /\ t \in DOMAIN table[q]
          /\ \A o \in Slot : Promised(Pipeline, kv, Depth, table[q][t], o, Names(q, t))
      BY <1>3, <2>2 DEF Claims, ReuseHolds
    <3>2. Belongs(table', table'[q][t], Names(q, t))
      BY <1>10, <3>1
    <3> QED BY <1>7, <3>1, <3>2
  <2> QED BY <2>1, <2>2
<1>15. ASSUME NEW p \in 1 .. to
       PROVE  /\ p \in Nat \ {0} /\ SlotOf(p) \in Slot /\ BlockOf(p) \in DOMAIN blocks
              /\ Belongs(table', blocks[BlockOf(p)], Names(r, BlockOf(p)))
  <2>1. p \in Nat \ {0} /\ p <= to
    OBVIOUS
  <2>2. BlockOf(p) \in Nat \ {0} /\ SlotOf(p) \in Slot
    BY <2>1, Place
  <2>3. BlockOf(p) <= BlockOf(to) /\ BlockOf(to) \in Int
    BY <2>1, BlockOfGrows
  <2>4. BlockOf(p) \in DOMAIN blocks
    BY <1>3, <2>2, <2>3
  <2> QED BY <2>1, <2>2, <2>4
<1>16. RowHolds(Pipeline', kv', Depth, row)
  <2> SUFFICES ASSUME NEW p \in 1 .. to
               PROVE  Promised(Pipeline', kv', Depth, blocks[BlockOf(p)], SlotOf(p),
                               Names(r, BlockOf(p)))
    BY <1>2 DEF RowHolds
  <2>1. /\ p \in Nat \ {0} /\ SlotOf(p) \in Slot /\ BlockOf(p) \in DOMAIN blocks
        /\ blocks[BlockOf(p)] \in Block
        /\ Belongs(table', blocks[BlockOf(p)], Names(r, BlockOf(p)))
    <3>1. \A j \in DOMAIN blocks : blocks[j] \in Block
      BY <1>3
    <3> QED BY <1>15, <3>1
  <2>2. CASE p <= from
    <3>1. p \in 1 .. from
      BY <2>1, <2>2
    <3> QED BY <1>7, <2>1, <3>1
  <2>3. CASE p > from
    <3>1. p \in from + 1 .. to
      BY <2>1, <2>3
    <3>2. CASE Skips(Building', Building'[N], p)
      <4>1. BlockOf(p) \in reused'[r]
        BY <1>11, <3>2 DEF Skips
      <4> QED BY <1>13, <2>1, <4>1
    <3>3. CASE ~ Skips(Building', Building'[N], p)
      <4>1. N \in DOMAIN Building' /\ BlockOf(p) \in Nat \ {0}
        BY <1>3, <1>4, <1>11, <2>1
      <4>2. Puts(Building', blocks[BlockOf(p)], SlotOf(p), Names(r, BlockOf(p)))
        BY <1>11, <3>1, <3>3, <4>1 DEF Puts
      <4> QED BY <1>12, <2>1, <4>2
    <3> QED BY <3>2, <3>3
  <2> QED BY <2>1, <2>2, <2>3
<1>17. StepsHold'
  <2>1. ASSUME NEW k \in 1 .. Depth, NEW copier, SourcesHold(Pipeline, kv, k, copier)
        PROVE  SourcesHold(Pipeline', kv', k, copier)
    <3>1. k - 1 \in 0 .. Len(inflight)
      BY <1>11
    <3> QED BY <1>7, <2>1, <3>1 DEF SourcesHold
  <2>2. ASSUME NEW k \in DOMAIN inflight PROVE RowsHold(Pipeline', kv', k, inflight[k])
    <3>1. k \in 1 .. Depth /\ k \in 0 .. Len(inflight)
      BY <1>11
    <3>2. RowsHold(Pipeline, kv, k, inflight[k])
      BY DEF Claims, StepsHold
    <3> QED BY <1>7, <2>1, <3>1, <3>2 DEF RowsHold, RowHolds
  <2>3. Depth \in 1 .. Depth
    BY <1>11
  <2>4. ASSUME NEW i \in DOMAIN batch
        PROVE  /\ RowHolds(Pipeline', kv', Depth, batch[i])
               /\ SourcesHold(Pipeline', kv', Depth, batch[i])
    <3>1. RowHolds(Pipeline, kv, Depth, batch[i]) /\ SourcesHold(Pipeline, kv, Depth, batch[i])
      BY DEF Claims, StepsHold, RowsHold
    <3>2. ASSUME NEW p \in 1 .. batch[i].to
          PROVE  Belongs(table', batch[i].blocks[BlockOf(p)], Names(batch[i].req, BlockOf(p)))
      <4>1. batch[i].to \in Nat /\ batch[i].blocks \in Seq(Block)
        BY <1>1, RowFields
      <4>2. p \in Nat \ {0} /\ p <= batch[i].to
        BY <4>1
      <4>3. BlockOf(p) \in Nat \ {0} /\ BlockOf(p) <= BlockOf(batch[i].to)
            /\ BlockOf(batch[i].to) \in Int
        <5>1. batch[i].to \in Int
          BY <4>1
        <5>2. BlockOf(p) <= BlockOf(batch[i].to) /\ BlockOf(batch[i].to) \in Int
          BY <4>2, <5>1, BlockOfGrows
        <5> QED BY <4>2, <5>2, Place
      <4>4. BlockOf(p) \in DOMAIN batch[i].blocks
        BY <4>1, <4>3 DEF Claims, RowsFit
      <4>5. batch[i].blocks = table'[batch[i].req] /\ batch[i].req \in Request
        BY <1>3, <1>4 DEF Claims, RowsFit
      <4> QED BY <1>10, <4>4, <4>5
    <3>3. RowHolds(Pipeline', kv', Depth, batch[i])
      BY <1>7, <3>1, <3>2 DEF RowHolds
    <3> QED BY <2>1, <2>3, <3>1, <3>3
  <2>5. SourcesHold(Pipeline', kv', Depth, row)
    <3>1. SourcesHold(Pipeline, kv, Depth, row)
      BY <1>2 DEF SourcesHold
    <3> QED BY <2>1, <2>3, <3>1
  <2>6. RowsHold(Pipeline', kv', Depth, batch')
    <3>1. ASSUME NEW i \in DOMAIN batch'
          PROVE  /\ RowHolds(Pipeline', kv', Depth, batch'[i])
                 /\ SourcesHold(Pipeline', kv', Depth, batch'[i])
      <4>1. CASE i = N
        BY <1>4, <1>16, <2>5, <4>1
      <4>2. CASE i \in DOMAIN batch
        BY <1>4, <2>4, <4>2
      <4> QED BY <1>5, <4>1, <4>2
    <3> QED BY <3>1 DEF RowsHold
  <2> QED BY <1>7, <2>2, <2>6 DEF StepsHold
<1>18. TablesHold'
  <2> SUFFICES ASSUME NEW q \in Request, NEW p \in 1 .. computed'[q],
                      BlockOf(p) \in DOMAIN table'[q]
               PROVE  Promised(Pipeline', kv', Depth', table'[q][BlockOf(p)], SlotOf(p),
                               Names(q, BlockOf(p)))
    BY DEF TablesHold
  <2>1. Belongs(table', table'[q][BlockOf(p)], Names(q, BlockOf(p)))
    BY <1>10
  <2>2. Promised(Pipeline, kv, Depth, table'[q][BlockOf(p)], SlotOf(p), Names(q, BlockOf(p)))
    <3>1. CASE q = r
      BY <1>3, <3>1
    <3>2. CASE q # r
      BY <1>3, <3>2 DEF Claims, TablesHold
    <3> QED BY <3>1, <3>2
  <2> QED BY <1>7, <2>1, <2>2
<1>19. HashesHold'
  <2> SUFFICES ASSUME NEW b \in Block, hash'[b] # NoHash, NEW o \in Slot
               PROVE  Promised(Pipeline', kv', Depth', b, o, hash'[b])
    BY DEF HashesHold
  <2>1. CASE \E i \in 1 .. full : /\ blocks[i] = b /\ hash'[b] = Names(r, i)
                                  /\ i \in DOMAIN blocks
    <3>1. PICK i \in 1 .. full : blocks[i] = b /\ hash'[b] = Names(r, i)
      BY <2>1
    <3> DEFINE p == (i - 1) * BlockSize + o
    <3>2. p \in 1 .. n /\ BlockOf(p) = i /\ SlotOf(p) = o
      BY FullBlock
    <3> HIDE DEF p
    <3>3. p \in 1 .. to
      BY <3>2
    <3>4. Promised(Pipeline', kv', Depth, blocks[BlockOf(p)], SlotOf(p), Names(r, BlockOf(p)))
      BY <1>2, <1>16, <3>3 DEF RowHolds
    <3> QED BY <1>7, <3>1, <3>2, <3>4
  <2>2. CASE b \notin ToSet(new) /\ hash'[b] = hash[b]
    <3>1. Promised(Pipeline, kv, Depth, b, o, hash'[b])
      BY <2>2 DEF Claims, HashesHold
    <3>2. Belongs(table', b, hash'[b])
      BY <1>9 DEF Owned
    <3> QED BY <1>7, <3>1, <3>2
  <2> QED BY <1>8, <2>1, <2>2
<1>20. Filled'
  <2> SUFFICES ASSUME NEW q \in Request, status'[q] = "running"
               PROVE  BlockOf(computed'[q]) <= Len(table'[q])
    BY DEF Filled
  <2>1. CASE q # r
    <3>1. computed'[q] = computed[q] /\ table'[q] = table[q]
      BY <1>3, <2>1
    <3> QED BY <2>1, <3>1 DEF Claims, Filled
  <2>2. CASE q = r
    <3>1. computed'[q] = from /\ table'[q] = blocks
      BY <1>3, <2>2
    <3>2. CASE from = 0
      BY <1>3, <3>1, <3>2, NoBlocks
    <3>3. CASE from # 0
      <4>1. BlockOf(from) <= BlockOf(to) /\ BlockOf(to) \in Int
        BY <3>3, BlockOfGrows
      <4>2. BlockOf(from) \in Int
        BY <3>3, Place
      <4> QED BY <1>3, <3>1, <4>1, <4>2
    <3> QED BY <3>2, <3>3
  <2> QED BY <2>1, <2>2
<1> QED BY <1>6, <1>9, <1>14, <1>17, <1>18, <1>19, <1>20 DEF Claims

-----------------------------------------------------------------------------
(* Nobody's table has a free block.                                        *)
LEMMA FreeIsUnheld ==
  ASSUME Types, Refs, NEW b \in FreeBlocks, NEW q \in Request
  PROVE  b \notin ToSet(table[q])
<1> SUFFICES ASSUME b \in ToSet(table[q]) PROVE FALSE
  OBVIOUS
<1>1. b \in Block /\ ref[b] = 0
  BY DEF FreeBlocks
<1>2. q \in Holders(b)
  BY HoldersNow
<1>3. IsFiniteSet(Holders(b)) /\ Cardinality(Holders(b)) = 0
  BY <1>1, HoldersFinite DEF Refs, RefsCountHolders
<1> QED BY <1>2, <1>3, FS_EmptySet

(* Free blocks behind blocks that hold the request's tokens.               *)
LEMMA BlocksBelong ==
  ASSUME table \in [Request -> Seq(Block)], NEW r \in Request,
         NEW old \in Seq(Block), NEW new \in Seq(Block), IsInjective(new),
         table' = [table EXCEPT ![r] = old \o new],
         \A b \in ToSet(new) : b \notin ToSet(old),
         \A b \in ToSet(new) : \A q \in Request : b \notin ToSet(table[q]),
         \A j \in DOMAIN old :
           /\ Belongs([table EXCEPT ![r] = old], old[j], Names(r, j))
           /\ hash[old[j]] # NoHash => hash[old[j]] = Names(r, j)
  PROVE  \A j \in DOMAIN (old \o new) :
           /\ Belongs(table', (old \o new)[j], Names(r, j))
           /\ (old \o new)[j] \notin ToSet(new) /\ hash[(old \o new)[j]] # NoHash
                => hash[(old \o new)[j]] = Names(r, j)
<1> DEFINE blocks == old \o new
           shrunk == [table EXCEPT ![r] = old]
<1>1. /\ Len(old) \in Nat /\ Len(new) \in Nat
      /\ DOMAIN old = 1 .. Len(old) /\ DOMAIN new = 1 .. Len(new)
      /\ DOMAIN blocks = 1 .. Len(old) + Len(new)
      /\ \A j \in DOMAIN old : blocks[j] = old[j]
      /\ \A j \in DOMAIN blocks : j \notin DOMAIN old =>
           j - Len(old) \in DOMAIN new /\ blocks[j] = new[j - Len(old)]
  OBVIOUS
<1>2. /\ table'[r] = blocks /\ \A q \in Request : q # r => table'[q] = table[q]
      /\ shrunk[r] = old /\ \A q \in Request : q # r => shrunk[q] = table[q]
  OBVIOUS
<1> HIDE DEF blocks, shrunk
<1>3. \A j \in DOMAIN blocks : j \notin DOMAIN old => blocks[j] \in ToSet(new)
  BY <1>1 DEF ToSet
<1>4. \A j \in DOMAIN blocks : blocks[j] \in ToSet(new) => j \notin DOMAIN old
  BY <1>1 DEF ToSet
<1>5. ASSUME NEW j \in DOMAIN blocks, NEW q \in Request, NEW i \in DOMAIN table'[q],
             table'[q][i] = blocks[j]
      PROVE  Names(r, j) = Names(q, i)
  <2>1. CASE j \in DOMAIN old
    <3>1. Belongs(shrunk, blocks[j], Names(r, j))
      BY <1>1, <2>1 DEF shrunk
    <3>2. i \in DOMAIN shrunk[q] /\ shrunk[q][i] = blocks[j]
      <4>1. CASE q = r
        <5>1. blocks[i] = blocks[j] /\ blocks[j] \notin ToSet(new)
          BY <1>2, <1>4, <1>5, <2>1, <4>1
        <5>2. i \in DOMAIN blocks
          BY <1>2, <4>1
        <5>3. i \in DOMAIN old
          BY <1>3, <5>1, <5>2
        <5> QED BY <1>1, <1>2, <4>1, <5>1, <5>3
      <4>2. CASE q # r
        BY <1>2, <1>5, <4>2
      <4> QED BY <4>1, <4>2
    <3> QED BY <3>1, <3>2 DEF Belongs
  <2>2. CASE j \notin DOMAIN old
    <3>1. blocks[j] \in ToSet(new)
      BY <1>3, <2>2
    <3>2. q = r
      <4> SUFFICES ASSUME q # r PROVE FALSE
        OBVIOUS
      <4>1. blocks[j] \in ToSet(table[q])
        BY <1>2, <1>5 DEF ToSet
      <4> QED BY <3>1, <4>1
    <3>3. i \in DOMAIN blocks /\ blocks[i] = blocks[j]
      BY <1>2, <1>5, <3>2
    <3>4. i \notin DOMAIN old
      BY <1>4, <3>1, <3>3
    <3>5. i - Len(old) = j - Len(old)
      BY <1>1, <2>2, <3>3, <3>4 DEF IsInjective
    <3>6. i = j
      BY <1>1, <3>3, <3>5
    <3> QED BY <3>2, <3>6
  <2> QED BY <2>1, <2>2
<1>6. ASSUME NEW j \in DOMAIN blocks
      PROVE  /\ Belongs(table', blocks[j], Names(r, j))
             /\ blocks[j] \notin ToSet(new) /\ hash[blocks[j]] # NoHash
                  => hash[blocks[j]] = Names(r, j)
  BY <1>1, <1>3, <1>5 DEF Belongs
<1> QED BY <1>6 DEF blocks

(* A step that has a row for each request at most has none yet for the     *)
(* request of the row that is added.                                       *)
LEMMA RowIsFirst ==
  ASSUME Contents, NEW row, batch' = Append(batch, row), DistinctRows(batch')
  PROVE  \A i \in DOMAIN batch : batch[i].req # row.req
<1> DEFINE n == Len(batch) + 1
<1>1. /\ DOMAIN batch' = 1 .. n /\ batch'[n] = row /\ n \in Nat /\ DOMAIN batch = 1 .. n - 1
      /\ \A i \in DOMAIN batch : batch'[i] = batch[i]
  BY DEF Contents
<1> HIDE DEF n
<1>2. \A i \in DOMAIN batch : i \in 1 .. n /\ n \in 1 .. n /\ i # n
  BY <1>1
<1> QED BY <1>1, <1>2 DEF DistinctRows

(* The next chunk of a running request.                                    *)
LEMMA ScheduleClaims ==
  ASSUME Types, Queues, Refs, Lengths, Lengths', Steps', Contents, Contents', Claims,
         ScheduleRunning
  PROVE  Claims'
<1> DEFINE r == Candidate
           from == computed[r]
           to == from + NewTokens(r)
           n == Smaller(to, tokens[r])
           old == table[r]
<1>1. /\ table \in [Request -> Seq(Block)] /\ computed \in [Request -> Int]
      /\ budget \in Int
  BY DEF Types, ControlTypes
<1>2. r \in Request /\ r \in ToSet(running) /\ status[r] = "running" /\ old \in Seq(Block)
  <2>1. r \in Request /\ r \in ToSet(running)
    BY CandidateType DEF ScheduleRunning, Types
  <2> QED BY <1>1, <2>1 DEF Queues
<1>3. PICK new \in NewBlocks(FreeBlocks, NeededBlocks(r)) :
        /\ table' = [table EXCEPT ![r] = old \o new]
        /\ hash' = HashAfter(r, old \o new, new, n \div BlockSize)
        /\ batch' = Append(batch, NewRow(r, from, to, old \o new, {}))
  BY DEF ScheduleRunning
<1>4. UNCHANGED <<status, computed, reused, inflight, kv>>
  BY DEF ScheduleRunning, worker, request
<1>5. from \in Nat /\ to \in Nat
  BY <1>3, LastRowIsShort
<1>6. from <= to /\ n \in Int /\ n <= to /\ n <= MaxTokens[r]
  <2>1. /\ tokens[r] \in Nat /\ placeholders[r] \in Int /\ MaxTokens[r] \in Nat
        /\ tokens[r] <= MaxTokens[r]
    BY <1>2, RequestAssumption DEF Types, ControlTypes, Lengths
  <2>2. budget > 0 /\ Missing(r) > 0
    BY DEF ScheduleRunning, InRunningLoop, WantsSlots
  <2>3. Missing(r) \in Int
    BY <1>5, <2>1 DEF Missing
  <2>4. NewTokens(r) \in Int /\ NewTokens(r) > 0
    BY <1>1, <2>2, <2>3 DEF NewTokens, Smaller
  <2> HIDE DEF r
  <2> QED BY <1>5, <2>1, <2>4 DEF Smaller
<1>7. NeededBlocks(r) = BlockOf(to) - Len(old) /\ BlockOf(to) \in Int
  <2>1. BlockOf(to) \in Int
    BY <1>5, CeilDivType DEF BlockOf
  <2> QED BY <2>1 DEF NeededBlocks, BlockOf
<1> HIDE DEF r, from, to, n, old
<1>8. /\ new \in Seq(Block) /\ IsInjective(new) /\ ToSet(new) \subseteq FreeBlocks
      /\ NeededBlocks(r) <= Len(new)
  <2>1. NeededBlocks(r) \in Int
    BY <1>2, <1>7
  <2> QED BY <1>3, <2>1, NewBlocksType, NewBlocksLength DEF NewBlocks, FreeBlocks
<1> DEFINE blocks == old \o new
<1>9. /\ blocks \in Seq(Block) /\ BlockOf(to) <= Len(blocks)
      /\ \A j \in DOMAIN old : j \in DOMAIN blocks /\ blocks[j] = old[j]
  BY <1>2, <1>7, <1>8
<1>10. \A b \in ToSet(new) : \A q \in Request : b \notin ToSet(table[q])
  BY <1>8, FreeIsUnheld
<1>11. \A j \in DOMAIN blocks :
         /\ Belongs(table', blocks[j], Names(r, j))
         /\ blocks[j] \notin ToSet(new) /\ hash[blocks[j]] # NoHash
              => hash[blocks[j]] = Names(r, j)
  <2>1. [table EXCEPT ![r] = old] = table
    BY <1>1, <1>2 DEF old
  <2>2. \A j \in DOMAIN old : old[j] \in Block /\ Belongs(table, old[j], Names(r, j))
    BY <1>2 DEF Claims, Owned, old
  <2>3. \A j \in DOMAIN old : hash[old[j]] # NoHash => hash[old[j]] = Names(r, j)
    <3>1. \A j \in DOMAIN old : hash[old[j]] # NoHash => Belongs(table, old[j], hash[old[j]])
      BY <2>2 DEF Claims, Owned
    <3> QED BY <1>2, <3>1 DEF Belongs, old
  <2>4. \A b \in ToSet(new) : b \notin ToSet(old)
    BY <1>2, <1>10 DEF old
  <2>5. \A j \in DOMAIN old :
          /\ Belongs([table EXCEPT ![r] = old], old[j], Names(r, j))
          /\ hash[old[j]] # NoHash => hash[old[j]] = Names(r, j)
    BY <2>1, <2>2, <2>3
  <2>6. table' = [table EXCEPT ![r] = old \o new]
    BY <1>3
  <2>7. new \in Seq(Block) /\ IsInjective(new)
    BY <1>8
  <2>8. \A j \in DOMAIN (old \o new) :
          /\ Belongs(table', (old \o new)[j], Names(r, j))
          /\ (old \o new)[j] \notin ToSet(new) /\ hash[(old \o new)[j]] # NoHash
               => hash[(old \o new)[j]] = Names(r, j)
    BY <1>1, <1>2, <1>10, <2>4, <2>5, <2>6, <2>7, BlocksBelong
  <2> QED BY <2>8
<1>12. ASSUME NEW p \in 1 .. from
       PROVE  Promised(Pipeline, kv, Depth, blocks[BlockOf(p)], SlotOf(p), Names(r, BlockOf(p)))
  <2>1. p \in Nat \ {0} /\ p <= from /\ from \in Int
    BY <1>5
  <2>2. BlockOf(p) \in Nat \ {0} /\ BlockOf(p) <= BlockOf(from) /\ BlockOf(from) \in Int
    BY <2>1, Place, BlockOfGrows
  <2>3. BlockOf(from) <= Len(old)
    BY <1>2 DEF Claims, Filled, from, old
  <2>4. BlockOf(p) \in DOMAIN old
    BY <1>2, <2>2, <2>3
  <2>5. Promised(Pipeline, kv, Depth, old[BlockOf(p)], SlotOf(p), Names(r, BlockOf(p)))
    BY <1>2, <2>4 DEF Claims, TablesHold, old, from
  <2> QED BY <1>9, <2>4, <2>5
<1>13. \A t \in reused'[r] :
         /\ t \in DOMAIN blocks
         /\ \A o \in Slot : Promised(Pipeline, kv, Depth, blocks[t], o, Names(r, t))
  <2>1. \A t \in reused[r] :
          /\ t \in DOMAIN old
          /\ \A o \in Slot : Promised(Pipeline, kv, Depth, old[t], o, Names(r, t))
    BY <1>2 DEF Claims, ReuseHolds, old
  <2> QED BY <1>4, <1>9, <2>1
<1>14. computed' = [computed EXCEPT ![r] = from]
  BY <1>1, <1>2, <1>4 DEF from
<1>15. \A i \in DOMAIN batch : batch[i].req # r
  <2>1. NewRow(r, from, to, blocks, {}).req = r
    BY DEF NewRow
  <2>2. DistinctRows(batch')
    BY DEF Steps
  <2> QED BY <1>3, <2>1, <2>2, RowIsFirst
<1> DEFINE copies == {}
<1>16. /\ table' = [table EXCEPT ![r] = blocks]
       /\ batch' = Append(batch, NewRow(r, from, to, blocks, copies))
       /\ hash' = HashAfter(r, blocks, new, n \div BlockSize)
  BY <1>3
<1>17. \A q \in Request :
         /\ q # r => reused'[q] = reused[q]
         /\ q # r /\ status'[q] = "running" => status[q] = "running"
  BY <1>4
<1>18. /\ copies \in SUBSET Copy /\ \A c \in copies : c.target <= Len(blocks)
       /\ \A c \in copies : \A e \in c.from : \A o \in Slot :
            Promised(Pipeline, kv, Depth - 1, e.block, o, e.hash)
  OBVIOUS
<1>19. \A t \in reused'[r] : t \in DOMAIN blocks /\
         \/ \E c \in copies : c.target = t
         \/ \A o \in Slot : Promised(Pipeline, kv, Depth, blocks[t], o, Names(r, t))
  BY <1>13
<1>20. /\ blocks \in Seq(Block) /\ BlockOf(to) <= Len(blocks)
       /\ UNCHANGED <<inflight, kv>>
  BY <1>4, <1>9
<1> HIDE DEF blocks, copies
<1> QED BY <1>1, <1>2, <1>5, <1>6, <1>11, <1>12, <1>14, <1>15, <1>16, <1>17, <1>18, <1>19,
           <1>20, RowScheduled

-----------------------------------------------------------------------------
(***************************************************************************)
(* What is copied in a step is there before the step runs: no row of the   *)
(* step computes, or copies into, a block that another one copies from.    *)
(* The scheduler does not see to it: full blocks are registered, and are   *)
(* resident sources, as soon as they are scheduled.                        *)
(***************************************************************************)
Fills(row) ==
  {row.blocks[BlockOf(p)] : p \in row.from + 1 .. row.to}
    \cup {row.blocks[c.target] : c \in row.copies}

SourcesAreOlder ==
  \A i, j \in DOMAIN batch : \A c \in batch[i].copies : \A e \in c.from :
    e.block \notin Fills(batch[j])

(* A step puts something only into what its rows fill.                     *)
LEMMA PutsFill ==
  ASSUME NEW bt \in Seq(Row), NEW rd, NEW b, NEW o, NEW x, Puts(StepOf(bt, rd), b, o, x)
  PROVE  \E i \in DOMAIN bt : b \in Fills(bt[i])
<1> DEFINE step == StepOf(bt, rd)
<1>1. /\ DOMAIN step = DOMAIN bt
      /\ \A i \in DOMAIN bt :
           /\ step[i].from = bt[i].from /\ step[i].to = bt[i].to
           /\ step[i].blocks = bt[i].blocks /\ step[i].copies = bt[i].copies
  BY RowFields
<1> HIDE DEF step
<1>2. PICK i \in DOMAIN bt, j \in Nat \ {0} :
        /\ bt[i].blocks[j] = b
        /\ \/ \E p \in bt[i].from + 1 .. bt[i].to : BlockOf(p) = j
           \/ \E c \in bt[i].copies : c.target = j
  BY <1>1 DEF Puts, step
<1>3. b \in Fills(bt[i])
  BY <1>2 DEF Fills
<1> QED BY <1>3

(* A plan copies from blocks whose hash is the one they were indexed for.  *)
LEMMA PlanIsResident ==
  ASSUME NEW r \in Request, NEW c \in Plan(r), NEW e \in c.from,
         sources \in [Request -> SUBSET Indexed]
  PROVE  e.block \in Block /\ e.hash \in Hash /\ hash[e.block] = e.hash
<1>1. PICK w : /\ c.from = {d \in sources[SourceOf[r]] : d.index \in w.sources}
               /\ \A d \in {d \in sources[SourceOf[r]] : d.index \in w.sources} : Resident(d)
  BY DEF Plan
<1>2. Resident(e)
  BY <1>1
<1>3. c \in Copy
  BY PlanTyped
<1>4. e \in Indexed
  BY <1>3 DEF Copy
<1> QED BY <1>2, <1>4 DEF Resident, Indexed

(* The prefix hit of a waiting request.                                    *)
LEMMA HitsHold ==
  ASSUME Types, Lengths, Contents, Claims, NEW r \in Request, NEW hits \in ComputedBlocks(r)
  PROVE  /\ hits \in Seq(Block)
         /\ \A j \in DOMAIN hits : hash[hits[j]] = Names(r, j) /\ Names(r, j) # NoHash
         /\ \A j \in DOMAIN hits : Belongs([table EXCEPT ![r] = hits], hits[j], Names(r, j))
         /\ \A p \in 1 .. HitLength(r) * BlockSize :
              /\ BlockOf(p) \in DOMAIN hits
              /\ Promised(Pipeline, kv, Depth, hits[BlockOf(p)], SlotOf(p), Names(r, BlockOf(p)))
<1> DEFINE k == HitLength(r)
           n == tokens[r] - 1
           from == k * BlockSize
<1>1. /\ n \in Int /\ n <= MaxTokens[r] /\ BlockSize \in Nat \ {0}
      /\ table \in [Request -> Seq(Block)]
  BY RequestAssumption, ConfigAssumption DEF Types, ControlTypes, Lengths
<1>2. k \in Nat /\ k \in 0 .. n \div BlockSize
  BY HitLengthType, HitLengthRange DEF Types
<1>3. \A b \in Block : hash[b] \in Stored
  BY DEF Contents
<1>4. hits \in [1 .. k -> Block] /\ \A j \in DOMAIN hits : hash[hits[j]] = Hashes[r][j]
  BY DEF ComputedBlocks
<1> HIDE DEF k, n, from
<1>5. hits \in Seq(Block) /\ DOMAIN hits = 1 .. k
  BY <1>2, <1>4
<1>6. \A j \in 1 .. k : j \in 1 .. n \div BlockSize
  <2>1. n \div BlockSize \in Int
    BY <1>1, FullBlocksHaveHashes
  <2> QED BY <1>2, <2>1
<1>7. ASSUME NEW j \in DOMAIN hits
      PROVE  hits[j] \in Block /\ hash[hits[j]] = Names(r, j) /\ Names(r, j) # NoHash
  <2>1. j \in 1 .. n \div BlockSize
    BY <1>5, <1>6
  <2>2. Hashes[r][j] \in Hash
    BY <1>1, <2>1, FullBlocksHaveHashes
  <2>3. Hashes[r][j] = Names(r, j)
    BY <1>1, <2>1, FullBlock
  <2> QED BY <1>4, <1>5, <2>2, <2>3, RequestAssumption
<1>8. ASSUME NEW j \in DOMAIN hits
      PROVE  Belongs([table EXCEPT ![r] = hits], hits[j], Names(r, j))
  <2> DEFINE shrunk == [table EXCEPT ![r] = hits]
  <2>1. shrunk[r] = hits /\ \A q \in Request : q # r => shrunk[q] = table[q]
    BY <1>1
  <2> HIDE DEF shrunk
  <2> SUFFICES ASSUME NEW s \in Request, NEW i \in DOMAIN shrunk[s], shrunk[s][i] = hits[j]
               PROVE  Names(r, j) = Names(s, i)
    BY DEF Belongs, shrunk
  <2>2. CASE s = r
    <3>1. i \in DOMAIN hits /\ hits[i] = hits[j]
      BY <2>1, <2>2
    <3> QED BY <1>7, <2>2, <3>1
  <2>3. CASE s # r
    <3>1. i \in DOMAIN table[s] /\ table[s][i] = hits[j]
      BY <2>1, <2>3
    <3>2. hits[j] \in Block /\ hash[hits[j]] = Names(r, j) /\ hash[hits[j]] # NoHash
      BY <1>7
    <3>3. Belongs(table, hits[j], hash[hits[j]])
      BY <3>2 DEF Claims, Owned
    <3> QED BY <3>1, <3>2, <3>3 DEF Belongs
  <2> QED BY <2>2, <2>3
<1>9. ASSUME NEW p \in 1 .. from
      PROVE  /\ BlockOf(p) \in DOMAIN hits
             /\ Promised(Pipeline, kv, Depth, hits[BlockOf(p)], SlotOf(p), Names(r, BlockOf(p)))
  <2>1. from \in Nat /\ p \in Nat \ {0} /\ p <= from
    BY <1>1, <1>2 DEF from
  <2>2. k \in 1 .. k
    <3>1. k # 0
      BY <1>1, <2>1 DEF from
    <3> QED BY <1>2, <3>1
  <2>3. BlockOf(from) = k
    <3>1. k \in 1 .. n \div BlockSize
      BY <1>6, <2>2
    <3> QED BY <1>1, <3>1, FullBlock DEF from
  <2>4. BlockOf(p) \in Nat \ {0} /\ BlockOf(p) <= k /\ SlotOf(p) \in Slot
    <3>1. from \in Int
      BY <2>1
    <3>2. BlockOf(p) <= BlockOf(from)
      BY <2>1, <3>1, BlockOfGrows
    <3> QED BY <2>1, <2>3, <3>2, Place
  <2>5. BlockOf(p) \in DOMAIN hits
    BY <1>2, <1>5, <2>4
  <2>6. Promised(Pipeline, kv, Depth, hits[BlockOf(p)], SlotOf(p), hash[hits[BlockOf(p)]])
    BY <1>7, <2>4, <2>5 DEF Claims, HashesHold
  <2> QED BY <1>7, <2>5, <2>6
<1> QED BY <1>5, <1>7, <1>8, <1>9 DEF from, k

(* An admission: a prefix hit, new blocks behind it, and copies into some  *)
(* of these from blocks that are there when the step runs.                 *)
LEMMA AdmitClaims ==
  ASSUME Types, Refs, Lengths, Lengths', Steps', Contents, Contents', Claims,
         SourcesAreOlder', AdmitWaiting
  PROVE  Claims'
<1> DEFINE r == Head(waiting)
           from == HitLength(r) * BlockSize
           to == ChunkEnd(r)
<1>1. /\ table \in [Request -> Seq(Block)] /\ computed \in [Request -> Int]
      /\ budget \in Int
  BY DEF Types, ControlTypes
<1>2. r \in Request
  BY Admitted DEF Types
<1>3. PICK hits \in ComputedBlocks(r) :
        \E new \in NewBlocks((FreeBlocks \ Pins(r)) \ ToSet(hits),
                             CeilDiv(to, BlockSize) - Len(hits)) :
          Admit(r, hits \o new, new)
  BY DEF AdmitWaiting
<1>4. PICK new \in NewBlocks((FreeBlocks \ Pins(r)) \ ToSet(hits),
                             CeilDiv(to, BlockSize) - Len(hits)) :
          Admit(r, hits \o new, new)
  BY <1>3
<1> DEFINE blocks == hits \o new
<1>5. PICK chosen \in SUBSET Plan(r) :
        /\ \A c \in chosen : c.target <= Len(blocks)
        /\ table' = [table EXCEPT ![r] = blocks]
        /\ hash' = HashAfter(r, blocks, new, to \div BlockSize)
        /\ batch' = Append(batch, NewRow(r, from, to, blocks, chosen))
        /\ reused' = [reused EXCEPT ![r] = {c.target : c \in chosen}]
  <2>1. PICK chosen \in IF Execute THEN SUBSET {c \in Plan(r) : c.target <= Len(blocks)}
                        ELSE {{}} :
          /\ table' = [table EXCEPT ![r] = blocks]
          /\ hash' = HashAfter(r, blocks, new, to \div BlockSize)
          /\ batch' = Append(batch, NewRow(r, from, to, blocks, chosen))
          /\ reused' = [reused EXCEPT ![r] = {c.target : c \in chosen}]
    BY <1>4 DEF Admit
  <2>2. chosen \in SUBSET Plan(r) /\ \A c \in chosen : c.target <= Len(blocks)
    BY <2>1
  <2> QED BY <2>1, <2>2
<1>6. /\ UNCHANGED <<inflight, kv>>
      /\ computed' = [computed EXCEPT ![r] = from]
      /\ status' = [status EXCEPT ![r] = "running"]
  BY DEF AdmitWaiting, worker
<1>7. budget > 0
  BY DEF AdmitWaiting, InWaitingLoop
<1>8. from \in Nat /\ to \in Nat /\ from <= to /\ to <= MaxTokens[r]
  <2>1. /\ from \in Nat /\ from < tokens[r] /\ to \in Nat /\ to <= tokens[r]
    BY <1>2, ChunkIsShort DEF Types, Lengths
  <2>2. tokens[r] \in Nat /\ tokens[r] <= MaxTokens[r] /\ MaxTokens[r] \in Nat
    BY <1>2, RequestAssumption DEF Types, ControlTypes, Lengths
  <2>3. to = from + Smaller(tokens[r] - from, budget)
    BY DEF ChunkEnd
  <2> HIDE DEF from, to, r
  <2>4. Smaller(tokens[r] - from, budget) > 0
    BY <1>1, <1>7, <2>1, <2>2 DEF Smaller
  <2>5. Smaller(tokens[r] - from, budget) \in Int
    BY <1>1, <2>1, <2>2 DEF Smaller
  <2> QED BY <2>1, <2>2, <2>3, <2>4, <2>5
<1>9. /\ hits \in Seq(Block)
      /\ \A j \in DOMAIN hits : hash[hits[j]] = Names(r, j) /\ Names(r, j) # NoHash
      /\ \A j \in DOMAIN hits : Belongs([table EXCEPT ![r] = hits], hits[j], Names(r, j))
      /\ \A p \in 1 .. from :
           /\ BlockOf(p) \in DOMAIN hits
           /\ Promised(Pipeline, kv, Depth, hits[BlockOf(p)], SlotOf(p), Names(r, BlockOf(p)))
  BY <1>2, <1>3, HitsHold
<1>10. chosen \in SUBSET Copy
  BY <1>2, <1>5, PlanTyped DEF Contents
<1>11. sources \in [Request -> SUBSET Indexed]
  BY DEF Contents
<1>12. status \in [Request -> {"none", "waiting", "preempted", "running", "finished"}]
       /\ reused \in [Request -> SUBSET Nat]
  BY DEF Types, ControlTypes, Contents
<1> HIDE DEF r, from, to
<1>13. /\ new \in Seq(Block) /\ IsInjective(new)
       /\ ToSet(new) \subseteq (FreeBlocks \ Pins(r)) \ ToSet(hits)
       /\ CeilDiv(to, BlockSize) - Len(hits) <= Len(new)
  <2> DEFINE m == CeilDiv(to, BlockSize) - Len(hits)
             free == (FreeBlocks \ Pins(r)) \ ToSet(hits)
  <2>1. m \in Int
    BY <1>8, <1>9, CeilDivType
  <2>2. free \subseteq Block /\ new \in NewBlocks(free, m)
    BY <1>4 DEF FreeBlocks
  <2>3. IsInjective(new)
    BY <2>2 DEF NewBlocks
  <2> HIDE DEF m, free
  <2>4. new \in Seq(Block) /\ ToSet(new) \subseteq free /\ m <= Len(new)
    BY <2>1, <2>2, NewBlocksType, NewBlocksLength
  <2> QED BY <2>3, <2>4 DEF m, free
<1>14. /\ blocks \in Seq(Block) /\ BlockOf(to) <= Len(blocks)
       /\ Len(blocks) \in Nat /\ DOMAIN blocks = 1 .. Len(blocks)
       /\ \A j \in DOMAIN hits : j \in DOMAIN blocks /\ blocks[j] = hits[j]
  <2>1. BlockOf(to) = CeilDiv(to, BlockSize) /\ CeilDiv(to, BlockSize) \in Int
    BY <1>8, CeilDivType DEF BlockOf
  <2> QED BY <1>9, <1>13, <2>1
<1>15. \A j \in DOMAIN blocks :
         /\ Belongs(table', blocks[j], Names(r, j))
         /\ blocks[j] \notin ToSet(new) /\ hash[blocks[j]] # NoHash
              => hash[blocks[j]] = Names(r, j)
  <2>1. \A b \in ToSet(new) : b \notin ToSet(hits)
    BY <1>13
  <2>2. \A b \in ToSet(new) : \A q \in Request : b \notin ToSet(table[q])
    BY <1>13, FreeIsUnheld
  <2>3. \A j \in DOMAIN hits :
          /\ Belongs([table EXCEPT ![r] = hits], hits[j], Names(r, j))
          /\ hash[hits[j]] # NoHash => hash[hits[j]] = Names(r, j)
    BY <1>9
  <2>4. table' = [table EXCEPT ![r] = hits \o new]
    BY <1>5
  <2>5. hits \in Seq(Block) /\ new \in Seq(Block) /\ IsInjective(new)
    BY <1>9, <1>13
  <2>6. \A j \in DOMAIN (hits \o new) :
          /\ Belongs(table', (hits \o new)[j], Names(r, j))
          /\ (hits \o new)[j] \notin ToSet(new) /\ hash[(hits \o new)[j]] # NoHash
               => hash[(hits \o new)[j]] = Names(r, j)
    BY <1>1, <1>2, <2>1, <2>2, <2>3, <2>4, <2>5, BlocksBelong
  <2> QED BY <2>6
<1>16. \A p \in 1 .. from :
         Promised(Pipeline, kv, Depth, blocks[BlockOf(p)], SlotOf(p), Names(r, BlockOf(p)))
  BY <1>9, <1>14
<1>17. \A t \in reused'[r] : t \in DOMAIN blocks /\
         \/ \E c \in chosen : c.target = t
         \/ \A o \in Slot : Promised(Pipeline, kv, Depth, blocks[t], o, Names(r, t))
  <2>1. reused'[r] = {c.target : c \in chosen}
    BY <1>2, <1>5, <1>12
  <2>2. \A c \in chosen : c.target \in Nat \ {0}
    BY <1>10 DEF Copy
  <2> QED BY <1>5, <1>14, <2>1, <2>2
<1>18. \A c \in chosen : \A e \in c.from : \A o \in Slot :
         Promised(Pipeline, kv, Depth - 1, e.block, o, e.hash)
  <2> SUFFICES ASSUME NEW c \in chosen, NEW e \in c.from, NEW o \in Slot
               PROVE  Promised(Pipeline, kv, Depth - 1, e.block, o, e.hash)
    OBVIOUS
  <2>1. e.block \in Block /\ hash[e.block] = e.hash /\ hash[e.block] # NoHash
    <3>1. c \in Plan(r)
      BY <1>5
    <3> QED BY <1>2, <1>11, <3>1, PlanIsResident, RequestAssumption
  <2>2. Promised(Pipeline, kv, Depth, e.block, o, e.hash)
    BY <2>1 DEF Claims, HashesHold
  <2>3. \A i \in DOMAIN batch : e.block \notin Fills(batch[i])
    <3> DEFINE row == NewRow(r, from, to, blocks, chosen)
               N == Len(batch) + 1
    <3>1. row.copies = chosen
      BY DEF NewRow
    <3>2. batch' = Append(batch, row) /\ batch \in Seq(Row)
      BY <1>5 DEF Contents
    <3> HIDE DEF row, blocks
    <3>3. /\ N \in DOMAIN batch' /\ batch'[N] = row
          /\ \A i \in DOMAIN batch : i \in DOMAIN batch' /\ batch'[i] = batch[i]
      BY <3>2
    <3> HIDE DEF N
    <3>4. \A i \in DOMAIN batch' : e.block \notin Fills(batch'[i])
      BY <3>1, <3>3 DEF SourcesAreOlder, Fills
    <3> QED BY <3>3, <3>4
  <2>4. \A x : ~ Puts(Building, e.block, o, x)
    BY <2>3, PutsFill DEF Building, Contents
  <2> DEFINE d == Len(inflight)
  <2>5. d \in Nat /\ Depth = d + 1 /\ Depth - 1 = d /\ Pipeline[Depth] = Building
    BY PipelineTypes DEF Depth
  <2> HIDE DEF d
  <2>6. Ends(Pipeline, d + 1, kv, e.block, o, e.hash)
    BY <2>2, <2>5 DEF Promised
  <2>7. \A x : ~ Puts(Pipeline[d + 1], e.block, o, x)
    BY <2>4, <2>5
  <2>8. Ends(Pipeline, d, kv, e.block, o, e.hash)
    BY <2>5, <2>6, <2>7, EndsBefore
  <2> QED BY <2>1, <2>5, <2>8 DEF Promised
<1>19. \A i \in DOMAIN batch : batch[i].req # r
  <2>1. NewRow(r, from, to, blocks, chosen).req = r
    BY DEF NewRow
  <2>2. DistinctRows(batch')
    BY DEF Steps
  <2> QED BY <1>5, <2>1, <2>2, RowIsFirst
<1>20. \A q \in Request :
         /\ q # r => reused'[q] = reused[q]
         /\ q # r /\ status'[q] = "running" => status[q] = "running"
  BY <1>2, <1>5, <1>6, <1>12
<1>21. /\ table' = [table EXCEPT ![r] = blocks]
       /\ batch' = Append(batch, NewRow(r, from, to, blocks, chosen))
       /\ hash' = HashAfter(r, blocks, new, to \div BlockSize)
       /\ computed' = [computed EXCEPT ![r] = from]
       /\ UNCHANGED <<inflight, kv>>
  BY <1>5, <1>6
<1>22. \A c \in chosen : c.target <= Len(blocks)
  BY <1>5
<1>23. blocks \in Seq(Block) /\ BlockOf(to) <= Len(blocks)
  BY <1>14
<1>24. table \in [Request -> Seq(Block)] /\ computed \in [Request -> Int]
  BY <1>1
<1>25. to \in Int /\ to <= to
  BY <1>8
<1> HIDE DEF blocks
<1> QED BY <1>2, <1>8, <1>10, <1>15, <1>16, <1>17, <1>18, <1>19, <1>20, <1>21, <1>22,
           <1>23, <1>24, <1>25, RowScheduled

(* A token appended: the blocks it completes are registered, or all of the *)
(* request's blocks given up.                                              *)
LEMMA TokenClaims ==
  ASSUME Types, Scheduled, NoDebt', Lengths, Contents, Contents', Claims, AppendToken
  PROVE  Claims'
<1> DEFINE r == NextRow.req
           n == computed[r] - placeholders'[r]
<1>1. /\ phase = "update" /\ RowDone /\ UNCHANGED <<batch, inflight, kv, computed>>
      /\ status[r] \in {"waiting", "preempted", "running"}
      /\ hash' = IF Async /\ status[r] = "running"
                 THEN HashAfter(r, table[r], << >>, n \div BlockSize) ELSE hash
      /\ \/ UNCHANGED <<table, reused, status>>
         \/ /\ FreeRequestBlocks(r)
            /\ status' = [status EXCEPT ![r] = "finished"]
  BY DEF AppendToken, YieldsToken, Stop, worker
<1>2. r \in Request
  BY <1>1, RowTaken DEF Types
<1>3. batch = << >>
  BY <1>1 DEF Scheduled
<1>4. /\ table \in [Request -> Seq(Block)] /\ computed \in [Request -> Int]
      /\ status \in [Request -> {"none", "waiting", "preempted", "running", "finished"}]
      /\ reused \in [Request -> SUBSET Nat]
  BY DEF Types, ControlTypes, Contents
<1>5. /\ tokens[r] \in Nat /\ placeholders[r] \in Int /\ computed[r] \in Int
      /\ MaxTokens[r] \in Nat /\ tokens[r] < MaxTokens[r]
      /\ computed[r] <= tokens[r] + placeholders[r]
  BY <1>1, <1>2, RequestAssumption DEF Types, ControlTypes, Lengths
<1>6. /\ placeholders'[r] \in {placeholders[r], placeholders[r] - 1} /\ placeholders'[r] >= 0
  <2>1. placeholders' = [placeholders EXCEPT ![r] = IF Async THEN @ - 1 ELSE @]
    BY DEF AppendToken
  <2> HIDE DEF r
  <2> QED BY <1>2, <2>1 DEF NoDebt, Types, ControlTypes
<1>7. n \in Int /\ n <= MaxTokens[r] /\ n <= computed[r]
  BY <1>5, <1>6
<1> HIDE DEF r, n
<1>8. ASSUME NEW b \in Block, hash'[b] # NoHash
      PROVE  /\ \A o \in Slot : Promised(Pipeline, kv, Depth, b, o, hash'[b])
             /\ Belongs(table, b, hash'[b])
  <2>1. CASE hash'[b] = hash[b]
    BY <1>8, <2>1 DEF Claims, HashesHold, Owned
  <2>2. CASE hash'[b] # hash[b]
    <3> DEFINE full == n \div BlockSize
    <3>1. status[r] = "running" /\ hash' = HashAfter(r, table[r], << >>, full)
      BY <1>1, <2>2
    <3> HIDE DEF full
    <3>2. b \notin ToSet(<< >>)
      BY DEF ToSet
    <3>3. PICK i \in 1 .. full : table[r][i] = b /\ hash'[b] = Hashes[r][i]
      BY <2>2, <3>1, <3>2, HashAfterIs
    <3>4. /\ i \in Nat \ {0} /\ i * BlockSize \in Nat \ {0} /\ i * BlockSize <= n
          /\ BlockOf(i * BlockSize) = i
          /\ Hashes[r][i] = Names(r, i)
          /\ \A o \in Slot : /\ (i - 1) * BlockSize + o \in 1 .. n
                             /\ BlockOf((i - 1) * BlockSize + o) = i
                             /\ SlotOf((i - 1) * BlockSize + o) = o
      BY <1>2, <1>7, <3>3, FullBlock DEF full
    <3>5. i \in DOMAIN table[r]
      <4> DEFINE e == i * BlockSize
      <4>1. e \in Nat \ {0} /\ e <= computed[r] /\ BlockOf(e) = i
        BY <1>5, <1>7, <3>4
      <4> HIDE DEF e
      <4>2. i <= BlockOf(computed[r]) /\ BlockOf(computed[r]) \in Int
        BY <1>5, <4>1, BlockOfGrows
      <4>3. BlockOf(computed[r]) <= Len(table[r])
        BY <1>2, <3>1 DEF Claims, Filled
      <4>4. Len(table[r]) \in Nat /\ DOMAIN table[r] = 1 .. Len(table[r])
        BY <1>2, <1>4
      <4> QED BY <3>4, <4>2, <4>3, <4>4
    <3>6. Belongs(table, b, hash'[b])
      BY <1>2, <3>3, <3>4, <3>5 DEF Claims, Owned
    <3>7. ASSUME NEW o \in Slot PROVE Promised(Pipeline, kv, Depth, b, o, hash'[b])
      <4> DEFINE p == (i - 1) * BlockSize + o
      <4>1. p \in 1 .. n /\ BlockOf(p) = i /\ SlotOf(p) = o
        BY <3>4
      <4> HIDE DEF p
      <4>2. p \in 1 .. computed[r]
        BY <1>5, <1>7, <4>1
      <4>3. Promised(Pipeline, kv, Depth, table[r][BlockOf(p)], SlotOf(p), Names(r, BlockOf(p)))
        BY <1>2, <3>5, <4>1, <4>2 DEF Claims, TablesHold
      <4> QED BY <3>3, <3>4, <4>1, <4>3
    <3> QED BY <3>6, <3>7
  <2> QED BY <2>1, <2>2
<1>9. ASSUME NEW q \in Request
      PROVE  /\ table'[q] \in {table[q], << >>} /\ computed'[q] \in {computed[q], 0}
             /\ \/ reused'[q] = {}
                \/ reused'[q] = reused[q] /\ table'[q] = table[q]
             /\ status'[q] = "running" => status[q] = "running" /\ table'[q] = table[q]
  <2>1. CASE UNCHANGED <<table, reused, status>>
    BY <1>1, <2>1
  <2>2. CASE FreeRequestBlocks(r) /\ status' = [status EXCEPT ![r] = "finished"]
    <3>1. table' = [table EXCEPT ![r] = << >>] /\ reused' = [reused EXCEPT ![r] = {}]
      BY <2>2 DEF FreeRequestBlocks
    <3>2. CASE q = r
      BY <1>1, <1>2, <1>4, <2>2, <3>1, <3>2
    <3>3. CASE q # r
      BY <1>1, <1>2, <1>4, <2>2, <3>1, <3>3
    <3> QED BY <3>2, <3>3
  <2> QED BY <1>1, <2>1, <2>2
<1>10. \A i \in DOMAIN batch : /\ table'[batch[i].req] = table[batch[i].req]
                               /\ reused'[batch[i].req] = reused[batch[i].req]
  BY <1>3
<1>11. UNCHANGED <<inflight, batch, kv>>
  BY <1>1
<1> QED BY <1>4, <1>8, <1>9, <1>10, <1>11, ClaimsKept

(* A request gives up its blocks.                                          *)
LEMMA FreeClaims ==
  ASSUME Types, Contents, Contents', Claims, NEW r \in Request, FreeRequestBlocks(r),
         \A q \in Request :
           /\ computed'[q] \in {computed[q], 0}
           /\ status'[q] = "running" => q # r /\ status[q] = "running",
         \A i \in DOMAIN batch : batch[i].req # r,
         UNCHANGED <<inflight, batch, kv, hash>>
  PROVE  Claims'
<1>1. /\ table \in [Request -> Seq(Block)] /\ computed \in [Request -> Int]
      /\ reused \in [Request -> SUBSET Nat] /\ batch \in Seq(Row)
  BY DEF Types, ControlTypes, Contents
<1>2. table' = [table EXCEPT ![r] = << >>] /\ reused' = [reused EXCEPT ![r] = {}]
  BY DEF FreeRequestBlocks
<1>3. \A q \in Request : /\ q = r => table'[q] = << >> /\ reused'[q] = {}
                         /\ q # r => table'[q] = table[q] /\ reused'[q] = reused[q]
  BY <1>1, <1>2
<1>4. \A i \in DOMAIN batch : /\ table'[batch[i].req] = table[batch[i].req]
                              /\ reused'[batch[i].req] = reused[batch[i].req]
  <2>1. \A i \in DOMAIN batch : batch[i].req \in Request
    BY <1>1, RowFields
  <2> QED BY <1>3, <2>1
<1>5. \A q \in Request :
        /\ table'[q] \in {table[q], << >>} /\ computed'[q] \in {computed[q], 0}
        /\ \/ reused'[q] = {}
           \/ reused'[q] = reused[q] /\ table'[q] = table[q]
        /\ status'[q] = "running" => status[q] = "running" /\ table'[q] = table[q]
  BY <1>3
<1>6. \A b \in Block : hash'[b] # NoHash =>
        /\ \A o \in Slot : Promised(Pipeline, kv, Depth, b, o, hash'[b])
        /\ Belongs(table, b, hash'[b])
  BY DEF Claims, HashesHold, Owned
<1>7. UNCHANGED <<inflight, batch, kv>>
  OBVIOUS
<1> QED BY <1>1, <1>4, <1>5, <1>6, <1>7, ClaimsKept

(* Nothing happens to blocks, but hashes may be forgotten.                 *)
LEMMA SameClaims ==
  ASSUME Types, Contents, Contents', Claims,
         UNCHANGED <<inflight, batch, kv, table, reused, computed>>,
         \A q \in Request : status'[q] = "running" => status[q] = "running",
         \A b \in Block : hash'[b] \in {hash[b], NoHash}
  PROVE  Claims'
<1>1. table \in [Request -> Seq(Block)] /\ computed \in [Request -> Int]
  BY DEF Types, ControlTypes
<1>2. \A b \in Block : hash'[b] # NoHash =>
        /\ \A o \in Slot : Promised(Pipeline, kv, Depth, b, o, hash'[b])
        /\ Belongs(table, b, hash'[b])
  BY DEF Claims, HashesHold, Owned
<1>3. /\ UNCHANGED <<inflight, batch, kv>>
      /\ \A i \in DOMAIN batch : /\ table'[batch[i].req] = table[batch[i].req]
                                 /\ reused'[batch[i].req] = reused[batch[i].req]
      /\ \A r \in Request :
           /\ table'[r] \in {table[r], << >>} /\ computed'[r] \in {computed[r], 0}
           /\ \/ reused'[r] = {}
              \/ reused'[r] = reused[r] /\ table'[r] = table[r]
           /\ status'[r] = "running" => status[r] = "running" /\ table'[r] = table[r]
  OBVIOUS
<1> QED BY <1>1, <1>2, <1>3, ClaimsKept

(* The last running request is preempted.                                  *)
LEMMA PreemptClaims ==
  ASSUME Types, Queues', Scheduled', Contents, Contents', Claims,
         running # << >>, PreemptLast, UNCHANGED <<inflight, batch, kv, hash>>
  PROVE  Claims'
<1> DEFINE r == Last(running)
<1>1. r \in Request /\ FreeRequestBlocks(r)
  BY PreemptTypes DEF PreemptLast, Types
<1>2. /\ status' = [status EXCEPT ![r] = "preempted"]
      /\ computed' = [computed EXCEPT ![r] = 0]
  BY DEF PreemptLast
<1>3. /\ status \in [Request -> {"none", "waiting", "preempted", "running", "finished"}]
      /\ computed \in [Request -> Int]
  BY DEF Types, ControlTypes
<1> HIDE DEF r
<1>4. \A q \in Request :
        /\ computed'[q] \in {computed[q], 0}
        /\ status'[q] = "running" => q # r /\ status[q] = "running"
  BY <1>1, <1>2, <1>3
<1>5. \A i \in DOMAIN batch : batch[i].req # r
  <2>1. \A i \in DOMAIN batch' : batch'[i].req \in ToSet(running')
    BY DEF Scheduled, RowIsHeld
  <2>2. r \notin ToSet(running')
    BY <1>1, <1>4 DEF Queues
  <2> QED BY <2>1, <2>2
<1> QED BY <1>1, <1>4, <1>5, FreeClaims

(* Every step keeps the claims: the inductive step of the invariant.       *)
LEMMA NextClaims ==
  ASSUME Types, Queues, Queues', Refs, Scheduled, Scheduled', Steps', NoDebt',
         Lengths, Lengths', Contents, Contents', Claims, SourcesAreOlder', [Next]_vars
  PROVE  Claims'
<1> USE DEF worker, call, pool, request
<1>1. CASE UNCHANGED vars \/ Idle
  BY <1>1, SameClaims DEF vars, Idle
<1>2. ASSUME NEW r \in Request, Abort(r) PROVE Claims'
  <2>1. /\ FreeRequestBlocks(r) /\ phase = "idle"
        /\ status' = [status EXCEPT ![r] = "finished"]
        /\ UNCHANGED <<inflight, batch, kv, hash, computed>>
    BY <1>2 DEF Abort
  <2>2. batch = << >>
    BY <2>1 DEF Scheduled
  <2>3. \A q \in Request :
          /\ computed'[q] \in {computed[q], 0}
          /\ status'[q] = "running" => q # r /\ status[q] = "running"
    BY <2>1 DEF Types, ControlTypes
  <2> QED BY <2>1, <2>2, <2>3, FreeClaims
<1>3. CASE ResetPreempt \/ PreemptForSlots
  <2>1. running # << >> /\ PreemptLast /\ UNCHANGED <<inflight, batch, kv, hash>>
    BY <1>3, CandidateType DEF ResetPreempt, PreemptForSlots, Types
  <2> QED BY <2>1, PreemptClaims
<1>4. CASE ResetPrefixCache \/ ResetEnd
  <2>1. /\ UNCHANGED <<inflight, batch, kv, table, reused, computed, status>>
        /\ ClearCache \/ hash' = hash
    BY <1>4 DEF ResetPrefixCache, ResetEnd
  <2>2. \A b \in Block : hash'[b] \in {hash[b], NoHash}
    BY <2>1 DEF ClearCache
  <2> QED BY <2>1, <2>2, SameClaims
<1>5. CASE ScheduleRunning
  BY <1>5, ScheduleClaims
<1>6. CASE AdmitWaiting
  BY <1>6, AdmitClaims
<1>7. CASE Launch
  BY <1>7, LaunchClaims
<1>8. CASE TakeResults
  <2>1. /\ inflight # << >> /\ inflight' = Tail(inflight) /\ kv' = AfterStep(Head(inflight))
        /\ UNCHANGED <<batch, reused, table, hash, computed, status>>
    BY <1>8 DEF TakeResults
  <2> QED BY <2>1, StepRuns
<1>9. CASE AppendToken
  BY <1>9, TokenClaims
<1>10. ASSUME NEW r \in Request, AddRequest(r) PROVE Claims'
  <2>1. /\ UNCHANGED <<inflight, batch, kv, table, reused, computed, hash>>
        /\ status' = [status EXCEPT ![r] = "waiting"]
    BY <1>10 DEF AddRequest
  <2>2. \A q \in Request : status'[q] = "running" => status[q] = "running"
    BY <2>1 DEF Types, ControlTypes
  <2> QED BY <2>1, <2>2, SameClaims
<1>11. CASE BeginSchedule
  <2>1. /\ UNCHANGED <<inflight, kv, table, reused, computed, status, hash>>
        /\ phase = "idle" /\ batch' = << >>
    BY <1>11 DEF BeginSchedule, BetweenSteps
  <2>2. batch = << >>
    BY <2>1 DEF Scheduled
  <2> QED BY <2>1, <2>2, SameClaims
<1>12. CASE \/ ForceReset \/ SkipRunning \/ EndRunning \/ RefuseWaiting \/ EndWaiting
            \/ IgnoreRow \/ DiscardRow
  <2>1. UNCHANGED <<inflight, batch, kv, table, reused, computed, status, hash>>
    BY <1>12 DEF ForceReset, SkipRunning, EndRunning, RefuseWaiting, EndWaiting, IgnoreRow,
                 DiscardRow
  <2> QED BY <2>1, SameClaims
<1> QED
  BY <1>1, <1>2, <1>3, <1>4, <1>5, <1>6, <1>7, <1>8, <1>9, <1>10, <1>11, <1>12
     DEF Next, Client, Engine

(* Lengths, contents and claims of a run.                                  *)
LEMMA ContentsInvariant ==
  ASSUME Async => MaxConcurrent <= 2
  PROVE  Spec => [](NoDebt /\ Lengths /\ Contents)
<1>1. Types /\ Queues /\ Scheduled /\ NoDebt /\ NoDebt' /\ Lengths /\ [Next]_vars => Lengths'
  BY NextLengths
<1>2. Types /\ Lengths /\ Lengths' /\ Contents /\ [Next]_vars => Contents'
  BY NextContents
<1>3. Spec => []NoDebt
  BY NoDebtInvariant
<1> QED
  BY <1>1, <1>2, <1>3, InitContents, TypesInvariant, QueuesInvariant, ScheduledInvariant,
     PTL DEF Spec

(* At the start nothing is claimed.                                        *)
LEMMA InitClaims == Init => Claims
<1> SUFFICES ASSUME Init PROVE Claims
  OBVIOUS
<1>1. /\ inflight = << >> /\ batch = << >>
      /\ \A r \in Request : /\ table[r] = << >> /\ computed[r] = 0 /\ reused[r] = {}
                            /\ status[r] = "none"
      /\ \A b \in Block : hash[b] = NoHash
  BY DEF Init
<1>2. DOMAIN batch = {} /\ DOMAIN inflight = {} /\ \A r \in Request : DOMAIN table[r] = {}
  BY <1>1
<1>3. StepsHold
  BY <1>2 DEF StepsHold, RowsHold
<1>4. TablesHold
  BY <1>2 DEF TablesHold
<1>5. HashesHold /\ ReuseHolds
  BY <1>1 DEF HashesHold, ReuseHolds
<1>6. Owned
  BY <1>1, <1>2 DEF Owned
<1>7. Filled
  BY <1>1 DEF Filled
<1>8. RowsFit(batch, table)
  BY <1>2 DEF RowsFit
<1> QED BY <1>3, <1>4, <1>5, <1>6, <1>7, <1>8 DEF Claims

(* Taking results is the only step that takes a step off the batch queue,  *)
(* and what the claims say of the rows of that step comes true.            *)
LEMMA PrefixStep ==
  ASSUME Contents, Contents', Claims, [Next]_vars, inflight # << >>, inflight' = Tail(inflight)
  PROVE  \A i \in DOMAIN Head(inflight) : HoldsPrefix(Head(inflight)[i], kv')
<1>1. Len(inflight) \in Nat \ {0} /\ Len(inflight') = Len(inflight) - 1
  BY DEF Contents
<1>2. CASE TakeResults
  <2>1. /\ kv' = AfterStep(Head(inflight))
        /\ UNCHANGED <<batch, reused, table, hash, computed, status>>
    BY <1>2 DEF TakeResults, request
  <2> QED BY <2>1, StepRuns
<1>3. CASE Launch
  <2>1. PICK step : inflight' = Append(inflight, step)
    BY <1>3 DEF Launch
  <2>2. Len(inflight') = Len(inflight) + 1
    <3> DEFINE more == inflight'
    <3>1. more \in Seq(Seq(Row)) /\ inflight \in Seq(Seq(Row)) /\ more = Append(inflight, step)
      BY <2>1 DEF Contents
    <3> HIDE DEF more
    <3>2. Len(more) = Len(inflight) + 1
      BY <3>1
    <3> QED BY <3>2 DEF more
  <2> QED BY <1>1, <2>2
<1>4. CASE inflight' = inflight
  BY <1>1, <1>4
<1>5. TakeResults \/ Launch \/ inflight' = inflight
  BY DEF Next, Client, Engine, AddRequest, Abort, ResetPrefixCache, ForceReset, ResetPreempt,
         ResetEnd, BeginSchedule, SkipRunning, ScheduleRunning, PreemptForSlots, EndRunning,
         AdmitWaiting, RefuseWaiting, EndWaiting, IgnoreRow, DiscardRow, AppendToken,
         Idle, vars, worker
<1> QED BY <1>2, <1>3, <1>4, <1>5

(* After every step the blocks of its requests hold their own tokens' KV,  *)
(* through prefix hits on blocks registered before they were computed,     *)
(* evictions, preemptions and late writes, steps that overlap, copies and  *)
(* positions that are not computed again: PrefixesAreComputed holds but    *)
(* for copies from a block that the same step fills.                       *)
THEOREM PrefixesAreComputedHolds ==
  ASSUME Async => MaxConcurrent <= 2
  PROVE  Spec /\ []SourcesAreOlder => PrefixesAreComputed
<1>1. Types /\ Queues /\ Queues' /\ Refs /\ Scheduled /\ Scheduled' /\ Steps' /\ NoDebt'
        /\ Lengths /\ Lengths' /\ Contents /\ Contents' /\ Claims /\ SourcesAreOlder'
        /\ [Next]_vars => Claims'
  BY NextClaims
<1>2. Contents /\ Contents' /\ Claims /\ [Next]_vars =>
        [inflight # << >> /\ inflight' = Tail(inflight) =>
           \A i \in DOMAIN Head(inflight) : HoldsPrefix(Head(inflight)[i], kv')]_vars
  BY PrefixStep
<1>3. Spec => [](NoDebt /\ Lengths /\ Contents)
  BY ContentsInvariant
<1> QED
  BY <1>1, <1>2, <1>3, InitClaims, TypesInvariant, QueuesInvariant, RefsInvariant,
     ScheduledInvariant, StepsInvariant, PTL DEF Spec, PrefixesAreComputed

(* No row copies when partial reuse is not executed.                       *)
LEMMA NothingCopied ==
  ASSUME ~ Execute
  PROVE  Types /\ (\A i \in DOMAIN batch : batch[i].copies = {}) /\ [Next]_vars
           => (\A i \in DOMAIN batch : batch[i].copies = {})'
<1> SUFFICES ASSUME Types, \A i \in DOMAIN batch : batch[i].copies = {}, [Next]_vars
             PROVE  \A i \in DOMAIN batch' : batch'[i].copies = {}
  OBVIOUS
<1>1. CASE ScheduleRunning \/ AdmitWaiting
  <2>1. PICK r, from, to, blocks : batch' = Append(batch, NewRow(r, from, to, blocks, {}))
    <3>1. CASE ScheduleRunning
      BY <3>1 DEF ScheduleRunning
    <3>2. CASE AdmitWaiting
      BY <3>2 DEF AdmitWaiting, Admit
    <3> QED BY <1>1, <3>1, <3>2
  <2> DEFINE row == NewRow(r, from, to, blocks, {})
  <2>2. row.copies = {}
    BY DEF NewRow
  <2>3. PICK A : batch \in Seq(AnyRow(A))
    BY DEF Types, RowsNameRequests
  <2> DEFINE S == AnyRow(A) \cup {row}
  <2>4. batch \in Seq(S) /\ row \in S /\ batch' = Append(batch, row)
    BY <2>1, <2>3
  <2> HIDE DEF S, row
  <2>5. \A i \in DOMAIN batch' : (i \in DOMAIN batch /\ batch'[i] = batch[i]) \/ batch'[i] = row
    BY <2>4, AppendProperties, LenProperties
  <2> QED BY <2>2, <2>5
<1>2. CASE batch' = batch \/ batch' = << >>
  BY <1>2
<1>3. ScheduleRunning \/ AdmitWaiting \/ batch' = batch \/ batch' = << >>
  BY DEF Next, Client, Engine, AddRequest, Abort, ResetPrefixCache, ForceReset, ResetPreempt,
         ResetEnd, BeginSchedule, SkipRunning, PreemptForSlots, EndRunning, RefuseWaiting,
         EndWaiting, Launch, TakeResults, IgnoreRow, DiscardRow, AppendToken, Idle, vars, call
<1> QED BY <1>1, <1>2, <1>3

(* Without execution of partial reuse there are no copies, and every step  *)
(* leaves the prefixes of its requests computed.                           *)
THEOREM PrefixesAreComputedWithoutReuse ==
  ASSUME Async => MaxConcurrent <= 2, ~ Execute
  PROVE  Spec => PrefixesAreComputed
<1> DEFINE NoCopies == \A i \in DOMAIN batch : batch[i].copies = {}
<1>1. Init => NoCopies
  BY DEF Init
<1>2. Types /\ NoCopies /\ [Next]_vars => NoCopies'
  BY NothingCopied
<1>3. NoCopies => SourcesAreOlder
  BY DEF SourcesAreOlder
<1>4. Spec /\ []SourcesAreOlder => PrefixesAreComputed
  BY PrefixesAreComputedHolds
<1> HIDE DEF NoCopies
<1> QED BY <1>1, <1>2, <1>3, <1>4, TypesInvariant, PTL DEF Spec
=============================================================================
