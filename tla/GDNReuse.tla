------------------------------ MODULE GDNReuse ------------------------------
(* Reuse of block operators by the recurrent (GDN) layers: the scheduler's *)
(* index of finished prompts and the plan it makes for a new one, the       *)
(* worker's check that every layer holds the operators of the plan, and the *)
(* forward pass, layer by layer, which replaces whole blocks of the prompt  *)
(* by their operators and then stores the operators of the blocks it ran.   *)
(* Scheduler and worker are two processes: requests are aborted and added   *)
(* while a batch runs.                                                      *)
EXTENDS Integers, FiniteSets, OperatorSidecar

CONSTANTS
  Request,
  NoSource,
  Blocks,           \* what each full block of a request's prompt says
  TailTokens,            \* the prompt tokens behind the last full block
  Salt,             \* cache salt and LoRA adapter of a request
  SourceOf,         \* the finished request a request names, or NoSource
  BlockSize,        \* gdn_delta_block_size, and the native block size
  MaxSources,       \* max_source_requests
  Layers,           \* number of GDN layers
  Budget,           \* max_num_batched_tokens
  Active,           \* gdn_delta_execution_mode is "active", not "shadow"
  MaxPreemptions, MaxResets   \* bounds of the model

VARIABLES
  status, waiting, running, computed,   \* scheduler: the requests
  index,      \* _sources, the least recently used first
  plan,       \* candidates of the plan a request carries
  cached,     \* contexts whose native blocks were computed since the reset
  phase,      \* where the scheduler and the worker are in the step
  batch, new, \* rows of the step, and the requests the worker first sees in it
  worker,     \* candidates of the requests the preflight found eligible
  sidecar, layer, lookups, stores,      \* worker: the layers' operators
  applied,    \* what each layer applied in this step
  epoch, preemptions                    \* weight updates and preemptions so far

scheduler == <<status, waiting, running, computed, index, plan, cached, epoch, preemptions>>
forward   == <<worker, sidecar, layer, lookups, stores, applied>>
vars      == <<scheduler, phase, batch, new, forward>>

PromptLen(r) == Len(Blocks[r]) * BlockSize + TailTokens[r]

(* The chained hash of a block names everything the block follows.          *)
ContextHash(r, i) == <<Salt[r], SubSeq(Blocks[r], 1, i)>>
ContextKeys == UNION {{ContextHash(r, i) : i \in DOMAIN Blocks[r]} : r \in Request}

(* What a block may say; only equality tells two of them apart.             *)
BlockText == UNION {ToSet(Blocks[r]) : r \in Request}

ASSUME ContextAssumption ==
  /\ Key = ContextKeys /\ Layers \in Nat \ {0}
  /\ IsFiniteSet(Request) /\ SourceOf \in [Request -> Request \cup {NoSource}]
  /\ Blocks \in [Request -> Seq(BlockText)] /\ TailTokens \in [Request -> Nat]
  /\ BlockSize \in Nat \ {0} /\ Budget \in Nat /\ MaxSources \in Nat

MaxBlocks == CHOOSE n \in {Len(Blocks[r]) : r \in Request} :
               \A r \in Request : Len(Blocks[r]) <= n
Candidate == [block : 1 .. MaxBlocks, key : Key]

(* One operator of one layer, in the order the worker goes through them.    *)
Task == [row : 1 .. Cardinality(Request), layer : 1 .. Layers,
         block : 1 .. MaxBlocks, key : Key]
Before(t, u) ==
  \/ t.row < u.row
  \/ t.row = u.row /\ t.layer < u.layer
  \/ t.row = u.row /\ t.layer = u.layer /\ t.block <= u.block

(* Faulty: in any order.                                                    *)
FaultyFirst(tasks, t) == t \in tasks
First(tasks, t) == t \in tasks /\ \A u \in tasks : Before(t, u)

Init ==
  /\ status = [r \in Request |-> "new"]
  /\ waiting = << >> /\ running = << >>
  /\ computed = [r \in Request |-> 0]
  /\ index = << >> /\ cached = {}
  /\ plan = [r \in Request |-> {}] /\ worker = plan
  /\ phase = "idle" /\ batch = << >> /\ new = << >>
  /\ sidecar = [l \in 1 .. Layers |-> EmptySidecar]
  /\ layer = 1 /\ lookups = {} /\ stores = {}
  /\ applied = [l \in 1 .. Layers |-> {}]
  /\ epoch = 0 /\ preemptions = 0

-----------------------------------------------------------------------------
(* The scheduler: index() of a request that ended, locate() for one that    *)
(* asks for its first blocks.                                               *)

(* Faulty: the index grows past its bound.                                  *)
FaultyIndexSource(r) == index' = Append(RemoveFirst(index, r), r)

IndexSource(r) ==
  LET all == Append(RemoveFirst(index, r), r)
  IN  index' = IF Len(all) > MaxSources THEN Tail(all) ELSE all

(* Faulty: the block at the same place, whatever it says.                   *)
FaultyNearestSource(s, r, i) == {i} \cap DOMAIN Blocks[s]

(* The nearest of the equal blocks the source's sidecar tail still holds,   *)
(* the earlier one when two are as near.                                    *)
Distance(i, j) == IF i < j THEN j - i ELSE i - j
NearestSource(s, r, i) ==
  {j \in DOMAIN Blocks[s] :
     LET same == {m \in DOMAIN Blocks[s] :
                    m > Len(Blocks[s]) - Capacity /\ Blocks[s][m] = Blocks[r][i]}
     IN  /\ j \in same
         /\ \A m \in same : \/ Distance(j, i) < Distance(m, i)
                            \/ Distance(j, i) = Distance(m, i) /\ j <= m}

Located(r, native) ==
  {c \in Candidate :
     /\ SourceOf[r] \in ToSet(index) /\ Salt[SourceOf[r]] = Salt[r]
     /\ c.block \in DOMAIN Blocks[r] /\ (c.block - 1) * BlockSize >= native
     /\ \E j \in NearestSource(SourceOf[r], r, c.block) :
          c.key = ContextHash(SourceOf[r], j)}

(* get() makes the source the youngest of the index, refused or admitted.   *)
Locate(r, native) ==
  /\ plan' = [plan EXCEPT ![r] = Located(r, native)]
  /\ index' = IF SourceOf[r] \in ToSet(index)
              THEN Append(RemoveFirst(index, SourceOf[r]), SourceOf[r]) ELSE index

NativeHits(r) ==
  {n \in 0 .. (PromptLen(r) - 1) \div BlockSize :
     \A i \in 1 .. n : ContextHash(r, i) \in cached}

(* The scheduler does one step without looking at its other calls.          *)
Scheduling == {"admit", "preempted"}

Add(r) ==
  /\ status[r] = "new" /\ phase \notin Scheduling \cup {"failed"}
  /\ status' = [status EXCEPT ![r] = "waiting"]
  /\ waiting' = Append(waiting, r)
  /\ UNCHANGED <<running, computed, index, plan, cached, epoch, preemptions,
                 phase, batch, new, forward>>

(* An abort and a normal end both free the request, which indexes it.       *)
End(r) ==
  /\ status[r] \in {"waiting", "running"} /\ phase \notin Scheduling \cup {"failed"}
  /\ status' = [status EXCEPT ![r] = "done"]
  /\ waiting' = RemoveFirst(waiting, r)
  /\ running' = RemoveFirst(running, r)
  /\ IndexSource(r)
  /\ UNCHANGED <<computed, plan, cached, epoch, preemptions, phase, batch, new, forward>>

(* The weights change and the prefix cache is reset: no block may be in     *)
(* use.  The index is cleared, the sidecars are not.                        *)
Reset ==
  /\ phase = "idle" /\ running = << >> /\ epoch < MaxResets
  /\ epoch' = epoch + 1 /\ index' = << >> /\ cached' = {}
  /\ UNCHANGED <<status, waiting, running, computed, plan, preemptions,
                 phase, batch, new, forward>>

Row(r, start, room) ==
  LET left == PromptLen(r) - start
      want == IF left > 0 THEN left ELSE 1
  IN  [req |-> r, start |-> start, count |-> IF want < room THEN want ELSE room]

SumOf(rows) == FoldLeft(LAMBDA n, row : n + row.count, 0, rows)

Rows(requests) ==
  FoldLeft(LAMBDA rows, r :
             IF SumOf(rows) = Budget THEN rows
             ELSE Append(rows, Row(r, computed[r], Budget - SumOf(rows))),
           << >>, requests)

(* Running requests come first; one whose prompt is done decodes a token.   *)
(* When one finds no block for its tokens the youngest is preempted, and    *)
(* then no waiting request is asked in this step.                           *)
ScheduleRunning ==
  /\ phase = "idle" /\ running \o waiting # << >>
  /\ phase' = "admit" /\ batch' = Rows(running) /\ new' = << >>
  /\ UNCHANGED <<scheduler, forward>>

SchedulePreempting ==
  /\ phase = "idle" /\ running # << >> /\ preemptions < MaxPreemptions
  /\ preemptions' = preemptions + 1
  /\ LET r == Last(running)
     IN  /\ status' = [status EXCEPT ![r] = "waiting"]
         /\ computed' = [computed EXCEPT ![r] = 0]
         /\ waiting' = <<r>> \o waiting
  /\ running' = Front(running)
  /\ phase' = "preempted" /\ batch' = Rows(Front(running)) /\ new' = << >>
  /\ UNCHANGED <<index, plan, cached, epoch, forward>>

Admit ==
  /\ phase = "admit" /\ waiting # << >> /\ SumOf(batch) < Budget
  /\ LET r == Head(waiting)
     IN  \E n \in NativeHits(r) :
           /\ Locate(r, n * BlockSize)
           /\ batch' = Append(batch, Row(r, n * BlockSize, Budget - SumOf(batch)))
           /\ new' = Append(new, r)
           /\ status' = [status EXCEPT ![r] = "running"]
           /\ running' = Append(running, r) /\ waiting' = Tail(waiting)
           /\ computed' = [computed EXCEPT ![r] = n * BlockSize]
  /\ UNCHANGED <<cached, epoch, preemptions, phase, forward>>

(* sort_batch_req_ids: decodes first, then the prefills from short to long. *)
InWorkerOrder(rows) ==
  LET Rank(i) == Cardinality({j \in DOMAIN rows :
                    \/ rows[j].count < rows[i].count
                    \/ rows[j].count = rows[i].count /\ j <= i})
  IN  [n \in DOMAIN rows |-> rows[CHOOSE i \in DOMAIN rows : Rank(i) = n]]

(* The step goes out; the tokens count as computed and the full blocks as   *)
(* cached from here on.  The last request asked may have been refused for   *)
(* want of blocks, after its plan was made.                                 *)
Launch ==
  /\ phase \in Scheduling
  /\ \/ UNCHANGED <<plan, index>>
     \/ /\ phase = "admit" /\ waiting # << >> /\ SumOf(batch) < Budget
        /\ \E n \in NativeHits(Head(waiting)) : Locate(Head(waiting), n * BlockSize)
  /\ phase' = IF batch = << >> THEN "idle" ELSE "launched"
  /\ computed' = [r \in Request |->
       IF \E row \in ToSet(batch) : row.req = r
       THEN LET row == CHOOSE w \in ToSet(batch) : w.req = r
                end == row.start + row.count
            IN  IF end > PromptLen(r) THEN PromptLen(r) ELSE end
       ELSE computed[r]]
  /\ cached' = cached \cup
       UNION {{ContextHash(row.req, i) : i \in {j \in DOMAIN Blocks[row.req] :
                 j * BlockSize <= row.start + row.count}} : row \in ToSet(batch)}
  /\ batch' = InWorkerOrder(batch)
  /\ UNCHANGED <<status, waiting, running, epoch, preemptions, new, forward>>

-----------------------------------------------------------------------------
(* The worker.                                                              *)

(* Faulty: what the scheduler planned is taken to be there.                 *)
FaultyEligible(cands) == cands # {}

(* preflight_gdn_delta_reuse: every operator on every layer, or no reuse.   *)
Eligible(cands) ==
  cands # {} /\ \A l \in 1 .. Layers : ContainsMany(sidecar[l], {c.key : c \in cands})

(* finish_requests and add_requests.  The lookups of the preflight go       *)
(* through the layers for one new request after the other.                  *)
Prepare ==
  /\ phase = "launched"
  /\ phase' = "preflight"
  /\ worker' = [r \in Request |->
       IF r \in ToSet(new) THEN (IF Eligible(plan[r]) THEN plan[r] ELSE {})
       ELSE IF r \in ToSet(running) \cup {row.req : row \in ToSet(batch)} THEN worker[r]
       ELSE {}]
  /\ lookups' = {t \in Task : /\ t.row \in DOMAIN new
                              /\ [block |-> t.block, key |-> t.key] \in worker'[new[t.row]]}
  /\ applied' = [l \in 1 .. Layers |-> {}]
  /\ layer' = 1
  /\ UNCHANGED <<scheduler, batch, new, sidecar, stores>>

(* One lookup_many entry, or one shadow lookup: refresh the key.            *)
LookupNext ==
  /\ phase \in {"preflight", "layer"}
  /\ \E t \in lookups :
       /\ First(lookups, t)
       /\ sidecar' = [sidecar EXCEPT ![t.layer] = Lookup(@, t.key)]
       /\ lookups' = lookups \ {t}
  /\ UNCHANGED <<scheduler, phase, batch, new, worker, layer, stores, applied>>

IsPrefill(row) == row.count > 1
Prefills == {i \in DOMAIN batch : IsPrefill(batch[i])}

(* assess_gdn_delta_active_admission: one prefill, alone, with candidates.  *)
Admissible ==
  Active /\ Len(batch) = 1 /\ Prefills = {1} /\ worker[batch[1].req] # {}

FullyScheduled(row, i) ==
  (i - 1) * BlockSize >= row.start /\ i * BlockSize <= row.start + row.count

Reusable == {c \in worker[batch[1].req] : FullyScheduled(batch[1], c.block)}

(* execute_gdn_delta_sequence_plan resolves every operator before it runs.  *)
Executes ==
  /\ Admissible /\ Reusable # {}
  /\ ContainsMany(sidecar[layer], {c.key : c \in Reusable})

Unaligned == Admissible /\ batch[1].start % BlockSize # 0

(* One layer: the operators it applies and those it stores afterwards.  A   *)
(* layer that runs in full looks all candidates up to compare them.         *)
StartLayer ==
  /\ phase = "layer_start" /\ ~ Unaligned
  /\ phase' = "layer"
  /\ lookups' = {t \in Task :
       /\ t.layer = layer /\ t.row \in Prefills
       /\ LET cand == [block |-> t.block, key |-> t.key]
          IN  cand \in (IF Executes THEN Reusable ELSE worker[batch[t.row].req])}
  /\ stores' = {t \in Task :
       /\ t.layer = layer /\ t.row \in Prefills
       /\ LET row == batch[t.row]
          IN  /\ t.block \in DOMAIN Blocks[row.req] /\ FullyScheduled(row, t.block)
              /\ t.key = ContextHash(row.req, t.block)}
  /\ applied' = [applied EXCEPT ![layer] =
       IF Executes THEN {[block |-> c.block,
                          op |-> sidecar[layer].data[sidecar[layer].slot[c.key]]] : c \in Reusable}
       ELSE {}]
  /\ UNCHANGED <<scheduler, batch, new, worker, sidecar, layer>>

StoreNext ==
  /\ phase = "layer" /\ lookups = {}
  /\ \E t \in stores :
       /\ First(stores, t)
       /\ sidecar' = [sidecar EXCEPT ![t.layer] =
                        Store(@, [key |-> t.key, epoch |-> epoch])]
       /\ stores' = stores \ {t}
  /\ UNCHANGED <<scheduler, phase, batch, new, worker, layer, lookups, applied>>

NextLayer ==
  /\ lookups = {} /\ stores = {}
  /\ \/ /\ phase = "preflight" /\ phase' = "layer_start" /\ layer' = layer
     \/ /\ phase = "layer" /\ layer < Layers
        /\ phase' = "layer_start" /\ layer' = layer + 1
     \/ /\ phase = "layer" /\ layer = Layers
        /\ phase' = "idle" /\ layer' = layer
  /\ UNCHANGED <<scheduler, batch, new, worker, sidecar, lookups, stores, applied>>

(* "the active GDN prefill must start on a logical block boundary": the     *)
(* exception leaves execute_model and ends the engine.                      *)
RaiseUnaligned ==
  /\ phase = "layer_start" /\ Unaligned
  /\ phase' = "failed"
  /\ UNCHANGED <<scheduler, batch, new, forward>>

Next ==
  \/ \E r \in Request : Add(r) \/ End(r)
  \/ Reset \/ ScheduleRunning \/ SchedulePreempting \/ Admit \/ Launch
  \/ Prepare \/ LookupNext \/ StartLayer \/ StoreNext \/ NextLayer \/ RaiseUnaligned

Spec == Init /\ [][Next]_vars

-----------------------------------------------------------------------------
(* The queues, the index and the worker's tables hold what they should.     *)
TypeOK ==
  /\ status \in [Request -> {"new", "waiting", "running", "done"}]
  /\ \A r \in Request : computed[r] \in 0 .. PromptLen(r)
  /\ ToSet(waiting) = {r \in Request : status[r] = "waiting"} /\ IsInjective(waiting)
  /\ ToSet(running) = {r \in Request : status[r] = "running"} /\ IsInjective(running)
  /\ Len(index) <= MaxSources /\ IsInjective(index)
  /\ plan \in [Request -> SUBSET Candidate] /\ worker \in [Request -> SUBSET Candidate]
  /\ lookups \subseteq Task /\ stores \subseteq Task /\ layer \in 1 .. Layers
  /\ SumOf(batch) <= Budget

(* Stores, overwrites and evictions of any order leave the table and the    *)
(* tensors of every layer in agreement: no two hashes share a slot, and a   *)
(* slot holds the operator of the hash that owns it.                        *)
SidecarsConsistent == \A l \in 1 .. Layers : Consistent(sidecar[l])

(* The layers' sidecars are separate LRU caches, but between two steps they *)
(* hold the same operators in the same order, whatever preflight and        *)
(* forward touch, refuse or evict; so a prefill reuses a block on every     *)
(* layer or on none, and never finds missing on one layer what an earlier   *)
(* one of the same pass has already applied.                                *)
LayersAgree ==
  /\ phase \in {"idle", "launched"} \cup Scheduling =>
       \A l \in 1 .. Layers : sidecar[l] = sidecar[1]
  /\ phase = "layer" =>
       \A l \in 1 .. layer : {a.block : a \in applied[l]} = {a.block : a \in applied[1]}

(* What a layer puts in the place of a block was computed from the same     *)
(* tokens under the same salt and adapter, whichever slots were reassigned  *)
(* between the planning of the reuse and its execution.                     *)
AppliedOperatorsFit ==
  phase = "layer" =>
    \A a \in applied[layer] :
      /\ a.op.key[1] = Salt[batch[1].req]
      /\ Last(a.op.key[2]) = Blocks[batch[1].req][a.block]

(* Once the preflight has admitted a plan, the pass it was made for finds   *)
(* the operators: nothing is stored, and so nothing evicted, in between.    *)
AdmittedReuseHappens ==
  [][\A r \in ToSet(new) :
       phase = "layer_start" /\ phase' = "layer" /\ Admissible /\ batch[1].req = r
         /\ Reusable # {} => applied'[layer] # {}]_vars

(* The operators the slots hold for the resident hashes.                    *)
HeldOperators ==
  [l \in 1 .. Layers |->
     [k \in Key |-> IF sidecar[l].slot[k] = 0 THEN NoOperator
                    ELSE sidecar[l].data[sidecar[l].slot[k]]]]

Cache == INSTANCE OperatorCache WITH held <- HeldOperators

(* The sidecars implement the operator cache: no lookup, refusal or reset   *)
(* loses an operator, and one is given up only by a full sidecar.           *)
ImplementsOperatorCache == Cache!Spec

(* reset_prefix_cache "may be used in RLHF flows to invalidate prefix       *)
(* caching after the weights are updated" (kv_cache_manager.py): what is    *)
(* applied afterwards was computed with the weights of the moment.          *)
AppliedOperatorsAreCurrent ==
  phase = "layer" => \A a \in applied[layer] : a.op.epoch = epoch

(* "Partition every scheduled request into normal recurrence and            *)
(* full-block reuse" (build_gdn_delta_execution_plans), also one that       *)
(* starts inside a block: the block it cuts is skipped, as a test has it,   *)
(* and no prefill ends the engine.                                          *)
EveryPrefillRuns == phase # "failed"
=============================================================================
