---------------------------- MODULE SpanExecution ----------------------------
(* The worker's execution of reuse: a plan that reaches the worker becomes  *)
(* the tokens of the prompt whose KV is copied and not computed, and every  *)
(* step of the request, whose prompt is computed in chunks and perhaps with *)
(* other requests, runs either in full or as spans of the rows to compute.  *)
EXTENDS Integers, FiniteSets, SequencesExt

CONSTANTS
  Request,
  Prompt,            \* the tokens of a request's prompt
  Outputs,           \* the tokens it generates
  Cached,            \* the prompt's tokens in the native prefix cache
  Candidates,        \* target blocks of the request's plan
  Affected,          \* those with requires_repair
  Repacked,          \* those with an unaligned source
  Counterfactual,    \* the one block a request wants reused, or NoBlock
  NoBlock,
  Supported,         \* requests the configuration may reuse for
  BlockSize,
  MinSpan, MinRepackedSpan,   \* cacheselect_min_(repacked_)reuse_span_blocks
  Budget,            \* max_num_batched_tokens
  MaxPreemptions     \* bound of the model

ASSUME PromptAssumption ==
  /\ IsFiniteSet(Request) /\ BlockSize \in Nat \ {0} /\ Budget \in Nat
  /\ Prompt \in [Request -> Nat] /\ Outputs \in [Request -> Nat \ {0}]
  /\ Cached \in [Request -> Nat] /\ \A r \in Request : Cached[r] < Prompt[r]
  /\ Candidates \in [Request -> SUBSET Nat]

VARIABLES
  waiting, running,  \* scheduler: the queues,
  length, computed,  \* the tokens of a request and those scheduled
  plan,              \* and the candidates whose sources it pinned
  phase, batch, new, \* the step, its rows, and the requests it brings
  prefill,           \* worker: the tokens a request had when it came,
  repairs, reused,   \* the blocks to repair and the tokens to reuse,
  metrics,           \* requests with pending_cacheselect_repair_metrics,
  written, copied,   \* tokens whose KV was computed, and whose is a copy
  spans, hidden,     \* spans left to run, rows with a hidden state
  preemptions

scheduler == <<waiting, running, length, computed, plan, preemptions>>
tables    == <<prefill, repairs, reused, metrics>>
cache     == <<written, copied>>
vars      == <<scheduler, tables, cache, phase, batch, new, spans, hidden>>

Token == UNION {0 .. Prompt[r] + Outputs[r] : r \in Request}
TokensOf(blocks) == {t \in Token : t \div BlockSize \in blocks}

(* Faulty: a run of one is none.                                            *)
FaultyRuns(set) ==
  {run \in set \X set : /\ run[1] .. run[2] \subseteq set /\ run[1] < run[2]
                        /\ run[1] - 1 \notin set /\ run[2] + 1 \notin set}

(* The maximal runs of a set of tokens or rows, as their first and last.    *)
Runs(set) ==
  {run \in set \X set : /\ run[1] .. run[2] \subseteq set /\ run[1] <= run[2]
                        /\ run[1] - 1 \notin set /\ run[2] + 1 \notin set}

Init ==
  /\ waiting \in {q \in [1 .. Cardinality(Request) -> Request] : IsInjective(q)}
  /\ running = << >>
  /\ length = Prompt /\ computed = [r \in Request |-> 0]
  /\ plan = [r \in Request |-> {}] /\ repairs = plan /\ reused = plan
  /\ written = plan /\ copied = plan /\ metrics = {} /\ prefill = computed
  /\ phase = "idle" /\ batch = << >> /\ new = << >>
  /\ spans = {} /\ hidden = {} /\ preemptions = 0

-----------------------------------------------------------------------------
(* The scheduler: running requests first, then the waiting ones in turn.    *)

CountOf(rows) == FoldLeft(LAMBDA n, row : n + row.count, 0, rows)

(* Faulty: the whole of the prompt at once.                                 *)
FaultyRow(r, start, room) == [req |-> r, start |-> start, count |-> length[r] - start]

Row(r, start, room) ==
  [req |-> r, start |-> start,
   count |-> IF length[r] - start < room THEN length[r] - start ELSE room]

Rows(requests) ==
  FoldLeft(LAMBDA rows, r :
             IF CountOf(rows) = Budget THEN rows
             ELSE Append(rows, Row(r, computed[r], Budget - CountOf(rows))),
           << >>, requests)

ScheduleRunning ==
  /\ phase = "idle" /\ running \o waiting # << >>
  /\ phase' = "admit" /\ batch' = Rows(running) /\ new' = << >>
  /\ UNCHANGED <<scheduler, tables, cache, spans, hidden>>

(* No block is left for a running request: the youngest gives up its own.   *)
SchedulePreempting ==
  /\ phase = "idle" /\ Len(running) > 1 /\ preemptions < MaxPreemptions
  /\ preemptions' = preemptions + 1
  /\ running' = Front(running) /\ waiting' = <<Last(running)>> \o waiting
  /\ computed' = [computed EXCEPT ![Last(running)] = 0]
  /\ phase' = "launch" /\ batch' = Rows(Front(running)) /\ new' = << >>
  /\ UNCHANGED <<length, plan, tables, cache, spans, hidden>>

(* The plan keeps the candidates whose sources could be pinned.             *)
Admit ==
  /\ phase = "admit" /\ waiting # << >> /\ CountOf(batch) < Budget
  /\ LET r == Head(waiting)
     IN  \E n \in {0, Cached[r]} :
         \E kept \in SUBSET {b \in Candidates[r] : b * BlockSize >= n} :
           /\ plan' = [plan EXCEPT ![r] = kept]
           /\ batch' = Append(batch, Row(r, n, Budget - CountOf(batch)))
           /\ new' = Append(new, r)
           /\ computed' = [computed EXCEPT ![r] = n]
           /\ running' = Append(running, r) /\ waiting' = Tail(waiting)
  /\ UNCHANGED <<length, preemptions, phase, tables, cache, spans, hidden>>

(* sort_batch_req_ids: decodes first, then the prefills from short to long. *)
InWorkerOrder(rows) ==
  LET Rank(i) == Cardinality({j \in DOMAIN rows :
                    \/ rows[j].count < rows[i].count
                    \/ rows[j].count = rows[i].count /\ j <= i})
  IN  [n \in DOMAIN rows |-> rows[CHOOSE i \in DOMAIN rows : Rank(i) = n]]

(* The step goes out, its tokens count as computed, and finish_requests     *)
(* forgets the requests that were finished or preempted.                    *)
Launch ==
  /\ phase \in {"admit", "launch"} /\ batch # << >>
  /\ phase' = "add"
  /\ computed' = [r \in Request |->
       IF \E row \in ToSet(batch) : row.req = r
       THEN LET row == CHOOSE w \in ToSet(batch) : w.req = r
            IN  row.start + row.count
       ELSE computed[r]]
  /\ LET gone == Request \ (ToSet(running) \ ToSet(new))
         Forget(table) == [r \in Request |-> IF r \in gone THEN {} ELSE table[r]]
     IN  /\ repairs' = Forget(repairs) /\ reused' = Forget(reused)
         /\ metrics' = metrics \ gone
         /\ copied' = Forget(copied)
         /\ written' = [r \in Request |->
              IF r \in ToSet(new) THEN {t \in Token : \E row \in ToSet(batch) :
                                                        row.req = r /\ t < row.start}
              ELSE Forget(written)[r]]
  /\ batch' = InWorkerOrder(batch)
  /\ UNCHANGED <<waiting, running, length, plan, preemptions, prefill, new, spans, hidden>>

-----------------------------------------------------------------------------
(* The worker: add_requests.                                                *)

(* Blocks of the prompt behind the first chunk are not allocated yet; their *)
(* mappings are dropped.                                                    *)
Resolved(r) == {b \in plan[r] : b * BlockSize < computed[r]}

(* The blocks a selector may repair are the affected ones; a counterfactual *)
(* request repairs all of them but one.                                     *)
Selections(r) ==
  IF Counterfactual[r] = NoBlock THEN SUBSET (Resolved(r) \cap Affected[r])
  ELSE {(Resolved(r) \cap Affected[r]) \ {Counterfactual[r]}}

(* Faulty: the repairs chosen are reused as well.                           *)
FaultyCandidateTokens(r, chosen) == TokensOf(Resolved(r))
CandidateTokens(r, chosen) == TokensOf(Resolved(r)) \ TokensOf(chosen)

(* filter_short_reuse_spans: a run must be worth the split it makes.        *)
LongRuns(r, tokens) ==
  UNION {run[1] .. run[2] : run \in
    {u \in Runs(tokens) :
       LET repacks == \E t \in u[1] .. u[2] : t \div BlockSize \in Repacked[r]
       IN  u[2] - u[1] + 1 >= (IF repacks THEN MinRepackedSpan ELSE MinSpan) * BlockSize}}

(* Faulty: the last block of a run is not copied.                           *)
FaultyBlocksWith(tokens) == {t \div BlockSize : t \in {u \in tokens : u + BlockSize \in tokens}}
BlocksWith(tokens) == {t \div BlockSize : t \in tokens}

CounterfactualIsLost(r) ==
  plan[r] # {} /\ Counterfactual[r] # NoBlock /\ Counterfactual[r] \notin Resolved(r)

(* The copies of the blocks with a token to reuse are made at once.         *)
AddRequest ==
  /\ phase = "add" /\ new # << >>
  /\ LET r == Head(new)
     IN  /\ ~ CounterfactualIsLost(r)
         /\ prefill' = [prefill EXCEPT ![r] = length[r]]
         /\ metrics' = IF plan[r] = {} THEN metrics ELSE metrics \cup {r}
         /\ \E chosen \in Selections(r) :
              LET tokens == LongRuns(r, CandidateTokens(r, chosen))
              IN  /\ repairs' = [repairs EXCEPT ![r] = chosen]
                  /\ reused' = [reused EXCEPT ![r] = tokens]
                  /\ copied' = [copied EXCEPT ![r] = TokensOf(BlocksWith(tokens))]
  /\ new' = Tail(new)
  /\ UNCHANGED <<scheduler, written, phase, batch, spans, hidden>>

(* "counterfactual target must identify exactly one resolved candidate":    *)
(* the ValueError ends the engine.                                          *)
RaiseCounterfactual ==
  /\ phase = "add" /\ new # << >> /\ CounterfactualIsLost(Head(new))
  /\ phase' = "failed"
  /\ UNCHANGED <<scheduler, tables, cache, batch, new, spans, hidden>>

-----------------------------------------------------------------------------
(* The worker: prepare_inputs.                                              *)

(* The rows of the batch are those of its requests, one after the other.    *)
Offset(i) == CountOf(SubSeq(batch, 1, i - 1))
BatchRows == 0 .. CountOf(batch) - 1
RowsOf(i) == {Offset(i) + k : k \in 0 .. batch[i].count - 1}
TokenAt(i, row) == batch[i].start + (row - Offset(i))

ReusedRows(i) == {row \in RowsOf(i) : TokenAt(i, row) \in reused[batch[i].req]}

(* The last row of each request is sampled from.                            *)
RequiredRows == {Offset(i) + batch[i].count - 1 : i \in DOMAIN batch}

(* Faulty: the row that is sampled from is skipped with the others.         *)
FaultyProtectedRows(i) == ReusedRows(i)
ProtectedRows(i) == ReusedRows(i) \ RequiredRows

(* assess_partial_reuse_batch: one request that prefills, alone.            *)
Eligible ==
  /\ Len(batch) = 1 /\ ProtectedRows(1) # {}
  /\ batch[1].start < prefill[batch[1].req] /\ batch[1].req \in Supported

Measured == Eligible => batch[1].req \in metrics

PrepareInputs ==
  /\ phase = "add" /\ new = << >> /\ Measured
  /\ phase' = "execute"
  /\ spans' = IF Eligible THEN Runs(BatchRows \ ProtectedRows(1))
              ELSE {<<0, CountOf(batch) - 1>>}
  /\ hidden' = {}
  /\ UNCHANGED <<scheduler, tables, cache, batch, new>>

(* "eligible compact batch requires request metrics": another ValueError.   *)
RaiseUnmeasured ==
  /\ phase = "add" /\ new = << >> /\ ~ Measured
  /\ phase' = "failed"
  /\ UNCHANGED <<scheduler, tables, cache, batch, new, spans, hidden>>

-----------------------------------------------------------------------------
(* The worker: the forward pass and sample_tokens.                          *)

IsNext(span) == span \in spans /\ \A other \in spans : span[1] <= other[1]

Computes(span, r) ==
  UNION {{TokenAt(i, row) : row \in RowsOf(i) \cap (span[1] .. span[2])} :
           i \in {j \in DOMAIN batch : batch[j].req = r}}

ExecuteSpan ==
  /\ phase = "execute"
  /\ \E span \in spans :
       /\ IsNext(span)
       /\ spans' = spans \ {span}
       /\ hidden' = hidden \cup (span[1] .. span[2])
       /\ written' = [r \in Request |-> written[r] \cup Computes(span, r)]
       /\ copied' = [r \in Request |-> copied[r] \ Computes(span, r)]
  /\ UNCHANGED <<scheduler, tables, phase, batch, new>>

Those(requests, keep) ==
  FoldLeft(LAMBDA kept, r : IF r \in keep THEN Append(kept, r) ELSE kept,
           << >>, requests)

(* The output takes the metrics of every request of the batch with it.  A   *)
(* request whose last token was computed gets its next one, or is done.     *)
Sample ==
  /\ phase = "execute" /\ spans = {}
  /\ phase' = "idle" /\ hidden' = {}
  /\ metrics' = metrics \ {row.req : row \in ToSet(batch)}
  /\ LET sampled == {r \in ToSet(running) : computed[r] = length[r]}
         done == {r \in sampled : length[r] = Prompt[r] + Outputs[r] - 1}
     IN  /\ length' = [r \in Request |-> IF r \in sampled THEN length[r] + 1 ELSE length[r]]
         /\ running' = Those(running, Request \ done)
  /\ UNCHANGED <<waiting, computed, plan, preemptions, prefill, repairs, reused, cache,
                 batch, new, spans>>

Next ==
  \/ ScheduleRunning \/ SchedulePreempting \/ Admit \/ Launch
  \/ AddRequest \/ RaiseCounterfactual \/ PrepareInputs \/ RaiseUnmeasured
  \/ ExecuteSpan \/ Sample

Spec == Init /\ [][Next]_vars

-----------------------------------------------------------------------------
(* The scheduler's queues and the worker's tables hold what they should.    *)
TypeOK ==
  /\ IsInjective(running \o waiting) /\ ToSet(new) \subseteq ToSet(running)
  /\ \A r \in Request :
       /\ computed[r] \in 0 .. length[r] /\ length[r] \in 0 .. Prompt[r] + Outputs[r]
       /\ repairs[r] \subseteq Affected[r] /\ plan[r] \subseteq Candidates[r]
       /\ written[r] \cap copied[r] = {} /\ reused[r] \subseteq Token
  /\ metrics \subseteq ToSet(running) /\ CountOf(batch) <= Budget
  /\ hidden \subseteq BatchRows

(* The tokens of request i that a span reads without computing them.        *)
ContextOf(span, i) ==
  {t \in Token : \E row \in RowsOf(i) :
     row \in span[1] .. span[2] /\ row - 1 \notin RowsOf(i) \cap (span[1] .. span[2])
       /\ t < TokenAt(i, row)}

(* "Earlier scheduled rows are either freshly computed or reused KV"        *)
(* (build_partial_reuse_span_inputs): no span attends to a slot to which    *)
(* nothing was written, in whatever chunks and batches its request came.    *)
ContextIsWritten ==
  phase = "execute" =>
    \A span \in spans : IsNext(span) =>
      \A i \in DOMAIN batch :
        ContextOf(span, i) \subseteq written[batch[i].req] \cup copied[batch[i].req]

(* "Repaired rows overwrite copied values before they can be consumed"      *)
(* (_apply_cacheselect_block_copies): no span attends to the copy of a      *)
(* block that the selector wants repaired.                                  *)
RepairsPrecedeUse ==
  phase = "execute" =>
    \A span \in spans : IsNext(span) =>
      \A i \in DOMAIN batch :
        ContextOf(span, i) \cap copied[batch[i].req] \cap TokensOf(repairs[batch[i].req]) = {}

(* "The final row must be computed because sampling consumes its hidden     *)
(* state" (assess_partial_reuse_batch): no request of a batch is sampled    *)
(* from a placeholder.                                                      *)
SampledRowsAreComputed ==
  phase = "execute" /\ spans = {} => RequiredRows \subseteq hidden

(* Every row of a step is computed, or it has no hidden state and keeps a   *)
(* copy that is to be reused: none is left out, none is both.               *)
RowsAreComputedOrCopied ==
  phase = "execute" /\ spans = {} =>
    \A i \in DOMAIN batch : \A row \in RowsOf(i) :
      IF row \in hidden THEN TokenAt(i, row) \in written[batch[i].req]
      ELSE TokenAt(i, row) \in copied[batch[i].req] \cap reused[batch[i].req]

(* "Execute the selected full or CacheSelect forward while preserving       *)
(* fallback." (_execute_selected_cacheselect_forward): what cannot be       *)
(* reused is run in full, and no batch ends the engine.                     *)
FallbackIsPreserved == phase # "failed"
=============================================================================
