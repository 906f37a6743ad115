---------------------------- MODULE SourceIndex ----------------------------
(***************************************************************************)
(* AlignedBlockReuseLocator: finished requests are indexed as sources, the *)
(* latest of each session by name; a request being admitted picks a source *)
(* (named by the client, the latest of its session, or the one that shares *)
(* most windows of tokens), gets a plan that maps its prompt blocks to the *)
(* source's, and pins the source blocks that still are resident.           *)
(*                                                                         *)
(* Prompts are sequences of tokens, and a block's hash is what it hashes:  *)
(* the whole prefix it ends, with the salt and adapter.  A request is      *)
(* given at admission all the blocks it will ever hold, as many as it      *)
(* gets to compute before it ends.  The pool is reduced to who holds what  *)
(* and to the hash of each block (modules BlockPool and KVCacheManager).   *)
(*                                                                         *)
(* Source: core/partial_reuse.py, as used by core/kv_cache_manager.py and  *)
(* core/sched/scheduler.py (under src/vllm/vllm/v1).                       *)
(***************************************************************************)
EXTENDS Integers, FiniteSets, Sequences, SequencesExt, Functions

CONSTANTS
  Request, Block, Session,
  NoSource, NoSession, NoHash,
  RequestId,         \* names requests are indexed under
  Id,                \* [Request -> RequestId]: cacheselect_request_id, or request_id
  Prompt,            \* [Request -> Seq(Nat)]
  Domain,            \* [Request -> ...]: cache salt and LoRA adapter
  SessionOf,         \* [Request -> Session \cup {NoSession}]
  Named,             \* [Request -> RequestId \cup {NoSource}]: source named by the client
  AutoSource,        \* requests with cacheselect_auto_source
  CanPreempt,        \* bound: requests that may be preempted
  Remote,            \* requests whose KV a connector may load asynchronously
  BlockSize,
  MaxSources,        \* max_source_requests
  Repacking,         \* allow_repacking
  FingerprintWindow, \* _FINGERPRINT_WINDOW_TOKENS
  SearchLimit,       \* _AUTO_SOURCE_SEARCH_LIMIT
  MinShared,         \* _AUTO_SOURCE_MIN_SHARED
  MaxLeases          \* bound: steps with pins in flight

(* No prompt of a decoder is empty (_validate_prompt_len).                 *)
ASSUME SourceAssumption ==
  /\ IsFiniteSet(Block) /\ NoSource \notin RequestId /\ NoSession \notin Session
  /\ BlockSize \in Nat \ {0} /\ MaxSources \in Nat \ {0} /\ MinShared \in Nat \ {0}
  /\ Id \in [Request -> RequestId]
  /\ SessionOf \in [Request -> Session \cup {NoSession}]
  /\ Named \in [Request -> RequestId \cup {NoSource}]
  /\ Prompt \in [Request -> Seq(Nat)] /\ \A r \in Request : Prompt[r] # << >>
  /\ FingerprintWindow \in Nat

VARIABLES
  status,   \* waiting, loading, loaded, running, preempted or finished
  table,    \* [Request -> Seq(Block)]
  hash,     \* [Block -> hash or NoHash]: block_hash of the resident blocks
  index,    \* _sources: [indexed ids -> source],
  order,    \* Seq(RequestId): their order in the OrderedDict, oldest first
  latest,   \* [Session -> RequestId or NoSource]: _session_sources
  choice,   \* [Request -> source and how it was selected], kept on the request
  plan,     \* [Request -> partial_reuse_plan]
  leases    \* pins of steps in flight, with the copies forwarded to the worker

requests == <<status, table>>
sources  == <<index, order, latest>>
chosen   == <<choice, plan>>
vars     == <<requests, hash, sources, chosen, leases>>

CeilDiv(a, b) == (a + b - 1) \div b

NoPlan == [source |-> NoSource, candidates |-> {}]

Init ==
  /\ status = [r \in Request |-> "waiting"]
  /\ table = [r \in Request |-> << >>]
  /\ hash = [b \in Block |-> NoHash]
  /\ index = << >>
  /\ order = << >>
  /\ latest = [s \in Session |-> NoSource]
  /\ choice = [r \in Request |-> [source |-> Named[r], how |-> "explicit"]]
  /\ plan = [r \in Request |-> NoPlan]
  /\ leases = {}

-----------------------------------------------------------------------------
(* The pool.                                                               *)

HashOf(r, i) == [domain |-> Domain[r], tokens |-> SubSeq(Prompt[r], 1, i * BlockSize)]

FullBlocks(r) == Len(Prompt[r]) \div BlockSize

(* A block without a hash is told apart from every block with one.         *)
ASSUME HashAssumption ==
  \A r \in Request : \A i \in 1 .. FullBlocks(r) : HashOf(r, i) # NoHash

FreeBlocks ==
  Block \ ((UNION {ToSet(table[r]) : r \in Request}) \cup (UNION {l.pins : l \in leases}))

HitLength(r, limit) ==
  LET most == limit \div BlockSize
      cached(i) == i <= FullBlocks(r) /\ \E b \in Block : hash[b] = HashOf(r, i)
  IN  CHOOSE k \in 0 .. most : (\A i \in 1 .. k : cached(i)) /\ (k < most => ~ cached(k + 1))

(* The hash of each block once those of r from position first on are filled. *)
Registered(r, blocks, first) ==
  [b \in Block |->
     IF \E i \in first .. Len(blocks) : blocks[i] = b
     THEN LET i == CHOOSE i \in first .. Len(blocks) : blocks[i] = b
          IN  IF i <= FullBlocks(r) THEN HashOf(r, i) ELSE NoHash
     ELSE hash[b]]

-----------------------------------------------------------------------------
(* index()                                                                 *)

Fingerprint(tokens) ==
  {SubSeq(tokens, i, i + FingerprintWindow - 1) :
     i \in 1 .. Len(tokens) - FingerprintWindow + 1}

(* What a finished request leaves: the prompt blocks of its table that     *)
(* have a hash, each with that hash.                                       *)
Source(r) ==
  LET full == {i \in DOMAIN table[r] : i <= FullBlocks(r) /\ hash[table[r][i]] # NoHash}
  IN  [domain |-> Domain[r], prompt |-> Prompt[r], session |-> SessionOf[r],
       blocks |-> [i \in full |-> [id |-> table[r][i], hash |-> hash[table[r][i]]]]]

(* Faulty: the session of a replaced or evicted entry is not forgotten.    *)
FaultyWithoutSessionOf(map, i) == map

(* The session of an entry that is replaced or evicted is forgotten, but   *)
(* only if it names that entry.                                            *)
WithoutSessionOf(map, i) ==
  [s \in Session |-> IF i \in DOMAIN index /\ index[i].session = s /\ map[s] = i
                     THEN NoSource ELSE map[s]]

(* Faulty: an id that is indexed again keeps its place.                    *)
FaultyMovedToEnd(i) == IF i \in ToSet(order) THEN order ELSE Append(order, i)

MovedToEnd(i) == Append(RemoveFirst(order, i), i)

(* Faulty: one source too many is kept.                                    *)
FaultyTooMany(ids) == Len(ids) > MaxSources + 1

TooMany(ids) == Len(ids) > MaxSources

IndexSource(r) ==
  LET id    == Id[r]
      moved == MovedToEnd(id)
      named == [s \in Session |-> IF s = SessionOf[r] THEN id
                                  ELSE WithoutSessionOf(latest, id)[s]]
      entries(ids) == [i \in ids |-> IF i = id THEN Source(r) ELSE index[i]]
  IN  IF TooMany(moved)
      THEN /\ order' = Tail(moved)
           /\ index' = entries((DOMAIN index \cup {id}) \ {Head(moved)})
           /\ latest' = WithoutSessionOf(named, Head(moved))
      ELSE /\ order' = moved
           /\ index' = entries(DOMAIN index \cup {id})
           /\ latest' = named

-----------------------------------------------------------------------------
(* locate()                                                                *)

(* Faulty: a block is trusted by its id.                                   *)
FaultyResident(x) == hash[x.id] # NoHash

Resident(x) == hash[x.id] = x.hash

(* The windows of a source, named by the position of their first token     *)
(* (from zero), that lie in indexed blocks.                                *)
Spanned(s)     == (s \div BlockSize + 1) .. ((s + BlockSize - 1) \div BlockSize + 1)
Spelled(p, s)  == SubSeq(p, s + 1, s + BlockSize)
Windows(src)   ==
  {s \in 0 .. Len(src.prompt) - BlockSize :
     (Repacking \/ s % BlockSize = 0) /\ Spanned(s) \subseteq DOMAIN src.blocks}

AllResident(src, s) == \A i \in Spanned(s) : Resident(src.blocks[i])

(* Resident windows first, then aligned ones, then the one nearest to the  *)
(* target, then the first.                                                 *)
Rank(src, s) ==
  (IF AllResident(src, s) THEN 0 ELSE 2) + (IF s % BlockSize = 0 THEN 0 ELSE 1)

Distance(s, t) == LET d == s - (t - 1) * BlockSize IN IF d < 0 THEN -d ELSE d

Preferred(src, t, s, v) ==
  \/ Rank(src, s) < Rank(src, v)
  \/ /\ Rank(src, s) = Rank(src, v)
     /\ \/ Distance(s, t) < Distance(v, t)
        \/ Distance(s, t) = Distance(v, t) /\ s <= v

Candidate(src, t, s) ==
  LET first == s \div BlockSize + 1
  IN  [target   |-> t,
       offset   |-> s % BlockSize,
       blocks   |-> [k \in 1 .. Cardinality(Spanned(s)) |-> src.blocks[first + k - 1].id],
       hash     |-> src.blocks[first].hash,
       resident |-> AllResident(src, s)]

Candidates(r, src, native) ==
  LET matches(t) == {s \in Windows(src) :
                       Spelled(src.prompt, s) = Spelled(Prompt[r], (t - 1) * BlockSize)}
      targets    == {t \in (native \div BlockSize + 1) .. FullBlocks(r) : matches(t) # {}}
  IN  {Candidate(src, t, CHOOSE s \in matches(t) :
                           \A v \in matches(t) : Preferred(src, t, s, v)) : t \in targets}

Comparable(r, i) == i \in DOMAIN index /\ index[i].domain = Domain[r]

(* _is_compatible_resident. *)
Usable(r, i) ==
  Comparable(r, i) /\ \E k \in DOMAIN index[i].blocks : Resident(index[i].blocks[k])

Found(r, i, native) ==
  IF Comparable(r, i) THEN Candidates(r, index[i], native) ELSE {}

(* _fingerprint_source: among the most recent sources, the one that shares *)
(* most windows with the uncached prompt, the most recent on a tie.        *)
FingerprintSource(r, native, exclude) ==
  LET target    == Fingerprint(SubSeq(Prompt[r], native + 1, Len(Prompt[r])))
      shared(j) == Cardinality(target \cap Fingerprint(index[order[j]].prompt))
      eligible  == {j \in DOMAIN order :
                      /\ j > Len(order) - SearchLimit
                      /\ order[j] \notin {Id[r], exclude}
                      /\ Usable(r, order[j])
                      /\ shared(j) >= MinShared}
  IN  IF eligible = {} THEN NoSource
      ELSE order[CHOOSE j \in eligible : \A k \in eligible :
                   shared(k) < shared(j) \/ (shared(k) = shared(j) /\ k <= j)]

Selected(i, how) == [source |-> i, how |-> how]

(* _automatic_source. *)
AutomaticSource(r, native) ==
  IF SessionOf[r] # NoSession /\ latest[SessionOf[r]] # NoSource
       /\ Usable(r, latest[SessionOf[r]])
  THEN Selected(latest[SessionOf[r]], "session")
  ELSE IF r \in AutoSource /\ FingerprintSource(r, native, NoSource) # NoSource
  THEN Selected(FingerprintSource(r, native, NoSource), "fingerprint")
  ELSE choice[r]

(* A source once selected stays selected.  Only the latest of a session,   *)
(* when it is indexed and has nothing to offer, gives way to another.      *)
Located(r, native) ==
  LET first    == IF choice[r].source # NoSource THEN choice[r] ELSE AutomaticSource(r, native)
      fallback == FingerprintSource(r, native, first.source)
  IN  IF /\ first.source # NoSource /\ first.how = "session" /\ r \in AutoSource
         /\ Comparable(r, first.source) /\ Found(r, first.source, native) = {}
         /\ fallback # NoSource
      THEN Selected(fallback, "fingerprint")
      ELSE first

Planned(r, native) ==
  LET source == Located(r, native).source
  IN  IF source = NoSource THEN NoPlan
      ELSE [source |-> source, candidates |-> Found(r, source, native)]

-----------------------------------------------------------------------------
(* retain_resident_sources() and for_retained_source_ids()                 *)

Retainable(p, c) ==
  /\ c.resident
  /\ \A b \in ToSet(c.blocks) : \E k \in DOMAIN index[p.source].blocks :
       index[p.source].blocks[k].id = b /\ Resident(index[p.source].blocks[k])

Retained(p) ==
  IF p.source \notin DOMAIN index THEN {}
  ELSE UNION {ToSet(c.blocks) : c \in {d \in p.candidates : Retainable(p, d)}}

Forwarded(p) == {c \in p.candidates : ToSet(c.blocks) \subseteq Retained(p)}

(* The pins of a request that has been given blocks, until its step is     *)
(* over; only a request that runs in the step has its copies forwarded.    *)
Pin(r, p, copies) ==
  /\ leases' = IF Retained(p) = {} THEN leases
               ELSE leases \cup {[req |-> r, pins |-> Retained(p), copies |-> copies]}
  /\ Cardinality(leases') <= MaxLeases

-----------------------------------------------------------------------------
(* A waiting request looks up its prefix, locates a source and pins it.    *)
(* One that was preempted may have an output token after its prompt.  Each *)
(* lookup makes a new plan, so plan is kept only while it is used without  *)
(* a lookup, until an asynchronous load is done.                           *)
Known(r) ==
  IF status[r] = "preempted" THEN {Len(Prompt[r]), Len(Prompt[r]) + 1} ELSE {Len(Prompt[r])}

(* Uncached blocks are allocated before cached ones. *)
NewBlocks(free, k) ==
  {new \in [1 .. k -> free] :
     /\ IsInjective(new)
     /\ \/ \A b \in ToSet(new) : hash[b] = NoHash
        \/ \A b \in free : hash[b] = NoHash => b \in ToSet(new)}

Allocated(r, known, p) ==
  LET n == HitLength(r, known - 1)
      hits == {h \in [1 .. n -> Block] : \A i \in 1 .. n : hash[h[i]] = HashOf(r, i)}
      new(h) == UNION {NewBlocks(FreeBlocks \ (Retained(p) \cup ToSet(h)), k) :
                         k \in 1 .. CeilDiv(known, BlockSize) - n}
  IN  UNION {{h \o f : f \in new(h)} : h \in hits}

(* With an asynchronous load the blocks are filled, and registered, later; *)
(* the plan is not forwarded.                                              *)
Admit(r) ==
  /\ status[r] \in {"waiting", "preempted"}
  /\ \E known \in Known(r) :
       LET n == HitLength(r, known - 1)
           p == Planned(r, n * BlockSize)
       IN  /\ choice' = [choice EXCEPT ![r] = Located(r, n * BlockSize)]
           /\ \E blocks \in Allocated(r, known, p) :
                /\ table' = [table EXCEPT ![r] = blocks]
                /\ \/ /\ hash' = Registered(r, blocks, n + 1)
                      /\ plan' = plan
                      /\ status' = [status EXCEPT ![r] = "running"]
                      /\ Pin(r, p, Forwarded(p))
                   \/ /\ r \in Remote
                      /\ hash' = [b \in Block |-> IF \E i \in n + 1 .. Len(blocks) : blocks[i] = b
                                                  THEN NoHash ELSE hash[b]]
                      /\ plan' = [plan EXCEPT ![r] = p]
                      /\ status' = [status EXCEPT ![r] = "loading"]
                      /\ Pin(r, p, {})
  /\ UNCHANGED sources

(* The blocks do not fit: the pins are given back, the choice stays.       *)
Refuse(r) ==
  /\ status[r] \in {"waiting", "preempted"}
  /\ \E known \in Known(r) :
       LET n == HitLength(r, known - 1)
           p == Planned(r, n * BlockSize)
       IN  /\ \E k \in 1 .. CeilDiv(known, BlockSize) - n :
                Cardinality(FreeBlocks \ Retained(p)) < k
           /\ choice' = [choice EXCEPT ![r] = Located(r, n * BlockSize)]
  /\ UNCHANGED <<requests, hash, sources, plan, leases>>

(* _update_waiting_for_remote_kv. *)
LoadDone(r) ==
  /\ status[r] = "loading"
  /\ status' = [status EXCEPT ![r] = "loaded"]
  /\ hash' = Registered(r, table[r], 1)
  /\ UNCHANGED <<table, sources, chosen, leases>>

(* No lookup for a request whose KV was loaded: its plan is the one it got *)
(* before the load.                                                        *)
AdmitLoaded(r) ==
  /\ status[r] = "loaded"
  /\ status' = [status EXCEPT ![r] = "running"]
  /\ Pin(r, plan[r], Forwarded(plan[r]))
  /\ plan' = [plan EXCEPT ![r] = NoPlan]
  /\ UNCHANGED <<table, hash, sources, choice>>

StepDone(l) ==
  /\ leases' = leases \ {l}
  /\ UNCHANGED <<requests, hash, sources, chosen>>

Preempt(r) ==
  /\ r \in CanPreempt /\ status[r] = "running"
  /\ status' = [status EXCEPT ![r] = "preempted"]
  /\ table' = [table EXCEPT ![r] = << >>]
  /\ UNCHANGED <<hash, sources, chosen, leases>>

(* A request that ends, stopped or aborted, even before it got any block,  *)
(* is indexed and forgotten.                                               *)
Finish(r) ==
  /\ status[r] \in {"waiting", "loaded", "running", "preempted"}
  /\ status' = [status EXCEPT ![r] = "finished"]
  /\ table' = [table EXCEPT ![r] = << >>]
  /\ IndexSource(r)
  /\ choice' = [choice EXCEPT ![r] = Selected(NoSource, "explicit")]
  /\ plan' = [plan EXCEPT ![r] = NoPlan]
  /\ UNCHANGED <<hash, leases>>

(* reset_prefix_cache, refused while a block is held. *)
Reset ==
  /\ FreeBlocks = Block
  /\ hash' = [b \in Block |-> NoHash]
  /\ index' = << >>
  /\ order' = << >>
  /\ latest' = [s \in Session |-> NoSource]
  /\ UNCHANGED <<requests, chosen, leases>>

Next ==
  \/ \E r \in Request :
       Admit(r) \/ Refuse(r) \/ LoadDone(r) \/ AdmitLoaded(r) \/ Preempt(r) \/ Finish(r)
  \/ \E l \in leases : StepDone(l)
  \/ Reset

Spec == Init /\ [][Next]_vars

-----------------------------------------------------------------------------
TypeOK ==
  /\ status \in [Request -> {"waiting", "loading", "loaded", "running", "preempted", "finished"}]
  /\ \A r \in Request : table[r] \in BoundedSeq(Block, Cardinality(Block))
  /\ \A b \in Block : hash[b] # NoHash =>
       \E r \in Request : \E i \in 1 .. FullBlocks(r) : hash[b] = HashOf(r, i)
  /\ \A i \in DOMAIN index : index[i].session \in Session \cup {NoSession}
  /\ order \in BoundedSeq(RequestId, MaxSources)
  /\ latest \in [Session -> RequestId \cup {NoSource}]
  /\ \A r \in Request : choice[r] \in [source : RequestId \cup {NoSource},
                                       how : {"explicit", "session", "fingerprint"}]
  /\ \A l \in leases : l.pins # {} /\ l.pins \subseteq Block

(* The two dicts and their order agree: every entry is in the order once,  *)
(* and _session_sources names, for a session, only an entry that is        *)
(* indexed and belongs to it, whatever ids are indexed again and whatever  *)
(* is evicted.  A name left behind would make locate() pick a source of    *)
(* another conversation, or none.                                          *)
IndexIsConsistent ==
  /\ IsInjective(order) /\ ToSet(order) = DOMAIN index
  /\ \A s \in Session : latest[s] # NoSource =>
       latest[s] \in DOMAIN index /\ index[latest[s]].session = s

(* "Session selects latest source": a session's entry is the last one of   *)
(* the session in the order, through re-indexing and eviction; a session   *)
(* with entries has none only when its last one was indexed again for      *)
(* another session, since the code does not go back to the one before.     *)
LatestOfEachSession ==
  \A s \in Session, j \in DOMAIN order : index[order[j]].session = s =>
    IF latest[s] = NoSource
    THEN \E k \in j + 1 .. Len(order) :
           /\ index[order[k]].session # s
           /\ \E r \in Request : Id[r] = order[k] /\ SessionOf[r] = s
    ELSE \E k \in j .. Len(order) : order[k] = latest[s]

(* What a step copies is what its target calls for: as long as it is       *)
(* pinned, the source spells the tokens of the target's block and was      *)
(* computed under the same salt and adapter, whatever was evicted,         *)
(* reallocated or indexed since the source ended.                          *)
Content(c) ==
  SubSeq(FlattenSeq([k \in DOMAIN c.blocks |->
           LET t == hash[c.blocks[k]].tokens IN SubSeq(t, Len(t) - BlockSize + 1, Len(t))]),
         c.offset + 1, c.offset + BlockSize)

CopiesMatchTheirTargets ==
  \A l \in leases : \A c \in l.copies :
    /\ \A b \in ToSet(c.blocks) : b \in l.pins /\ hash[b] # NoHash
                                  /\ hash[b].domain = Domain[l.req]
    /\ Content(c) = Spelled(Prompt[l.req], (c.target - 1) * BlockSize)

(* retain_resident_sources: "The hash-and-ID residency check above         *)
(* prevents retaining a reassigned block": a block pinned for a copy is    *)
(* the one the plan was made for.                                          *)
NoReassignedBlockIsRetained ==
  \A l \in leases : \A c \in l.copies : hash[c.blocks[1]] = c.hash
=============================================================================
