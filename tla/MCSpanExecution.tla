--------------------------- MODULE MCSpanExecution ---------------------------
(* a reuses blocks of a long prompt, b only decodes beside it, c wants just *)
(* its second block reused.                                                 *)
EXTENDS SpanExecution, TLC

CONSTANTS a, b, c

MCPrompt     == Restrict(a :> 9 @@ b :> 2 @@ c :> 5, Request)
MCOutputs    == Restrict(a :> 2 @@ b :> 3 @@ c :> 1, Request)
MCCached     == Restrict(a :> 2 @@ b :> 0 @@ c :> 0, Request)
MCCandidates == Restrict(a :> {1, 2, 3} @@ b :> {} @@ c :> {0, 1}, Request)
MCAffected   == Restrict(a :> {2, 3} @@ b :> {} @@ c :> {0, 1}, Request)
MCRepacked   == Restrict(a :> {3} @@ b :> {} @@ c :> {}, Request)
MCNone       == [r \in Request |-> NoBlock]
MCOnly       == Restrict(a :> NoBlock @@ b :> NoBlock @@ c :> 1, Request)
=============================================================================
