----------------------------- MODULE MCGDNReuse -----------------------------
(* a is the source of b, whose second block repeats the second of a behind  *)
(* another first one.  c decodes beside them and, longer than a sidecar,    *)
(* pushes operators out.                                                    *)
EXTENDS GDNReuse, TLC

CONSTANTS a, b, c

MCBlocks == Restrict(a :> <<"x", "y">> @@ b :> <<"u", "y", "x">> @@ c :> <<"v", "x">>, Request)
MCTail   == Restrict(a :> 0 @@ b :> 1 @@ c :> 0, Request)
MCSalt   == [r \in Request |-> IF r = c THEN "t" ELSE "s"]
MCSource == Restrict(a :> NoSource @@ b :> a @@ c :> b, Request)
MCKey    == ContextKeys
=============================================================================
