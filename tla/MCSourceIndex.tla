--------------------------- MODULE MCSourceIndex ---------------------------
(* a1 and a2 are requests of two sessions under one id, with other        *)
(* prompts and salts.  b is a turn of the second session, holds a window   *)
(* of a1 across a block boundary, and is the source a1 names.  c is the    *)
(* next turn of the first session.                                         *)
EXTENDS SourceIndex, TLC

CONSTANTS a1, a2, b, c, sA, sB, idA, idB, idC

MCId      == (a1 :> idA @@ a2 :> idA @@ b :> idB @@ c :> idC)
MCPrompt  == (a1 :> <<1, 2, 3, 4>> @@ a2 :> <<5, 6, 3, 4>>
              @@ b :> <<7, 1, 2, 3>> @@ c :> <<9, 9, 2, 3>>)
MCDomain  == [r \in Request |-> IF r = a2 THEN "salted" ELSE "plain"]
MCSession == (a1 :> sA @@ a2 :> sB @@ b :> sB @@ c :> sA)
MCNamed   == [r \in Request |-> IF r = a1 THEN idB ELSE NoSource]

BlockSymmetry == Permutations(Block)
=============================================================================
