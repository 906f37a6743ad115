-------------------------- MODULE MCReuseScheduler --------------------------
(* r1 is the source of r2: the second prompt block of both holds the same  *)
(* tokens behind different first blocks.  r3 repeats the prompt of r1.     *)
(* Hashes are named by the tokens of the prefix, a letter per block.       *)
EXTENDS ReuseScheduler, TLC

CONSTANTS r1, r2, r3, r4

MCHash     == {"x", "xy", "xyo", "xyop", "z", "zy", "zyu", "zyup"}
MCPrompt   == Restrict(r1 :> 2 @@ r2 :> 3 @@ r3 :> 2, Request)
MCMax      == Restrict(r1 :> 4 @@ r2 :> 4 @@ r3 :> 4, Request)
MCHashes   == Restrict(r1 :> <<"x", "xy", "xyo", "xyop">>
                       @@ r2 :> <<"z", "zy", "zyu", "zyup">>
                       @@ r3 :> <<"x", "xy", "xyo", "xyop">>, Request)
MCSourceOf == Restrict(r1 :> NoSource @@ r2 :> r1 @@ r3 :> NoSource, Request)
MCWindows  == [r \in Request |->
                 IF r = r2 THEN {[target |-> 2, sources |-> {2}]} ELSE {}]

(* For the liveness properties, shorter: r3 starts like r2 and decodes two *)
(* tokens beside r1, so the two can exhaust the pool and one is preempted. *)
MCPromptShort == [MCPrompt EXCEPT ![r3] = 1]
MCMaxShort    == [MCMax EXCEPT ![r3] = 3]
MCHashesShort == [MCHashes EXCEPT ![r3] = <<"z", "zy", "zyu">>]

(* Blocks of two tokens; r4 is long enough to evict the source's blocks,   *)
(* and the prompt of r2 ends inside a block.                               *)
MCHash4     == {"x", "xy", "z", "zy", "zyu", "a", "ab", "abc", "abcd"}
MCPrompt4   == (r1 :> 4 @@ r2 :> 5 @@ r3 :> 4 @@ r4 :> 7)
MCMax4      == (r1 :> 5 @@ r2 :> 6 @@ r3 :> 5 @@ r4 :> 8)
MCHashes4   == (r1 :> <<"x", "xy">> @@ r2 :> <<"z", "zy", "zyu">>
                @@ r3 :> <<"x", "xy">> @@ r4 :> <<"a", "ab", "abc", "abcd">>)
MCSourceOf4 == (r1 :> NoSource @@ r2 :> r1 @@ r3 :> NoSource @@ r4 :> NoSource)

BlockSymmetry == Permutations(Block)
=============================================================================
