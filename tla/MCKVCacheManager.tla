-------------------------- MODULE MCKVCacheManager --------------------------
(* r1 and r2 share a prefix of one block and then differ; r3 shares none,  *)
(* so that it can push the cached blocks of the others out of the pool.    *)
(* Blocks hold two tokens; a request may leave its last one partly filled. *)
EXTENDS KVCacheManager, TLC

CONSTANTS r1, r2, r3

MCHash         == {"a", "ab", "ad", "e", "ef"}
MCPromptTokens == (r1 :> 4 @@ r2 :> 4 @@ r3 :> 3)
MCMaxTokens    == (r1 :> 5 @@ r2 :> 4 @@ r3 :> 5)
MCHashes       == (r1 :> <<"a", "ab">> @@ r2 :> <<"a", "ad">> @@ r3 :> <<"e", "ef">>)

BlockSymmetry == Permutations(Block)
=============================================================================
