--------------------------- MODULE MCRequestLedger ---------------------------
(* A benchmark process with two threads and a second process on the same    *)
(* ledger, which may also be the one started after a crash of the first.    *)
EXTENDS RequestLedger, TLC

CONSTANTS p1, p2, w1, w2, w3, r1, r2, r3

MCProcessOf == (w1 :> p1 @@ w2 :> p1 @@ w3 :> p2)
MCOwnerOf   == (r1 :> w1 @@ r2 :> w2 @@ r3 :> w3)
=============================================================================
