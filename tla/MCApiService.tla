---------------------------- MODULE MCApiService ----------------------------
(* Two concurrent requests against a node committing two blocks; the     *)
(* contract and its callee are deployed, and the transaction included,   *)
(* in block 1.                                                           *)
EXTENDS ApiService, TLC

CONSTANTS r1, r2

MCReqs == {r1, r2}

MCSymmetry == Permutations(MCReqs)
=============================================================================
