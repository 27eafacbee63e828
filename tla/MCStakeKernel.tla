---------------------------- MODULE MCStakeKernel ----------------------------
(***************************************************************************)
(* A chain of up to six blocks over the genesis block.  A block may lie a  *)
(* little before its parent, in the same modifier interval or in a later   *)
(* one, or after a pause longer than the selection interval.               *)
(***************************************************************************)
EXTENDS StakeKernel, TLC

MCBlockHash == (0 :> 3) @@ (1 :> 6) @@ (2 :> 1) @@ (3 :> 5) @@ (4 :> 0) @@ (5 :> 2) @@ (6 :> 4)
MCSelectionHash(b, m) == (5 * MCBlockHash[b] + 3 * Cardinality(m) + 2) % 11
MCDelays == {-2, 0, 1, 4, 9}
=============================================================================
