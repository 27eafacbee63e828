---------------------------- MODULE MCUtxoBlocks ----------------------------
(***************************************************************************)
(* A chain and a fork for UtxoBlocks.  A, B and C are coinbases.  T and S  *)
(* are mined together in b3, T in a2 and S in a3 on the other branch.  S   *)
(* spends T, and both spend outputs of A, T the randpay output too.  x3    *)
(* holds S twice and is refused.  Heights 1 and 2 are fork heights: when   *)
(* a2 is disconnected the output of A that T spends is not restored.       *)
(***************************************************************************)
EXTENDS UtxoBlocks, TLC

MCTxids == {"A", "B", "C", "T", "S", "R"}
MCOuts == {0, 1}

MCPrev == [g |-> NullHash, a1 |-> "g", a2 |-> "a1", b2 |-> "a1", a3 |-> "a2", b3 |-> "b2",
           x3 |-> "a2"]
MCVtx == [g |-> <<>>, a1 |-> <<"A">>, a2 |-> <<"B", "T">>, b2 |-> <<"B">>,
          a3 |-> <<"C", "S">>, b3 |-> <<"C", "T", "S">>, x3 |-> <<"C", "S", "S">>]
MCVin == [A |-> <<>>, B |-> <<>>, C |-> <<>>, T |-> <<<<"A", 0>>, <<"R", 0>>>>,
          S |-> <<<<"T", 0>>, <<"A", 1>>>>, R |-> <<>>]
MCVout == [A |-> {0, 1}, B |-> {0}, C |-> {0}, T |-> {0}, S |-> {0}, R |-> {0}]

\* The hypothesis of CoinsAreReplay holds of this instance.
ASSUME OnceOnly
=============================================================================
