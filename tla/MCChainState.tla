---------------------------- MODULE MCChainState ----------------------------
(* Instances of ChainState: small trees of blocks.                         *)
EXTENDS ChainState, TLC

\* Two branches from genesis; the longer one forks again, with a tie of a2 and c2.
ForkParent == "a1" :> "g" @@ "a2" :> "a1" @@ "a3" :> "a2" @@ "c2" :> "a1" @@ "b1" :> "g"
ForkTrust  == "g" :> 1 @@ "a1" :> 2 @@ "a2" :> 4 @@ "a3" :> 5 @@ "c2" :> 4 @@ "b1" :> 3
ForkBlocks == DOMAIN ForkTrust
ForkAddress == "g" :> 1 @@ "a1" :> 2 @@ "a2" :> 3 @@ "a3" :> 4 @@ "c2" :> 5 @@ "b1" :> 6

\* The other branch goes on to a third height and wins in the end.
LongParent == ForkParent @@ "b2" :> "b1" @@ "b3" :> "b2"
LongTrust  == ForkTrust @@ "b2" :> 4 @@ "b3" :> 6
LongBlocks == DOMAIN LongTrust
LongAddress == ForkAddress @@ "b2" :> 7 @@ "b3" :> 8
=============================================================================
