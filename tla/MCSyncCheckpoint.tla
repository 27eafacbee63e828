--------------------------- MODULE MCSyncCheckpoint ---------------------------
(* Synchronised checkpoints on two trees of blocks.                          *)
EXTENDS SyncCheckpoint, TLC

\* Two branches of three blocks: the second one overtakes the first with its last
\* block.
TwoParent == "a1" :> "g" @@ "a2" :> "a1" @@ "a3" :> "a2" @@ "b1" :> "g" @@ "b2" :> "b1" @@ "b3" :> "b2"
TwoTrust  == "g" :> 1 @@ "a1" :> 2 @@ "a2" :> 4 @@ "a3" :> 5 @@ "b1" :> 3 @@ "b2" :> 4 @@ "b3" :> 6
TwoBlocks == DOMAIN TwoTrust
TwoAddress == "g" :> 1 @@ "a1" :> 2 @@ "a2" :> 3 @@ "a3" :> 4 @@ "b1" :> 5 @@ "b2" :> 6 @@ "b3" :> 7

\* The first branch has two blocks, and a third branch has one that can be found
\* invalid: trying it sends the active chain back to genesis for a moment.
ThreeParent == "a1" :> "g" @@ "a2" :> "a1" @@ "b1" :> "g" @@ "b2" :> "b1" @@ "b3" :> "b2" @@ "c1" :> "g"
ThreeTrust  == "g" :> 1 @@ "a1" :> 2 @@ "a2" :> 4 @@ "b1" :> 3 @@ "b2" :> 4 @@ "b3" :> 6 @@ "c1" :> 5
ThreeBlocks == DOMAIN ThreeTrust
ThreeAddress == "g" :> 1 @@ "a1" :> 2 @@ "a2" :> 3 @@ "b1" :> 4 @@ "b2" :> 5 @@ "b3" :> 6 @@ "c1" :> 7
=============================================================================
