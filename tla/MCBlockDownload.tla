--------------------------- MODULE MCBlockDownload ---------------------------
EXTENDS BlockDownload, TLC

\* g - x1, on x1 the block a2 and the invalid block b2
ForkParent == ("x1" :> "g" @@ "a2" :> "x1" @@ "b2" :> "x1")
ForkTrust == ("g" :> 1 @@ "x1" :> 2 @@ "a2" :> 3 @@ "b2" :> 4)
ForkServes == ("p" :> "a2" @@ "q" :> "b2")
=============================================================================
