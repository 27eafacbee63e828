------------------------------ MODULE MCAddrMan ------------------------------
(***************************************************************************)
(* Three addresses that collide pairwise: a and b in a "tried" slot and in *)
(* a "new" slot of bucket 1, b and c in a "new" slot of bucket 2.          *)
(***************************************************************************)
EXTENDS AddrMan, TLC

MCNewBucket == (<<"a", "s">> :> 1 @@ <<"a", "t">> :> 2 @@ <<"b", "s">> :> 1
                @@ <<"b", "t">> :> 2 @@ <<"c", "s">> :> 2 @@ <<"c", "t">> :> 1)
MCPosition == (<<1, "a">> :> 1 @@ <<1, "b">> :> 1 @@ <<1, "c">> :> 2
               @@ <<2, "a">> :> 2 @@ <<2, "b">> :> 1 @@ <<2, "c">> :> 1)
MCTriedSlot == ("a" :> 1 @@ "b" :> 1 @@ "c" :> 2)
=============================================================================
