--------------------------- MODULE MCNameMempool ---------------------------
(* Instances of NameMempool.                                               *)
EXTENDS NameMempool, TLC

T(h, op, n, vin) ==
    [hash |-> h, op |-> op, name |-> n, addr |-> "x", days |-> 5, vin |-> vin,
     feeHeights |-> 0..100, generated |-> FALSE]

\* A name with two rival updates (one of the name output, one of the change),
\* an update of an update, and a payment that conflicts with an update.
PoolTx ==
    { T("n1", "new", "a", {}),
      T("u1", "update", "a", {<<"n1", 0>>}),
      T("u2", "update", "a", {<<"u1", 0>>}),
      T("r1", "update", "a", {<<"n1", 1>>}),
      T("p1", "none", "a", {<<"n1", 0>>}) }

\* One transaction per block, or two operations on one name, dependent on each
\* other or not.
PoolBlocks ==
    LET Named(h) == CHOOSE t \in PoolTx : t.hash = h
    IN  {<<>>} \cup {<<t>> : t \in PoolTx}
        \cup {<<Named("n1"), Named("u1")>>, <<Named("u1"), Named("r1")>>}
=============================================================================
