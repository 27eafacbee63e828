---------------------------- MODULE MCNameIndex ----------------------------
(* Instances of NameIndex: which transactions exist and how blocks may     *)
(* combine them.                                                           *)
EXTENDS NameIndex, TLC

Free == 0..100

T(h, op, n, a, days, vin) ==
    [hash |-> h, op |-> op, name |-> n, addr |-> a, days |-> days, vin |-> vin,
     feeHeights |-> Free, generated |-> FALSE]

\* Two competing registrations of "a", an update, a delete and a re-registration.
ReorgTx ==
    { T("n1", "new", "a", "x", 1, {}),
      T("u1", "update", "a", "y", 1, {<<"n1", 0>>}),
      T("u2", "update", "a", "y", 0, {<<"u1", 0>>}),
      T("d1", "delete", "a", "x", -1, {<<"n1", 0>>}),
      [T("n2", "new", "a", "y", 2, {}) EXCEPT !.feeHeights = {2, 3, 4}],
      T("n3", "new", "b", "x", 1, {}),
      T("p1", "none", "b", "x", 0, {<<"n3", 0>>}) }

Pairs(S) == {<<s, t>> : s \in S, t \in S}
BlocksUpTo2(S) == {<<>>} \cup {<<t>> : t \in S} \cup {p \in Pairs(S) : p[1] # p[2]}

\* Blocks as miners running this node's mempool make them: CheckPendingNames
\* admits one operation per name, so a block holds at most one.  Two registrations
\* of one name, of which the index takes the first, are let in as well.
OneOpPerName(b) ==
    \A i, j \in DOMAIN b : i # j /\ b[i].op # "none" /\ b[j].op # "none" => b[i].name # b[j].name

\* One name, a long history and one transaction per block.
LongTx ==
    { T("n1", "new", "a", "x", 1, {}),
      T("u1", "update", "a", "y", 1, {<<"n1", 0>>}),
      T("u2", "update", "a", "x", 0, {<<"u1", 0>>}),
      T("d1", "delete", "a", "x", -1, {<<"n1", 0>>}),
      T("n2", "new", "a", "y", 1, {}),
      T("d2", "delete", "a", "x", -1, {<<"n2", 0>>}) }
LongBlocks == {<<>>} \cup {<<t>> : t \in LongTx}

BothNew(b) == b # <<>> /\ \A i \in DOMAIN b : b[i].op = "new"
ReorgBlocks == {b \in BlocksUpTo2(ReorgTx) : OneOpPerName(b) \/ BothNew(b)}
=============================================================================
