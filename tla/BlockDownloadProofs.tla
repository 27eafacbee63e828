------------------------- MODULE BlockDownloadProofs -------------------------
(* Theorems about the blocks in flight, for every finite set of peers,      *)
(* every tree of blocks, all limits and whatever the peers do.              *)
EXTENDS BlockDownload, FiniteSetTheorems, WellFoundedInduction, TLAPS

(***************************************************************************)
(* Recursion.                                                              *)
(***************************************************************************)

\* A set of naturals has a least element.
LEMMA LeastNatural ==
    ASSUME NEW T \in SUBSET Nat, T # {}
    PROVE  \E n \in T : \A m \in T : n <= m
<1>0. IsWellFoundedOn(OpToRel(<, Nat), Nat)
  BY NatLessThanWellFounded
<1>1. PICK n \in T : \A m \in T : ~(<<m, n>> \in OpToRel(<, Nat))
  BY <1>0, WFMin
<1>2. \A m \in T : ~(m < n)
  BY <1>1 DEF OpToRel
<1>3. ASSUME NEW m \in T PROVE n <= m
  <2>1. m \in Nat /\ n \in Nat /\ ~(m < n)
    BY <1>2
  <2> QED BY <2>1
<1> QED BY <1>3

\* The walk of Selected on a set of blocks that has the block below each of them.
WalkBody(F, S, b) ==
    IF b \in S THEN Append(IF b = Genesis THEN <<>> ELSE F[Parent[b]], b)
    ELSE IF b = Genesis THEN <<>> ELSE F[Parent[b]]
IsWalk(S, D, F) == F = [b \in D |-> WalkBody(F, S, b)]
Rooted(D) == D \subseteq Block /\ \A b \in D : b # Genesis => Parent[b] \in D

\* A set of blocks has one whose parent is not in it, or which has none.
LEMMA LowestBlock ==
    ASSUME NEW S \in SUBSET Block, S # {}
    PROVE  \E b \in S : b # Genesis => Parent[b] \notin S
<1>1. CASE Genesis \in S
  BY <1>1
<1>2. CASE Genesis \notin S
  <2>1. S \in SUBSET (Block \ {Genesis})
    BY <1>2
  <2> QED BY <2>1, TreeAssumption
<1> QED BY <1>1, <1>2

\* Two solutions agree on the blocks both have.
LEMMA WalkAgree ==
    ASSUME NEW S, NEW D, NEW E, Rooted(D), Rooted(E), NEW F, NEW G,
           IsWalk(S, D, F), IsWalk(S, E, G)
    PROVE  \A b \in D \cap E : F[b] = G[b]
<1> DEFINE T == {b \in D \cap E : F[b] # G[b]}
<1>1. ASSUME NEW b \in D \cap E PROVE F[b] = WalkBody(F, S, b) /\ G[b] = WalkBody(G, S, b)
  BY DEF IsWalk
<1>2. T \in SUBSET Block
  BY DEF Rooted
<1>3. SUFFICES ASSUME T # {} PROVE FALSE
  OBVIOUS
<1>4. PICK b \in T : b # Genesis => Parent[b] \notin T
  <2> HIDE DEF T
  <2> QED BY <1>2, <1>3, LowestBlock
<1>5. b \in D \cap E /\ F[b] # G[b]
  BY <1>4
<1>6. b # Genesis => F[Parent[b]] = G[Parent[b]]
  BY <1>4, <1>5 DEF Rooted
<1> QED BY <1>1, <1>5, <1>6 DEF WalkBody

\* F solves the recursion on a set with b in it, by sequences of blocks.
Walked(S, b, F) ==
    \E D : Rooted(D) /\ IsWalk(S, D, F) /\ b \in D /\ \A x \in D : F[x] \in Seq(Block)

\* Every block is reached: take one whose parent is, if it is not.
LEMMA WalkReached ==
    ASSUME NEW S, NEW b \in Block
    PROVE  \E F : Walked(S, b, F)
<1> DEFINE T == {h \in Block : ~\E F : Walked(S, h, F)}
<1>1. SUFFICES ASSUME T # {} PROVE FALSE
  OBVIOUS
<1>2. PICK h \in T : h # Genesis => Parent[h] \notin T
  <2>1. T \in SUBSET Block
    OBVIOUS
  <2> HIDE DEF T
  <2> QED BY <1>1, <2>1, LowestBlock
<1>3. h \in Block /\ ~\E F : Walked(S, h, F)
  BY <1>2
<1>4. CASE h = Genesis
  <2> DEFINE G == [x \in {} |-> <<>>]
             F == [x \in {h} |-> WalkBody(G, S, h)]
  <2>1. WalkBody(F, S, h) = WalkBody(G, S, h)
    BY <1>4 DEF WalkBody
  <2>2. IsWalk(S, {h}, F)
    BY <2>1 DEF IsWalk
  <2>3. Rooted({h})
    BY <1>3, <1>4 DEF Rooted
  <2>4. F[h] \in Seq(Block)
    BY <1>3, <1>4 DEF WalkBody
  <2> HIDE DEF F
  <2> QED BY <1>3, <2>2, <2>3, <2>4 DEF Walked
<1>5. CASE h # Genesis
  <2>1. Parent[h] \in Block
    BY <1>3, <1>5, TreeAssumption
  <2>2. PICK G : Walked(S, Parent[h], G)
    BY <1>2, <1>5, <2>1
  <2>3. PICK D : /\ Rooted(D) /\ IsWalk(S, D, G) /\ Parent[h] \in D
                 /\ \A x \in D : G[x] \in Seq(Block)
    BY <2>2 DEF Walked
  <2>4. h \notin D
    BY <1>3, <2>3 DEF Walked
  <2> DEFINE E == D \cup {h}
             F == [x \in E |-> IF x = h THEN WalkBody(G, S, h) ELSE G[x]]
  <2>5. Rooted(E)
    BY <1>3, <2>3 DEF Rooted
  <2>6. ASSUME NEW x \in E PROVE F[x] = WalkBody(F, S, x)
    <3>1. x # Genesis => F[Parent[x]] = G[Parent[x]]
      BY <2>3, <2>4 DEF Rooted
    <3>2. WalkBody(F, S, x) = WalkBody(G, S, x)
      <4> HIDE DEF F
      <4> QED BY <3>1 DEF WalkBody
    <3>3. CASE x = h
      BY <3>2, <3>3
    <3>4. CASE x # h
      <4>1. x \in D /\ G[x] = WalkBody(G, S, x)
        BY <2>3, <3>4 DEF IsWalk
      <4> QED BY <3>2, <3>4, <4>1
    <3> QED BY <3>3, <3>4
  <2>7. IsWalk(S, E, F)
    <3>1. F = [x \in E |-> F[x]]
      OBVIOUS
    <3> HIDE DEF F, E
    <3> QED BY <2>6, <3>1 DEF IsWalk
  <2>8. ASSUME NEW x \in E PROVE F[x] \in Seq(Block)
    <3>1. CASE x = h
      <4>1. G[Parent[h]] \in Seq(Block)
        BY <2>3
      <4>2. WalkBody(G, S, h) \in Seq(Block)
        BY <1>3, <1>5, <4>1 DEF WalkBody
      <4> QED BY <3>1, <4>2
    <3>2. CASE x # h
      BY <2>3, <3>2
    <3> QED BY <3>1, <3>2
  <2>9. Walked(S, h, F)
    <3>1. h \in E
      OBVIOUS
    <3> HIDE DEF F, E
    <3> QED BY <2>5, <2>7, <2>8, <3>1 DEF Walked
  <2> QED BY <1>3, <2>9
<1> QED BY <1>4, <1>5

\* What Selected gives is a sequence of blocks.
LEMMA SelectedType ==
    ASSUME NEW last \in Block, NEW S
    PROVE  Selected(last, S) \in Seq(Block)
<1> DEFINE P(b) == CHOOSE F : Walked(S, b, F)
           W == [b \in Block |-> P(b)[b]]
           V == CHOOSE F : IsWalk(S, Block, F)
<1>1. ASSUME NEW b \in Block PROVE Walked(S, b, P(b))
  BY WalkReached, Zenon
<1> HIDE DEF P
<1>2. ASSUME NEW b \in Block PROVE W[b] = WalkBody(W, S, b)
  <2>1. PICK D : Rooted(D) /\ IsWalk(S, D, P(b)) /\ b \in D
    BY <1>1 DEF Walked
  <2>2. P(b)[b] = WalkBody(P(b), S, b)
    BY <2>1 DEF IsWalk
  <2>3. ASSUME b # Genesis PROVE P(b)[Parent[b]] = W[Parent[b]]
    <3>1. Parent[b] \in D /\ Parent[b] \in Block
      BY <2>1, <2>3 DEF Rooted
    <3>2. PICK E : Rooted(E) /\ IsWalk(S, E, P(Parent[b])) /\ Parent[b] \in E
      BY <1>1, <3>1 DEF Walked
    <3>3. P(b)[Parent[b]] = P(Parent[b])[Parent[b]]
      BY <2>1, <3>1, <3>2, WalkAgree
    <3> QED BY <3>1, <3>3
  <2>4. WalkBody(P(b), S, b) = WalkBody(W, S, b)
    <3> HIDE DEF W
    <3> QED BY <2>3 DEF WalkBody
  <2> QED BY <2>2, <2>4
<1>3. IsWalk(S, Block, W)
  <2>1. W = [b \in Block |-> W[b]]
    OBVIOUS
  <2> HIDE DEF W
  <2> QED BY <1>2, <2>1 DEF IsWalk
<1>4. IsWalk(S, Block, V)
  BY <1>3, Zenon
<1>5. Rooted(Block)
  BY TreeAssumption DEF Rooted
<1>6. V[last] \in Seq(Block)
  <2>1. PICK D : /\ Rooted(D) /\ IsWalk(S, D, P(last)) /\ last \in D
                 /\ \A x \in D : P(last)[x] \in Seq(Block)
    BY <1>1 DEF Walked
  <2> HIDE DEF V
  <2>2. V[last] = P(last)[last]
    BY <1>4, <1>5, <2>1, WalkAgree
  <2> QED BY <2>1, <2>2
<1>7. Selected(last, S) = V[last]
  BY Zenon DEF Selected, IsWalk, WalkBody
<1> QED BY <1>6, <1>7

(***************************************************************************)
(* The books.                                                              *)
(***************************************************************************)

\* A queue has each of its blocks once.
Once(q) == \A i, j \in 1..Len(q) : q[i] = q[j] => i = j
Holds(q, b) == \E i \in 1..Len(q) : q[i] = b

Busy(n) == {p \in Peer : n[p] > 0}

BooksType(d) ==
    /\ d.mapBlocksInFlight \in [Block -> Peer \cup {NoPeer}]
    /\ d.vBlocksInFlight \in [Peer -> Seq(Block)]
    /\ d.nBlocksInFlight \in [Peer -> Nat]

\* The two sides of an entry: mapBlocksInFlight has the peer and its queue the block.
Matched(d) ==
    \A p \in Peer : \A b \in Block :
        Holds(d.vBlocksInFlight[p], b) <=> d.mapBlocksInFlight[b] = p

Counted(d) ==
    \A p \in Peer : /\ Once(d.vBlocksInFlight[p])
                    /\ d.nBlocksInFlight[p] = Len(d.vBlocksInFlight[p])

PeersCounted(d) == d.nPeersWithValidatedDownloads = Cardinality(Busy(d.nBlocksInFlight))

Books(d) == BooksType(d) /\ Matched(d) /\ Counted(d) /\ PeersCounted(d)

\* What RemoveAt gives, place by place.
LEMMA RemoveAtFacts ==
    ASSUME NEW q \in Seq(Block), NEW k \in 1..Len(q)
    PROVE  /\ RemoveAt(q, k) \in Seq(Block)
           /\ Len(RemoveAt(q, k)) = Len(q) - 1
           /\ \A i \in 1..(Len(q) - 1) : RemoveAt(q, k)[i] = IF i < k THEN q[i] ELSE q[i + 1]
<1> DEFINE s == SubSeq(q, 1, k - 1)
           t == SubSeq(q, k + 1, Len(q))
<1>0. Len(q) \in Nat /\ k \in Nat /\ 1 <= k /\ k <= Len(q)
  OBVIOUS
<1>1. s \in Seq(Block) /\ Len(s) = k - 1 /\ \A i \in 1..(k - 1) : s[i] = q[i]
  BY <1>0
<1>2. t \in Seq(Block) /\ Len(t) = Len(q) - k /\ \A i \in 1..(Len(q) - k) : t[i] = q[k + i]
  BY <1>0
<1>3. RemoveAt(q, k) = s \o t
  BY DEF RemoveAt
<1> HIDE DEF s, t
<1>4. s \o t \in Seq(Block) /\ Len(s \o t) = Len(q) - 1
  <2>0. s \in Seq(Block) /\ t \in Seq(Block)
    BY <1>1, <1>2
  <2>1. s \o t \in Seq(Block)
    BY <2>0
  <2>2. Len(s \o t) = Len(s) + Len(t)
    BY <2>0
  <2> QED BY <1>0, <1>1, <1>2, <2>1, <2>2
<1>5. ASSUME NEW i \in 1..(Len(q) - 1) PROVE (s \o t)[i] = IF i < k THEN q[i] ELSE q[i + 1]
  <2>1. CASE i < k
    BY <1>0, <1>1, <1>2, <2>1
  <2>2. CASE ~(i < k)
    <3>1. i - (k - 1) \in 1..(Len(q) - k) /\ k + (i - (k - 1)) = i + 1
      BY <1>0, <2>2
    <3>2. (s \o t)[i] = t[i - (k - 1)]
      BY <1>0, <1>1, <1>2, <2>2
    <3> QED BY <1>2, <2>2, <3>1, <3>2
  <2> QED BY <2>1, <2>2
<1> QED BY <1>3, <1>4, <1>5

\* A block is erased from a queue, and no other.
LEMMA EraseFacts ==
    ASSUME NEW q \in Seq(Block), NEW b \in Block, Once(q), Holds(q, b)
    PROVE  /\ Erase(q, b) \in Seq(Block) /\ Len(Erase(q, b)) = Len(q) - 1
           /\ Once(Erase(q, b))
           /\ \A x \in Block : Holds(Erase(q, b), x) <=> Holds(q, x) /\ x # b
<1> DEFINE k == CHOOSE i \in DOMAIN q : q[i] = b
           r == RemoveAt(q, k)
<1>0. Len(q) \in Nat /\ DOMAIN q = 1..Len(q)
  OBVIOUS
<1>1. k \in 1..Len(q) /\ q[k] = b
  BY <1>0 DEF Holds
<1>2. Erase(q, b) = r
  BY DEF Erase
<1> HIDE DEF k
<1>3. /\ r \in Seq(Block) /\ Len(r) = Len(q) - 1
      /\ \A i \in 1..(Len(q) - 1) : r[i] = IF i < k THEN q[i] ELSE q[i + 1]
  BY <1>1, RemoveAtFacts
<1> HIDE DEF r
<1>4. Once(r)
  <2>1. SUFFICES ASSUME NEW i \in 1..(Len(q) - 1), NEW j \in 1..(Len(q) - 1), r[i] = r[j]
                 PROVE  i = j
    BY <1>3 DEF Once
  <2>2. i \in 1..Len(q) /\ i + 1 \in 1..Len(q) /\ j \in 1..Len(q) /\ j + 1 \in 1..Len(q)
    BY <1>0
  <2>3. \A m, n \in 1..Len(q) : q[m] = q[n] => m = n
    BY DEF Once
  <2>4. (IF i < k THEN q[i] ELSE q[i + 1]) = (IF j < k THEN q[j] ELSE q[j + 1])
    BY <1>3, <2>1
  <2>5. CASE i < k /\ j < k
    BY <2>2, <2>3, <2>4, <2>5
  <2>6. CASE i < k /\ ~(j < k)
    <3>1. i = j + 1
      BY <2>2, <2>3, <2>4, <2>6
    <3> QED BY <1>0, <1>1, <2>6, <3>1
  <2>7. CASE ~(i < k) /\ j < k
    <3>1. i + 1 = j
      BY <2>2, <2>3, <2>4, <2>7
    <3> QED BY <1>0, <1>1, <2>7, <3>1
  <2>8. CASE ~(i < k) /\ ~(j < k)
    <3>1. i + 1 = j + 1
      BY <2>2, <2>3, <2>4, <2>8
    <3> QED BY <3>1
  <2> QED BY <2>5, <2>6, <2>7, <2>8
<1>5. ASSUME NEW x \in Block PROVE Holds(r, x) <=> Holds(q, x) /\ x # b
  <2>1. ASSUME Holds(r, x) PROVE Holds(q, x) /\ x # b
    <3>1. PICK i \in 1..(Len(q) - 1) : r[i] = x
      BY <1>3, <2>1 DEF Holds
    <3>2. i \in 1..Len(q) /\ i + 1 \in 1..Len(q)
      BY <1>0
    <3>3. CASE i < k
      <4>1. q[i] = x /\ i # k
        BY <1>0, <1>1, <1>3, <3>1, <3>3
      <4> QED BY <1>1, <3>2, <4>1 DEF Holds, Once
    <3>4. CASE ~(i < k)
      <4>1. q[i + 1] = x /\ i + 1 # k
        BY <1>0, <1>1, <1>3, <3>1, <3>4
      <4> QED BY <1>1, <3>2, <4>1 DEF Holds, Once
    <3> QED BY <3>3, <3>4
  <2>2. ASSUME Holds(q, x), x # b PROVE Holds(r, x)
    <3>1. PICK i \in 1..Len(q) : q[i] = x
      BY <2>2 DEF Holds
    <3>2. i # k
      BY <1>1, <2>2, <3>1
    <3>3. CASE i < k
      <4>1. i \in 1..(Len(q) - 1) /\ r[i] = x
        BY <1>0, <1>1, <1>3, <3>1, <3>3
      <4> QED BY <1>3, <4>1 DEF Holds
    <3>4. CASE i > k
      <4>1. i - 1 \in 1..(Len(q) - 1) /\ ~(i - 1 < k) /\ (i - 1) + 1 = i
        BY <1>0, <1>1, <3>4
      <4>2. r[i - 1] = x
        BY <1>3, <3>1, <4>1
      <4> QED BY <1>3, <4>1, <4>2 DEF Holds
    <3> QED BY <1>0, <1>1, <3>2, <3>3, <3>4
  <2> QED BY <2>1, <2>2
<1> QED BY <1>2, <1>3, <1>4, <1>5

\* A peer gets its first request, or loses its last one.
BusyStep(n, m, p) ==
    /\ (n[p] > 0 /\ m[p] = 0) => Cardinality(Busy(m)) = Cardinality(Busy(n)) - 1
    /\ (n[p] = 0 /\ m[p] > 0) => Cardinality(Busy(m)) = Cardinality(Busy(n)) + 1
    /\ (n[p] > 0 <=> m[p] > 0) => Cardinality(Busy(m)) = Cardinality(Busy(n))

LEMMA BusyFacts ==
    ASSUME NEW n \in [Peer -> Nat], NEW m \in [Peer -> Nat], NEW p \in Peer,
           \A q \in Peer \ {p} : m[q] = n[q]
    PROVE  BusyStep(n, m, p)
<1>1. IsFiniteSet(Busy(n))
  <2>1. Busy(n) \subseteq Peer
    BY DEF Busy
  <2> QED BY <2>1, PeerAssumption, FS_Subset
<1>2. \A q \in Peer : q # p => m[q] = n[q]
  OBVIOUS
<1>3. ASSUME n[p] > 0, m[p] = 0 PROVE Cardinality(Busy(m)) = Cardinality(Busy(n)) - 1
  <2>1. p \in Busy(n) /\ Busy(m) = Busy(n) \ {p}
    BY <1>2, <1>3 DEF Busy
  <2>2. Cardinality(Busy(n) \ {p}) = Cardinality(Busy(n)) - 1
    BY <1>1, <2>1, FS_RemoveElement
  <2> QED BY <2>1, <2>2
<1>4. ASSUME n[p] = 0, m[p] > 0 PROVE Cardinality(Busy(m)) = Cardinality(Busy(n)) + 1
  <2>1. p \notin Busy(n) /\ Busy(m) = Busy(n) \cup {p}
    BY <1>2, <1>4 DEF Busy
  <2>2. Cardinality(Busy(n) \cup {p}) = Cardinality(Busy(n)) + 1
    BY <1>1, <2>1, FS_AddElement
  <2> QED BY <2>1, <2>2
<1>5. ASSUME n[p] > 0 <=> m[p] > 0 PROVE Cardinality(Busy(m)) = Cardinality(Busy(n))
  <2>1. Busy(m) = Busy(n)
    BY <1>2, <1>5 DEF Busy
  <2> QED BY <2>1
<1> QED BY <1>3, <1>4, <1>5 DEF BusyStep

\* The books after a block is received: the queue of its peer and the map lose it.
ReceivedFrom(d, e, b, p) ==
    /\ e.mapBlocksInFlight = [d.mapBlocksInFlight EXCEPT ![b] = NoPeer]
    /\ e.vBlocksInFlight = [d.vBlocksInFlight EXCEPT ![p] = Erase(d.vBlocksInFlight[p], b)]
    /\ e.nBlocksInFlight = [d.nBlocksInFlight EXCEPT ![p] = d.nBlocksInFlight[p] - 1]
    /\ e.nPeersWithValidatedDownloads =
            IF d.nBlocksInFlight[p] = 1 THEN d.nPeersWithValidatedDownloads - 1
            ELSE d.nPeersWithValidatedDownloads

\* No peer has more blocks in flight than before.
NoMore(d, e) == \A p \in Peer : e.nBlocksInFlight[p] <= d.nBlocksInFlight[p]

LEMMA ReceivedKeepsBooks ==
    ASSUME NEW d, NEW e, NEW b \in Block, NEW p \in Peer, Books(d),
           d.mapBlocksInFlight[b] = p, ReceivedFrom(d, e, b, p)
    PROVE  Books(e) /\ NoMore(d, e)
<1> DEFINE q == d.vBlocksInFlight[p]
           r == Erase(q, b)
           n == d.nBlocksInFlight[p]
<1>1. /\ q \in Seq(Block) /\ Once(q) /\ Holds(q, b) /\ n = Len(q) /\ n \in Nat
      /\ p # NoPeer
  BY PeerAssumption DEF Books, BooksType, Matched, Counted
<1>2. /\ r \in Seq(Block) /\ Len(r) = n - 1 /\ Once(r)
      /\ \A x \in Block : Holds(r, x) <=> Holds(q, x) /\ x # b
  BY <1>1, EraseFacts
<1>3. n - 1 \in Nat
  <2>1. Len(r) \in Nat
    BY <1>2
  <2> QED BY <1>2, <2>1
<1>4. /\ e.mapBlocksInFlight = [d.mapBlocksInFlight EXCEPT ![b] = NoPeer]
      /\ e.vBlocksInFlight = [d.vBlocksInFlight EXCEPT ![p] = r]
      /\ e.nBlocksInFlight = [d.nBlocksInFlight EXCEPT ![p] = n - 1]
      /\ e.nPeersWithValidatedDownloads =
            IF n = 1 THEN d.nPeersWithValidatedDownloads - 1
            ELSE d.nPeersWithValidatedDownloads
  BY DEF ReceivedFrom
<1>5. /\ d.mapBlocksInFlight \in [Block -> Peer \cup {NoPeer}]
      /\ d.vBlocksInFlight \in [Peer -> Seq(Block)]
      /\ d.nBlocksInFlight \in [Peer -> Nat]
  BY DEF Books, BooksType
<1>6. q = d.vBlocksInFlight[p] /\ n = d.nBlocksInFlight[p]
  OBVIOUS
<1> HIDE DEF q, r, n
<1>7. BooksType(e)
  BY <1>2, <1>3, <1>4, <1>5 DEF BooksType
<1>8. Matched(e)
  <2>1. SUFFICES ASSUME NEW s \in Peer, NEW x \in Block
                 PROVE  Holds(e.vBlocksInFlight[s], x) <=> e.mapBlocksInFlight[x] = s
    BY DEF Matched
  <2>2. Holds(d.vBlocksInFlight[s], x) <=> d.mapBlocksInFlight[x] = s
    BY DEF Books, Matched
  <2>3. CASE s = p
    BY <1>1, <1>2, <1>4, <1>5, <1>6, <2>2, <2>3
  <2>4. CASE s # p
    <3>1. e.vBlocksInFlight[s] = d.vBlocksInFlight[s]
      BY <1>4, <1>5, <2>4
    <3>2. x = b => d.mapBlocksInFlight[x] # s /\ e.mapBlocksInFlight[x] # s
      BY <1>4, <1>5, <2>4, PeerAssumption
    <3>3. x # b => e.mapBlocksInFlight[x] = d.mapBlocksInFlight[x]
      BY <1>4, <1>5
    <3> QED BY <2>2, <3>1, <3>2, <3>3
  <2> QED BY <2>3, <2>4
<1>9. Counted(e)
  BY <1>2, <1>4, <1>5 DEF Books, Counted
<1>10. PeersCounted(e)
  <2> DEFINE f == d.nBlocksInFlight
             g == e.nBlocksInFlight
  <2>1. /\ f \in [Peer -> Nat] /\ g \in [Peer -> Nat] /\ f[p] = n /\ g[p] = n - 1
        /\ \A s \in Peer \ {p} : g[s] = f[s]
    BY <1>3, <1>4, <1>5, <1>6
  <2>2. n > 0
    BY <1>1, <1>3
  <2>3. d.nPeersWithValidatedDownloads = Cardinality(Busy(f))
    BY DEF Books, PeersCounted
  <2>4. e.nPeersWithValidatedDownloads =
            IF n = 1 THEN Cardinality(Busy(f)) - 1 ELSE Cardinality(Busy(f))
    BY <1>4, <2>3
  <2> HIDE DEF f, g
  <2>5. BusyStep(f, g, p)
    BY <2>1, BusyFacts
  <2>6. e.nPeersWithValidatedDownloads = Cardinality(Busy(g))
    BY <1>1, <2>1, <2>2, <2>4, <2>5 DEF BusyStep
  <2> QED BY <2>6 DEF PeersCounted, g
<1>11. NoMore(d, e)
  BY <1>1, <1>4, <1>5, <1>6 DEF NoMore
<1> QED BY <1>7, <1>8, <1>9, <1>10, <1>11 DEF Books

\* MarkBlockAsReceived keeps the books, and the block is not in flight after it.
LEMMA MarkedReceived ==
    ASSUME NEW d, NEW b \in Block, Books(d)
    PROVE  /\ Books(MarkBlockAsReceived(d, b)) /\ NoMore(d, MarkBlockAsReceived(d, b))
           /\ MarkBlockAsReceived(d, b).mapBlocksInFlight[b] = NoPeer
<1> DEFINE p == d.mapBlocksInFlight[b]
           e == MarkBlockAsReceived(d, b)
<1>1. CASE p = NoPeer
  <2>1. e = d
    BY <1>1 DEF MarkBlockAsReceived
  <2>2. \A s \in Peer : d.nBlocksInFlight[s] \in Nat
    BY DEF Books, BooksType
  <2>3. NoMore(d, d)
    BY <2>2 DEF NoMore
  <2> QED BY <1>1, <2>1, <2>3
<1>2. CASE p # NoPeer
  <2>1. p \in Peer /\ d.mapBlocksInFlight \in [Block -> Peer \cup {NoPeer}]
    BY <1>2 DEF Books, BooksType
  <2>2. ReceivedFrom(d, e, b, p)
    BY <1>2 DEF MarkBlockAsReceived, ReceivedFrom
  <2> HIDE DEF p, e
  <2>3. Books(e) /\ NoMore(d, e)
    BY <2>1, <2>2, ReceivedKeepsBooks DEF p
  <2>4. e.mapBlocksInFlight[b] = NoPeer
    BY <2>1, <2>2 DEF ReceivedFrom
  <2> QED BY <2>3, <2>4 DEF e
<1> QED BY <1>1, <1>2

\* A block that is not in flight is queued.
LEMMA QueuedKeepsBooks ==
    ASSUME NEW d, NEW b \in Block, NEW p \in Peer, Books(d), d.mapBlocksInFlight[b] = NoPeer
    PROVE  /\ Books(Queued(d, p, b))
           /\ Queued(d, p, b).nBlocksInFlight =
                [d.nBlocksInFlight EXCEPT ![p] = d.nBlocksInFlight[p] + 1]
<1> DEFINE e == Queued(d, p, b)
           q == d.vBlocksInFlight[p]
           r == Append(q, b)
           n == d.nBlocksInFlight[p]
<1>1. /\ q \in Seq(Block) /\ Once(q) /\ ~Holds(q, b) /\ n = Len(q) /\ n \in Nat
      /\ p # NoPeer
  BY PeerAssumption DEF Books, BooksType, Matched, Counted
<1>2. r \in Seq(Block) /\ Len(r) = n + 1 /\ r[n + 1] = b /\ \A i \in 1..n : r[i] = q[i]
  BY <1>1
<1>3. \A x \in Block : Holds(r, x) <=> Holds(q, x) \/ x = b
  <2>1. \A i \in 1..(n + 1) : i \in 1..n \/ i = n + 1
    BY <1>1
  <2>2. n + 1 \in 1..(n + 1) /\ \A i \in 1..n : i \in 1..(n + 1)
    BY <1>1
  <2> HIDE DEF r, q, n
  <2> QED BY <1>1, <1>2, <2>1, <2>2 DEF Holds
<1>4. Once(r)
  <2>1. \A i \in 1..(n + 1) : i \in 1..n \/ i = n + 1
    BY <1>1
  <2>2. \A i \in 1..n : q[i] # b
    BY <1>1 DEF Holds
  <2>3. \A i, j \in 1..n : q[i] = q[j] => i = j
    BY <1>1 DEF Once
  <2> HIDE DEF r, q, n
  <2>4. \A i, j \in 1..(n + 1) : r[i] = r[j] => i = j
    BY <1>2, <2>1, <2>2, <2>3
  <2> QED BY <1>2, <2>4 DEF Once
<1>5. /\ e.mapBlocksInFlight = [d.mapBlocksInFlight EXCEPT ![b] = p]
      /\ e.vBlocksInFlight = [d.vBlocksInFlight EXCEPT ![p] = r]
      /\ e.nBlocksInFlight = [d.nBlocksInFlight EXCEPT ![p] = n + 1]
      /\ e.nPeersWithValidatedDownloads =
            IF n = 0 THEN d.nPeersWithValidatedDownloads + 1
            ELSE d.nPeersWithValidatedDownloads
  BY DEF Queued
<1>6. /\ d.mapBlocksInFlight \in [Block -> Peer \cup {NoPeer}]
      /\ d.vBlocksInFlight \in [Peer -> Seq(Block)]
      /\ d.nBlocksInFlight \in [Peer -> Nat]
  BY DEF Books, BooksType
<1>7. q = d.vBlocksInFlight[p] /\ n = d.nBlocksInFlight[p]
  OBVIOUS
<1> HIDE DEF q, r, n, e
<1>8. BooksType(e)
  BY <1>1, <1>2, <1>5, <1>6 DEF BooksType
<1>9. Matched(e)
  <2>1. SUFFICES ASSUME NEW s \in Peer, NEW x \in Block
                 PROVE  Holds(e.vBlocksInFlight[s], x) <=> e.mapBlocksInFlight[x] = s
    BY DEF Matched
  <2>2. Holds(d.vBlocksInFlight[s], x) <=> d.mapBlocksInFlight[x] = s
    BY DEF Books, Matched
  <2>3. CASE s = p
    BY <1>1, <1>3, <1>5, <1>6, <1>7, <2>2, <2>3
  <2>4. CASE s # p
    <3>1. e.vBlocksInFlight[s] = d.vBlocksInFlight[s]
      BY <1>5, <1>6, <2>4
    <3>2. x = b => d.mapBlocksInFlight[x] # s /\ e.mapBlocksInFlight[x] # s
      BY <1>5, <1>6, <2>4, PeerAssumption
    <3>3. x # b => e.mapBlocksInFlight[x] = d.mapBlocksInFlight[x]
      BY <1>5, <1>6
    <3> QED BY <2>2, <3>1, <3>2, <3>3
  <2> QED BY <2>3, <2>4
<1>10. Counted(e)
  BY <1>2, <1>4, <1>5, <1>6 DEF Books, Counted
<1>11. PeersCounted(e)
  <2> DEFINE f == d.nBlocksInFlight
             g == e.nBlocksInFlight
  <2>1. /\ f \in [Peer -> Nat] /\ g \in [Peer -> Nat] /\ f[p] = n /\ g[p] = n + 1
        /\ \A s \in Peer \ {p} : g[s] = f[s]
    BY <1>1, <1>5, <1>6, <1>7
  <2>3. d.nPeersWithValidatedDownloads = Cardinality(Busy(f))
    BY DEF Books, PeersCounted
  <2>4. e.nPeersWithValidatedDownloads =
            IF n = 0 THEN Cardinality(Busy(f)) + 1 ELSE Cardinality(Busy(f))
    BY <1>5, <2>3
  <2> HIDE DEF f, g
  <2>5. BusyStep(f, g, p)
    BY <2>1, BusyFacts
  <2>6. e.nPeersWithValidatedDownloads = Cardinality(Busy(g))
    BY <1>1, <2>1, <2>4, <2>5 DEF BusyStep
  <2> QED BY <2>6 DEF PeersCounted, g
<1>12. Books(e)
  BY <1>8, <1>9, <1>10, <1>11 DEF Books
<1> QED BY <1>5, <1>12 DEF e, n

\* e has k blocks more in flight from p than d, at most, and none from another peer.
AtMostMore(d, e, p, k) ==
    /\ e.nBlocksInFlight[p] <= d.nBlocksInFlight[p] + k
    /\ \A s \in Peer \ {p} : e.nBlocksInFlight[s] <= d.nBlocksInFlight[s]

LEMMA MarkedInFlight ==
    ASSUME NEW d, NEW b \in Block, NEW p \in Peer, Books(d)
    PROVE  /\ Books(MarkBlockAsInFlight(d, p, b))
           /\ AtMostMore(d, MarkBlockAsInFlight(d, p, b), p, 1)
<1>0. \A s \in Peer : d.nBlocksInFlight[s] \in Nat
  BY DEF Books, BooksType
<1>1. CASE d.mapBlocksInFlight[b] = p
  <2>1. MarkBlockAsInFlight(d, p, b) = d
    BY <1>1 DEF MarkBlockAsInFlight
  <2>2. AtMostMore(d, d, p, 1)
    BY <1>0 DEF AtMostMore
  <2> QED BY <2>1, <2>2
<1>2. CASE d.mapBlocksInFlight[b] # p
  <2> DEFINE e == MarkBlockAsReceived(d, b)
             f == Queued(e, p, b)
  <2>1. MarkBlockAsInFlight(d, p, b) = f
    BY <1>2 DEF MarkBlockAsInFlight
  <2>2. Books(e) /\ NoMore(d, e) /\ e.mapBlocksInFlight[b] = NoPeer
    BY MarkedReceived
  <2> HIDE DEF e
  <2>3. /\ Books(f)
        /\ f.nBlocksInFlight = [e.nBlocksInFlight EXCEPT ![p] = e.nBlocksInFlight[p] + 1]
    BY <2>2, QueuedKeepsBooks
  <2> HIDE DEF f
  <2>4. e.nBlocksInFlight \in [Peer -> Nat]
    BY <2>2 DEF Books, BooksType
  <2>5. AtMostMore(d, f, p, 1)
    BY <1>0, <2>2, <2>3, <2>4 DEF AtMostMore, NoMore
  <2> QED BY <2>1, <2>3, <2>5
<1> QED BY <1>1, <1>2

\* The function of MarkAll, up to block N of the sequence.
MarksBody(F, d, p, blocks, k) ==
    IF k = 0 THEN d ELSE MarkBlockAsInFlight(F[k - 1], p, blocks[k])
IsMarks(d, p, blocks, N, F) == F = [k \in 0..N |-> MarksBody(F, d, p, blocks, k)]

\* The recursion has a solution,
LEMMA MarksExist ==
    ASSUME NEW d, NEW p, NEW blocks, NEW N \in Nat
    PROVE  \E F : IsMarks(d, p, blocks, N, F)
<1> DEFINE T == {k \in Nat : ~\E F : IsMarks(d, p, blocks, k, F)}
<1>1. SUFFICES ASSUME T # {} PROVE FALSE
  OBVIOUS
<1>2. PICK m \in T : \A k \in T : m <= k
  <2>1. T \in SUBSET Nat
    OBVIOUS
  <2> HIDE DEF T
  <2> QED BY <1>1, <2>1, LeastNatural
<1>3. m \in Nat /\ ~\E F : IsMarks(d, p, blocks, m, F)
  BY <1>2
<1>4. CASE m = 0
  <2> DEFINE F == [k \in 0..0 |-> d]
  <2>1. \A k \in 0..0 : MarksBody(F, d, p, blocks, k) = d
    BY DEF MarksBody
  <2>2. F = [k \in 0..0 |-> MarksBody(F, d, p, blocks, k)]
    BY <2>1
  <2> QED BY <1>3, <1>4, <2>2 DEF IsMarks
<1>5. CASE m # 0
  <2>1. m - 1 \in Nat /\ ~(m <= m - 1)
    BY <1>3, <1>5
  <2>2. m - 1 \notin T
    <3> HIDE DEF T
    <3> QED BY <1>2, <2>1
  <2>3. PICK G : IsMarks(d, p, blocks, m - 1, G)
    BY <2>1, <2>2
  <2> DEFINE F == [k \in 0..m |-> IF k < m THEN G[k] ELSE MarksBody(G, d, p, blocks, m)]
  <2>4. ASSUME NEW k \in 0..m PROVE F[k] = MarksBody(F, d, p, blocks, k)
    <3>1. k \in Int /\ m \in Int /\ (k = 0 \/ k - 1 \in 0..(m - 1))
      BY <1>3
    <3>2. k # 0 => k - 1 \in 0..m /\ k - 1 < m /\ F[k - 1] = G[k - 1]
      BY <1>3, <3>1
    <3>3. MarksBody(F, d, p, blocks, k) = MarksBody(G, d, p, blocks, k)
      <4> HIDE DEF F
      <4> QED BY <3>2 DEF MarksBody
    <3>4. CASE k < m
      <4>1. k \in 0..(m - 1)
        BY <1>3, <3>4
      <4>2. G[k] = MarksBody(G, d, p, blocks, k)
        BY <2>3, <4>1 DEF IsMarks
      <4> QED BY <3>3, <3>4, <4>2
    <3>5. CASE k = m
      BY <1>3, <3>3, <3>5
    <3> QED BY <1>3, <3>4, <3>5
  <2>5. F = [k \in 0..m |-> MarksBody(F, d, p, blocks, k)]
    <3>1. DOMAIN F = 0..m /\ F = [k \in 0..m |-> F[k]]
      OBVIOUS
    <3> HIDE DEF F
    <3> QED BY <2>4, <3>1
  <2> QED BY <1>3, <2>5 DEF IsMarks
<1> QED BY <1>4, <1>5

\* and whatever it is, it keeps the books.
LEMMA MarksKeepBooks ==
    ASSUME NEW d, NEW p \in Peer, NEW blocks \in Seq(Block), Books(d), NEW F,
           IsMarks(d, p, blocks, Len(blocks), F)
    PROVE  \A k \in 0..Len(blocks) : Books(F[k]) /\ AtMostMore(d, F[k], p, k)
<1> DEFINE N == Len(blocks)
           T == {k \in 0..N : ~(Books(F[k]) /\ AtMostMore(d, F[k], p, k))}
<1>0. N \in Nat /\ \A s \in Peer : d.nBlocksInFlight[s] \in Nat
  BY DEF Books, BooksType
<1>1. SUFFICES ASSUME T # {} PROVE FALSE
  OBVIOUS
<1>2. PICK m \in T : \A k \in T : m <= k
  <2>1. T \in SUBSET Nat
    BY <1>0
  <2> HIDE DEF T
  <2> QED BY <1>1, <2>1, LeastNatural
<1>3. m \in 0..N /\ ~(Books(F[m]) /\ AtMostMore(d, F[m], p, m))
  BY <1>2
<1>4. F[m] = MarksBody(F, d, p, blocks, m)
  BY <1>3 DEF IsMarks
<1>5. CASE m = 0
  <2>1. F[m] = d
    BY <1>4, <1>5 DEF MarksBody
  <2>2. AtMostMore(d, d, p, 0)
    BY <1>0 DEF AtMostMore
  <2> QED BY <1>3, <1>5, <2>1, <2>2
<1>6. CASE m # 0
  <2> DEFINE j == m - 1
             b == blocks[m]
  <2>1. j \in 0..N /\ ~(m <= j) /\ m = j + 1 /\ j \in Nat /\ b \in Block
    BY <1>0, <1>3, <1>6
  <2>2. F[m] = MarkBlockAsInFlight(F[j], p, b)
    BY <1>4, <1>6 DEF MarksBody
  <2> HIDE DEF j, b
  <2>3. j \notin T
    <3> HIDE DEF T
    <3> QED BY <1>2, <2>1
  <2>4. Books(F[j]) /\ AtMostMore(d, F[j], p, j)
    BY <2>1, <2>3
  <2> DEFINE e == F[j]
             f == F[m]
  <2>5. f = MarkBlockAsInFlight(e, p, b) /\ Books(e) /\ AtMostMore(d, e, p, j)
    BY <2>2, <2>4
  <2> HIDE DEF e, f
  <2>6. Books(f) /\ AtMostMore(e, f, p, 1)
    BY <2>1, <2>5, MarkedInFlight
  <2>7. \A s \in Peer : e.nBlocksInFlight[s] \in Nat /\ f.nBlocksInFlight[s] \in Nat
    BY <2>5, <2>6 DEF Books, BooksType
  <2>8. AtMostMore(d, f, p, j + 1)
    <3>1. f.nBlocksInFlight[p] <= d.nBlocksInFlight[p] + (j + 1)
      <4>1. /\ f.nBlocksInFlight[p] <= e.nBlocksInFlight[p] + 1
            /\ e.nBlocksInFlight[p] <= d.nBlocksInFlight[p] + j
        BY <2>5, <2>6 DEF AtMostMore
      <4> QED BY <1>0, <2>1, <2>7, <4>1
    <3>2. ASSUME NEW s \in Peer \ {p}
          PROVE  f.nBlocksInFlight[s] <= d.nBlocksInFlight[s]
      <4>1. /\ f.nBlocksInFlight[s] <= e.nBlocksInFlight[s]
            /\ e.nBlocksInFlight[s] <= d.nBlocksInFlight[s]
        BY <2>5, <2>6 DEF AtMostMore
      <4> QED BY <1>0, <2>7, <4>1
    <3> QED BY <3>1, <3>2 DEF AtMostMore
  <2>9. Books(F[m]) /\ AtMostMore(d, F[m], p, m)
    BY <2>1, <2>6, <2>8 DEF f
  <2> QED BY <1>3, <2>9
<1> QED BY <1>5, <1>6

LEMMA MarkedAll ==
    ASSUME NEW d, NEW p \in Peer, NEW blocks \in Seq(Block), Books(d)
    PROVE  Books(MarkAll(d, p, blocks)) /\ AtMostMore(d, MarkAll(d, p, blocks), p, Len(blocks))
<1> DEFINE N == Len(blocks)
           G == CHOOSE F : IsMarks(d, p, blocks, N, F)
<1>0. N \in Nat /\ N \in 0..N
  OBVIOUS
<1>1. \E F : IsMarks(d, p, blocks, N, F)
  BY <1>0, MarksExist
<1>2. IsMarks(d, p, blocks, N, G)
  BY <1>1, Zenon
<1>3. MarkAll(d, p, blocks) = G[N]
  BY Zenon DEF MarkAll, IsMarks, MarksBody
<1> HIDE DEF G
<1>4. Books(G[N]) /\ AtMostMore(d, G[N], p, N)
  BY <1>0, <1>2, MarksKeepBooks
<1> QED BY <1>3, <1>4

LEMMA FinalizedKeepsBooks ==
    ASSUME NEW d, NEW p \in Peer, Books(d)
    PROVE  /\ Books(Finalized(d, p)) /\ NoMore(d, Finalized(d, p))
           /\ Finalized(d, p).nBlocksInFlight[p] = 0
<1> DEFINE e == Finalized(d, p)
           q == d.vBlocksInFlight[p]
           n == d.nBlocksInFlight[p]
<1>1. /\ d.mapBlocksInFlight \in [Block -> Peer \cup {NoPeer}]
      /\ d.vBlocksInFlight \in [Peer -> Seq(Block)]
      /\ d.nBlocksInFlight \in [Peer -> Nat]
  BY DEF Books, BooksType
<1>2. ToSet(q) = {b \in Block : d.mapBlocksInFlight[b] = p}
  <2>1. q \in Seq(Block) /\ Len(q) \in Nat /\ DOMAIN q = 1..Len(q)
    BY <1>1
  <2>2. ToSet(q) = {q[i] : i \in 1..Len(q)}
    BY <2>1 DEF ToSet
  <2>3. \A i \in 1..Len(q) : q[i] \in Block
    BY <2>1
  <2>4. \A b \in Block : Holds(q, b) <=> d.mapBlocksInFlight[b] = p
    BY DEF Books, Matched
  <2> HIDE DEF q
  <2> QED BY <2>2, <2>3, <2>4 DEF Holds
<1>3. /\ e.mapBlocksInFlight = [b \in Block |-> IF b \in ToSet(q) THEN NoPeer
                                                ELSE d.mapBlocksInFlight[b]]
      /\ e.vBlocksInFlight = [d.vBlocksInFlight EXCEPT ![p] = <<>>]
      /\ e.nBlocksInFlight = [d.nBlocksInFlight EXCEPT ![p] = 0]
      /\ e.nPeersWithValidatedDownloads =
            IF n = 0 THEN d.nPeersWithValidatedDownloads
            ELSE d.nPeersWithValidatedDownloads - 1
  BY DEF Finalized
<1>4. n = d.nBlocksInFlight[p] /\ n \in Nat /\ p # NoPeer
  BY <1>1, PeerAssumption
<1> HIDE DEF e, q, n
<1>5. BooksType(e)
  <2>1. <<>> \in Seq(Block) /\ 0 \in Nat
    OBVIOUS
  <2> QED BY <1>1, <1>3, <2>1 DEF BooksType
<1>6. Matched(e)
  <2>1. SUFFICES ASSUME NEW s \in Peer, NEW x \in Block
                 PROVE  Holds(e.vBlocksInFlight[s], x) <=> e.mapBlocksInFlight[x] = s
    BY DEF Matched
  <2>2. Holds(d.vBlocksInFlight[s], x) <=> d.mapBlocksInFlight[x] = s
    BY DEF Books, Matched
  <2>3. CASE s = p
    <3>1. e.vBlocksInFlight[s] = <<>>
      BY <1>1, <1>3, <2>3
    <3>2. ~Holds(<<>>, x)
      BY DEF Holds
    <3>3. e.mapBlocksInFlight[x] # s
      BY <1>2, <1>3, <1>4, <2>3
    <3> QED BY <3>1, <3>2, <3>3
  <2>4. CASE s # p
    <3>1. e.vBlocksInFlight[s] = d.vBlocksInFlight[s]
      BY <1>1, <1>3, <2>4
    <3>2. e.mapBlocksInFlight[x] = s <=> d.mapBlocksInFlight[x] = s
      BY <1>2, <1>3, <2>4, PeerAssumption
    <3> QED BY <2>2, <3>1, <3>2
  <2> QED BY <2>3, <2>4
<1>7. Counted(e)
  <2>1. SUFFICES ASSUME NEW s \in Peer
                 PROVE  /\ Once(e.vBlocksInFlight[s])
                        /\ e.nBlocksInFlight[s] = Len(e.vBlocksInFlight[s])
    BY DEF Counted
  <2>2. CASE s = p
    <3>1. e.vBlocksInFlight[s] = <<>> /\ e.nBlocksInFlight[s] = 0
      BY <1>1, <1>3, <2>2
    <3>2. Once(<<>>) /\ Len(<<>>) = 0
      BY DEF Once
    <3> QED BY <3>1, <3>2
  <2>3. CASE s # p
    BY <1>1, <1>3, <2>3 DEF Books, Counted
  <2> QED BY <2>2, <2>3
<1>8. PeersCounted(e)
  <2> DEFINE f == d.nBlocksInFlight
             g == e.nBlocksInFlight
  <2>1. /\ f \in [Peer -> Nat] /\ g \in [Peer -> Nat] /\ f[p] = n /\ g[p] = 0
        /\ \A s \in Peer \ {p} : g[s] = f[s]
    BY <1>1, <1>3, <1>4
  <2>3. d.nPeersWithValidatedDownloads = Cardinality(Busy(f))
    BY DEF Books, PeersCounted
  <2>4. e.nPeersWithValidatedDownloads =
            IF n = 0 THEN Cardinality(Busy(f)) ELSE Cardinality(Busy(f)) - 1
    BY <1>3, <2>3
  <2> HIDE DEF f, g
  <2>5. BusyStep(f, g, p)
    BY <2>1, BusyFacts
  <2>6. e.nPeersWithValidatedDownloads = Cardinality(Busy(g))
    BY <1>4, <2>1, <2>4, <2>5 DEF BusyStep
  <2> QED BY <2>6 DEF PeersCounted, g
<1>9. NoMore(d, e) /\ e.nBlocksInFlight[p] = 0
  BY <1>1, <1>3 DEF NoMore
<1> QED BY <1>5, <1>6, <1>7, <1>8, <1>9 DEF Books, e

\* Whether a peer stalls is not in the books.
LEMMA StalledKeepsBooks ==
    ASSUME NEW d, NEW stallers, Books(d)
    PROVE  /\ Books(Stalled(d, stallers))
           /\ Stalled(d, stallers).nBlocksInFlight = d.nBlocksInFlight
BY DEF Books, BooksType, Matched, Counted, PeersCounted, Stalled

(***************************************************************************)
(* The inductive invariant.                                                *)
(***************************************************************************)

Limited(d) == \A p \in Peer : d.nBlocksInFlight[p] <= MaxInTransit
Released(d, present) == \A p \in Peer \ present : d.nBlocksInFlight[p] = 0

\* The books of the peers, with the types of what a message may be about.
DownloadInv ==
    /\ Books(dl) /\ Limited(dl) /\ Released(dl, connected)
    /\ mapBlocksWait \in [Block -> Block \cup {NoBlock}]
    /\ pindexBestKnownBlock \in [Peer -> Block \cup {NoBlock}]
    /\ hashLastUnknownBlock \in [Peer -> Block \cup {NoBlock}]

\* What is requested fits the limit of the peer.
LEMMA UpToLimitFacts ==
    ASSUME NEW p \in Peer, NEW blocks \in Seq(Block), dl.nBlocksInFlight[p] \in Nat,
           dl.nBlocksInFlight[p] <= MaxInTransit
    PROVE  /\ UpToLimit(p, blocks) \in Seq(Block)
           /\ dl.nBlocksInFlight[p] + Len(UpToLimit(p, blocks)) <= MaxInTransit
<1> DEFINE room == MaxInTransit - dl.nBlocksInFlight[p]
           k == IF room < Len(blocks) THEN room ELSE Len(blocks)
<1>0. Len(blocks) \in Nat /\ room \in Nat /\ MaxInTransit \in Nat
  BY PeerAssumption
<1>1. CASE room = 0
  <2>1. UpToLimit(p, blocks) = <<>>
    BY <1>1 DEF UpToLimit
  <2> QED BY <2>1
<1>2. CASE room # 0
  <2>1. k \in Nat /\ k <= Len(blocks) /\ k <= room
    BY <1>0
  <2>2. UpToLimit(p, blocks) = SubSeq(blocks, 1, k)
    BY <1>0, <1>2 DEF UpToLimit
  <2> HIDE DEF k
  <2>3. SubSeq(blocks, 1, k) \in Seq(Block) /\ Len(SubSeq(blocks, 1, k)) = k
    BY <1>0, <2>1
  <2> QED BY <1>0, <2>1, <2>2, <2>3
<1> QED BY <1>1, <1>2

\* A request keeps the books, the limits, and gives nothing to a peer that left.
LEMMA RequestFacts ==
    ASSUME NEW d, NEW p \in Peer, NEW blocks \in Seq(Block), NEW present, Books(d), Limited(d),
           Released(d, present), p \in present,
           d.nBlocksInFlight[p] + Len(blocks) <= MaxInTransit
    PROVE  /\ Books(MarkAll(d, p, blocks)) /\ Limited(MarkAll(d, p, blocks))
           /\ Released(MarkAll(d, p, blocks), present)
<1> DEFINE e == MarkAll(d, p, blocks)
<1>1. Books(e) /\ AtMostMore(d, e, p, Len(blocks))
  BY MarkedAll
<1> HIDE DEF e
<1>2. /\ \A s \in Peer : e.nBlocksInFlight[s] \in Nat /\ d.nBlocksInFlight[s] \in Nat
      /\ MaxInTransit \in Nat /\ Len(blocks) \in Nat
  BY <1>1, PeerAssumption DEF Books, BooksType
<1>3. ASSUME NEW s \in Peer PROVE e.nBlocksInFlight[s] <= MaxInTransit
  <2>1. CASE s = p
    BY <1>1, <1>2, <2>1 DEF AtMostMore
  <2>2. CASE s # p
    BY <1>1, <1>2, <2>2 DEF AtMostMore, Limited
  <2> QED BY <2>1, <2>2
<1>4. ASSUME NEW s \in Peer \ present PROVE e.nBlocksInFlight[s] = 0
  <2>1. s # p /\ d.nBlocksInFlight[s] = 0
    BY DEF Released
  <2>2. e.nBlocksInFlight[s] <= 0
    BY <1>1, <2>1 DEF AtMostMore
  <2> QED BY <1>2, <2>2
<1> QED BY <1>1, <1>3, <1>4 DEF Limited, Released, e

\* Fewer blocks in flight keep the limits too.
LEMMA NoMoreFacts ==
    ASSUME NEW d, NEW e, NEW present, Books(d), Books(e), NoMore(d, e), Limited(d),
           Released(d, present)
    PROVE  Limited(e) /\ Released(e, present)
<1>1. /\ \A s \in Peer : e.nBlocksInFlight[s] \in Nat /\ d.nBlocksInFlight[s] \in Nat
      /\ MaxInTransit \in Nat
  BY PeerAssumption DEF Books, BooksType
<1>2. ASSUME NEW s \in Peer PROVE e.nBlocksInFlight[s] <= MaxInTransit
  BY <1>1 DEF NoMore, Limited
<1>3. ASSUME NEW s \in Peer \ present PROVE e.nBlocksInFlight[s] = 0
  <2>1. e.nBlocksInFlight[s] <= 0
    BY DEF NoMore, Released
  <2> QED BY <1>1, <2>1
<1> QED BY <1>2, <1>3 DEF Limited, Released

LEMMA InitBooks == DownloadInit => DownloadInv
<1> SUFFICES ASSUME DownloadInit PROVE DownloadInv
  OBVIOUS
<1> DEFINE v == [p \in Peer |-> <<>>]
<1>1. /\ dl.mapBlocksInFlight = [b \in Block |-> NoPeer] /\ dl.vBlocksInFlight = v
      /\ dl.nBlocksInFlight = [p \in Peer |-> 0] /\ dl.nPeersWithValidatedDownloads = 0
  BY DEF DownloadInit, NoDownloads
<1>2. \A p \in Peer : v[p] \in Seq(Block) /\ Len(v[p]) = 0
  OBVIOUS
<1>3. v \in [Peer -> Seq(Block)]
  BY <1>2
<1> HIDE DEF v
<1>4. BooksType(dl)
  BY <1>1, <1>3 DEF BooksType
<1>5. Matched(dl)
  <2>1. ASSUME NEW p \in Peer, NEW b \in Block
        PROVE  ~Holds(v[p], b) /\ dl.mapBlocksInFlight[b] # p
    BY <1>1, <1>2, PeerAssumption DEF Holds
  <2> QED BY <1>1, <2>1 DEF Matched
<1>6. Counted(dl)
  <2>1. \A p \in Peer : Once(v[p])
    BY <1>2 DEF Once
  <2> QED BY <1>1, <1>2, <2>1 DEF Counted
<1>7. PeersCounted(dl)
  <2>1. Busy(dl.nBlocksInFlight) = {}
    BY <1>1 DEF Busy
  <2>2. Cardinality({}) = 0
    BY FS_EmptySet
  <2> QED BY <1>1, <2>1, <2>2 DEF PeersCounted
<1>8. Limited(dl) /\ Released(dl, connected)
  BY <1>1, PeerAssumption DEF Limited, Released
<1> QED BY <1>4, <1>5, <1>6, <1>7, <1>8 DEF DownloadInv, DownloadInit, Books

\* What direct fetch and FindNextBlocksToDownload ask for fits the limit of the peer.
LEMMA DirectFetchFacts ==
    ASSUME DownloadInv, NEW p \in Peer, NEW last \in Block
    PROVE  /\ DirectFetch(p, last) \in Seq(Block)
           /\ dl.nBlocksInFlight[p] + Len(DirectFetch(p, last)) <= MaxInTransit
<1> DEFINE fetch == Selected(last, {b \in Block \ (Chain[tip] \cup have) :
                                    dl.mapBlocksInFlight[b] = NoPeer})
<1>1. dl.nBlocksInFlight[p] \in Nat /\ dl.nBlocksInFlight[p] <= MaxInTransit
  BY DEF DownloadInv, Books, BooksType, Limited
<1>2. fetch \in Seq(Block)
  BY SelectedType
<1>3. DirectFetch(p, last) \in {<<>>, UpToLimit(p, fetch)}
  BY DEF DirectFetch
<1> HIDE DEF fetch
<1>4. /\ UpToLimit(p, fetch) \in Seq(Block)
      /\ dl.nBlocksInFlight[p] + Len(UpToLimit(p, fetch)) <= MaxInTransit
  BY <1>1, <1>2, UpToLimitFacts
<1>5. <<>> \in Seq(Block) /\ dl.nBlocksInFlight[p] + Len(<<>>) <= MaxInTransit
  BY <1>1
<1> QED BY <1>3, <1>4, <1>5

LEMMA FindNextFacts ==
    ASSUME DownloadInv, NEW p \in Peer, NEW best \in Block, NEW common
    PROVE  /\ FindNextBlocksToDownload(p, best, common) \in Seq(Block)
           /\ dl.nBlocksInFlight[p] + Len(FindNextBlocksToDownload(p, best, common))
                <= MaxInTransit
<1> DEFINE fetch == Selected(best, {b \in Free(best, common) :
                                        Height(b) <= Height(common) + Window})
<1>1. dl.nBlocksInFlight[p] \in Nat /\ dl.nBlocksInFlight[p] <= MaxInTransit
  BY DEF DownloadInv, Books, BooksType, Limited
<1>2. fetch \in Seq(Block)
  BY SelectedType
<1>3. FindNextBlocksToDownload(p, best, common) = UpToLimit(p, fetch)
  BY DEF FindNextBlocksToDownload
<1> HIDE DEF fetch
<1> QED BY <1>1, <1>2, <1>3, UpToLimitFacts

\* pindexBestKnownBlock and hashLastUnknownBlock stay blocks.
LEMMA AnnouncedType ==
    ASSUME DownloadInv, NEW p \in Peer, NEW index
    PROVE  /\ Announced(p, index) \in Block \cup {NoBlock}
           /\ StillUnknown(p, index) \in Block \cup {NoBlock}
BY DEF DownloadInv, Announced, StillUnknown, BestKnown

LEMMA AvailabilityType ==
    ASSUME DownloadInv, NEW p \in Peer, NEW b \in Block, NEW index,
           UpdateBlockAvailability(p, b, index)
    PROVE  /\ pindexBestKnownBlock' \in [Peer -> Block \cup {NoBlock}]
           /\ hashLastUnknownBlock' \in [Peer -> Block \cup {NoBlock}]
<1>1. /\ Announced(p, index) \in Block \cup {NoBlock}
      /\ StillUnknown(p, index) \in Block \cup {NoBlock}
  BY AnnouncedType
<1>2. BestKnown(Announced(p, index), b) \in Block \cup {NoBlock}
  BY <1>1 DEF BestKnown
<1> QED BY <1>1, <1>2 DEF UpdateBlockAvailability, DownloadInv

\* Every step keeps the invariant.
LEMMA DownloadStep ==
    ASSUME DownloadInv, [DownloadNext]_downloadVars
    PROVE  DownloadInv'
<1> DEFINE TypesNext == /\ mapBlocksWait' \in [Block -> Block \cup {NoBlock}]
                        /\ pindexBestKnownBlock' \in [Peer -> Block \cup {NoBlock}]
                        /\ hashLastUnknownBlock' \in [Peer -> Block \cup {NoBlock}]
           BooksNext == Books(dl') /\ Limited(dl') /\ Released(dl', connected')
<1>0. Books(dl) /\ Limited(dl) /\ Released(dl, connected)
  BY DEF DownloadInv
<1>1. SUFFICES TypesNext /\ BooksNext
  BY DEF DownloadInv
<1>2. ASSUME UNCHANGED <<dl, connected>> PROVE BooksNext
  <2>1. dl' = dl /\ connected' = connected
    BY <1>2
  <2> QED BY <1>0, <2>1
<1>3. ASSUME UNCHANGED <<mapBlocksWait, pindexBestKnownBlock, hashLastUnknownBlock>>
      PROVE  TypesNext
  BY <1>3 DEF DownloadInv
<1>4. ASSUME NEW b \in Block, dl' = MarkBlockAsReceived(dl, b), UNCHANGED connected
      PROVE  BooksNext
  <2> DEFINE e == MarkBlockAsReceived(dl, b)
  <2>1. Books(e) /\ NoMore(dl, e)
    BY <1>0, MarkedReceived
  <2>2. dl' = e /\ connected' = connected
    BY <1>4
  <2> HIDE DEF e
  <2>3. Limited(e) /\ Released(e, connected)
    BY <1>0, <2>1, NoMoreFacts
  <2> QED BY <2>1, <2>2, <2>3
<1>5. CASE UNCHANGED downloadVars
  BY <1>2, <1>3, <1>5 DEF downloadVars, peerVars, knownVars, waitVars
<1>6. ASSUME NEW p \in Peer, InitializeNode(p) PROVE TypesNext /\ BooksNext
  <2>1. TypesNext
    BY <1>3, <1>6 DEF InitializeNode, knownVars, waitVars
  <2>2. dl' = dl /\ connected' = connected \cup {p}
    BY <1>6 DEF InitializeNode
  <2>3. Released(dl, connected \cup {p})
    BY <1>0 DEF Released
  <2> QED BY <1>0, <2>1, <2>2, <2>3
<1>7. ASSUME NEW p \in Peer, CloseConnection(p) \/ StallTimeout(p) \/ DownloadTimeout(p)
      PROVE  TypesNext /\ BooksNext
  BY <1>2, <1>3, <1>7 DEF CloseConnection, StallTimeout, DownloadTimeout, knownVars, waitVars
<1>8. ASSUME NEW p \in Peer, FinalizeNode(p) PROVE TypesNext /\ BooksNext
  <2>1. TypesNext
    BY <1>8 DEF FinalizeNode, waitVars, DownloadInv
  <2> DEFINE e == Finalized(dl, p)
             present == connected \ {p}
  <2>2. dl' = e /\ connected' = present
    BY <1>8 DEF FinalizeNode
  <2>3. Books(e) /\ NoMore(dl, e) /\ e.nBlocksInFlight[p] = 0
    BY <1>0, FinalizedKeepsBooks
  <2> HIDE DEF e
  <2>4. Limited(e) /\ Released(e, connected)
    BY <1>0, <2>3, NoMoreFacts
  <2>5. Released(e, present)
    BY <2>3, <2>4 DEF Released
  <2> QED BY <2>1, <2>2, <2>3, <2>4, <2>5
<1>9. ASSUME NEW p \in Peer, InvMessage(p) \/ UnconnectingHeaders(p)
      PROVE  TypesNext /\ BooksNext
  <2>1. BooksNext
    BY <1>2, <1>9 DEF InvMessage, UnconnectingHeaders, peerVars
  <2>2. Serves[p] \in Block /\ UpdateBlockAvailability(p, Serves[p], mapBlockIndex)
    BY <1>9, PeerAssumption DEF InvMessage, UnconnectingHeaders
  <2>3. /\ pindexBestKnownBlock' \in [Peer -> Block \cup {NoBlock}]
        /\ hashLastUnknownBlock' \in [Peer -> Block \cup {NoBlock}]
    BY <2>2, AvailabilityType
  <2>4. mapBlocksWait' \in [Block -> Block \cup {NoBlock}]
    BY <1>9 DEF InvMessage, UnconnectingHeaders, waitVars, DownloadInv
  <2> QED BY <2>1, <2>3, <2>4
<1>10. ASSUME NEW p \in Peer, NEW direct \in BOOLEAN, HeadersMessage(p, direct)
       PROVE  TypesNext /\ BooksNext
  <2> DEFINE last == Serves[p]
             index == mapBlockIndex \cup {b \in Chain[last] : Chain[b] \cap failed = {}}
  <2>1. last \in Block /\ p \in connected
    BY <1>10, PeerAssumption DEF HeadersMessage, Served
  <2>2. /\ \/ UpdateBlockAvailability(p, last, index)
           \/ UNCHANGED knownVars
        /\ dl' = MarkAll(dl, p, DirectFetch(p, last)) \/ dl' = dl
        /\ UNCHANGED <<connected, mapBlocksWait>>
    BY <1>10 DEF HeadersMessage, Request, peerVars, waitVars
  <2> HIDE DEF last, index
  <2>3. TypesNext
    <3>1. /\ pindexBestKnownBlock' \in [Peer -> Block \cup {NoBlock}]
          /\ hashLastUnknownBlock' \in [Peer -> Block \cup {NoBlock}]
      <4>1. CASE UpdateBlockAvailability(p, last, index)
        BY <2>1, <4>1, AvailabilityType
      <4>2. CASE UNCHANGED knownVars
        BY <4>2 DEF knownVars, DownloadInv
      <4> QED BY <2>2, <4>1, <4>2
    <3> QED BY <2>2, <3>1 DEF DownloadInv
  <2>4. CASE dl' = dl
    BY <1>2, <2>2, <2>3, <2>4
  <2>5. CASE dl' = MarkAll(dl, p, DirectFetch(p, last))
    <3> DEFINE blocks == DirectFetch(p, last)
    <3>1. blocks \in Seq(Block) /\ dl.nBlocksInFlight[p] + Len(blocks) <= MaxInTransit
      BY <2>1, DirectFetchFacts
    <3>2. dl' = MarkAll(dl, p, blocks) /\ connected' = connected
      BY <2>2, <2>5
    <3> HIDE DEF blocks
    <3>3. /\ Books(MarkAll(dl, p, blocks)) /\ Limited(MarkAll(dl, p, blocks))
          /\ Released(MarkAll(dl, p, blocks), connected)
      BY <1>0, <2>1, <3>1, RequestFacts
    <3> QED BY <2>3, <3>2, <3>3
  <2> QED BY <2>2, <2>4, <2>5
<1>11. ASSUME NEW p \in Peer, NEW fRecent \in BOOLEAN, SendMessages(p, fRecent)
       PROVE  TypesNext /\ BooksNext
  <2> DEFINE best == Announced(p, mapBlockIndex)
             asks == best # NoBlock /\ Trust[best] >= Trust[tip]
  <2>0. RequestBlocks(p) /\ p \in connected /\ UNCHANGED <<connected, mapBlocksWait>>
    BY <1>11 DEF SendMessages, Served, peerVars, waitVars
  <2>1. CASE ~(dl.nBlocksInFlight[p] < MaxInTransit)
    <3>1. UNCHANGED <<knownVars, dl>>
      BY <2>0, <2>1 DEF RequestBlocks
    <3> QED BY <1>2, <1>3, <2>0, <3>1 DEF knownVars
  <2>2. CASE dl.nBlocksInFlight[p] < MaxInTransit
    <3>1. /\ pindexBestKnownBlock' = [pindexBestKnownBlock EXCEPT ![p] = best]
          /\ hashLastUnknownBlock' =
                [hashLastUnknownBlock EXCEPT ![p] = StillUnknown(p, mapBlockIndex)]
      BY <2>0, <2>2 DEF RequestBlocks
    <3>2. best \in Block \cup {NoBlock} /\ StillUnknown(p, mapBlockIndex) \in Block \cup {NoBlock}
      BY AnnouncedType
    <3>3. TypesNext
      <4> HIDE DEF best
      <4> QED BY <2>0, <3>1, <3>2 DEF DownloadInv
    <3>4. CASE ~asks
      <4>1. dl' = dl
        BY <2>0, <2>2, <3>4 DEF RequestBlocks
      <4> QED BY <1>2, <2>0, <3>3, <4>1
    <3>5. CASE asks
      <4>1. PICK common, stallers :
            dl' = MarkAll(Stalled(dl, stallers), p, FindNextBlocksToDownload(p, best, common))
        BY <2>0, <2>2, <3>5 DEF RequestBlocks, Request
      <4>2. best \in Block
        BY <3>2, <3>5
      <4> HIDE DEF best
      <4> DEFINE d == Stalled(dl, stallers)
                 blocks == FindNextBlocksToDownload(p, best, common)
      <4>3. dl' = MarkAll(d, p, blocks) /\ connected' = connected
        BY <2>0, <4>1
      <4>4. blocks \in Seq(Block) /\ dl.nBlocksInFlight[p] + Len(blocks) <= MaxInTransit
        BY <4>2, FindNextFacts
      <4>5. Books(d) /\ d.nBlocksInFlight = dl.nBlocksInFlight
        BY <1>0, StalledKeepsBooks
      <4> HIDE DEF d, blocks
      <4>6. Limited(d) /\ Released(d, connected)
        BY <1>0, <4>5 DEF Limited, Released
      <4>7. d.nBlocksInFlight[p] + Len(blocks) <= MaxInTransit
        BY <4>4, <4>5
      <4>8. /\ Books(MarkAll(d, p, blocks)) /\ Limited(MarkAll(d, p, blocks))
            /\ Released(MarkAll(d, p, blocks), connected)
        BY <2>0, <4>4, <4>5, <4>6, <4>7, RequestFacts
      <4> QED BY <3>3, <4>3, <4>8
    <3> QED BY <3>4, <3>5
  <2> QED BY <2>1, <2>2
<1>12. ASSUME NEW p \in Peer, NEW b \in Block, NEW fMalformed \in BOOLEAN,
              BlockMessage(p, b, fMalformed)
       PROVE  TypesNext /\ BooksNext
  <2>1. BooksNext
    BY <1>2, <1>12 DEF BlockMessage, peerVars
  <2>2. mapBlocksWait' \in [Block -> Block \cup {NoBlock}]
    BY <1>12 DEF BlockMessage, waitVars, DownloadInv
  <2> QED BY <1>12, <2>1, <2>2 DEF BlockMessage, knownVars, DownloadInv
<1>13. ASSUME NEW k \in Block, DropWaiting(k) \/ ProcessWaiting(k) PROVE TypesNext /\ BooksNext
  <2>1. /\ mapBlocksWait[k] \in Block /\ dl' = MarkBlockAsReceived(dl, mapBlocksWait[k])
        /\ connected' = connected
    BY <1>13 DEF DropWaiting, ProcessWaiting, Waiting, DownloadInv, peerVars
  <2>2. BooksNext
    BY <1>4, <2>1
  <2>3. TypesNext
    BY <1>13 DEF DropWaiting, ProcessWaiting, knownVars, DownloadInv
  <2> QED BY <2>2, <2>3
<1>14. ASSUME EndLoop PROVE TypesNext /\ BooksNext
  BY <1>2, <1>3, <1>14 DEF EndLoop, peerVars, knownVars
<1> QED BY <1>5, <1>6, <1>7, <1>8, <1>9, <1>10, <1>11, <1>12, <1>13, <1>14 DEF DownloadNext

\* The number of different blocks in a queue is its length.
LEMMA OnceCardinality ==
    ASSUME NEW q \in Seq(Block), Once(q)
    PROVE  Cardinality(ToSet(q)) = Len(q)
<1>0. Len(q) \in Nat /\ DOMAIN q = 1..Len(q) /\ ToSet(q) = {q[i] : i \in 1..Len(q)}
  BY DEF ToSet
<1> DEFINE f == [i \in 1..Len(q) |-> q[i]]
<1>1. f \in Bijection(1..Len(q), ToSet(q))
  BY <1>0 DEF Bijection, Injection, Surjection, IsInjective, Once
<1>2. IsFiniteSet(1..Len(q)) /\ Cardinality(1..Len(q)) = Len(q)
  BY <1>0, FS_Interval
<1>3. ExistsBijection(1..Len(q), ToSet(q))
  <2> HIDE DEF f
  <2> QED BY <1>1 DEF ExistsBijection
<1> QED BY <1>2, <1>3, FS_Bijection

\* The slots of header sync
SyncInv ==
    /\ connected \subseteq Peer /\ fSyncStarted \subseteq connected
    /\ nSyncStarted = Cardinality(fSyncStarted)

LEMMA SyncStep ==
    ASSUME SyncInv, [DownloadNext]_downloadVars
    PROVE  SyncInv'
<1>0. /\ connected \subseteq Peer /\ fSyncStarted \subseteq connected
      /\ nSyncStarted = Cardinality(fSyncStarted) /\ IsFiniteSet(fSyncStarted)
  <2>1. fSyncStarted \subseteq Peer
    BY DEF SyncInv
  <2> QED BY <2>1, PeerAssumption, FS_Subset DEF SyncInv
<1>1. ASSUME UNCHANGED <<connected, fSyncStarted, nSyncStarted>> PROVE SyncInv'
  BY <1>1 DEF SyncInv
<1>2. ASSUME NEW p \in Peer, InitializeNode(p) PROVE SyncInv'
  <2>1. connected' = connected \cup {p} /\ UNCHANGED <<fSyncStarted, nSyncStarted>>
    BY <1>2 DEF InitializeNode, syncVars
  <2> QED BY <1>0, <2>1 DEF SyncInv
<1>3. ASSUME NEW p \in Peer, FinalizeNode(p) PROVE SyncInv'
  <2>1. /\ connected' = connected \ {p} /\ fSyncStarted' = fSyncStarted \ {p}
        /\ nSyncStarted' = SyncLeft(p)
    BY <1>3 DEF FinalizeNode
  <2>2. Cardinality(fSyncStarted \ {p}) = SyncLeft(p)
    <3>1. CASE p \in fSyncStarted
      BY <1>0, <3>1, FS_RemoveElement DEF SyncLeft
    <3>2. CASE p \notin fSyncStarted
      <4>1. fSyncStarted \ {p} = fSyncStarted
        BY <3>2
      <4> QED BY <1>0, <3>2, <4>1 DEF SyncLeft
    <3> QED BY <3>1, <3>2
  <2> QED BY <1>0, <2>1, <2>2 DEF SyncInv
<1>4. ASSUME NEW p \in Peer, NEW fRecent \in BOOLEAN, SendMessages(p, fRecent) PROVE SyncInv'
  <2>1. p \in connected /\ connected' = connected /\ StartSync(p, fRecent)
    BY <1>4 DEF SendMessages, Served, peerVars
  <2>2. CASE UNCHANGED syncVars
    BY <1>1, <2>1, <2>2 DEF syncVars
  <2>3. CASE /\ p \notin fSyncStarted /\ fSyncStarted' = fSyncStarted \cup {p}
             /\ nSyncStarted' = nSyncStarted + 1
    <3>1. Cardinality(fSyncStarted \cup {p}) = Cardinality(fSyncStarted) + 1
      BY <1>0, <2>3, FS_AddElement
    <3> QED BY <1>0, <2>1, <2>3, <3>1 DEF SyncInv
  <2> QED BY <2>1, <2>2, <2>3 DEF StartSync
<1>5. ASSUME NEW p \in Peer,
             \/ CloseConnection(p) \/ StallTimeout(p) \/ DownloadTimeout(p)
             \/ InvMessage(p) \/ UnconnectingHeaders(p)
             \/ \E fCanDirectFetch \in BOOLEAN : HeadersMessage(p, fCanDirectFetch)
             \/ \E b \in Block, fMalformed \in BOOLEAN : BlockMessage(p, b, fMalformed)
      PROVE  SyncInv'
  <2>1. UNCHANGED <<connected, fSyncStarted, nSyncStarted>>
    BY <1>5 DEF CloseConnection, StallTimeout, DownloadTimeout, InvMessage,
                UnconnectingHeaders, HeadersMessage, BlockMessage, peerVars, syncVars
  <2> QED BY <1>1, <2>1
<1>6. ASSUME EndLoop \/ \E k \in Block : DropWaiting(k) \/ ProcessWaiting(k) PROVE SyncInv'
  <2>1. UNCHANGED <<connected, fSyncStarted, nSyncStarted>>
    BY <1>6 DEF EndLoop, DropWaiting, ProcessWaiting, peerVars, syncVars
  <2> QED BY <1>1, <2>1
<1>7. CASE UNCHANGED downloadVars
  BY <1>1, <1>7 DEF downloadVars, peerVars, syncVars
<1> QED BY <1>2, <1>3, <1>4, <1>5, <1>6, <1>7 DEF DownloadNext

LEMMA BooksExact == DownloadInv /\ SyncInv => InFlightExact
<1> SUFFICES ASSUME DownloadInv, SyncInv PROVE InFlightExact
  OBVIOUS
<1>1. ASSUME NEW p \in Peer
      PROVE  /\ ToSet(dl.vBlocksInFlight[p]) = {b \in Block : dl.mapBlocksInFlight[b] = p}
             /\ dl.nBlocksInFlight[p] = Len(dl.vBlocksInFlight[p])
             /\ dl.nBlocksInFlight[p] = Cardinality(ToSet(dl.vBlocksInFlight[p]))
             /\ dl.nBlocksInFlight[p] <= MaxInTransit
             /\ p \notin connected => dl.nBlocksInFlight[p] = 0
  <2> DEFINE q == dl.vBlocksInFlight[p]
  <2>1. q \in Seq(Block) /\ Once(q) /\ dl.nBlocksInFlight[p] = Len(q)
    BY DEF DownloadInv, Books, BooksType, Counted
  <2>2. \A b \in Block : Holds(q, b) <=> dl.mapBlocksInFlight[b] = p
    BY DEF DownloadInv, Books, Matched
  <2> HIDE DEF q
  <2>3. ToSet(q) = {b \in Block : dl.mapBlocksInFlight[b] = p}
    <3>1. Len(q) \in Nat /\ DOMAIN q = 1..Len(q) /\ \A i \in 1..Len(q) : q[i] \in Block
      BY <2>1
    <3>2. ToSet(q) = {q[i] : i \in 1..Len(q)}
      BY <3>1 DEF ToSet
    <3> QED BY <2>2, <3>1, <3>2 DEF Holds
  <2>4. Cardinality(ToSet(q)) = Len(q)
    BY <2>1, OnceCardinality
  <2>5. dl.nBlocksInFlight[p] <= MaxInTransit /\ (p \notin connected => dl.nBlocksInFlight[p] = 0)
    BY DEF DownloadInv, Limited, Released
  <2> QED BY <2>1, <2>3, <2>4, <2>5 DEF q
<1>2. dl.nPeersWithValidatedDownloads = Cardinality({p \in Peer : dl.nBlocksInFlight[p] > 0})
  BY DEF DownloadInv, Books, PeersCounted, Busy
<1> QED BY <1>1, <1>2 DEF InFlightExact, SyncInv

\* mapBlocksInFlight, the queues and the counters of net_processing.cpp agree after
\* every message, timeout and disconnection, and nSyncStarted counts the peers that
\* headers are synced with: for any number of peers, any tree of blocks and any limit.
THEOREM InFlightIsExact == DownloadSpec => []InFlightExact
<1>1. DownloadInit => DownloadInv
  BY InitBooks
<1>2. DownloadInit => SyncInv
  BY FS_EmptySet DEF DownloadInit, SyncInv
<1>3. DownloadInv /\ [DownloadNext]_downloadVars => DownloadInv'
  BY DownloadStep
<1>4. SyncInv /\ [DownloadNext]_downloadVars => SyncInv'
  BY SyncStep
<1>5. DownloadInv /\ SyncInv => InFlightExact
  BY BooksExact
<1> QED BY <1>1, <1>2, <1>3, <1>4, <1>5, PTL DEF DownloadSpec
=============================================================================
