-------------------------- MODULE NameIndexProofs --------------------------
(***************************************************************************)
(* Proofs about the name index, for every set of names, transactions and   *)
(* blocks, every -nameindexchainsize and any number of restarts.           *)
(***************************************************************************)
EXTENDS NameIndex, SequenceTheorems, FiniteSetTheorems, WellFoundedInduction, TLAPS

-----------------------------------------------------------------------------
(* Positions and histories.                                                *)

\* A nonempty set of positions below a bound has a largest element: what the
\* backward search of DisconnectInputs relies on.
LEMMA LargestPosition ==
    ASSUME NEW N \in Nat, NEW S \in SUBSET (1..N), S # {}
    PROVE  Max(S) \in S /\ \A y \in S : y <= Max(S)
<1>0. IsWellFoundedOn(OpToRel(<, Nat), Nat)
  BY NatLessThanWellFounded
<1> DEFINE T == {N - k : k \in S}
<1>1. T \subseteq Nat /\ T # {}
  <2>1. \A k \in S : N - k \in Nat
    BY SMT
  <2> QED BY <2>1, Zenon
<1>2. PICK m \in T : \A y \in T : ~(<<y, m>> \in OpToRel(<, Nat))
  <2> HIDE DEF T
  <2> QED
    BY <1>0, <1>1, WFMin
<1>3. \A y \in T : ~(y < m)
  BY <1>1, <1>2 DEF OpToRel
<1>4. PICK k \in S : m = N - k
  BY <1>2
<1>5. \A y \in S : k >= y
  <2> TAKE y \in S
  <2>1. ~(N - y < N - k)
    BY <1>3, <1>4
  <2> QED BY <2>1
<1> HIDE DEF T
<1>6. \E x \in S : \A y \in S : x >= y
  BY <1>5
<1>7. Max(S) \in S /\ \A y \in S : Max(S) >= y
  BY <1>6, Zenon DEF Max
<1> QED
  BY <1>7

\* Equal stretches of two sequences.
LEMMA SameSegment ==
    ASSUME NEW S, NEW s \in Seq(S), NEW t \in Seq(S),
           NEW a \in Nat, NEW b \in Nat, NEW d \in Nat,
           1 <= a, b <= Len(s), b + d <= Len(t),
           \A i \in a..b : s[i] = t[i + d]
    PROVE  SubSeq(s, a, b) = SubSeq(t, a + d, b + d)
<1>1. \A i \in a..b : s[i] \in S
  BY ElementOfSeq
<1>2. \A i \in (a + d)..(b + d) : t[i] \in S
  BY ElementOfSeq
<1>3. /\ SubSeq(s, a, b) \in Seq(S)
      /\ Len(SubSeq(s, a, b)) = IF a <= b THEN b - a + 1 ELSE 0
      /\ \A i \in 1..(b - a + 1) : SubSeq(s, a, b)[i] = s[a + i - 1]
  BY <1>1, SubSeqProperties
<1>4. /\ SubSeq(t, a + d, b + d) \in Seq(S)
      /\ Len(SubSeq(t, a + d, b + d)) = IF a + d <= b + d THEN (b + d) - (a + d) + 1 ELSE 0
      /\ \A i \in 1..((b + d) - (a + d) + 1) : SubSeq(t, a + d, b + d)[i] = t[a + d + i - 1]
  BY <1>2, SubSeqProperties
<1>5. Len(SubSeq(s, a, b)) = Len(SubSeq(t, a + d, b + d))
  BY <1>3, <1>4
<1>6. \A i \in 1..Len(SubSeq(s, a, b)) : SubSeq(s, a, b)[i] = SubSeq(t, a + d, b + d)[i]
  <2> TAKE i \in 1..Len(SubSeq(s, a, b))
  <2>1. i \in 1..(b - a + 1) /\ a + i - 1 \in a..b
    BY <1>3
  <2>2. SubSeq(s, a, b)[i] = s[a + i - 1]
    BY <1>3, <2>1
  <2>3. SubSeq(t, a + d, b + d)[i] = t[a + d + i - 1]
    BY <1>4, <2>1
  <2>4. s[a + i - 1] = t[(a + i - 1) + d] /\ (a + i - 1) + d = a + d + i - 1
    BY <2>1
  <2> QED BY <2>2, <2>3, <2>4
<1> QED
  BY <1>3, <1>4, <1>5, <1>6, SeqEqual

\* The length of a non-empty sequence is one of its indices.
LEMMA LastIsIndex ==
    ASSUME NEW S, NEW s \in Seq(S), s # <<>>
    PROVE  Len(s) \in 1..Len(s)
  OBVIOUS

\* A sequence without its last element.
LEMMA WithoutLast ==
    ASSUME NEW S, NEW s \in Seq(S), Len(s) \in Nat \ {0},
           NEW w, w = SubSeq(s, 1, Len(s) - 1)
    PROVE  w \in Seq(S) /\ Len(w) = Len(s) - 1 /\ \A i \in 1..Len(w) : w[i] = s[i]
<1> DEFINE n == Len(s) - 1
<1>1. n \in Nat
  OBVIOUS
<1>2. \A i \in 1..n : s[i] \in S
  BY ElementOfSeq
<1>3. w = SubSeq(s, 1, n)
  OBVIOUS
<1> HIDE DEF n
<1>4. /\ SubSeq(s, 1, n) \in Seq(S)
      /\ Len(SubSeq(s, 1, n)) = IF 1 <= n THEN n - 1 + 1 ELSE 0
      /\ \A i \in 1..(n - 1 + 1) : SubSeq(s, 1, n)[i] = s[1 + i - 1]
  BY <1>1, <1>2, SubSeqProperties
<1>5. Len(w) = n
  BY <1>1, <1>3, <1>4
<1>6. \A i \in 1..n : w[i] = s[i]
  BY <1>1, <1>3, <1>4
<1> QED
  BY <1>3, <1>4, <1>5, <1>6 DEF n

\* A contiguous part of a history is as free of takeovers as the whole.
LEMMA FreePart ==
    ASSUME NEW v \in Seq(CNameIndex), NEW w \in Seq(CNameIndex), NEW d \in Nat,
           Len(w) + d <= Len(v), \A i \in 1..Len(w) : w[i] = v[i + d],
           FreeWhenTaken(v)
    PROVE  FreeWhenTaken(w)
<1> SUFFICES ASSUME NEW i \in 2..Len(w), NEW k \in 1..(i-1),
                    IsNew(w, i), IsNew(w, k), \A m \in (k+1)..(i-1) : ~IsNew(w, m),
                    w[i-1].op # "delete"
             PROVE  ~(w[i].nHeight <= ChainExpiry(SubSeq(w, k, i-1), w[k].nHeight))
  BY DEF FreeWhenTaken
<1>1. i + d \in 2..Len(v) /\ k + d \in 1..((i + d) - 1) /\ (i - 1) + d = (i + d) - 1
  OBVIOUS
<1>2. w[i] = v[i + d] /\ w[k] = v[k + d] /\ w[i - 1] = v[(i + d) - 1]
  BY <1>1
<1>3. \A m \in ((k + d) + 1)..((i + d) - 1) : ~IsNew(v, m)
  <2> TAKE m \in ((k + d) + 1)..((i + d) - 1)
  <2>1. m - d \in (k+1)..(i-1) /\ w[m - d] = v[(m - d) + d] /\ (m - d) + d = m
    OBVIOUS
  <2> QED BY <2>1 DEF IsNew
<1>4. SubSeq(w, k, i-1) = SubSeq(v, k + d, (i + d) - 1)
  <2>1. \A j \in k..(i-1) : w[j] = v[j + d]
    OBVIOUS
  <2> QED BY <1>1, <2>1, SameSegment
<1>5. IsNew(v, i + d) /\ IsNew(v, k + d) /\ v[(i + d) - 1].op # "delete"
  BY <1>2 DEF IsNew
<1>6. ~(v[i + d].nHeight <= ChainExpiry(SubSeq(v, k + d, (i + d) - 1), v[k + d].nHeight))
  BY <1>1, <1>3, <1>5 DEF FreeWhenTaken
<1> QED
  BY <1>2, <1>4, <1>6

-----------------------------------------------------------------------------
(* What holds of every record of nameindexV2.dat.                          *)

\* The cached expiration is that of the active chain.
ExpiryCached(rec) ==
    ~Deleted(rec) /\ ~Corrupt(rec) =>
        rec.nExpiresAt = ChainExpiry(ActiveChain(rec.vtxPos, rec.nLastActiveChainIndex),
                                     rec.vtxPos[rec.nLastActiveChainIndex + 1].nHeight)

GoodRecord(rec) ==
    /\ rec.vtxPos \in Seq(CNameIndex)
    /\ rec.nLastActiveChainIndex \in Nat
    /\ rec.vtxPos # <<>> => StartsActiveChain(rec.vtxPos, rec.nLastActiveChainIndex)
    /\ FreeWhenTaken(rec.vtxPos)
    /\ ExpiryCached(rec)

\* An operation that may be written: a name_new when the name is not active, or
\* another operation on a registered name.
MayPush(rec, e) ==
    /\ ~Corrupt(rec)
    /\ IF e.op = "new" THEN ~NameActive(rec, e.nHeight) ELSE rec.vtxPos # <<>>

\* The record ReadName yields for an absent name satisfies the invariant.
LEMMA EmptyGood == GoodRecord(EmptyRecord)
<1>1. EmptyRecord.vtxPos = <<>> /\ EmptyRecord.nLastActiveChainIndex = 0
  BY DEF EmptyRecord
<1>2. Deleted(EmptyRecord)
  BY <1>1 DEF Deleted
<1>3. FreeWhenTaken(<<>>)
  BY DEF FreeWhenTaken
<1> QED BY <1>1, <1>2, <1>3 DEF GoodRecord, ExpiryCached

\* Appending a permitted operation takes nothing over.
LEMMA FreeAppend ==
    ASSUME NEW rec, NEW e \in CNameIndex, GoodRecord(rec), MayPush(rec, e)
    PROVE  FreeWhenTaken(Append(rec.vtxPos, e))
<1> DEFINE u == rec.vtxPos
           v == Append(u, e)
           last == rec.nLastActiveChainIndex
<1>0. u \in Seq(CNameIndex) /\ Len(u) \in Nat /\ last \in Nat /\ FreeWhenTaken(u)
  BY DEF GoodRecord
<1>1. /\ v \in Seq(CNameIndex) /\ Len(v) = Len(u) + 1 /\ v[Len(u) + 1] = e
      /\ \A i \in 1..Len(u) : v[i] = u[i]
  BY <1>0
<1> HIDE DEF u, v, last
<1> SUFFICES ASSUME NEW i \in 2..Len(v), NEW k \in 1..(i-1),
                    IsNew(v, i), IsNew(v, k), \A m \in (k+1)..(i-1) : ~IsNew(v, m),
                    v[i-1].op # "delete"
             PROVE  ~(v[i].nHeight <= ChainExpiry(SubSeq(v, k, i-1), v[k].nHeight))
  BY DEF FreeWhenTaken, v, u
<1>2. SubSeq(v, k, i-1) = SubSeq(u, k, i-1)
  <2>1. \A j \in k..(i-1) : v[j] = u[j + 0]
    BY <1>0, <1>1
  <2>2. SubSeq(v, k, i-1) = SubSeq(u, k + 0, (i-1) + 0)
    BY <1>0, <1>1, <2>1, SameSegment
  <2> QED BY <2>2
<1>3. v[k] = u[k] /\ v[i-1] = u[i-1] /\ \A m \in (k+1)..(i-1) : v[m] = u[m]
  BY <1>0, <1>1
<1>4. IsNew(u, k) /\ u[i-1].op # "delete" /\ \A m \in (k+1)..(i-1) : ~IsNew(u, m)
  BY <1>3 DEF IsNew
<1>5. CASE i <= Len(u)
  <2>1. i \in 2..Len(u) /\ v[i] = u[i] /\ IsNew(u, i)
    BY <1>0, <1>1, <1>5 DEF IsNew
  <2>2. ~(u[i].nHeight <= ChainExpiry(SubSeq(u, k, i-1), u[k].nHeight))
    BY <1>0, <1>4, <2>1 DEF FreeWhenTaken
  <2> QED BY <1>2, <1>3, <2>1, <2>2
<1>6. CASE i = Len(u) + 1
  <2>1. v[i] = e /\ e.op = "new" /\ i - 1 = Len(u) /\ u # <<>>
    BY <1>0, <1>1, <1>6 DEF IsNew
  <2>2. ~Deleted(rec) /\ ~Corrupt(rec)
    BY <1>4, <2>1 DEF Deleted, MayPush, u
  <2>3. ~(e.nHeight <= rec.nExpiresAt)
    BY <2>1, <2>2 DEF MayPush, NameActive
  <2>4. last < Len(u)
    BY <1>0, <2>1, <2>2 DEF Corrupt, u, last
  <2>5. IsNew(u, last + 1) /\ \A m \in (last + 2)..Len(u) : ~IsNew(u, m)
    BY <1>0, <2>1, <2>4 DEF GoodRecord, StartsActiveChain, u, last
  <2>6. k = last + 1
    <3>1. ~(k > last + 1)
      BY <1>0, <1>4, <2>1, <2>5
    <3>2. ~(k < last + 1)
      BY <1>0, <1>4, <2>1, <2>4, <2>5
    <3> QED BY <1>0, <3>1, <3>2
  <2>7. rec.nExpiresAt = ChainExpiry(SubSeq(u, last + 1, Len(u)), u[last + 1].nHeight)
    BY <2>2 DEF GoodRecord, ExpiryCached, ActiveChain, u, last
  <2> QED BY <1>2, <1>3, <2>1, <2>3, <2>6, <2>7
<1> QED
  BY <1>0, <1>1, <1>5, <1>6

\* PushOperation keeps a record good, prunes from the front only, and leaves
\* nLastActiveChainIndex inside the history.
LEMMA PushGood ==
    ASSUME NEW rec, NEW e \in CNameIndex, GoodRecord(rec), MayPush(rec, e),
           NEW r, r = PushOperation(rec, e)
    PROVE  GoodRecord(r) /\ r.vtxPos # <<>> /\ ~Corrupt(r)
<1> DEFINE v == Append(rec.vtxPos, e)
           last == IF e.op = "new" THEN Len(v) - 1 ELSE rec.nLastActiveChainIndex
           d == IF Len(v) > MaxSize /\ Len(v) - last + 1 <= MaxSize THEN Len(v) - MaxSize ELSE 0
           w == SubSeq(v, d + 1, Len(v))
<1>0. rec.vtxPos \in Seq(CNameIndex) /\ rec.nLastActiveChainIndex \in Nat
  BY DEF GoodRecord
<1>1. v \in Seq(CNameIndex) /\ Len(v) = Len(rec.vtxPos) + 1 /\ Len(v) \in Nat \ {0}
  BY <1>0
<1>2. last \in Nat /\ last < Len(v) /\ v[last + 1].op = "new" /\ \A k \in (last + 2)..Len(v) : v[k].op # "new"
  <2>1. CASE e.op = "new"
    BY <1>0, <2>1
  <2>2. CASE e.op # "new"
    <3>1. rec.vtxPos # <<>> /\ rec.nLastActiveChainIndex < Len(rec.vtxPos)
      BY <1>0, <2>2 DEF Corrupt, MayPush
    <3>2. /\ rec.vtxPos[rec.nLastActiveChainIndex + 1].op = "new"
          /\ \A k \in (rec.nLastActiveChainIndex + 2)..Len(rec.vtxPos) : rec.vtxPos[k].op # "new"
      BY <1>0, <3>1 DEF StartsActiveChain, IsNew, GoodRecord
    <3> QED BY <1>0, <2>2, <3>1, <3>2
  <2> QED BY <2>1, <2>2
<1>2a. FreeWhenTaken(v)
  BY FreeAppend
<1> HIDE DEF v, last
<1>3. d \in Nat /\ d <= last
  BY <1>1, <1>2, BoundAssumption
<1> HIDE DEF d
<1>4. /\ w \in Seq(CNameIndex) /\ Len(w) = Len(v) - d
      /\ \A i \in 1..(Len(v) - d) : w[i] = v[d + i]
  <2>1. \A i \in (d + 1)..Len(v) : v[i] \in CNameIndex
    BY <1>1, <1>3, ElementOfSeq
  <2> QED BY <1>1, <1>2, <1>3, <2>1, SubSeqProperties
<1> HIDE DEF w
<1>5. r = CalculateExpiresAt(w, last - d, 0)
  BY DEF PushOperation, v, last, d, w
<1>6. r.vtxPos = w /\ r.nLastActiveChainIndex = last - d
  BY <1>5 DEF CalculateExpiresAt
<1>7. last - d \in Nat /\ last - d < Len(w)
  BY <1>1, <1>2, <1>3, <1>4
<1>8. StartsActiveChain(w, last - d)
  <2>1. w[(last - d) + 1] = v[last + 1]
    BY <1>1, <1>2, <1>3, <1>4
  <2>2. \A k \in ((last - d) + 2)..Len(w) : w[k] = v[d + k] /\ d + k \in (last + 2)..Len(v)
    BY <1>1, <1>2, <1>3, <1>4
  <2> QED BY <1>2, <1>7, <2>1, <2>2 DEF StartsActiveChain, IsNew
<1>9. FreeWhenTaken(w)
  <2>1. Len(w) + d <= Len(v) /\ \A i \in 1..Len(w) : w[i] = v[i + d]
    BY <1>1, <1>3, <1>4
  <2> QED BY <1>1, <1>2a, <1>3, <1>4, <2>1, FreePart
<1>10. ~Deleted(r) => r.nExpiresAt = ChainExpiry(ActiveChain(w, last - d), w[(last - d) + 1].nHeight)
  BY <1>5, <1>6, <1>7 DEF CalculateExpiresAt, Deleted
<1>11. w # <<>> /\ ~Corrupt(r)
  BY <1>4, <1>6, <1>7 DEF Corrupt
<1> QED
  BY <1>4, <1>6, <1>7, <1>8, <1>9, <1>10, <1>11 DEF GoodRecord, ExpiryCached

\* PopOperation keeps a record good, the case in which no name_new is left
\* included.
LEMMA PopGood ==
    ASSUME NEW rec, GoodRecord(rec), rec.vtxPos # <<>>, ~Corrupt(rec),
           NEW g, NEW r, r = PopOperation(rec, g)
    PROVE  GoodRecord(r)
<1> DEFINE u == rec.vtxPos
           at == rec.nLastActiveChainIndex
           v == SubSeq(u, 1, Len(u) - 1)
           news == {k \in 1..Len(v) : v[k].op = "new"}
           last == IF u[Len(u)].op = "new" /\ news # {} THEN Max(news) - 1 ELSE at
<1>0. /\ u \in Seq(CNameIndex) /\ Len(u) \in Nat \ {0} /\ at \in Nat /\ at < Len(u)
      /\ FreeWhenTaken(u)
  <2>1. u \in Seq(CNameIndex) /\ at \in Nat /\ FreeWhenTaken(u) /\ u # <<>>
    BY DEF GoodRecord
  <2>2. Len(u) \in Nat \ {0}
    BY <2>1
  <2>3. at < Len(u)
    BY <2>1, <2>2 DEF Corrupt
  <2> QED BY <2>1, <2>2, <2>3
<1>1. u[at + 1].op = "new" /\ \A k \in (at + 2)..Len(u) : u[k].op # "new"
  <2>1. StartsActiveChain(u, at)
    BY DEF GoodRecord
  <2> QED BY <1>0, <2>1 DEF StartsActiveChain, IsNew
<1>2. r = CalculateExpiresAt(v, last, g)
  BY DEF PopOperation
<1> HIDE DEF u, at
<1>3. v \in Seq(CNameIndex) /\ Len(v) = Len(u) - 1 /\ \A i \in 1..Len(v) : v[i] = u[i]
  <2>1. v = SubSeq(u, 1, Len(u) - 1)
    OBVIOUS
  <2> HIDE DEF v, news, last
  <2> QED BY <1>0, <2>1, WithoutLast, Zenon
<1> HIDE DEF v
<1>4. last \in Nat /\ (v # <<>> => StartsActiveChain(v, last))
  <2>1. CASE u[Len(u)].op # "new"
    <3>1. last = at
      BY <2>1
    <3>2. at + 1 # Len(u)
      BY <1>1, <2>1
    <3>3. at < Len(v) /\ v[at + 1] = u[at + 1]
      BY <1>0, <1>3, <3>2
    <3>4. \A k \in (at + 2)..Len(v) : v[k].op # "new"
      BY <1>0, <1>1, <1>3
    <3> QED BY <1>0, <1>1, <3>1, <3>3, <3>4 DEF StartsActiveChain, IsNew
  <2>2. CASE u[Len(u)].op = "new" /\ news # {}
    <3>1. last = Max(news) - 1
      BY <2>2
    <3>2. Max(news) \in news /\ \A y \in news : y <= Max(news)
      <4>1. Len(v) \in Nat /\ news \in SUBSET (1..Len(v))
        BY <1>0, <1>3
      <4> HIDE DEF news
      <4> QED BY <2>2, <4>1, LargestPosition
    <3>3. Max(news) \in 1..Len(v) /\ v[Max(news)].op = "new"
      BY <3>2
    <3>4. \A k \in 1..Len(v) : v[k].op = "new" => k <= Max(news)
      BY <3>2
    <3> DEFINE m == Max(news)
    <3> HIDE DEF m, news, last
    <3>5. m \in 1..Len(v) /\ v[m].op = "new" /\ (\A k \in 1..Len(v) : v[k].op = "new" => k <= m) /\ last = m - 1
      BY <3>1, <3>3, <3>4 DEF m
    <3>6. last \in Nat /\ last < Len(v) /\ last + 1 = m
      BY <1>0, <1>3, <3>5
    <3>7. \A k \in (last + 2)..Len(v) : v[k].op # "new"
      BY <1>0, <1>3, <3>5, <3>6
    <3> QED BY <3>5, <3>6, <3>7 DEF StartsActiveChain, IsNew
  <2>3. CASE u[Len(u)].op = "new" /\ news = {}
    <3>1. last = at
      BY <2>3
    <3>2. ~(Len(u) \in (at + 2)..Len(u))
      BY <1>1, <2>3
    <3>3. at + 1 = Len(u)
      BY <1>0, <3>2
    <3>4. at = Len(v)
      BY <1>0, <1>3, <3>3
    <3>5. \A k \in 1..Len(v) : v[k].op # "new"
      BY <2>3
    <3> QED BY <1>0, <3>1, <3>4, <3>5 DEF StartsActiveChain, IsNew
  <2> QED BY <2>1, <2>2, <2>3
<1> HIDE DEF last
<1>5. FreeWhenTaken(v)
  <2>1. Len(v) + 0 <= Len(u) /\ \A i \in 1..Len(v) : v[i] = u[i + 0]
    BY <1>0, <1>3
  <2> QED BY <1>0, <1>3, <2>1, FreePart
<1>6. r.vtxPos = v /\ r.nLastActiveChainIndex = last
  BY <1>2 DEF CalculateExpiresAt
<1>7. ~Deleted(r) /\ ~Corrupt(r) =>
        r.nExpiresAt = ChainExpiry(ActiveChain(v, last), v[last + 1].nHeight)
  <2> SUFFICES ASSUME ~Deleted(r), ~Corrupt(r)
               PROVE  r.nExpiresAt = ChainExpiry(ActiveChain(v, last), v[last + 1].nHeight)
    OBVIOUS
  <2>1. v # <<>> /\ v[Len(v)].op # "delete" 
    BY <1>6 DEF Deleted
  <2>2. last < Len(v)
    <3>1. ~(last >= Len(v))
      BY <1>6, <2>1 DEF Corrupt
    <3> QED BY <1>0, <1>3, <1>4, <3>1
  <2> QED BY <1>2, <2>1, <2>2 DEF CalculateExpiresAt
<1> QED
  BY <1>3, <1>4, <1>5, <1>6, <1>7 DEF GoodRecord, ExpiryCached

-----------------------------------------------------------------------------
(* Types of the values the actions build.                                  *)

\* The fields of a transaction that DecodeNameScript fills.
LEMMA TxFields ==
    ASSUME NEW t \in Tx
    PROVE  t.name \in Name /\ t.addr \in Addr /\ t.op \in Ops
  BY TxAssumption DEF TxRecord

\* The addresses CheckInputs takes from the index and from the operation.
LEMMA AddrOf ==
    /\ \A rec : rec.vtxPos \in Seq(CNameIndex) => LastAddr(rec) \in Addr \cup {NoAddr}
    /\ \A t \in Tx : NewAddr(t) \in Addr \cup {NoAddr}
<1>1. ASSUME NEW rec, rec.vtxPos \in Seq(CNameIndex)
      PROVE  LastAddr(rec) \in Addr \cup {NoAddr}
  <2>1. CASE Deleted(rec)
    BY <2>1 DEF LastAddr
  <2>2. CASE ~Deleted(rec)
    <3>1. rec.vtxPos # <<>>
      BY <2>2 DEF Deleted
    <3>2. rec.vtxPos[Len(rec.vtxPos)] \in CNameIndex
      BY <1>1, <3>1
    <3>3. rec.vtxPos[Len(rec.vtxPos)].txPos \in Tx
      BY <3>2 DEF CNameIndex
    <3> QED BY <2>2, <3>3, TxFields DEF LastAddr
  <2> QED BY <2>1, <2>2
<1>2. ASSUME NEW t \in Tx PROVE NewAddr(t) \in Addr \cup {NoAddr}
  BY TxFields DEF NewAddr
<1> QED BY <1>1, <1>2

\* MoveName keeps nameaddress.dat a map from addresses to names.
LEMMA MoveNameType ==
    ASSUME NEW db \in [Addr -> SUBSET Name], NEW old \in Addr \cup {NoAddr},
           NEW new \in Addr \cup {NoAddr}, NEW n \in Name
    PROVE  MoveName(db, old, new, n) \in [Addr -> SUBSET Name]
<1>1. ASSUME NEW f \in [Addr -> SUBSET Name], NEW a \in Addr
      PROVE  /\ EraseSingleName(f, a, n) \in [Addr -> SUBSET Name]
             /\ WriteSingleName(f, a, n) \in [Addr -> SUBSET Name]
  BY <1>1 DEF EraseSingleName, WriteSingleName
<1> QED BY <1>1 DEF MoveName

\* The positions still to be processed are positions of the block, and
\* prev_address is known for each of them.
JobOK(jb) ==
    /\ jb \in JobType
    /\ jb.todo \subseteq DOMAIN jb.blk /\ Len(jb.prev) = Len(jb.blk)

\* The state a job is started with is well typed.
LEMMA JobTyped ==
    ASSUME NEW p \in Phases, NEW blk \in Seq(Tx), NEW h \in Nat,
           NEW todo \in SUBSET DOMAIN blk,
           NEW prev \in [DOMAIN blk -> Addr \cup {NoAddr}]
    PROVE  JobOK(Job(p, blk, h, todo, prev))
<1>1. DOMAIN blk = 1..Len(blk) /\ Len(blk) \in Nat
  OBVIOUS
<1>2. prev \in Seq(Addr \cup {NoAddr}) /\ Len(prev) = Len(blk)
  BY <1>1
<1>3. Job(p, blk, h, todo, prev) \in JobType
  BY <1>1, <1>2 DEF Job, JobType
<1> QED BY <1>2, <1>3 DEF Job, JobOK

\* Between blocks no operation is waiting.
LEMMA NoJobTyped == \A p \in Phases : JobOK(NoJob(p)) /\ NoJob(p).phase = p /\ NoJob(p).todo = {}
<1> TAKE p \in Phases
<1>1. <<>> \in Seq(Tx) /\ 0 \in Nat /\ {} \in SUBSET DOMAIN <<>>
  OBVIOUS
<1>2. NoJob(p) \in JobType
  BY DEF NoJob, Job, JobType
<1> QED BY <1>2 DEF NoJob, Job, JobOK

\* vName, as ConnectBlock and DisconnectBlock collect it, is well typed.
LEMMA CollectTyped ==
    ASSUME TypeOK, NEW p \in Phases, NEW blk \in Seq(Tx), NEW h \in Nat,
           CollectNames(p, blk, h)
    PROVE  JobOK(job)' /\ nameFile' \in BOOLEAN
<1>1. CASE job' = NoJob("assert") /\ nameFile' = FALSE
  BY <1>1, NoJobTyped DEF Phases
<1> DEFINE todo == {i \in Candidates(p, blk) : CheckInputs(blk[i], nameDB[blk[i].name], h)}
           prev == [i \in DOMAIN blk |-> LastAddr(nameDB[blk[i].name])]
<1>2. CASE job' = Job(p, blk, h, todo, prev) /\ nameFile' = nameFile
  <2>1. todo \in SUBSET DOMAIN blk
    BY DEF Candidates
  <2>2. prev \in [DOMAIN blk -> Addr \cup {NoAddr}]
    <3> SUFFICES ASSUME NEW i \in DOMAIN blk
                 PROVE  LastAddr(nameDB[blk[i].name]) \in Addr \cup {NoAddr}
      OBVIOUS
    <3>1. blk[i].name \in Name
      BY TxFields
    <3>2. nameDB[blk[i].name].vtxPos \in Seq(CNameIndex)
      BY <3>1 DEF TypeOK
    <3> QED BY <3>2, AddrOf
  <2> HIDE DEF todo, prev
  <2> QED BY <1>2, <2>1, <2>2, JobTyped DEF TypeOK
<1> QED BY <1>1, <1>2 DEF CollectNames

-----------------------------------------------------------------------------
(* The inductive invariant.                                                *)

RecordsGood == \A n \in Name : GoodRecord(nameDB[n])

\* What CheckInputs has established still holds of the operations of vName that
\* are not written yet, although the index has changed since: a name_new is
\* never written after another operation on its name in the same block, and a
\* second name_new is skipped.
VNameValid ==
    job.phase \in {"connect", "rebuild"} =>
        \A j \in job.todo :
            LET t == job.blk[j]
                rec == nameDB[t.name]
            IN  /\ t.op # "none"
                /\ ~Corrupt(rec)
                /\ t.op # "new" => rec.vtxPos # <<>>
                /\ (t.op = "new" /\ t.name \notin job.sNameNew) => ~NameActive(rec, job.nHeight)
                /\ \A k \in job.todo :
                      (t.op = "new" /\ job.blk[k].name = t.name) => job.blk[k].op = "new"

IInv == TypeOK /\ RecordsGood /\ VNameValid

\* A node with an empty chain and empty index files satisfies the invariant.
THEOREM InitIInv == Init => IInv
<1> SUFFICES ASSUME Init PROVE IInv OBVIOUS
<1>1. JobOK(job) /\ job.phase = "idle"
  BY NoJobTyped DEF Init, Phases
<1>2. \A n \in Name : nameDB[n] = EmptyRecord
  BY DEF Init
<1>3. RecordsGood
  BY <1>2, EmptyGood DEF RecordsGood
<1>4. \A n \in Name : nameDB[n].vtxPos \in Seq(CNameIndex) /\ nameDB[n].nLastActiveChainIndex \in Nat
  BY <1>3 DEF RecordsGood, GoodRecord
<1>5. /\ chain \in Seq(Seq(Tx)) /\ disk \in Seq(Seq(Tx)) /\ DOMAIN nameDB = Name
      /\ inDB \subseteq Name /\ nameFile \in BOOLEAN /\ addrDB \in [Addr -> SUBSET Name]
      /\ restarts \in Nat
  BY DEF Init
<1>6. TypeOK
  BY <1>1, <1>4, <1>5 DEF TypeOK, JobOK
<1>7. VNameValid
  BY <1>1 DEF VNameValid
<1> QED BY <1>3, <1>6, <1>7 DEF IInv

\* The invariant of the next state from its parts.
LEMMA Assemble ==
    ASSUME chain' \in Seq(Seq(Tx)), disk' \in Seq(Seq(Tx)), DOMAIN nameDB' = Name,
           \A n \in Name : GoodRecord(nameDB'[n]), inDB' \subseteq Name,
           nameFile' \in BOOLEAN, addrDB' \in [Addr -> SUBSET Name], JobOK(job'),
           restarts' \in Nat, VNameValid'
    PROVE  IInv'
<1>1. \A n \in Name : nameDB'[n].vtxPos \in Seq(CNameIndex) /\ nameDB'[n].nLastActiveChainIndex \in Nat
  BY DEF GoodRecord
<1>2. TypeOK'
  BY <1>1 DEF TypeOK, JobOK
<1> QED BY <1>2 DEF IInv, RecordsGood

\* Steps that leave the databases alone.
LEMMA AssembleUnchanged ==
    ASSUME IInv, chain' \in Seq(Seq(Tx)), disk' \in Seq(Seq(Tx)), UNCHANGED <<nameDB, inDB, addrDB>>,
           nameFile' \in BOOLEAN, JobOK(job'), restarts' \in Nat, VNameValid'
    PROVE  IInv'
<1>1. DOMAIN nameDB' = Name /\ inDB' \subseteq Name /\ addrDB' \in [Addr -> SUBSET Name]
  BY DEF IInv, TypeOK
<1>2. \A n \in Name : GoodRecord(nameDB'[n])
  BY DEF IInv, RecordsGood
<1> QED BY <1>1, <1>2, Assemble

\* ConnectBlock puts only operations into vName that CheckInputs accepted
\* against the index before the block.
LEMMA CollectValid ==
    ASSUME TypeOK, NEW p \in {"connect", "rebuild"}, NEW blk \in Seq(Tx), NEW h \in Nat,
           CollectNames(p, blk, h), nameDB' = nameDB
    PROVE  VNameValid'
<1>1. CASE job' = NoJob("assert")
  <2>1. job'.phase = "assert"
    BY <1>1, NoJobTyped DEF Phases
  <2> QED BY <2>1 DEF VNameValid
<1> DEFINE todo == {i \in Candidates(p, blk) : CheckInputs(blk[i], nameDB[blk[i].name], h)}
           prev == [i \in DOMAIN blk |-> LastAddr(nameDB[blk[i].name])]
<1>2. CASE /\ job' = Job(p, blk, h, todo, prev)
           /\ \A i \in Candidates(p, blk) : blk[i].op = "none" \/ ~Corrupt(nameDB[blk[i].name])
  <2>1. job'.todo = todo /\ job'.blk = blk /\ job'.nHeight = h
    BY <1>2 DEF Job
  <2>2. \A j \in todo : j \in Candidates(p, blk) /\ CheckInputs(blk[j], nameDB[blk[j].name], h)
    OBVIOUS
  <2>3. ASSUME NEW j \in todo
        PROVE  /\ blk[j].op # "none"
               /\ ~Corrupt(nameDB[blk[j].name])
               /\ blk[j].op # "new" => nameDB[blk[j].name].vtxPos # <<>>
               /\ blk[j].op = "new" => ~NameActive(nameDB[blk[j].name], h)
    BY <1>2, <2>2 DEF CheckInputs, SpendsLast, Deleted
  <2>4. ASSUME NEW j \in todo, NEW k \in todo, blk[j].op = "new", blk[k].name = blk[j].name
        PROVE  blk[k].op = "new"
    <3>1. ~NameActive(nameDB[blk[k].name], h)
      BY <2>3, <2>4
    <3> QED BY <2>2, <3>1 DEF CheckInputs
  <2> HIDE DEF todo, prev
  <2> QED BY <2>1, <2>3, <2>4 DEF VNameValid
<1> QED BY <1>1, <1>2 DEF CollectNames

\* ConnectBlock up to the call of the name hook preserves the invariant.
LEMMA BeginConnectIInv == ASSUME IInv, NEW b \in Blocks, BeginConnect(b) PROVE IInv'
<1>1. b \in Seq(Tx) /\ Len(chain) + 1 \in Nat
  BY TxAssumption DEF IInv, TypeOK
<1>2. CollectNames("connect", b, Len(chain) + 1) /\ UNCHANGED <<chain, disk, nameDB, inDB, addrDB, restarts>>
  BY DEF BeginConnect
<1>3. JobOK(job') /\ nameFile' \in BOOLEAN
  BY <1>1, <1>2, CollectTyped DEF IInv, Phases
<1>4. VNameValid'
  BY <1>1, <1>2, CollectValid DEF IInv
<1> QED BY <1>2, <1>3, <1>4, AssembleUnchanged DEF IInv, TypeOK

\* createNameIndexes going to its next block preserves the invariant.
LEMMA RebuildNextBlockIInv == ASSUME IInv, RebuildNextBlock PROVE IInv'
<1>0. UNCHANGED <<chain, disk, nameDB, inDB, addrDB, restarts>>
  BY DEF RebuildNextBlock
<1>1. CASE job' = NoJob("idle") /\ nameFile' = nameFile
  <2>1. JobOK(job') /\ job'.phase = "idle"
    BY <1>1, NoJobTyped DEF Phases
  <2>2. VNameValid'
    BY <2>1 DEF VNameValid
  <2> QED BY <1>0, <1>1, <2>1, <2>2, AssembleUnchanged DEF IInv, TypeOK
<1>2. CASE job.nHeight < Len(chain) /\ CollectNames("rebuild", chain[job.nHeight + 1], job.nHeight + 1)
  <2>1. job.nHeight \in Nat /\ chain \in Seq(Seq(Tx))
    BY DEF IInv, TypeOK, JobType
  <2>2. job.nHeight + 1 \in Nat /\ chain[job.nHeight + 1] \in Seq(Tx)
    BY <1>2, <2>1
  <2>3. JobOK(job') /\ nameFile' \in BOOLEAN
    BY <1>2, <2>2, CollectTyped DEF IInv, Phases
  <2>4. VNameValid'
    BY <1>0, <1>2, <2>2, CollectValid DEF IInv
  <2> QED BY <1>0, <2>3, <2>4, AssembleUnchanged DEF IInv, TypeOK
<1> QED BY <1>1, <1>2 DEF RebuildNextBlock

\* Steps after which no operation of vName is left.
LEMMA IdleIInv ==
    ASSUME IInv, NEW p \in Phases, job' = NoJob(p), UNCHANGED <<nameDB, inDB, addrDB>>,
           nameFile' \in BOOLEAN, chain' \in Seq(Seq(Tx)), disk' \in Seq(Seq(Tx)), restarts' \in Nat
    PROVE  IInv'
<1>1. JobOK(job') /\ job'.todo = {}
  BY NoJobTyped
<1>2. VNameValid'
  BY <1>1 DEF VNameValid
<1> QED BY <1>1, <1>2, AssembleUnchanged

\* The end of a connect or disconnect, a flush and a crash preserve the
\* invariant.
LEMMA SimpleStepsIInv ==
    ASSUME IInv, EndConnect \/ EndDisconnect \/ FlushStateToDisk \/ Crash
    PROVE  IInv'
<1>0. /\ chain \in Seq(Seq(Tx)) /\ disk \in Seq(Seq(Tx)) /\ nameFile \in BOOLEAN /\ restarts \in Nat
      /\ job.blk \in Seq(Tx) /\ JobOK(job)
  BY DEF IInv, TypeOK, JobType, JobOK
<1>1. CASE EndConnect
  <2>1. Append(chain, job.blk) \in Seq(Seq(Tx))
    BY <1>0
  <2> QED BY <1>0, <1>1, <2>1, IdleIInv DEF EndConnect, Phases, dbVars
<1>2. CASE EndDisconnect
  <2>1. SubSeq(chain, 1, Len(chain) - 1) \in Seq(Seq(Tx))
    <3>1. \A i \in 1..(Len(chain) - 1) : chain[i] \in Seq(Tx)
      BY <1>0, ElementOfSeq
    <3>2. Len(chain) - 1 \in Int
      BY <1>0
    <3> QED BY <3>1, <3>2, SubSeqProperties
  <2> QED BY <1>0, <1>2, <2>1, IdleIInv DEF EndDisconnect, Phases, dbVars
<1>3. CASE FlushStateToDisk
  <2>1. job' = job /\ nameDB' = nameDB /\ UNCHANGED <<chain, inDB, addrDB, nameFile, restarts>> /\ disk' = chain
    BY <1>3 DEF FlushStateToDisk, dbVars
  <2>2. VNameValid'
    BY <2>1 DEF IInv, VNameValid
  <2> QED BY <1>0, <2>1, <2>2, AssembleUnchanged
<1>4. CASE Crash
  BY <1>0, <1>4, IdleIInv DEF Crash, Phases, dbVars
<1> QED BY <1>1, <1>2, <1>3, <1>4

\* DisconnectBlock up to the first name operation preserves the invariant.
LEMMA BeginDisconnectIInv == ASSUME IInv, BeginDisconnect PROVE IInv'
<1> DEFINE blk == chain[Len(chain)]
           none == [i \in DOMAIN blk |-> NoAddr]
<1>0. chain \in Seq(Seq(Tx)) /\ chain # <<>>
  BY DEF IInv, TypeOK, BeginDisconnect
<1>1. blk \in Seq(Tx) /\ Len(chain) \in Nat
  BY <1>0
<1>2. none \in [DOMAIN blk -> Addr \cup {NoAddr}] /\ DOMAIN blk \in SUBSET DOMAIN blk
  OBVIOUS
<1>3. job' = Job("disconnect", blk, Len(chain), DOMAIN blk, none) /\ UNCHANGED <<chain, disk, dbVars, restarts>>
  BY DEF BeginDisconnect
<1> HIDE DEF blk, none
<1>4. JobOK(job')
  BY <1>1, <1>2, <1>3, JobTyped DEF Phases
<1>5. job'.phase = "disconnect"
  BY <1>3 DEF Job
<1>6. VNameValid'
  BY <1>5 DEF VNameValid
<1> QED BY <1>3, <1>4, <1>6, AssembleUnchanged DEF IInv, TypeOK, dbVars

\* The operation ConnectName takes up next.
LEMMA NextUpOf ==
    ASSUME NEW N \in Nat, NEW S \in SUBSET (1..N), S # {}
    PROVE  NextUp(S) \in S /\ \A k \in S : NextUp(S) <= k
<1>1. IsWellFoundedOn(OpToRel(<, Nat), Nat)
  BY NatLessThanWellFounded
<1>2. S \subseteq Nat
  OBVIOUS
<1>3. PICK m \in S : \A y \in S : ~(<<y, m>> \in OpToRel(<, Nat))
  BY <1>1, <1>2, WFMin
<1>4. \A y \in S : ~(y < m)
  BY <1>2, <1>3 DEF OpToRel
<1>5. \A y \in S : m <= y
  BY <1>2, <1>4
<1> QED BY <1>5, Zenon DEF NextUp

\* The write to nameindexV2.dat of one operation of vName.
WriteOperation(t) ==
    /\ nameDB' = [nameDB EXCEPT ![t.name] =
            PushOperation(@, [txPos |-> t, nHeight |-> job.nHeight, op |-> t.op])]
    /\ inDB' = inDB \cup {t.name}

\* Writing an operation of vName keeps every record good.
LEMMA WriteGood ==
    ASSUME IInv, job.phase \in {"connect", "rebuild"}, job.todo # {},
           NEW j, j = NextUp(job.todo), NEW t, t = job.blk[j],
           ~SecondNew(t), WriteOperation(t)
    PROVE  /\ j \in job.todo /\ j \in DOMAIN job.blk /\ t \in Tx
           /\ DOMAIN nameDB' = Name /\ inDB' \subseteq Name
           /\ \A n \in Name : GoodRecord(nameDB'[n])
           /\ \A n \in Name : n # t.name => nameDB'[n] = nameDB[n]
           /\ nameDB'[t.name].vtxPos # <<>> /\ ~Corrupt(nameDB'[t.name])
<1>0. /\ JobOK(job) /\ job.blk \in Seq(Tx) /\ job.nHeight \in Nat
      /\ DOMAIN nameDB = Name /\ inDB \subseteq Name
  BY DEF IInv, TypeOK, JobOK, JobType
<1>1. j \in job.todo /\ j \in DOMAIN job.blk
  <2>1. job.todo \in SUBSET (1..Len(job.blk)) /\ Len(job.blk) \in Nat
    BY <1>0 DEF JobOK
  <2>2. j \in job.todo
    BY <2>1, NextUpOf
  <2> QED BY <1>0, <2>2 DEF JobOK
<1>2. t \in Tx /\ t.name \in Name /\ t.op \in Ops
  BY <1>0, <1>1, TxFields
<1> DEFINE e == [txPos |-> t, nHeight |-> job.nHeight, op |-> t.op]
           rec == nameDB[t.name]
<1>3. e \in CNameIndex /\ e.op = t.op /\ e.nHeight = job.nHeight
  BY <1>0, <1>2 DEF CNameIndex
<1>4. GoodRecord(rec)
  BY <1>2 DEF IInv, RecordsGood
<1>5. /\ ~Corrupt(rec) /\ (t.op # "new" => rec.vtxPos # <<>>)
      /\ (t.op = "new" /\ t.name \notin job.sNameNew) => ~NameActive(rec, job.nHeight)
  BY <1>1 DEF IInv, VNameValid
<1>6. MayPush(rec, e)
  BY <1>3, <1>5 DEF MayPush, SecondNew
<1>7. /\ DOMAIN nameDB' = Name /\ nameDB'[t.name] = PushOperation(rec, e)
      /\ \A n \in Name : n # t.name => nameDB'[n] = nameDB[n]
  BY <1>0, <1>2 DEF WriteOperation
<1>8. inDB' \subseteq Name
  BY <1>0, <1>2 DEF WriteOperation
<1> HIDE DEF e, rec
<1>9. GoodRecord(nameDB'[t.name]) /\ nameDB'[t.name].vtxPos # <<>> /\ ~Corrupt(nameDB'[t.name])
  BY <1>3, <1>4, <1>6, <1>7, PushGood
<1>10. \A n \in Name : GoodRecord(nameDB'[n])
  BY <1>7, <1>9 DEF IInv, RecordsGood
<1> QED BY <1>1, <1>2, <1>7, <1>8, <1>9, <1>10

\* One round of the hook's loop in ConnectBlock preserves the invariant.
LEMMA ConnectNameIInv == ASSUME IInv, ConnectName PROVE IInv'
<1> DEFINE j == NextUp(job.todo)
           t == job.blk[j]
           old == job.prev[j]
<1>0. /\ job.phase \in {"connect", "rebuild"} /\ job.todo # {} /\ UNCHANGED <<chain, disk, restarts>>
      /\ JobOK(job) /\ job \in JobType
      /\ chain \in Seq(Seq(Tx)) /\ disk \in Seq(Seq(Tx)) /\ restarts \in Nat /\ nameFile \in BOOLEAN
  BY DEF ConnectName, IInv, TypeOK, JobOK
<1>1. CASE SecondNew(t) /\ job' = [job EXCEPT !.todo = @ \ {j}] /\ UNCHANGED dbVars
  <2>1. /\ job'.todo = job.todo \ {j} /\ job'.blk = job.blk /\ job'.nHeight = job.nHeight
        /\ job'.sNameNew = job.sNameNew /\ job'.prev = job.prev /\ job'.phase = job.phase
        /\ job' \in JobType
    BY <1>0, <1>1 DEF JobType
  <2>2. JobOK(job')
    BY <1>0, <2>1 DEF JobOK
  <2>3. nameDB' = nameDB /\ UNCHANGED <<inDB, addrDB, nameFile>>
    BY <1>1 DEF dbVars
  <2>4. VNameValid'
    BY <1>0, <2>1, <2>3 DEF IInv, VNameValid
  <2> QED BY <1>0, <2>2, <2>3, <2>4, AssembleUnchanged
<1>2. CASE /\ ~SecondNew(t) /\ WriteOperation(t) /\ nameFile' = nameFile
           /\ addrDB' = MoveName(addrDB, old, NewAddr(t), t.name)
           /\ job' = [job EXCEPT
                        !.todo = IF MoveNameOK(addrDB, old, NewAddr(t), t.name) THEN @ \ {j} ELSE {},
                        !.sNameNew = IF t.op = "new" THEN @ \cup {t.name} ELSE @]
  <2>1. /\ j \in job.todo /\ j \in DOMAIN job.blk /\ t \in Tx
        /\ DOMAIN nameDB' = Name /\ inDB' \subseteq Name
        /\ \A n \in Name : GoodRecord(nameDB'[n])
        /\ \A n \in Name : n # t.name => nameDB'[n] = nameDB[n]
        /\ nameDB'[t.name].vtxPos # <<>> /\ ~Corrupt(nameDB'[t.name])
    BY <1>0, <1>2, WriteGood
  <2>2. t.name \in Name
    BY <2>1, TxFields
  <2>3. addrDB' \in [Addr -> SUBSET Name]
    <3>1. old \in Addr \cup {NoAddr}
      <4>1. job.prev \in Seq(Addr \cup {NoAddr}) /\ Len(job.prev) = Len(job.blk) /\ job.blk \in Seq(Tx)
        BY <1>0 DEF JobOK, JobType
      <4>2. j \in DOMAIN job.prev
        BY <2>1, <4>1
      <4> QED BY <4>1, <4>2
    <3>2. NewAddr(t) \in Addr \cup {NoAddr}
      BY <2>1, AddrOf
    <3>3. addrDB \in [Addr -> SUBSET Name]
      BY DEF IInv, TypeOK
    <3> QED BY <1>2, <2>2, <3>1, <3>2, <3>3, MoveNameType
  <2>4. /\ job'.todo \subseteq job.todo \ {j} /\ job'.blk = job.blk /\ job'.nHeight = job.nHeight
        /\ job'.prev = job.prev /\ job'.phase = job.phase
        /\ job'.sNameNew = IF t.op = "new" THEN job.sNameNew \cup {t.name} ELSE job.sNameNew
    BY <1>0, <1>2 DEF JobType
  <2>5. job' \in JobType
    BY <1>0, <1>2, <2>2 DEF JobType
  <2>6. JobOK(job')
    BY <1>0, <2>4, <2>5 DEF JobOK
  <2>7. VNameValid'
    <3> SUFFICES ASSUME NEW i \in job'.todo
                 PROVE  /\ job.blk[i].op # "none"
                        /\ ~Corrupt(nameDB'[job.blk[i].name])
                        /\ job.blk[i].op # "new" => nameDB'[job.blk[i].name].vtxPos # <<>>
                        /\ (job.blk[i].op = "new" /\ job.blk[i].name \notin job'.sNameNew)
                              => ~NameActive(nameDB'[job.blk[i].name], job.nHeight)
                        /\ \A k \in job'.todo : (job.blk[i].op = "new" /\ job.blk[k].name = job.blk[i].name)
                              => job.blk[k].op = "new"
      BY <2>4 DEF VNameValid
    <3> DEFINE u == job.blk[i]
    <3>1. i \in job.todo /\ job'.todo \subseteq job.todo
      BY <2>4
    <3>2. u.name \in Name
      <4>1. i \in DOMAIN job.blk /\ job.blk \in Seq(Tx)
        BY <1>0, <3>1 DEF JobOK, JobType
      <4> QED BY <4>1, TxFields
    <3>3. /\ u.op # "none" /\ ~Corrupt(nameDB[u.name])
          /\ u.op # "new" => nameDB[u.name].vtxPos # <<>>
          /\ (u.op = "new" /\ u.name \notin job.sNameNew) => ~NameActive(nameDB[u.name], job.nHeight)
          /\ \A k \in job.todo : (u.op = "new" /\ job.blk[k].name = u.name) => job.blk[k].op = "new"
      BY <1>0, <3>1 DEF IInv, VNameValid
    <3>4. u.op = "new" /\ u.name = t.name => t.op = "new"
      BY <2>1, <3>3
    <3> HIDE DEF u, t, j
    <3>5. CASE u.name = t.name
      <4>1. u.op = "new" => u.name \in job'.sNameNew
        BY <2>4, <3>4, <3>5
      <4> QED BY <2>1, <3>1, <3>3, <3>5, <4>1 DEF u
    <3>6. CASE u.name # t.name
      <4>1. nameDB'[u.name] = nameDB[u.name]
        BY <2>1, <3>2, <3>6
      <4>2. u.name \notin job'.sNameNew => u.name \notin job.sNameNew
        BY <2>4
      <4> QED BY <3>1, <3>3, <4>1, <4>2 DEF u
    <3> QED BY <3>5, <3>6
  <2> QED BY <1>0, <1>2, <2>1, <2>3, <2>6, <2>7, Assemble
<1> QED BY <1>1, <1>2 DEF ConnectName, WriteOperation

\* Undoing the last operation of a name.
LEMMA PopRecords ==
    ASSUME IInv, NEW n \in Name, ~Corrupt(nameDB[n]), nameDB[n].vtxPos # <<>>, NEW g,
           nameDB' = [nameDB EXCEPT ![n] = PopOperation(nameDB[n], g)]
    PROVE  DOMAIN nameDB' = Name /\ \A m \in Name : GoodRecord(nameDB'[m])
<1>1. DOMAIN nameDB = Name /\ \A m \in Name : GoodRecord(nameDB[m])
  BY DEF IInv, TypeOK, RecordsGood
<1>2. DOMAIN nameDB' = Name /\ nameDB'[n] = PopOperation(nameDB[n], g)
  BY <1>1
<1>3. GoodRecord(nameDB'[n])
  BY <1>1, <1>2, PopGood
<1>4. \A m \in Name : m # n => nameDB'[m] = nameDB[m]
  BY <1>1
<1> QED BY <1>1, <1>2, <1>3, <1>4

\* The operation DisconnectName takes up next.
LEMMA NextDownOf ==
    ASSUME NEW N \in Nat, NEW S \in SUBSET (1..N), S # {}
    PROVE  NextDown(S) \in S /\ \A k \in S : k <= NextDown(S)
<1>1. Max(S) \in S /\ \A y \in S : y <= Max(S)
  BY LargestPosition
<1> QED BY <1>1, Zenon DEF NextDown

\* The operation that DisconnectName undoes is a transaction of the block.
LEMMA UndoneTx ==
    ASSUME IInv, job.todo # {}
    PROVE  job.blk[NextDown(job.todo)] \in Tx
<1>1. job.blk \in Seq(Tx) /\ job.todo \in SUBSET (1..Len(job.blk)) /\ Len(job.blk) \in Nat
  BY DEF IInv, TypeOK, JobType
<1>2. NextDown(job.todo) \in job.todo
  BY <1>1, NextDownOf
<1> QED BY <1>1, <1>2

\* DisconnectInputs of one operation preserves the invariant.
LEMMA DisconnectNameIInv == ASSUME IInv, DisconnectName PROVE IInv'
<1> DEFINE j == NextDown(job.todo)
           t == job.blk[j]
           rec == nameDB[t.name]
           next == [job EXCEPT !.todo = @ \ {j}]
<1>0. /\ job.phase = "disconnect" /\ UNCHANGED <<chain, disk, restarts>>
      /\ chain \in Seq(Seq(Tx)) /\ disk \in Seq(Seq(Tx)) /\ restarts \in Nat /\ nameFile \in BOOLEAN
      /\ inDB \subseteq Name /\ addrDB \in [Addr -> SUBSET Name] /\ DOMAIN nameDB = Name
      /\ JobOK(job)
  BY DEF DisconnectName, IInv, TypeOK, JobOK
<1>1. t \in Tx /\ t.name \in Name
  BY UndoneTx, TxFields DEF DisconnectName
<1>2. JobOK(next) /\ next.phase = "disconnect"
  <2>1. /\ next \in JobType /\ next.todo = job.todo \ {j} /\ next.blk = job.blk
        /\ next.prev = job.prev /\ next.phase = job.phase
    BY <1>0 DEF JobOK, JobType
  <2> HIDE DEF next
  <2> QED BY <1>0, <2>1 DEF JobOK
<1>3. job' = next \/ job' = NoJob("assert")
  BY DEF DisconnectName
<1> HIDE DEF next
<1>4. JobOK(job') /\ job'.phase \in {"disconnect", "assert"}
  BY <1>2, <1>3, NoJobTyped DEF Phases
<1>5. VNameValid'
  BY <1>4 DEF VNameValid
<1>6. CASE UNCHANGED <<nameDB, inDB, addrDB>> /\ nameFile' \in BOOLEAN
  BY <1>0, <1>4, <1>5, <1>6, AssembleUnchanged
<1>7. CASE /\ nameDB' = [nameDB EXCEPT ![t.name] = EmptyRecord] /\ inDB' = inDB \ {t.name}
           /\ UNCHANGED <<nameFile, addrDB>>
  <2>1. DOMAIN nameDB' = Name /\ \A n \in Name : nameDB'[n] = EmptyRecord \/ nameDB'[n] = nameDB[n]
    BY <1>0, <1>7
  <2>2. \A n \in Name : GoodRecord(nameDB'[n])
    BY <2>1, EmptyGood DEF IInv, RecordsGood
  <2>3. inDB' \subseteq Name
    BY <1>0, <1>7
  <2> QED BY <1>0, <1>4, <1>5, <1>7, <2>1, <2>2, <2>3, Assemble
<1>8. CASE /\ ~Corrupt(rec) /\ rec.vtxPos # <<>> /\ UNCHANGED <<inDB, nameFile>>
           /\ \E g \in Garbage :
                /\ nameDB' = [nameDB EXCEPT ![t.name] = PopOperation(rec, g)]
                /\ addrDB' = MoveName(addrDB, NewAddr(t), LastAddr(PopOperation(rec, g)), t.name)
  <2>1. PICK g \in Garbage :
                /\ nameDB' = [nameDB EXCEPT ![t.name] = PopOperation(rec, g)]
                /\ addrDB' = MoveName(addrDB, NewAddr(t), LastAddr(PopOperation(rec, g)), t.name)
    BY <1>8
  <2>2. DOMAIN nameDB' = Name /\ \A n \in Name : GoodRecord(nameDB'[n])
    BY <1>1, <1>8, <2>1, PopRecords
  <2>3. nameDB'[t.name] = PopOperation(rec, g)
    BY <1>0, <1>1, <2>1
  <2>4. LastAddr(PopOperation(rec, g)) \in Addr \cup {NoAddr}
    <3>1. PopOperation(rec, g).vtxPos \in Seq(CNameIndex)
      BY <1>1, <2>2, <2>3 DEF GoodRecord
    <3> QED BY <3>1, AddrOf
  <2>5. addrDB' \in [Addr -> SUBSET Name]
    <3>1. NewAddr(t) \in Addr \cup {NoAddr}
      BY <1>1, AddrOf
    <3> QED BY <1>0, <1>1, <2>1, <2>4, <3>1, MoveNameType
  <2> QED BY <1>0, <1>4, <1>5, <1>8, <2>2, <2>5, Assemble
<1>9. \/ UNCHANGED <<nameDB, inDB, addrDB>> /\ nameFile' \in BOOLEAN
      \/ /\ nameDB' = [nameDB EXCEPT ![t.name] = EmptyRecord] /\ inDB' = inDB \ {t.name}
         /\ UNCHANGED <<nameFile, addrDB>>
      \/ /\ ~Corrupt(rec) /\ rec.vtxPos # <<>> /\ UNCHANGED <<inDB, nameFile>>
         /\ \E g \in Garbage :
                /\ nameDB' = [nameDB EXCEPT ![t.name] = PopOperation(rec, g)]
                /\ addrDB' = MoveName(addrDB, NewAddr(t), LastAddr(PopOperation(rec, g)), t.name)
  BY <1>0 DEF DisconnectName, dbVars
<1> QED BY <1>6, <1>7, <1>8, <1>9

\* A crash between WriteName and MoveName preserves the invariant.
LEMMA CrashBetweenWritesIInv == ASSUME IInv, CrashBetweenWrites PROVE IInv'
<1>0. /\ chain' \in Seq(Seq(Tx)) /\ disk' \in Seq(Seq(Tx)) /\ restarts' \in Nat /\ nameFile' \in BOOLEAN
      /\ addrDB' \in [Addr -> SUBSET Name] /\ inDB \subseteq Name
  BY DEF CrashBetweenWrites, IInv, TypeOK
<1>1. JobOK(job') /\ job'.phase = "down"
  BY NoJobTyped DEF CrashBetweenWrites, Phases
<1>2. VNameValid'
  BY <1>1 DEF VNameValid
<1>3. CASE /\ job.phase \in {"connect", "rebuild"} /\ job.todo # {}
           /\ ~SecondNew(job.blk[NextUp(job.todo)]) /\ WriteOperation(job.blk[NextUp(job.todo)])
  <2>1. DOMAIN nameDB' = Name /\ inDB' \subseteq Name /\ \A n \in Name : GoodRecord(nameDB'[n])
    BY <1>3, WriteGood
  <2> QED BY <1>0, <1>1, <1>2, <2>1, Assemble
<1> DEFINE t == job.blk[NextDown(job.todo)]
<1>4. CASE /\ job.todo # {} /\ ~Corrupt(nameDB[t.name]) /\ nameDB[t.name].vtxPos # <<>> /\ inDB' = inDB
           /\ \E g \in Garbage : nameDB' = [nameDB EXCEPT ![t.name] = PopOperation(nameDB[t.name], g)]
  <2>1. t.name \in Name
    BY <1>4, UndoneTx, TxFields
  <2>2. PICK g \in Garbage : nameDB' = [nameDB EXCEPT ![t.name] = PopOperation(nameDB[t.name], g)]
    BY <1>4
  <2>3. DOMAIN nameDB' = Name /\ \A n \in Name : GoodRecord(nameDB'[n])
    BY <1>4, <2>1, <2>2, PopRecords
  <2> QED BY <1>0, <1>1, <1>2, <1>4, <2>3, Assemble
<1> QED BY <1>3, <1>4 DEF CrashBetweenWrites, WriteOperation

\* A restart, with or without a rebuild, preserves the invariant.
LEMMA RestartIInv ==
    ASSUME IInv, NEW keepName \in BOOLEAN, NEW keepAddr \in BOOLEAN, Restart(keepName, keepAddr)
    PROVE  IInv'
<1>0. /\ chain' \in Seq(Seq(Tx)) /\ disk' \in Seq(Seq(Tx)) /\ restarts' \in Nat /\ nameFile' \in BOOLEAN
      /\ DOMAIN nameDB = Name /\ inDB \subseteq Name /\ addrDB \in [Addr -> SUBSET Name]
  BY DEF Restart, IInv, TypeOK
<1>1. job' = NoJob("idle") \/ job' = NoJob("rebuild")
  BY DEF Restart
<1>2. JobOK(job') /\ job'.todo = {}
  BY <1>1, NoJobTyped DEF Phases
<1>3. VNameValid'
  BY <1>2 DEF VNameValid
<1>4. DOMAIN nameDB' = Name /\ \A n \in Name : nameDB'[n] = nameDB[n] \/ nameDB'[n] = EmptyRecord
  BY <1>0 DEF Restart
<1>5. \A n \in Name : GoodRecord(nameDB'[n])
  BY <1>4, EmptyGood DEF IInv, RecordsGood
<1>6. inDB' \subseteq Name
  BY <1>0 DEF Restart
<1>7. addrDB' \in [Addr -> SUBSET Name]
  BY <1>0 DEF Restart, AddressFileOf
<1> QED BY <1>0, <1>2, <1>3, <1>4, <1>5, <1>6, <1>7, Assemble

\* Every step preserves the invariant.
LEMMA StepIInv == ASSUME IInv, [Next]_vars PROVE IInv'
<1>1. CASE UNCHANGED vars
  <2>1. /\ nameDB' = nameDB /\ job' = job /\ UNCHANGED <<chain, disk, inDB, nameFile, addrDB, restarts>>
    BY <1>1 DEF vars
  <2>2. VNameValid'
    BY <2>1 DEF IInv, VNameValid
  <2> QED BY <2>1, <2>2, AssembleUnchanged DEF IInv, TypeOK, JobOK
<1>2. CASE Next
  BY <1>2, BeginConnectIInv, ConnectNameIInv, SimpleStepsIInv, BeginDisconnectIInv, DisconnectNameIInv,
     CrashBetweenWritesIInv, RestartIInv, RebuildNextBlockIInv DEF Next
<1> QED BY <1>1, <1>2

\* The inductive invariant holds in every state of the name index.
THEOREM InvariantHolds == Spec => []IInv
<1>1. Init => IInv
  BY InitIInv
<1>2. IInv /\ [Next]_vars => IInv'
  BY StepIInv
<1> QED BY <1>1, <1>2, PTL DEF Spec

\* Type correctness: in particular DisconnectInputs never leaves a negative
\* nLastActiveChainIndex, and every step of a loop is on a transaction of the
\* block.
THEOREM TypeCorrect == Spec => []TypeOK
<1>1. IInv => TypeOK
  BY DEF IInv
<1> QED BY <1>1, InvariantHolds, PTL

\* For every -nameindexchainsize, every pool of blocks and any number of
\* crashes, nLastActiveChainIndex is the position of the last name_new in
\* vtxPos, or one past the end when no name_new is left.
THEOREM ActiveChainCorrect == Spec => []LastActiveChain
<1>1. IInv => LastActiveChain
  BY DEF IInv, RecordsGood, GoodRecord, LastActiveChain
<1> QED BY <1>1, InvariantHolds, PTL

\* No name_new in the index is one for a name that was still registered at that
\* height, whatever blocks miners make and wherever crashes fall.
THEOREM NeverTakenOver == Spec => []NoTakeover
<1>1. IInv => NoTakeover
  BY DEF IInv, RecordsGood, GoodRecord, NoTakeover
<1> QED BY <1>1, InvariantHolds, PTL

-----------------------------------------------------------------------------
(* Owners and the address index.                                           *)

\* A block holds at most one operation on a name, or several name_new: the
\* blocks of miners whose memory pool is this node's (CheckPendingNames).
PairedOps(b) ==
    \A i, j \in DOMAIN b :
        (i # j /\ b[i].name = b[j].name /\ b[i].op # "none" /\ b[j].op # "none")
        => b[i].op = "new" /\ b[j].op = "new"

OneOpPerBlock == \A b \in Blocks : PairedOps(b)

PairedChain(c) == \A h \in 1..Len(c) : PairedOps(c[h])

\* Every operation but a name_new spends an output of the one before it.
OwnedHistory(v) ==
    /\ \A i \in 1..Len(v) : v[i].op = v[i].txPos.op
    /\ \A i \in 2..Len(v) : ~IsNew(v, i) =>
            /\ v[i-1].op # "delete"
            /\ \E o \in v[i].txPos.vin : o[1] = v[i-1].txPos.hash

Connecting == job.phase \in {"connect", "rebuild"}

\* What CheckInputs has found of an operation of vName is still so when it is
\* written: it spends the last operation on its name, and prev_address is where
\* the name is listed.
VNameOwned ==
    Connecting => \A j \in job.todo :
        /\ job.blk[j].op # "new" => SpendsLast(job.blk[j], nameDB[job.blk[j].name])
        /\ ~SecondNew(job.blk[j]) => job.prev[j] = LastAddr(nameDB[job.blk[j].name])

\* The address index is exact during a rebuild, and before the first crash also
\* between the operations of a block.
Listed == job.phase = "rebuild" \/ (restarts = 0 /\ job.phase # "down")

OwnInv ==
    /\ PairedChain(chain) /\ PairedChain(disk) /\ PairedOps(job.blk)
    /\ \A n \in Name : OwnedHistory(nameDB[n].vtxPos)
    /\ VNameOwned
    /\ Listed => ListingExact

\* A part of a history is as owned as the whole.
LEMMA OwnedPart ==
    ASSUME NEW v \in Seq(CNameIndex), NEW w \in Seq(CNameIndex), NEW d \in Nat,
           Len(w) + d <= Len(v), \A i \in 1..Len(w) : w[i] = v[i + d], OwnedHistory(v)
    PROVE  OwnedHistory(w)
<1>1. ASSUME NEW i \in 1..Len(w) PROVE w[i].op = w[i].txPos.op
  <2>1. i + d \in 1..Len(v) /\ w[i] = v[i + d]
    OBVIOUS
  <2> QED BY <2>1 DEF OwnedHistory
<1>2. ASSUME NEW i \in 2..Len(w), ~IsNew(w, i)
      PROVE  w[i-1].op # "delete" /\ \E o \in w[i].txPos.vin : o[1] = w[i-1].txPos.hash
  <2>1. i + d \in 2..Len(v) /\ w[i] = v[i + d] /\ w[i-1] = v[(i + d) - 1]
    OBVIOUS
  <2> QED BY <1>2, <2>1 DEF OwnedHistory, IsNew
<1> QED BY <1>1, <1>2 DEF OwnedHistory

\* The history w is v without some of its oldest operations, of which the last
\* MaxSize are left, and ends with e.
Pushed(v, w, e) ==
    /\ v \in Seq(CNameIndex) /\ w \in Seq(CNameIndex) /\ w # <<>> /\ w[Len(w)] = e
    /\ \E d \in Nat : /\ Len(w) + d = Len(v) /\ (d # 0 => Len(w) = MaxSize)
                      /\ \A i \in 1..Len(w) : w[i] = v[i + d]

\* PushOperation appends the operation, and may drop the oldest ones.
LEMMA PushedHistory ==
    ASSUME NEW rec, NEW e \in CNameIndex, GoodRecord(rec), MayPush(rec, e)
    PROVE  Pushed(Append(rec.vtxPos, e), PushOperation(rec, e).vtxPos, e)
<1> DEFINE v == Append(rec.vtxPos, e)
           last == IF e.op = "new" THEN Len(v) - 1 ELSE rec.nLastActiveChainIndex
           d == IF Len(v) > MaxSize /\ Len(v) - last + 1 <= MaxSize THEN Len(v) - MaxSize ELSE 0
           w == SubSeq(v, d + 1, Len(v))
<1>0. rec.vtxPos \in Seq(CNameIndex) /\ rec.nLastActiveChainIndex \in Nat
  BY DEF GoodRecord
<1>1. v \in Seq(CNameIndex) /\ Len(v) = Len(rec.vtxPos) + 1 /\ Len(v) \in Nat \ {0} /\ v[Len(v)] = e
  BY <1>0
<1>2. last \in Nat /\ last < Len(v)
  <2>1. CASE e.op = "new"
    BY <1>0, <1>1, <2>1
  <2>2. CASE e.op # "new"
    <3>1. rec.vtxPos # <<>> /\ rec.nLastActiveChainIndex < Len(rec.vtxPos)
      BY <1>0, <2>2 DEF Corrupt, MayPush
    <3> QED BY <1>0, <1>1, <2>2, <3>1
  <2> QED BY <2>1, <2>2
<1> HIDE DEF v, last
<1>3. d \in Nat /\ d <= last /\ (d # 0 => Len(v) - d = MaxSize)
  BY <1>1, <1>2, BoundAssumption
<1> HIDE DEF d
<1>4. /\ w \in Seq(CNameIndex) /\ Len(w) = Len(v) - d
      /\ \A i \in 1..(Len(v) - d) : w[i] = v[d + i]
  <2>1. \A i \in (d + 1)..Len(v) : v[i] \in CNameIndex
    BY <1>1, <1>3, ElementOfSeq
  <2> QED BY <1>1, <1>2, <1>3, <2>1, SubSeqProperties
<1> HIDE DEF w
<1>5. Len(w) \in Nat /\ Len(w) = Len(v) - d
  BY <1>4
<1>6. /\ Len(w) + d = Len(v) /\ (d # 0 => Len(w) = MaxSize)
      /\ \A i \in 1..Len(w) : w[i] = v[i + d]
  <2>1. Len(w) + d = Len(v) /\ (d # 0 => Len(w) = MaxSize)
    BY <1>1, <1>3, <1>5
  <2>2. ASSUME NEW i \in 1..Len(w) PROVE w[i] = v[i + d]
    <3>1. i \in 1..(Len(v) - d) /\ i + d = d + i
      BY <1>3, <1>5
    <3> QED BY <1>4, <3>1
  <2> QED BY <2>1, <2>2
<1>7. w # <<>> /\ w[Len(w)] = e
  <2>1. Len(w) \in 1..Len(w) /\ Len(w) + d = Len(v) /\ Len(w) > 0
    BY <1>1, <1>2, <1>3, <1>5
  <2>2. w[Len(w)] = v[Len(w) + d]
    BY <1>6, <2>1
  <2> QED BY <1>1, <2>1, <2>2
<1>8. PushOperation(rec, e).vtxPos = w
  BY DEF PushOperation, CalculateExpiresAt, v, last, d, w
<1>9. \E k \in Nat : /\ Len(w) + k = Len(v) /\ (k # 0 => Len(w) = MaxSize)
                     /\ \A i \in 1..Len(w) : w[i] = v[i + k]
  BY <1>3, <1>6
<1> QED BY <1>1, <1>4, <1>7, <1>8, <1>9 DEF v, Pushed

\* Writing an operation that spends the last one keeps a history owned.
LEMMA PushOwned ==
    ASSUME NEW rec, NEW e \in CNameIndex, GoodRecord(rec), MayPush(rec, e),
           OwnedHistory(rec.vtxPos), e.op = e.txPos.op, e.op # "new" => SpendsLast(e.txPos, rec)
    PROVE  OwnedHistory(PushOperation(rec, e).vtxPos)
<1> DEFINE u == rec.vtxPos
           v == Append(u, e)
           w == PushOperation(rec, e).vtxPos
<1>0. u \in Seq(CNameIndex)
  BY DEF GoodRecord
<1>1. /\ v \in Seq(CNameIndex) /\ w \in Seq(CNameIndex)
      /\ \E d \in Nat : Len(w) + d <= Len(v) /\ \A i \in 1..Len(w) : w[i] = v[i + d]
  <2>1. Pushed(v, w, e)
    BY PushedHistory
  <2> HIDE DEF v, w
  <2>2. PICK d \in Nat : Len(w) + d = Len(v) /\ \A i \in 1..Len(w) : w[i] = v[i + d]
    BY <2>1 DEF Pushed
  <2>3. v \in Seq(CNameIndex) /\ w \in Seq(CNameIndex)
    BY <2>1 DEF Pushed
  <2>4. Len(w) + d <= Len(v)
    BY <2>2, <2>3
  <2> QED BY <2>2, <2>3, <2>4
<1>2. /\ Len(v) = Len(u) + 1 /\ v[Len(u) + 1] = e /\ Len(u) \in Nat
      /\ \A i \in 1..Len(u) : v[i] = u[i]
  BY <1>0
<1>3. e.op # "new" => u # <<>> /\ u[Len(u)].op # "delete" /\ \E o \in e.txPos.vin : o[1] = u[Len(u)].txPos.hash
  BY DEF SpendsLast, Deleted
<1>4. OwnedHistory(u)
  OBVIOUS
<1> HIDE DEF u, v, w
<1>5. OwnedHistory(v)
  <2>1. ASSUME NEW i \in 1..Len(v) PROVE v[i].op = v[i].txPos.op
    BY <1>2, <1>4 DEF OwnedHistory
  <2>2. ASSUME NEW i \in 2..Len(v), ~IsNew(v, i)
        PROVE  v[i-1].op # "delete" /\ \E o \in v[i].txPos.vin : o[1] = v[i-1].txPos.hash
    <3>1. CASE i <= Len(u)
      <4>1. i \in 2..Len(u) /\ v[i] = u[i] /\ v[i-1] = u[i-1]
        BY <1>2, <3>1
      <4> QED BY <1>4, <2>2, <4>1 DEF OwnedHistory, IsNew
    <3>2. CASE i = Len(u) + 1
      <4>1. v[i] = e /\ v[i-1] = u[Len(u)]
        BY <1>2, <3>2
      <4> QED BY <1>3, <2>2, <4>1 DEF IsNew
    <3> QED BY <1>2, <3>1, <3>2
  <2> QED BY <2>1, <2>2 DEF OwnedHistory
<1>6. OwnedHistory(w)
  BY <1>1, <1>5, OwnedPart
<1> QED BY <1>6 DEF w

\* So does undoing the last operation.
LEMMA PopOwned ==
    ASSUME NEW rec, rec.vtxPos \in Seq(CNameIndex), rec.vtxPos # <<>>, OwnedHistory(rec.vtxPos), NEW g
    PROVE  OwnedHistory(PopOperation(rec, g).vtxPos)
<1> DEFINE u == rec.vtxPos
           w == SubSeq(u, 1, Len(u) - 1)
<1>1. PopOperation(rec, g).vtxPos = w
  BY DEF PopOperation, CalculateExpiresAt
<1>2. Len(u) \in Nat \ {0}
  OBVIOUS
<1>2a. u \in Seq(CNameIndex) /\ w = SubSeq(u, 1, Len(u) - 1) /\ OwnedHistory(u)
  OBVIOUS
<1> HIDE DEF u, w
<1>3. w \in Seq(CNameIndex) /\ Len(w) = Len(u) - 1 /\ \A i \in 1..Len(w) : w[i] = u[i]
  BY <1>2, <1>2a, WithoutLast, Zenon
<1>4. Len(w) + 0 <= Len(u) /\ \A i \in 1..Len(w) : w[i] = u[i + 0]
  BY <1>2, <1>3
<1> QED BY <1>1, <1>2a, <1>3, <1>4, OwnedPart

\* Where a name is listed, by its record.
LEMMA ListedAt ==
    ASSUME NEW rec, rec.vtxPos \in Seq(CNameIndex), NEW a \in Addr
    PROVE  ListedAddress(rec.vtxPos, a) <=> LastAddr(rec) = a
BY TxAssumption DEF ListedAddress, LastAddr, Deleted

\* MoveName of a name from where it is listed.
LEMMA MoveExact ==
    ASSUME NEW f, NEW db, db = [a \in Addr |-> {m \in Name : f[m] = a}],
           NEW n \in Name, f[n] \in Addr \cup {NoAddr}, NEW new \in Addr \cup {NoAddr}
    PROVE  /\ MoveNameOK(db, f[n], new, n)
           /\ MoveName(db, f[n], new, n) =
                [a \in Addr |-> {m \in Name : (IF m = n THEN new ELSE f[m]) = a}]
<1>0. NoAddr \notin Addr /\ db \in [Addr -> SUBSET Name]
  BY TxAssumption
<1>1. ~EraseFails(db, f[n], n)
  BY DEF EraseFails
<1>2. CASE f[n] = new
  BY <1>2 DEF MoveNameOK, MoveName
<1>3. CASE f[n] # new
  <2> DEFINE erased == IF f[n] = NoAddr THEN db ELSE EraseSingleName(db, f[n], n)
  <2>1. erased = [a \in Addr |-> {m \in Name : m # n /\ f[m] = a}]
    BY <1>0 DEF EraseSingleName
  <2>2. MoveName(db, f[n], new, n) = IF new = NoAddr THEN erased ELSE WriteSingleName(erased, new, n)
    BY <1>1, <1>3 DEF MoveName
  <2> HIDE DEF erased
  <2>3. MoveName(db, f[n], new, n) =
            [a \in Addr |-> {m \in Name : (IF m = n THEN new ELSE f[m]) = a}]
    <3> DEFINE listed == [a \in Addr |-> {m \in Name : (IF m = n THEN new ELSE f[m]) = a}]
    <3>1. CASE new = NoAddr
      <4>1. \A a \in Addr : listed[a] = erased[a]
        BY <1>0, <2>1, <3>1
      <4> QED BY <2>1, <2>2, <3>1, <4>1
    <3>2. CASE new # NoAddr
      <4>1. WriteSingleName(erased, new, n) =
                [a \in Addr |-> IF a = new THEN erased[a] \cup {n} ELSE erased[a]]
        BY <2>1, <3>2 DEF WriteSingleName
      <4>2. \A a \in Addr : listed[a] = WriteSingleName(erased, new, n)[a]
        BY <1>0, <2>1, <3>2, <4>1
      <4> QED BY <2>2, <3>2, <4>1, <4>2
    <3> QED BY <3>1, <3>2
  <2>4. new # NoAddr => n \notin db[new]
    BY <1>3
  <2> QED BY <1>1, <2>3, <2>4 DEF MoveNameOK
<1> QED BY <1>2, <1>3

\* Steps that leave both databases alone.
LEMMA OwnUnchanged ==
    ASSUME OwnInv, UNCHANGED <<nameDB, addrDB>>, PairedChain(chain'), PairedChain(disk'),
           PairedOps(job'.blk), VNameOwned', Listed' => Listed
    PROVE  OwnInv'
<1>1. ListingExact => ListingExact'
  BY DEF ListingExact
<1> QED BY <1>1 DEF OwnInv

\* Steps after which nothing is left to do for a block.
LEMMA OwnNoJob ==
    ASSUME OwnInv, NEW p \in Phases, job' = NoJob(p), UNCHANGED <<nameDB, addrDB>>,
           PairedChain(chain'), PairedChain(disk'), Listed' => Listed
    PROVE  OwnInv'
<1>1. job'.todo = {} /\ job'.blk = <<>>
  BY DEF NoJob, Job
<1>2. VNameOwned' /\ PairedOps(job'.blk)
  BY <1>1 DEF VNameOwned, PairedOps
<1> QED BY <1>2, OwnUnchanged

\* ConnectBlock and createNameIndexes begin a block.
LEMMA CollectOwned ==
    ASSUME IInv, OwnInv, NEW p \in {"connect", "rebuild"}, NEW blk \in Seq(Tx), NEW h,
           CollectNames(p, blk, h), UNCHANGED <<chain, disk, nameDB, addrDB, restarts>>,
           PairedOps(blk), Listed' => Listed
    PROVE  OwnInv'
<1>1. CASE job' = NoJob("assert")
  BY <1>1, OwnNoJob DEF OwnInv, Phases
<1> DEFINE todo == {i \in Candidates(p, blk) : CheckInputs(blk[i], nameDB[blk[i].name], h)}
           prev == [i \in DOMAIN blk |-> LastAddr(nameDB[blk[i].name])]
<1>2. CASE job' = Job(p, blk, h, todo, prev)
  <2>1. /\ job'.todo = todo /\ job'.blk = blk /\ job'.prev = prev
    BY <1>2 DEF Job
  <2>2. \A j \in todo : /\ j \in DOMAIN blk
                        /\ blk[j].op # "new" => SpendsLast(blk[j], nameDB[blk[j].name])
                        /\ prev[j] = LastAddr(nameDB[blk[j].name])
    BY DEF Candidates, CheckInputs
  <2> HIDE DEF todo, prev
  <2>3. VNameOwned'
    BY <2>1, <2>2 DEF VNameOwned
  <2> QED BY <2>1, <2>3, OwnUnchanged DEF OwnInv
<1> QED BY <1>1, <1>2 DEF CollectNames

\* An operation on a name and the move of the name to its new address.
LEMMA MoveListing ==
    ASSUME IInv, IInv', ListingExact, NEW n \in Name, \A m \in Name : m # n => nameDB'[m] = nameDB[m],
           NEW new \in Addr \cup {NoAddr}, LastAddr(nameDB'[n]) = new,
           addrDB' = MoveName(addrDB, LastAddr(nameDB[n]), new, n)
    PROVE  ListingExact'
<1> DEFINE f == [m \in Name |-> LastAddr(nameDB[m])]
<1>1. \A m \in Name : nameDB[m].vtxPos \in Seq(CNameIndex) /\ nameDB'[m].vtxPos \in Seq(CNameIndex)
  BY DEF IInv, TypeOK
<1>2. \A m \in Name, a \in Addr :
        /\ ListedAddress(nameDB[m].vtxPos, a) <=> f[m] = a
        /\ ListedAddress(nameDB'[m].vtxPos, a) <=> (IF m = n THEN new ELSE f[m]) = a
  BY <1>1, ListedAt
<1>3. f[n] = LastAddr(nameDB[n]) /\ f[n] \in Addr \cup {NoAddr}
  BY <1>1, AddrOf
<1> HIDE DEF f
<1>4. addrDB = [a \in Addr |-> {m \in Name : f[m] = a}]
  <2>1. \A a \in Addr : {m \in Name : ListedAddress(nameDB[m].vtxPos, a)} = {m \in Name : f[m] = a}
    BY <1>2
  <2> QED BY <2>1 DEF ListingExact
<1>5. addrDB' = [a \in Addr |-> {m \in Name : (IF m = n THEN new ELSE f[m]) = a}]
  BY <1>3, <1>4, MoveExact
<1>6. \A a \in Addr : {m \in Name : ListedAddress(nameDB'[m].vtxPos, a)}
                        = {m \in Name : (IF m = n THEN new ELSE f[m]) = a}
  BY <1>2
<1> QED BY <1>5, <1>6 DEF ListingExact

\* Writing an operation of vName.
LEMMA WriteOwned ==
    ASSUME IInv, OwnInv, Connecting, job.todo # {},
           NEW j, j = NextUp(job.todo), NEW t, t = job.blk[j], ~SecondNew(t), WriteOperation(t)
    PROVE  /\ \A n \in Name : OwnedHistory(nameDB'[n].vtxPos)
           /\ LastAddr(nameDB'[t.name]) = NewAddr(t)
           /\ job.prev[j] = LastAddr(nameDB[t.name])
<1>1. /\ j \in job.todo /\ t \in Tx /\ \A n \in Name : n # t.name => nameDB'[n] = nameDB[n]
  BY WriteGood DEF Connecting
<1>2. t.name \in Name /\ t.op \in Ops /\ job.nHeight \in Nat /\ DOMAIN nameDB = Name
  BY <1>1, TxFields DEF IInv, TypeOK, JobType
<1> DEFINE e == [txPos |-> t, nHeight |-> job.nHeight, op |-> t.op]
           rec == nameDB[t.name]
<1>3. e \in CNameIndex /\ e.op = t.op /\ e.nHeight = job.nHeight /\ e.txPos = t
  BY <1>1, <1>2 DEF CNameIndex
<1>4. GoodRecord(rec) /\ OwnedHistory(rec.vtxPos)
  BY <1>2 DEF IInv, RecordsGood, OwnInv
<1>5. /\ ~Corrupt(rec) /\ (t.op # "new" => rec.vtxPos # <<>>)
      /\ (t.op = "new" /\ t.name \notin job.sNameNew) => ~NameActive(rec, job.nHeight)
  BY <1>1 DEF IInv, VNameValid, Connecting
<1>6. /\ t.op # "new" => SpendsLast(t, rec)
      /\ job.prev[j] = LastAddr(rec)
  BY <1>1 DEF OwnInv, VNameOwned
<1>7. nameDB'[t.name] = PushOperation(rec, e)
  BY <1>2 DEF WriteOperation
<1> HIDE DEF e, rec
<1>8. MayPush(rec, e)
  BY <1>3, <1>5 DEF MayPush, SecondNew
<1>9. OwnedHistory(nameDB'[t.name].vtxPos)
  BY <1>3, <1>4, <1>6, <1>7, <1>8, PushOwned
<1>10. LastAddr(nameDB'[t.name]) = NewAddr(t)
  <2>1. Pushed(Append(rec.vtxPos, e), nameDB'[t.name].vtxPos, e)
    BY <1>3, <1>4, <1>7, <1>8, PushedHistory
  <2>2. nameDB'[t.name].vtxPos # <<>> /\ nameDB'[t.name].vtxPos[Len(nameDB'[t.name].vtxPos)] = e
    BY <2>1 DEF Pushed
  <2> QED BY <1>3, <2>2 DEF LastAddr, Deleted, NewAddr
<1>11. \A n \in Name : OwnedHistory(nameDB'[n].vtxPos)
  BY <1>1, <1>9 DEF OwnInv
<1> QED BY <1>6, <1>10, <1>11 DEF rec

\* One round of the hook's loop.
LEMMA ConnectNameOwned == ASSUME IInv, IInv', OwnInv, ConnectName PROVE OwnInv'
<1> DEFINE j == NextUp(job.todo)
           t == job.blk[j]
           old == job.prev[j]
<1>0. /\ Connecting /\ job.todo # {} /\ UNCHANGED <<chain, disk, restarts>>
      /\ JobOK(job) /\ job \in JobType /\ PairedOps(job.blk)
  BY DEF ConnectName, Connecting, IInv, TypeOK, JobOK, OwnInv
<1>1. CASE SecondNew(t) /\ job' = [job EXCEPT !.todo = @ \ {j}] /\ UNCHANGED dbVars
  <2>1. /\ job'.todo \subseteq job.todo /\ job'.blk = job.blk /\ job'.prev = job.prev
        /\ job'.sNameNew = job.sNameNew /\ job'.phase = job.phase
    BY <1>0, <1>1 DEF JobType
  <2>2. UNCHANGED <<nameDB, addrDB>>
    BY <1>1 DEF dbVars
  <2>3. VNameOwned'
    BY <1>0, <2>1, <2>2 DEF OwnInv, VNameOwned, Connecting, SecondNew
  <2>4. Listed' => Listed
    BY <1>0, <2>1 DEF Listed
  <2> QED BY <1>0, <2>1, <2>2, <2>3, <2>4, OwnUnchanged DEF OwnInv
<1>2. CASE /\ ~SecondNew(t) /\ WriteOperation(t)
           /\ addrDB' = MoveName(addrDB, old, NewAddr(t), t.name)
           /\ job' = [job EXCEPT
                        !.todo = IF MoveNameOK(addrDB, old, NewAddr(t), t.name) THEN @ \ {j} ELSE {},
                        !.sNameNew = IF t.op = "new" THEN @ \cup {t.name} ELSE @]
  <2>1. /\ j \in job.todo /\ j \in DOMAIN job.blk /\ t \in Tx
        /\ \A n \in Name : n # t.name => nameDB'[n] = nameDB[n]
    BY <1>0, <1>2, WriteGood DEF Connecting
  <2>2. /\ \A n \in Name : OwnedHistory(nameDB'[n].vtxPos)
        /\ LastAddr(nameDB'[t.name]) = NewAddr(t)
        /\ old = LastAddr(nameDB[t.name])
    BY <1>0, <1>2, WriteOwned
  <2>3. /\ job'.todo \subseteq job.todo \ {j} /\ job'.blk = job.blk
        /\ job'.prev = job.prev /\ job'.phase = job.phase
        /\ job'.sNameNew = IF t.op = "new" THEN job.sNameNew \cup {t.name} ELSE job.sNameNew
    BY <1>0, <1>2 DEF JobType
  <2>4. t.name \in Name /\ NewAddr(t) \in Addr \cup {NoAddr} /\ t.op # "none"
    BY <1>0, <2>1, TxFields, AddrOf DEF IInv, VNameValid, Connecting
  <2> HIDE DEF t, j, old
  <2>5. Listed' => ListingExact'
    <3>1. Listed' => ListingExact
      BY <1>0, <2>3 DEF Listed, OwnInv
    <3> QED BY <1>2, <2>1, <2>2, <2>4, <3>1, MoveListing
  <2>6. VNameOwned'
    <3> SUFFICES ASSUME NEW i \in job'.todo
                 PROVE  /\ job.blk[i].op # "new" => SpendsLast(job.blk[i], nameDB'[job.blk[i].name])
                        /\ ~SecondNew(job.blk[i])' => job.prev[i] = LastAddr(nameDB'[job.blk[i].name])
      BY <2>3 DEF VNameOwned, SecondNew
    <3> DEFINE u == job.blk[i]
    <3>1. i \in job.todo /\ i # j /\ i \in DOMAIN job.blk /\ job.blk \in Seq(Tx)
      BY <1>0, <2>3 DEF JobOK, JobType
    <3>2. u.name \in Name /\ u.op # "none"
      BY <1>0, <3>1, TxFields DEF IInv, VNameValid, Connecting
    <3>3. /\ u.op # "new" => SpendsLast(u, nameDB[u.name])
          /\ ~SecondNew(u) => job.prev[i] = LastAddr(nameDB[u.name])
      BY <1>0, <3>1 DEF OwnInv, VNameOwned
    <3>4. u.name = t.name => u.op = "new" /\ t.op = "new"
      BY <1>0, <2>1, <2>4, <3>1, <3>2 DEF PairedOps, t
    <3> HIDE DEF u
    <3>5. CASE u.name = t.name
      BY <2>3, <3>4, <3>5 DEF SecondNew, u
    <3>6. CASE u.name # t.name
      BY <2>1, <2>3, <3>2, <3>3, <3>6 DEF SecondNew, u
    <3> QED BY <3>5, <3>6
  <2> QED BY <1>0, <2>2, <2>3, <2>5, <2>6 DEF OwnInv
<1> QED BY <1>1, <1>2 DEF ConnectName, WriteOperation

\* Undoing an operation.
LEMMA PopsOwned ==
    ASSUME IInv, OwnInv, NEW n \in Name, nameDB[n].vtxPos # <<>>, NEW g,
           nameDB' = [nameDB EXCEPT ![n] = PopOperation(nameDB[n], g)]
    PROVE  \A m \in Name : OwnedHistory(nameDB'[m].vtxPos)
<1>1. /\ DOMAIN nameDB = Name /\ nameDB[n].vtxPos \in Seq(CNameIndex)
      /\ \A m \in Name : OwnedHistory(nameDB[m].vtxPos)
  BY DEF IInv, TypeOK, OwnInv
<1>2. OwnedHistory(PopOperation(nameDB[n], g).vtxPos)
  BY <1>1, PopOwned
<1> QED BY <1>1, <1>2

\* DisconnectInputs of one operation: the name goes back to the address of the
\* operation before it.
LEMMA DisconnectNameOwned == ASSUME IInv, IInv', OwnInv, DisconnectName PROVE OwnInv'
<1> DEFINE j == NextDown(job.todo)
           t == job.blk[j]
           rec == nameDB[t.name]
           v == rec.vtxPos
           next == [job EXCEPT !.todo = @ \ {j}]
<1>0. /\ job.phase = "disconnect" /\ UNCHANGED <<chain, disk, restarts>> /\ DOMAIN nameDB = Name
      /\ job \in JobType /\ t \in Tx /\ t.name \in Name
  BY UndoneTx, TxFields DEF DisconnectName, IInv, TypeOK
<1>1. /\ job' = next \/ job' = NoJob("assert")
      /\ next.phase = "disconnect" /\ next.blk = job.blk
  BY <1>0 DEF DisconnectName, JobType
<1> HIDE DEF next
<1>2. job'.phase \in {"disconnect", "assert"} /\ PairedOps(job'.blk)
  BY <1>1 DEF NoJob, Job, PairedOps, OwnInv
<1>3. VNameOwned' /\ (Listed' => Listed)
  BY <1>0, <1>2 DEF VNameOwned, Connecting, Listed
<1>4. PairedChain(chain') /\ PairedChain(disk')
  BY <1>0 DEF OwnInv
<1>5. CASE UNCHANGED <<nameDB, addrDB>>
  BY <1>2, <1>3, <1>4, <1>5, OwnUnchanged
<1>6. CASE /\ v = <<>> /\ nameDB' = [nameDB EXCEPT ![t.name] = EmptyRecord] /\ addrDB' = addrDB
  <2>1. \A n \in Name : nameDB'[n].vtxPos = nameDB[n].vtxPos
    BY <1>0, <1>6 DEF EmptyRecord
  <2>2. ListingExact => ListingExact'
    BY <1>6, <2>1 DEF ListingExact
  <2> QED BY <1>2, <1>3, <1>4, <2>1, <2>2 DEF OwnInv
<1>7. ASSUME t.op # "none", v # <<>>, v[Len(v)].txPos = t, NEW g,
             nameDB' = [nameDB EXCEPT ![t.name] = PopOperation(rec, g)],
             addrDB' = MoveName(addrDB, NewAddr(t), LastAddr(PopOperation(rec, g)), t.name)
      PROVE  OwnInv'
  <2>1. \A m \in Name : OwnedHistory(nameDB'[m].vtxPos)
    BY <1>0, <1>7, PopsOwned
  <2>2. LastAddr(rec) = NewAddr(t)
    <3>1. OwnedHistory(v) /\ v \in Seq(CNameIndex)
      BY <1>0 DEF OwnInv, IInv, TypeOK
    <3>2. Len(v) \in 1..Len(v)
      <4> HIDE DEF v
      <4> QED BY <1>7, <3>1, LastIsIndex, Zenon
    <3>3. v[Len(v)].op = t.op
      BY <1>7, <3>1, <3>2 DEF OwnedHistory
    <3> QED BY <1>7, <3>3 DEF LastAddr, Deleted, NewAddr
  <2>3. /\ nameDB'[t.name] = PopOperation(rec, g)
        /\ \A m \in Name : m # t.name => nameDB'[m] = nameDB[m]
    BY <1>0, <1>7
  <2>4. LastAddr(nameDB'[t.name]) \in Addr \cup {NoAddr}
    <3>1. nameDB'[t.name].vtxPos \in Seq(CNameIndex)
      BY <1>0 DEF IInv, TypeOK
    <3> QED BY <3>1, AddrOf
  <2>5. ListingExact => ListingExact'
    BY <1>0, <1>7, <2>2, <2>3, <2>4, MoveListing
  <2> QED BY <1>2, <1>3, <1>4, <2>1, <2>5 DEF OwnInv
<1>8. \/ UNCHANGED <<nameDB, addrDB>>
      \/ v = <<>> /\ nameDB' = [nameDB EXCEPT ![t.name] = EmptyRecord] /\ addrDB' = addrDB
      \/ /\ t.op # "none" /\ v # <<>> /\ v[Len(v)].txPos = t
         /\ \E g \in Garbage :
              /\ nameDB' = [nameDB EXCEPT ![t.name] = PopOperation(rec, g)]
              /\ addrDB' = MoveName(addrDB, NewAddr(t), LastAddr(PopOperation(rec, g)), t.name)
  BY DEF DisconnectName, dbVars
<1> QED BY <1>5, <1>6, <1>7, <1>8

\* A crash between the writes of the two databases: the histories are owned, the
\* address index may not fit any more.
LEMMA CrashBetweenWritesOwned == ASSUME IInv, OwnInv, CrashBetweenWrites PROVE OwnInv'
<1>0. job' = NoJob("down") /\ UNCHANGED <<chain, disk>>
  BY DEF CrashBetweenWrites
<1>1. job'.phase = "down" /\ job'.blk = <<>>
  BY <1>0 DEF NoJob, Job
<1>2. VNameOwned' /\ ~Listed' /\ PairedOps(job'.blk) /\ PairedChain(chain') /\ PairedChain(disk')
  BY <1>0, <1>1 DEF VNameOwned, Connecting, Listed, PairedOps, OwnInv
<1>3. CASE /\ job.phase \in {"connect", "rebuild"} /\ job.todo # {}
           /\ ~SecondNew(job.blk[NextUp(job.todo)]) /\ WriteOperation(job.blk[NextUp(job.todo)])
  BY <1>2, <1>3, WriteOwned DEF OwnInv, Connecting
<1> DEFINE t == job.blk[NextDown(job.todo)]
<1>4. CASE /\ job.todo # {} /\ nameDB[t.name].vtxPos # <<>>
           /\ \E g \in Garbage : nameDB' = [nameDB EXCEPT ![t.name] = PopOperation(nameDB[t.name], g)]
  <2>1. t.name \in Name
    BY <1>4, UndoneTx, TxFields
  <2>2. \A m \in Name : OwnedHistory(nameDB'[m].vtxPos)
    BY <1>4, <2>1, PopsOwned
  <2> QED BY <1>2, <2>2 DEF OwnInv
<1> QED BY <1>3, <1>4 DEF CrashBetweenWrites, WriteOperation

\* A restart: a rebuild begins with two empty files.
LEMMA RestartOwned ==
    ASSUME IInv, IInv', OwnInv, NEW keepName \in BOOLEAN, NEW keepAddr \in BOOLEAN,
           Restart(keepName, keepAddr)
    PROVE  OwnInv'
<1>0. chain' = disk /\ disk' = disk /\ restarts' # 0
  BY DEF Restart, IInv, TypeOK
<1>1. PairedChain(chain') /\ PairedChain(disk')
  BY <1>0 DEF OwnInv
<1>2. CASE job' = NoJob("idle") /\ nameDB' = nameDB
  <2>1. job'.phase = "idle" /\ job'.blk = <<>>
    BY <1>2 DEF NoJob, Job
  <2>2. VNameOwned' /\ ~Listed' /\ PairedOps(job'.blk)
    BY <1>0, <2>1 DEF VNameOwned, Connecting, Listed, PairedOps
  <2> QED BY <1>1, <1>2, <2>2 DEF OwnInv
<1>3. CASE /\ job' = NoJob("rebuild") /\ nameDB' = [n \in Name |-> EmptyRecord]
           /\ addrDB' = [a \in Addr |-> {}]
  <2>1. job'.todo = {} /\ job'.blk = <<>>
    BY <1>3 DEF NoJob, Job
  <2>2. VNameOwned' /\ PairedOps(job'.blk)
    BY <2>1 DEF VNameOwned, PairedOps
  <2>3. \A n \in Name : nameDB'[n].vtxPos = <<>>
    BY <1>3 DEF EmptyRecord
  <2>4. OwnedHistory(<<>>)
    BY DEF OwnedHistory
  <2>5. ListingExact'
    <3>1. \A a \in Addr : {n \in Name : ListedAddress(nameDB'[n].vtxPos, a)} = {}
      BY <2>3 DEF ListedAddress
    <3> QED BY <1>3, <3>1 DEF ListingExact
  <2> QED BY <1>1, <2>2, <2>3, <2>4, <2>5 DEF OwnInv
<1> QED BY <1>2, <1>3 DEF Restart

\* The blocks that stay when the tip is disconnected.
LEMMA ChainWithoutTip ==
    ASSUME NEW S, NEW c \in Seq(S), c # <<>>, NEW w, w = SubSeq(c, 1, Len(c) - 1)
    PROVE  /\ Len(c) \in Nat \ {0} /\ Len(w) = Len(c) - 1
           /\ \A i \in 1..(Len(c) - 1) : w[i] = c[i]
<1>1. Len(c) \in Nat \ {0}
  OBVIOUS
<1>2. w \in Seq(S) /\ Len(w) = Len(c) - 1 /\ \A i \in 1..Len(w) : w[i] = c[i]
  BY <1>1, WithoutLast, Zenon
<1> QED BY <1>1, <1>2

\* A chain without its tip still has at most one operation per name and block.
LEMMA DroppedPaired ==
    ASSUME NEW S, NEW c \in Seq(S), c # <<>>, PairedChain(c)
    PROVE  PairedChain(SubSeq(c, 1, Len(c) - 1))
<1> DEFINE w == SubSeq(c, 1, Len(c) - 1)
<1>1. c \in Seq(S) /\ w = SubSeq(c, 1, Len(c) - 1)
  OBVIOUS
<1> HIDE DEF w
<1>2. Len(c) \in Nat \ {0}
  BY <1>1
<1>3. w \in Seq(S) /\ Len(w) = Len(c) - 1 /\ \A i \in 1..Len(w) : w[i] = c[i]
  BY <1>1, <1>2, WithoutLast, Zenon
<1>4. PairedChain(w)
  BY <1>2, <1>3 DEF PairedChain
<1> QED BY <1>1, <1>4

\* The other steps do not write to the databases.
LEMMA QuietStepsOwned ==
    ASSUME IInv, OwnInv, EndConnect \/ EndDisconnect \/ FlushStateToDisk \/ Crash \/ BeginDisconnect
    PROVE  OwnInv'
<1>0. /\ chain \in Seq(Seq(Tx)) /\ UNCHANGED <<nameDB, addrDB, restarts>>
      /\ PairedChain(chain) /\ PairedChain(disk) /\ PairedOps(job.blk)
  BY DEF IInv, TypeOK, OwnInv, EndConnect, EndDisconnect, FlushStateToDisk, Crash, BeginDisconnect, dbVars
<1>1. CASE EndConnect
  <2>1. /\ job.phase = "connect" /\ chain' = Append(chain, job.blk) /\ job' = NoJob("idle") /\ disk' = disk
    BY <1>1 DEF EndConnect
  <2>2. PairedChain(chain')
    BY <1>0, <2>1 DEF PairedChain
  <2>3. Listed' => Listed
    BY <1>0, <2>1 DEF Listed, NoJob, Job
  <2> QED BY <1>0, <2>1, <2>2, <2>3, OwnNoJob DEF Phases
<1>2. CASE EndDisconnect
  <2>1. /\ job.phase = "disconnect" /\ chain' = SubSeq(chain, 1, Len(chain) - 1)
        /\ job' = NoJob("idle") /\ disk' = disk
    BY <1>2 DEF EndDisconnect
  <2>2. PairedChain(chain')
    <3>1. CASE chain = <<>>
      <4>1. chain' = <<>>
        BY <2>1, <3>1
      <4> QED BY <4>1 DEF PairedChain
    <3>2. CASE chain # <<>>
      <4> QED BY <1>0, <2>1, <3>2, DroppedPaired, Zenon
    <3> QED BY <3>1, <3>2
  <2>3. Listed' => Listed
    BY <1>0, <2>1 DEF Listed, NoJob, Job
  <2> QED BY <1>0, <2>1, <2>2, <2>3, OwnNoJob DEF Phases
<1>3. CASE FlushStateToDisk
  <2>1. job' = job /\ chain' = chain /\ disk' = chain
    BY <1>3 DEF FlushStateToDisk
  <2>2. VNameOwned' /\ (Listed' => Listed)
    BY <1>0, <2>1 DEF OwnInv, VNameOwned, Connecting, SecondNew, Listed
  <2> QED BY <1>0, <2>1, <2>2, OwnUnchanged
<1>4. CASE Crash
  <2>1. job' = NoJob("down") /\ UNCHANGED <<chain, disk>>
    BY <1>4 DEF Crash
  <2>2. ~Listed'
    BY <2>1 DEF Listed, NoJob, Job
  <2> QED BY <1>0, <2>1, <2>2, OwnNoJob DEF Phases
<1>5. CASE BeginDisconnect
  <2>1. /\ job.phase = "idle" /\ chain # <<>> /\ UNCHANGED <<chain, disk>>
        /\ job'.phase = "disconnect" /\ job'.blk = chain[Len(chain)]
    BY <1>5 DEF BeginDisconnect, Idle, Job
  <2>2. PairedOps(job'.blk)
    <3>1. Len(chain) \in 1..Len(chain)
      BY <1>0, <2>1
    <3> QED BY <1>0, <2>1, <3>1 DEF PairedChain
  <2>3. VNameOwned' /\ (Listed' => Listed)
    BY <1>0, <2>1 DEF VNameOwned, Connecting, Listed
  <2> QED BY <1>0, <2>1, <2>2, <2>3, OwnUnchanged
<1> QED BY <1>1, <1>2, <1>3, <1>4, <1>5

\* No step disturbs OwnInv.
LEMMA StepOwned == ASSUME OneOpPerBlock, IInv, OwnInv, [Next]_vars PROVE OwnInv'
<1>0. IInv'
  BY StepIInv
<1>1. CASE UNCHANGED vars
  <2>1. UNCHANGED <<nameDB, addrDB, job, chain, disk, restarts>>
    BY <1>1 DEF vars
  <2>2. VNameOwned' /\ (Listed' => Listed)
    BY <2>1 DEF OwnInv, VNameOwned, Connecting, SecondNew, Listed
  <2> QED BY <2>1, <2>2, OwnUnchanged DEF OwnInv
<1>2. ASSUME NEW b \in Blocks, BeginConnect(b) PROVE OwnInv'
  <2>1. /\ job.phase = "idle" /\ CollectNames("connect", b, Len(chain) + 1)
        /\ UNCHANGED <<chain, disk, nameDB, addrDB, restarts>>
    BY <1>2 DEF BeginConnect, Idle
  <2>2. b \in Seq(Tx) /\ PairedOps(b)
    BY TxAssumption DEF OneOpPerBlock
  <2>3. job'.phase # "rebuild"
    BY <2>1 DEF CollectNames, NoJob, Job
  <2>4. Listed' => Listed
    BY <2>1, <2>3 DEF Listed
  <2> QED BY <2>1, <2>2, <2>4, CollectOwned
<1>3. CASE RebuildNextBlock
  <2>1. job.phase = "rebuild" /\ UNCHANGED <<chain, disk, nameDB, addrDB, restarts>>
    BY <1>3 DEF RebuildNextBlock
  <2>2. Listed /\ PairedChain(chain) /\ PairedChain(disk)
    BY <2>1 DEF Listed, OwnInv
  <2>3. CASE job' = NoJob("idle")
    BY <2>1, <2>2, <2>3, OwnNoJob DEF Phases
  <2>4. CASE job.nHeight < Len(chain) /\ CollectNames("rebuild", chain[job.nHeight + 1], job.nHeight + 1)
    <3>1. job.nHeight \in Nat /\ chain \in Seq(Seq(Tx))
      BY DEF IInv, TypeOK, JobType
    <3>2. job.nHeight + 1 \in 1..Len(chain) /\ chain[job.nHeight + 1] \in Seq(Tx)
      BY <2>4, <3>1
    <3> QED BY <2>1, <2>2, <2>4, <3>2, CollectOwned DEF PairedChain
  <2> QED BY <1>3, <2>3, <2>4 DEF RebuildNextBlock
<1> QED BY <1>0, <1>1, <1>2, <1>3, ConnectNameOwned, DisconnectNameOwned, CrashBetweenWritesOwned,
           RestartOwned, QuietStepsOwned DEF Next

\* OwnInv holds in every reachable state.
LEMMA OwnAlways == Spec => [](OneOpPerBlock => OwnInv)
<1>1. Init => OwnInv
  <2> SUFFICES ASSUME Init PROVE OwnInv
    OBVIOUS
  <2>1. job.todo = {} /\ job.blk = <<>> /\ chain = <<>> /\ disk = <<>>
    BY DEF Init, NoJob, Job
  <2>2. \A n \in Name : nameDB[n].vtxPos = <<>>
    BY DEF Init, EmptyRecord
  <2>3. OwnedHistory(<<>>) /\ PairedChain(<<>>) /\ PairedOps(<<>>)
    BY DEF OwnedHistory, PairedChain, PairedOps
  <2>4. ListingExact
    <3>1. \A a \in Addr : {n \in Name : ListedAddress(nameDB[n].vtxPos, a)} = {}
      BY <2>2 DEF ListedAddress
    <3> QED BY <3>1 DEF ListingExact, Init
  <2> QED BY <2>1, <2>2, <2>3, <2>4 DEF OwnInv, VNameOwned
<1>2. IInv /\ (OneOpPerBlock => OwnInv) /\ [Next]_vars => (OneOpPerBlock => OwnInv)'
  BY StepOwned DEF OneOpPerBlock
<1> QED BY <1>1, <1>2, InvariantHolds, PTL DEF Spec

\* Through reorganisations, pruning of histories and any crashes and restarts,
\* every name_update and name_delete in the index spends an output of the
\* operation before it, as long as no block holds two of them for one name.  (A
\* block that does can break it: both are checked against the index before the
\* block, and the second may spend another output of the same operation.)
THEOREM OwnersContinue == Spec => [](OneOpPerBlock => OwnerContinuity)
<1>1. OwnInv => OwnerContinuity
  BY DEF OwnInv, OwnedHistory, OwnerContinuity
<1> QED BY <1>1, OwnAlways, PTL

\* Up to the first crash the address index lists exactly the registered names
\* under their addresses, whatever blocks are connected and disconnected.
THEOREM AddressesExact == Spec => [](OneOpPerBlock /\ restarts = 0 => AddressIndexExact)
<1>1. OwnInv => (restarts = 0 => AddressIndexExact)
  BY DEF OwnInv, Listed, AddressIndexExact, Idle
<1> QED BY <1>1, OwnAlways, PTL

\* The step in which createNameIndexes returns.
LEMMA RebuildEnds ==
    ASSUME IInv, Next, job.phase = "rebuild", job'.phase = "idle"
    PROVE  job.todo = {} /\ ~(job.nHeight < Len(chain)) /\ UNCHANGED <<chain, nameDB, addrDB>>
<1>1. job \in JobType
  BY DEF IInv, TypeOK
<1>2. ~ConnectName
  <2>1. ASSUME NEW todo, NEW names, job' = [job EXCEPT !.todo = todo, !.sNameNew = names]
        PROVE  FALSE
    BY <1>1, <2>1 DEF JobType
  <2>2. ASSUME NEW todo, job' = [job EXCEPT !.todo = todo]
        PROVE  FALSE
    BY <1>1, <2>2 DEF JobType
  <2> QED BY <2>1, <2>2, Zenon DEF ConnectName
<1>3. ~Crash /\ ~CrashBetweenWrites /\ ~(\E keepName, keepAddr \in BOOLEAN : Restart(keepName, keepAddr))
  BY DEF Crash, CrashBetweenWrites, Restart, Running, NoJob, Job
<1>4. /\ ~(\E b \in Blocks : BeginConnect(b)) /\ ~EndConnect /\ ~BeginDisconnect
      /\ ~DisconnectName /\ ~EndDisconnect /\ ~FlushStateToDisk
  BY DEF BeginConnect, EndConnect, BeginDisconnect, DisconnectName, EndDisconnect,
         FlushStateToDisk, Idle
<1>5. RebuildNextBlock
  BY <1>2, <1>3, <1>4 DEF Next
<1>6. ~(job.nHeight < Len(chain))
  BY <1>5 DEF RebuildNextBlock, CollectNames, NoJob, Job
<1> QED BY <1>5, <1>6 DEF RebuildNextBlock

\* createNameIndexes leaves an exact address index, whatever state the two files
\* were in before.
THEOREM RebuildListsAddresses ==
    Spec => [][OneOpPerBlock /\ job.phase = "rebuild" /\ job'.phase = "idle" => ListingExact']_vars
<1>1. IInv /\ (OneOpPerBlock => OwnInv) /\ [Next]_vars
        => [OneOpPerBlock /\ job.phase = "rebuild" /\ job'.phase = "idle" => ListingExact']_vars
  <2> SUFFICES ASSUME IInv, OwnInv, Next, job.phase = "rebuild", job'.phase = "idle"
               PROVE  ListingExact'
    OBVIOUS
  <2>1. UNCHANGED <<nameDB, addrDB>>
    BY RebuildEnds
  <2> QED BY <2>1 DEF OwnInv, Listed, ListingExact
<1> QED BY <1>1, OwnAlways, InvariantHolds, PTL DEF Spec

-----------------------------------------------------------------------------
(* The assertions of ReadName and DisconnectInputs.                        *)

\* Positions in the chain, with the block that is being connected on top.
Top == IF job.phase = "connect" THEN Len(chain) + 1 ELSE Len(chain)

BlockAt == [h \in 1..Top |-> IF h <= Len(chain) THEN chain[h] ELSE job.blk]

\* The positions of the block on top whose operations may be in the index.
Written ==
    IF job.phase = "disconnect" THEN job.todo
    ELSE IF job.phase = "connect" THEN {i \in 1..Len(job.blk) : \A j \in job.todo : i < j}
    ELSE Nat

\* No transaction is in the chain twice.
Distinct(B) ==
    \A h, k \in DOMAIN B : \A i \in 1..Len(B[h]), j \in 1..Len(B[k]) :
        B[h][i] = B[k][j] => h = k /\ i = j

\* e is an operation on name n that is in the chain, and not yet undone.
InChain(B, top, W, n, e) ==
    /\ e.op = e.txPos.op /\ e.op # "none" /\ e.txPos.name = n
    /\ e.nHeight \in DOMAIN B
    /\ \E i \in 1..Len(B[e.nHeight]) : B[e.nHeight][i] = e.txPos /\ (e.nHeight = top => i \in W)

\* e comes before f in the chain.
Before(B, e, f) ==
    \A i \in 1..Len(B[e.nHeight]), j \in 1..Len(B[f.nHeight]) :
        B[e.nHeight][i] = e.txPos /\ B[f.nHeight][j] = f.txPos
        => e.nHeight < f.nHeight \/ (e.nHeight = f.nHeight /\ i < j)

\* A history of operations of the chain, in the order of the chain, that begins
\* with a name_new.
Chronicle(B, top, W, n, v) ==
    /\ \A k \in 1..Len(v) : InChain(B, top, W, n, v[k])
    /\ \A k, l \in 1..Len(v) : k < l => Before(B, v[k], v[l])
    /\ v # <<>> => v[1].op = "new"

\* Every history is a chronicle, also half way through a block.
Placed ==
    /\ Distinct(BlockAt)
    /\ job.phase = "connect" => job.nHeight = Top
    /\ job.phase = "disconnect" => chain # <<>> /\ job.blk = chain[Len(chain)]
    /\ \A n \in Name : /\ Chronicle(BlockAt, Top, Written, n, nameDB[n].vtxPos)
                       /\ n \notin inDB => nameDB[n].vtxPos = <<>>

\* It is so up to the first crash.
PlaceInv ==
    restarts = 0 =>
        /\ job.phase \notin {"assert", "rebuild"}
        /\ job.phase # "down" => Placed

\* No history has reached -nameindexchainsize: nothing was ever pruned.
Short == \A n \in Name : Len(nameDB[n].vtxPos) < MaxSize

\* A history stays a chronicle when its blocks stay where they are, and its
\* operations are not those that are undone.
LEMMA SameChronicle ==
    ASSUME NEW B, NEW top, NEW W, NEW C, NEW new, NEW X, NEW n, NEW v, Chronicle(B, top, W, n, v),
           \A k \in 1..Len(v) : /\ v[k].nHeight \in DOMAIN C
                                /\ C[v[k].nHeight] = B[v[k].nHeight],
           \A k \in 1..Len(v) : \A i \in 1..Len(B[v[k].nHeight]) :
              (/\ B[v[k].nHeight][i] = v[k].txPos
               /\ v[k].nHeight = top => i \in W
               /\ v[k].nHeight = new) => i \in X
    PROVE  Chronicle(C, new, X, n, v)
<1>1. ASSUME NEW k \in 1..Len(v) PROVE InChain(C, new, X, n, v[k])
  <2>1. InChain(B, top, W, n, v[k])
    BY DEF Chronicle
  <2>2. PICK i \in 1..Len(B[v[k].nHeight]) :
            B[v[k].nHeight][i] = v[k].txPos /\ (v[k].nHeight = top => i \in W)
    BY <2>1 DEF InChain
  <2>3. v[k].nHeight = new => i \in X
    BY <2>2
  <2>4. v[k].nHeight \in DOMAIN C /\ C[v[k].nHeight] = B[v[k].nHeight]
    OBVIOUS
  <2> QED BY <2>1, <2>2, <2>3, <2>4 DEF InChain
<1>2. ASSUME NEW k \in 1..Len(v), NEW l \in 1..Len(v), k < l PROVE Before(C, v[k], v[l])
  <2>1. Before(B, v[k], v[l])
    BY <1>2 DEF Chronicle
  <2>2. C[v[k].nHeight] = B[v[k].nHeight] /\ C[v[l].nHeight] = B[v[l].nHeight]
    OBVIOUS
  <2> QED BY <2>1, <2>2 DEF Before
<1> QED BY <1>1, <1>2 DEF Chronicle

\* A block does not hold a transaction twice.
LEMMA OnePlace ==
    ASSUME NEW B, Distinct(B), NEW h \in DOMAIN B, NEW i \in 1..Len(B[h]), NEW j \in 1..Len(B[h]),
           B[h][i] = B[h][j]
    PROVE  i = j
BY Zenon DEF Distinct

\* The next operation of the block on top is appended.
LEMMA PushChronicle ==
    ASSUME NEW B, NEW top \in Nat, NEW W, NEW X, NEW n, NEW v \in Seq(CNameIndex),
           NEW e \in CNameIndex, NEW j \in Nat, NEW w,
           Len(w) = Len(v) + 1, w[Len(v) + 1] = e, \A k \in 1..Len(v) : w[k] = v[k],
           Chronicle(B, top, W, n, v), DOMAIN B = 1..top, top \in DOMAIN B, Distinct(B),
           e.nHeight = top, j \in 1..Len(B[top]), B[top][j] = e.txPos,
           \A i \in W : i < j, W \subseteq X, j \in X,
           e.op = e.txPos.op, e.op # "none", e.txPos.name = n, v = <<>> => e.op = "new"
    PROVE  Chronicle(B, top, X, n, w)
<1>0. Len(v) \in Nat
  OBVIOUS
<1>1. ASSUME NEW k \in 1..Len(w) PROVE InChain(B, top, X, n, w[k])
  <2>1. CASE k <= Len(v)
    <3>1. w[k] = v[k] /\ InChain(B, top, W, n, v[k])
      BY <1>0, <2>1 DEF Chronicle
    <3> QED BY <3>1 DEF InChain
  <2>2. CASE k = Len(v) + 1
    BY <2>2 DEF InChain
  <2> QED BY <1>0, <2>1, <2>2
<1>2. ASSUME NEW k \in 1..Len(w), NEW l \in 1..Len(w), k < l PROVE Before(B, w[k], w[l])
  <2>1. CASE l <= Len(v)
    <3>1. w[k] = v[k] /\ w[l] = v[l] /\ Before(B, v[k], v[l])
      BY <1>0, <1>2, <2>1 DEF Chronicle
    <3> QED BY <3>1
  <2>2. CASE l = Len(v) + 1
    <3>1. w[l] = e /\ w[k] = v[k] /\ InChain(B, top, W, n, v[k]) /\ v[k] \in CNameIndex
      BY <1>0, <1>2, <2>2 DEF Chronicle
    <3>2. PICK i \in 1..Len(B[v[k].nHeight]) :
            B[v[k].nHeight][i] = v[k].txPos /\ (v[k].nHeight = top => i \in W)
      BY <3>1 DEF InChain
    <3> SUFFICES ASSUME NEW a \in 1..Len(B[v[k].nHeight]), NEW b \in 1..Len(B[top]),
                        B[v[k].nHeight][a] = v[k].txPos, B[top][b] = e.txPos
                 PROVE  v[k].nHeight < top \/ (v[k].nHeight = top /\ a < b)
      BY <3>1 DEF Before
    <3>3. v[k].nHeight \in 1..top
      BY <3>1 DEF InChain
    <3>4. a = i /\ b = j
      <4>1. B[v[k].nHeight][a] = B[v[k].nHeight][i] /\ B[top][b] = B[top][j]
        BY <3>2
      <4>2. v[k].nHeight \in DOMAIN B
        BY <3>3
      <4> QED BY <3>2, <4>1, <4>2, OnePlace
    <3>5. v[k].nHeight = top => a < b
      BY <3>2, <3>4
    <3> QED BY <3>3, <3>5
  <2> QED BY <1>0, <2>1, <2>2
<1>3. w[1].op = "new"
  <2>1. CASE v = <<>>
    BY <2>1
  <2>2. CASE v # <<>>
    <3>1. 1 \in 1..Len(v) /\ w[1] = v[1]
      BY <2>2
    <3> QED BY <2>2, <3>1 DEF Chronicle
  <2> QED BY <2>1, <2>2
<1> QED BY <1>1, <1>2, <1>3 DEF Chronicle

\* The last operation is undone, and is the last of the chain.
LEMMA PopChronicle ==
    ASSUME NEW B, NEW top \in Nat, NEW W, NEW n, NEW v \in Seq(CNameIndex), NEW j \in Nat, NEW w,
           v # <<>>, Len(w) = Len(v) - 1, \A k \in 1..Len(w) : w[k] = v[k],
           Chronicle(B, top, W, n, v), DOMAIN B = 1..top, top \in DOMAIN B, Distinct(B),
           j \in 1..Len(B[top]), B[top][j] = v[Len(v)].txPos
    PROVE  Chronicle(B, top, W \ {j}, n, w)
<1>0. Len(v) \in Nat \ {0} /\ Len(w) \in Nat
  OBVIOUS
<1>1. Len(v) \in 1..Len(v) /\ InChain(B, top, W, n, v[Len(v)]) /\ v[Len(v)].nHeight = top
  <2>1. Len(v) \in 1..Len(v) /\ InChain(B, top, W, n, v[Len(v)])
    BY <1>0 DEF Chronicle
  <2>2. v[Len(v)].nHeight = top
    BY <2>1 DEF InChain, Distinct
  <2> QED BY <2>1, <2>2
<1>2. ASSUME NEW k \in 1..Len(w) PROVE InChain(B, top, W \ {j}, n, w[k])
  <2>1. k \in 1..Len(v) /\ k < Len(v) /\ w[k] = v[k]
    BY <1>0
  <2>2. InChain(B, top, W, n, v[k]) /\ Before(B, v[k], v[Len(v)])
    BY <1>1, <2>1 DEF Chronicle
  <2>3. PICK i \in 1..Len(B[v[k].nHeight]) :
            B[v[k].nHeight][i] = v[k].txPos /\ (v[k].nHeight = top => i \in W)
    BY <2>2 DEF InChain
  <2>4. v[k].nHeight < top \/ i < j
    BY <1>1, <2>2, <2>3 DEF Before
  <2>5. v[k].nHeight = top => i \in W \ {j}
    BY <2>3, <2>4
  <2> QED BY <2>1, <2>2, <2>3, <2>5 DEF InChain
<1>3. ASSUME NEW k \in 1..Len(w), NEW l \in 1..Len(w), k < l PROVE Before(B, w[k], w[l])
  <2>1. k \in 1..Len(v) /\ l \in 1..Len(v) /\ w[k] = v[k] /\ w[l] = v[l]
    BY <1>0
  <2> QED BY <1>3, <2>1 DEF Chronicle
<1>4. ASSUME w # <<>>, Len(w) # 0 PROVE w[1].op = "new"
  BY <1>0, <1>4 DEF Chronicle
<1>5. Len(w) = 0 => w = <<>>
  OBVIOUS
<1> QED BY <1>2, <1>3, <1>4, <1>5 DEF Chronicle

\* What DisconnectInputs asserts: the last operation of the chain, if it is in the
\* history of its name, is the last there.
LEMMA NotAnOlderOne ==
    ASSUME NEW B, NEW top \in Nat, NEW W \in SUBSET Nat, NEW n, NEW v \in Seq(CNameIndex), NEW j \in Nat,
           NEW k \in 1..Len(v), Chronicle(B, top, W, n, v), DOMAIN B = 1..top, top \in DOMAIN B,
           Distinct(B), j \in 1..Len(B[top]), B[top][j] = v[k].txPos, \A i \in W : i <= j
    PROVE  v[Len(v)].txPos = v[k].txPos
<1>0. Len(v) \in Nat /\ Len(v) \in 1..Len(v)
  OBVIOUS
<1>1. SUFFICES ASSUME k < Len(v) PROVE FALSE
  BY <1>0
<1>2. Before(B, v[k], v[Len(v)]) /\ InChain(B, top, W, n, v[Len(v)]) /\ InChain(B, top, W, n, v[k])
  BY <1>0, <1>1 DEF Chronicle
<1>3. v[k].nHeight = top
  <2>1. PICK x \in 1..Len(B[v[k].nHeight]) : B[v[k].nHeight][x] = v[k].txPos
    BY <1>2 DEF InChain
  <2>2. v[k].nHeight \in DOMAIN B /\ B[v[k].nHeight][x] = B[top][j]
    BY <1>2, <2>1 DEF InChain
  <2> QED BY <2>1, <2>2, Zenon DEF Distinct
<1>4. PICK i \in 1..Len(B[v[Len(v)].nHeight]) :
        /\ B[v[Len(v)].nHeight][i] = v[Len(v)].txPos
        /\ v[Len(v)].nHeight = top => i \in W
  BY <1>2 DEF InChain
<1>5. v[Len(v)].nHeight \in 1..top
  BY <1>2 DEF InChain
<1>6. v[Len(v)].nHeight = top /\ j < i
  BY <1>2, <1>3, <1>4, <1>5 DEF Before
<1> QED BY <1>4, <1>6

\* What ReadName asserts: a history that begins with a name_new has an active chain.
LEMMA NotCorrupt ==
    ASSUME NEW rec, GoodRecord(rec), rec.vtxPos # <<>> => rec.vtxPos[1].op = "new"
    PROVE  ~Corrupt(rec)
<1> SUFFICES ASSUME rec.vtxPos # <<>> PROVE ~Corrupt(rec)
  BY DEF Corrupt
<1>1. /\ rec.vtxPos \in Seq(CNameIndex) /\ rec.nLastActiveChainIndex \in Nat
      /\ StartsActiveChain(rec.vtxPos, rec.nLastActiveChainIndex)
  BY DEF GoodRecord
<1>2. 1 \in 1..Len(rec.vtxPos)
  BY <1>1
<1>3. rec.nLastActiveChainIndex < Len(rec.vtxPos)
  BY <1>2, <1>1 DEF StartsActiveChain, IsNew
<1> QED BY <1>1, <1>3 DEF Corrupt

\* The blocks of the chain and the one on top.
LEMMA Positions ==
    ASSUME IInv
    PROVE  /\ Len(chain) \in Nat /\ Top \in Nat /\ DOMAIN BlockAt = 1..Top
           /\ \A h \in 1..Len(chain) : h \in DOMAIN BlockAt /\ BlockAt[h] = chain[h] /\ chain[h] \in Seq(Tx)
           /\ job.phase = "connect" => Top \in DOMAIN BlockAt /\ BlockAt[Top] = job.blk
<1>1. chain \in Seq(Seq(Tx)) /\ Len(chain) \in Nat
  BY DEF IInv, TypeOK
<1>2. Top \in Nat /\ Len(chain) <= Top
  BY <1>1 DEF Top
<1>3. \A h \in 1..Len(chain) : chain[h] \in Seq(Tx)
  BY <1>1
<1>4. DOMAIN BlockAt = 1..Top /\ \A h \in 1..Len(chain) : h \in 1..Top /\ BlockAt[h] = chain[h]
  BY <1>1, <1>2 DEF BlockAt
<1>5. job.phase = "connect" => Top \in 1..Top /\ BlockAt[Top] = job.blk
  BY <1>1 DEF BlockAt, Top
<1> QED BY <1>1, <1>2, <1>3, <1>4, <1>5

\* Steps that leave the index and the blocks alone.
LEMMA StaysPlaced ==
    ASSUME Placed, UNCHANGED <<nameDB, inDB>>, BlockAt' = BlockAt, Top' = Top,
           \A i \in 1..Len(BlockAt[Top]) : i \in Written => i \in Written',
           job'.phase = "connect" => job'.nHeight = Top',
           job'.phase = "disconnect" => chain' # <<>> /\ job'.blk = chain'[Len(chain')]
    PROVE  Placed'
<1> DEFINE B == BlockAt
           W == Written
           X == Written'
<1>1. ASSUME NEW n \in Name PROVE Chronicle(B, Top, X, n, nameDB[n].vtxPos)
  <2> DEFINE v == nameDB[n].vtxPos
  <2>1. Chronicle(B, Top, W, n, v)
    BY DEF Placed
  <2>2. \A k \in 1..Len(v) : v[k].nHeight \in DOMAIN B
    BY <2>1 DEF Chronicle, InChain
  <2>3. \A i \in 1..Len(B[Top]) : i \in W => i \in X
    OBVIOUS
  <2> HIDE DEF v, B, W, X
  <2>4. \A k \in 1..Len(v) : \A i \in 1..Len(B[v[k].nHeight]) :
              (/\ B[v[k].nHeight][i] = v[k].txPos
               /\ v[k].nHeight = Top => i \in W
               /\ v[k].nHeight = Top) => i \in X
    BY <2>3
  <2>5. Chronicle(B, Top, X, n, v)
    BY <2>1, <2>2, <2>4, SameChronicle
  <2> QED BY <2>5 DEF v
<1>2. Distinct(B)
  BY DEF Placed
<1> QED BY <1>1, <1>2 DEF Placed

\* ConnectBlock begins a block.
LEMMA BeginConnectPlaced ==
    ASSUME IInv, IInv', PlaceInv, NEW b \in Blocks, BeginConnect(b)
    PROVE  PlaceInv'
<1> SUFFICES ASSUME restarts' = 0 PROVE PlaceInv'
  BY DEF PlaceInv
<1>0. /\ restarts = 0 /\ job.phase = "idle" /\ UNCHANGED <<chain, nameDB, inDB>> /\ ValidBlock(chain, b)
      /\ CollectNames("connect", b, Len(chain) + 1)
  BY DEF BeginConnect, Idle
<1>1. Placed /\ b \in Seq(Tx) /\ chain \in Seq(Seq(Tx)) /\ Len(chain) \in Nat
  BY <1>0, TxAssumption DEF PlaceInv, IInv, TypeOK
<1>2. ASSUME NEW i \in Candidates("connect", b) PROVE ~Corrupt(nameDB[b[i].name])
  <2>1. b[i].name \in Name
    BY <1>1, TxFields DEF Candidates
  <2> QED BY <1>1, <2>1, NotCorrupt DEF Placed, Chronicle, IInv, RecordsGood
<1>3. \E todo, prev : job' = Job("connect", b, Len(chain) + 1, todo, prev)
  BY <1>0, <1>2 DEF CollectNames
<1>4. job'.phase = "connect" /\ job'.blk = b /\ job'.nHeight = Len(chain) + 1
  BY <1>3 DEF Job
<1> DEFINE B == BlockAt
           C == BlockAt'
           N == Len(chain)
<1>5. /\ Top = N /\ Top' = N + 1 /\ DOMAIN B = 1..N /\ DOMAIN C = 1..(N + 1)
      /\ \A h \in 1..N : B[h] = chain[h] /\ C[h] = chain[h]
      /\ C[N + 1] = b
  BY <1>0, <1>1, <1>4 DEF Top, BlockAt
<1> HIDE DEF B, C, N
<1>6. Distinct(C)
  <2>1. Distinct(B)
    BY <1>1 DEF Placed, B
  <2>2. ASSUME NEW h \in 1..N, NEW i \in 1..Len(C[h]), NEW j \in 1..Len(b) PROVE C[h][i] # b[j]
    <3>1. chain[h] \in Seq(Tx) /\ h \in DOMAIN chain /\ i \in DOMAIN chain[h] /\ C[h] = chain[h]
      BY <1>1, <1>5 DEF N
    <3>2. C[h][i] \in TxsOf(chain)
      BY <3>1 DEF TxsOf
    <3>3. b[j] \notin TxsOf(chain)
      BY <1>0, <1>1 DEF ValidBlock
    <3> QED BY <3>2, <3>3
  <2>3. ASSUME NEW i \in 1..Len(b), NEW j \in 1..Len(b), b[i] = b[j] PROVE i = j
    <3>1. ASSUME NEW x \in 1..Len(b), NEW y \in 1..Len(b), y < x PROVE b[x] # b[y]
      <4>1. y \in 1..(x - 1) /\ x \in DOMAIN b
        BY <1>1, <3>1
      <4> QED BY <1>0, <4>1 DEF ValidBlock
    <3>2. i \in Int /\ j \in Int
      BY <1>1
    <3> QED BY <2>3, <3>1, <3>2
  <2>4. ASSUME NEW h \in DOMAIN C, NEW k \in DOMAIN C, NEW i \in 1..Len(C[h]), NEW j \in 1..Len(C[k]),
               C[h][i] = C[k][j]
        PROVE  h = k /\ i = j
    <3>0. /\ h \in 1..N \/ (h = N + 1 /\ C[h] = b)
          /\ k \in 1..N \/ (k = N + 1 /\ C[k] = b)
      BY <1>1, <1>5 DEF N
    <3>1. CASE h \in 1..N /\ k \in 1..N
      <4>1. B[h] = C[h] /\ B[k] = C[k] /\ h \in DOMAIN B /\ k \in DOMAIN B
        BY <1>5, <3>1
      <4> QED BY <2>1, <2>4, <4>1 DEF Distinct
    <3>2. CASE h \in 1..N /\ k = N + 1
      BY <1>5, <2>2, <2>4, <3>2
    <3>3. CASE h = N + 1 /\ k \in 1..N
      BY <1>5, <2>2, <2>4, <3>3
    <3>4. CASE h = N + 1 /\ k = N + 1
      BY <1>5, <2>3, <2>4, <3>4
    <3> QED BY <3>0, <3>1, <3>2, <3>3, <3>4
  <2> QED BY <2>4 DEF Distinct
<1>7. ASSUME NEW n \in Name PROVE Chronicle(C, Top', Written', n, nameDB[n].vtxPos)
  <2> DEFINE v == nameDB[n].vtxPos
             X == Written'
             W == Written
             new == Top'
  <2>1. Chronicle(B, N, W, n, v) /\ new = N + 1
    BY <1>1, <1>5 DEF Placed, B
  <2> HIDE DEF v, X, W, new
  <2>2. \A k \in 1..Len(v) : v[k].nHeight \in 1..N
    BY <1>5, <2>1 DEF Chronicle, InChain
  <2>3. \A k \in 1..Len(v) : v[k].nHeight \in DOMAIN C /\ C[v[k].nHeight] = B[v[k].nHeight] /\ v[k].nHeight # new
    BY <1>1, <1>5, <2>1, <2>2 DEF N
  <2>4. Chronicle(C, new, X, n, v)
    BY <2>1, <2>3, SameChronicle
  <2> QED BY <2>4 DEF v, X, new
<1>8. Placed'
  BY <1>0, <1>1, <1>4, <1>5, <1>6, <1>7 DEF Placed, C, N
<1> QED BY <1>4, <1>8 DEF PlaceInv

\* ConnectBlock ends.
LEMMA EndConnectPlaced == ASSUME IInv, IInv', PlaceInv, EndConnect PROVE PlaceInv'
<1> SUFFICES ASSUME restarts' = 0 PROVE PlaceInv'
  BY DEF PlaceInv
<1>0. /\ job.phase = "connect" /\ job.todo = {} /\ chain' = Append(chain, job.blk)
      /\ job' = NoJob("idle") /\ UNCHANGED <<nameDB, inDB, restarts>>
      /\ chain \in Seq(Seq(Tx)) /\ job.blk \in Seq(Tx)
  BY DEF EndConnect, dbVars, IInv, TypeOK, JobType
<1>1. Placed /\ job'.phase = "idle"
  BY <1>0 DEF PlaceInv, NoJob, Job
<1>2. /\ Len(chain) \in Nat /\ Len(chain') = Len(chain) + 1
      /\ \A h \in 1..(Len(chain) + 1) : chain'[h] = IF h <= Len(chain) THEN chain[h] ELSE job.blk
  BY <1>0
<1>3. Top' = Top /\ Top = Len(chain) + 1
  BY <1>0, <1>1, <1>2 DEF Top
<1>4. BlockAt' = BlockAt
  <2>1. BlockAt' = [h \in 1..(Len(chain) + 1) |-> chain'[h]]
    BY <1>2, <1>3 DEF BlockAt
  <2>2. BlockAt = [h \in 1..(Len(chain) + 1) |-> IF h <= Len(chain) THEN chain[h] ELSE job.blk]
    BY <1>3 DEF BlockAt
  <2> QED BY <1>2, <2>1, <2>2
<1>5. Written' = Nat
  BY <1>1 DEF Written
<1>6. \A i \in 1..Len(BlockAt[Top]) : i \in Written => i \in Written'
  BY <1>5
<1>7. Placed'
  BY <1>0, <1>1, <1>3, <1>4, <1>6, StaysPlaced
<1> QED BY <1>1, <1>7 DEF PlaceInv

\* DisconnectBlock begins.
LEMMA BeginDisconnectPlaced == ASSUME IInv, IInv', PlaceInv, BeginDisconnect PROVE PlaceInv'
<1> SUFFICES ASSUME restarts' = 0 PROVE PlaceInv'
  BY DEF PlaceInv
<1> DEFINE blk == chain[Len(chain)]
<1>0. /\ job.phase = "idle" /\ chain # <<>> /\ UNCHANGED <<chain, nameDB, inDB, restarts>>
      /\ job' = Job("disconnect", blk, Len(chain), DOMAIN blk, [i \in DOMAIN blk |-> NoAddr])
  BY DEF BeginDisconnect, dbVars, Idle
<1>1. Placed /\ job'.phase = "disconnect" /\ job'.blk = blk /\ job'.todo = DOMAIN blk
  BY <1>0 DEF PlaceInv, Job
<1>2. chain \in Seq(Seq(Tx)) /\ Len(chain) \in 1..Len(chain) /\ blk \in Seq(Tx) /\ Len(chain) \in Nat
  BY <1>0 DEF IInv, TypeOK
<1>3. Top' = Top /\ Top = Len(chain)
  BY <1>0, <1>1 DEF Top
<1>4. BlockAt' = BlockAt /\ BlockAt[Top] = blk
  <2>1. BlockAt = [h \in 1..Len(chain) |-> chain[h]]
    BY <1>2, <1>3 DEF BlockAt
  <2>2. BlockAt' = [h \in 1..Len(chain) |-> chain[h]]
    BY <1>0, <1>2, <1>3 DEF BlockAt
  <2> QED BY <1>2, <1>3, <2>1, <2>2
<1>5. Written' = 1..Len(blk)
  BY <1>1, <1>2 DEF Written
<1>6. \A i \in 1..Len(BlockAt[Top]) : i \in Written => i \in Written'
  BY <1>4, <1>5
<1>7. chain' # <<>> /\ job'.blk = chain'[Len(chain')]
  BY <1>0, <1>1
<1>8. Placed'
  BY <1>0, <1>1, <1>3, <1>4, <1>6, <1>7, StaysPlaced
<1> QED BY <1>1, <1>8 DEF PlaceInv

\* DisconnectBlock ends: nothing of the block is left in the index.
LEMMA EndDisconnectPlaced == ASSUME IInv, IInv', PlaceInv, EndDisconnect PROVE PlaceInv'
<1> SUFFICES ASSUME restarts' = 0 PROVE PlaceInv'
  BY DEF PlaceInv
<1>0. /\ job.phase = "disconnect" /\ job.todo = {} /\ chain' = SubSeq(chain, 1, Len(chain) - 1)
      /\ job' = NoJob("idle") /\ UNCHANGED <<nameDB, inDB, restarts>>
  BY DEF EndDisconnect, dbVars
<1>1. Placed /\ job'.phase = "idle" /\ chain # <<>>
  BY <1>0 DEF PlaceInv, Placed, NoJob, Job
<1> DEFINE B == BlockAt
           C == BlockAt'
           N == Len(chain)
<1>2. /\ Len(chain') = N - 1 /\ N \in Nat \ {0} /\ \A h \in 1..(N - 1) : chain'[h] = chain[h]
  <2>1. chain \in Seq(Seq(Tx))
    BY DEF IInv, TypeOK
  <2> QED BY <1>0, <1>1, <2>1, ChainWithoutTip
<1>3. /\ Top = N /\ Top' = N - 1 /\ DOMAIN B = 1..N /\ DOMAIN C = 1..(N - 1)
      /\ \A h \in 1..(N - 1) : B[h] = chain[h] /\ C[h] = chain[h]
  BY <1>0, <1>1, <1>2 DEF Top, BlockAt
<1>4. Written = {} /\ Written' = Nat
  BY <1>0, <1>1 DEF Written
<1> HIDE DEF B, C, N
<1>5. Distinct(C)
  <2>1. \A h \in DOMAIN C : h \in DOMAIN B /\ C[h] = B[h]
    BY <1>2, <1>3
  <2>2. Distinct(B)
    BY <1>1 DEF Placed, B
  <2> QED BY <2>1, <2>2 DEF Distinct
<1>6. ASSUME NEW n \in Name PROVE Chronicle(C, Top', Written', n, nameDB[n].vtxPos)
  <2> DEFINE v == nameDB[n].vtxPos
             new == Top'
             X == Written'
  <2>1. Chronicle(B, N, {}, n, v) /\ new = N - 1 /\ X = Nat
    BY <1>1, <1>3, <1>4 DEF Placed, B
  <2> HIDE DEF v, new, X
  <2>2. \A k \in 1..Len(v) : v[k].nHeight \in 1..N /\ v[k].nHeight # N
    BY <1>3, <2>1 DEF Chronicle, InChain
  <2>3. \A k \in 1..Len(v) : v[k].nHeight \in DOMAIN C /\ C[v[k].nHeight] = B[v[k].nHeight]
    BY <1>2, <1>3, <2>2
  <2>4. \A k \in 1..Len(v) : \A i \in 1..Len(B[v[k].nHeight]) : i \in X
    BY <2>1
  <2>5. Chronicle(C, new, X, n, v)
    BY <2>1, <2>3, <2>4, SameChronicle
  <2> QED BY <2>5 DEF v, new, X
<1>7. Placed'
  BY <1>0, <1>1, <1>5, <1>6 DEF Placed, C
<1> QED BY <1>1, <1>7 DEF PlaceInv

\* An operation that is written without pruning.
LEMMA PushedWhole ==
    ASSUME NEW u \in Seq(CNameIndex), NEW e \in CNameIndex, NEW w, Pushed(Append(u, e), w, e), Len(w) < MaxSize
    PROVE  Len(w) = Len(u) + 1 /\ w[Len(u) + 1] = e /\ \A k \in 1..Len(u) : w[k] = u[k]
<1> DEFINE v == Append(u, e)
<1>1. Len(v) = Len(u) + 1 /\ Len(u) \in Nat /\ v[Len(u) + 1] = e /\ \A k \in 1..Len(u) : v[k] = u[k]
  OBVIOUS
<1>2. Pushed(v, w, e)
  OBVIOUS
<1> HIDE DEF v
<1>3. w \in Seq(CNameIndex)
  BY <1>2 DEF Pushed
<1>4. PICK d \in Nat : /\ Len(w) + d = Len(v) /\ (d # 0 => Len(w) = MaxSize)
                       /\ \A i \in 1..Len(w) : w[i] = v[i + d]
  BY <1>2 DEF Pushed
<1>5. d = 0
  BY <1>3, <1>4, BoundAssumption
<1>6. Len(w) = Len(v) /\ \A i \in 1..Len(w) : w[i] = v[i]
  BY <1>1, <1>3, <1>4, <1>5
<1> QED BY <1>1, <1>6

\* Writing an operation keeps the history a chronicle.
LEMMA WritePlaced ==
    ASSUME IInv, Placed, job.phase = "connect", job.todo # {}, Short',
           NEW j, j = NextUp(job.todo), NEW t, t = job.blk[j], ~SecondNew(t), WriteOperation(t),
           NEW X, Written \subseteq X, j \in X
    PROVE  /\ \A n \in Name : Chronicle(BlockAt, Top, X, n, nameDB'[n].vtxPos)
           /\ \A n \in Name : n \notin inDB' => nameDB'[n].vtxPos = <<>>
<1>1. /\ j \in job.todo /\ j \in DOMAIN job.blk /\ t \in Tx
      /\ \A n \in Name : n # t.name => nameDB'[n] = nameDB[n]
  BY WriteGood
<1>2. /\ t.name \in Name /\ t.op \in Ops /\ job.nHeight \in Nat /\ DOMAIN nameDB = Name
      /\ job.blk \in Seq(Tx) /\ job.nHeight = Top /\ j \in Nat
  BY <1>1, TxFields DEF IInv, TypeOK, JobType, Placed
<1> DEFINE e == [txPos |-> t, nHeight |-> job.nHeight, op |-> t.op]
           rec == nameDB[t.name]
           v == rec.vtxPos
           w == nameDB'[t.name].vtxPos
           B == BlockAt
           W == Written
<1>3. e \in CNameIndex /\ e.op = t.op /\ e.nHeight = Top /\ e.txPos = t
  BY <1>1, <1>2 DEF CNameIndex
<1>4. GoodRecord(rec) /\ v \in Seq(CNameIndex) /\ Len(w) < MaxSize
  BY <1>2 DEF IInv, RecordsGood, GoodRecord, Short
<1>5. /\ ~Corrupt(rec) /\ (t.op # "new" => v # <<>>) /\ t.op # "none"
      /\ (t.op = "new" /\ t.name \notin job.sNameNew) => ~NameActive(rec, job.nHeight)
  BY <1>1 DEF IInv, VNameValid
<1>6. nameDB'[t.name] = PushOperation(rec, e)
  BY <1>2 DEF WriteOperation
<1>7. MayPush(rec, e)
  BY <1>3, <1>5 DEF MayPush, SecondNew
<1>8. /\ Top \in Nat /\ DOMAIN B = 1..Top /\ Top \in DOMAIN B /\ Distinct(B)
      /\ j \in 1..Len(B[Top]) /\ B[Top][j] = t
  <2>1. B[Top] = job.blk /\ Top \in DOMAIN B /\ DOMAIN B = 1..Top /\ Top \in Nat
    BY Positions
  <2> QED BY <1>1, <1>2, <2>1 DEF Placed
<1>9. \A i \in W : i < j
  BY <1>1 DEF Written
<1>10. W \subseteq X /\ j \in X /\ (v = <<>> => t.op = "new") /\ Chronicle(B, Top, W, t.name, v)
  BY <1>2, <1>5 DEF Placed
<1>11. Pushed(Append(v, e), PushOperation(rec, e).vtxPos, e)
  <2> HIDE DEF e, rec
  <2> QED BY <1>3, <1>4, <1>7, PushedHistory
<1>12. Pushed(Append(v, e), w, e)
  BY <1>6, <1>11
<1> HIDE DEF e, rec, v, w, B, W
<1>13. Len(w) = Len(v) + 1 /\ w[Len(v) + 1] = e /\ \A k \in 1..Len(v) : w[k] = v[k]
  BY <1>3, <1>4, <1>12, PushedWhole
<1>14. Chronicle(B, Top, X, t.name, w)
  <2>1. /\ e.op = e.txPos.op /\ e.op # "none" /\ e.txPos.name = t.name /\ (v = <<>> => e.op = "new")
        /\ B[Top][j] = e.txPos /\ e.nHeight = Top
    BY <1>3, <1>5, <1>8, <1>10
  <2> QED BY <1>2, <1>3, <1>4, <1>8, <1>9, <1>10, <1>13, <2>1, PushChronicle, Zenon
<1>15. ASSUME NEW n \in Name, n # t.name PROVE Chronicle(B, Top, X, n, nameDB'[n].vtxPos)
  <2>1. Chronicle(B, Top, W, n, nameDB[n].vtxPos) /\ nameDB'[n] = nameDB[n]
    BY <1>1, <1>15 DEF Placed, B, W
  <2>2. \A i \in W : i \in X
    BY <1>10
  <2> QED BY <2>1, <2>2 DEF Chronicle, InChain
<1>16. ASSUME NEW n \in Name, n \notin inDB' PROVE nameDB'[n].vtxPos = <<>>
  <2>1. n # t.name /\ n \notin inDB
    BY <1>16 DEF WriteOperation
  <2> QED BY <1>1, <2>1 DEF Placed
<1> QED BY <1>14, <1>15, <1>16 DEF B, w

\* One round of the hook's loop.
LEMMA ConnectNamePlaced == ASSUME IInv, IInv', Short', PlaceInv, ConnectName PROVE PlaceInv'
<1> SUFFICES ASSUME restarts' = 0 PROVE PlaceInv'
  BY DEF PlaceInv
<1> DEFINE j == NextUp(job.todo)
           t == job.blk[j]
           old == job.prev[j]
<1>0. /\ job.phase = "connect" /\ job.todo # {} /\ UNCHANGED <<chain, restarts>> /\ Placed
      /\ job \in JobType /\ job.todo \in SUBSET (1..Len(job.blk)) /\ Len(job.blk) \in Nat
  BY DEF ConnectName, IInv, TypeOK, JobType, PlaceInv
<1>1. j \in job.todo /\ j \in Nat /\ \A k \in job.todo : k \in Nat /\ j <= k
  <2>1. j \in job.todo /\ \A k \in job.todo : j <= k
    BY <1>0, NextUpOf, Zenon
  <2> HIDE DEF j
  <2> QED BY <1>0, <2>1
<1>2. ASSUME job'.phase = job.phase, job'.blk = job.blk, job'.nHeight = job.nHeight,
             job'.todo \subseteq job.todo \ {j}
      PROVE  /\ BlockAt' = BlockAt /\ Top' = Top /\ job'.nHeight = Top'
             /\ Written \subseteq Written' /\ j \in Written'
  <2>1. Top' = Top /\ job'.nHeight = Top'
    BY <1>0, <1>2 DEF Top, Placed
  <2>2. BlockAt' = BlockAt
    BY <1>0, <1>2, <2>1 DEF BlockAt
  <2>3. \A k \in job'.todo : j < k /\ k \in job.todo
    BY <1>1, <1>2
  <2>4. /\ Written' = {i \in 1..Len(job.blk) : \A k \in job'.todo : i < k}
        /\ Written = {i \in 1..Len(job.blk) : \A k \in job.todo : i < k}
    BY <1>0, <1>2 DEF Written
  <2> HIDE DEF j
  <2> QED BY <1>0, <1>1, <2>1, <2>2, <2>3, <2>4
<1>3. CASE SecondNew(t) /\ job' = [job EXCEPT !.todo = @ \ {j}] /\ UNCHANGED dbVars
  <2>1. /\ job'.phase = job.phase /\ job'.blk = job.blk /\ job'.nHeight = job.nHeight
        /\ job'.todo \subseteq job.todo \ {j}
    BY <1>0, <1>3 DEF JobType
  <2>2. /\ BlockAt' = BlockAt /\ Top' = Top /\ job'.nHeight = Top' /\ Written \subseteq Written'
    BY <1>2, <2>1
  <2>3. Placed'
    BY <1>0, <1>3, <2>1, <2>2, StaysPlaced DEF dbVars
  <2> QED BY <1>0, <2>1, <2>3 DEF PlaceInv
<1>4. CASE /\ ~SecondNew(t) /\ WriteOperation(t)
           /\ job' = [job EXCEPT
                        !.todo = IF MoveNameOK(addrDB, old, NewAddr(t), t.name) THEN @ \ {j} ELSE {},
                        !.sNameNew = IF t.op = "new" THEN @ \cup {t.name} ELSE @]
  <2>1. /\ job'.phase = job.phase /\ job'.blk = job.blk /\ job'.nHeight = job.nHeight
        /\ job'.todo \subseteq job.todo \ {j}
    BY <1>0, <1>4 DEF JobType
  <2>2. /\ BlockAt' = BlockAt /\ Top' = Top /\ job'.nHeight = Top'
        /\ Written \subseteq Written' /\ j \in Written'
    BY <1>2, <2>1
  <2> DEFINE X == Written'
  <2>3. Written \subseteq X /\ j \in X /\ ~SecondNew(t) /\ WriteOperation(t)
    BY <1>4, <2>2
  <2> HIDE DEF X
  <2>4. /\ \A n \in Name : Chronicle(BlockAt, Top, X, n, nameDB'[n].vtxPos)
        /\ \A n \in Name : n \notin inDB' => nameDB'[n].vtxPos = <<>>
    BY <1>0, <2>3, WritePlaced
  <2>5. Placed'
    BY <1>0, <2>1, <2>2, <2>4 DEF Placed, X
  <2> QED BY <1>0, <2>1, <2>5 DEF PlaceInv
<1> QED BY <1>3, <1>4 DEF ConnectName, WriteOperation

\* A history without the transaction that is passed over.
LEMMA PassedOver ==
    ASSUME NEW B, NEW top, NEW W, NEW n, NEW v, NEW j, Chronicle(B, top, W, n, v),
           \A k \in 1..Len(v) : v[k].txPos # B[top][j]
    PROVE  Chronicle(B, top, W \ {j}, n, v)
<1> DEFINE X == W \ {j}
<1>1. \A k \in 1..Len(v) : \A i \in 1..Len(B[v[k].nHeight]) :
          (/\ B[v[k].nHeight][i] = v[k].txPos
           /\ v[k].nHeight = top => i \in W
           /\ v[k].nHeight = top) => i \in X
  OBVIOUS
<1>2. \A k \in 1..Len(v) : v[k].nHeight \in DOMAIN B
  BY DEF Chronicle, InChain
<1> HIDE DEF X
<1>3. Chronicle(B, top, X, n, v)
  BY <1>1, <1>2, SameChronicle
<1> QED BY <1>3 DEF X

\* DisconnectInputs of one transaction: the assertions hold, and the transaction
\* is in no history afterwards.
LEMMA DisconnectNamePlaced == ASSUME IInv, IInv', PlaceInv, DisconnectName PROVE PlaceInv'
<1> SUFFICES ASSUME restarts' = 0 PROVE PlaceInv'
  BY DEF PlaceInv
<1> DEFINE j == NextDown(job.todo)
           t == job.blk[j]
           rec == nameDB[t.name]
           v == rec.vtxPos
           next == [job EXCEPT !.todo = @ \ {j}]
           B == BlockAt
           W == job.todo
<1>0. /\ job.phase = "disconnect" /\ job.todo # {} /\ UNCHANGED <<chain, restarts>> /\ Placed
      /\ job \in JobType /\ job.todo \in SUBSET (1..Len(job.blk)) /\ Len(job.blk) \in Nat
      /\ job.blk \in Seq(Tx) /\ DOMAIN nameDB = Name
  <2>1. job.phase = "disconnect" /\ job.todo # {} /\ UNCHANGED <<chain, restarts>>
    BY Zenon DEF DisconnectName
  <2>2. Placed
    BY <2>1 DEF PlaceInv
  <2>3. /\ job \in JobType /\ DOMAIN nameDB = Name /\ job.todo \subseteq DOMAIN job.blk
    BY DEF IInv, TypeOK
  <2>4. job.blk \in Seq(Tx)
    BY <2>3 DEF JobType
  <2>5. DOMAIN job.blk = 1..Len(job.blk) /\ Len(job.blk) \in Nat
    BY <2>4
  <2> QED BY <2>1, <2>2, <2>3, <2>4, <2>5
<1>1. /\ j \in W /\ j \in Nat /\ W \in SUBSET Nat /\ \A k \in W : k <= j
  <2>1. j \in W /\ \A k \in W : k <= j
    BY <1>0, NextDownOf, Zenon
  <2> HIDE DEF j
  <2> QED BY <1>0, <2>1
<1>2. /\ Top \in Nat /\ DOMAIN B = 1..Top /\ Top \in DOMAIN B /\ Distinct(B)
      /\ B[Top] = job.blk /\ j \in 1..Len(B[Top]) /\ B[Top][j] = t
  <2>1. chain \in Seq(Seq(Tx)) /\ chain # <<>> /\ job.blk = chain[Len(chain)]
    BY <1>0 DEF IInv, TypeOK, Placed
  <2>2. Len(chain) \in 1..Len(chain) /\ Top = Len(chain)
    BY <1>0, <2>1 DEF Top
  <2>3. Top \in Nat /\ DOMAIN B = 1..Top /\ B[Top] = job.blk
    BY <2>1, <2>2, Positions
  <2> QED BY <1>0, <1>1, <2>2, <2>3 DEF Placed
<1>3. t \in Tx /\ t.name \in Name
  BY <1>0, UndoneTx, TxFields
<1>4. \A n \in Name : Chronicle(B, Top, W, n, nameDB[n].vtxPos) /\ nameDB[n].vtxPos \in Seq(CNameIndex)
  BY <1>0 DEF Placed, Written, IInv, TypeOK
<1>5. ~Corrupt(rec)
  BY <1>3, <1>4, NotCorrupt DEF Chronicle, IInv, RecordsGood
<1>6. ASSUME NEW n \in Name, NEW k \in 1..Len(nameDB[n].vtxPos), nameDB[n].vtxPos[k].txPos = t
      PROVE  n = t.name /\ t.op # "none"
  BY <1>4, <1>6 DEF Chronicle, InChain
\* After a step to next the blocks are the same, and j is not awaited any more.
<1>7. ASSUME job' = next,
             \A n \in Name : Chronicle(B, Top, W \ {j}, n, nameDB'[n].vtxPos),
             \A n \in Name : n \notin inDB' => nameDB'[n].vtxPos = <<>>
      PROVE  PlaceInv'
  <2>1. /\ job'.phase = "disconnect" /\ job'.blk = job.blk /\ job'.todo = W \ {j}
    BY <1>0, <1>7 DEF JobType
  <2>2. Top' = Top /\ Written' = W \ {j}
    BY <1>0, <2>1 DEF Top, Written
  <2>3. BlockAt' = B
    BY <1>0, <2>1, <2>2 DEF BlockAt
  <2>4. chain' # <<>> /\ job'.blk = chain'[Len(chain')]
    BY <1>0, <2>1 DEF Placed
  <2> HIDE DEF j, next, B, W
  <2>5. Placed'
    BY <1>2, <1>7, <2>1, <2>2, <2>3, <2>4 DEF Placed
  <2> QED BY <2>1, <2>5 DEF PlaceInv
<1> HIDE DEF next
\* The transaction is in no history.
<1>8. ASSUME job' = next, UNCHANGED <<nameDB, inDB>>, \A k \in 1..Len(v) : v[k].txPos # t \/ t.op = "none"
      PROVE  PlaceInv'
  <2>1. ASSUME NEW n \in Name PROVE Chronicle(B, Top, W \ {j}, n, nameDB[n].vtxPos)
    <3>1. \A k \in 1..Len(nameDB[n].vtxPos) : nameDB[n].vtxPos[k].txPos # B[Top][j]
      BY <1>2, <1>6, <1>8
    <3> HIDE DEF B, W, j
    <3> QED BY <1>4, <3>1, PassedOver
  <2> QED BY <1>0, <1>7, <1>8, <2>1 DEF Placed
<1>9. CASE (t.op = "none" \/ t.name \notin inDB) /\ job' = next /\ UNCHANGED dbVars
  <2>1. t.op = "none" \/ v = <<>>
    BY <1>0, <1>3, <1>9 DEF Placed
  <2>2. \A k \in 1..Len(v) : v[k].txPos # t \/ t.op = "none"
    BY <2>1
  <2> QED BY <1>8, <1>9, <2>2 DEF dbVars
<1>10. CASE /\ v = <<>> /\ nameDB' = [nameDB EXCEPT ![t.name] = EmptyRecord]
            /\ inDB' = inDB \ {t.name} /\ job' = next
  <2>1. \A n \in Name : nameDB'[n].vtxPos = nameDB[n].vtxPos
    BY <1>0, <1>10 DEF EmptyRecord
  <2>2. ASSUME NEW n \in Name PROVE Chronicle(B, Top, W \ {j}, n, nameDB'[n].vtxPos)
    <3>1. \A k \in 1..Len(nameDB[n].vtxPos) : nameDB[n].vtxPos[k].txPos # B[Top][j]
      BY <1>2, <1>6, <1>10
    <3> HIDE DEF B, W, j
    <3>2. Chronicle(B, Top, W \ {j}, n, nameDB[n].vtxPos)
      BY <1>4, <3>1, PassedOver
    <3> QED BY <2>1, <3>2
  <2>3. \A n \in Name : n \notin inDB' => nameDB'[n].vtxPos = <<>>
    BY <1>0, <1>10, <2>1 DEF Placed
  <2> QED BY <1>7, <1>10, <2>2, <2>3
<1>11. CASE /\ v # <<>> /\ v[Len(v)].txPos # t /\ UNCHANGED dbVars
            /\ job' = IF \E k \in DOMAIN v : v[k].txPos = t THEN NoJob("assert") ELSE next
  <2>1. ASSUME NEW k \in 1..Len(v) PROVE v[k].txPos # t
    <3>1. v \in Seq(CNameIndex) /\ Chronicle(B, Top, W, t.name, v)
      BY <1>3, <1>4
    <3>2. SUFFICES ASSUME v[k].txPos = t PROVE FALSE
      OBVIOUS
    <3>3. B[Top][j] = v[k].txPos /\ v[Len(v)].txPos # v[k].txPos
      BY <1>2, <1>11, <3>2
    <3> HIDE DEF B, W, j, v, t
    <3> QED BY <1>1, <1>2, <3>1, <3>3, NotAnOlderOne
  <2>2. DOMAIN v = 1..Len(v)
    BY <1>3, <1>4
  <2>3. job' = next
    BY <1>11, <2>1, <2>2
  <2> QED BY <1>8, <1>11, <2>1, <2>3 DEF dbVars
<1>12. ASSUME v # <<>>, v[Len(v)].txPos = t, job' = next, inDB' = inDB, NEW g,
              nameDB' = [nameDB EXCEPT ![t.name] = PopOperation(rec, g)]
       PROVE  PlaceInv'
  <2> DEFINE w == nameDB'[t.name].vtxPos
  <2>1. w = SubSeq(v, 1, Len(v) - 1)
    BY <1>0, <1>3, <1>12 DEF PopOperation, CalculateExpiresAt
  <2>2. v \in Seq(CNameIndex) /\ Chronicle(B, Top, W, t.name, v) /\ B[Top][j] = v[Len(v)].txPos
    BY <1>2, <1>3, <1>4, <1>12
  <2>3. \A m \in Name : m # t.name => nameDB'[m] = nameDB[m]
    BY <1>0, <1>12
  <2>4. ASSUME NEW n \in Name, n # t.name PROVE Chronicle(B, Top, W \ {j}, n, nameDB'[n].vtxPos)
    <3>1. \A k \in 1..Len(nameDB[n].vtxPos) : nameDB[n].vtxPos[k].txPos # B[Top][j]
      BY <1>2, <1>6, <2>4
    <3> HIDE DEF B, W, j
    <3>2. Chronicle(B, Top, W \ {j}, n, nameDB[n].vtxPos)
      BY <1>4, <3>1, PassedOver
    <3> QED BY <2>3, <2>4, <3>2
  <2>5. \A n \in Name : n \notin inDB' => n # t.name /\ nameDB'[n].vtxPos = <<>>
    <3>1. t.name \in inDB
      BY <1>0, <1>3, <1>12 DEF Placed
    <3> QED BY <1>0, <1>12, <2>3, <3>1 DEF Placed
  <2>6. v # <<>>
    BY <1>12
  <2> HIDE DEF w, v, B, W, j
  <2>7. Len(v) \in Nat \ {0} /\ Len(w) = Len(v) - 1 /\ \A i \in 1..(Len(v) - 1) : w[i] = v[i]
    BY <2>1, <2>2, <2>6, ChainWithoutTip
  <2>8. \A i \in 1..Len(w) : w[i] = v[i]
    BY <2>7
  <2>9. Chronicle(B, Top, W \ {j}, t.name, w)
    BY <1>1, <1>2, <2>2, <2>6, <2>7, <2>8, PopChronicle
  <2>10. \A n \in Name : Chronicle(B, Top, W \ {j}, n, nameDB'[n].vtxPos)
    BY <2>4, <2>9 DEF w
  <2> QED BY <1>7, <1>12, <2>5, <2>10
<1> HIDE DEF t, v, rec
<1>13. \/ (t.op = "none" \/ t.name \notin inDB) /\ job' = next /\ UNCHANGED dbVars
       \/ Corrupt(rec)
       \/ /\ v = <<>> /\ nameDB' = [nameDB EXCEPT ![t.name] = EmptyRecord]
          /\ inDB' = inDB \ {t.name} /\ job' = next
       \/ /\ v # <<>> /\ v[Len(v)].txPos # t /\ UNCHANGED dbVars
          /\ job' = IF \E k \in DOMAIN v : v[k].txPos = t THEN NoJob("assert") ELSE next
       \/ /\ v # <<>> /\ v[Len(v)].txPos = t /\ job' = next /\ inDB' = inDB
          /\ \E g \in Garbage : nameDB' = [nameDB EXCEPT ![t.name] = PopOperation(rec, g)]
  BY Zenon DEF DisconnectName, next, t, v, rec
<1> QED BY <1>5, <1>9, <1>10, <1>11, <1>12, <1>13

\* Every step up to the first crash.
LEMMA StepPlaced == ASSUME IInv, Short', PlaceInv, [Next]_vars PROVE PlaceInv'
<1>0. IInv'
  BY StepIInv
<1>1. CASE UNCHANGED vars
  BY <1>1 DEF vars, PlaceInv, Placed, Top, BlockAt, Written
<1>2. CASE FlushStateToDisk
  BY <1>2 DEF FlushStateToDisk, dbVars, PlaceInv, Placed, Top, BlockAt, Written
<1>3. CASE Crash \/ CrashBetweenWrites
  <2>1. job' = NoJob("down")
    BY <1>3, Zenon DEF Crash, CrashBetweenWrites
  <2>2. job'.phase = "down"
    BY <2>1 DEF NoJob, Job
  <2> QED BY <2>2 DEF PlaceInv
<1>4. CASE \E keepName, keepAddr \in BOOLEAN : Restart(keepName, keepAddr)
  <2>1. restarts' = restarts + 1 /\ restarts \in Nat
    BY <1>4 DEF Restart, IInv, TypeOK
  <2>2. restarts' # 0
    BY <2>1
  <2> QED BY <2>2 DEF PlaceInv
<1>5. CASE RebuildNextBlock
  <2>1. restarts # 0 /\ restarts' = restarts
    BY <1>5 DEF RebuildNextBlock, PlaceInv
  <2> QED BY <2>1 DEF PlaceInv
<1> QED
  BY <1>0, <1>1, <1>2, <1>3, <1>4, <1>5, BeginConnectPlaced, ConnectNamePlaced, EndConnectPlaced,
     BeginDisconnectPlaced, DisconnectNamePlaced, EndDisconnectPlaced DEF Next

\* PlaceInv holds as long as nothing is pruned.
LEMMA PlaceAlways == Spec /\ []Short => []PlaceInv
<1>1. Init => PlaceInv
  <2> SUFFICES ASSUME Init PROVE PlaceInv
    OBVIOUS
  <2>1. chain = <<>> /\ job.phase = "idle" /\ \A n \in Name : nameDB[n].vtxPos = <<>>
    BY DEF Init, NoJob, Job, EmptyRecord
  <2>2. Len(chain) = 0 /\ DOMAIN BlockAt = {}
    BY <2>1 DEF BlockAt, Top
  <2>3. Distinct(BlockAt) /\ \A B, top, W, n : Chronicle(B, top, W, n, <<>>)
    BY <2>2 DEF Distinct, Chronicle
  <2> QED BY <2>1, <2>3 DEF PlaceInv, Placed
<1>2. IInv /\ Short' /\ PlaceInv /\ [Next]_vars => PlaceInv'
  BY StepPlaced
<1> QED BY <1>1, <1>2, InvariantHolds, PTL DEF Spec

\* Up to the first crash neither assertion fails, through any blocks connected and
\* disconnected, as long as no history is so long that its name_new is pruned: the
\* index has every operation of the chain in its place.  (Once a name_new is pruned
\* and the operations after it are disconnected, ReadName's assertion can fail.)
THEOREM AssertionsHold == Spec /\ []Short => [](restarts = 0 => NoFailedAssert)
<1>1. PlaceInv => (restarts = 0 => NoFailedAssert)
  BY DEF PlaceInv, NoFailedAssert
<1> QED BY <1>1, PlaceAlways, PTL

-----------------------------------------------------------------------------
(* The index is the one the chain defines.                                 *)

\* RefHistory's function of the height, for a chain c up to height N.
RefBody(H, c, h) ==
    IF h = 0 THEN [n \in Name |-> <<>>]
    ELSE [n \in Name |-> H[h-1][n] \o RefOps(H[h-1][n], c[h], n, h)]

IsRef(c, N, H) == H = [h \in 0..N |-> RefBody(H, c, h)]

\* A set of naturals has a least element.
LEMMA LeastNumber ==
    ASSUME NEW T \in SUBSET Nat, T # {}
    PROVE  \E n \in T : \A m \in T : n <= m
<1>0. IsWellFoundedOn(OpToRel(<, Nat), Nat)
  BY NatLessThanWellFounded
<1>1. PICK n \in T : \A m \in T : ~(<<m, n>> \in OpToRel(<, Nat))
  BY <1>0, WFMin
<1>2. \A m \in T : ~(m < n)
  BY <1>1 DEF OpToRel
<1>3. ASSUME NEW m \in T PROVE n <= m
  <2>1. m \in Nat /\ n \in Nat /\ ~(m < n)
    BY <1>2
  <2> QED BY <2>1
<1> QED BY <1>3

\* The recursion of RefHistory defines a function.
LEMMA RefExists ==
    ASSUME NEW c, NEW N \in Nat
    PROVE  \E H : IsRef(c, N, H)
<1> DEFINE T == {k \in Nat : ~\E H : IsRef(c, k, H)}
<1>1. SUFFICES ASSUME T # {} PROVE FALSE
  OBVIOUS
<1>2. PICK m \in T : \A k \in T : m <= k
  <2>1. T \in SUBSET Nat
    OBVIOUS
  <2> HIDE DEF T
  <2> QED BY <1>1, <2>1, LeastNumber
<1>3. m \in Nat /\ ~\E H : IsRef(c, m, H)
  BY <1>2
<1>4. CASE m = 0
  <2> DEFINE H == [h \in 0..0 |-> [n \in Name |-> <<>>]]
  <2>1. \A h \in 0..0 : RefBody(H, c, h) = [n \in Name |-> <<>>]
    BY DEF RefBody
  <2>2. H = [h \in 0..0 |-> RefBody(H, c, h)]
    BY <2>1
  <2> QED BY <1>3, <1>4, <2>2 DEF IsRef
<1>5. CASE m # 0
  <2>1. m - 1 \in Nat /\ ~(m <= m - 1)
    BY <1>3, <1>5
  <2>2. m - 1 \notin T
    <3> HIDE DEF T
    <3> QED BY <1>2, <2>1
  <2>3. PICK G : IsRef(c, m - 1, G)
    BY <2>1, <2>2
  <2> DEFINE H == [h \in 0..m |-> IF h < m THEN G[h] ELSE RefBody(G, c, m)]
  <2>4. ASSUME NEW h \in 0..m PROVE H[h] = RefBody(H, c, h)
    <3>1. h \in Int /\ m \in Int /\ (h = 0 \/ h - 1 \in 0..(m - 1))
      BY <1>3
    <3>2. h # 0 => h - 1 \in 0..m /\ h - 1 < m /\ H[h - 1] = G[h - 1]
      BY <1>3, <3>1
    <3>3. RefBody(H, c, h) = RefBody(G, c, h)
      <4> HIDE DEF H
      <4> QED BY <3>2 DEF RefBody
    <3>4. CASE h < m
      <4>1. h \in 0..(m - 1)
        BY <1>3, <3>4
      <4>2. G[h] = RefBody(G, c, h)
        BY <2>3, <4>1 DEF IsRef
      <4> QED BY <3>3, <3>4, <4>2
    <3>5. CASE h = m
      BY <1>3, <3>3, <3>5
    <3> QED BY <1>3, <3>4, <3>5
  <2>5. H = [h \in 0..m |-> RefBody(H, c, h)]
    <3>1. DOMAIN H = 0..m /\ H = [h \in 0..m |-> H[h]]
      OBVIOUS
    <3> HIDE DEF H
    <3> QED BY <2>4, <3>1
  <2> QED BY <1>3, <2>5 DEF IsRef
<1> QED BY <1>4, <1>5

\* Two chains that agree up to a height have the same histories there.
LEMMA RefAgree ==
    ASSUME NEW c, NEW d, NEW N \in Nat, NEW M \in Nat, N <= M, NEW H, NEW G,
           IsRef(c, N, H), IsRef(d, M, G), \A h \in 1..N : c[h] = d[h]
    PROVE  \A h \in 0..N : H[h] = G[h]
<1> DEFINE T == {h \in 0..N : H[h] # G[h]}
<1>1. SUFFICES ASSUME T # {} PROVE FALSE
  OBVIOUS
<1>2. PICK m \in T : \A k \in T : m <= k
  <2>1. T \in SUBSET Nat
    OBVIOUS
  <2> HIDE DEF T
  <2> QED BY <1>1, <2>1, LeastNumber
<1>3. m \in 0..N /\ m \in 0..M /\ H[m] # G[m]
  BY <1>2
<1>4. H[m] = RefBody(H, c, m) /\ G[m] = RefBody(G, d, m)
  BY <1>3 DEF IsRef
<1>5. m # 0 => c[m] = d[m] /\ H[m - 1] = G[m - 1]
  <2> SUFFICES ASSUME m # 0 PROVE c[m] = d[m] /\ H[m - 1] = G[m - 1]
    OBVIOUS
  <2>1. m \in 1..N /\ m - 1 \in 0..N /\ ~(m <= m - 1)
    BY <1>3
  <2>2. m - 1 \notin T
    <3> HIDE DEF T
    <3> QED BY <1>2, <2>1
  <2> QED BY <2>1, <2>2
<1>6. RefBody(H, c, m) = RefBody(G, d, m)
  BY <1>5 DEF RefBody
<1> QED BY <1>3, <1>4, <1>6

\* The value of RefHistory.
LEMMA RefValue ==
    ASSUME NEW S, NEW c \in Seq(S)
    PROVE  \E H : IsRef(c, Len(c), H) /\ RefHistory(c) = H[Len(c)]
<1> DEFINE F == CHOOSE H : IsRef(c, Len(c), H)
<1>1. Len(c) \in Nat
  OBVIOUS
<1>2. \E H : IsRef(c, Len(c), H)
  BY <1>1, RefExists
<1>3. IsRef(c, Len(c), F)
  BY <1>2, Zenon
<1>4. RefHistory(c) = F[Len(c)]
  BY Zenon DEF RefHistory, IsRef, RefBody
<1> QED BY <1>3, <1>4

\* One more block adds its operations.
LEMMA RefNext ==
    ASSUME NEW S, NEW c \in Seq(S), NEW d \in Seq(S), Len(d) = Len(c) + 1,
           \A h \in 1..Len(c) : d[h] = c[h]
    PROVE  RefHistory(d) = [n \in Name |-> RefHistory(c)[n]
                                            \o RefOps(RefHistory(c)[n], d[Len(d)], n, Len(d))]
<1>1. PICK H : IsRef(c, Len(c), H) /\ RefHistory(c) = H[Len(c)]
  BY RefValue
<1>2. PICK G : IsRef(d, Len(d), G) /\ RefHistory(d) = G[Len(d)]
  BY RefValue
<1>3. Len(c) \in Nat /\ Len(d) \in Nat /\ Len(c) <= Len(d) /\ Len(d) # 0 /\ Len(d) - 1 = Len(c)
  OBVIOUS
<1>4. H[Len(c)] = G[Len(c)]
  <2>0. \A h \in 1..Len(c) : c[h] = d[h]
    OBVIOUS
  <2> DEFINE N == Len(c)
             M == Len(d)
  <2>1. N \in Nat /\ M \in Nat /\ N <= M /\ IsRef(c, N, H) /\ IsRef(d, M, G)
        /\ \A h \in 1..N : c[h] = d[h]
    BY <1>1, <1>2, <1>3, <2>0
  <2> HIDE DEF N, M
  <2>2. \A h \in 0..N : H[h] = G[h]
    BY <2>1, RefAgree, SMTT(30)
  <2> QED BY <1>3, <2>2 DEF N
<1>5. G[Len(d)] = RefBody(G, d, Len(d))
  BY <1>2, <1>3 DEF IsRef
<1> QED BY <1>1, <1>2, <1>3, <1>4, <1>5 DEF RefBody

\* The entry CNamecoinHooks writes for position j of block b.
EntryOf(b, j, h) == [txPos |-> b[j], nHeight |-> h, op |-> b[j].op]

\* A block with one operation on n, or several name_new, adds one operation to the
\* history of n or none.
LEMMA RefOpsPaired ==
    ASSUME NEW v, NEW b \in Seq(Tx), PairedOps(b), NEW n, NEW h
    PROVE  /\ RefAccepted(v, b, n, h) = {} => RefOps(v, b, n, h) = <<>>
           /\ \A j \in RefAccepted(v, b, n, h) :
                (\A k \in RefAccepted(v, b, n, h) : j <= k) => RefOps(v, b, n, h) = <<EntryOf(b, j, h)>>
<1> DEFINE ok == RefAccepted(v, b, n, h)
           W == RefWritten(ok, b)
           at == [x \in 1..Cardinality(W) |->
                            CHOOSE i \in W : Cardinality({m \in W : m <= i}) = x]
<1>0. RefOps(v, b, n, h) = [k \in 1..Cardinality(W) |->
            [txPos |-> b[at[k]], nHeight |-> h, op |-> b[at[k]].op]]
  BY Zenon DEF RefOps
<1>1. ASSUME ok = {} PROVE RefOps(v, b, n, h) = <<>>
  <2>1. W = {}
    BY <1>1 DEF RefWritten
  <2>2. Cardinality(W) = 0
    BY <2>1, FS_EmptySet
  <2> HIDE DEF W, at
  <2> QED BY <1>0, <2>2
<1>2. ASSUME NEW j \in ok, \A k \in ok : j <= k
      PROVE  RefOps(v, b, n, h) = <<EntryOf(b, j, h)>>
  <2>1. \A k \in ok : k \in DOMAIN b /\ k \in Int /\ b[k].op # "none" /\ b[k].name = n
    BY DEF RefAccepted
  <2>2. \A k \in ok : k # j => b[k].op = "new" /\ b[j].op = "new"
    BY <2>1 DEF PairedOps
  <2>3. W = {j}
    <3> HIDE DEF ok
    <3> QED BY <1>2, <2>1, <2>2 DEF RefWritten
  <2>4. Cardinality(W) = 1
    BY <2>3, FS_Singleton
  <2>5. {m \in W : m <= j} = W
    BY <2>1, <2>3
  <2> HIDE DEF W, ok
  <2>6. (CHOOSE i \in W : Cardinality({m \in W : m <= i}) = 1) = j
    BY <2>3, <2>4, <2>5
  <2>7. at[1] = j /\ 1..Cardinality(W) = {1}
    BY <2>4, <2>6
  <2>8. RefOps(v, b, n, h) = [k \in {1} |-> [txPos |-> b[at[k]], nHeight |-> h, op |-> b[at[k]].op]]
    BY <1>0, <2>7, Zenon
  <2> HIDE DEF at
  <2> QED BY <2>7, <2>8 DEF EntryOf
<1> QED BY <1>1, <1>2

\* The same, by cases.
LEMMA RefOpsCases ==
    ASSUME NEW v, NEW b \in Seq(Tx), PairedOps(b), NEW n, NEW h
    PROVE  \/ RefAccepted(v, b, n, h) = {} /\ RefOps(v, b, n, h) = <<>>
           \/ \E j \in RefAccepted(v, b, n, h) : RefOps(v, b, n, h) = <<EntryOf(b, j, h)>>
<1> DEFINE ok == RefAccepted(v, b, n, h)
<1>1. /\ ok = {} => RefOps(v, b, n, h) = <<>>
      /\ \A j \in ok : (\A k \in ok : j <= k) => RefOps(v, b, n, h) = <<EntryOf(b, j, h)>>
  BY RefOpsPaired
<1>2. ok \in SUBSET Nat
  BY DEF RefAccepted
<1> HIDE DEF ok
<1>3. CASE ok # {}
  <2>1. PICK j \in ok : \A k \in ok : j <= k
    BY <1>2, <1>3, LeastNumber
  <2> QED BY <1>1, <2>1 DEF ok
<1> QED BY <1>1, <1>3 DEF ok

\* The entries of a history made of blocks up to height h.
HistoryUpTo(v, h) == v \in Seq(CNameIndex) /\ \A k \in 1..Len(v) : v[k].nHeight <= h

\* The histories of a chain have operations of its blocks only.
LEMMA RefTyped ==
    ASSUME NEW c \in Seq(Seq(Tx)), PairedChain(c)
    PROVE  \A n \in Name : HistoryUpTo(RefHistory(c)[n], Len(c))
<1>1. PICK H : IsRef(c, Len(c), H) /\ RefHistory(c) = H[Len(c)]
  BY RefValue
<1> DEFINE T == {h \in 0..Len(c) : ~\A n \in Name : HistoryUpTo(H[h][n], h)}
<1>2. Len(c) \in Nat
  OBVIOUS
<1>3. SUFFICES ASSUME T # {} PROVE FALSE
  <2>1. Len(c) \in 0..Len(c)
    BY <1>2
  <2> QED BY <1>1, <2>1
<1>4. PICK m \in T : \A k \in T : m <= k
  <2>1. T \in SUBSET Nat
    BY <1>2
  <2> HIDE DEF T
  <2> QED BY <1>3, <2>1, LeastNumber
<1>5. m \in 0..Len(c) /\ m \in Nat /\ ~\A n \in Name : HistoryUpTo(H[m][n], m)
  BY <1>2, <1>4
<1>6. H[m] = RefBody(H, c, m)
  BY <1>1, <1>5 DEF IsRef
<1>7. CASE m = 0
  BY <1>5, <1>6, <1>7 DEF RefBody, HistoryUpTo
<1>8. CASE m # 0
  <2>1. m \in 1..Len(c) /\ m - 1 \in 0..Len(c) /\ ~(m <= m - 1) /\ c[m] \in Seq(Tx) /\ PairedOps(c[m])
    BY <1>2, <1>5, <1>8 DEF PairedChain
  <2>2. \A n \in Name : HistoryUpTo(H[m - 1][n], m - 1)
    <3>1. m - 1 \notin T
      <4> HIDE DEF T
      <4> QED BY <1>4, <2>1
    <3> QED BY <2>1, <3>1
  <2>3. ASSUME NEW n \in Name PROVE HistoryUpTo(H[m][n], m)
    <3> DEFINE v == H[m - 1][n]
    <3>1. H[m][n] = v \o RefOps(v, c[m], n, m)
      BY <1>6, <1>8 DEF RefBody
    <3>2. HistoryUpTo(v, m - 1)
      BY <2>2
    <3> HIDE DEF v
    <3>3. v \in Seq(CNameIndex) /\ \A k \in 1..Len(v) : v[k].nHeight <= m
      <4>1. v \in Seq(CNameIndex) /\ \A k \in 1..Len(v) : v[k].nHeight <= m - 1
        BY <3>2 DEF HistoryUpTo
      <4>2. \A k \in 1..Len(v) : v[k] \in CNameIndex
        BY <4>1, ElementOfSeq
      <4>3. \A e \in CNameIndex : e.nHeight \in Nat
        BY DEF CNameIndex
      <4> QED BY <1>5, <4>1, <4>2, <4>3
    <3>4. CASE RefOps(v, c[m], n, m) = <<>>
      BY <3>1, <3>3, <3>4 DEF HistoryUpTo
    <3>5. ASSUME NEW j \in RefAccepted(v, c[m], n, m), RefOps(v, c[m], n, m) = <<EntryOf(c[m], j, m)>>
          PROVE  HistoryUpTo(H[m][n], m)
      <4> DEFINE e == EntryOf(c[m], j, m)
      <4>1. c[m][j] \in Tx
        BY <2>1 DEF RefAccepted
      <4>2. e \in CNameIndex /\ e.nHeight = m
        BY <1>5, <4>1, TxFields DEF EntryOf, CNameIndex
      <4> HIDE DEF e
      <4>3. H[m][n] = v \o <<e>>
        BY <3>1, <3>5 DEF e
      <4> QED BY <1>5, <3>3, <4>2, <4>3 DEF HistoryUpTo
    <3> QED BY <2>1, <3>4, <3>5, RefOpsCases
  <2> QED BY <1>5, <2>3
<1> QED BY <1>7, <1>8

\* The chain without its tip.
Front(c) == SubSeq(c, 1, Len(c) - 1)

\* The tip of a chain adds its operations to the histories of the chain without it.
LEMMA RefFront ==
    ASSUME NEW S, NEW c \in Seq(S), c # <<>>
    PROVE  RefHistory(c) = [n \in Name |-> RefHistory(Front(c))[n]
                                \o RefOps(RefHistory(Front(c))[n], c[Len(c)], n, Len(c))]
<1> DEFINE w == Front(c)
<1>1. Len(c) \in Nat \ {0}
  OBVIOUS
<1>2. w = SubSeq(c, 1, Len(c) - 1)
  BY DEF Front
<1> HIDE DEF w
<1>3. w \in Seq(S) /\ Len(w) = Len(c) - 1 /\ \A i \in 1..Len(w) : w[i] = c[i]
  BY <1>1, <1>2, WithoutLast, Zenon
<1>4. Len(c) = Len(w) + 1 /\ \A i \in 1..Len(w) : c[i] = w[i]
  BY <1>1, <1>3
<1>5. RefHistory(c) = [n \in Name |-> RefHistory(w)[n] \o RefOps(RefHistory(w)[n], c[Len(c)], n, Len(c))]
  BY <1>3, <1>4, RefNext
<1> QED BY <1>5 DEF w

\* The histories of a chain with another block on top.
LEMMA RefAppend ==
    ASSUME NEW S, NEW c \in Seq(S), NEW b \in S, NEW d, d = Append(c, b)
    PROVE  RefHistory(d) = [n \in Name |-> RefHistory(c)[n]
                                \o RefOps(RefHistory(c)[n], b, n, Len(c) + 1)]
<1>1. d \in Seq(S) /\ Len(d) = Len(c) + 1 /\ \A h \in 1..Len(c) : d[h] = c[h]
  OBVIOUS
<1>2. d[Len(d)] = b
  OBVIOUS
<1>3. ASSUME NEW x \in Seq(S), Len(x) = Len(c) + 1, \A h \in 1..Len(c) : x[h] = c[h]
      PROVE  RefHistory(x) = [n \in Name |-> RefHistory(c)[n]
                                    \o RefOps(RefHistory(c)[n], x[Len(x)], n, Len(x))]
  BY <1>3, RefNext
<1>4. RefHistory(d) = [n \in Name |-> RefHistory(c)[n] \o RefOps(RefHistory(c)[n], d[Len(d)], n, Len(d))]
  BY <1>1, <1>3, Zenon
<1> QED BY <1>1, <1>2, <1>4

\* Without blocks no name has a history.
LEMMA RefEmpty == RefHistory(<<>>) = [n \in Name |-> <<>>]
<1>1. <<>> \in Seq(Seq(Tx)) /\ Len(<<>>) = 0 /\ 0 \in 0..0
  OBVIOUS
<1>2. PICK H : IsRef(<<>>, Len(<<>>), H) /\ RefHistory(<<>>) = H[Len(<<>>)]
  BY <1>1, RefValue
<1>3. H[0] = RefBody(H, <<>>, 0)
  BY <1>1, <1>2 DEF IsRef
<1> QED BY <1>1, <1>2, <1>3 DEF RefBody

\* What CheckInputs reads from a record is what the history says.
LEMMA ActiveExact ==
    ASSUME NEW rec, GoodRecord(rec), ~Corrupt(rec), NEW h
    PROVE  NameActive(rec, h) <=> ~RefExpired(rec.vtxPos, h)
<1> DEFINE v == rec.vtxPos
           last == rec.nLastActiveChainIndex
           news == {m \in 1..Len(v) : IsNew(v, m)}
<1>1. CASE Deleted(rec)
  BY <1>1 DEF Deleted, NameActive, RefExpired
<1>2. CASE ~Deleted(rec)
  <2>1. /\ v # <<>> /\ v[Len(v)].op # "delete" /\ v \in Seq(CNameIndex) /\ last \in Nat
        /\ StartsActiveChain(v, last)
    BY <1>2 DEF Deleted, GoodRecord
  <2>2. rec.nExpiresAt = ChainExpiry(SubSeq(v, last + 1, Len(v)), v[last + 1].nHeight)
    BY <1>2 DEF GoodRecord, ExpiryCached, ActiveChain
  <2>3. last < Len(v)
    BY <2>1 DEF Corrupt
  <2>4. RefExpired(v, h) <=> ~(h <= ChainExpiry(SubSeq(v, Max(news), Len(v)), v[Max(news)].nHeight))
    BY <2>1, Zenon DEF RefExpired
  <2>5. NameActive(rec, h) <=> h <= rec.nExpiresAt
    BY <1>2 DEF NameActive
  <2> HIDE DEF v, last
  <2>6. Max(news) = last + 1
    <3>1. last + 1 \in news /\ \A k \in news : k <= last + 1
      BY <2>1, <2>3 DEF StartsActiveChain
    <3>2. Len(v) \in Nat /\ news \in SUBSET (1..Len(v)) /\ news # {}
      BY <2>1, <3>1
    <3> HIDE DEF news
    <3>3. Max(news) \in news /\ \A y \in news : y <= Max(news)
      BY <3>2, LargestPosition
    <3>4. Max(news) \in 1..Len(v)
      BY <3>2, <3>3
    <3>5. Max(news) <= last + 1 /\ last + 1 <= Max(news)
      BY <3>1, <3>3
    <3> DEFINE m == Max(news)
    <3>6. m \in 1..Len(v) /\ m <= last + 1 /\ last + 1 <= m
      BY <3>4, <3>5
    <3> HIDE DEF m
    <3>7. m = last + 1
      BY <2>1, <3>2, <3>6
    <3> QED BY <3>7 DEF m
  <2> HIDE DEF news
  <2> QED BY <2>2, <2>4, <2>5, <2>6 DEF v
<1> QED BY <1>1, <1>2

\* What CheckInputs accepts, by record, is what the history says.
LEMMA AcceptExact ==
    ASSUME NEW rec, GoodRecord(rec), ~Corrupt(rec), NEW h, NEW t \in Tx
    PROVE  CheckInputs(t, rec, h) <=> t.op # "none" /\ RefAccepts(rec.vtxPos, t, h)
<1>1. NameActive(rec, h) <=> ~RefExpired(rec.vtxPos, h)
  BY ActiveExact
<1>2. t.op \in {"new", "update", "delete", "none"}
  BY TxFields DEF Ops
<1>3. NameActive(rec, h) => ~Deleted(rec)
  BY DEF NameActive
<1> QED BY <1>1, <1>2, <1>3 DEF CheckInputs, RefAccepts, SpendsLast

-----------------------------------------------------------------------------
(* A block half applied and half undone.                                   *)

\* How far the operations of block b at height h have come for a name n whose
\* history before the block is r and whose record now has the history v: nothing is
\* written, and the valid operations are in vName; or everything is, and vName has
\* at most further name_new, which will be skipped.
Applied(r, b, h, todo, new, n, v) ==
    \/ /\ v = r /\ n \notin new
       /\ {i \in todo : b[i].name = n} = RefAccepted(r, b, n, h)
    \/ /\ v = r \o RefOps(r, b, n, h)
       /\ \A i \in todo : b[i].name = n => b[i].op = "new" /\ n \in new

\* Undoing the block: its operation on n is undone, if there was one, or its turn
\* is still to come.
Undone(r, b, h, todo, n, v) ==
    \/ v = r
    \/ \E j \in todo : /\ b[j].op # "none" /\ b[j].name = n
                       /\ v = Append(r, EntryOf(b, j, h))

\* The history of a name at the end of a block.
LEMMA AppliedWhole ==
    ASSUME NEW r \in Seq(CNameIndex), NEW b \in Seq(Tx), PairedOps(b), NEW h, NEW todo, todo = {},
           NEW new, NEW n, NEW v, Applied(r, b, h, todo, new, n, v)
    PROVE  v = r \o RefOps(r, b, n, h)
<1>1. CASE v = r /\ RefAccepted(r, b, n, h) = {}
  <2>1. RefOps(r, b, n, h) = <<>>
    BY <1>1, RefOpsPaired
  <2> QED BY <1>1, <2>1
<1> QED BY <1>1 DEF Applied

\* A position that has nothing to do with n, or a name_new that is skipped.
LEMMA AppliedSkip ==
    ASSUME NEW r, NEW b, NEW h, NEW todo, NEW new, NEW n, NEW v, Applied(r, b, h, todo, new, n, v),
           NEW j, NEW more, b[j].name = n => n \in new, n \in more <=> n \in new
    PROVE  Applied(r, b, h, todo \ {j}, more, n, v)
<1>1. CASE v = r /\ n \notin new /\ {i \in todo : b[i].name = n} = RefAccepted(r, b, n, h)
  <2>1. {i \in todo \ {j} : b[i].name = n} = {i \in todo : b[i].name = n}
    BY <1>1
  <2> QED BY <1>1, <2>1 DEF Applied
<1> QED BY <1>1 DEF Applied

\* The next position is written.
LEMMA AppliedWrite ==
    ASSUME NEW r \in Seq(CNameIndex), NEW b \in Seq(Tx), PairedOps(b), NEW h, NEW new, NEW more,
           NEW todo \in SUBSET DOMAIN b, NEW j \in todo, \A k \in todo : j <= k, \A k \in todo : b[k].op # "none",
           NEW n, n = b[j].name, ~(b[j].op = "new" /\ n \in new), b[j].op = "new" => n \in more,
           NEW v, NEW w, Applied(r, b, h, todo, new, n, v), w = Append(v, EntryOf(b, j, h))
    PROVE  Applied(r, b, h, todo \ {j}, more, n, w)
<1> DEFINE ok == RefAccepted(r, b, n, h)
<1>1. v = r /\ {i \in todo : b[i].name = n} = ok
  BY DEF Applied
<1>2. j \in ok /\ \A k \in ok : j <= k
  BY <1>1
<1>3. RefOps(r, b, n, h) = <<EntryOf(b, j, h)>>
  BY <1>2, RefOpsPaired
<1>4. w = r \o RefOps(r, b, n, h)
  <2> DEFINE e == EntryOf(b, j, h)
  <2>1. w = Append(r, e) /\ RefOps(r, b, n, h) = <<e>>
    BY <1>1, <1>3
  <2>2. e \in {e}
    OBVIOUS
  <2> HIDE DEF e
  <2>3. Append(r, e) = r \o <<e>>
    OBVIOUS
  <2> QED BY <2>1, <2>3
<1>5. ASSUME NEW i \in todo \ {j}, b[i].name = n PROVE b[i].op = "new" /\ n \in more
  BY <1>5 DEF PairedOps
<1> QED BY <1>4, <1>5 DEF Applied

\* The block's operation on n before the first one is undone.
LEMMA UndoneStart ==
    ASSUME NEW r \in Seq(CNameIndex), NEW b \in Seq(Tx), PairedOps(b), NEW h, NEW n, NEW v,
           v = r \o RefOps(r, b, n, h)
    PROVE  Undone(r, b, h, DOMAIN b, n, v)
<1>1. CASE RefOps(r, b, n, h) = <<>>
  BY <1>1 DEF Undone
<1>2. ASSUME NEW j \in RefAccepted(r, b, n, h), RefOps(r, b, n, h) = <<EntryOf(b, j, h)>>
      PROVE  Undone(r, b, h, DOMAIN b, n, v)
  <2> DEFINE e == EntryOf(b, j, h)
  <2>1. v = r \o <<e>>
    BY <1>2
  <2> HIDE DEF e
  <2>2. v = Append(r, e)
    BY <2>1
  <2>3. j \in DOMAIN b /\ b[j].op # "none" /\ b[j].name = n
    BY DEF RefAccepted
  <2> QED BY <2>2, <2>3 DEF Undone, e
<1> QED BY <1>1, <1>2, RefOpsCases

\* A transaction that is passed over.
LEMMA UndoneSkip ==
    ASSUME NEW r \in Seq(CNameIndex), NEW b, NEW h, NEW todo, NEW n, NEW v, Undone(r, b, h, todo, n, v), NEW j,
           v = <<>> \/ v[Len(v)].txPos # b[j] \/ b[j].op = "none" \/ b[j].name # n
    PROVE  Undone(r, b, h, todo \ {j}, n, v)
<1>1. ASSUME v = Append(r, EntryOf(b, j, h)) PROVE v # <<>> /\ v[Len(v)].txPos = b[j]
  <2> DEFINE e == EntryOf(b, j, h)
  <2>1. v = Append(r, e) /\ e.txPos = b[j]
    BY <1>1 DEF EntryOf
  <2> HIDE DEF e
  <2>2. v # <<>> /\ v[Len(v)] = e
    BY <2>1
  <2> QED BY <2>1, <2>2
<1> QED BY <1>1 DEF Undone

\* The block's operation on n is undone.
LEMMA UndonePop ==
    ASSUME NEW h \in Nat, NEW r, HistoryUpTo(r, h - 1), NEW b, NEW todo, NEW n,
           NEW v \in Seq(CNameIndex), v # <<>>, Undone(r, b, h, todo, n, v),
           v[Len(v)].nHeight = h, NEW w, w = SubSeq(v, 1, Len(v) - 1)
    PROVE  w = r
<1>0. r \in Seq(CNameIndex) /\ \A k \in 1..Len(r) : r[k].nHeight <= h - 1
  BY DEF HistoryUpTo
<1>1. v # r
  <2> SUFFICES ASSUME v = r PROVE FALSE
    OBVIOUS
  <2>1. Len(v) \in 1..Len(v)
    OBVIOUS
  <2>2. v[Len(v)].nHeight <= h - 1
    BY <1>0, <2>1
  <2> QED BY <2>2
<1>2. PICK j \in todo : v = Append(r, EntryOf(b, j, h))
  BY <1>1 DEF Undone
<1> DEFINE e == EntryOf(b, j, h)
<1>3. v = Append(r, e)
  BY <1>2
<1> HIDE DEF e
<1>4. Len(v) = Len(r) + 1 /\ Len(r) \in Nat /\ \A i \in 1..Len(r) : v[i] = r[i]
  BY <1>0, <1>3
<1>5. w \in Seq(CNameIndex) /\ Len(w) = Len(v) - 1 /\ \A i \in 1..Len(w) : w[i] = v[i]
  <2>1. Len(v) \in Nat \ {0}
    BY <1>4
  <2> QED BY <2>1, WithoutLast, Zenon
<1> QED BY <1>0, <1>4, <1>5, SeqEqual

\* The histories of index db while job jb applies a block to the histories R.
Applying(R, jb, db) ==
    \A n \in Name : Applied(R[n], jb.blk, jb.nHeight, jb.todo, jb.sNameNew, n, db[n].vtxPos)

\* The move of a name from the address it is listed under succeeds.
LEMMA MoveSucceeds ==
    ASSUME IInv, ListingExact, NEW n \in Name, NEW new \in Addr \cup {NoAddr}
    PROVE  MoveNameOK(addrDB, LastAddr(nameDB[n]), new, n)
<1> DEFINE f == [m \in Name |-> LastAddr(nameDB[m])]
<1>1. \A m \in Name : nameDB[m].vtxPos \in Seq(CNameIndex)
  BY DEF IInv, TypeOK
<1>2. \A m \in Name, a \in Addr : ListedAddress(nameDB[m].vtxPos, a) <=> f[m] = a
  BY <1>1, ListedAt
<1>3. f[n] = LastAddr(nameDB[n]) /\ f[n] \in Addr \cup {NoAddr}
  BY <1>1, AddrOf
<1> HIDE DEF f
<1>4. addrDB = [a \in Addr |-> {m \in Name : f[m] = a}]
  <2>1. \A a \in Addr : {m \in Name : ListedAddress(nameDB[m].vtxPos, a)} = {m \in Name : f[m] = a}
    BY <1>2
  <2> QED BY <2>1 DEF ListingExact
<1>5. MoveNameOK(addrDB, f[n], new, n)
  BY <1>3, <1>4, MoveExact
<1> QED BY <1>3, <1>5

\* An operation that is written is appended to the history, if nothing is pruned.
LEMMA WriteAppends ==
    ASSUME IInv, job.phase \in {"connect", "rebuild"}, job.todo # {}, Short',
           NEW j, j = NextUp(job.todo), NEW t, t = job.blk[j], ~SecondNew(t), WriteOperation(t)
    PROVE  nameDB'[t.name].vtxPos = Append(nameDB[t.name].vtxPos, EntryOf(job.blk, j, job.nHeight))
<1>1. j \in job.todo /\ j \in DOMAIN job.blk /\ t \in Tx
  BY WriteGood
<1>2. t.name \in Name /\ t.op \in Ops /\ job.nHeight \in Nat /\ DOMAIN nameDB = Name
  BY <1>1, TxFields DEF IInv, TypeOK, JobType
<1> DEFINE e == EntryOf(job.blk, j, job.nHeight)
           rec == nameDB[t.name]
           v == rec.vtxPos
           w == nameDB'[t.name].vtxPos
<1>3. e = [txPos |-> t, nHeight |-> job.nHeight, op |-> t.op]
  BY DEF EntryOf
<1>4. e \in CNameIndex /\ e.op = t.op /\ e.nHeight = job.nHeight
  BY <1>1, <1>2, <1>3 DEF CNameIndex
<1>5. GoodRecord(rec) /\ v \in Seq(CNameIndex) /\ Len(w) < MaxSize
  BY <1>2 DEF IInv, RecordsGood, GoodRecord, Short
<1>6. /\ ~Corrupt(rec) /\ (t.op # "new" => v # <<>>)
      /\ (t.op = "new" /\ t.name \notin job.sNameNew) => ~NameActive(rec, job.nHeight)
  BY <1>1 DEF IInv, VNameValid
<1>7. nameDB'[t.name] = PushOperation(rec, e)
  BY <1>2, <1>3 DEF WriteOperation
<1> HIDE DEF e
<1>8. MayPush(rec, e)
  BY <1>4, <1>6 DEF MayPush, SecondNew
<1> HIDE DEF rec
<1>9. Pushed(Append(v, e), w, e)
  BY <1>4, <1>5, <1>7, <1>8, PushedHistory
<1>10. w \in Seq(CNameIndex)
  BY <1>9 DEF Pushed
<1> HIDE DEF v, w
<1>11. Len(w) = Len(v) + 1 /\ w[Len(v) + 1] = e /\ \A k \in 1..Len(v) : w[k] = v[k]
  BY <1>4, <1>5, <1>9, PushedWhole
<1>12. w = Append(v, e)
  <2> DEFINE x == Append(v, e)
  <2>1. x \in Seq(CNameIndex) /\ Len(x) = Len(v) + 1 /\ x[Len(v) + 1] = e
        /\ \A k \in 1..Len(v) : x[k] = v[k]
    BY <1>4, <1>5
  <2> HIDE DEF x
  <2>2. Len(w) = Len(x) /\ \A k \in 1..Len(w) : w[k] = x[k]
    BY <1>5, <1>11, <2>1
  <2>3. w = x
    BY <1>10, <2>1, <2>2, SeqEqual
  <2> QED BY <2>3 DEF x
<1> QED BY <1>12 DEF v, w, e, rec

\* One round of the hook's loop.
LEMMA ConnectNameApplied ==
    ASSUME IInv, Short', OwnInv, Listed, ConnectName,
           NEW R, \A n \in Name : R[n] \in Seq(CNameIndex), Applying(R, job, nameDB)
    PROVE  Applying(R, job', nameDB') /\ job'.blk = job.blk /\ job'.nHeight = job.nHeight
<1> DEFINE j == NextUp(job.todo)
           t == job.blk[j]
           old == job.prev[j]
<1>0. /\ job.phase \in {"connect", "rebuild"} /\ job.todo # {} /\ Connecting
  BY DEF ConnectName, Connecting
<1>1. /\ job \in JobType /\ PairedOps(job.blk) /\ ListingExact
      /\ job.todo \in SUBSET DOMAIN job.blk /\ DOMAIN nameDB = Name
  BY DEF IInv, TypeOK, OwnInv
<1>2. job.blk \in Seq(Tx) /\ job.nHeight \in Nat
  BY <1>1 DEF JobType
<1>3. j \in job.todo /\ \A k \in job.todo : j <= k
  <2>1. job.todo \in SUBSET (1..Len(job.blk)) /\ Len(job.blk) \in Nat
    BY <1>1, <1>2
  <2> QED BY <1>0, <2>1, NextUpOf, Zenon
<1>4. \A k \in job.todo : job.blk[k].op # "none"
  BY <1>0 DEF IInv, VNameValid
<1>5. t \in Tx /\ t.name \in Name
  BY <1>1, <1>2, <1>3, TxFields
<1>6. CASE SecondNew(t) /\ job' = [job EXCEPT !.todo = @ \ {j}] /\ UNCHANGED dbVars
  <2>1. /\ job'.todo = job.todo \ {j} /\ job'.blk = job.blk /\ job'.nHeight = job.nHeight
        /\ job'.sNameNew = job.sNameNew /\ nameDB' = nameDB
    BY <1>1, <1>6 DEF JobType, dbVars
  <2>2. t.name \in job.sNameNew
    BY <1>6 DEF SecondNew
  <2>3. ASSUME NEW n \in Name
        PROVE  Applied(R[n], job.blk, job.nHeight, job.todo \ {j}, job.sNameNew, n, nameDB[n].vtxPos)
    <3>1. Applied(R[n], job.blk, job.nHeight, job.todo, job.sNameNew, n, nameDB[n].vtxPos)
      BY DEF Applying
    <3>2. job.blk[j].name = n => n \in job.sNameNew
      BY <2>2
    <3> HIDE DEF j
    <3> QED BY <3>1, <3>2, AppliedSkip
  <2> QED BY <2>1, <2>3 DEF Applying
<1>7. CASE /\ ~SecondNew(t) /\ WriteOperation(t)
           /\ job' = [job EXCEPT
                        !.todo = IF MoveNameOK(addrDB, old, NewAddr(t), t.name) THEN @ \ {j} ELSE {},
                        !.sNameNew = IF t.op = "new" THEN @ \cup {t.name} ELSE @]
  <2> DEFINE more == IF t.op = "new" THEN job.sNameNew \cup {t.name} ELSE job.sNameNew
  <2>1. old = LastAddr(nameDB[t.name])
    BY <1>0, <1>7, WriteOwned
  <2>2. MoveNameOK(addrDB, old, NewAddr(t), t.name)
    BY <1>1, <1>5, <2>1, AddrOf, MoveSucceeds
  <2>3. /\ job'.todo = job.todo \ {j} /\ job'.blk = job.blk /\ job'.nHeight = job.nHeight
        /\ job'.sNameNew = more
    BY <1>1, <1>7, <2>2 DEF JobType
  <2>4. nameDB'[t.name].vtxPos = Append(nameDB[t.name].vtxPos, EntryOf(job.blk, j, job.nHeight))
    BY <1>0, <1>7, WriteAppends
  <2>5. \A n \in Name : n # t.name => nameDB'[n] = nameDB[n]
    BY <1>0, <1>7, WriteGood
  <2>6. ~(job.blk[j].op = "new" /\ t.name \in job.sNameNew) /\ (job.blk[j].op = "new" => t.name \in more)
    BY <1>7 DEF SecondNew
  <2>7. \A n \in Name : n # t.name => (n \in more <=> n \in job.sNameNew)
    OBVIOUS
  <2>8. \A n \in Name : Applied(R[n], job.blk, job.nHeight, job.todo, job.sNameNew, n, nameDB[n].vtxPos)
    BY DEF Applying
  <2>9. t.name = job.blk[j].name
    OBVIOUS
  <2> HIDE DEF more, t, j
  <2>10. Applied(R[t.name], job.blk, job.nHeight, job.todo \ {j}, more, t.name, nameDB'[t.name].vtxPos)
    <3> DEFINE v == nameDB[t.name].vtxPos
               w == nameDB'[t.name].vtxPos
    <3>1. /\ R[t.name] \in Seq(CNameIndex) /\ w = Append(v, EntryOf(job.blk, j, job.nHeight))
          /\ Applied(R[t.name], job.blk, job.nHeight, job.todo, job.sNameNew, t.name, v)
      BY <1>5, <2>4, <2>8
    <3> HIDE DEF v, w
    <3>2. Applied(R[t.name], job.blk, job.nHeight, job.todo \ {j}, more, t.name, w)
      BY <1>1, <1>2, <1>3, <1>4, <2>6, <2>9, <3>1, AppliedWrite
    <3> QED BY <3>2 DEF w
  <2>11. ASSUME NEW n \in Name, n # t.name
         PROVE  Applied(R[n], job.blk, job.nHeight, job.todo \ {j}, more, n, nameDB'[n].vtxPos)
    <3>1. Applied(R[n], job.blk, job.nHeight, job.todo \ {j}, more, n, nameDB[n].vtxPos)
      BY <2>7, <2>8, <2>9, <2>11, AppliedSkip
    <3> QED BY <2>5, <2>11, <3>1
  <2> QED BY <2>3, <2>10, <2>11 DEF Applying
<1> QED BY <1>6, <1>7 DEF ConnectName, WriteOperation

-----------------------------------------------------------------------------
(* The histories of the chain, block by block.                             *)

\* The histories of index db are R.
Histories(R, db) == \A n \in Name : db[n].vtxPos = R[n]

\* The same while job jb undoes the block at height h on top of the histories R.
Undoing(R, h, jb, db) == \A n \in Name : Undone(R[n], jb.blk, h, jb.todo, n, db[n].vtxPos)

\* The blocks of c up to height h.
UpTo(c, h) == SubSeq(c, 1, h)

\* No coinbase or coinstake carries a name operation.
NoGenerated == \A t \in Tx : t.generated => t.op = "none"

\* The histories are those of the chain: before the first crash, and in a rebuild
\* those of the part of the chain that it has gone through.
HistoryInv ==
    /\ restarts = 0 =>
        /\ job.phase = "idle" => Histories(RefHistory(chain), nameDB)
        /\ job.phase = "connect" => Applying(RefHistory(chain), job, nameDB)
        /\ job.phase = "disconnect" => Undoing(RefHistory(Front(chain)), Len(chain), job, nameDB)
    /\ NoGenerated /\ job.phase = "rebuild" =>
        /\ job.nHeight <= Len(chain)
        /\ job.nHeight = 0 => job.todo = {} /\ Histories(RefHistory(<<>>), nameDB)
        /\ job.nHeight # 0 => /\ job.blk = chain[job.nHeight]
                              /\ Applying(RefHistory(UpTo(chain, job.nHeight - 1)), job, nameDB)

\* The chain up to a height.
LEMMA UpToOf ==
    ASSUME NEW S, NEW c \in Seq(S), NEW h \in 0..Len(c)
    PROVE  /\ UpTo(c, h) \in Seq(S) /\ Len(UpTo(c, h)) = h
           /\ \A i \in 1..h : UpTo(c, h)[i] = c[i]
<1>1. \A i \in 1..h : c[i] \in S
  BY ElementOfSeq
<1>2. h \in Nat
  OBVIOUS
<1>3. /\ SubSeq(c, 1, h) \in Seq(S)
      /\ Len(SubSeq(c, 1, h)) = IF 1 <= h THEN h - 1 + 1 ELSE 0
      /\ \A i \in 1..(h - 1 + 1) : SubSeq(c, 1, h)[i] = c[1 + i - 1]
  BY <1>1, <1>2, SubSeqProperties
<1> DEFINE u == SubSeq(c, 1, h)
<1>4. /\ u \in Seq(S) /\ Len(u) = (IF 1 <= h THEN h - 1 + 1 ELSE 0)
      /\ \A i \in 1..(h - 1 + 1) : u[i] = c[1 + i - 1]
  BY <1>3
<1> HIDE DEF u
<1>5. Len(u) = h /\ \A i \in 1..h : u[i] = c[i]
  BY <1>2, <1>4
<1> QED BY <1>4, <1>5 DEF u, UpTo

\* Nothing of a chain, and all of it.
LEMMA UpToEnds ==
    ASSUME NEW S, NEW c \in Seq(S)
    PROVE  UpTo(c, 0) = <<>> /\ UpTo(c, Len(c)) = c
<1> DEFINE u == UpTo(c, Len(c))
           z == UpTo(c, 0)
<1>1. 0 \in 0..Len(c) /\ Len(c) \in 0..Len(c)
  OBVIOUS
<1>2. u \in Seq(S) /\ Len(u) = Len(c) /\ \A i \in 1..Len(c) : u[i] = c[i]
  BY <1>1, UpToOf
<1>3. z \in Seq(S) /\ Len(z) = 0
  BY <1>1, UpToOf
<1> HIDE DEF u, z
<1>4. u = c
  BY <1>2, SeqEqual
<1>5. z = <<>>
  BY <1>3
<1> QED BY <1>4, <1>5 DEF u, z

\* The next block of a chain adds its operations.
LEMMA RefUpTo ==
    ASSUME NEW S, NEW c \in Seq(S), NEW h \in 1..Len(c)
    PROVE  RefHistory(UpTo(c, h)) = [n \in Name |-> RefHistory(UpTo(c, h - 1))[n]
                                        \o RefOps(RefHistory(UpTo(c, h - 1))[n], c[h], n, h)]
<1> DEFINE d == UpTo(c, h)
           w == UpTo(c, h - 1)
<1>1. h \in 0..Len(c) /\ h - 1 \in 0..Len(c) /\ h \in 1..h
  OBVIOUS
<1>2. d \in Seq(S) /\ Len(d) = h /\ \A i \in 1..h : d[i] = c[i]
  BY <1>1, UpToOf
<1>3. w \in Seq(S) /\ Len(w) = h - 1 /\ \A i \in 1..(h - 1) : w[i] = c[i]
  BY <1>1, UpToOf
<1> HIDE DEF d, w
<1>4. Len(d) = Len(w) + 1 /\ (\A i \in 1..Len(w) : d[i] = w[i]) /\ d[Len(d)] = c[h]
  BY <1>1, <1>2, <1>3
<1>5. ASSUME NEW x \in Seq(S), NEW y \in Seq(S), Len(y) = Len(x) + 1, \A i \in 1..Len(x) : y[i] = x[i]
      PROVE  RefHistory(y) = [n \in Name |-> RefHistory(x)[n]
                                    \o RefOps(RefHistory(x)[n], y[Len(y)], n, Len(y))]
  BY <1>5, RefNext
<1>6. RefHistory(d) = [n \in Name |-> RefHistory(w)[n] \o RefOps(RefHistory(w)[n], d[Len(d)], n, Len(d))]
  BY <1>2, <1>3, <1>4, <1>5, Zenon
<1> QED BY <1>2, <1>4, <1>6 DEF d, w

\* ConnectBlock and createNameIndexes begin a block.
LEMMA CollectApplied ==
    ASSUME IInv, NEW p \in Phases, NEW blk \in Seq(Tx), NEW h, CollectNames(p, blk, h), job'.phase # "assert",
           p = "rebuild" => NoGenerated, NEW R, Histories(R, nameDB), nameDB' = nameDB
    PROVE  Applying(R, job', nameDB') /\ job'.blk = blk /\ job'.nHeight = h /\ job'.phase = p
<1> DEFINE todo == {i \in Candidates(p, blk) : CheckInputs(blk[i], nameDB[blk[i].name], h)}
           prev == [i \in DOMAIN blk |-> LastAddr(nameDB[blk[i].name])]
<1>1. job' = Job(p, blk, h, todo, prev)
      /\ \A i \in Candidates(p, blk) : blk[i].op # "none" => ~Corrupt(nameDB[blk[i].name])
  <2>1. job' # NoJob("assert")
    BY DEF NoJob, Job
  <2> QED BY <2>1, Zenon DEF CollectNames
<1>2. job'.blk = blk /\ job'.nHeight = h /\ job'.phase = p /\ job'.todo = todo /\ job'.sNameNew = {}
  BY <1>1 DEF Job
<1>3. \A i \in DOMAIN blk : blk[i].op # "none" => i \in Candidates(p, blk)
  BY DEF Candidates, NoGenerated
<1>4. \A i \in Candidates(p, blk) : i \in DOMAIN blk
  BY DEF Candidates
<1>5. ASSUME NEW n \in Name, NEW i \in DOMAIN blk, blk[i].name = n
      PROVE  i \in todo <=> blk[i].op # "none" /\ RefAccepts(R[n], blk[i], h)
  <2>1. blk[i] \in Tx /\ GoodRecord(nameDB[n]) /\ nameDB[n].vtxPos = R[n]
    BY DEF IInv, RecordsGood, Histories
  <2>2. CASE blk[i].op # "none"
    <3>1. i \in Candidates(p, blk) /\ ~Corrupt(nameDB[n])
      BY <1>1, <1>3, <1>5, <2>2
    <3>2. CheckInputs(blk[i], nameDB[n], h) <=> blk[i].op # "none" /\ RefAccepts(R[n], blk[i], h)
      BY <2>1, <3>1, AcceptExact
    <3> QED BY <1>5, <3>1, <3>2
  <2>3. CASE blk[i].op = "none"
    BY <2>3 DEF CheckInputs
  <2> QED BY <2>2, <2>3
<1> HIDE DEF todo
<1>6. ASSUME NEW n \in Name PROVE {i \in todo : blk[i].name = n} = RefAccepted(R[n], blk, n, h)
  <2>1. todo \subseteq DOMAIN blk
    BY <1>4 DEF todo
  <2> QED BY <1>5, <2>1 DEF RefAccepted
<1>7. ASSUME NEW n \in Name PROVE Applied(R[n], blk, h, todo, {}, n, nameDB[n].vtxPos)
  BY <1>6 DEF Applied, Histories
<1> QED BY <1>2, <1>7 DEF Applying

\* The end of a block.
LEMMA AppliedAll ==
    ASSUME NEW R, \A n \in Name : R[n] \in Seq(CNameIndex), NEW jb, jb.todo = {},
           jb.blk \in Seq(Tx), PairedOps(jb.blk), NEW db, Applying(R, jb, db),
           NEW Q, Q = [n \in Name |-> R[n] \o RefOps(R[n], jb.blk, n, jb.nHeight)]
    PROVE  Histories(Q, db)
<1> SUFFICES ASSUME NEW n \in Name PROVE db[n].vtxPos = Q[n]
  BY DEF Histories
<1>1. Applied(R[n], jb.blk, jb.nHeight, jb.todo, jb.sNameNew, n, db[n].vtxPos) /\ R[n] \in Seq(CNameIndex)
  BY DEF Applying
<1>2. db[n].vtxPos = R[n] \o RefOps(R[n], jb.blk, n, jb.nHeight)
  <2> DEFINE r == R[n]
             b == jb.blk
             h == jb.nHeight
             todo == jb.todo
             new == jb.sNameNew
             v == db[n].vtxPos
  <2>1. /\ r \in Seq(CNameIndex) /\ b \in Seq(Tx) /\ PairedOps(b) /\ todo = {}
        /\ Applied(r, b, h, todo, new, n, v)
    BY <1>1
  <2> HIDE DEF r, b, h, todo, new, v
  <2>2. v = r \o RefOps(r, b, n, h)
    BY <2>1, AppliedWhole
  <2> QED BY <2>2 DEF r, b, h, v
<1> QED BY <1>2

\* DisconnectInputs of one transaction.
LEMMA DisconnectNameUndone ==
    ASSUME IInv, PlaceInv, PlaceInv', restarts = 0, DisconnectName,
           NEW R, \A n \in Name : HistoryUpTo(R[n], Len(chain) - 1), Undoing(R, Len(chain), job, nameDB)
    PROVE  Undoing(R, Len(chain), job', nameDB')
<1> DEFINE j == NextDown(job.todo)
           t == job.blk[j]
           rec == nameDB[t.name]
           v == rec.vtxPos
           next == [job EXCEPT !.todo = @ \ {j}]
           N == Len(chain)
<1>0. /\ job.phase = "disconnect" /\ job.todo # {} /\ restarts' = 0 /\ Placed
  <2>1. job.phase = "disconnect" /\ job.todo # {} /\ restarts' = restarts
    BY Zenon DEF DisconnectName
  <2> QED BY <2>1 DEF PlaceInv
<1>1. /\ job \in JobType /\ DOMAIN nameDB = Name /\ job.todo \subseteq DOMAIN job.blk
      /\ \A n \in Name : nameDB[n].vtxPos \in Seq(CNameIndex)
  BY DEF IInv, TypeOK
<1>2. /\ t.name \in Name /\ \A n \in Name : R[n] \in Seq(CNameIndex)
  BY <1>0, UndoneTx, TxFields DEF HistoryUpTo
<1>3. job' # NoJob("assert")
  BY <1>0 DEF PlaceInv, NoJob, Job
<1>4. \A n \in Name : Undone(R[n], job.blk, N, job.todo, n, nameDB[n].vtxPos)
  BY DEF Undoing
<1>5. ASSUME job' = next PROVE job'.blk = job.blk /\ job'.todo = job.todo \ {j}
  BY <1>1, <1>5 DEF JobType
\* The transaction has no operation in the index.
<1>6. ASSUME job' = next, \A n \in Name : nameDB'[n].vtxPos = nameDB[n].vtxPos,
             v = <<>> \/ v[Len(v)].txPos # t \/ t.op = "none"
      PROVE  Undoing(R, N, job', nameDB')
  <2>1. ASSUME NEW n \in Name PROVE Undone(R[n], job.blk, N, job.todo \ {j}, n, nameDB[n].vtxPos)
    <3> DEFINE w == nameDB[n].vtxPos
    <3>1. w = <<>> \/ w[Len(w)].txPos # job.blk[j] \/ job.blk[j].op = "none" \/ job.blk[j].name # n
      BY <1>6
    <3>2. R[n] \in Seq(CNameIndex) /\ Undone(R[n], job.blk, N, job.todo, n, w)
      BY <1>2, <1>4
    <3> HIDE DEF w, j, N
    <3>3. Undone(R[n], job.blk, N, job.todo \ {j}, n, w)
      BY <3>1, <3>2, UndoneSkip
    <3> QED BY <3>3 DEF w
  <2> QED BY <1>5, <1>6, <2>1 DEF Undoing
<1>7. CASE (t.op = "none" \/ t.name \notin inDB) /\ job' = next /\ UNCHANGED dbVars
  <2>1. t.op = "none" \/ v = <<>>
    BY <1>0, <1>2, <1>7 DEF Placed
  <2>2. nameDB' = nameDB
    BY <1>7 DEF dbVars
  <2> QED BY <1>6, <1>7, <2>1, <2>2
<1>8. CASE v = <<>> /\ nameDB' = [nameDB EXCEPT ![t.name] = EmptyRecord] /\ job' = next
  <2>1. \A n \in Name : nameDB'[n].vtxPos = nameDB[n].vtxPos
    BY <1>1, <1>8 DEF EmptyRecord
  <2> QED BY <1>6, <1>8, <2>1
<1>9. CASE v # <<>> /\ v[Len(v)].txPos # t /\ UNCHANGED dbVars /\ job' = next
  BY <1>6, <1>9 DEF dbVars
<1>10. ASSUME v # <<>>, v[Len(v)].txPos = t, job' = next, NEW g,
              nameDB' = [nameDB EXCEPT ![t.name] = PopOperation(rec, g)]
       PROVE  Undoing(R, N, job', nameDB')
  <2>1. nameDB'[t.name].vtxPos = SubSeq(v, 1, Len(v) - 1) /\ \A n \in Name : n # t.name => nameDB'[n] = nameDB[n]
    BY <1>1, <1>2, <1>10 DEF PopOperation, CalculateExpiresAt
  <2>2. v \in Seq(CNameIndex) /\ Len(v) \in 1..Len(v)
    BY <1>1, <1>2, <1>10
  <2>3. v[Len(v)].nHeight = N
    <3>1. chain \in Seq(Seq(Tx)) /\ chain # <<>> /\ job.blk = chain[Len(chain)]
      BY <1>0 DEF IInv, TypeOK, Placed
    <3>2. N \in 1..N /\ Top = N
      BY <1>0, <3>1 DEF Top
    <3>3. Distinct(BlockAt) /\ Top \in DOMAIN BlockAt /\ BlockAt[Top] = job.blk
      BY <1>0, <3>1, <3>2, Positions DEF Placed
    <3>4. InChain(BlockAt, Top, Written, t.name, v[Len(v)])
      BY <1>0, <1>2, <2>2 DEF Placed, Chronicle
    <3>5. /\ v[Len(v)].nHeight \in DOMAIN BlockAt
          /\ \E i \in 1..Len(BlockAt[v[Len(v)].nHeight]) : BlockAt[v[Len(v)].nHeight][i] = t
      BY <1>10, <3>4 DEF InChain
    <3>6. job.blk \in Seq(Tx) /\ j \in 1..Len(job.blk)
      <4>1. job.blk \in Seq(Tx)
        BY <1>1 DEF JobType
      <4>2. job.todo \in SUBSET (1..Len(job.blk)) /\ Len(job.blk) \in Nat
        BY <1>1, <4>1
      <4>3. j \in job.todo
        BY <1>0, <4>2, NextDownOf
      <4> HIDE DEF j
      <4> QED BY <4>1, <4>2, <4>3
    <3>7. BlockAt[Top][j] = t /\ j \in 1..Len(BlockAt[Top])
      BY <3>3, <3>6
    <3> HIDE DEF j, t, v, N
    <3>8. v[Len(v)].nHeight = Top
      BY <3>3, <3>5, <3>7, Zenon DEF Distinct
    <3> QED BY <3>2, <3>8
  <2>4. nameDB'[t.name].vtxPos = R[t.name]
    <3> DEFINE w == nameDB'[t.name].vtxPos
               r == R[t.name]
    <3>1. /\ w = SubSeq(v, 1, Len(v) - 1) /\ HistoryUpTo(r, N - 1) /\ v # <<>>
          /\ Undone(r, job.blk, N, job.todo, t.name, v)
      BY <1>2, <1>4, <1>10, <2>1
    <3>2. N \in Nat
      BY DEF IInv, TypeOK
    <3> HIDE DEF w, r, v, N, t
    <3>3. w = r
      BY <2>2, <2>3, <3>1, <3>2, UndonePop
    <3> QED BY <3>3 DEF w, r
  <2>5. ASSUME NEW n \in Name, n # t.name
        PROVE  Undone(R[n], job.blk, N, job.todo \ {j}, n, nameDB[n].vtxPos)
    <3> DEFINE w == nameDB[n].vtxPos
    <3>1. job.blk[j].name # n
      BY <2>5
    <3>2. R[n] \in Seq(CNameIndex) /\ Undone(R[n], job.blk, N, job.todo, n, w)
      BY <1>2, <1>4
    <3> HIDE DEF w, j, N
    <3>3. Undone(R[n], job.blk, N, job.todo \ {j}, n, w)
      BY <3>1, <3>2, UndoneSkip
    <3> QED BY <3>3 DEF w
  <2>6. Undone(R[t.name], job.blk, N, job.todo \ {j}, t.name, nameDB'[t.name].vtxPos)
    BY <2>4 DEF Undone
  <2>7. job'.blk = job.blk /\ job'.todo = job.todo \ {j}
    BY <1>5, <1>10
  <2> HIDE DEF t, j, N
  <2>8. ASSUME NEW n \in Name PROVE Undone(R[n], job.blk, N, job.todo \ {j}, n, nameDB'[n].vtxPos)
    <3>1. CASE n = t.name
      BY <2>6, <3>1
    <3>2. CASE n # t.name
      BY <2>1, <2>5, <3>2
    <3> QED BY <3>1, <3>2
  <2> QED BY <2>7, <2>8 DEF Undoing
<1> HIDE DEF t, v, rec, next
<1>11. \/ (t.op = "none" \/ t.name \notin inDB) /\ job' = next /\ UNCHANGED dbVars
       \/ job' = NoJob("assert")
       \/ v = <<>> /\ nameDB' = [nameDB EXCEPT ![t.name] = EmptyRecord] /\ job' = next
       \/ v # <<>> /\ v[Len(v)].txPos # t /\ UNCHANGED dbVars /\ job' = next
       \/ /\ v # <<>> /\ v[Len(v)].txPos = t /\ job' = next
          /\ \E g \in Garbage : nameDB' = [nameDB EXCEPT ![t.name] = PopOperation(rec, g)]
  <2> DEFINE old == \E k \in DOMAIN v : v[k].txPos = t
  <2>1. \/ (t.op = "none" \/ t.name \notin inDB) /\ job' = next /\ UNCHANGED dbVars
        \/ job' = NoJob("assert")
        \/ v = <<>> /\ nameDB' = [nameDB EXCEPT ![t.name] = EmptyRecord] /\ job' = next
        \/ v # <<>> /\ v[Len(v)].txPos # t /\ UNCHANGED dbVars /\ job' = IF old THEN NoJob("assert") ELSE next
        \/ /\ v # <<>> /\ v[Len(v)].txPos = t /\ job' = next
           /\ \E g \in Garbage : nameDB' = [nameDB EXCEPT ![t.name] = PopOperation(rec, g)]
    BY Zenon DEF DisconnectName, next, t, v, rec
  <2> HIDE DEF old
  <2> QED BY <2>1, Zenon
<1> QED BY <1>3, <1>7, <1>8, <1>9, <1>10, <1>11

\* The histories the chain defines are histories.
LEMMA RefSeq ==
    ASSUME NEW c \in Seq(Seq(Tx)), PairedChain(c)
    PROVE  \A n \in Name : RefHistory(c)[n] \in Seq(CNameIndex)
BY RefTyped DEF HistoryUpTo

\* ConnectBlock, from its begin to its end.
LEMMA ConnectHistory ==
    ASSUME IInv, IInv', Short', OwnInv, PlaceInv, PlaceInv', HistoryInv, restarts' = 0,
           (\E b \in Blocks : BeginConnect(b)) \/ (ConnectName /\ job.phase = "connect") \/ EndConnect
    PROVE  HistoryInv'
<1>0. /\ restarts = 0 /\ chain \in Seq(Seq(Tx)) /\ PairedChain(chain) /\ job'.phase \notin {"assert", "rebuild"}
  BY DEF BeginConnect, ConnectName, EndConnect, OwnInv, IInv, TypeOK, PlaceInv
<1> DEFINE R == RefHistory(chain)
<1>1. \A n \in Name : R[n] \in Seq(CNameIndex)
  BY <1>0, RefSeq
<1>2. ASSUME NEW b \in Blocks, BeginConnect(b) PROVE HistoryInv'
  <2>1. /\ job.phase = "idle" /\ CollectNames("connect", b, Len(chain) + 1) /\ chain' = chain /\ nameDB' = nameDB
    BY <1>2 DEF BeginConnect, Idle
  <2>2. b \in Seq(Tx) /\ Histories(R, nameDB) /\ "connect" \in Phases
    BY <1>0, <2>1, TxAssumption DEF HistoryInv, Phases
  <2> HIDE DEF R
  <2>3. Applying(R, job', nameDB') /\ job'.phase = "connect"
    BY <1>0, <2>1, <2>2, CollectApplied
  <2> QED BY <2>1, <2>3 DEF HistoryInv, R
<1>3. CASE ConnectName /\ job.phase = "connect"
  <2>1. Applying(R, job, nameDB) /\ Listed
    BY <1>0, <1>3 DEF HistoryInv, Listed
  <2>2. chain' = chain /\ job'.phase = "connect"
    <3>1. job \in JobType
      BY DEF IInv, TypeOK
    <3>2. chain' = chain
      BY <1>3 DEF ConnectName
    <3>3. \/ \E todo : job' = [job EXCEPT !.todo = todo]
          \/ \E todo, names : job' = [job EXCEPT !.todo = todo, !.sNameNew = names]
      BY <1>3, Zenon DEF ConnectName
    <3>4. job'.phase = job.phase
      BY <3>1, <3>3 DEF JobType
    <3> QED BY <1>3, <3>2, <3>4
  <2> HIDE DEF R
  <2>3. Applying(R, job', nameDB')
    BY <1>1, <1>3, <2>1, ConnectNameApplied
  <2> QED BY <2>2, <2>3 DEF HistoryInv, R
<1>4. CASE EndConnect
  <2>1. /\ job.phase = "connect" /\ job.todo = {} /\ chain' = Append(chain, job.blk)
        /\ job' = NoJob("idle") /\ nameDB' = nameDB
    BY <1>4 DEF EndConnect, dbVars
  <2>2. job.blk \in Seq(Tx) /\ PairedOps(job.blk) /\ Applying(R, job, nameDB) /\ job.nHeight = Len(chain) + 1
    <3>1. job.blk \in Seq(Tx)
      BY DEF IInv, TypeOK, JobType
    <3>2. job.nHeight = Top
      BY <1>0, <2>1 DEF PlaceInv, Placed
    <3> QED BY <1>0, <2>1, <3>1, <3>2 DEF OwnInv, HistoryInv, Top
  <2> DEFINE Q == RefHistory(chain')
  <2>3. Q = [n \in Name |-> R[n] \o RefOps(R[n], job.blk, n, job.nHeight)]
    <3>1. ASSUME NEW c \in Seq(Seq(Tx)), NEW b \in Seq(Tx), NEW d, d = Append(c, b)
          PROVE  RefHistory(d) = [n \in Name |-> RefHistory(c)[n]
                                        \o RefOps(RefHistory(c)[n], b, n, Len(c) + 1)]
      BY <3>1, RefAppend
    <3>2. Q = [n \in Name |-> R[n] \o RefOps(R[n], job.blk, n, Len(chain) + 1)]
      BY <1>0, <2>1, <2>2, <3>1, Zenon
    <3> QED BY <2>2, <3>2
  <2>4. job'.phase = "idle"
    BY <2>1 DEF NoJob, Job
  <2> HIDE DEF R, Q
  <2>5. Histories(Q, nameDB')
    BY <1>1, <2>1, <2>2, <2>3, AppliedAll
  <2> QED BY <2>4, <2>5 DEF HistoryInv, Q
<1> QED BY <1>2, <1>3, <1>4

\* DisconnectBlock, from its begin to its end.
LEMMA DisconnectHistory ==
    ASSUME IInv, IInv', OwnInv, PlaceInv, PlaceInv', HistoryInv, restarts' = 0,
           BeginDisconnect \/ DisconnectName \/ EndDisconnect
    PROVE  HistoryInv'
<1>0. /\ restarts = 0 /\ chain \in Seq(Seq(Tx)) /\ PairedChain(chain) /\ job'.phase \notin {"assert", "rebuild"}
  <2>1. restarts' = restarts
    BY Zenon DEF BeginDisconnect, DisconnectName, EndDisconnect
  <2> QED BY <2>1 DEF OwnInv, IInv, TypeOK, PlaceInv
<1>1. /\ chain # <<>>
  <2>1. BeginDisconnect => chain # <<>>
    BY DEF BeginDisconnect
  <2>2. DisconnectName \/ EndDisconnect => job.phase = "disconnect"
    BY Zenon DEF DisconnectName, EndDisconnect
  <2> QED BY <1>0, <2>1, <2>2 DEF PlaceInv, Placed
<1> DEFINE F == Front(chain)
           R == RefHistory(F)
           N == Len(chain)
<1>2. F \in Seq(Seq(Tx)) /\ Len(F) = N - 1 /\ PairedChain(F) /\ N \in Nat \ {0}
  <2>1. N \in Nat \ {0} /\ F = SubSeq(chain, 1, Len(chain) - 1)
    BY <1>0, <1>1 DEF Front
  <2>2. PairedChain(SubSeq(chain, 1, Len(chain) - 1))
    BY <1>0, <1>1, DroppedPaired, Zenon
  <2>3. ASSUME NEW S, NEW c \in Seq(S), Len(c) \in Nat \ {0}
        PROVE  SubSeq(c, 1, Len(c) - 1) \in Seq(S) /\ Len(SubSeq(c, 1, Len(c) - 1)) = Len(c) - 1
    BY <2>3, WithoutLast, Zenon
  <2> QED BY <1>0, <2>1, <2>2, <2>3
<1>3. \A n \in Name : HistoryUpTo(R[n], N - 1)
  <2> HIDE DEF F, N
  <2>1. \A n \in Name : HistoryUpTo(R[n], Len(F))
    BY <1>2, RefTyped
  <2> QED BY <1>2, <2>1
<1>4. \A n \in Name : R[n] \in Seq(CNameIndex)
  BY <1>3 DEF HistoryUpTo
<1>5. CASE BeginDisconnect
  <2> DEFINE blk == chain[N]
  <2>1. /\ job.phase = "idle" /\ UNCHANGED <<chain, nameDB>>
        /\ job' = Job("disconnect", blk, N, DOMAIN blk, [i \in DOMAIN blk |-> NoAddr])
    BY <1>5 DEF BeginDisconnect, Idle, dbVars
  <2>2. job'.phase = "disconnect" /\ job'.blk = blk /\ job'.todo = DOMAIN blk
    BY <2>1 DEF Job
  <2>3. blk \in Seq(Tx) /\ PairedOps(blk)
    BY <1>0, <1>2 DEF PairedChain
  <2>4. RefHistory(chain) = [n \in Name |-> R[n] \o RefOps(R[n], blk, n, N)]
    BY <1>0, <1>1, RefFront
  <2>5. Histories(RefHistory(chain), nameDB)
    BY <1>0, <2>1 DEF HistoryInv
  <2>6. \A n \in Name : nameDB[n].vtxPos = R[n] \o RefOps(R[n], blk, n, N)
    BY <2>4, <2>5 DEF Histories
  <2> HIDE DEF blk, R, N
  <2>7. ASSUME NEW n \in Name PROVE Undone(R[n], blk, N, DOMAIN blk, n, nameDB[n].vtxPos)
    <3> DEFINE r == R[n]
               v == nameDB[n].vtxPos
    <3>1. r \in Seq(CNameIndex) /\ v = r \o RefOps(r, blk, n, N)
      BY <1>4, <2>6
    <3> HIDE DEF r, v
    <3>2. Undone(r, blk, N, DOMAIN blk, n, v)
      BY <2>3, <3>1, UndoneStart
    <3> QED BY <3>2 DEF r, v
  <2>8. Undoing(R, N, job', nameDB')
    BY <2>1, <2>2, <2>7 DEF Undoing
  <2> QED BY <2>1, <2>2, <2>8 DEF HistoryInv, R, N
<1>6. CASE DisconnectName
  <2>1. job.phase = "disconnect" /\ chain' = chain
    BY <1>6, Zenon DEF DisconnectName
  <2>2. Undoing(R, N, job, nameDB)
    BY <1>0, <2>1 DEF HistoryInv
  <2>3. job'.phase = "disconnect"
    <3>1. job \in JobType /\ job' # NoJob("assert")
      BY <1>0 DEF IInv, TypeOK, NoJob, Job
    <3>2. \E todo : job' = [job EXCEPT !.todo = todo]
      <4> DEFINE next == [job EXCEPT !.todo = @ \ {NextDown(job.todo)}]
      <4>1. job' = next \/ job' = NoJob("assert")
        BY <1>6, Zenon DEF DisconnectName
      <4> QED BY <3>1, <4>1
    <3>3. job'.phase = job.phase
      BY <3>1, <3>2 DEF JobType
    <3> QED BY <2>1, <3>3
  <2> HIDE DEF R
  <2>4. Undoing(R, N, job', nameDB')
    BY <1>0, <1>3, <1>6, <2>2, DisconnectNameUndone
  <2> QED BY <2>1, <2>3, <2>4 DEF HistoryInv, R
<1>7. CASE EndDisconnect
  <2>1. /\ job.phase = "disconnect" /\ job.todo = {} /\ chain' = F /\ job' = NoJob("idle") /\ nameDB' = nameDB
    BY <1>7 DEF EndDisconnect, dbVars, Front
  <2>2. Undoing(R, N, job, nameDB)
    BY <1>0, <2>1 DEF HistoryInv
  <2>3. Histories(R, nameDB')
    BY <2>1, <2>2 DEF Undoing, Undone, Histories
  <2>4. job'.phase = "idle"
    BY <2>1 DEF NoJob, Job
  <2>5. RefHistory(chain') = R
    BY <2>1
  <2> QED BY <2>3, <2>4, <2>5 DEF HistoryInv
<1> QED BY <1>5, <1>6, <1>7

\* The histories of a part of a chain are histories.
LEMMA UpToSeq ==
    ASSUME NEW c \in Seq(Seq(Tx)), PairedChain(c), NEW h \in 0..Len(c)
    PROVE  \A n \in Name : RefHistory(UpTo(c, h))[n] \in Seq(CNameIndex)
<1> DEFINE u == UpTo(c, h)
<1>1. u \in Seq(Seq(Tx)) /\ Len(u) = h /\ \A i \in 1..h : u[i] = c[i]
  BY UpToOf
<1> HIDE DEF u
<1>2. PairedChain(u)
  <2>1. \A i \in 1..h : i \in 1..Len(c)
    OBVIOUS
  <2>2. \A i \in 1..Len(u) : PairedOps(u[i])
    BY <1>1, <2>1 DEF PairedChain
  <2> QED BY <2>2 DEF PairedChain
<1>3. \A n \in Name : RefHistory(u)[n] \in Seq(CNameIndex)
  BY <1>1, <1>2, RefSeq
<1> QED BY <1>3 DEF u

\* Between two blocks createNameIndexes has the histories of the blocks so far.
LEMMA RebuiltSoFar ==
    ASSUME IInv, OwnInv, HistoryInv, NoGenerated, job.phase = "rebuild", job.todo = {}
    PROVE  job.nHeight \in 0..Len(chain) /\ Histories(RefHistory(UpTo(chain, job.nHeight)), nameDB)
<1> DEFINE h == job.nHeight
<1>1. /\ chain \in Seq(Seq(Tx)) /\ PairedChain(chain) /\ PairedOps(job.blk)
      /\ job.blk \in Seq(Tx) /\ h \in Nat /\ h <= Len(chain)
  BY DEF IInv, TypeOK, JobType, OwnInv, HistoryInv
<1>2. h \in 0..Len(chain)
  BY <1>1
<1>3. CASE h = 0
  <2>1. UpTo(chain, 0) = <<>> /\ Histories(RefHistory(<<>>), nameDB)
    BY <1>1, <1>3, UpToEnds DEF HistoryInv
  <2> QED BY <1>2, <1>3, <2>1
<1>4. CASE h # 0
  <2> DEFINE R == RefHistory(UpTo(chain, h - 1))
             Q == RefHistory(UpTo(chain, h))
  <2>1. h \in 1..Len(chain) /\ h - 1 \in 0..Len(chain)
    BY <1>1, <1>4
  <2>2. job.blk = chain[h] /\ Applying(R, job, nameDB)
    BY <1>4 DEF HistoryInv
  <2>3. \A n \in Name : R[n] \in Seq(CNameIndex)
    BY <1>1, <2>1, UpToSeq
  <2>4. Q = [n \in Name |-> R[n] \o RefOps(R[n], chain[h], n, h)]
    BY <1>1, <2>1, RefUpTo
  <2>5. Q = [n \in Name |-> R[n] \o RefOps(R[n], job.blk, n, job.nHeight)]
    BY <2>2, <2>4
  <2> HIDE DEF R, Q
  <2>6. Histories(Q, nameDB)
    BY <1>1, <2>2, <2>3, <2>5, AppliedAll
  <2> QED BY <1>2, <2>6 DEF Q
<1> QED BY <1>3, <1>4

\* createNameIndexes.
LEMMA RebuildHistory ==
    ASSUME IInv, IInv', Short', OwnInv, HistoryInv, restarts' # 0,
           RebuildNextBlock \/ (ConnectName /\ job.phase = "rebuild")
    PROVE  HistoryInv'
<1> SUFFICES ASSUME NoGenerated, job'.phase = "rebuild" PROVE HistoryInv'
  BY DEF HistoryInv, NoGenerated
<1>0. chain \in Seq(Seq(Tx)) /\ PairedChain(chain) /\ job.nHeight \in Nat /\ chain' = chain /\ job.phase = "rebuild"
      /\ Len(chain) \in Nat
  BY DEF IInv, TypeOK, JobType, OwnInv, RebuildNextBlock, ConnectName
<1> DEFINE h == job.nHeight
<1>1. CASE RebuildNextBlock
  <2>1. h < Len(chain) /\ job.todo = {} /\ nameDB' = nameDB
        /\ CollectNames("rebuild", chain[h + 1], h + 1)
    <3>1. job' # NoJob("idle")
      BY DEF NoJob, Job
    <3> QED BY <1>1, <3>1 DEF RebuildNextBlock
  <2> DEFINE R == RefHistory(UpTo(chain, h))
             blk == chain[h + 1]
  <2>2. Histories(R, nameDB) /\ h \in 0..Len(chain)
    BY <1>0, <2>1, RebuiltSoFar
  <2>3. blk \in Seq(Tx) /\ "rebuild" \in Phases /\ h + 1 \in 1..Len(chain) /\ (h + 1) - 1 = h
    BY <1>0, <2>1, <2>2 DEF Phases
  <2> HIDE DEF R, blk
  <2>4. CollectNames("rebuild", blk, h + 1) /\ job'.phase # "assert"
    BY <2>1 DEF blk
  <2>5. Applying(R, job', nameDB') /\ job'.blk = blk /\ job'.nHeight = h + 1
    BY <2>1, <2>2, <2>3, <2>4, CollectApplied
  <2>6. /\ job'.nHeight <= Len(chain') /\ job'.nHeight # 0 /\ job'.blk = chain'[job'.nHeight]
        /\ RefHistory(UpTo(chain', job'.nHeight - 1)) = R
    BY <1>0, <2>3, <2>5 DEF R, blk
  <2> QED BY <2>5, <2>6 DEF HistoryInv
<1>2. CASE ConnectName
  <2>1. job.todo # {}
    BY <1>2 DEF ConnectName
  <2> DEFINE R == RefHistory(UpTo(chain, h - 1))
  <2>2. h # 0 /\ h <= Len(chain) /\ job.blk = chain[h] /\ Applying(R, job, nameDB)
    BY <1>0, <2>1 DEF HistoryInv
  <2>3. h - 1 \in 0..Len(chain)
    BY <1>0, <2>2
  <2>4. \A n \in Name : R[n] \in Seq(CNameIndex)
    BY <1>0, <2>3, UpToSeq
  <2>5. Listed
    BY <1>0 DEF Listed
  <2> HIDE DEF R
  <2>6. Applying(R, job', nameDB') /\ job'.blk = job.blk /\ job'.nHeight = h
    BY <1>2, <2>2, <2>4, <2>5, ConnectNameApplied
  <2>7. /\ job'.nHeight <= Len(chain') /\ job'.nHeight # 0 /\ job'.blk = chain'[job'.nHeight]
        /\ RefHistory(UpTo(chain', job'.nHeight - 1)) = R
    BY <1>0, <2>2, <2>6 DEF R
  <2> QED BY <2>6, <2>7 DEF HistoryInv
<1> QED BY <1>1, <1>2

\* Every step.
LEMMA StepHistory ==
    ASSUME IInv, IInv', Short', OwnInv, PlaceInv, PlaceInv', HistoryInv, [Next]_vars
    PROVE  HistoryInv'
<1>0. job \in JobType /\ restarts \in Nat
  BY DEF IInv, TypeOK
<1>1. CASE UNCHANGED vars
  BY <1>1 DEF vars, HistoryInv, NoGenerated
<1>2. CASE FlushStateToDisk
  BY <1>2 DEF FlushStateToDisk, dbVars, HistoryInv, NoGenerated
<1>3. CASE Crash \/ CrashBetweenWrites
  <2>1. job' = NoJob("down")
    BY <1>3, Zenon DEF Crash, CrashBetweenWrites
  <2>2. job'.phase = "down"
    BY <2>1 DEF NoJob, Job
  <2> QED BY <2>2 DEF HistoryInv
<1>4. ASSUME NEW keepName \in BOOLEAN, NEW keepAddr \in BOOLEAN, Restart(keepName, keepAddr)
      PROVE  HistoryInv'
  <2>1. restarts' # 0
    BY <1>0, <1>4 DEF Restart
  <2>2. CASE job' = NoJob("idle")
    <3>1. job'.phase = "idle"
      BY <2>2 DEF NoJob, Job
    <3> QED BY <2>1, <3>1 DEF HistoryInv
  <2>3. CASE job' = NoJob("rebuild") /\ nameDB' = [n \in Name |-> EmptyRecord]
    <3>1. job'.phase = "rebuild" /\ job'.nHeight = 0 /\ job'.todo = {}
      BY <2>3 DEF NoJob, Job
    <3>2. Histories(RefHistory(<<>>), nameDB')
      BY <2>3, RefEmpty DEF Histories, EmptyRecord
    <3>3. chain' \in Seq(Seq(Tx))
      BY DEF IInv, TypeOK
    <3>4. 0 <= Len(chain')
      BY <3>3
    <3> QED BY <2>1, <3>1, <3>2, <3>4 DEF HistoryInv
  <2> QED BY <1>4, <2>2, <2>3 DEF Restart
<1>5. CASE RebuildNextBlock
  <2>1. restarts # 0 /\ restarts' = restarts
    BY <1>5 DEF RebuildNextBlock, PlaceInv
  <2> QED BY <1>5, <2>1, RebuildHistory
\* After a restart a block may be connected to an index that is not the chain's.
<1>6. ASSUME restarts' # 0, job'.phase # "rebuild" PROVE HistoryInv'
  BY <1>6 DEF HistoryInv
<1>7. ASSUME NEW b \in Blocks, BeginConnect(b) PROVE HistoryInv'
  <2>1. job'.phase # "rebuild"
    BY <1>7 DEF BeginConnect, CollectNames, NoJob, Job
  <2> QED BY <1>6, <1>7, <2>1, ConnectHistory
<1>8. CASE ConnectName
  <2>1. /\ job.phase \in {"connect", "rebuild"} /\ restarts' = restarts
    BY <1>8 DEF ConnectName
  <2>2. job'.phase = job.phase
    <3>1. \/ \E todo : job' = [job EXCEPT !.todo = todo]
          \/ \E todo, names : job' = [job EXCEPT !.todo = todo, !.sNameNew = names]
      BY <1>8, Zenon DEF ConnectName
    <3> QED BY <1>0, <3>1 DEF JobType
  <2>3. CASE job.phase = "rebuild"
    <3>1. restarts' # 0
      BY <2>1, <2>3 DEF PlaceInv
    <3> QED BY <1>8, <2>3, <3>1, RebuildHistory
  <2>4. CASE job.phase = "connect"
    BY <1>6, <1>8, <2>2, <2>4, ConnectHistory
  <2> QED BY <2>1, <2>3, <2>4
<1>9. CASE EndConnect
  <2>1. job'.phase # "rebuild"
    BY <1>9 DEF EndConnect, NoJob, Job
  <2> QED BY <1>6, <1>9, <2>1, ConnectHistory
<1>10. CASE BeginDisconnect \/ DisconnectName \/ EndDisconnect
  <2>1. job'.phase # "rebuild"
    <3>1. BeginDisconnect \/ EndDisconnect => job'.phase # "rebuild"
      BY DEF BeginDisconnect, EndDisconnect, NoJob, Job
    <3>2. ASSUME DisconnectName PROVE job'.phase # "rebuild"
      <4> DEFINE next == [job EXCEPT !.todo = @ \ {NextDown(job.todo)}]
      <4>1. job.phase = "disconnect" /\ (job' = next \/ job' = NoJob("assert"))
        BY <3>2, Zenon DEF DisconnectName
      <4> QED BY <1>0, <4>1 DEF JobType, NoJob, Job
    <3> QED BY <1>10, <3>1, <3>2
  <2> QED BY <1>6, <1>10, <2>1, DisconnectHistory
<1> QED BY <1>1, <1>2, <1>3, <1>4, <1>5, <1>7, <1>8, <1>9, <1>10 DEF Next

\* Histories that are the chain's are what the reference asks for.
LEMMA ExactHistories ==
    ASSUME NEW c, NEW db, \A n \in Name : db[n].vtxPos \in Seq(CNameIndex), Histories(RefHistory(c), db)
    PROVE  \E ref \in {RefHistory(c)} : \A n \in Name : EndOf(db[n].vtxPos, ref[n])
<1>1. ASSUME NEW v \in Seq(CNameIndex) PROVE EndOf(v, v)
  <2>1. UpTo(v, Len(v)) = v /\ Len(v) - Len(v) + 1 = 1 /\ Len(v) \in Nat
    BY UpToEnds
  <2> QED BY <2>1 DEF EndOf, UpTo
<1>2. \A n \in Name : EndOf(db[n].vtxPos, RefHistory(c)[n])
  BY <1>1 DEF Histories
<1> QED BY <1>2

\* HistoryInv holds as long as nothing is pruned.
LEMMA HistoryAlways == Spec /\ []Short => [](OneOpPerBlock => HistoryInv)
<1>1. Init => HistoryInv
  <2> SUFFICES ASSUME Init PROVE HistoryInv
    OBVIOUS
  <2>1. chain = <<>> /\ job.phase = "idle" /\ \A n \in Name : nameDB[n].vtxPos = <<>>
    BY DEF Init, NoJob, Job, EmptyRecord
  <2> QED BY <2>1, RefEmpty DEF HistoryInv, Histories
<1>2. /\ IInv /\ IInv' /\ Short' /\ (OneOpPerBlock => OwnInv) /\ PlaceInv /\ PlaceInv'
      /\ (OneOpPerBlock => HistoryInv) /\ [Next]_vars
      => (OneOpPerBlock => HistoryInv)'
  BY StepHistory DEF OneOpPerBlock
<1> QED BY <1>1, <1>2, InvariantHolds, OwnAlways, PlaceAlways, PTL DEF Spec

\* Up to the first crash the index is a function of the active chain: the history of
\* every name is what the blocks of the chain say, each judged against the histories
\* before it, whatever blocks were connected and disconnected on the way.
THEOREM IndexIsOfTheChain == Spec /\ []Short => [](OneOpPerBlock /\ restarts = 0 => IndexMatchesChain)
<1>1. IInv /\ HistoryInv => (restarts = 0 => IndexMatchesChain)
  <2> SUFFICES ASSUME IInv, HistoryInv, restarts = 0, Idle PROVE HistoryExact
    BY DEF IndexMatchesChain
  <2>1. Histories(RefHistory(chain), nameDB) /\ \A n \in Name : nameDB[n].vtxPos \in Seq(CNameIndex)
    BY DEF HistoryInv, Idle, IInv, TypeOK
  <2> QED BY <2>1, ExactHistories DEF HistoryExact
<1> QED BY <1>1, InvariantHolds, HistoryAlways, PTL

\* createNameIndexes, run to its end, leaves both files as the chain says, whatever
\* any number of crashes had left in them before: the histories of all names and the
\* address of each.
THEOREM RebuildIsExact ==
    Spec /\ [](Short /\ OneOpPerBlock /\ NoGenerated) => RebuildExact
<1>1. /\ IInv /\ IInv' /\ OneOpPerBlock /\ NoGenerated /\ (OneOpPerBlock => OwnInv)
      /\ (OneOpPerBlock => HistoryInv) /\ [Next]_vars
      => [job.phase = "rebuild" /\ job'.phase = "idle" => (HistoryExact /\ ListingExact)']_vars
  <2> SUFFICES ASSUME IInv, IInv', NoGenerated, OwnInv, HistoryInv, Next,
                      job.phase = "rebuild", job'.phase = "idle"
               PROVE  (HistoryExact /\ ListingExact)'
    OBVIOUS
  <2>1. /\ job.todo = {} /\ ~(job.nHeight < Len(chain)) /\ UNCHANGED <<chain, nameDB, addrDB>>
    BY RebuildEnds
  <2>2. ListingExact'
    BY <2>1 DEF OwnInv, Listed, ListingExact
  <2>3. job.nHeight \in 0..Len(chain) /\ Histories(RefHistory(UpTo(chain, job.nHeight)), nameDB)
    BY <2>1, RebuiltSoFar
  <2>4. chain \in Seq(Seq(Tx)) /\ Len(chain) \in Nat
    BY DEF IInv, TypeOK
  <2>5. job.nHeight = Len(chain)
    BY <2>1, <2>3, <2>4
  <2>6. UpTo(chain, Len(chain)) = chain
    BY <2>4, UpToEnds
  <2>7. Histories(RefHistory(chain'), nameDB') /\ \A n \in Name : nameDB'[n].vtxPos \in Seq(CNameIndex)
    BY <2>1, <2>3, <2>5, <2>6 DEF IInv, TypeOK
  <2>8. HistoryExact'
    BY <2>7, ExactHistories DEF HistoryExact
  <2> QED BY <2>2, <2>8
<1> QED BY <1>1, InvariantHolds, OwnAlways, HistoryAlways, PTL DEF Spec, RebuildExact

-----------------------------------------------------------------------------
(* Expirations.                                                            *)

\* F sums f over the subsets of S.
Summing(F, f, S) ==
    F = [s \in SUBSET S |-> IF s = {} THEN 0
                            ELSE f[CHOOSE x \in s : TRUE] + F[s \ {CHOOSE x \in s : TRUE}]]

Total(f, S) == (CHOOSE F : Summing(F, f, S))[S]

\* The recursion of the sum on the sets of at most k elements.
SumsUpTo(F, f, S, k) ==
    /\ F \in [SUBSET S -> Nat]
    /\ \A s \in SUBSET S : Cardinality(s) <= k =>
            F[s] = IF s = {} THEN 0
                   ELSE f[CHOOSE x \in s : TRUE] + F[s \ {CHOOSE x \in s : TRUE}]

\* What is left of a set when the chosen element is taken out.
LEMMA TakenOut ==
    ASSUME NEW S, IsFiniteSet(S), NEW s \in SUBSET S, s # {},
           NEW x, x = CHOOSE y \in s : TRUE
    PROVE  /\ x \in S /\ s \ {x} \in SUBSET S
           /\ Cardinality(s) \in Nat /\ Cardinality(s) # 0
           /\ Cardinality(s \ {x}) = Cardinality(s) - 1
<1>1. x \in s
  OBVIOUS
<1>2. IsFiniteSet(s)
  BY FS_Subset
<1>3. Cardinality(s) \in Nat /\ Cardinality(s) # 0
  BY <1>2, FS_CardinalityType, FS_EmptySet
<1>4. Cardinality(s \ {x}) = Cardinality(s) - 1
  BY <1>1, <1>2, FS_RemoveElement
<1> QED BY <1>1, <1>3, <1>4

\* The sum of a function to the naturals over a finite set exists.
LEMMA SumExists ==
    ASSUME NEW S, IsFiniteSet(S), NEW f \in [S -> Nat]
    PROVE  \E F : Summing(F, f, S)
<1> DEFINE T == {k \in Nat : ~\E F : SumsUpTo(F, f, S, k)}
<1>1. T = {}
  <2> SUFFICES ASSUME T # {} PROVE FALSE
    OBVIOUS
  <2>1. PICK k \in T : \A m \in T : k <= m
    <3>1. T \in SUBSET Nat
      OBVIOUS
    <3> HIDE DEF T
    <3> QED BY <3>1, LeastNumber
  <2>2. k \in Nat /\ ~\E F : SumsUpTo(F, f, S, k)
    BY <2>1
  <2>3. CASE k = 0
    <3> DEFINE F == [s \in SUBSET S |-> 0]
    <3>1. ASSUME NEW s \in SUBSET S, Cardinality(s) <= 0 PROVE s = {}
      BY <3>1, FS_Subset, FS_CardinalityType, FS_EmptySet
    <3>2. SumsUpTo(F, f, S, 0)
      BY <3>1 DEF SumsUpTo
    <3> QED BY <2>2, <2>3, <3>2
  <2>4. CASE k # 0
    <3>1. k - 1 \in Nat /\ k - 1 \notin T
      BY <2>1, <2>2, <2>4
    <3>2. PICK G : SumsUpTo(G, f, S, k - 1)
      BY <3>1
    <3> DEFINE ch(s) == CHOOSE x \in s : TRUE
               F == [s \in SUBSET S |-> IF Cardinality(s) = k THEN f[ch(s)] + G[s \ {ch(s)}] ELSE G[s]]
    <3>3. ASSUME NEW s \in SUBSET S
          PROVE  /\ Cardinality(s) = k => s # {}
                 /\ s # {} => /\ ch(s) \in S /\ s \ {ch(s)} \in SUBSET S
                              /\ Cardinality(s) \in Nat
                              /\ Cardinality(s \ {ch(s)}) = Cardinality(s) - 1
      <4>1. Cardinality(s) = k => s # {}
        BY <2>4, FS_EmptySet
      <4> QED BY <4>1, TakenOut
    <3> HIDE DEF ch
    <3>4. F \in [SUBSET S -> Nat]
      <4>1. G \in [SUBSET S -> Nat]
        BY <3>2 DEF SumsUpTo
      <4> QED BY <3>3, <4>1
    <3>5. ASSUME NEW s \in SUBSET S, Cardinality(s) <= k
          PROVE  F[s] = IF s = {} THEN 0 ELSE f[ch(s)] + F[s \ {ch(s)}]
      <4>1. CASE s = {}
        <5>1. Cardinality(s) = 0
          BY <4>1, FS_EmptySet
        <5>2. G[s] = 0
          BY <2>2, <2>4, <4>1, <5>1, <3>1, <3>2 DEF SumsUpTo
        <5> QED BY <2>4, <4>1, <5>1, <5>2
      <4>2. CASE s # {}
        <5>1. /\ ch(s) \in S /\ s \ {ch(s)} \in SUBSET S
              /\ Cardinality(s) \in Nat
              /\ Cardinality(s \ {ch(s)}) = Cardinality(s) - 1
          BY <3>3, <4>2
        <5>2. Cardinality(s \ {ch(s)}) # k
          BY <2>2, <3>5, <5>1
        <5>3. F[s \ {ch(s)}] = G[s \ {ch(s)}]
          BY <5>1, <5>2
        <5>4. CASE Cardinality(s) = k
          BY <4>2, <5>3, <5>4
        <5>5. CASE Cardinality(s) # k
          <6>1. Cardinality(s) <= k - 1
            BY <2>2, <3>5, <5>1, <5>5
          <6>2. G[s] = f[ch(s)] + G[s \ {ch(s)}]
            BY <3>2, <4>2, <6>1 DEF SumsUpTo, ch
          <6> QED BY <4>2, <5>3, <5>5, <6>2
        <5> QED BY <5>4, <5>5
      <4> QED BY <4>1, <4>2
    <3>6. SumsUpTo(F, f, S, k)
      <4> HIDE DEF F
      <4> QED BY <3>4, <3>5 DEF SumsUpTo, ch
    <3> QED BY <2>2, <3>6
  <2> QED BY <2>3, <2>4
<1>2. Cardinality(S) \in Nat /\ \A s \in SUBSET S : Cardinality(s) <= Cardinality(S)
  BY FS_CardinalityType, FS_Subset
<1>3. PICK F : SumsUpTo(F, f, S, Cardinality(S))
  BY <1>1, <1>2
<1>4. Summing(F, f, S)
  BY <1>2, <1>3 DEF SumsUpTo, Summing
<1> QED BY <1>4

\* It is a natural number.
LEMMA SumNatural ==
    ASSUME NEW S, IsFiniteSet(S), NEW f \in [S -> Nat]
    PROVE  Total(f, S) \in Nat
<1>1. PICK F : F = (CHOOSE G : Summing(G, f, S)) /\ Summing(F, f, S)
  <2>1. \E G : Summing(G, f, S)
    BY SumExists
  <2> QED BY <2>1
<1> DEFINE T == {Cardinality(s) : s \in {u \in SUBSET S : F[u] \notin Nat}}
<1>2. T = {}
  <2> SUFFICES ASSUME T # {} PROVE FALSE
    OBVIOUS
  <2>1. T \in SUBSET Nat
    BY FS_Subset, FS_CardinalityType
  <2>2. PICK k \in T : \A m \in T : k <= m
    <3> HIDE DEF T
    <3> QED BY <2>1, LeastNumber
  <2>3. PICK s \in SUBSET S : F[s] \notin Nat /\ Cardinality(s) = k
    BY <2>2
  <2>4. CASE s = {}
    <3>1. F[s] = 0
      BY <1>1, <2>4 DEF Summing
    <3> QED BY <2>3, <3>1
  <2>5. CASE s # {}
    <3> DEFINE x == CHOOSE y \in s : TRUE
    <3>1. /\ x \in S /\ s \ {x} \in SUBSET S
          /\ Cardinality(s) \in Nat
          /\ Cardinality(s \ {x}) = Cardinality(s) - 1
      BY <2>5, TakenOut
    <3>2. F[s] = f[x] + F[s \ {x}]
      BY <1>1, <2>5 DEF Summing
    <3> HIDE DEF x
    <3>3. F[s \ {x}] \notin Nat
      BY <2>3, <3>1, <3>2
    <3>4. Cardinality(s \ {x}) \in T
      BY <3>1, <3>3
    <3>5. k <= Cardinality(s \ {x})
      <4> HIDE DEF T
      <4> QED BY <2>2, <3>4
    <3> HIDE DEF T
    <3> QED BY <2>3, <3>1, <3>5
  <2> QED BY <2>4, <2>5
<1>3. F[S] \in Nat
  BY <1>2
<1> QED BY <1>1, <1>3 DEF Total

\* Every rental is a number of days whose blocks are an int.
RentalsFit ==
    \A t \in Tx : t.op # "delete" =>
        t.days \in Nat /\ t.days * BlocksPerDay <= IntMax

\* Within the range of int nothing wraps around.
LEMMA NoWrap ==
    ASSUME NEW x \in Nat, x <= IntMax
    PROVE  Wrap(x) = x
<1> DEFINE M == 2 * (IntMax + 1)
           y == x + IntMax + 1
<1>1. M \in Nat /\ y \in Nat /\ y < M /\ M > 0 /\ IntMax \in Nat
  BY BoundAssumption
<1>2. y % M = y
  <2> HIDE DEF M, y
  <2> QED BY <1>1
<1>3. Wrap(x) = (y % M) - (IntMax + 1)
  BY DEF Wrap
<1> HIDE DEF M
<1> QED BY <1>1, <1>2, <1>3

\* The blocks CalculateExpiresAt adds up, and the blocks paid for.
AddedBlocks(seg, S) == MapThenSumSet(LAMBDA k : RentalBlocks(seg[k]), S)
PaidBlocks(seg, S) == MapThenSumSet(LAMBDA k : seg[k].txPos.days * BlocksPerDay, S)

\* The sum CalculateExpiresAt makes of an active chain without a name_delete, and
\* what was paid for, are sums of one function.
LEMMA SameSums ==
    ASSUME NEW seg, NEW f, NEW S,
           \A k \in S : RentalBlocks(seg[k]) = f[k] /\ seg[k].txPos.days * BlocksPerDay = f[k]
    PROVE  AddedBlocks(seg, S) = Total(f, S) /\ PaidBlocks(seg, S) = Total(f, S)
<1> DEFINE A(F) == F = [s \in SUBSET S |-> IF s = {} THEN 0
                        ELSE RentalBlocks(seg[CHOOSE x \in s : TRUE]) + F[s \ {CHOOSE x \in s : TRUE}]]
           B(F) == F = [s \in SUBSET S |-> IF s = {} THEN 0
                        ELSE (seg[CHOOSE x \in s : TRUE].txPos.days * BlocksPerDay) + F[s \ {CHOOSE x \in s : TRUE}]]
<1>1. \A s \in SUBSET S : s # {} => (CHOOSE x \in s : TRUE) \in S
  OBVIOUS
<1>2. \A k \in S : RentalBlocks(seg[k]) = f[k] /\ seg[k].txPos.days * BlocksPerDay = f[k]
  OBVIOUS
<1>3. AddedBlocks(seg, S) = (CHOOSE F : A(F))[S]
  BY Zenon DEF AddedBlocks, MapThenSumSet, MapThenFoldSet
<1>4. PaidBlocks(seg, S) = (CHOOSE F : B(F))[S]
  BY Zenon DEF PaidBlocks, MapThenSumSet, MapThenFoldSet
<1>5. \A F : A(F) <=> Summing(F, f, S)
  BY <1>1, <1>2 DEF Summing
<1>6. \A F : B(F) <=> Summing(F, f, S)
  BY <1>1, <1>2 DEF Summing
<1> HIDE DEF A, B
<1>7. (CHOOSE F : A(F)) = (CHOOSE F : Summing(F, f, S))
  BY <1>5, Zenon
<1>8. (CHOOSE F : B(F)) = (CHOOSE F : Summing(F, f, S))
  BY <1>6, Zenon
<1> QED BY <1>3, <1>4, <1>7, <1>8, Zenon DEF Total

\* The active chain of a registered name holds no name_delete.
LEMMA ActiveKept ==
    ASSUME NEW rec, GoodRecord(rec), OwnedHistory(rec.vtxPos), ~Deleted(rec), ~Corrupt(rec),
           NEW seg, seg = ActiveChain(rec.vtxPos, rec.nLastActiveChainIndex)
    PROVE  /\ seg \in Seq(CNameIndex) /\ Len(seg) \in Nat /\ Len(seg) > 0
           /\ seg[1] = rec.vtxPos[rec.nLastActiveChainIndex + 1]
           /\ \A k \in 1..Len(seg) : seg[k].op # "delete" /\ seg[k].txPos.op # "delete"
<1> DEFINE v == rec.vtxPos
           last == rec.nLastActiveChainIndex
<1>1. /\ v \in Seq(CNameIndex) /\ last \in Nat /\ v # <<>> /\ Len(v) \in Nat
      /\ v[Len(v)].op # "delete"
  BY DEF GoodRecord, Deleted
<1>2. last < Len(v)
  BY <1>1 DEF Corrupt
<1>3. \A k \in (last + 2)..Len(v) : ~IsNew(v, k)
  BY <1>1, <1>2 DEF GoodRecord, StartsActiveChain
<1>4. /\ \A i \in 1..Len(v) : v[i].op = v[i].txPos.op
      /\ \A i \in 2..Len(v) : ~IsNew(v, i) => v[i-1].op # "delete"
  BY DEF OwnedHistory
<1> HIDE DEF v, last
<1>5. seg = SubSeq(v, last + 1, Len(v))
  BY DEF ActiveChain, v, last
<1>6. /\ seg \in Seq(CNameIndex) /\ Len(seg) = Len(v) - last
      /\ \A k \in 1..Len(seg) : seg[k] = v[last + k]
  BY <1>1, <1>2, <1>5
<1>7. ASSUME NEW k \in 1..Len(seg) PROVE seg[k].op # "delete" /\ seg[k].txPos.op # "delete"
  <2>1. last + k \in 1..Len(v)
    BY <1>1, <1>2, <1>6
  <2>2. v[last + k].op # "delete"
    <3>1. CASE last + k = Len(v)
      BY <1>1, <3>1
    <3>2. CASE last + k # Len(v)
      <4>1. last + k + 1 \in 2..Len(v) /\ last + k + 1 \in (last + 2)..Len(v) /\ (last + k + 1) - 1 = last + k
        BY <1>1, <2>1, <3>2
      <4> QED BY <1>3, <1>4, <4>1
    <3> QED BY <3>1, <3>2
  <2> QED BY <1>4, <1>6, <2>1, <2>2
<1> QED BY <1>1, <1>2, <1>6, <1>7 DEF v, last

\* The smaller of two numbers.
LEMMA SmallerOf ==
    ASSUME NEW a \in Nat, NEW b \in Nat
    PROVE  Min({a, b}) = IF b > a THEN a ELSE b
<1>1. CASE b > a
  BY <1>1 DEF Min
<1>2. CASE ~(b > a)
  BY <1>2 DEF Min
<1> QED BY <1>1, <1>2

\* What the record of a registered name caches is what was paid for.
LEMMA ExpiryPaid ==
    ASSUME RentalsFit, NEW rec, GoodRecord(rec), OwnedHistory(rec.vtxPos), ~Deleted(rec), ~Corrupt(rec),
           NEW seg, seg = ActiveChain(rec.vtxPos, rec.nLastActiveChainIndex)
    PROVE  rec.nExpiresAt = Min({IntMax, seg[1].nHeight +
                PaidBlocks(seg, {k \in 1..Len(seg) : seg[k].op # "delete"})})
<1> DEFINE f == [k \in 1..Len(seg) |-> seg[k].txPos.days * BlocksPerDay]
           sum == Total(f, 1..Len(seg))
           first == seg[1].nHeight
<1>1. /\ seg \in Seq(CNameIndex) /\ Len(seg) \in Nat /\ Len(seg) > 0
      /\ seg[1] = rec.vtxPos[rec.nLastActiveChainIndex + 1]
      /\ \A k \in 1..Len(seg) : seg[k].op # "delete" /\ seg[k].txPos.op # "delete"
  BY ActiveKept
<1>2. first \in Nat
  <2>1. seg[1] \in CNameIndex
    BY <1>1
  <2> QED BY <2>1 DEF CNameIndex
<1>3. ASSUME NEW k \in 1..Len(seg)
      PROVE  /\ seg[k].txPos.days * BlocksPerDay \in Nat
             /\ RentalBlocks(seg[k]) = seg[k].txPos.days * BlocksPerDay
  <2>1. seg[k] \in CNameIndex
    BY <1>1
  <2>2. seg[k].txPos \in Tx /\ seg[k].txPos.op # "delete"
    BY <1>1, <2>1 DEF CNameIndex
  <2> DEFINE d == seg[k].txPos.days
             p == d * BlocksPerDay
  <2>3. d \in Nat /\ p <= IntMax /\ BlocksPerDay \in Nat
    BY <2>2, BoundAssumption DEF RentalsFit
  <2>4. p \in Nat
    <3> HIDE DEF d
    <3> QED BY <2>3
  <2> HIDE DEF p
  <2>5. Wrap(p) = p
    BY <2>3, <2>4, NoWrap
  <2> QED BY <2>4, <2>5 DEF p, RentalBlocks
<1>4. f \in [1..Len(seg) -> Nat] /\ IsFiniteSet(1..Len(seg))
  <2>1. IsFiniteSet(1..Len(seg))
    BY <1>1, FS_Interval
  <2> QED BY <1>3, <2>1
<1>5. sum \in Nat
  <2> HIDE DEF f
  <2> QED BY <1>4, SumNatural
<1>6. AddedBlocks(seg, 1..Len(seg)) = sum /\ PaidBlocks(seg, 1..Len(seg)) = sum
  <2> DEFINE S == 1..Len(seg)
  <2>1. \A k \in S : RentalBlocks(seg[k]) = f[k] /\ seg[k].txPos.days * BlocksPerDay = f[k]
    BY <1>3
  <2> HIDE DEF f, S
  <2>2. AddedBlocks(seg, S) = Total(f, S) /\ PaidBlocks(seg, S) = Total(f, S)
    BY <2>1, SameSums, Zenon
  <2> QED BY <2>2 DEF S
<1>7. {k \in 1..Len(seg) : seg[k].op # "delete"} = 1..Len(seg)
  BY <1>1
<1>8. rec.nExpiresAt = ChainExpiry(seg, first)
  BY <1>1 DEF GoodRecord, ExpiryCached
<1> HIDE DEF sum, first, f
<1>9. ChainExpiry(seg, first) = Wrap(IF sum + first > IntMax THEN IntMax ELSE sum + first)
  BY <1>6, Zenon DEF ChainExpiry, AddedBlocks
<1>10. Min({IntMax, first + sum}) = IF first + sum > IntMax THEN IntMax ELSE first + sum
  BY <1>2, <1>5, SmallerOf, BoundAssumption
<1>11. ChainExpiry(seg, first) = Min({IntMax, first + sum})
  BY <1>2, <1>5, <1>9, <1>10, NoWrap, BoundAssumption
<1>12. PaidBlocks(seg, {k \in 1..Len(seg) : seg[k].op # "delete"}) = sum
  BY <1>6, <1>7
<1> QED BY <1>8, <1>11, <1>12 DEF first

\* A live registration lasts until its height plus everything that was paid for, or
\* INT_MAX: for blocks with one operation per name, and rentals whose blocks are an
\* int (nothing in the code limits nRentalDays, namecoin.cpp:98).
THEOREM ExpiriesHonoured == Spec => [](OneOpPerBlock /\ RentalsFit => ExpiryHonoured)
<1>1. IInv /\ OwnInv /\ RentalsFit => ExpiryHonoured
  <2> SUFFICES ASSUME IInv, OwnInv, RentalsFit, NEW n \in Name,
                      ~Deleted(nameDB[n]), ~Corrupt(nameDB[n]),
                      NEW seg, seg = ActiveChain(nameDB[n].vtxPos, nameDB[n].nLastActiveChainIndex)
               PROVE  nameDB[n].nExpiresAt = Min({IntMax, seg[1].nHeight +
                            PaidBlocks(seg, {k \in 1..Len(seg) : seg[k].op # "delete"})})
    BY Zenon DEF ExpiryHonoured, PaidBlocks
  <2>1. GoodRecord(nameDB[n]) /\ OwnedHistory(nameDB[n].vtxPos)
    BY DEF IInv, RecordsGood, OwnInv
  <2> QED BY <2>1, ExpiryPaid
<1> QED BY <1>1, InvariantHolds, OwnAlways, PTL
============================================================================
