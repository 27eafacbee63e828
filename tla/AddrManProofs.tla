--------------------------- MODULE AddrManProofs ---------------------------
(***************************************************************************)
(* Proofs about the address manager.  Every operation is a composition of  *)
(* a few steps on the tables, and a restart is five loops of them.  The    *)
(* invariant Consistent says how the tables agree, also between two steps, *)
(* when an entry is not counted or has no slot yet; there is one lemma per *)
(* step, one per loop and one per action.                                  *)
(***************************************************************************)
EXTENDS AddrMan, FiniteSetTheorems, WellFoundedInduction, NaturalsInduction, TLAPS

(***************************************************************************)
(* The parts of the invariant, each about some of the tables.  Entries are *)
(* in limbo between two steps of an operation: those of X are not counted  *)
(* in nNew and have no slot, those of Y may be without a slot.             *)
(***************************************************************************)

Entry == [addr : Addr, source : Source, nRefCount : Nat, fInTried : BOOLEAN, nRandomPos : Nat]

\* Ids come from nIdCount.
EntriesOK(info, count) ==
    /\ count \in Nat
    /\ DOMAIN info \subseteq 0..(count - 1)
    /\ info \in [DOMAIN info -> Entry]

\* vRandom lists every entry once, at its nRandomPos.
RandomOK(info, rnd) ==
    /\ rnd \in Seq(DOMAIN info)
    /\ \A id \in DOMAIN info : info[id].nRandomPos \in 1..Len(rnd) /\ rnd[info[id].nRandomPos] = id
    /\ \A k \in 1..Len(rnd) : info[rnd[k]].nRandomPos = k

\* mapAddr is the inverse of the addresses.
AddrOK(info, ad) ==
    /\ \A id \in DOMAIN info : info[id].addr \in DOMAIN ad /\ ad[info[id].addr] = id
    /\ \A a \in DOMAIN ad : ad[a] \in DOMAIN info /\ info[ad[a]].addr = a

\* The "new" slots that hold id
SlotsOf(vn, id) == {s \in NewSlots : vn[s] = id}

\* A "new" slot holds an entry that belongs there, and references are counted.
NewOK(info, vn) ==
    /\ vn \in [NewSlots -> DOMAIN info \cup {None}]
    /\ \A s \in NewSlots : vn[s] # None => s = NewSlot(s[1], info[vn[s]].addr)
    /\ \A id \in DOMAIN info : info[id].nRefCount = Cardinality(SlotsOf(vn, id))

\* The "tried" slots hold the entries that are in tried, each in its slot.
TriedOK(info, vt) ==
    /\ vt \in [TriedSlots -> DOMAIN info \cup {None}]
    /\ \A k \in TriedSlots : vt[k] # None => info[vt[k]].fInTried /\ k = TriedSlot[info[vt[k]].addr]
    /\ \A id \in DOMAIN info : info[id].fInTried => vt[TriedSlot[info[id].addr]] = id

\* An entry in tried or in limbo has no reference, another has at least one, unless
\* it is in Y, and none has too many.
RefsOK(info, X, Y) ==
    \A id \in DOMAIN info :
        /\ info[id].fInTried \/ id \in X => info[id].nRefCount = 0
        /\ info[id].nRefCount <= MaxRefs
        /\ ~info[id].fInTried /\ id \notin Y => info[id].nRefCount > 0

\* What nTried and nNew count
TriedIds(info) == {id \in DOMAIN info : info[id].fInTried}
NewIds(info, X) == {id \in DOMAIN info : ~info[id].fInTried /\ id \notin X}

CountOK(info, nNew, nTried, X) ==
    nTried = Cardinality(TriedIds(info)) /\ nNew = Cardinality(NewIds(info, X))

\* What a step leaves of an entry: everything but the place in vRandom.
Same(e, f) == /\ e.addr = f.addr /\ e.source = f.source /\ e.nRefCount = f.nRefCount
              /\ (e.fInTried <=> f.fInTried)

-----------------------------------------------------------------------------
\* No entry has the id that marks a free slot.
LEMMA NoneOutside ==
    ASSUME NEW info, NEW count, EntriesOK(info, count)
    PROVE  None \notin DOMAIN info /\ IsFiniteSet(DOMAIN info)
<1>1. None \notin DOMAIN info
  BY DEF EntriesOK, None
<1>2. IsFiniteSet(0..(count - 1))
  <2>1. 0 \in Int /\ count - 1 \in Int
    BY DEF EntriesOK
  <2> QED BY <2>1, FS_Interval
<1> QED BY <1>1, <1>2, FS_Subset DEF EntriesOK

\* There are finitely many "new" slots.
LEMMA SlotsFinite == IsFiniteSet(NewSlots)
<1>1. IsFiniteSet(1..NewBuckets) /\ IsFiniteSet(1..BucketSize)
  BY FS_Interval, AddrAssumption
<1> QED BY <1>1, FS_Product DEF NewSlots

\* An entry without references has no slot, one with a slot has a reference.
LEMMA HeldCounted ==
    ASSUME NEW vn, NEW id
    PROVE  /\ IsFiniteSet(SlotsOf(vn, id)) /\ Cardinality(SlotsOf(vn, id)) \in Nat
           /\ Cardinality(SlotsOf(vn, id)) = 0 <=> \A s \in NewSlots : vn[s] # id
<1>1. IsFiniteSet(SlotsOf(vn, id))
  BY SlotsFinite, FS_Subset DEF SlotsOf
<1>2. Cardinality(SlotsOf(vn, id)) \in Nat /\ (Cardinality(SlotsOf(vn, id)) = 0 <=> SlotsOf(vn, id) = {})
  BY <1>1, FS_CardinalityType, FS_EmptySet
<1>3. SlotsOf(vn, id) = {} <=> \A s \in NewSlots : vn[s] # id
  BY DEF SlotsOf
<1> QED BY <1>1, <1>2, <1>3

-----------------------------------------------------------------------------
(* The "new" table.                                                        *)

\* A slot is taken from its entry.
LEMMA NewFree ==
    ASSUME NEW info, NEW vn, NewOK(info, vn), NEW slot \in NewSlots, NEW id \in DOMAIN info, vn[slot] = id,
           None \notin DOMAIN info,
           NEW info2, DOMAIN info2 = DOMAIN info, \A i \in DOMAIN info : info2[i].addr = info[i].addr,
           \A i \in DOMAIN info : i # id => info2[i].nRefCount = info[i].nRefCount,
           info2[id].nRefCount = info[id].nRefCount - 1,
           NEW vn2, vn2 = [vn EXCEPT ![slot] = None]
    PROVE  NewOK(info2, vn2)
<1>1. vn2 \in [NewSlots -> DOMAIN info2 \cup {None}]
  BY DEF NewOK
<1>2. \A s \in NewSlots : vn2[s] # None => s = NewSlot(s[1], info2[vn2[s]].addr)
  BY <1>1 DEF NewOK
<1>3. ASSUME NEW i \in DOMAIN info2 PROVE info2[i].nRefCount = Cardinality(SlotsOf(vn2, i))
  <2>1. CASE i = id
    <3>1. SlotsOf(vn2, i) = SlotsOf(vn, i) \ {slot} /\ slot \in SlotsOf(vn, i)
      BY <2>1 DEF NewOK, SlotsOf
    <3>2. IsFiniteSet(SlotsOf(vn, i))
      BY HeldCounted
    <3>3. Cardinality(SlotsOf(vn2, i)) = Cardinality(SlotsOf(vn, i)) - 1
      BY <3>1, <3>2, FS_RemoveElement
    <3> QED BY <2>1, <3>3 DEF NewOK
  <2>2. CASE i # id
    <3>1. SlotsOf(vn2, i) = SlotsOf(vn, i)
      BY <2>2 DEF NewOK, SlotsOf
    <3> QED BY <2>2, <3>1 DEF NewOK
  <2> QED BY <2>1, <2>2
<1> QED BY <1>1, <1>2, <1>3 DEF NewOK

\* The address belongs in the slot.
Belongs(slot, a) == slot = NewSlot(slot[1], a)

\* f2 is f with y for x.
Updated(f2, f, x, y) == f2 = [f EXCEPT ![x] = y]

\* A free slot is given to an entry that belongs there.
LEMMA NewPut ==
    ASSUME NEW info, NEW vn, NewOK(info, vn), NEW slot \in NewSlots, NEW id \in DOMAIN info, vn[slot] = None,
           None \notin DOMAIN info, Belongs(slot, info[id].addr),
           NEW info2, DOMAIN info2 = DOMAIN info, \A i \in DOMAIN info : info2[i].addr = info[i].addr,
           \A i \in DOMAIN info : i # id => info2[i].nRefCount = info[i].nRefCount,
           info2[id].nRefCount = info[id].nRefCount + 1,
           NEW vn2, Updated(vn2, vn, slot, id)
    PROVE  NewOK(info2, vn2)
<1>0. vn2 = [vn EXCEPT ![slot] = id]
  BY DEF Updated
<1>1. vn2 \in [NewSlots -> DOMAIN info2 \cup {None}]
  BY <1>0 DEF NewOK
<1>2. \A s \in NewSlots : vn2[s] # None => s = NewSlot(s[1], info2[vn2[s]].addr)
  BY <1>0, <1>1 DEF NewOK, Belongs
<1>3. ASSUME NEW i \in DOMAIN info2 PROVE info2[i].nRefCount = Cardinality(SlotsOf(vn2, i))
  <2>1. CASE i = id
    <3>1. SlotsOf(vn2, i) = SlotsOf(vn, i) \cup {slot} /\ slot \notin SlotsOf(vn, i)
      BY <1>0, <2>1 DEF NewOK, SlotsOf
    <3>2. Cardinality(SlotsOf(vn2, i)) = Cardinality(SlotsOf(vn, i)) + 1
      BY <3>1, HeldCounted, FS_AddElement
    <3> QED BY <2>1, <3>2 DEF NewOK
  <2>2. CASE i # id
    <3>1. SlotsOf(vn2, i) = SlotsOf(vn, i)
      BY <1>0, <2>2 DEF NewOK, SlotsOf
    <3> QED BY <2>2, <3>1 DEF NewOK
  <2> QED BY <2>1, <2>2
<1> QED BY <1>1, <1>2, <1>3 DEF NewOK

\* An entry leaves all its slots.
LEMMA NewLeave ==
    ASSUME NEW info, NEW vn, NewOK(info, vn), NEW id \in DOMAIN info, None \notin DOMAIN info,
           NEW info2, DOMAIN info2 = DOMAIN info, \A i \in DOMAIN info : info2[i].addr = info[i].addr,
           \A i \in DOMAIN info : i # id => info2[i].nRefCount = info[i].nRefCount,
           info2[id].nRefCount = 0,
           NEW vn2, vn2 = [s \in NewSlots |-> IF vn[s] = id THEN None ELSE vn[s]]
    PROVE  NewOK(info2, vn2)
<1>1. vn2 \in [NewSlots -> DOMAIN info2 \cup {None}]
  BY DEF NewOK
<1>2. \A s \in NewSlots : vn2[s] # None => s = NewSlot(s[1], info2[vn2[s]].addr)
  BY <1>1 DEF NewOK
<1>3. ASSUME NEW i \in DOMAIN info2 PROVE info2[i].nRefCount = Cardinality(SlotsOf(vn2, i))
  <2>1. CASE i = id
    <3>1. \A s \in NewSlots : vn2[s] # i
      BY <2>1
    <3> QED BY <2>1, <3>1, HeldCounted
  <2>2. CASE i # id
    <3>1. SlotsOf(vn2, i) = SlotsOf(vn, i)
      BY <2>2 DEF NewOK, SlotsOf
    <3> QED BY <2>2, <3>1 DEF NewOK
  <2> QED BY <2>1, <2>2
<1> QED BY <1>1, <1>2, <1>3 DEF NewOK

\* An entry without a slot comes or goes.
LEMMA NewOther ==
    ASSUME NEW info, NEW vn, NewOK(info, vn), NEW info2,
           \A i \in DOMAIN info : i \notin DOMAIN info2 => info[i].nRefCount = 0,
           \A i \in DOMAIN info2 : i \notin DOMAIN info => i # None /\ info2[i].nRefCount = 0,
           \A i \in DOMAIN info : i \in DOMAIN info2 =>
                info2[i].addr = info[i].addr /\ info2[i].nRefCount = info[i].nRefCount
    PROVE  NewOK(info2, vn)
<1>1. ASSUME NEW s \in NewSlots, vn[s] # None PROVE vn[s] \in DOMAIN info2
  <2>1. vn[s] \in DOMAIN info /\ info[vn[s]].nRefCount = Cardinality(SlotsOf(vn, vn[s]))
    BY <1>1 DEF NewOK
  <2>2. Cardinality(SlotsOf(vn, vn[s])) # 0
    BY HeldCounted
  <2> QED BY <2>1, <2>2
<1>2. vn \in [NewSlots -> DOMAIN info2 \cup {None}]
  BY <1>1 DEF NewOK
<1>3. \A s \in NewSlots : vn[s] # None => s = NewSlot(s[1], info2[vn[s]].addr)
  BY <1>1 DEF NewOK
<1>4. ASSUME NEW i \in DOMAIN info2 PROVE info2[i].nRefCount = Cardinality(SlotsOf(vn, i))
  <2>1. CASE i \in DOMAIN info
    BY <2>1 DEF NewOK
  <2>2. CASE i \notin DOMAIN info
    <3>1. \A s \in NewSlots : vn[s] # i
      BY <2>2 DEF NewOK
    <3> QED BY <2>2, <3>1, HeldCounted
  <2> QED BY <2>1, <2>2
<1> QED BY <1>2, <1>3, <1>4 DEF NewOK

-----------------------------------------------------------------------------
(* vRandom.                                                                *)

\* Create appends the new id.
LEMMA RandomAdd ==
    ASSUME NEW info, NEW rnd, RandomOK(info, rnd), NEW id, id \notin DOMAIN info,
           NEW info2, DOMAIN info2 = DOMAIN info \cup {id},
           \A i \in DOMAIN info : info2[i].nRandomPos = info[i].nRandomPos,
           info2[id].nRandomPos = Len(rnd) + 1,
           NEW rnd2, rnd2 = Append(rnd, id)
    PROVE  RandomOK(info2, rnd2)
<1>1. rnd \in Seq(DOMAIN info) /\ Len(rnd) \in Nat
  BY DEF RandomOK
<1>2. /\ rnd2 \in Seq(DOMAIN info2) /\ Len(rnd2) = Len(rnd) + 1 /\ rnd2[Len(rnd) + 1] = id
      /\ \A k \in 1..Len(rnd) : rnd2[k] = rnd[k] /\ rnd[k] \in DOMAIN info
  <2>1. rnd \in Seq(DOMAIN info2) /\ id \in DOMAIN info2
    BY <1>1
  <2> QED BY <1>1, <2>1
<1>3. ASSUME NEW i \in DOMAIN info2
      PROVE  info2[i].nRandomPos \in 1..Len(rnd2) /\ rnd2[info2[i].nRandomPos] = i
  <2>1. CASE i = id
    BY <1>1, <1>2, <2>1
  <2>2. CASE i \in DOMAIN info
    BY <1>1, <1>2, <2>2 DEF RandomOK
  <2> QED BY <2>1, <2>2
<1>4. ASSUME NEW k \in 1..Len(rnd2) PROVE info2[rnd2[k]].nRandomPos = k
  <2>1. CASE k = Len(rnd) + 1
    BY <1>2, <2>1
  <2>2. CASE k # Len(rnd) + 1
    <3>1. k \in 1..Len(rnd)
      BY <1>1, <1>2, <2>2
    <3> QED BY <1>2, <3>1 DEF RandomOK
  <2> QED BY <2>1, <2>2
<1> QED BY <1>2, <1>3, <1>4 DEF RandomOK

\* SwapRandom exchanges two ids and their positions.
LEMMA RandomSwapped ==
    ASSUME NEW info, NEW rnd, RandomOK(info, rnd), NEW p \in 1..Len(rnd), NEW q \in 1..Len(rnd), p # q,
           NEW info2, DOMAIN info2 = DOMAIN info,
           info2[rnd[p]].nRandomPos = q, info2[rnd[q]].nRandomPos = p,
           \A i \in DOMAIN info : i # rnd[p] /\ i # rnd[q] => info2[i].nRandomPos = info[i].nRandomPos,
           NEW rnd2, rnd2 \in Seq(DOMAIN info), Len(rnd2) = Len(rnd), rnd2[p] = rnd[q], rnd2[q] = rnd[p],
           \A k \in 1..Len(rnd) : k # p /\ k # q => rnd2[k] = rnd[k]
    PROVE  RandomOK(info2, rnd2)
<1>1. rnd \in Seq(DOMAIN info) /\ Len(rnd) \in Nat
  BY DEF RandomOK
<1>2. /\ rnd2 \in Seq(DOMAIN info2) /\ Len(rnd2) = Len(rnd)
      /\ rnd2[p] = rnd[q] /\ rnd2[q] = rnd[p]
      /\ \A k \in 1..Len(rnd) : k # p /\ k # q => rnd2[k] = rnd[k]
      /\ \A k \in 1..Len(rnd) : rnd[k] \in DOMAIN info
  BY <1>1
<1>3. ASSUME NEW i \in DOMAIN info2
      PROVE  info2[i].nRandomPos \in 1..Len(rnd2) /\ rnd2[info2[i].nRandomPos] = i
  <2>1. CASE i = rnd[p] \/ i = rnd[q]
    BY <1>2, <2>1
  <2>2. CASE i # rnd[p] /\ i # rnd[q]
    <3>1. info2[i].nRandomPos \in 1..Len(rnd) /\ rnd[info2[i].nRandomPos] = i
      BY <2>2 DEF RandomOK
    <3>2. info2[i].nRandomPos # p /\ info2[i].nRandomPos # q
      BY <2>2, <3>1
    <3> QED BY <1>2, <3>1, <3>2
  <2> QED BY <2>1, <2>2
<1>4. ASSUME NEW k \in 1..Len(rnd2) PROVE info2[rnd2[k]].nRandomPos = k
  <2>1. CASE k = p \/ k = q
    BY <1>2, <2>1
  <2>2. CASE k # p /\ k # q
    <3>1. rnd2[k] = rnd[k] /\ info[rnd[k]].nRandomPos = k /\ rnd[k] \in DOMAIN info
      BY <1>2, <2>2 DEF RandomOK
    <3>2. rnd[k] # rnd[p] /\ rnd[k] # rnd[q]
      <4>1. info[rnd[p]].nRandomPos = p /\ info[rnd[q]].nRandomPos = q
        BY DEF RandomOK
      <4> QED BY <2>2, <3>1, <4>1
    <3> QED BY <3>1, <3>2
  <2> QED BY <2>1, <2>2
<1> QED BY <1>2, <1>3, <1>4 DEF RandomOK

\* A sequence without its last element
LEMMA ShorterSequence ==
    ASSUME NEW S, NEW T, NEW s \in Seq(S), Len(s) > 0, \A k \in 1..(Len(s) - 1) : s[k] \in T
    PROVE  /\ SubSeq(s, 1, Len(s) - 1) \in Seq(T)
           /\ Len(SubSeq(s, 1, Len(s) - 1)) = Len(s) - 1
           /\ \A k \in 1..(Len(s) - 1) : SubSeq(s, 1, Len(s) - 1)[k] = s[k]
<1> DEFINE n == Len(s) - 1
<1>1. n \in Nat
  OBVIOUS
<1>2. SubSeq(s, 1, n) = [k \in 1..n |-> s[k]]
  BY <1>1
<1>3. [k \in 1..n |-> s[k]] \in Seq(T)
  BY <1>1
<1> DEFINE w == [k \in 1..n |-> s[k]]
<1>4. Len(w) = n /\ \A k \in 1..n : w[k] = s[k]
  BY <1>1
<1> HIDE DEF w
<1> QED BY <1>2, <1>3, <1>4 DEF w

\* Delete takes away the last id, once the entry has come to the end.
LEMMA RandomDrop ==
    ASSUME NEW info, NEW rnd, RandomOK(info, rnd), NEW id \in DOMAIN info,
           info[id].nRandomPos = Len(rnd),
           NEW info2, \A i : i \in DOMAIN info2 <=> i \in DOMAIN info /\ i # id,
           \A i \in DOMAIN info2 : info2[i].nRandomPos = info[i].nRandomPos
    PROVE  RandomOK(info2, SubSeq(rnd, 1, Len(rnd) - 1))
<1> DEFINE rnd2 == SubSeq(rnd, 1, Len(rnd) - 1)
<1>1. rnd \in Seq(DOMAIN info) /\ Len(rnd) \in Nat /\ Len(rnd) > 0 /\ rnd[Len(rnd)] = id
  BY DEF RandomOK
<1>2. ASSUME NEW k \in 1..(Len(rnd) - 1) PROVE rnd[k] \in DOMAIN info2 /\ info2[rnd[k]].nRandomPos = k
  <2>1. k \in 1..Len(rnd) /\ k # Len(rnd)
    BY <1>1
  <2>2. rnd[k] \in DOMAIN info /\ info[rnd[k]].nRandomPos = k
    BY <1>1, <2>1 DEF RandomOK
  <2> QED BY <2>1, <2>2
<1>3. /\ rnd2 \in Seq(DOMAIN info2) /\ Len(rnd2) = Len(rnd) - 1
      /\ \A k \in 1..(Len(rnd) - 1) : rnd2[k] = rnd[k]
  <2> DEFINE T == DOMAIN info2
  <2>1. \A k \in 1..(Len(rnd) - 1) : rnd[k] \in T
    BY <1>2
  <2> HIDE DEF T
  <2>2. /\ rnd2 \in Seq(T) /\ Len(rnd2) = Len(rnd) - 1
        /\ \A k \in 1..(Len(rnd) - 1) : rnd2[k] = rnd[k]
    BY <1>1, <2>1, ShorterSequence
  <2> QED BY <2>2 DEF T
<1>4. \A k \in 1..Len(rnd2) : info2[rnd2[k]].nRandomPos = k
  BY <1>2, <1>3
<1>5. ASSUME NEW i \in DOMAIN info2
      PROVE  info2[i].nRandomPos \in 1..Len(rnd2) /\ rnd2[info2[i].nRandomPos] = i
  <2>1. info[i].nRandomPos \in 1..Len(rnd) /\ rnd[info[i].nRandomPos] = i /\ i # id
    BY DEF RandomOK
  <2>2. info[i].nRandomPos # Len(rnd)
    BY <1>1, <2>1
  <2> QED BY <1>1, <1>3, <2>1, <2>2
<1> QED BY <1>3, <1>4, <1>5 DEF RandomOK

\* A step that leaves the positions alone
LEMMA RandomSame ==
    ASSUME NEW info, NEW rnd, RandomOK(info, rnd), NEW info2, DOMAIN info2 = DOMAIN info,
           \A i \in DOMAIN info : info2[i].nRandomPos = info[i].nRandomPos
    PROVE  RandomOK(info2, rnd)
<1>1. \A k \in 1..Len(rnd) : rnd[k] \in DOMAIN info
  BY DEF RandomOK
<1> QED BY <1>1 DEF RandomOK

\* vRandom is as long as there are entries.
LEMMA RandomLength ==
    ASSUME NEW info, NEW rnd, RandomOK(info, rnd)
    PROVE  Len(rnd) = Cardinality(DOMAIN info)
<1>1. rnd \in Seq(DOMAIN info) /\ Len(rnd) \in Nat
  BY DEF RandomOK
<1> DEFINE S == 1..Len(rnd)
           T == DOMAIN info
<1>2. rnd \in [S -> T]
  BY <1>1
<1>3. rnd \in Injection(S, T)
  BY <1>2 DEF Injection, IsInjective, RandomOK
<1>4. rnd \in Surjection(S, T)
  BY <1>2 DEF Surjection, RandomOK
<1>5. ExistsBijection(S, T)
  BY <1>3, <1>4 DEF ExistsBijection, Bijection
<1>6. IsFiniteSet(S) /\ Cardinality(S) = Len(rnd)
  <2> DEFINE n == Len(rnd)
  <2>1. n \in Nat /\ 1 \in Int /\ n \in Int
    BY <1>1
  <2> HIDE DEF n
  <2>2. IsFiniteSet(1..n) /\ Cardinality(1..n) = n
    BY <2>1, FS_Interval
  <2> QED BY <2>2 DEF n
<1> HIDE DEF S, T
<1>7. Cardinality(T) = Cardinality(S)
  BY <1>5, <1>6, FS_Bijection
<1> QED BY <1>6, <1>7 DEF T

-----------------------------------------------------------------------------
(* mapAddr.                                                                *)

\* Create adds an address that is not known.
LEMMA AddrAdd ==
    ASSUME NEW info, NEW ad, AddrOK(info, ad), NEW id, id \notin DOMAIN info, NEW a, a \notin DOMAIN ad,
           NEW info2, DOMAIN info2 = DOMAIN info \cup {id},
           \A i \in DOMAIN info : info2[i].addr = info[i].addr, info2[id].addr = a,
           NEW ad2, \A b : b \in DOMAIN ad2 <=> b \in DOMAIN ad \/ b = a, ad2[a] = id, \A b \in DOMAIN ad : ad2[b] = ad[b]
    PROVE  AddrOK(info2, ad2)
<1>1. /\ DOMAIN ad2 = DOMAIN ad \cup {a} /\ ad2[a] = id
      /\ \A b \in DOMAIN ad : ad2[b] = ad[b]
  OBVIOUS
<1>2. \A i \in DOMAIN info2 : info2[i].addr \in DOMAIN ad2 /\ ad2[info2[i].addr] = i
  BY <1>1 DEF AddrOK
<1>3. \A b \in DOMAIN ad2 : ad2[b] \in DOMAIN info2 /\ info2[ad2[b]].addr = b
  BY <1>1 DEF AddrOK
<1> QED BY <1>1, <1>2, <1>3 DEF AddrOK

\* Delete removes the address of the entry.
LEMMA AddrDrop ==
    ASSUME NEW info, NEW ad, AddrOK(info, ad), NEW id \in DOMAIN info,
           NEW info2, \A i : i \in DOMAIN info2 <=> i \in DOMAIN info /\ i # id,
           \A i \in DOMAIN info2 : info2[i].addr = info[i].addr,
           NEW ad2, \A b : b \in DOMAIN ad2 <=> b \in DOMAIN ad /\ b # info[id].addr,
           \A b \in DOMAIN ad2 : ad2[b] = ad[b]
    PROVE  AddrOK(info2, ad2)
<1>1. DOMAIN ad2 = DOMAIN ad \ {info[id].addr} /\ \A b \in DOMAIN ad2 : ad2[b] = ad[b]
  OBVIOUS
<1>2. \A i \in DOMAIN info2 : info2[i].addr \in DOMAIN ad2 /\ ad2[info2[i].addr] = i
  BY <1>1 DEF AddrOK
<1>3. \A b \in DOMAIN ad2 : ad2[b] \in DOMAIN info2 /\ info2[ad2[b]].addr = b
  BY <1>1 DEF AddrOK
<1> QED BY <1>1, <1>2, <1>3 DEF AddrOK

\* A step that leaves the addresses alone
LEMMA AddrSame ==
    ASSUME NEW info, NEW ad, AddrOK(info, ad), NEW info2, DOMAIN info2 = DOMAIN info,
           \A i \in DOMAIN info : info2[i].addr = info[i].addr
    PROVE  AddrOK(info2, ad)
BY DEF AddrOK

-----------------------------------------------------------------------------
(* The "tried" table.                                                      *)

\* Entries that are not in tried come or go.
LEMMA TriedOther ==
    ASSUME NEW info, NEW vt, TriedOK(info, vt), NEW info2,
           \A i \in DOMAIN info : i \notin DOMAIN info2 => ~info[i].fInTried,
           \A i \in DOMAIN info2 : i \notin DOMAIN info => ~info2[i].fInTried,
           \A i \in DOMAIN info : i \in DOMAIN info2 =>
                info2[i].addr = info[i].addr /\ (info2[i].fInTried <=> info[i].fInTried)
    PROVE  TriedOK(info2, vt)
<1>1. \A k \in TriedSlots : vt[k] # None => vt[k] \in DOMAIN info /\ vt[k] \in DOMAIN info2
  BY DEF TriedOK
<1>2. vt \in [TriedSlots -> DOMAIN info2 \cup {None}]
  BY <1>1 DEF TriedOK
<1>3. \A k \in TriedSlots : vt[k] # None => info2[vt[k]].fInTried /\ k = TriedSlot[info2[vt[k]].addr]
  BY <1>1 DEF TriedOK
<1>4. \A i \in DOMAIN info2 : info2[i].fInTried => vt[TriedSlot[info2[i].addr]] = i
  BY DEF TriedOK
<1> QED BY <1>2, <1>3, <1>4 DEF TriedOK

\* An entry is put into its "tried" slot, which is free.
LEMMA TriedPut ==
    ASSUME NEW info, NEW vt, TriedOK(info, vt), NEW id \in DOMAIN info, None \notin DOMAIN info,
           ~info[id].fInTried, info[id].addr \in Addr,
           NEW k, k = TriedSlot[info[id].addr], vt[k] = None,
           NEW info2, DOMAIN info2 = DOMAIN info, info2[id].fInTried,
           \A i \in DOMAIN info : info2[i].addr = info[i].addr,
           \A i \in DOMAIN info : i # id => (info2[i].fInTried <=> info[i].fInTried),
           NEW vt2, Updated(vt2, vt, k, id)
    PROVE  TriedOK(info2, vt2)
<1>0. k \in TriedSlots
  BY AddrAssumption
<1>1. /\ vt2 \in [TriedSlots -> DOMAIN info2 \cup {None}] /\ vt2[k] = id
      /\ \A j \in TriedSlots : j # k => vt2[j] = vt[j]
      /\ \A j \in TriedSlots : j # k /\ vt[j] # None => vt[j] # id /\ vt[j] \in DOMAIN info
  BY <1>0 DEF TriedOK, Updated
<1>3. \A j \in TriedSlots : vt2[j] # None => info2[vt2[j]].fInTried /\ j = TriedSlot[info2[vt2[j]].addr]
  BY <1>1 DEF TriedOK
<1>4. ASSUME NEW i \in DOMAIN info2, info2[i].fInTried PROVE vt2[TriedSlot[info2[i].addr]] = i
  <2>1. CASE i = id
    BY <1>1, <2>1
  <2>2. CASE i # id
    <3>1. vt[TriedSlot[info[i].addr]] = i
      BY <1>4, <2>2 DEF TriedOK
    <3>2. TriedSlot[info[i].addr] # k
      BY <3>1
    <3> QED BY <3>1, <3>2 DEF TriedOK, Updated
  <2> QED BY <2>1, <2>2
<1> QED BY <1>1, <1>3, <1>4 DEF TriedOK

\* The entry of a "tried" slot is taken out of it.
LEMMA TriedOut ==
    ASSUME NEW info, NEW vt, TriedOK(info, vt), NEW k \in TriedSlots, None \notin DOMAIN info,
           NEW id, id = vt[k], id \in DOMAIN info,
           NEW info2, DOMAIN info2 = DOMAIN info, ~info2[id].fInTried,
           \A i \in DOMAIN info : info2[i].addr = info[i].addr,
           \A i \in DOMAIN info : i # id => (info2[i].fInTried <=> info[i].fInTried),
           NEW vt2, vt2 = [vt EXCEPT ![k] = None]
    PROVE  TriedOK(info2, vt2)
<1>1. /\ vt2 \in [TriedSlots -> DOMAIN info2 \cup {None}] /\ vt2[k] = None
      /\ \A j \in TriedSlots : j # k => vt2[j] = vt[j]
  BY DEF TriedOK
<1>2. \A j \in TriedSlots : j # k => vt[j] # id
  BY DEF TriedOK
<1>3. \A j \in TriedSlots : vt2[j] # None => info2[vt2[j]].fInTried /\ j = TriedSlot[info2[vt2[j]].addr]
  BY <1>1, <1>2 DEF TriedOK
<1>4. ASSUME NEW i \in DOMAIN info2, info2[i].fInTried PROVE vt2[TriedSlot[info2[i].addr]] = i
  <2>1. i # id /\ info[i].fInTried
    BY <1>4
  <2>2. vt[TriedSlot[info[i].addr]] = i
    BY <2>1 DEF TriedOK
  <2>3. TriedSlot[info[i].addr] # k
    BY <2>1, <2>2
  <2> QED BY <2>2, <2>3 DEF TriedOK
<1> QED BY <1>1, <1>3, <1>4 DEF TriedOK

-----------------------------------------------------------------------------
(* Counters.                                                               *)

\* What the counters count is finite.
LEMMA IdsFinite ==
    ASSUME NEW info, IsFiniteSet(DOMAIN info), NEW X
    PROVE  /\ IsFiniteSet(TriedIds(info)) /\ Cardinality(TriedIds(info)) \in Nat
           /\ IsFiniteSet(NewIds(info, X)) /\ Cardinality(NewIds(info, X)) \in Nat
<1>1. TriedIds(info) \in SUBSET DOMAIN info /\ NewIds(info, X) \in SUBSET DOMAIN info
  BY DEF TriedIds, NewIds
<1>2. IsFiniteSet(TriedIds(info)) /\ IsFiniteSet(NewIds(info, X))
  BY <1>1, FS_Subset
<1> QED BY <1>2, FS_CardinalityType

\* The counters when one entry is counted in or out.
LEMMA CountedIn ==
    ASSUME NEW S, IsFiniteSet(S), NEW id, NEW T
    PROVE  /\ id \notin S /\ T = S \cup {id} => Cardinality(T) = Cardinality(S) + 1
           /\ id \in S /\ T = S \ {id} => Cardinality(T) = Cardinality(S) - 1
BY FS_AddElement, FS_RemoveElement

-----------------------------------------------------------------------------
(* The tables as a whole.                                                  *)

\* The members of CAddrMan
Fields == {"mapInfo", "mapAddr", "vRandom", "nIdCount", "nNew", "nTried", "vvNew", "vvTried", "ok"}

\* t is a record of them.
IsTables(t) == t = [f \in Fields |-> t[f]]

\* The inductive invariant is Consistent(m, {}, {}).
Consistent(t, X, Y) ==
    /\ IsTables(t) /\ t.ok
    /\ EntriesOK(t.mapInfo, t.nIdCount)
    /\ RandomOK(t.mapInfo, t.vRandom)
    /\ AddrOK(t.mapInfo, t.mapAddr)
    /\ NewOK(t.mapInfo, t.vvNew)
    /\ TriedOK(t.mapInfo, t.vvTried)
    /\ RefsOK(t.mapInfo, X, Y)
    /\ CountOK(t.mapInfo, t.nNew, t.nTried, X)

\* Entries that differ in their places in vRandom only
LEMMA PartsSame ==
    ASSUME NEW info, NEW info2, DOMAIN info2 = DOMAIN info, \A i \in DOMAIN info : Same(info2[i], info[i]),
           NEW ad, AddrOK(info, ad), NEW vn, NewOK(info, vn), None \notin DOMAIN info,
           NEW vt, TriedOK(info, vt), NEW X, NEW Y, RefsOK(info, X, Y),
           NEW nn, NEW nt, CountOK(info, nn, nt, X)
    PROVE  AddrOK(info2, ad) /\ NewOK(info2, vn) /\ TriedOK(info2, vt) /\ RefsOK(info2, X, Y)
           /\ CountOK(info2, nn, nt, X)
<1>1. AddrOK(info2, ad)
  BY AddrSame DEF Same
<1>2. NewOK(info2, vn)
  BY NewOther DEF Same
<1>3. TriedOK(info2, vt)
  BY TriedOther DEF Same
<1>4. RefsOK(info2, X, Y)
  BY DEF RefsOK, Same
<1>5. TriedIds(info2) = TriedIds(info) /\ NewIds(info2, X) = NewIds(info, X)
  BY DEF TriedIds, NewIds, Same
<1> QED BY <1>1, <1>2, <1>3, <1>4, <1>5 DEF CountOK

\* The fields of an entry after one of them is set
LEMMA EntrySet ==
    ASSUME NEW e \in Entry
    PROVE  /\ \A n \in Nat : LET f == [e EXCEPT !.nRefCount = n] IN
                /\ f \in Entry /\ f.addr = e.addr /\ f.source = e.source /\ f.nRefCount = n
                /\ f.fInTried = e.fInTried /\ f.nRandomPos = e.nRandomPos
           /\ \A n \in Nat : LET f == [e EXCEPT !.nRandomPos = n] IN
                /\ f \in Entry /\ f.addr = e.addr /\ f.source = e.source /\ f.nRefCount = e.nRefCount
                /\ f.fInTried = e.fInTried /\ f.nRandomPos = n
           /\ \A b \in BOOLEAN : LET f == [e EXCEPT !.fInTried = b] IN
                /\ f \in Entry /\ f.addr = e.addr /\ f.source = e.source /\ f.nRefCount = e.nRefCount
                /\ f.fInTried = b /\ f.nRandomPos = e.nRandomPos
<1>1. e = [addr |-> e.addr, source |-> e.source, nRefCount |-> e.nRefCount,
           fInTried |-> e.fInTried, nRandomPos |-> e.nRandomPos]
  BY DEF Entry
<1>0. e.addr \in Addr /\ e.source \in Source /\ e.nRefCount \in Nat /\ e.fInTried \in BOOLEAN /\ e.nRandomPos \in Nat
  BY DEF Entry
<1>2. ASSUME NEW n \in Nat, NEW f, f = [e EXCEPT !.nRefCount = n] PROVE f \in Entry /\ f.addr = e.addr /\ f.source = e.source /\ f.nRefCount = n
                /\ f.fInTried = e.fInTried /\ f.nRandomPos = e.nRandomPos
  <2>1. f = [addr |-> e.addr, source |-> e.source, nRefCount |-> n, fInTried |-> e.fInTried, nRandomPos |-> e.nRandomPos]
    BY <1>1, <1>2, Zenon
  <2> QED BY <1>0, <2>1 DEF Entry
<1>3. ASSUME NEW n \in Nat, NEW f, f = [e EXCEPT !.nRandomPos = n] PROVE f \in Entry /\ f.addr = e.addr /\ f.source = e.source /\ f.nRefCount = e.nRefCount
                /\ f.fInTried = e.fInTried /\ f.nRandomPos = n
  <2>1. f = [addr |-> e.addr, source |-> e.source, nRefCount |-> e.nRefCount, fInTried |-> e.fInTried, nRandomPos |-> n]
    BY <1>1, <1>3, Zenon
  <2> QED BY <1>0, <2>1 DEF Entry
<1>4. ASSUME NEW b \in BOOLEAN, NEW f, f = [e EXCEPT !.fInTried = b] PROVE f \in Entry /\ f.addr = e.addr /\ f.source = e.source /\ f.nRefCount = e.nRefCount
                /\ f.fInTried = b /\ f.nRandomPos = e.nRandomPos
  <2>1. f = [addr |-> e.addr, source |-> e.source, nRefCount |-> e.nRefCount, fInTried |-> b, nRandomPos |-> e.nRandomPos]
    BY <1>1, <1>4, Zenon
  <2> QED BY <1>0, <2>1 DEF Entry
<1> QED BY <1>2, <1>3, <1>4

\* At most the entry id differs, and not in its address and source.
Rest(info, info2, D, id) ==
    /\ DOMAIN info2 = D /\ info2 \in [D -> Entry]
    /\ \A i \in D : i # id => info2[i] = info[i]
    /\ info2[id].addr = info[id].addr /\ info2[id].source = info[id].source

RefsSet(info, info2, D, id, n) ==
    /\ Rest(info, info2, D, id) /\ info2[id].nRefCount = n
    /\ info2[id].fInTried = info[id].fInTried /\ info2[id].nRandomPos = info[id].nRandomPos

PosSet(info, info2, D, id, n) ==
    /\ Rest(info, info2, D, id) /\ info2[id].nRandomPos = n
    /\ info2[id].nRefCount = info[id].nRefCount /\ info2[id].fInTried = info[id].fInTried

TriedSet(info, info2, D, id, b) ==
    /\ Rest(info, info2, D, id) /\ info2[id].fInTried = b
    /\ info2[id].nRefCount = info[id].nRefCount /\ info2[id].nRandomPos = info[id].nRandomPos

\* The entries after the references of one are set,
LEMMA SetRefs ==
    ASSUME NEW D, NEW info \in [D -> Entry], NEW id \in D, NEW n \in Nat,
           NEW info2, info2 = [info EXCEPT ![id].nRefCount = n]
    PROVE  RefsSet(info, info2, D, id, n)
<1> DEFINE f == [info[id] EXCEPT !.nRefCount = n]
<1>1. /\ f \in Entry /\ f.addr = info[id].addr /\ f.source = info[id].source
      /\ f.nRefCount = n
      /\ f.fInTried = info[id].fInTried
      /\ f.nRandomPos = info[id].nRandomPos
  BY EntrySet
<1>2. info2 = [info EXCEPT ![id] = f]
  OBVIOUS
<1> HIDE DEF f
<1> QED BY <1>1, <1>2 DEF RefsSet, Rest

\* after its position in vRandom is set,
LEMMA SetPos ==
    ASSUME NEW D, NEW info \in [D -> Entry], NEW id \in D, NEW n \in Nat,
           NEW info2, info2 = [info EXCEPT ![id].nRandomPos = n]
    PROVE  PosSet(info, info2, D, id, n)
<1> DEFINE f == [info[id] EXCEPT !.nRandomPos = n]
<1>1. /\ f \in Entry /\ f.addr = info[id].addr /\ f.source = info[id].source
      /\ f.nRefCount = info[id].nRefCount
      /\ f.fInTried = info[id].fInTried
      /\ f.nRandomPos = n
  BY EntrySet
<1>2. info2 = [info EXCEPT ![id] = f]
  OBVIOUS
<1> HIDE DEF f
<1> QED BY <1>1, <1>2 DEF PosSet, Rest

\* and after it is marked as tried or not.
LEMMA SetTried ==
    ASSUME NEW D, NEW info \in [D -> Entry], NEW id \in D, NEW n \in BOOLEAN,
           NEW info2, info2 = [info EXCEPT ![id].fInTried = n]
    PROVE  TriedSet(info, info2, D, id, n)
<1> DEFINE f == [info[id] EXCEPT !.fInTried = n]
<1>1. /\ f \in Entry /\ f.addr = info[id].addr /\ f.source = info[id].source
      /\ f.nRefCount = info[id].nRefCount
      /\ f.fInTried = n
      /\ f.nRandomPos = info[id].nRandomPos
  BY EntrySet
<1>2. info2 = [info EXCEPT ![id] = f]
  OBVIOUS
<1> HIDE DEF f
<1> QED BY <1>1, <1>2 DEF TriedSet, Rest

\* What two entries exchange
LEMMA SwapKeeps ==
    ASSUME NEW t, NEW X, NEW Y, Consistent(t, X, Y),
           NEW p \in 1..Len(t.vRandom), NEW q \in 1..Len(t.vRandom),
           NEW u, u = SwapRandom(t, p, q)
    PROVE  /\ Consistent(u, X, Y)
           /\ DOMAIN u.mapInfo = DOMAIN t.mapInfo /\ \A i \in DOMAIN t.mapInfo : Same(u.mapInfo[i], t.mapInfo[i])
           /\ u.mapAddr = t.mapAddr /\ u.nIdCount = t.nIdCount /\ u.nNew = t.nNew /\ u.nTried = t.nTried
           /\ u.vvNew = t.vvNew /\ u.vvTried = t.vvTried
           /\ Len(u.vRandom) = Len(t.vRandom)
           /\ u.mapInfo[t.vRandom[p]].nRandomPos = q
<1> DEFINE info == t.mapInfo
           rnd == t.vRandom
<1>0. /\ IsTables(t) /\ t.ok /\ EntriesOK(info, t.nIdCount) /\ RandomOK(info, rnd)
      /\ AddrOK(info, t.mapAddr) /\ NewOK(info, t.vvNew) /\ TriedOK(info, t.vvTried)
      /\ RefsOK(info, X, Y) /\ CountOK(info, t.nNew, t.nTried, X)
  BY DEF Consistent
<1>1. None \notin DOMAIN info
  BY <1>0, NoneOutside
<1>2. rnd[p] \in DOMAIN info /\ rnd[q] \in DOMAIN info /\ info[rnd[p]].nRandomPos = p /\ info[rnd[q]].nRandomPos = q
  BY <1>0 DEF RandomOK
<1>3. CASE p = q
  <2>1. u = t
    BY <1>3 DEF SwapRandom
  <2> QED BY <1>0, <1>2, <1>3, <2>1 DEF Same
<1>4. CASE p # q
  <2> DEFINE i == rnd[p]
             j == rnd[q]
  <2>1. u = [t EXCEPT !.mapInfo[i].nRandomPos = q, !.mapInfo[j].nRandomPos = p,
                      !.vRandom[p] = j, !.vRandom[q] = i]
    BY <1>4 DEF SwapRandom
  <2>2. i # j /\ i \in DOMAIN info /\ j \in DOMAIN info
    BY <1>2, <1>4
  <2>3. IsTables(u)
    BY <1>0, <2>1, Zenon DEF IsTables, Fields
  <2>4. /\ u.mapInfo = [info EXCEPT ![i].nRandomPos = q, ![j].nRandomPos = p]
        /\ u.vRandom = [rnd EXCEPT ![p] = j, ![q] = i]
        /\ u.mapAddr = t.mapAddr /\ u.nIdCount = t.nIdCount /\ u.nNew = t.nNew /\ u.nTried = t.nTried
        /\ u.vvNew = t.vvNew /\ u.vvTried = t.vvTried /\ u.ok = t.ok
    BY <1>0, <2>1 DEF IsTables, Fields
  <2>5. info \in [DOMAIN info -> Entry]
    BY <1>0 DEF EntriesOK
  <2> HIDE DEF info, rnd, i, j
  <2> DEFINE info2 == u.mapInfo
  <2>6. /\ DOMAIN info2 = DOMAIN info /\ info2 \in [DOMAIN info -> Entry]
        /\ info2[i].nRandomPos = q /\ info2[j].nRandomPos = p
        /\ \A k \in DOMAIN info : k # i /\ k # j => info2[k] = info[k]
        /\ \A k \in DOMAIN info : Same(info2[k], info[k])
    <3> DEFINE mid == [info EXCEPT ![i].nRandomPos = q]
    <3>1. u.mapInfo = [mid EXCEPT ![j].nRandomPos = p]
      BY <2>4
    <3>2. q \in Nat /\ p \in Nat
      BY DEF rnd
    <3>3. PosSet(info, mid, DOMAIN info, i, q)
      BY <2>2, <2>5, <3>2, SetPos
    <3> HIDE DEF mid
    <3>4. mid \in [DOMAIN info -> Entry]
      BY <3>3 DEF PosSet, Rest
    <3>5. PosSet(mid, info2, DOMAIN info, j, p)
      BY <2>2, <3>1, <3>2, <3>4, SetPos
    <3> HIDE DEF info2
    <3> QED BY <2>2, <3>3, <3>5 DEF PosSet, Rest, Same
  <2>7. EntriesOK(info2, t.nIdCount)
    BY <1>0, <2>6 DEF EntriesOK
  <2>8. RandomOK(info2, u.vRandom) /\ Len(u.vRandom) = Len(rnd)
    <3> DEFINE rnd2 == u.vRandom
    <3>1. p \in 1..Len(rnd) /\ q \in 1..Len(rnd)
      BY DEF rnd
    <3>2. rnd2 = [rnd EXCEPT ![p] = rnd[q], ![q] = rnd[p]]
      BY <2>4 DEF i, j
    <3>6. /\ info2[rnd[p]].nRandomPos = q /\ info2[rnd[q]].nRandomPos = p
          /\ \A k \in DOMAIN info : k # rnd[p] /\ k # rnd[q] => info2[k].nRandomPos = info[k].nRandomPos
      BY <2>6 DEF i, j
    <3>3. DOMAIN info2 = DOMAIN info
      BY <2>6
    <3>4. /\ rnd2 \in Seq(DOMAIN info) /\ Len(rnd2) = Len(rnd) /\ rnd2[p] = rnd[q] /\ rnd2[q] = rnd[p]
          /\ \A k \in 1..Len(rnd) : k # p /\ k # q => rnd2[k] = rnd[k]
      <4>1. rnd \in Seq(DOMAIN info)
        BY <1>0 DEF RandomOK
      <4> HIDE DEF rnd2, info2
      <4> QED BY <1>4, <3>1, <3>2, <4>1
    <3> HIDE DEF info2, rnd2
    <3>5. RandomOK(info2, rnd2)
      BY <1>0, <1>4, <3>1, <3>3, <3>4, <3>6, RandomSwapped
    <3> QED BY <3>4, <3>5 DEF rnd2
  <2>9. /\ AddrOK(info2, t.mapAddr) /\ NewOK(info2, t.vvNew) /\ TriedOK(info2, t.vvTried)
        /\ RefsOK(info2, X, Y) /\ CountOK(info2, t.nNew, t.nTried, X)
    <3> HIDE DEF info2
    <3> QED BY <1>0, <1>1, <2>6, PartsSame
  <2>10. Consistent(u, X, Y)
    BY <1>0, <2>3, <2>4, <2>7, <2>8, <2>9 DEF Consistent
  <2> QED BY <2>4, <2>6, <2>8, <2>10 DEF info, rnd, i
<1> QED BY <1>3, <1>4

-----------------------------------------------------------------------------
(* The steps of the operations.                                            *)

\* u has an entry more than t, which is in limbo.
Created(t, u, id, a) ==
    /\ id \notin DOMAIN t.mapInfo /\ DOMAIN u.mapInfo = DOMAIN t.mapInfo \cup {id}
    /\ \A i \in DOMAIN t.mapInfo : u.mapInfo[i] = t.mapInfo[i]
    /\ u.mapInfo[id].addr = a /\ u.mapInfo[id].nRefCount = 0 /\ u.mapInfo[id].fInTried = FALSE
    /\ DOMAIN u.mapAddr = DOMAIN t.mapAddr \cup {a}
    /\ u.nIdCount = id + 1 /\ u.nNew = t.nNew /\ u.nTried = t.nTried
    /\ u.vvNew = t.vvNew /\ u.vvTried = t.vvTried

\* Create keeps the tables, with the new entry in limbo.
LEMMA CreateKeeps ==
    ASSUME NEW t, NEW X, NEW Y, Consistent(t, X, Y), NEW a \in Addr, NEW src \in Source,
           a \notin DOMAIN t.mapAddr, NEW id, id = t.nIdCount, NEW u, u = Create(t, a, src)
    PROVE  Consistent(u, X \cup {id}, Y \cup {id}) /\ Created(t, u, id, a)
<1> DEFINE info == t.mapInfo
           rnd == t.vRandom
           e == CAddrInfo(a, src, Len(rnd) + 1)
           info2 == u.mapInfo
           X2 == X \cup {id}
           Y2 == Y \cup {id}
<1>0. /\ IsTables(t) /\ t.ok /\ EntriesOK(info, t.nIdCount) /\ RandomOK(info, rnd)
      /\ AddrOK(info, t.mapAddr) /\ NewOK(info, t.vvNew) /\ TriedOK(info, t.vvTried)
      /\ RefsOK(info, X, Y) /\ CountOK(info, t.nNew, t.nTried, X)
  BY DEF Consistent
<1>1. u = [t EXCEPT !.nIdCount = @ + 1, !.mapInfo = With(@, id, e),
                    !.mapAddr = With(@, a, id), !.vRandom = Append(@, id)]
  BY DEF Create
<1>2. IsTables(u)
  BY <1>0, <1>1, Zenon DEF IsTables, Fields
<1>3. /\ info2 = With(info, id, e) /\ u.mapAddr = With(t.mapAddr, a, id) /\ u.vRandom = Append(rnd, id)
      /\ u.nIdCount = id + 1 /\ u.nNew = t.nNew /\ u.nTried = t.nTried
      /\ u.vvNew = t.vvNew /\ u.vvTried = t.vvTried /\ u.ok = t.ok
  BY <1>0, <1>1 DEF IsTables, Fields
<1>4. id \notin DOMAIN info /\ id \in Nat /\ id # None
  BY <1>0 DEF EntriesOK, None
<1>5. Len(rnd) \in Nat
  BY <1>0 DEF RandomOK
<1>6. /\ e \in Entry /\ e.addr = a /\ e.nRefCount = 0 /\ e.fInTried = FALSE
      /\ e.nRandomPos = Len(rnd) + 1
  BY <1>5 DEF CAddrInfo, Entry
<1> HIDE DEF e, info2, info, rnd
<1>7. /\ DOMAIN info2 = DOMAIN info \cup {id} /\ info2[id] = e
      /\ \A i \in DOMAIN info : info2[i] = info[i]
      /\ info2 = [i \in DOMAIN info2 |-> info2[i]]
  BY <1>3, <1>4 DEF With
<1>8. EntriesOK(info2, u.nIdCount)
  <2>1. DOMAIN info2 \subseteq 0..(u.nIdCount - 1)
    BY <1>0, <1>3, <1>4, <1>7 DEF EntriesOK
  <2>2. \A i \in DOMAIN info2 : info2[i] \in Entry
    BY <1>0, <1>6, <1>7 DEF EntriesOK
  <2> QED BY <1>3, <1>4, <1>7, <2>1, <2>2 DEF EntriesOK
<1>9. RandomOK(info2, u.vRandom)
  <2> DEFINE rnd2 == u.vRandom
  <2>1. /\ rnd2 = Append(rnd, id) /\ info2[id].nRandomPos = Len(rnd) + 1
        /\ \A i \in DOMAIN info : info2[i].nRandomPos = info[i].nRandomPos
    BY <1>3, <1>6, <1>7
  <2>2. DOMAIN info2 = DOMAIN info \cup {id}
    BY <1>7
  <2> HIDE DEF rnd2
  <2>3. RandomOK(info2, rnd2)
    BY <1>0, <1>4, <2>1, <2>2, RandomAdd
  <2> QED BY <2>3 DEF rnd2
<1>10. AddrOK(info2, u.mapAddr) /\ DOMAIN u.mapAddr = DOMAIN t.mapAddr \cup {a}
  <2> DEFINE ad == t.mapAddr
             ad2 == u.mapAddr
  <2>1. ad2 = With(ad, a, id) /\ AddrOK(info, ad) /\ a \notin DOMAIN ad
    BY <1>0, <1>3
  <2>5. /\ DOMAIN ad2 = DOMAIN ad \cup {a}
        /\ ad2[a] = id /\ \A b \in DOMAIN ad : ad2[b] = ad[b]
    BY <2>1 DEF With
  <2>2. DOMAIN info2 = DOMAIN info \cup {id}
    BY <1>7
  <2>4. info2[id].addr = a /\ \A i \in DOMAIN info : info2[i].addr = info[i].addr
    BY <1>6, <1>7
  <2> HIDE DEF ad, ad2
  <2>6. AddrOK(info, ad) /\ a \notin DOMAIN ad /\ id \notin DOMAIN info
    BY <1>4, <2>1
  <2>7. /\ \A b : b \in DOMAIN ad2 <=> b \in DOMAIN ad \/ b = a
        /\ ad2[a] = id /\ \A b \in DOMAIN ad : ad2[b] = ad[b]
    BY <2>5
  <2>3. AddrOK(info2, ad2)
    BY <2>2, <2>4, <2>6, <2>7, AddrAdd
  <2> QED BY <2>3, <2>5 DEF ad, ad2
<1>11. NewOK(info2, u.vvNew)
  BY <1>0, <1>3, <1>4, <1>6, <1>7, NewOther
<1>12. TriedOK(info2, u.vvTried)
  BY <1>0, <1>3, <1>4, <1>6, <1>7, TriedOther
<1>13. RefsOK(info2, X2, Y2)
  <2> SUFFICES ASSUME NEW i \in DOMAIN info2
               PROVE  /\ info2[i].fInTried \/ i \in X2 => info2[i].nRefCount = 0
                      /\ info2[i].nRefCount <= MaxRefs
                      /\ ~info2[i].fInTried /\ i \notin Y2 => info2[i].nRefCount > 0
    BY DEF RefsOK
  <2>1. CASE i = id
    BY <1>6, <1>7, <2>1, AddrAssumption
  <2>2. CASE i # id
    BY <1>0, <1>7, <2>2 DEF RefsOK
  <2> QED BY <2>1, <2>2
<1>14. CountOK(info2, u.nNew, u.nTried, X2)
  <2>1. TriedIds(info2) = TriedIds(info) /\ NewIds(info2, X2) = NewIds(info, X)
    BY <1>4, <1>6, <1>7 DEF TriedIds, NewIds
  <2> QED BY <1>0, <1>3, <2>1 DEF CountOK
<1>15. Consistent(u, X2, Y2)
  BY <1>0, <1>2, <1>3, <1>8, <1>9, <1>10, <1>11, <1>12, <1>13, <1>14 DEF Consistent, info2
<1>16. Created(t, u, id, a)
  BY <1>3, <1>4, <1>6, <1>7, <1>10 DEF Created, info2, info
<1> QED BY <1>15, <1>16

\* An entry is counted in nNew.
CountedNew(t, u) == u = [t EXCEPT !.nNew = @ + 1]

\* An entry in limbo is counted in nNew.
LEMMA CountKeeps ==
    ASSUME NEW t, NEW X, NEW Y, Consistent(t, X, Y), NEW id \in DOMAIN t.mapInfo, ~t.mapInfo[id].fInTried,
           id \in X, NEW X2, \A i : i \in X2 <=> i \in X /\ i # id,
           NEW u, CountedNew(t, u)
    PROVE  /\ Consistent(u, X2, Y) /\ u.mapInfo = t.mapInfo /\ u.mapAddr = t.mapAddr /\ u.nIdCount = t.nIdCount
           /\ u.vvNew = t.vvNew /\ u.vvTried = t.vvTried /\ u.nTried = t.nTried
<1> DEFINE info == t.mapInfo
<1>0. /\ IsTables(t) /\ t.ok /\ EntriesOK(info, t.nIdCount) /\ RandomOK(info, t.vRandom)
      /\ AddrOK(info, t.mapAddr) /\ NewOK(info, t.vvNew) /\ TriedOK(info, t.vvTried)
      /\ RefsOK(info, X, Y) /\ CountOK(info, t.nNew, t.nTried, X)
  BY DEF Consistent
<1>1. IsTables(u)
  BY <1>0, Zenon DEF CountedNew, IsTables, Fields
<1>2. /\ u.mapInfo = info /\ u.mapAddr = t.mapAddr /\ u.vRandom = t.vRandom
      /\ u.nIdCount = t.nIdCount /\ u.nNew = t.nNew + 1 /\ u.nTried = t.nTried
      /\ u.vvNew = t.vvNew /\ u.vvTried = t.vvTried /\ u.ok = t.ok
  BY <1>0 DEF CountedNew, IsTables, Fields
<1> HIDE DEF info
<1>3. RefsOK(info, X2, Y)
  BY <1>0 DEF RefsOK
<1>4. Cardinality(NewIds(info, X2)) = Cardinality(NewIds(info, X)) + 1
  <2>1. NewIds(info, X2) = NewIds(info, X) \cup {id} /\ id \notin NewIds(info, X)
    BY DEF NewIds, info
  <2>2. IsFiniteSet(NewIds(info, X))
    BY <1>0, NoneOutside, IdsFinite
  <2> QED BY <2>1, <2>2, CountedIn
<1>5. CountOK(info, u.nNew, u.nTried, X2)
  BY <1>0, <1>2, <1>4 DEF CountOK
<1> QED BY <1>0, <1>1, <1>2, <1>3, <1>5 DEF Consistent, info

\* What a deletion leaves.
Deleted(t, u, id) ==
    /\ DOMAIN u.mapInfo = DOMAIN t.mapInfo \ {id}
    /\ \A i \in DOMAIN t.mapInfo : i # id => Same(u.mapInfo[i], t.mapInfo[i])
    /\ DOMAIN u.mapAddr \subseteq DOMAIN t.mapAddr
    /\ u.nIdCount = t.nIdCount /\ u.vvNew = t.vvNew /\ u.vvTried = t.vvTried

\* Delete of a counted entry without slots; its assertions hold.
LEMMA DeleteKeeps ==
    ASSUME NEW t, NEW X, NEW Y, Consistent(t, X, Y), NEW id \in DOMAIN t.mapInfo, ~t.mapInfo[id].fInTried,
           t.mapInfo[id].nRefCount = 0, id \notin X, NEW Y2, \A i : i \in Y /\ i # id => i \in Y2,
           NEW u, u = Delete(t, id)
    PROVE  Consistent(u, X, Y2) /\ Deleted(t, u, id)
<1> DEFINE p == t.mapInfo[id].nRandomPos
           q == Len(t.vRandom)
           s == SwapRandom(t, p, q)
<1>1. p \in 1..Len(t.vRandom) /\ q \in 1..Len(t.vRandom) /\ t.vRandom[p] = id
  BY DEF Consistent, RandomOK
<1>2. /\ Consistent(s, X, Y)
      /\ DOMAIN s.mapInfo = DOMAIN t.mapInfo /\ \A i \in DOMAIN t.mapInfo : Same(s.mapInfo[i], t.mapInfo[i])
      /\ s.mapAddr = t.mapAddr /\ s.nIdCount = t.nIdCount /\ s.nNew = t.nNew /\ s.nTried = t.nTried
      /\ s.vvNew = t.vvNew /\ s.vvTried = t.vvTried
      /\ Len(s.vRandom) = Len(t.vRandom)
      /\ s.mapInfo[id].nRandomPos = q
  <2> HIDE DEF p, q
  <2> QED BY <1>1, SwapKeeps
<1>3. u = [s EXCEPT !.ok = @ /\ ~t.mapInfo[id].fInTried /\ t.mapInfo[id].nRefCount = 0,
                    !.vRandom = Front(@),
                    !.mapAddr = Without(@, t.mapInfo[id].addr),
                    !.mapInfo = Without(@, id),
                    !.nNew = @ - 1]
  BY DEF Delete
<1> HIDE DEF s, p
<1> DEFINE info == s.mapInfo
           info2 == u.mapInfo
<1>4. /\ IsTables(s) /\ s.ok /\ EntriesOK(info, s.nIdCount) /\ RandomOK(info, s.vRandom)
      /\ AddrOK(info, s.mapAddr) /\ NewOK(info, s.vvNew) /\ TriedOK(info, s.vvTried)
      /\ RefsOK(info, X, Y) /\ CountOK(info, s.nNew, s.nTried, X)
  BY <1>2 DEF Consistent
<1>5. IsTables(u)
  BY <1>3, <1>4, Zenon DEF IsTables, Fields
<1>6. /\ info2 = Without(info, id) /\ u.mapAddr = Without(s.mapAddr, t.mapInfo[id].addr)
      /\ u.vRandom = Front(s.vRandom) /\ u.nIdCount = s.nIdCount /\ u.nNew = s.nNew - 1
      /\ u.nTried = s.nTried /\ u.vvNew = s.vvNew /\ u.vvTried = s.vvTried
      /\ u.ok = (s.ok /\ ~t.mapInfo[id].fInTried /\ t.mapInfo[id].nRefCount = 0)
  BY <1>3, <1>4 DEF IsTables, Fields
<1>7. u.ok
  BY <1>4, <1>6
<1>8. /\ id \in DOMAIN info /\ ~info[id].fInTried /\ info[id].nRefCount = 0
      /\ info[id].addr = t.mapInfo[id].addr /\ info[id].nRandomPos = Len(s.vRandom)
  BY <1>2 DEF Same
<1> HIDE DEF info, info2
<1>9. /\ DOMAIN info2 = DOMAIN info \ {id} /\ \A i \in DOMAIN info2 : info2[i] = info[i]
      /\ info2 = [i \in DOMAIN info2 |-> info2[i]]
  BY <1>6 DEF Without, Restrict
<1>10. EntriesOK(info2, u.nIdCount)
  <2>1. \A i \in DOMAIN info2 : info2[i] \in Entry
    BY <1>4, <1>9 DEF EntriesOK
  <2>2. info2 \in [DOMAIN info2 -> Entry]
    BY <1>9, <2>1
  <2>3. u.nIdCount \in Nat /\ DOMAIN info2 \subseteq 0..(u.nIdCount - 1)
    BY <1>4, <1>6, <1>9 DEF EntriesOK
  <2> QED BY <2>2, <2>3 DEF EntriesOK
<1>11. RandomOK(info2, u.vRandom)
  <2> DEFINE rnd == s.vRandom
             rnd2 == u.vRandom
  <2>1. rnd2 = SubSeq(rnd, 1, Len(rnd) - 1) /\ RandomOK(info, rnd) /\ info[id].nRandomPos = Len(rnd)
    BY <1>4, <1>6, <1>8 DEF Front
  <2>2. /\ \A i : i \in DOMAIN info2 <=> i \in DOMAIN info /\ i # id
        /\ \A i \in DOMAIN info2 : info2[i].nRandomPos = info[i].nRandomPos
    BY <1>9
  <2>4. id \in DOMAIN info
    BY <1>8
  <2> HIDE DEF rnd, rnd2
  <2>3. RandomOK(info2, SubSeq(rnd, 1, Len(rnd) - 1))
    <3>1. RandomOK(info, rnd) /\ info[id].nRandomPos = Len(rnd)
      BY <2>1
    <3> QED BY <2>2, <2>4, <3>1, RandomDrop
  <2> QED BY <2>1, <2>3 DEF rnd2
<1>12. AddrOK(info2, u.mapAddr) /\ DOMAIN u.mapAddr \subseteq DOMAIN s.mapAddr
  <2> DEFINE ad == s.mapAddr
             ad2 == u.mapAddr
  <2>1. AddrOK(info, ad) /\ id \in DOMAIN info
    BY <1>4, <1>8
  <2>2. /\ \A i : i \in DOMAIN info2 <=> i \in DOMAIN info /\ i # id
        /\ \A i \in DOMAIN info2 : info2[i].addr = info[i].addr
    BY <1>9
  <2>3. /\ \A b : b \in DOMAIN ad2 <=> b \in DOMAIN ad /\ b # info[id].addr
        /\ \A b \in DOMAIN ad2 : ad2[b] = ad[b]
    BY <1>6, <1>8 DEF Without, Restrict
  <2> HIDE DEF ad, ad2
  <2>4. AddrOK(info2, ad2)
    BY <2>1, <2>2, <2>3, AddrDrop
  <2> QED BY <2>3, <2>4 DEF ad, ad2
<1>13. NewOK(info2, u.vvNew)
  BY <1>4, <1>6, <1>8, <1>9, NewOther
<1>14. TriedOK(info2, u.vvTried)
  BY <1>4, <1>6, <1>8, <1>9, TriedOther
<1>15. RefsOK(info2, X, Y2)
  BY <1>4, <1>9 DEF RefsOK
<1>16. CountOK(info2, u.nNew, u.nTried, X)
  <2>1. TriedIds(info2) = TriedIds(info) /\ NewIds(info2, X) = NewIds(info, X) \ {id} /\ id \in NewIds(info, X)
    BY <1>8, <1>9 DEF TriedIds, NewIds
  <2>2. IsFiniteSet(NewIds(info, X))
    BY <1>4, NoneOutside, IdsFinite
  <2>3. Cardinality(NewIds(info2, X)) = Cardinality(NewIds(info, X)) - 1
    BY <2>1, <2>2, CountedIn
  <2> QED BY <1>4, <1>6, <2>1, <2>3 DEF CountOK
<1>17. Consistent(u, X, Y2)
  BY <1>5, <1>7, <1>10, <1>11, <1>12, <1>13, <1>14, <1>15, <1>16 DEF Consistent, info2
<1>18. Deleted(t, u, id)
  <2>1. DOMAIN info2 = DOMAIN t.mapInfo \ {id}
    BY <1>2, <1>9 DEF info
  <2>2. \A i \in DOMAIN t.mapInfo : i # id => Same(info2[i], t.mapInfo[i])
    BY <1>2, <1>9 DEF info
  <2> QED BY <1>2, <1>6, <1>12, <2>1, <2>2 DEF Deleted, info2
<1> QED BY <1>17, <1>18

\* The entry of a slot loses that slot.
Freed(t, u, id, slot) == u = [t EXCEPT !.mapInfo[id].nRefCount = @ - 1, !.vvNew[slot] = None]

\* What is left of it
SlotFreed(t, u, id, slot) ==
    /\ id \in DOMAIN t.mapInfo /\ ~t.mapInfo[id].fInTried
    /\ RefsSet(t.mapInfo, u.mapInfo, DOMAIN t.mapInfo, id, t.mapInfo[id].nRefCount - 1)
    /\ u.vvNew[slot] = None /\ u.nIdCount = t.nIdCount /\ u.vvTried = t.vvTried

\* A slot is taken from its entry.
LEMMA FreeKeeps ==
    ASSUME NEW t, NEW X, NEW Y, Consistent(t, X, Y), NEW slot \in NewSlots, NEW id, id = t.vvNew[slot], id # None,
           NEW u, Freed(t, u, id, slot),
           NEW Y2, \A i \in Y : i \in Y2, id \in Y2 \/ t.mapInfo[id].nRefCount > 1
    PROVE  Consistent(u, X, Y2) /\ id \notin X /\ SlotFreed(t, u, id, slot)
<1> DEFINE info == t.mapInfo
           info2 == u.mapInfo
           n == info[id].nRefCount - 1
<1>0. /\ IsTables(t) /\ t.ok /\ EntriesOK(info, t.nIdCount) /\ RandomOK(info, t.vRandom)
      /\ AddrOK(info, t.mapAddr) /\ NewOK(info, t.vvNew) /\ TriedOK(info, t.vvTried)
      /\ RefsOK(info, X, Y) /\ CountOK(info, t.nNew, t.nTried, X)
  BY DEF Consistent
<1>1. IsTables(u)
  BY <1>0, Zenon DEF Freed, IsTables, Fields
<1>2. /\ info2 = [info EXCEPT ![id].nRefCount = @ - 1] /\ u.mapAddr = t.mapAddr /\ u.vRandom = t.vRandom
      /\ u.nIdCount = t.nIdCount /\ u.nNew = t.nNew /\ u.nTried = t.nTried
      /\ u.vvNew = [t.vvNew EXCEPT ![slot] = None] /\ u.vvTried = t.vvTried /\ u.ok = t.ok
  BY <1>0 DEF Freed, IsTables, Fields
<1>3. id \in DOMAIN info /\ None \notin DOMAIN info
  BY <1>0, NoneOutside DEF NewOK
<1>4. info[id].nRefCount \in Nat /\ info[id].nRefCount > 0
  <2>1. Cardinality(SlotsOf(t.vvNew, id)) \in Nat /\ Cardinality(SlotsOf(t.vvNew, id)) # 0
    BY HeldCounted
  <2> QED BY <1>0, <1>3, <2>1 DEF NewOK
<1>5. n \in Nat /\ id \notin X /\ ~info[id].fInTried
  BY <1>0, <1>3, <1>4 DEF RefsOK
<1>6. info2 = [info EXCEPT ![id].nRefCount = n] /\ info \in [DOMAIN info -> Entry]
  BY <1>0, <1>2 DEF EntriesOK
<1> HIDE DEF info, info2
<1>7. RefsSet(info, info2, DOMAIN info, id, n)
  <2> HIDE DEF n
  <2> QED BY <1>3, <1>5, <1>6, SetRefs
<1>8. /\ DOMAIN info2 = DOMAIN info /\ info2 \in [DOMAIN info -> Entry]
      /\ \A i \in DOMAIN info : i # id => info2[i] = info[i]
      /\ info2[id].addr = info[id].addr /\ info2[id].nRefCount = n
      /\ info2[id].fInTried = info[id].fInTried /\ info2[id].nRandomPos = info[id].nRandomPos
  BY <1>7 DEF RefsSet, Rest
<1>9. EntriesOK(info2, u.nIdCount)
  BY <1>0, <1>2, <1>8 DEF EntriesOK
<1>10. RandomOK(info2, u.vRandom)
  <2>1. \A i \in DOMAIN info : info2[i].nRandomPos = info[i].nRandomPos
    BY <1>8
  <2> QED BY <1>0, <1>2, <1>8, <2>1, RandomSame
<1>11. \A i \in DOMAIN info : info2[i].addr = info[i].addr /\ info2[i].fInTried = info[i].fInTried
  BY <1>8
<1>12. AddrOK(info2, u.mapAddr)
  BY <1>0, <1>2, <1>8, <1>11, AddrSame
<1>13. NewOK(info2, u.vvNew)
  <2> DEFINE vn == t.vvNew
             vn2 == u.vvNew
  <2>1. NewOK(info, vn) /\ vn[slot] = id /\ vn2 = [vn EXCEPT ![slot] = None]
    BY <1>0, <1>2
  <2>2. /\ info2[id].nRefCount = info[id].nRefCount - 1 /\ DOMAIN info2 = DOMAIN info
        /\ \A i \in DOMAIN info : i # id => info2[i].nRefCount = info[i].nRefCount
    BY <1>8
  <2> HIDE DEF vn, vn2, n
  <2>3. NewOK(info2, vn2)
    BY <1>3, <1>11, <2>1, <2>2, NewFree
  <2> QED BY <2>3 DEF vn2
<1>14. TriedOK(info2, u.vvTried)
  <2> HIDE DEF n
  <2> QED BY <1>0, <1>2, <1>8, <1>11, TriedOther
<1>15. RefsOK(info2, X, Y2)
  <2> SUFFICES ASSUME NEW i \in DOMAIN info
               PROVE  /\ info2[i].fInTried \/ i \in X => info2[i].nRefCount = 0
                      /\ info2[i].nRefCount <= MaxRefs
                      /\ ~info2[i].fInTried /\ i \notin Y2 => info2[i].nRefCount > 0
    BY <1>8 DEF RefsOK
  <2>1. CASE i = id
    <3>1. info[id].nRefCount <= MaxRefs
      BY <1>0, <1>3 DEF RefsOK
    <3>2. id \in Y2 \/ info[id].nRefCount > 1
      BY DEF info
    <3> QED BY <1>4, <1>5, <1>8, <2>1, <3>1, <3>2, AddrAssumption
  <2>2. CASE i # id
    BY <1>0, <1>8, <2>2 DEF RefsOK
  <2> QED BY <2>1, <2>2
<1>16. CountOK(info2, u.nNew, u.nTried, X)
  <2>1. TriedIds(info2) = TriedIds(info) /\ NewIds(info2, X) = NewIds(info, X)
    BY <1>8, <1>11 DEF TriedIds, NewIds
  <2> QED BY <1>0, <1>2, <2>1 DEF CountOK
<1>17. Consistent(u, X, Y2)
  BY <1>0, <1>1, <1>2, <1>9, <1>10, <1>12, <1>13, <1>14, <1>15, <1>16 DEF Consistent, info2
<1>18. u.vvNew[slot] = None
  BY <1>0, <1>2 DEF NewOK
<1> QED BY <1>2, <1>3, <1>5, <1>7, <1>17, <1>18 DEF SlotFreed, info, info2

\* An assertion that holds.
LEMMA OkKeeps ==
    ASSUME NEW t, NEW X, NEW Y, Consistent(t, X, Y), NEW P, P, NEW u, u = [t EXCEPT !.ok = @ /\ P]
    PROVE  /\ Consistent(u, X, Y) /\ u.mapInfo = t.mapInfo /\ u.mapAddr = t.mapAddr /\ u.nIdCount = t.nIdCount
           /\ u.vvNew = t.vvNew /\ u.vvTried = t.vvTried
<1>1. IsTables(t) /\ t.ok
  BY DEF Consistent
<1>2. IsTables(u)
  BY <1>1, Zenon DEF IsTables, Fields
<1>3. /\ u.mapInfo = t.mapInfo /\ u.mapAddr = t.mapAddr /\ u.vRandom = t.vRandom
      /\ u.nIdCount = t.nIdCount /\ u.nNew = t.nNew /\ u.nTried = t.nTried
      /\ u.vvNew = t.vvNew /\ u.vvTried = t.vvTried /\ u.ok = (t.ok /\ P)
  BY <1>1 DEF IsTables, Fields
<1>4. u.ok
  BY <1>1, <1>3
<1> QED BY <1>2, <1>3, <1>4 DEF Consistent

\* What is left when the entry id has lost a slot.
Cleared(t, u, id) ==
    /\ DOMAIN u.mapInfo \subseteq DOMAIN t.mapInfo
    /\ \A i \in DOMAIN t.mapInfo : i # id => i \in DOMAIN u.mapInfo /\ Same(u.mapInfo[i], t.mapInfo[i])
    /\ u.nIdCount = t.nIdCount /\ u.vvTried = t.vvTried

\* ClearNew keeps the tables, deletes at most the entry of the slot and frees it;
\* its assertion holds.
LEMMA ClearNewKeeps ==
    ASSUME NEW t, NEW X, NEW Y, Consistent(t, X, Y), NEW slot \in NewSlots, NEW id, id = t.vvNew[slot],
           NEW c, c = ClearNew(t, slot)
    PROVE  Consistent(c, X, Y) /\ c.vvNew[slot] = None /\ Cleared(t, c, id)
<1> DEFINE u == [t EXCEPT !.mapInfo[id].nRefCount = @ - 1, !.vvNew[slot] = None]
           n == t.mapInfo[id].nRefCount
<1>0. Freed(t, u, id, slot)
  BY DEF Freed
<1>1. CASE id = None
  <2>1. c = t
    BY <1>1 DEF ClearNew
  <2> QED BY <1>1, <2>1 DEF Cleared, Same
<1>2. CASE id # None /\ n = 1
  <2> DEFINE Y2 == Y \cup {id}
  <2>1. c = Delete(u, id)
    BY <1>2 DEF ClearNew
  <2>2. Consistent(u, X, Y2) /\ id \notin X /\ SlotFreed(t, u, id, slot)
    <3>1. \A i \in Y : i \in Y2
      OBVIOUS
    <3>2. id \in Y2
      OBVIOUS
    <3> HIDE DEF Y2, u
    <3> QED BY <1>0, <1>2, <3>1, <3>2, FreeKeeps
  <2> HIDE DEF u
  <2>3. /\ id \in DOMAIN u.mapInfo /\ ~u.mapInfo[id].fInTried /\ u.mapInfo[id].nRefCount = 0
        /\ DOMAIN u.mapInfo = DOMAIN t.mapInfo
        /\ \A i \in DOMAIN t.mapInfo : i # id => u.mapInfo[i] = t.mapInfo[i]
    BY <1>2, <2>2 DEF SlotFreed, RefsSet, Rest
  <2>4. \A i : i \in Y2 /\ i # id => i \in Y
    OBVIOUS
  <2> HIDE DEF Y2
  <2>5. Consistent(c, X, Y) /\ Deleted(u, c, id)
    BY <2>1, <2>2, <2>3, <2>4, DeleteKeeps
  <2>6. c.vvNew[slot] = None /\ Cleared(t, c, id)
    BY <2>2, <2>3, <2>5 DEF SlotFreed, Deleted, Cleared
  <2> QED BY <2>5, <2>6
<1>3. CASE id # None /\ n # 1
  <2>1. c = [u EXCEPT !.ok = @ /\ n > 0]
    BY <1>3 DEF ClearNew
  <2>0. n \in Nat /\ n > 1
    <3>1. id \in DOMAIN t.mapInfo /\ n = Cardinality(SlotsOf(t.vvNew, id))
      BY <1>3 DEF Consistent, NewOK
    <3>2. Cardinality(SlotsOf(t.vvNew, id)) # 0 /\ Cardinality(SlotsOf(t.vvNew, id)) \in Nat
      BY HeldCounted
    <3> QED BY <1>3, <3>1, <3>2
  <2>2. Consistent(u, X, Y) /\ SlotFreed(t, u, id, slot)
    <3> HIDE DEF u
    <3> QED BY <1>0, <1>3, <2>0, FreeKeeps
  <2> HIDE DEF u
  <2>3. /\ DOMAIN u.mapInfo = DOMAIN t.mapInfo
        /\ \A i \in DOMAIN t.mapInfo : i # id => u.mapInfo[i] = t.mapInfo[i]
    BY <2>2 DEF SlotFreed, RefsSet, Rest
  <2>4. n > 0
    BY <2>0
  <2> HIDE DEF n
  <2>5. /\ Consistent(c, X, Y) /\ c.mapInfo = u.mapInfo /\ c.nIdCount = u.nIdCount
        /\ c.vvNew = u.vvNew /\ c.vvTried = u.vvTried
    <3> DEFINE P == n > 0
    <3> HIDE DEF P
    <3> QED BY <2>1, <2>2, <2>4, OkKeeps DEF P
  <2>6. c.vvNew[slot] = None /\ Cleared(t, c, id)
    BY <2>2, <2>3, <2>5 DEF SlotFreed, Cleared, Same
  <2> QED BY <2>5, <2>6
<1> QED BY <1>1, <1>2, <1>3

\* A free slot is given to an entry that belongs there.
Taken(t, u, id, slot) ==
    /\ IsTables(u) /\ u.ok = t.ok
    /\ u.mapInfo = [t.mapInfo EXCEPT ![id].nRefCount = t.mapInfo[id].nRefCount + 1]
    /\ u.vvNew = [t.vvNew EXCEPT ![slot] = id] /\ u.vvTried = t.vvTried
    /\ u.mapAddr = t.mapAddr /\ u.vRandom = t.vRandom
    /\ u.nIdCount = t.nIdCount /\ u.nNew = t.nNew /\ u.nTried = t.nTried

\* A free "new" slot is given to an entry that belongs there.
LEMMA PutKeeps ==
    ASSUME NEW t, NEW X, NEW Y, Consistent(t, X, Y), NEW slot \in NewSlots, t.vvNew[slot] = None,
           NEW id \in DOMAIN t.mapInfo, ~t.mapInfo[id].fInTried, id \notin X,
           Belongs(slot, t.mapInfo[id].addr), t.mapInfo[id].nRefCount < MaxRefs,
           NEW u, Taken(t, u, id, slot),
           NEW Y2, \A i : i \in Y /\ i # id => i \in Y2
    PROVE  /\ Consistent(u, X, Y2)
           /\ RefsSet(t.mapInfo, u.mapInfo, DOMAIN t.mapInfo, id, t.mapInfo[id].nRefCount + 1)
<1> DEFINE info == t.mapInfo
           info2 == u.mapInfo
           n == info[id].nRefCount + 1
<1>0. /\ t.ok /\ EntriesOK(info, t.nIdCount) /\ RandomOK(info, t.vRandom)
      /\ AddrOK(info, t.mapAddr) /\ NewOK(info, t.vvNew) /\ TriedOK(info, t.vvTried)
      /\ RefsOK(info, X, Y) /\ CountOK(info, t.nNew, t.nTried, X)
  BY DEF Consistent
<1>2. /\ IsTables(u) /\ u.ok = t.ok /\ info2 = [info EXCEPT ![id].nRefCount = n]
      /\ u.vvNew = [t.vvNew EXCEPT ![slot] = id] /\ u.vvTried = t.vvTried
      /\ u.mapAddr = t.mapAddr /\ u.vRandom = t.vRandom
      /\ u.nIdCount = t.nIdCount /\ u.nNew = t.nNew /\ u.nTried = t.nTried
  BY DEF Taken
<1>3. id \in DOMAIN info /\ None \notin DOMAIN info /\ ~info[id].fInTried
  BY <1>0, NoneOutside
<1>4. info[id].nRefCount \in Nat /\ n \in Nat /\ n <= MaxRefs /\ n > 0
  <2>1. info[id] \in Entry
    BY <1>0, <1>3 DEF EntriesOK
  <2> QED BY <2>1, AddrAssumption DEF Entry
<1>6. info2 = [info EXCEPT ![id].nRefCount = n] /\ info \in [DOMAIN info -> Entry]
  BY <1>0, <1>2 DEF EntriesOK
<1>5. Belongs(slot, info[id].addr)
  OBVIOUS
<1> HIDE DEF info, info2
<1>7. RefsSet(info, info2, DOMAIN info, id, n)
  <2> HIDE DEF n
  <2> QED BY <1>3, <1>4, <1>6, SetRefs
<1>8. /\ DOMAIN info2 = DOMAIN info /\ info2 \in [DOMAIN info -> Entry]
      /\ \A i \in DOMAIN info : i # id => info2[i] = info[i]
      /\ info2[id].addr = info[id].addr /\ info2[id].nRefCount = n
      /\ info2[id].fInTried = info[id].fInTried /\ info2[id].nRandomPos = info[id].nRandomPos
  BY <1>7 DEF RefsSet, Rest
<1>9. EntriesOK(info2, u.nIdCount)
  BY <1>0, <1>2, <1>8 DEF EntriesOK
<1>10. RandomOK(info2, u.vRandom)
  <2>1. \A i \in DOMAIN info : info2[i].nRandomPos = info[i].nRandomPos
    BY <1>8
  <2> QED BY <1>0, <1>2, <1>8, <2>1, RandomSame
<1>11. \A i \in DOMAIN info : info2[i].addr = info[i].addr /\ info2[i].fInTried = info[i].fInTried
  BY <1>8
<1>12. AddrOK(info2, u.mapAddr)
  BY <1>0, <1>2, <1>8, <1>11, AddrSame
<1>13. NewOK(info2, u.vvNew)
  <2> DEFINE vn == t.vvNew
             vn2 == u.vvNew
  <2>1. NewOK(info, vn) /\ vn[slot] = None /\ Updated(vn2, vn, slot, id)
    BY <1>0, <1>2 DEF Updated
  <2>2. /\ info2[id].nRefCount = info[id].nRefCount + 1 /\ DOMAIN info2 = DOMAIN info
        /\ \A i \in DOMAIN info : i # id => info2[i].nRefCount = info[i].nRefCount
    BY <1>8
  <2> HIDE DEF vn, vn2, n
  <2>3. NewOK(info2, vn2)
    BY <1>3, <1>5, <1>11, <2>1, <2>2, NewPut
  <2> QED BY <2>3 DEF vn2
<1>14. TriedOK(info2, u.vvTried)
  <2> HIDE DEF n
  <2> QED BY <1>0, <1>2, <1>8, <1>11, TriedOther
<1>15. RefsOK(info2, X, Y2)
  <2> SUFFICES ASSUME NEW i \in DOMAIN info
               PROVE  /\ info2[i].fInTried \/ i \in X => info2[i].nRefCount = 0
                      /\ info2[i].nRefCount <= MaxRefs
                      /\ ~info2[i].fInTried /\ i \notin Y2 => info2[i].nRefCount > 0
    BY <1>8 DEF RefsOK
  <2>1. CASE i = id
    BY <1>3, <1>4, <1>8, <2>1
  <2>2. CASE i # id
    BY <1>0, <1>2, <1>8, <2>2 DEF RefsOK
  <2> QED BY <2>1, <2>2
<1>16. CountOK(info2, u.nNew, u.nTried, X)
  <2>1. TriedIds(info2) = TriedIds(info) /\ NewIds(info2, X) = NewIds(info, X)
    BY <1>8, <1>11 DEF TriedIds, NewIds
  <2> QED BY <1>0, <1>2, <2>1 DEF CountOK
<1>17. Consistent(u, X, Y2)
  BY <1>0, <1>2, <1>9, <1>10, <1>12, <1>13, <1>14, <1>15, <1>16 DEF Consistent, info2
<1> QED BY <1>7, <1>17 DEF info, info2

\* An entry with a slot is not in limbo.
LEMMA Settled ==
    ASSUME NEW t, NEW X, NEW Y, Consistent(t, X, Y), NEW Y2,
           \A i \in DOMAIN t.mapInfo : i \in Y /\ i \notin Y2 =>
                t.mapInfo[i].fInTried \/ t.mapInfo[i].nRefCount > 0
    PROVE  Consistent(t, X, Y2)
<1>1. RefsOK(t.mapInfo, X, Y)
  BY DEF Consistent
<1>2. RefsOK(t.mapInfo, X, Y2)
  BY <1>1 DEF RefsOK
<1> QED BY <1>2 DEF Consistent

\* An entry without a slot in a table, and one with it.
LEMMA HasSlot ==
    ASSUME NEW t, NEW X, NEW Y, Consistent(t, X, Y), NEW id \in DOMAIN t.mapInfo, NEW slot \in NewSlots,
           t.vvNew[slot] = id
    PROVE  t.mapInfo[id].nRefCount > 0
<1>1. t.mapInfo[id].nRefCount = Cardinality(SlotsOf(t.vvNew, id))
  BY DEF Consistent, NewOK
<1>2. Cardinality(SlotsOf(t.vvNew, id)) \in Nat /\ Cardinality(SlotsOf(t.vvNew, id)) # 0
  BY HeldCounted
<1> QED BY <1>1, <1>2

\* The fields of an entry
LEMMA EntryIn ==
    ASSUME NEW t, NEW X, NEW Y, Consistent(t, X, Y), NEW id \in DOMAIN t.mapInfo
    PROVE  t.mapInfo[id] \in Entry /\ t.mapInfo[id].nRefCount \in Nat /\ t.mapInfo[id].nRefCount <= MaxRefs
           /\ t.mapInfo[id].addr \in Addr /\ t.mapInfo[id].source \in Source /\ t.mapInfo[id].fInTried \in BOOLEAN
<1>1. t.mapInfo[id] \in Entry /\ t.mapInfo[id].nRefCount <= MaxRefs
  BY DEF Consistent, EntriesOK, RefsOK
<1> QED BY <1>1 DEF Entry

\* The end of Add_
LEMMA PlaceNewKeeps ==
    ASSUME NEW t, NEW Y, Consistent(t, {}, Y), NEW id \in DOMAIN t.mapInfo, \A i \in Y : i = id,
           ~t.mapInfo[id].fInTried, t.mapInfo[id].nRefCount # MaxRefs,
           NEW slot \in NewSlots, Belongs(slot, t.mapInfo[id].addr), NEW terrible,
           NEW u, u = PlaceNew(t, id, slot, terrible)
    PROVE  Consistent(u, {}, {})
<1> DEFINE old == t.vvNew[slot]
           refs == t.mapInfo[id].nRefCount
           c == ClearNew(t, slot)
<1>0. refs \in Nat /\ refs < MaxRefs
  BY EntryIn, AddrAssumption
<1>1. CASE old = id
  <2>1. u = t
    BY <1>1 DEF PlaceNew
  <2>2. refs > 0
    BY <1>1, HasSlot
  <2> QED BY <2>1, <2>2, Settled
<1>2. CASE old # id /\ (old = None \/ terrible \/ (refs = 0 /\ t.mapInfo[old].nRefCount > 1))
  <2>1. u = [c EXCEPT !.mapInfo[id].nRefCount = @ + 1, !.vvNew[slot] = id]
    BY <1>2 DEF PlaceNew
  <2>2. c = ClearNew(t, slot)
    OBVIOUS
  <2> HIDE DEF c
  <2>3. Consistent(c, {}, Y) /\ c.vvNew[slot] = None /\ Cleared(t, c, old)
    BY <2>2, ClearNewKeeps
  <2>4. id \in DOMAIN c.mapInfo /\ Same(c.mapInfo[id], t.mapInfo[id])
    BY <1>2, <2>3 DEF Cleared
  <2>5. /\ ~c.mapInfo[id].fInTried /\ c.mapInfo[id].nRefCount < MaxRefs
        /\ Belongs(slot, c.mapInfo[id].addr)
    BY <1>0, <2>4 DEF Same
  <2>6. Taken(c, u, id, slot)
    <3>1. IsTables(c)
      BY <2>3 DEF Consistent
    <3>2. IsTables(u)
      BY <2>1, <3>1, Zenon DEF IsTables, Fields
    <3>3. /\ u.mapInfo = [c.mapInfo EXCEPT ![id].nRefCount = c.mapInfo[id].nRefCount + 1]
          /\ u.vvNew = [c.vvNew EXCEPT ![slot] = id] /\ u.vvTried = c.vvTried /\ u.ok = c.ok
          /\ u.mapAddr = c.mapAddr /\ u.vRandom = c.vRandom
          /\ u.nIdCount = c.nIdCount /\ u.nNew = c.nNew /\ u.nTried = c.nTried
      BY <2>1, <3>1 DEF IsTables, Fields
    <3> QED BY <3>2, <3>3 DEF Taken
  <2>7. \A i : i \in Y /\ i # id => i \in {}
    OBVIOUS
  <2> QED BY <2>3, <2>4, <2>5, <2>6, <2>7, PutKeeps
<1>3. CASE old # id /\ ~(old = None \/ terrible \/ (refs = 0 /\ t.mapInfo[old].nRefCount > 1)) /\ refs = 0
  <2>1. u = Delete(t, id)
    BY <1>3 DEF PlaceNew
  <2>2. \A i : i \in Y /\ i # id => i \in {}
    OBVIOUS
  <2> QED BY <1>3, <2>1, <2>2, DeleteKeeps
<1>4. CASE old # id /\ ~(old = None \/ terrible \/ (refs = 0 /\ t.mapInfo[old].nRefCount > 1)) /\ refs # 0
  <2>1. u = t
    BY <1>4 DEF PlaceNew
  <2>2. refs > 0
    BY <1>0, <1>4
  <2> QED BY <2>1, <2>2, Settled
<1> QED BY <1>1, <1>2, <1>3, <1>4

\* The "new" slots of an entry are those where its address belongs.
LEMMA HeldIsSlots ==
    ASSUME NEW t, NEW X, NEW Y, Consistent(t, X, Y), NEW id \in DOMAIN t.mapInfo
    PROVE  HeldNew(t, id) = SlotsOf(t.vvNew, id)
<1>1. NewOK(t.mapInfo, t.vvNew) /\ None \notin DOMAIN t.mapInfo
  BY NoneOutside DEF Consistent
<1> QED BY <1>1 DEF NewOK, HeldNew, SlotsOf

\* First part of MakeTried
LEMMA LeaveNewKeeps ==
    ASSUME NEW t, Consistent(t, {}, {}), NEW id \in DOMAIN t.mapInfo, ~t.mapInfo[id].fInTried,
           NEW u, u = LeaveNew(t, id)
    PROVE  Consistent(u, {id}, {id}) /\ RefsSet(t.mapInfo, u.mapInfo, DOMAIN t.mapInfo, id, 0)
           /\ u.vvTried = t.vvTried
<1> DEFINE info == t.mapInfo
           info2 == u.mapInfo
           held == HeldNew(t, id)
           vn == t.vvNew
           vn2 == u.vvNew
<1>0. /\ IsTables(t) /\ t.ok /\ EntriesOK(info, t.nIdCount) /\ RandomOK(info, t.vRandom)
      /\ AddrOK(info, t.mapAddr) /\ NewOK(info, vn) /\ TriedOK(info, t.vvTried)
      /\ RefsOK(info, {}, {}) /\ CountOK(info, t.nNew, t.nTried, {})
  BY DEF Consistent
<1>1. u = [t EXCEPT !.vvNew = [s \in NewSlots |-> IF s \in held THEN None ELSE t.vvNew[s]],
                    !.mapInfo[id].nRefCount = @ - Cardinality(held),
                    !.nNew = @ - 1,
                    !.ok = @ /\ t.mapInfo[id].nRefCount = Cardinality(held)]
  BY DEF LeaveNew
<1> HIDE DEF held
<1>2. IsTables(u)
  BY <1>0, <1>1, Zenon DEF IsTables, Fields
<1>3. /\ info2 = [info EXCEPT ![id].nRefCount = @ - Cardinality(held)]
      /\ vn2 = [s \in NewSlots |-> IF s \in held THEN None ELSE vn[s]]
      /\ u.mapAddr = t.mapAddr /\ u.vRandom = t.vRandom
      /\ u.nIdCount = t.nIdCount /\ u.nNew = t.nNew - 1 /\ u.nTried = t.nTried
      /\ u.vvTried = t.vvTried /\ u.ok = (t.ok /\ info[id].nRefCount = Cardinality(held))
  BY <1>0, <1>1 DEF IsTables, Fields
<1>4. held = SlotsOf(vn, id) /\ info[id].nRefCount = Cardinality(held)
  BY <1>0, HeldIsSlots DEF NewOK, held
<1>5. info[id].nRefCount \in Nat /\ None \notin DOMAIN info /\ info \in [DOMAIN info -> Entry]
  BY <1>0, EntryIn, NoneOutside DEF EntriesOK
<1>6. info2 = [info EXCEPT ![id].nRefCount = 0]
  BY <1>3, <1>4, <1>5
<1>7. vn2 = [s \in NewSlots |-> IF vn[s] = id THEN None ELSE vn[s]]
  BY <1>3, <1>4 DEF SlotsOf
<1>8. u.ok /\ id \in DOMAIN info /\ ~info[id].fInTried
  BY <1>0, <1>3, <1>4
<1> HIDE DEF info, info2, vn, vn2
<1>9. RefsSet(info, info2, DOMAIN info, id, 0)
  BY <1>5, <1>6, <1>8, SetRefs
<1>10. /\ DOMAIN info2 = DOMAIN info /\ info2 \in [DOMAIN info -> Entry]
       /\ \A i \in DOMAIN info : i # id => info2[i] = info[i]
       /\ info2[id].addr = info[id].addr /\ info2[id].nRefCount = 0
       /\ info2[id].fInTried = info[id].fInTried /\ info2[id].nRandomPos = info[id].nRandomPos
  BY <1>9 DEF RefsSet, Rest
<1>11. \A i \in DOMAIN info : info2[i].addr = info[i].addr /\ info2[i].fInTried = info[i].fInTried
  BY <1>10
<1>12. EntriesOK(info2, u.nIdCount)
  BY <1>0, <1>3, <1>10 DEF EntriesOK
<1>13. RandomOK(info2, u.vRandom)
  <2>1. \A i \in DOMAIN info : info2[i].nRandomPos = info[i].nRandomPos
    BY <1>10
  <2> QED BY <1>0, <1>3, <1>10, <2>1, RandomSame
<1>14. AddrOK(info2, u.mapAddr)
  BY <1>0, <1>3, <1>10, <1>11, AddrSame
<1>15. NewOK(info2, vn2)
  <2>1. /\ info2[id].nRefCount = 0 /\ DOMAIN info2 = DOMAIN info
        /\ \A i \in DOMAIN info : i # id => info2[i].nRefCount = info[i].nRefCount
    BY <1>10
  <2>2. NewOK(info, vn) /\ None \notin DOMAIN info
    BY <1>0, <1>5
  <2> QED BY <1>7, <1>8, <1>11, <2>1, <2>2, NewLeave
<1>16. TriedOK(info2, u.vvTried)
  BY <1>0, <1>3, <1>10, <1>11, TriedOther
<1>17. RefsOK(info2, {id}, {id})
  BY <1>0, <1>10, AddrAssumption DEF RefsOK
<1>18. CountOK(info2, u.nNew, u.nTried, {id})
  <2>1. TriedIds(info2) = TriedIds(info) /\ NewIds(info2, {id}) = NewIds(info, {}) \ {id} /\ id \in NewIds(info, {})
    BY <1>8, <1>10, <1>11 DEF TriedIds, NewIds
  <2>2. IsFiniteSet(NewIds(info, {}))
    BY <1>0, NoneOutside, IdsFinite
  <2>3. Cardinality(NewIds(info2, {id})) = Cardinality(NewIds(info, {})) - 1
    BY <2>1, <2>2, CountedIn
  <2> QED BY <1>0, <1>3, <2>1, <2>3 DEF CountOK
<1>19. Consistent(u, {id}, {id})
  BY <1>2, <1>8, <1>12, <1>13, <1>14, <1>15, <1>16, <1>17, <1>18 DEF Consistent, info2, vn2
<1> QED BY <1>3, <1>9, <1>19 DEF info, info2

\* X2 is X without id; Y2 has all of Y but perhaps id.
LeftOut(X2, X, id) == \A i : i \in X2 <=> i \in X /\ i # id
Covers(Y2, Y, id) == \A i : i \in Y /\ i # id => i \in Y2

\* An entry that is in no "new" slot goes to its "tried" slot.
TriedTaken(t, u, id, k) ==
    /\ IsTables(u) /\ u.ok = t.ok
    /\ u.mapInfo = [t.mapInfo EXCEPT ![id].fInTried = TRUE]
    /\ u.vvTried = [t.vvTried EXCEPT ![k] = id] /\ u.vvNew = t.vvNew
    /\ u.mapAddr = t.mapAddr /\ u.vRandom = t.vRandom
    /\ u.nIdCount = t.nIdCount /\ u.nNew = t.nNew /\ u.nTried = t.nTried + 1

\* TriedTaken keeps the tables and ends the limbo of the entry.
LEMMA TakeTriedKeeps ==
    ASSUME NEW t, NEW X, NEW Y, Consistent(t, X, Y), NEW id \in DOMAIN t.mapInfo, ~t.mapInfo[id].fInTried,
           id \in X, NEW k, k = TriedSlot[t.mapInfo[id].addr], t.vvTried[k] = None,
           NEW u, TriedTaken(t, u, id, k), NEW X2, LeftOut(X2, X, id),
           NEW Y2, Covers(Y2, Y, id)
    PROVE  Consistent(u, X2, Y2) /\ TriedSet(t.mapInfo, u.mapInfo, DOMAIN t.mapInfo, id, TRUE)
<1> DEFINE info == t.mapInfo
           info2 == u.mapInfo
           vt == t.vvTried
           vt2 == u.vvTried
<1>0. /\ t.ok /\ EntriesOK(info, t.nIdCount) /\ RandomOK(info, t.vRandom)
      /\ AddrOK(info, t.mapAddr) /\ NewOK(info, t.vvNew) /\ TriedOK(info, vt)
      /\ RefsOK(info, X, Y) /\ CountOK(info, t.nNew, t.nTried, X)
  BY DEF Consistent
<1>1. /\ IsTables(u) /\ u.ok = t.ok /\ info2 = [info EXCEPT ![id].fInTried = TRUE]
      /\ Updated(vt2, vt, k, id) /\ u.vvNew = t.vvNew
      /\ u.mapAddr = t.mapAddr /\ u.vRandom = t.vRandom
      /\ u.nIdCount = t.nIdCount /\ u.nNew = t.nNew /\ u.nTried = t.nTried + 1
  BY DEF TriedTaken, Updated
<1>2. /\ id \in DOMAIN info /\ None \notin DOMAIN info /\ ~info[id].fInTried /\ info[id].addr \in Addr
      /\ k = TriedSlot[info[id].addr] /\ vt[k] = None
  BY <1>0, NoneOutside, EntryIn
<1>3. info \in [DOMAIN info -> Entry]
  BY <1>0 DEF EntriesOK
<1> HIDE DEF info, info2, vt, vt2
<1>4. TriedSet(info, info2, DOMAIN info, id, TRUE)
  BY <1>1, <1>2, <1>3, SetTried
<1>5. /\ DOMAIN info2 = DOMAIN info /\ info2 \in [DOMAIN info -> Entry]
      /\ \A i \in DOMAIN info : i # id => info2[i] = info[i]
      /\ info2[id].addr = info[id].addr /\ info2[id].nRefCount = info[id].nRefCount
      /\ info2[id].fInTried = TRUE /\ info2[id].nRandomPos = info[id].nRandomPos
  BY <1>4 DEF TriedSet, Rest
<1>6. \A i \in DOMAIN info : /\ info2[i].addr = info[i].addr /\ info2[i].nRefCount = info[i].nRefCount
                             /\ info2[i].nRandomPos = info[i].nRandomPos
  BY <1>5
<1>7. EntriesOK(info2, u.nIdCount)
  BY <1>0, <1>1, <1>5 DEF EntriesOK
<1>8. RandomOK(info2, u.vRandom)
  BY <1>0, <1>1, <1>5, <1>6, RandomSame
<1>9. AddrOK(info2, u.mapAddr)
  BY <1>0, <1>1, <1>5, <1>6, AddrSame
<1>10. NewOK(info2, u.vvNew)
  BY <1>0, <1>1, <1>5, <1>6, NewOther
<1>11. TriedOK(info2, vt2)
  <2>1. \A i \in DOMAIN info : info2[i].addr = info[i].addr
    BY <1>6
  <2>2. \A i \in DOMAIN info : i # id => (info2[i].fInTried <=> info[i].fInTried)
    BY <1>5
  <2>3. DOMAIN info2 = DOMAIN info /\ info2[id].fInTried
    BY <1>5
  <2>4. TriedOK(info, vt) /\ Updated(vt2, vt, k, id)
    BY <1>0, <1>1
  <2> QED BY <1>2, <2>1, <2>2, <2>3, <2>4, TriedPut
<1>12. RefsOK(info2, X2, Y2)
  <2> SUFFICES ASSUME NEW i \in DOMAIN info
               PROVE  /\ info2[i].fInTried \/ i \in X2 => info2[i].nRefCount = 0
                      /\ info2[i].nRefCount <= MaxRefs
                      /\ ~info2[i].fInTried /\ i \notin Y2 => info2[i].nRefCount > 0
    BY <1>5 DEF RefsOK
  <2>1. CASE i = id
    <3>1. info[id].nRefCount = 0 /\ info[id].nRefCount <= MaxRefs
      BY <1>0, <1>2 DEF RefsOK
    <3> QED BY <1>5, <2>1, <3>1
  <2>2. CASE i # id
    BY <1>0, <1>5, <2>2 DEF RefsOK, LeftOut, Covers
  <2> QED BY <2>1, <2>2
<1>13. CountOK(info2, u.nNew, u.nTried, X2)
  <2>1. /\ TriedIds(info2) = TriedIds(info) \cup {id} /\ id \notin TriedIds(info)
        /\ NewIds(info2, X2) = NewIds(info, X)
    BY <1>2, <1>5 DEF TriedIds, NewIds, LeftOut
  <2>2. IsFiniteSet(TriedIds(info))
    BY <1>0, NoneOutside, IdsFinite
  <2>3. Cardinality(TriedIds(info2)) = Cardinality(TriedIds(info)) + 1
    BY <2>1, <2>2, CountedIn
  <2> QED BY <1>0, <1>1, <2>1, <2>3 DEF CountOK
<1>14. Consistent(u, X2, Y2)
  BY <1>0, <1>1, <1>7, <1>8, <1>9, <1>10, <1>11, <1>12, <1>13 DEF Consistent, info2, vt2
<1> QED BY <1>4, <1>14 DEF info, info2

\* The entry of a "tried" slot is taken out of it.
TriedLeft(t, u, id, k) ==
    u = [t EXCEPT !.mapInfo[id].fInTried = FALSE, !.vvTried[k] = None, !.nTried = @ - 1]

TriedFreed(t, u, id, k) ==
    /\ id \in DOMAIN t.mapInfo /\ t.mapInfo[id].nRefCount = 0
    /\ TriedSet(t.mapInfo, u.mapInfo, DOMAIN t.mapInfo, id, FALSE)
    /\ u.vvTried[k] = None

\* TriedLeft keeps the tables, with the entry in limbo.
LEMMA LeaveTriedKeeps ==
    ASSUME NEW t, NEW X, NEW Y, Consistent(t, X, Y), NEW k \in TriedSlots, NEW id, id = t.vvTried[k], id # None,
           NEW u, TriedLeft(t, u, id, k), NEW X2, \A i : i \in X2 <=> i \in X \/ i = id,
           NEW Y2, \A i \in Y : i \in Y2, id \in Y2
    PROVE  Consistent(u, X2, Y2) /\ TriedFreed(t, u, id, k)
<1> DEFINE info == t.mapInfo
           info2 == u.mapInfo
           vt == t.vvTried
           vt2 == u.vvTried
<1>0. /\ IsTables(t) /\ t.ok /\ EntriesOK(info, t.nIdCount) /\ RandomOK(info, t.vRandom)
      /\ AddrOK(info, t.mapAddr) /\ NewOK(info, t.vvNew) /\ TriedOK(info, vt)
      /\ RefsOK(info, X, Y) /\ CountOK(info, t.nNew, t.nTried, X)
  BY DEF Consistent
<1>15. IsTables(u)
  BY <1>0, Zenon DEF TriedLeft, IsTables, Fields
<1>1. /\ u.ok = t.ok /\ info2 = [info EXCEPT ![id].fInTried = FALSE]
      /\ vt2 = [vt EXCEPT ![k] = None] /\ u.vvNew = t.vvNew
      /\ u.mapAddr = t.mapAddr /\ u.vRandom = t.vRandom
      /\ u.nIdCount = t.nIdCount /\ u.nNew = t.nNew /\ u.nTried = t.nTried - 1
  BY <1>0 DEF TriedLeft, IsTables, Fields
<1>2. id \in DOMAIN info /\ None \notin DOMAIN info /\ info[id].fInTried /\ id = vt[k]
  BY <1>0, NoneOutside DEF TriedOK
<1>3. info \in [DOMAIN info -> Entry]
  BY <1>0 DEF EntriesOK
<1>16. info[id].nRefCount = 0 /\ 0 <= MaxRefs
  BY <1>0, <1>2, AddrAssumption DEF RefsOK
<1> HIDE DEF info, info2, vt, vt2
<1>4. TriedSet(info, info2, DOMAIN info, id, FALSE)
  BY <1>1, <1>2, <1>3, SetTried
<1>5. /\ DOMAIN info2 = DOMAIN info /\ info2 \in [DOMAIN info -> Entry]
      /\ \A i \in DOMAIN info : i # id => info2[i] = info[i]
      /\ info2[id].addr = info[id].addr /\ info2[id].nRefCount = info[id].nRefCount
      /\ info2[id].fInTried = FALSE /\ info2[id].nRandomPos = info[id].nRandomPos
  BY <1>4 DEF TriedSet, Rest
<1>6. \A i \in DOMAIN info : /\ info2[i].addr = info[i].addr /\ info2[i].nRefCount = info[i].nRefCount
                             /\ info2[i].nRandomPos = info[i].nRandomPos
  BY <1>5
<1>7. EntriesOK(info2, u.nIdCount)
  BY <1>0, <1>1, <1>5 DEF EntriesOK
<1>8. RandomOK(info2, u.vRandom)
  BY <1>0, <1>1, <1>5, <1>6, RandomSame
<1>9. AddrOK(info2, u.mapAddr)
  BY <1>0, <1>1, <1>5, <1>6, AddrSame
<1>10. NewOK(info2, u.vvNew)
  BY <1>0, <1>1, <1>5, <1>6, NewOther
<1>11. TriedOK(info2, vt2) /\ vt2[k] = None
  <2>1. \A i \in DOMAIN info : info2[i].addr = info[i].addr
    BY <1>6
  <2>2. \A i \in DOMAIN info : i # id => (info2[i].fInTried <=> info[i].fInTried)
    BY <1>5
  <2>3. DOMAIN info2 = DOMAIN info /\ ~info2[id].fInTried
    BY <1>5
  <2>4. TriedOK(info, vt) /\ vt2 = [vt EXCEPT ![k] = None]
    BY <1>0, <1>1
  <2>5. TriedOK(info2, vt2)
    BY <1>2, <2>1, <2>2, <2>3, <2>4, TriedOut
  <2> QED BY <2>4, <2>5 DEF TriedOK
<1>12. RefsOK(info2, X2, Y2)
  <2> SUFFICES ASSUME NEW i \in DOMAIN info
               PROVE  /\ info2[i].fInTried \/ i \in X2 => info2[i].nRefCount = 0
                      /\ info2[i].nRefCount <= MaxRefs
                      /\ ~info2[i].fInTried /\ i \notin Y2 => info2[i].nRefCount > 0
    BY <1>5 DEF RefsOK
  <2>1. CASE i = id
    BY <1>5, <1>16, <2>1
  <2>2. CASE i # id
    BY <1>0, <1>5, <2>2 DEF RefsOK
  <2> QED BY <2>1, <2>2
<1>13. CountOK(info2, u.nNew, u.nTried, X2)
  <2>1. /\ TriedIds(info2) = TriedIds(info) \ {id} /\ id \in TriedIds(info)
        /\ NewIds(info2, X2) = NewIds(info, X)
    BY <1>2, <1>5 DEF TriedIds, NewIds
  <2>2. IsFiniteSet(TriedIds(info))
    BY <1>0, NoneOutside, IdsFinite
  <2>3. Cardinality(TriedIds(info2)) = Cardinality(TriedIds(info)) - 1
    BY <2>1, <2>2, CountedIn
  <2> QED BY <1>0, <1>1, <2>1, <2>3 DEF CountOK
<1>14. Consistent(u, X2, Y2)
  BY <1>0, <1>1, <1>15, <1>7, <1>8, <1>9, <1>10, <1>11, <1>12, <1>13 DEF Consistent, info2, vt2
<1> QED BY <1>1, <1>2, <1>4, <1>16, <1>11, <1>14 DEF TriedFreed, info, info2, vt2

\* NewSlot is a slot, and the one where the address belongs in that bucket.
LEMMA SlotWhere ==
    ASSUME NEW b \in 1..NewBuckets, NEW a \in Addr
    PROVE  NewSlot(b, a) \in NewSlots /\ Belongs(NewSlot(b, a), a)
<1>1. GetBucketPosition[<<b, a>>] \in 1..BucketSize
  BY AddrAssumption
<1>2. NewSlot(b, a) = <<b, GetBucketPosition[<<b, a>>]>>
  BY DEF NewSlot
<1>3. NewSlot(b, a) \in NewSlots
  BY <1>1, <1>2 DEF NewSlots
<1>4. NewSlot(b, a)[1] = b
  BY <1>2
<1> QED BY <1>3, <1>4 DEF Belongs

\* EvictTried frees the "tried" slot: what was there is in a "new" slot again, and
\* the entry in limbo, for which there is room now, is not the one that slot lost.
LEMMA EvictKeeps ==
    ASSUME NEW t, NEW id \in DOMAIN t.mapInfo, Consistent(t, {id}, {id}), ~t.mapInfo[id].fInTried,
           NEW k \in TriedSlots, NEW u, u = EvictTried(t, k)
    PROVE  /\ Consistent(u, {id}, {id}) /\ u.vvTried[k] = None
           /\ id \in DOMAIN u.mapInfo /\ Same(u.mapInfo[id], t.mapInfo[id])
<1> DEFINE e == t.vvTried[k]
           info == t.mapInfo[e]
           b == GetNewBucket[<<info.addr, info.source>>]
           slot == NewSlot(b, info.addr)
           out == [t EXCEPT !.mapInfo[e].fInTried = FALSE, !.vvTried[k] = None, !.nTried = @ - 1]
           c == ClearNew(out, slot)
<1>1. CASE e = None
  <2>1. u = t
    BY <1>1 DEF EvictTried
  <2> QED BY <1>1, <2>1 DEF Same
<1>2. CASE e # None
  <2> DEFINE Z == {id, e}
             mid == [c EXCEPT !.nNew = @ + 1]
  <2>1. u = [c EXCEPT !.mapInfo[e].nRefCount = 1, !.vvNew[slot] = e, !.nNew = @ + 1]
    BY <1>2 DEF EvictTried
  <2>2. TriedLeft(t, out, e, k)
    BY DEF TriedLeft
  <2>3. c = ClearNew(out, slot)
    OBVIOUS
  <2>4. CountedNew(c, mid)
    BY DEF CountedNew
  <2>5. e \in DOMAIN t.mapInfo /\ e # id
    <3>1. TriedOK(t.mapInfo, t.vvTried)
      BY DEF Consistent
    <3> QED BY <1>2, <3>1 DEF TriedOK
  <2>6. info.addr \in Addr /\ info.source \in Source
    BY <2>5, EntryIn
  <2>7. slot \in NewSlots /\ Belongs(slot, info.addr)
    <3>1. b \in 1..NewBuckets
      BY <2>6, AddrAssumption
    <3> HIDE DEF b
    <3> QED BY <2>6, <3>1, SlotWhere
  <2> HIDE DEF slot, out, c, mid
  <2>8. Consistent(out, Z, Z) /\ TriedFreed(t, out, e, k)
    <3>1. (\A i : i \in Z <=> i \in {id} \/ i = e) /\ (\A i \in {id} : i \in Z) /\ e \in Z
      OBVIOUS
    <3>2. e = t.vvTried[k]
      OBVIOUS
    <3> HIDE DEF Z, e
    <3> QED BY <1>2, <2>2, <3>1, <3>2, LeaveTriedKeeps
  <2>9. /\ DOMAIN out.mapInfo = DOMAIN t.mapInfo
        /\ \A i \in DOMAIN t.mapInfo : i # e => out.mapInfo[i] = t.mapInfo[i]
        /\ out.mapInfo[e].addr = info.addr /\ out.mapInfo[e].fInTried = FALSE /\ out.mapInfo[e].nRefCount = 0
    BY <2>8 DEF TriedFreed, TriedSet, Rest
  <2>10. Consistent(c, Z, Z) /\ c.vvNew[slot] = None /\ Cleared(out, c, out.vvNew[slot])
    <3> HIDE DEF Z
    <3> QED BY <2>3, <2>7, <2>8, ClearNewKeeps
  <2>11. ASSUME NEW i \in Z PROVE i \in DOMAIN c.mapInfo /\ Same(c.mapInfo[i], out.mapInfo[i])
    <3>1. i \in DOMAIN out.mapInfo
      BY <2>5, <2>9
    <3>2. out.mapInfo[i].nRefCount = 0
      BY <2>8, <3>1 DEF Consistent, RefsOK
    <3>3. out.vvNew[slot] # i
      <4> HIDE DEF Z
      <4>1. out.vvNew[slot] = i => out.mapInfo[i].nRefCount > 0
        BY <2>7, <2>8, <3>1, HasSlot
      <4> QED BY <3>2, <4>1
    <3> QED BY <2>10, <3>1, <3>3 DEF Cleared
  <2>12. /\ e \in DOMAIN c.mapInfo /\ ~c.mapInfo[e].fInTried /\ c.mapInfo[e].nRefCount = 0
         /\ c.mapInfo[e].addr = info.addr
         /\ id \in DOMAIN c.mapInfo /\ Same(c.mapInfo[id], t.mapInfo[id])
    BY <2>5, <2>9, <2>11 DEF Same
  <2>13. /\ Consistent(mid, {id}, Z) /\ mid.mapInfo = c.mapInfo
         /\ mid.vvNew = c.vvNew /\ mid.vvTried = c.vvTried
    <3>1. e \in Z /\ \A i : i \in {id} <=> i \in Z /\ i # e
      BY <2>5
    <3> HIDE DEF Z, e
    <3> QED BY <2>4, <2>10, <2>12, <3>1, CountKeeps
  <2>14. Taken(mid, u, e, slot)
    <3>1. IsTables(c)
      BY <2>10 DEF Consistent
    <3>2. IsTables(u)
      BY <2>1, <3>1, Zenon DEF IsTables, Fields
    <3>3. /\ u.mapInfo = [c.mapInfo EXCEPT ![e].nRefCount = 1]
          /\ u.vvNew = [c.vvNew EXCEPT ![slot] = e] /\ u.vvTried = c.vvTried /\ u.ok = c.ok
          /\ u.mapAddr = c.mapAddr /\ u.vRandom = c.vRandom
          /\ u.nIdCount = c.nIdCount /\ u.nNew = c.nNew + 1 /\ u.nTried = c.nTried
      BY <2>1, <3>1 DEF IsTables, Fields
    <3>4. /\ mid.mapInfo = c.mapInfo /\ mid.vvNew = c.vvNew /\ mid.vvTried = c.vvTried /\ mid.ok = c.ok
          /\ mid.mapAddr = c.mapAddr /\ mid.vRandom = c.vRandom
          /\ mid.nIdCount = c.nIdCount /\ mid.nNew = c.nNew + 1 /\ mid.nTried = c.nTried
      BY <2>4, <3>1 DEF CountedNew, IsTables, Fields
    <3>5. c.mapInfo[e].nRefCount + 1 = 1
      BY <2>12
    <3> HIDE DEF e
    <3> QED BY <3>2, <3>3, <3>4, <3>5 DEF Taken
  <2>15. /\ Consistent(u, {id}, {id})
         /\ RefsSet(mid.mapInfo, u.mapInfo, DOMAIN mid.mapInfo, e, mid.mapInfo[e].nRefCount + 1)
    <3>1. /\ mid.vvNew[slot] = None /\ e \in DOMAIN mid.mapInfo /\ ~mid.mapInfo[e].fInTried
          /\ Belongs(slot, mid.mapInfo[e].addr) /\ mid.mapInfo[e].nRefCount < MaxRefs
      BY <2>7, <2>10, <2>12, <2>13, AddrAssumption
    <3>2. e \notin {id} /\ \A i : i \in Z /\ i # e => i \in {id}
      BY <2>5
    <3> HIDE DEF Z, e
    <3> QED BY <2>7, <2>13, <2>14, <3>1, <3>2, PutKeeps
  <2>16. id \in DOMAIN u.mapInfo /\ u.mapInfo[id] = c.mapInfo[id]
    BY <2>5, <2>12, <2>13, <2>15 DEF RefsSet, Rest
  <2>17. u.vvTried[k] = None
    <3>1. u.vvTried = mid.vvTried
      BY <2>14 DEF Taken
    <3> QED BY <2>8, <2>10, <2>13, <3>1 DEF Cleared, TriedFreed
  <2> QED BY <2>12, <2>15, <2>16, <2>17
<1> QED BY <1>1, <1>2

\* MakeTried keeps the tables, whatever is evicted.
LEMMA MakeTriedKeeps ==
    ASSUME NEW t, Consistent(t, {}, {}), NEW id \in DOMAIN t.mapInfo, ~t.mapInfo[id].fInTried,
           NEW u, u = MakeTried(t, id)
    PROVE  Consistent(u, {}, {})
<1> DEFINE k == TriedSlot[t.mapInfo[id].addr]
           l == LeaveNew(t, id)
           v == EvictTried(l, k)
<1>1. u = [v EXCEPT !.vvTried[k] = id, !.nTried = @ + 1, !.mapInfo[id].fInTried = TRUE]
  BY DEF MakeTried
<1>2. k \in TriedSlots
  BY EntryIn, AddrAssumption
<1>3. Consistent(l, {id}, {id}) /\ RefsSet(t.mapInfo, l.mapInfo, DOMAIN t.mapInfo, id, 0)
  <2>1. l = LeaveNew(t, id)
    OBVIOUS
  <2> HIDE DEF l
  <2> QED BY <2>1, LeaveNewKeeps
<1>4. v = EvictTried(l, k)
  OBVIOUS
<1> HIDE DEF l, v
<1>5. id \in DOMAIN l.mapInfo /\ ~l.mapInfo[id].fInTried /\ l.mapInfo[id].addr = t.mapInfo[id].addr
  BY <1>3 DEF RefsSet, Rest
<1>6. /\ Consistent(v, {id}, {id}) /\ v.vvTried[k] = None
      /\ id \in DOMAIN v.mapInfo /\ Same(v.mapInfo[id], l.mapInfo[id])
  <2> HIDE DEF k
  <2> QED BY <1>2, <1>3, <1>4, <1>5, EvictKeeps
<1>7. ~v.mapInfo[id].fInTried /\ k = TriedSlot[v.mapInfo[id].addr]
  BY <1>5, <1>6 DEF Same
<1> HIDE DEF k
<1>8. TriedTaken(v, u, id, k)
  <2>1. IsTables(v)
    BY <1>6 DEF Consistent
  <2>2. IsTables(u)
    BY <1>1, <2>1, Zenon DEF IsTables, Fields
  <2>3. /\ u.mapInfo = [v.mapInfo EXCEPT ![id].fInTried = TRUE] /\ u.ok = v.ok
        /\ u.vvTried = [v.vvTried EXCEPT ![k] = id] /\ u.vvNew = v.vvNew
        /\ u.mapAddr = v.mapAddr /\ u.vRandom = v.vRandom
        /\ u.nIdCount = v.nIdCount /\ u.nNew = v.nNew /\ u.nTried = v.nTried + 1
    BY <1>1, <2>1 DEF IsTables, Fields
  <2> QED BY <2>2, <2>3 DEF TriedTaken
<1>9. id \in {id} /\ LeftOut({}, {id}, id) /\ Covers({}, {id}, id)
  BY DEF LeftOut, Covers
<1> QED BY <1>6, <1>7, <1>8, <1>9, TakeTriedKeeps

\* ReadNew, which is also the beginning of Add_
LEMMA ReadNewKeeps ==
    ASSUME NEW t, NEW Y, Consistent(t, {}, Y), NEW a \in Addr, NEW src \in Source,
           a \notin DOMAIN t.mapAddr, NEW id, id = t.nIdCount,
           NEW u, CountedNew(Create(t, a, src), u), NEW Y2, \A i : i \in Y \/ i = id => i \in Y2
    PROVE  /\ Consistent(u, {}, Y2)
           /\ id \notin DOMAIN t.mapInfo /\ DOMAIN u.mapInfo = DOMAIN t.mapInfo \cup {id}
           /\ \A i \in DOMAIN t.mapInfo : u.mapInfo[i] = t.mapInfo[i]
           /\ u.mapInfo[id].addr = a /\ u.mapInfo[id].nRefCount = 0 /\ ~u.mapInfo[id].fInTried
           /\ DOMAIN u.mapAddr = DOMAIN t.mapAddr \cup {a}
           /\ u.nIdCount = id + 1 /\ u.vvNew = t.vvNew /\ u.vvTried = t.vvTried
<1> DEFINE c == Create(t, a, src)
           E == {}
           X == E \cup {id}
           Z == Y \cup {id}
<1>1. Consistent(c, X, Z) /\ Created(t, c, id, a)
  <2>1. c = Create(t, a, src) /\ Consistent(t, E, Y)
    OBVIOUS
  <2> HIDE DEF c, E
  <2> QED BY <2>1, CreateKeeps
<1>2. CountedNew(c, u)
  OBVIOUS
<1>3. id \in X /\ \A i : i \in E <=> i \in X /\ i # id
  OBVIOUS
<1> HIDE DEF c, X
<1>4. id \in DOMAIN c.mapInfo /\ ~c.mapInfo[id].fInTried
  BY <1>1 DEF Created
<1>5. /\ Consistent(u, E, Z) /\ u.mapInfo = c.mapInfo /\ u.mapAddr = c.mapAddr /\ u.nIdCount = c.nIdCount
      /\ u.vvNew = c.vvNew /\ u.vvTried = c.vvTried
  <2> HIDE DEF E, Z
  <2> QED BY <1>1, <1>2, <1>3, <1>4, CountKeeps
<1>6. Consistent(u, {}, Y2)
  <2>1. \A i \in DOMAIN u.mapInfo : ~(i \in Z /\ i \notin Y2)
    OBVIOUS
  <2>2. Consistent(u, {}, Z)
    BY <1>5
  <2> HIDE DEF Z
  <2> QED BY <2>1, <2>2, Settled
<1> QED BY <1>1, <1>5, <1>6 DEF Created

-----------------------------------------------------------------------------
(* Loops.  The steps of the six loops are one operator, so that what a     *)
(* loop computes and preserves is proved once.                             *)

StepOf(kind, a, u, k) ==
    IF kind = "swap" THEN SwapRandom(u, k, a[k])
    ELSE IF kind = "new" THEN ReadNew(u, a[k])
    ELSE IF kind = "tried" THEN ReadTried(u, a[k])
    ELSE IF kind = "position" THEN ReadPosition(u, a[1], a[2][k] - 1)
    ELSE IF kind = "bucket" THEN ReadBucket(u, k, a[k])
    ELSE PruneEntry(u, a[k])

\* F[k] are the tables after k steps.
LoopBody(F, kind, t, a, k) == IF k = 0 THEN t ELSE StepOf(kind, a, F[k - 1], k)
IsLoop(kind, t, a, N, F) == F = [k \in 0..N |-> LoopBody(F, kind, t, a, k)]

\* Every non-empty set of natural numbers has a least element.
LEMMA LeastNumber ==
    ASSUME NEW T \in SUBSET Nat, T # {}
    PROVE  \E n \in T : \A k \in T : n <= k
<1>0. IsWellFoundedOn(OpToRel(<, Nat), Nat)
  BY NatLessThanWellFounded
<1>1. PICK n \in T : \A k \in T : ~(<<k, n>> \in OpToRel(<, Nat))
  BY <1>0, WFMin
<1>2. \A k \in T : ~(k < n)
  BY <1>1 DEF OpToRel
<1>3. ASSUME NEW k \in T PROVE n <= k
  <2>1. k \in Nat /\ n \in Nat /\ ~(k < n)
    BY <1>2
  <2> QED BY <2>1
<1> QED BY <1>3

\* The recursion of a loop has a solution,
LEMMA LoopExists ==
    ASSUME NEW kind, NEW t, NEW a, NEW N \in Nat
    PROVE  \E F : IsLoop(kind, t, a, N, F)
<1> DEFINE T == {k \in Nat : ~\E F : IsLoop(kind, t, a, k, F)}
<1>1. SUFFICES ASSUME T # {} PROVE FALSE
  OBVIOUS
<1>2. PICK n \in T : \A k \in T : n <= k
  <2>1. T \in SUBSET Nat
    OBVIOUS
  <2> HIDE DEF T
  <2> QED BY <1>1, <2>1, LeastNumber
<1>3. n \in Nat /\ ~\E F : IsLoop(kind, t, a, n, F)
  BY <1>2
<1>4. CASE n = 0
  <2> DEFINE F == [k \in 0..0 |-> t]
  <2>1. \A k \in 0..0 : LoopBody(F, kind, t, a, k) = t
    BY DEF LoopBody
  <2>2. F = [k \in 0..0 |-> LoopBody(F, kind, t, a, k)]
    BY <2>1
  <2> QED BY <1>3, <1>4, <2>2 DEF IsLoop
<1>5. CASE n # 0
  <2>1. n - 1 \in Nat /\ ~(n <= n - 1)
    BY <1>3, <1>5
  <2>2. n - 1 \notin T
    <3> HIDE DEF T
    <3> QED BY <1>2, <2>1
  <2>3. PICK G : IsLoop(kind, t, a, n - 1, G)
    BY <2>1, <2>2
  <2> DEFINE F == [k \in 0..n |-> IF k < n THEN G[k] ELSE LoopBody(G, kind, t, a, n)]
  <2>4. ASSUME NEW k \in 0..n PROVE F[k] = LoopBody(F, kind, t, a, k)
    <3>1. k \in Int /\ n \in Int /\ (k = 0 \/ k - 1 \in 0..(n - 1))
      BY <1>3
    <3>2. k # 0 => k - 1 \in 0..n /\ k - 1 < n /\ F[k - 1] = G[k - 1]
      BY <1>3, <3>1
    <3>3. LoopBody(F, kind, t, a, k) = LoopBody(G, kind, t, a, k)
      <4> HIDE DEF F
      <4> QED BY <3>2 DEF LoopBody
    <3>4. CASE k < n
      <4>1. k \in 0..(n - 1)
        BY <1>3, <3>4
      <4>2. G[k] = LoopBody(G, kind, t, a, k)
        BY <2>3, <4>1 DEF IsLoop
      <4> QED BY <3>3, <3>4, <4>2
    <3>5. CASE k = n
      BY <1>3, <3>3, <3>5
    <3> QED BY <1>3, <3>4, <3>5
  <2>5. F = [k \in 0..n |-> LoopBody(F, kind, t, a, k)]
    <3>1. DOMAIN F = 0..n /\ F = [k \in 0..n |-> F[k]]
      OBVIOUS
    <3> HIDE DEF F
    <3> QED BY <2>4, <3>1
  <2> QED BY <1>3, <2>5 DEF IsLoop
<1> QED BY <1>4, <1>5

-----------------------------------------------------------------------------
(* A restart reads what Serialize wrote of the tables z.                   *)

NewList(z) == InOrder({id \in DOMAIN z.mapInfo : z.mapInfo[id].nRefCount > 0})
TriedList(z) == InOrder({id \in DOMAIN z.mapInfo : z.mapInfo[id].fInTried})

\* The address and the first source are the same.
Copy(e, f) == e.addr = f.addr /\ e.source = f.source

\* u has the first k of the "new" entries of z, with the ids 0 to k - 1.
Copied(z, u, k) ==
    \A i \in 0..(k - 1) :
        i \in DOMAIN u.mapInfo /\ ~u.mapInfo[i].fInTried /\ Copy(u.mapInfo[i], z.mapInfo[NewList(z)[i + 1]])

\* The other entries of u, after n ids, are the first k of infos.
CopiedTried(u, infos, k, n) ==
    /\ \A i \in DOMAIN u.mapInfo : i \in 0..(n - 1) \/ \E j \in 1..k : Copy(u.mapInfo[i], infos[j])
    /\ \A j \in 1..k : \E i \in DOMAIN u.mapInfo : u.mapInfo[i].fInTried /\ Copy(u.mapInfo[i], infos[j])
    /\ \A i \in DOMAIN u.mapInfo : u.mapInfo[i].fInTried <=> i \notin 0..(n - 1)

\* Only the references and the "new" slots differ.
SameEntries(t, u) ==
    /\ DOMAIN u.mapInfo = DOMAIN t.mapInfo
    /\ \A i \in DOMAIN t.mapInfo : /\ u.mapInfo[i].fInTried <=> t.mapInfo[i].fInTried
                                   /\ Copy(u.mapInfo[i], t.mapInfo[i])

\* A "new" slot of u that is taken holds the copy of what z has there.
OnlyCopies(z, u) ==
    \A s \in NewSlots : u.vvNew[s] # None =>
        u.vvNew[s] \in 0..(Len(NewList(z)) - 1) /\ z.vvNew[s] = NewList(z)[u.vvNew[s] + 1]

\* No slot is given up.
KeepsSlots(t, u) == \A s \in NewSlots : t.vvNew[s] # None => u.vvNew[s] # None

Addresses(infos, k) == {infos[j].addr : j \in 1..k}

\* What holds after k steps of a loop that begins with t.
Kept(kind, z, t, a, u, k) ==
    IF kind = "swap" THEN Consistent(u, {}, {}) /\ Len(u.vRandom) = Len(t.vRandom)
    ELSE IF kind = "new"
    THEN /\ Consistent(u, {}, Nat) /\ u.nIdCount = k /\ DOMAIN u.mapInfo = 0..(k - 1)
         /\ Copied(z, u, k) /\ DOMAIN u.mapAddr = Addresses(a, k) /\ u.vvNew = t.vvNew
    ELSE IF kind = "tried"
    THEN /\ Consistent(u, {}, Nat) /\ Copied(z, u, t.nIdCount) /\ CopiedTried(u, a, k, t.nIdCount)
         /\ DOMAIN u.mapAddr = DOMAIN t.mapAddr \cup Addresses(a, k)
         /\ u.nIdCount = t.nIdCount + k /\ u.vvNew = t.vvNew
    ELSE IF kind = "position"
    THEN /\ Consistent(u, {}, Nat) /\ SameEntries(t, u) /\ OnlyCopies(z, u) /\ KeepsSlots(t, u)
         /\ \A j \in 1..k : u.vvNew[NewSlot(a[1], t.mapInfo[a[2][j] - 1].addr)] # None
    ELSE IF kind = "bucket"
    THEN /\ Consistent(u, {}, Nat) /\ SameEntries(t, u) /\ OnlyCopies(z, u) /\ KeepsSlots(t, u)
         /\ \A s \in NewSlots : s[1] \in 1..k /\ z.vvNew[s] # None => u.vvNew[s] # None
    ELSE u = t

\* and what every step keeps holds in the end.
LEMMA LoopKeeps ==
    ASSUME NEW kind, NEW z, NEW t, NEW a, NEW N \in Nat, NEW F, IsLoop(kind, t, a, N, F),
           Kept(kind, z, t, a, t, 0),
           \A u : \A k \in 1..N : Kept(kind, z, t, a, u, k - 1) => Kept(kind, z, t, a, StepOf(kind, a, u, k), k)
    PROVE  Kept(kind, z, t, a, F[N], N)
<1> DEFINE T == {k \in 0..N : ~Kept(kind, z, t, a, F[k], k)}
<1>1. SUFFICES ASSUME T # {} PROVE FALSE
  <2>1. N \in 0..N
    OBVIOUS
  <2> QED BY <2>1
<1>2. PICK n \in T : \A k \in T : n <= k
  <2>1. T \in SUBSET Nat
    OBVIOUS
  <2> HIDE DEF T
  <2> QED BY <1>1, <2>1, LeastNumber
<1>3. n \in 0..N /\ ~Kept(kind, z, t, a, F[n], n)
  BY <1>2
<1>4. F[n] = LoopBody(F, kind, t, a, n)
  BY <1>3 DEF IsLoop
<1>5. CASE n = 0
  BY <1>3, <1>4, <1>5 DEF LoopBody
<1>6. CASE n # 0
  <2>1. n \in 1..N /\ n - 1 \in 0..N /\ ~(n <= n - 1)
    BY <1>3, <1>6
  <2>2. n - 1 \notin T
    <3> HIDE DEF T
    <3> QED BY <1>2, <2>1
  <2>3. Kept(kind, z, t, a, F[n - 1], n - 1)
    BY <2>1, <2>2
  <2>4. F[n] = StepOf(kind, a, F[n - 1], n)
    BY <1>4, <1>6 DEF LoopBody
  <2> QED BY <1>3, <2>1, <2>3, <2>4
<1> QED BY <1>5, <1>6

-----------------------------------------------------------------------------
(* InOrder.                                                                *)

\* How many elements are less
Rank(S, x) == Cardinality({y \in S : y < x})

\* The rank of an element is less than the number of elements,
LEMMA RankRange ==
    ASSUME NEW S \in SUBSET Int, IsFiniteSet(S), NEW x \in S
    PROVE  Rank(S, x) \in 0..(Cardinality(S) - 1)
<1> DEFINE L == {y \in S : y < x}
<1>1. L \in SUBSET (S \ {x})
  OBVIOUS
<1>2. IsFiniteSet(S \ {x}) /\ Cardinality(S \ {x}) = Cardinality(S) - 1
  BY FS_RemoveElement
<1>3. IsFiniteSet(L) /\ Cardinality(L) <= Cardinality(S) - 1
  <2> DEFINE R == S \ {x}
  <2>1. L \in SUBSET R /\ IsFiniteSet(R) /\ Cardinality(R) = Cardinality(S) - 1
    BY <1>1, <1>2
  <2> HIDE DEF R, L
  <2> QED BY <2>1, FS_Subset
<1>4. Cardinality(L) \in Nat /\ Cardinality(S) \in Nat
  BY <1>3, FS_CardinalityType
<1>5. Rank(S, x) = Cardinality(L)
  BY DEF Rank
<1> HIDE DEF L
<1> QED BY <1>3, <1>4, <1>5

\* a greater element has a greater rank,
LEMMA RankGrows ==
    ASSUME NEW S \in SUBSET Int, IsFiniteSet(S), NEW x \in S, NEW z \in S, x < z
    PROVE  Rank(S, x) < Rank(S, z)
<1> DEFINE L == {y \in S : y < x}
           M == {y \in S : y < z}
           K == L \cup {x}
<1>0. \A y \in S : ~(x < x) /\ (y < x => y < z)
  <2>1. x \in Int /\ z \in Int /\ \A y \in S : y \in Int
    OBVIOUS
  <2> QED BY <2>1
<1>1. K \in SUBSET M /\ x \notin L /\ L \in SUBSET S /\ M \in SUBSET S
  BY <1>0, Zenon
<1>2. IsFiniteSet(L) /\ IsFiniteSet(M)
  <2> HIDE DEF L, M
  <2> QED BY <1>1, FS_Subset
<1>3. Cardinality(L) \in Nat /\ Cardinality(M) \in Nat
  <2> HIDE DEF L, M
  <2> QED BY <1>2, FS_CardinalityType
<1>4. Cardinality(K) = Cardinality(L) + 1
  <2> HIDE DEF L
  <2> QED BY <1>1, <1>2, FS_AddElement
<1>5. Cardinality(K) <= Cardinality(M)
  <2> HIDE DEF K, M
  <2> QED BY <1>1, <1>2, FS_Subset
<1>6. Rank(S, x) = Cardinality(L) /\ Rank(S, z) = Cardinality(M)
  BY DEF Rank
<1> HIDE DEF L, M, K
<1> QED BY <1>3, <1>4, <1>5, <1>6

\* two elements have different ranks,
LEMMA RankInjective ==
    ASSUME NEW S \in SUBSET Int, IsFiniteSet(S), NEW x \in S, NEW z \in S, Rank(S, x) = Rank(S, z)
    PROVE  x = z
<1>1. x \in Int /\ z \in Int
  OBVIOUS
<1>2. Rank(S, x) \in Int
  BY RankRange
<1>3. ~(x < z)
  BY <1>2, RankGrows
<1>4. ~(z < x)
  BY <1>2, RankGrows
<1> QED BY <1>1, <1>3, <1>4

\* and every rank occurs.
LEMMA RankOnto ==
    ASSUME NEW S \in SUBSET Int, IsFiniteSet(S), NEW j \in 0..(Cardinality(S) - 1)
    PROVE  \E x \in S : Rank(S, x) = j
<1> DEFINE n == Cardinality(S)
           I == 0..(n - 1)
           T == I \ {j}
           r == [x \in S |-> Rank(S, x)]
<1>1. SUFFICES ASSUME \A x \in S : Rank(S, x) # j PROVE FALSE
  OBVIOUS
<1>2. n \in Nat /\ n > 0
  <2>1. n \in Nat
    BY FS_CardinalityType
  <2> QED BY <2>1
<1>3. IsFiniteSet(I) /\ Cardinality(I) = n
  <2> DEFINE q == n - 1
  <2>1. 0 \in Int /\ q \in Int /\ ~(0 > q) /\ q - 0 + 1 = n
    BY <1>2
  <2>2. I = 0..q
    OBVIOUS
  <2> HIDE DEF n, q, I
  <2>3. IsFiniteSet(0..q) /\ Cardinality(0..q) = q - 0 + 1
    BY <2>1, FS_Interval
  <2> QED BY <2>1, <2>2, <2>3
<1>4. j \in I
  OBVIOUS
<1>5. IsFiniteSet(T) /\ Cardinality(T) = n - 1
  <2> HIDE DEF I
  <2> QED BY <1>3, <1>4, FS_RemoveElement
<1>6. \A x \in S : Rank(S, x) \in T
  BY <1>1, RankRange
<1>7. r \in [S -> T]
  <2> HIDE DEF T
  <2> QED BY <1>6
<1>8. \E x, y \in S : x # y /\ r[x] = r[y]
  <2>1. Cardinality(T) < Cardinality(S)
    BY <1>2, <1>5
  <2> HIDE DEF T, r
  <2> QED BY <1>5, <1>7, <2>1, FS_PigeonHole
<1>9. PICK x \in S, y \in S : x # y /\ Rank(S, x) = Rank(S, y)
  BY <1>8
<1> QED BY <1>9, RankInjective

\* InOrder lists every element once.
Lists(q, S) ==
    /\ q \in Seq(S) /\ Len(q) = Cardinality(S)
    /\ \A i \in 1..Len(q) : q[i] \in S
    /\ \A i, j \in 1..Len(q) : q[i] = q[j] => i = j
    /\ \A x \in S : \E i \in 1..Len(q) : q[i] = x

\* InOrder is such a list.
LEMMA InOrderLists ==
    ASSUME NEW S \in SUBSET Int, IsFiniteSet(S)
    PROVE  Lists(InOrder(S), S)
<1> DEFINE n == Cardinality(S)
           q == InOrder(S)
           At(k) == CHOOSE x \in S : Rank(S, x) = k - 1
<1>1. n \in Nat
  BY FS_CardinalityType
<1>2. q = [k \in 1..n |-> At(k)]
  BY DEF InOrder, Rank
<1>3. ASSUME NEW k \in 1..n PROVE At(k) \in S /\ Rank(S, At(k)) = k - 1
  <2>1. k - 1 \in 0..(n - 1)
    BY <1>1
  <2>2. \E x \in S : Rank(S, x) = k - 1
    BY <2>1, RankOnto
  <2> QED BY <2>2
<1> HIDE DEF At, q, n
<1>4. q \in Seq(S) /\ Len(q) = n /\ \A k \in 1..n : q[k] = At(k)
  BY <1>1, <1>2, <1>3
<1>5. ASSUME NEW i \in 1..n, NEW j \in 1..n, q[i] = q[j] PROVE i = j
  <2>1. i - 1 = j - 1
    BY <1>3, <1>4, <1>5
  <2> QED BY <2>1
<1>6. ASSUME NEW x \in S PROVE \E i \in 1..n : q[i] = x
  <2>1. Rank(S, x) \in 0..(n - 1)
    BY RankRange DEF n
  <2> DEFINE i == Rank(S, x) + 1
  <2>2. i \in 1..n /\ i - 1 = Rank(S, x)
    BY <1>1, <2>1
  <2>3. At(i) \in S /\ Rank(S, At(i)) = Rank(S, x)
    <3> HIDE DEF i
    <3> QED BY <1>3, <2>2
  <2>4. At(i) = x
    <3> HIDE DEF i
    <3> QED BY <2>3, RankInjective
  <2> HIDE DEF i
  <2> QED BY <1>4, <2>2, <2>4
<1>7. \A i \in 1..n : q[i] \in S
  BY <1>3, <1>4
<1> QED BY <1>4, <1>5, <1>6, <1>7 DEF Lists, n, q

-----------------------------------------------------------------------------
(* The six loops.                                                          *)

\* Each loop of the model is a loop of StepOf.
LEMMA ReadAllNewLoop ==
    ASSUME NEW t, NEW infos, Len(infos) \in Nat
    PROVE  \E F : IsLoop("new", t, infos, Len(infos), F) /\ ReadAllNew(t, infos) = F[Len(infos)]
<1> DEFINE Is(F) == F = [k \in 0..Len(infos) |-> IF k = 0 THEN t ELSE ReadNew(F[k - 1], infos[k])]
           G == CHOOSE F : Is(F)
<1>1. ASSUME NEW F PROVE Is(F) <=> IsLoop("new", t, infos, Len(infos), F)
  <2>1. \A k \in 0..Len(infos) : LoopBody(F, "new", t, infos, k) = IF k = 0 THEN t ELSE ReadNew(F[k - 1], infos[k])
    BY DEF LoopBody, StepOf
  <2> QED BY <2>1 DEF IsLoop
<1>2. \E F : Is(F)
  <2>1. \E F : IsLoop("new", t, infos, Len(infos), F)
    BY LoopExists
  <2> QED BY <1>1, <2>1
<1>3. Is(G)
  <2> HIDE DEF Is
  <2> QED BY <1>2, Zenon
<1>4. ReadAllNew(t, infos) = G[Len(infos)]
  BY Zenon DEF ReadAllNew
<1> HIDE DEF Is, G
<1> QED BY <1>1, <1>3, <1>4

\* The "tried" entries
LEMMA ReadAllTriedLoop ==
    ASSUME NEW t, NEW infos, Len(infos) \in Nat
    PROVE  \E F : IsLoop("tried", t, infos, Len(infos), F) /\ ReadAllTried(t, infos) = F[Len(infos)]
<1> DEFINE Is(F) == F = [k \in 0..Len(infos) |-> IF k = 0 THEN t ELSE ReadTried(F[k - 1], infos[k])]
           G == CHOOSE F : Is(F)
<1>1. ASSUME NEW F PROVE Is(F) <=> IsLoop("tried", t, infos, Len(infos), F)
  <2>1. \A k \in 0..Len(infos) : LoopBody(F, "tried", t, infos, k) = IF k = 0 THEN t ELSE ReadTried(F[k - 1], infos[k])
    BY DEF LoopBody, StepOf
  <2> QED BY <2>1 DEF IsLoop
<1>2. \E F : Is(F)
  <2>1. \E F : IsLoop("tried", t, infos, Len(infos), F)
    BY LoopExists
  <2> QED BY <1>1, <2>1
<1>3. Is(G)
  <2> HIDE DEF Is
  <2> QED BY <1>2, Zenon
<1>4. ReadAllTried(t, infos) = G[Len(infos)]
  BY Zenon DEF ReadAllTried
<1> HIDE DEF Is, G
<1> QED BY <1>1, <1>3, <1>4

\* The indexes of a bucket
LEMMA ReadBucketLoop ==
    ASSUME NEW t, NEW b, NEW indexes, Len(indexes) \in Nat
    PROVE  \E F : IsLoop("position", t, <<b, indexes>>, Len(indexes), F) /\ ReadBucket(t, b, indexes) = F[Len(indexes)]
<1> DEFINE Is(F) == F = [k \in 0..Len(indexes) |-> IF k = 0 THEN t ELSE ReadPosition(F[k - 1], b, indexes[k] - 1)]
           G == CHOOSE F : Is(F)
<1>1. ASSUME NEW F PROVE Is(F) <=> IsLoop("position", t, <<b, indexes>>, Len(indexes), F)
  <2>1. \A k \in 0..Len(indexes) : LoopBody(F, "position", t, <<b, indexes>>, k) = IF k = 0 THEN t ELSE ReadPosition(F[k - 1], b, indexes[k] - 1)
    BY DEF LoopBody, StepOf
  <2> QED BY <2>1 DEF IsLoop
<1>2. \E F : Is(F)
  <2>1. \E F : IsLoop("position", t, <<b, indexes>>, Len(indexes), F)
    BY LoopExists
  <2> QED BY <1>1, <2>1
<1>3. Is(G)
  <2> HIDE DEF Is
  <2> QED BY <1>2, Zenon
<1>4. ReadBucket(t, b, indexes) = G[Len(indexes)]
  BY Zenon DEF ReadBucket
<1> HIDE DEF Is, G
<1> QED BY <1>1, <1>3, <1>4

\* The buckets
LEMMA ReadBucketsLoop ==
    ASSUME NEW t, NEW buckets
    PROVE  \E F : IsLoop("bucket", t, buckets, NewBuckets, F) /\ ReadBuckets(t, buckets) = F[NewBuckets]
<1> DEFINE Is(F) == F = [k \in 0..NewBuckets |-> IF k = 0 THEN t ELSE ReadBucket(F[k - 1], k, buckets[k])]
           G == CHOOSE F : Is(F)
<1>1. ASSUME NEW F PROVE Is(F) <=> IsLoop("bucket", t, buckets, NewBuckets, F)
  <2>1. \A k \in 0..NewBuckets : LoopBody(F, "bucket", t, buckets, k) = IF k = 0 THEN t ELSE ReadBucket(F[k - 1], k, buckets[k])
    BY DEF LoopBody, StepOf
  <2> QED BY <2>1 DEF IsLoop
<1>2. \E F : Is(F)
  <2>1. \E F : IsLoop("bucket", t, buckets, NewBuckets, F)
    BY LoopExists, AddrAssumption
  <2> QED BY <1>1, <2>1
<1>3. Is(G)
  <2> HIDE DEF Is
  <2> QED BY <1>2, Zenon
<1>4. ReadBuckets(t, buckets) = G[NewBuckets]
  BY Zenon DEF ReadBuckets
<1> HIDE DEF Is, G
<1> QED BY <1>1, <1>3, <1>4

\* The entries that may have lost all their slots
LEMMA PruneLoop ==
    ASSUME NEW t, NEW ids, Len(ids) \in Nat
    PROVE  \E F : IsLoop("prune", t, ids, Len(ids), F) /\ Prune(t, ids) = F[Len(ids)]
<1> DEFINE Is(F) == F = [k \in 0..Len(ids) |-> IF k = 0 THEN t ELSE PruneEntry(F[k - 1], ids[k])]
           G == CHOOSE F : Is(F)
<1>1. ASSUME NEW F PROVE Is(F) <=> IsLoop("prune", t, ids, Len(ids), F)
  <2>1. \A k \in 0..Len(ids) : LoopBody(F, "prune", t, ids, k) = IF k = 0 THEN t ELSE PruneEntry(F[k - 1], ids[k])
    BY DEF LoopBody, StepOf
  <2> QED BY <2>1 DEF IsLoop
<1>2. \E F : Is(F)
  <2>1. \E F : IsLoop("prune", t, ids, Len(ids), F)
    BY LoopExists
  <2> QED BY <1>1, <2>1
<1>3. Is(G)
  <2> HIDE DEF Is
  <2> QED BY <1>2, Zenon
<1>4. Prune(t, ids) = G[Len(ids)]
  BY Zenon DEF Prune
<1> HIDE DEF Is, G
<1> QED BY <1>1, <1>3, <1>4

\* The exchanges of GetAddr_
LEMMA ShuffleLoop ==
    ASSUME NEW t, NEW n \in Nat, NEW pick
    PROVE  \E F : IsLoop("swap", t, pick, n, F) /\ Shuffle(t, n, pick) = F[n]
<1> DEFINE Is(F) == F = [k \in 0..n |-> IF k = 0 THEN t ELSE SwapRandom(F[k - 1], k, pick[k])]
           G == CHOOSE F : Is(F)
<1>1. ASSUME NEW F PROVE Is(F) <=> IsLoop("swap", t, pick, n, F)
  <2>1. \A k \in 0..n : LoopBody(F, "swap", t, pick, k) = IF k = 0 THEN t ELSE SwapRandom(F[k - 1], k, pick[k])
    BY DEF LoopBody, StepOf
  <2> QED BY <2>1 DEF IsLoop
<1>2. \E F : Is(F)
  <2>1. \E F : IsLoop("swap", t, pick, n, F)
    BY LoopExists
  <2> QED BY <1>1, <2>1
<1>3. Is(G)
  <2> HIDE DEF Is
  <2> QED BY <1>2, Zenon
<1>4. Shuffle(t, n, pick) = G[n]
  BY Zenon DEF Shuffle
<1> HIDE DEF Is, G
<1> QED BY <1>1, <1>3, <1>4

-----------------------------------------------------------------------------
(* What each loop keeps.                                                   *)

\* GetAddr_ keeps the tables.
LEMMA ShuffleKeeps ==
    ASSUME NEW t, Consistent(t, {}, {}), NEW n \in Nat, n <= Len(t.vRandom),
           NEW pick \in [1..n -> 1..Len(t.vRandom)], NEW v, v = Shuffle(t, n, pick)
    PROVE  Consistent(v, {}, {})
<1>0. Len(t.vRandom) \in Nat
  BY DEF Consistent, RandomOK
<1>1. PICK F : IsLoop("swap", t, pick, n, F) /\ v = F[n]
  BY ShuffleLoop
<1>2. Kept("swap", t, t, pick, t, 0)
  BY DEF Kept
<1>3. ASSUME NEW u, NEW k \in 1..n, Kept("swap", t, t, pick, u, k - 1)
      PROVE  Kept("swap", t, t, pick, StepOf("swap", pick, u, k), k)
  <2>1. Consistent(u, {}, {}) /\ Len(u.vRandom) = Len(t.vRandom)
    BY <1>3 DEF Kept
  <2> DEFINE w == SwapRandom(u, k, pick[k])
             p == pick[k]
  <2>2. StepOf("swap", pick, u, k) = w
    BY DEF StepOf
  <2>3. w = SwapRandom(u, k, p) /\ k \in 1..Len(u.vRandom) /\ p \in 1..Len(u.vRandom)
    BY <1>0, <2>1
  <2> HIDE DEF w, p
  <2>4. Consistent(w, {}, {}) /\ Len(w.vRandom) = Len(u.vRandom)
    BY <2>1, <2>3, SwapKeeps
  <2> QED BY <2>1, <2>2, <2>4 DEF Kept
<1>4. Kept("swap", t, t, pick, F[n], n)
  BY <1>1, <1>2, <1>3, LoopKeeps
<1> QED BY <1>1, <1>4 DEF Kept

\* Entries of peers.dat: each has an address of its own.
Records(infos) ==
    /\ Len(infos) \in Nat
    /\ \A k \in 1..Len(infos) : infos[k].addr \in Addr /\ infos[k].source \in Source
    /\ \A j, k \in 1..Len(infos) : infos[j].addr = infos[k].addr => j = k

\* The next address is a new one.
LEMMA AddressesGrow ==
    ASSUME NEW infos, Records(infos), NEW k \in 1..Len(infos)
    PROVE  /\ infos[k].addr \in Addr /\ infos[k].source \in Source
           /\ infos[k].addr \notin Addresses(infos, k - 1)
           /\ Addresses(infos, k) = Addresses(infos, k - 1) \cup {infos[k].addr}
<1>1. \A j \in 1..(k - 1) : j \in 1..Len(infos) /\ j # k
  BY DEF Records
<1>2. infos[k].addr \notin Addresses(infos, k - 1)
  BY <1>1 DEF Records, Addresses
<1>3. \A j : j \in 1..k <=> j \in 1..(k - 1) \/ j = k
  BY DEF Records
<1>4. Addresses(infos, k) = Addresses(infos, k - 1) \cup {infos[k].addr}
  BY <1>3 DEF Addresses
<1> QED BY <1>2, <1>4 DEF Records

\* Create records the source.
LEMMA CreateSource ==
    ASSUME NEW t, IsTables(t), NEW a, NEW src, NEW u, u = Create(t, a, src)
    PROVE  IsTables(u) /\ u.mapInfo[t.nIdCount].source = src
<1>1. IsTables(u)
  BY Zenon DEF IsTables, Fields, Create
<1>2. u.mapInfo = With(t.mapInfo, t.nIdCount, CAddrInfo(a, src, Len(t.vRandom) + 1))
  BY DEF Create, IsTables, Fields
<1> QED BY <1>1, <1>2 DEF With, CAddrInfo

\* What a "new" entry of peers.dat adds
LEMMA ReadNewStep ==
    ASSUME NEW t, NEW Y, Consistent(t, {}, Y), NEW a \in Addr, NEW src \in Source,
           a \notin DOMAIN t.mapAddr, NEW id, id = t.nIdCount, id \in Y,
           NEW u, CountedNew(Create(t, a, src), u)
    PROVE  /\ Consistent(u, {}, Y)
           /\ id \notin DOMAIN t.mapInfo /\ DOMAIN u.mapInfo = DOMAIN t.mapInfo \cup {id}
           /\ \A i \in DOMAIN t.mapInfo : u.mapInfo[i] = t.mapInfo[i]
           /\ ~u.mapInfo[id].fInTried /\ u.mapInfo[id].addr = a /\ u.mapInfo[id].source = src
           /\ DOMAIN u.mapAddr = DOMAIN t.mapAddr \cup {a} /\ u.nIdCount = id + 1 /\ u.vvNew = t.vvNew
<1> DEFINE Y2 == Y
<1>1. \A i : i \in Y \/ i = id => i \in Y2
  OBVIOUS
<1> HIDE DEF Y2
<1>2. /\ Consistent(u, {}, Y2)
      /\ id \notin DOMAIN t.mapInfo /\ DOMAIN u.mapInfo = DOMAIN t.mapInfo \cup {id}
      /\ \A i \in DOMAIN t.mapInfo : u.mapInfo[i] = t.mapInfo[i]
      /\ ~u.mapInfo[id].fInTried /\ u.mapInfo[id].addr = a
      /\ DOMAIN u.mapAddr = DOMAIN t.mapAddr \cup {a} /\ u.nIdCount = id + 1 /\ u.vvNew = t.vvNew
  BY <1>1, ReadNewKeeps
<1>3. u.mapInfo[id].source = src
  <2> DEFINE c == Create(t, a, src)
  <2>1. IsTables(t) /\ c = Create(t, a, src) /\ CountedNew(c, u)
    BY DEF Consistent
  <2> HIDE DEF c
  <2>2. IsTables(c) /\ c.mapInfo[id].source = src
    BY <2>1, CreateSource
  <2>3. u.mapInfo = c.mapInfo
    BY <2>1, <2>2 DEF CountedNew, IsTables, Fields
  <2> QED BY <2>2, <2>3
<1> QED BY <1>2, <1>3 DEF Y2

\* After the first loop of Unserialize, u has copies of the "new" entries, without slots.
LEMMA ReadAllNewKeeps ==
    ASSUME NEW z, NEW t, NEW infos, Records(infos), Consistent(t, {}, Nat), t.nIdCount = 0,
           DOMAIN t.mapAddr = {}, DOMAIN t.mapInfo = {},
           \A k \in 1..Len(infos) : infos[k] = z.mapInfo[NewList(z)[k]],
           NEW v, v = ReadAllNew(t, infos)
    PROVE  Kept("new", z, t, infos, v, Len(infos))
<1> DEFINE n == Len(infos)
<1>0. n \in Nat
  BY DEF Records
<1>1. PICK F : IsLoop("new", t, infos, n, F) /\ v = F[n]
  BY <1>0, ReadAllNewLoop
<1>2. Kept("new", z, t, infos, t, 0)
  <2>1. Copied(z, t, 0) /\ 0..(0 - 1) = {}
    <3>1. 0..(0 - 1) = {}
      OBVIOUS
    <3> QED BY <3>1, Zenon DEF Copied
  <2>2. Addresses(infos, 0) = {}
    BY DEF Addresses
  <2> QED BY <2>1, <2>2 DEF Kept
<1>3. ASSUME NEW u, NEW k \in 1..n, Kept("new", z, t, infos, u, k - 1)
      PROVE  Kept("new", z, t, infos, StepOf("new", infos, u, k), k)
  <2>1. /\ Consistent(u, {}, Nat) /\ u.nIdCount = k - 1 /\ DOMAIN u.mapInfo = 0..(k - 1 - 1)
        /\ Copied(z, u, k - 1) /\ DOMAIN u.mapAddr = Addresses(infos, k - 1) /\ u.vvNew = t.vvNew
    BY <1>3 DEF Kept
  <2> DEFINE w == ReadNew(u, infos[k])
             a == infos[k].addr
             src == infos[k].source
             id == k - 1
             Y == Nat
  <2>2. StepOf("new", infos, u, k) = w
    BY DEF StepOf
  <2>3. CountedNew(Create(u, a, src), w)
    BY DEF CountedNew, ReadNew
  <2>4. /\ a \in Addr /\ src \in Source /\ a \notin DOMAIN u.mapAddr
        /\ Addresses(infos, k) = Addresses(infos, k - 1) \cup {a}
    BY <2>1, AddressesGrow
  <2>5. id \in Y
    BY <1>0
  <2>6. Consistent(u, {}, Y) /\ id = u.nIdCount
    BY <2>1
  <2>7. a = z.mapInfo[NewList(z)[k]].addr /\ src = z.mapInfo[NewList(z)[k]].source
    OBVIOUS
  <2> HIDE DEF w, a, src, id, Y
  <2>8. /\ Consistent(w, {}, Y) /\ id \notin DOMAIN u.mapInfo /\ DOMAIN w.mapInfo = DOMAIN u.mapInfo \cup {id}
        /\ \A i \in DOMAIN u.mapInfo : w.mapInfo[i] = u.mapInfo[i]
        /\ ~w.mapInfo[id].fInTried /\ w.mapInfo[id].addr = a /\ w.mapInfo[id].source = src
        /\ DOMAIN w.mapAddr = DOMAIN u.mapAddr \cup {a} /\ w.nIdCount = id + 1 /\ w.vvNew = u.vvNew
    BY <2>3, <2>4, <2>5, <2>6, ReadNewStep
  <2>9. id + 1 = k /\ \A i : i \in 0..(k - 1) <=> i \in 0..(k - 1 - 1) \/ i = id
    BY <1>0 DEF id
  <2>10. DOMAIN w.mapInfo = 0..(k - 1)
    BY <2>1, <2>8, <2>9
  <2>11. ASSUME NEW i \in 0..(k - 1)
         PROVE  i \in DOMAIN w.mapInfo /\ ~w.mapInfo[i].fInTried /\ Copy(w.mapInfo[i], z.mapInfo[NewList(z)[i + 1]])
    <3>1. CASE i = id
      BY <2>7, <2>8, <2>9, <3>1 DEF Copy
    <3>2. CASE i # id
      <4>1. i \in 0..(k - 1 - 1)
        BY <2>9, <3>2
      <4>2. i \in DOMAIN u.mapInfo /\ ~u.mapInfo[i].fInTried /\ Copy(u.mapInfo[i], z.mapInfo[NewList(z)[i + 1]])
        BY <2>1, <4>1 DEF Copied
      <4> QED BY <2>8, <4>2
    <3> QED BY <3>1, <3>2
  <2>12. Copied(z, w, k)
    BY <2>11 DEF Copied
  <2>13. DOMAIN w.mapAddr = Addresses(infos, k) /\ w.vvNew = t.vvNew
    BY <2>1, <2>4, <2>8
  <2> QED BY <2>2, <2>8, <2>9, <2>10, <2>12, <2>13 DEF Kept, Y
<1> HIDE DEF n
<1>4. Kept("new", z, t, infos, F[n], n)
  BY <1>0, <1>1, <1>2, <1>3, LoopKeeps
<1> QED BY <1>1, <1>4 DEF n

\* A "tried" entry of peers.dat whose slot is free
LEMMA ReadTriedStep ==
    ASSUME NEW t, Consistent(t, {}, Nat), NEW info, info.addr \in Addr, info.source \in Source,
           info.addr \notin DOMAIN t.mapAddr, t.vvTried[TriedSlot[info.addr]] = None,
           NEW id, id = t.nIdCount, NEW v, v = ReadTried(t, info)
    PROVE  /\ Consistent(v, {}, Nat) /\ v.nIdCount = id + 1 /\ v.vvNew = t.vvNew
           /\ id \notin DOMAIN t.mapInfo /\ DOMAIN v.mapInfo = DOMAIN t.mapInfo \cup {id}
           /\ \A i \in DOMAIN t.mapInfo : v.mapInfo[i] = t.mapInfo[i]
           /\ v.mapInfo[id].fInTried /\ Copy(v.mapInfo[id], info)
           /\ DOMAIN v.mapAddr = DOMAIN t.mapAddr \cup {info.addr}
<1> DEFINE k == TriedSlot[info.addr]
           a == info.addr
           src == info.source
           c == Create(t, a, src)
           E == {}
           X == E \cup {id}
           Z == Nat \cup {id}
           Y == Nat
<1>1. v = [c EXCEPT !.mapInfo[id].fInTried = TRUE, !.vvTried[k] = id, !.nTried = @ + 1]
  BY DEF ReadTried
<1>2. Consistent(c, X, Z) /\ Created(t, c, id, a)
  <2>1. c = Create(t, a, src) /\ Consistent(t, E, Y) /\ a \in Addr /\ src \in Source
        /\ a \notin DOMAIN t.mapAddr /\ Z = Y \cup {id}
    OBVIOUS
  <2> HIDE DEF c, E, a, src, Y, Z
  <2>2. Consistent(c, E \cup {id}, Y \cup {id}) /\ Created(t, c, id, a)
    BY <2>1, CreateKeeps
  <2> QED BY <2>1, <2>2
<1>3. c.mapInfo[id].source = src
  <2>1. IsTables(t) /\ c = Create(t, a, src)
    BY DEF Consistent
  <2> HIDE DEF c, a, src
  <2> QED BY <2>1, CreateSource
<1>4. /\ id \in DOMAIN c.mapInfo /\ ~c.mapInfo[id].fInTried /\ c.mapInfo[id].addr = a
      /\ c.vvTried = t.vvTried /\ c.nIdCount = id + 1 /\ c.vvNew = t.vvNew
      /\ DOMAIN c.mapInfo = DOMAIN t.mapInfo \cup {id} /\ id \notin DOMAIN t.mapInfo
      /\ \A i \in DOMAIN t.mapInfo : c.mapInfo[i] = t.mapInfo[i]
      /\ DOMAIN c.mapAddr = DOMAIN t.mapAddr \cup {a}
  <2> HIDE DEF c, a
  <2> QED BY <1>2 DEF Created
<1>5. k = TriedSlot[c.mapInfo[id].addr] /\ c.vvTried[k] = None
  <2> HIDE DEF c
  <2> QED BY <1>4
<1> HIDE DEF c, k
<1>6. /\ TriedTaken(c, v, id, k) /\ v.mapAddr = c.mapAddr /\ v.nIdCount = c.nIdCount
      /\ v.vvNew = c.vvNew
  <2>1. IsTables(c)
    BY <1>2 DEF Consistent
  <2>2. IsTables(v)
    BY <1>1, <2>1, Zenon DEF IsTables, Fields
  <2>3. /\ v.mapInfo = [c.mapInfo EXCEPT ![id].fInTried = TRUE] /\ v.ok = c.ok
        /\ v.vvTried = [c.vvTried EXCEPT ![k] = id] /\ v.vvNew = c.vvNew
        /\ v.mapAddr = c.mapAddr /\ v.vRandom = c.vRandom
        /\ v.nIdCount = c.nIdCount /\ v.nNew = c.nNew /\ v.nTried = c.nTried + 1
    BY <1>1, <2>1 DEF IsTables, Fields
  <2> QED BY <2>2, <2>3 DEF TriedTaken
<1>7. Consistent(v, E, Y) /\ TriedSet(c.mapInfo, v.mapInfo, DOMAIN c.mapInfo, id, TRUE)
  <2>1. id \in X /\ LeftOut(E, X, id) /\ Covers(Y, Z, id)
    BY DEF LeftOut, Covers
  <2>2. Consistent(c, X, Z) /\ TriedTaken(c, v, id, k)
    BY <1>2, <1>6
  <2>3. /\ id \in DOMAIN c.mapInfo /\ ~c.mapInfo[id].fInTried
        /\ k = TriedSlot[c.mapInfo[id].addr] /\ c.vvTried[k] = None
    BY <1>4, <1>5
  <2> HIDE DEF X, Z, E, Y
  <2> QED BY <2>1, <2>2, <2>3, TakeTriedKeeps
<1>8. /\ DOMAIN v.mapInfo = DOMAIN c.mapInfo
      /\ \A i \in DOMAIN c.mapInfo : i # id => v.mapInfo[i] = c.mapInfo[i]
      /\ v.mapInfo[id].fInTried = TRUE /\ v.mapInfo[id].addr = c.mapInfo[id].addr
      /\ v.mapInfo[id].source = c.mapInfo[id].source
  BY <1>7 DEF TriedSet, Rest
<1>9. Copy(v.mapInfo[id], info) /\ v.mapInfo[id].fInTried
  BY <1>3, <1>4, <1>8 DEF Copy
<1>10. /\ DOMAIN v.mapInfo = DOMAIN t.mapInfo \cup {id}
       /\ \A i \in DOMAIN t.mapInfo : v.mapInfo[i] = t.mapInfo[i]
  BY <1>4, <1>8
<1>11. Consistent(v, {}, Nat)
  BY <1>7
<1> QED BY <1>4, <1>6, <1>9, <1>10, <1>11

\* No two entries have the same "tried" slot.
Spread(infos) ==
    \A j, k \in 1..Len(infos) : TriedSlot[infos[j].addr] = TriedSlot[infos[k].addr] => j = k

\* After the second loop, it has copies of the "tried" entries too: none is lost.
LEMMA ReadAllTriedKeeps ==
    ASSUME NEW z, NEW t, NEW infos, Records(infos), Spread(infos), Consistent(t, {}, Nat),
           NEW n \in Nat, n = t.nIdCount, DOMAIN t.mapInfo = 0..(n - 1), Copied(z, t, n),
           \A k \in 1..Len(infos) : infos[k].addr \notin DOMAIN t.mapAddr,
           NEW v, v = ReadAllTried(t, infos)
    PROVE  /\ Consistent(v, {}, Nat) /\ Copied(z, v, n) /\ CopiedTried(v, infos, Len(infos), n)
           /\ v.vvNew = t.vvNew
<1> DEFINE N == Len(infos)
<1>0. N \in Nat
  BY DEF Records
<1>1. PICK F : IsLoop("tried", t, infos, N, F) /\ v = F[N]
  BY <1>0, ReadAllTriedLoop
<1>2. Kept("tried", z, t, infos, t, 0)
  <2>1. Addresses(infos, 0) = {}
    BY DEF Addresses
  <2>2. CopiedTried(t, infos, 0, n)
    BY DEF CopiedTried, Copied
  <2> QED BY <2>1, <2>2 DEF Kept
<1>3. ASSUME NEW u, NEW k \in 1..N, Kept("tried", z, t, infos, u, k - 1)
      PROVE  Kept("tried", z, t, infos, StepOf("tried", infos, u, k), k)
  <2>1. /\ Consistent(u, {}, Nat) /\ Copied(z, u, n) /\ CopiedTried(u, infos, k - 1, n)
        /\ DOMAIN u.mapAddr = DOMAIN t.mapAddr \cup Addresses(infos, k - 1)
        /\ u.nIdCount = n + (k - 1) /\ u.vvNew = t.vvNew
    BY <1>3 DEF Kept
  <2> DEFINE w == ReadTried(u, infos[k])
             info == infos[k]
             id == n + (k - 1)
  <2>2. StepOf("tried", infos, u, k) = w
    BY DEF StepOf
  <2>3. w = ReadTried(u, info) /\ id = u.nIdCount
    BY <2>1
  <2>4. /\ info.addr \in Addr /\ info.source \in Source
        /\ info.addr \notin Addresses(infos, k - 1)
        /\ Addresses(infos, k) = Addresses(infos, k - 1) \cup {info.addr}
    BY AddressesGrow
  <2>5. info.addr \notin DOMAIN u.mapAddr
    BY <2>1, <2>4
  <2>6. u.vvTried[TriedSlot[info.addr]] = None
    <3> DEFINE s == TriedSlot[info.addr]
               i == u.vvTried[s]
    <3>1. s \in TriedSlots
      BY <2>4, AddrAssumption
    <3>2. SUFFICES ASSUME i # None PROVE FALSE
      OBVIOUS
    <3>3. TriedOK(u.mapInfo, u.vvTried)
      BY <2>1 DEF Consistent
    <3>4. i \in DOMAIN u.mapInfo /\ u.mapInfo[i].fInTried /\ s = TriedSlot[u.mapInfo[i].addr]
      <4> HIDE DEF s
      <4> QED BY <3>1, <3>2, <3>3 DEF TriedOK
    <3> HIDE DEF i
    <3>5. PICK j \in 1..(k - 1) : u.mapInfo[i].addr = infos[j].addr
      BY <2>1, <3>4 DEF CopiedTried, Copy
    <3>6. j \in 1..N /\ k \in 1..N /\ j # k
      BY <1>0
    <3> QED BY <3>4, <3>5, <3>6 DEF Spread
  <2> HIDE DEF w, info
  <2>7. /\ Consistent(w, {}, Nat) /\ w.nIdCount = id + 1 /\ w.vvNew = u.vvNew
        /\ id \notin DOMAIN u.mapInfo /\ DOMAIN w.mapInfo = DOMAIN u.mapInfo \cup {id}
        /\ \A i \in DOMAIN u.mapInfo : w.mapInfo[i] = u.mapInfo[i]
        /\ w.mapInfo[id].fInTried /\ Copy(w.mapInfo[id], info)
        /\ DOMAIN w.mapAddr = DOMAIN u.mapAddr \cup {info.addr}
    <3> HIDE DEF id
    <3> QED BY <2>1, <2>3, <2>4, <2>5, <2>6, ReadTriedStep
  <2>8. /\ id \notin 0..(n - 1) /\ id + 1 = n + k
        /\ \A j : j \in 1..k <=> j \in 1..(k - 1) \/ j = k
    BY <1>0
  <2> HIDE DEF id
  <2>9. Copied(z, w, n)
    BY <2>1, <2>7 DEF Copied
  <2>10. CopiedTried(w, infos, k, n)
    <3>1. \A i \in DOMAIN w.mapInfo : i \in 0..(n - 1) \/ \E j \in 1..k : Copy(w.mapInfo[i], infos[j])
      BY <2>1, <2>7, <2>8 DEF CopiedTried, info
    <3>2. \A j \in 1..k : \E i \in DOMAIN w.mapInfo : w.mapInfo[i].fInTried /\ Copy(w.mapInfo[i], infos[j])
      <4> SUFFICES ASSUME NEW j \in 1..k
                   PROVE  \E i \in DOMAIN w.mapInfo : w.mapInfo[i].fInTried /\ Copy(w.mapInfo[i], infos[j])
        OBVIOUS
      <4>1. CASE j = k
        BY <2>7, <4>1 DEF info
      <4>2. CASE j \in 1..(k - 1)
        <5>1. PICK i \in DOMAIN u.mapInfo : u.mapInfo[i].fInTried /\ Copy(u.mapInfo[i], infos[j])
          BY <2>1, <4>2 DEF CopiedTried
        <5> QED BY <2>7, <5>1
      <4> QED BY <2>8, <4>1, <4>2
    <3>3. \A i \in DOMAIN w.mapInfo : w.mapInfo[i].fInTried <=> i \notin 0..(n - 1)
      BY <2>1, <2>7, <2>8 DEF CopiedTried
    <3> QED BY <3>1, <3>2, <3>3 DEF CopiedTried
  <2>11. DOMAIN w.mapAddr = DOMAIN t.mapAddr \cup Addresses(infos, k) /\ w.vvNew = t.vvNew
    BY <2>1, <2>4, <2>7
  <2> QED BY <2>2, <2>7, <2>8, <2>9, <2>10, <2>11 DEF Kept
<1> HIDE DEF N
<1>4. Kept("tried", z, t, infos, F[N], N)
  BY <1>0, <1>1, <1>2, <1>3, LoopKeeps
<1> QED BY <1>1, <1>4 DEF Kept, N

\* An index of a bucket gives the entry its slot there, unless the slot is taken.
LEMMA ReadPositionStep ==
    ASSUME NEW t, Consistent(t, {}, Nat), NEW b \in 1..NewBuckets, NEW id \in DOMAIN t.mapInfo,
           ~t.mapInfo[id].fInTried, NEW slot, slot = NewSlot(b, t.mapInfo[id].addr),
           t.vvNew[slot] = None => t.mapInfo[id].nRefCount < MaxRefs,
           NEW v, v = ReadPosition(t, b, id)
    PROVE  /\ Consistent(v, {}, Nat) /\ SameEntries(t, v)
           /\ \A s \in NewSlots : v.vvNew[s] = IF s = slot /\ t.vvNew[s] = None THEN id ELSE t.vvNew[s]
<1> DEFINE a == t.mapInfo[id].addr
<1>0. a \in Addr
  BY EntryIn
<1>1. CASE t.vvNew[slot] = None
  <2>1. v = [t EXCEPT !.vvNew[slot] = id, !.mapInfo[id].nRefCount = @ + 1]
    BY <1>1 DEF ReadPosition
  <2>2. slot \in NewSlots /\ Belongs(slot, a)
    <3> HIDE DEF a
    <3>1. slot = NewSlot(b, a)
      BY DEF a
    <3> QED BY <1>0, <3>1, SlotWhere
  <2>3. Taken(t, v, id, slot)
    <3>1. IsTables(t)
      BY DEF Consistent
    <3>2. IsTables(v)
      BY <2>1, <3>1, Zenon DEF IsTables, Fields
    <3>3. /\ v.mapInfo = [t.mapInfo EXCEPT ![id].nRefCount = t.mapInfo[id].nRefCount + 1]
          /\ v.vvNew = [t.vvNew EXCEPT ![slot] = id] /\ v.vvTried = t.vvTried /\ v.ok = t.ok
          /\ v.mapAddr = t.mapAddr /\ v.vRandom = t.vRandom
          /\ v.nIdCount = t.nIdCount /\ v.nNew = t.nNew /\ v.nTried = t.nTried
      BY <2>1, <3>1 DEF IsTables, Fields
    <3> QED BY <3>2, <3>3 DEF Taken
  <2> DEFINE Y == Nat
             E == {}
  <2>4. /\ Consistent(v, E, Y)
        /\ RefsSet(t.mapInfo, v.mapInfo, DOMAIN t.mapInfo, id, t.mapInfo[id].nRefCount + 1)
    <3>1. Consistent(t, E, Y) /\ id \notin E /\ \A i : i \in Y /\ i # id => i \in Y
      OBVIOUS
    <3>2. Belongs(slot, t.mapInfo[id].addr) /\ t.mapInfo[id].nRefCount < MaxRefs
      BY <1>1, <2>2
    <3> HIDE DEF Y, E
    <3> QED BY <1>1, <2>2, <2>3, <3>1, <3>2, PutKeeps
  <2>5. SameEntries(t, v)
    BY <2>4 DEF SameEntries, RefsSet, Rest, Copy
  <2>6. \A s \in NewSlots : v.vvNew[s] = IF s = slot /\ t.vvNew[s] = None THEN id ELSE t.vvNew[s]
    <3>1. t.vvNew \in [NewSlots -> DOMAIN t.mapInfo \cup {None}]
      BY DEF Consistent, NewOK
    <3>2. v.vvNew = [t.vvNew EXCEPT ![slot] = id]
      BY <2>3 DEF Taken
    <3> QED BY <1>1, <3>1, <3>2
  <2> QED BY <2>4, <2>5, <2>6
<1>2. CASE t.vvNew[slot] # None
  <2>1. v = t
    BY <1>2 DEF ReadPosition
  <2> QED BY <1>2, <2>1 DEF SameEntries, Copy
<1> QED BY <1>1, <1>2

\* The indexes of bucket b are those of the entries in its slots.
Row(z, b, q) ==
    /\ Len(q) \in Nat
    /\ \A k \in 1..Len(q) : /\ q[k] \in 1..Len(NewList(z))
                            /\ \E s \in NewSlots : s[1] = b /\ z.vvNew[s] = NewList(z)[q[k]]
    /\ \A s \in NewSlots : s[1] = b /\ z.vvNew[s] # None => \E k \in 1..Len(q) : z.vvNew[s] = NewList(z)[q[k]]

\* An entry whose copy lacks a slot that it has itself may have one more.
LEMMA RoomLeft ==
    ASSUME NEW z, Consistent(z, {}, {}), NEW o \in DOMAIN z.mapInfo, NEW slot \in NewSlots, z.vvNew[slot] = o,
           NEW u, Consistent(u, {}, Nat), NEW id \in DOMAIN u.mapInfo, u.vvNew[slot] # id,
           \A s \in NewSlots : u.vvNew[s] = id => z.vvNew[s] = o
    PROVE  u.mapInfo[id].nRefCount < MaxRefs
<1> DEFINE S == SlotsOf(u.vvNew, id)
           T == SlotsOf(z.vvNew, o)
           R == T \ {slot}
<1>1. S \subseteq R /\ slot \in T
  BY DEF SlotsOf
<1>2. /\ z.mapInfo[o].nRefCount = Cardinality(T) /\ z.mapInfo[o].nRefCount <= MaxRefs
      /\ u.mapInfo[id].nRefCount = Cardinality(S)
  BY DEF Consistent, NewOK, RefsOK
<1>3. IsFiniteSet(T) /\ Cardinality(T) \in Nat /\ IsFiniteSet(S) /\ Cardinality(S) \in Nat
  BY HeldCounted
<1> HIDE DEF S, T
<1>4. IsFiniteSet(R) /\ Cardinality(R) = Cardinality(T) - 1
  BY <1>1, <1>3, FS_RemoveElement
<1> HIDE DEF R
<1>5. Cardinality(S) <= Cardinality(R)
  BY <1>1, <1>4, FS_Subset
<1> QED BY <1>2, <1>3, <1>4, <1>5, AddrAssumption

\* Where z has what an index stands for
LEMMA IndexSlot ==
    ASSUME NEW z, Consistent(z, {}, {}), NEW b, NEW s \in NewSlots, s[1] = b, z.vvNew[s] # None,
           NEW a, a = z.mapInfo[z.vvNew[s]].addr
    PROVE  s = NewSlot(b, a)
BY DEF Consistent, NewOK

\* After a bucket, the slots of its indexes are taken, by the copies of what z has there.
LEMMA ReadBucketKeeps ==
    ASSUME NEW z, Consistent(z, {}, {}), Lists(NewList(z), NewIds(z.mapInfo, {})),
           NEW t, Consistent(t, {}, Nat), Copied(z, t, Len(NewList(z))), OnlyCopies(z, t),
           NEW b \in 1..NewBuckets, NEW q, Row(z, b, q),
           NEW v, v = ReadBucket(t, b, q)
    PROVE  /\ Consistent(v, {}, Nat) /\ SameEntries(t, v) /\ OnlyCopies(z, v) /\ KeepsSlots(t, v)
           /\ \A j \in 1..Len(q) : v.vvNew[NewSlot(b, t.mapInfo[q[j] - 1].addr)] # None
<1> DEFINE N == Len(q)
           a == <<b, q>>
           ids == NewList(z)
           n == Len(ids)
<1>0. N \in Nat /\ n \in Nat
  BY DEF Row, Lists
<1>1. PICK F : IsLoop("position", t, a, N, F) /\ v = F[N]
  BY <1>0, ReadBucketLoop
<1>2. Kept("position", z, t, a, t, 0)
  BY DEF Kept, SameEntries, KeepsSlots, Copy
<1>3. ASSUME NEW u, NEW k \in 1..N, Kept("position", z, t, a, u, k - 1)
      PROVE  Kept("position", z, t, a, StepOf("position", a, u, k), k)
  <2>1. /\ Consistent(u, {}, Nat) /\ SameEntries(t, u) /\ OnlyCopies(z, u) /\ KeepsSlots(t, u)
        /\ \A j \in 1..(k - 1) : u.vvNew[NewSlot(b, t.mapInfo[q[j] - 1].addr)] # None
    BY <1>3 DEF Kept
  <2> DEFINE id == q[k] - 1
             o == ids[q[k]]
             x == u.mapInfo[id].addr
             slot == NewSlot(b, x)
             w == ReadPosition(u, b, id)
  <2>2. StepOf("position", a, u, k) = w
    BY DEF StepOf
  <2>3. q[k] \in 1..n /\ id \in 0..(n - 1) /\ id + 1 = q[k] /\ id # None
    BY <1>0 DEF Row, None
  <2>4. o \in DOMAIN z.mapInfo /\ o # None
    <3>1. o \in NewIds(z.mapInfo, {})
      BY <2>3 DEF Lists
    <3>2. None \notin DOMAIN z.mapInfo
      BY NoneOutside DEF Consistent
    <3> QED BY <3>1, <3>2 DEF NewIds
  <2>5. /\ id \in DOMAIN t.mapInfo /\ id \in DOMAIN u.mapInfo /\ ~u.mapInfo[id].fInTried
        /\ x = t.mapInfo[id].addr /\ x = z.mapInfo[o].addr
    <3>1. id \in DOMAIN t.mapInfo /\ ~t.mapInfo[id].fInTried /\ Copy(t.mapInfo[id], z.mapInfo[o])
      <4> HIDE DEF id
      <4> QED BY <2>3 DEF Copied
    <3> HIDE DEF id, o
    <3> QED BY <2>1, <3>1 DEF SameEntries, Copy
  <2>6. slot \in NewSlots /\ z.vvNew[slot] = o
    <3>1. PICK s \in NewSlots : s[1] = b /\ z.vvNew[s] = o
      BY DEF Row
    <3>2. s = NewSlot(b, x)
      <4> HIDE DEF o, x
      <4> QED BY <2>4, <2>5, <3>1, IndexSlot
    <3> QED BY <3>1, <3>2
  <2>7. w = ReadPosition(u, b, id) /\ slot = NewSlot(b, u.mapInfo[id].addr)
    OBVIOUS
  <2> HIDE DEF id, w, o, slot, x
  <2>8. \A s \in NewSlots : u.vvNew[s] = id => z.vvNew[s] = o
    BY <2>1, <2>3 DEF OnlyCopies, o
  <2>9. u.vvNew[slot] = None => u.mapInfo[id].nRefCount < MaxRefs
    BY <2>1, <2>3, <2>4, <2>5, <2>6, <2>8, RoomLeft
  <2>10. /\ Consistent(w, {}, Nat) /\ SameEntries(u, w)
         /\ \A s \in NewSlots : w.vvNew[s] = IF s = slot /\ u.vvNew[s] = None THEN id ELSE u.vvNew[s]
    BY <2>1, <2>5, <2>7, <2>9, ReadPositionStep
  <2>11. SameEntries(t, w)
    BY <2>1, <2>10 DEF SameEntries, Copy
  <2>12. OnlyCopies(z, w)
    <3> SUFFICES ASSUME NEW s \in NewSlots, w.vvNew[s] # None
                 PROVE  w.vvNew[s] \in 0..(n - 1) /\ z.vvNew[s] = ids[w.vvNew[s] + 1]
      BY DEF OnlyCopies
    <3>1. CASE s = slot /\ u.vvNew[s] = None
      BY <2>3, <2>6, <2>10, <3>1 DEF o
    <3>2. CASE ~(s = slot /\ u.vvNew[s] = None)
      BY <2>1, <2>10, <3>2 DEF OnlyCopies
    <3> QED BY <3>1, <3>2
  <2>13. KeepsSlots(t, w) /\ \A s \in NewSlots : u.vvNew[s] # None => w.vvNew[s] # None
    BY <2>1, <2>10 DEF KeepsSlots
  <2>14. ASSUME NEW j \in 1..k PROVE w.vvNew[NewSlot(b, t.mapInfo[q[j] - 1].addr)] # None
    <3>1. CASE j = k
      <4>1. NewSlot(b, t.mapInfo[q[j] - 1].addr) = slot
        BY <2>5, <3>1 DEF slot, id
      <4> QED BY <2>3, <2>6, <2>10, <4>1
    <3>2. CASE j # k
      <4> DEFINE y == t.mapInfo[q[j] - 1].addr
                 s == NewSlot(b, y)
      <4>1. j \in 1..(k - 1) /\ j \in 1..N
        BY <1>0, <3>2
      <4>2. q[j] - 1 \in 0..(n - 1)
        BY <1>0, <4>1 DEF Row
      <4>3. y \in Addr
        <5>1. q[j] - 1 \in DOMAIN t.mapInfo
          BY <4>2 DEF Copied
        <5> QED BY <5>1, EntryIn
      <4>4. s \in NewSlots
        <5> HIDE DEF y
        <5> QED BY <4>3, SlotWhere
      <4>5. u.vvNew[s] # None
        BY <2>1, <4>1
      <4> HIDE DEF s
      <4>6. w.vvNew[s] # None
        BY <2>13, <4>4, <4>5
      <4> QED BY <4>6 DEF s
    <3> QED BY <3>1, <3>2
  <2> QED BY <2>2, <2>10, <2>11, <2>12, <2>13, <2>14 DEF Kept
<1> HIDE DEF N, a
<1>4. Kept("position", z, t, a, F[N], N)
  BY <1>0, <1>1, <1>2, <1>3, LoopKeeps
<1> QED BY <1>1, <1>4 DEF Kept, N, a

\* After all buckets, a slot is taken if it is taken in z, and holds the copy.
LEMMA ReadBucketsKeeps ==
    ASSUME NEW z, Consistent(z, {}, {}), Lists(NewList(z), NewIds(z.mapInfo, {})),
           NEW t, Consistent(t, {}, Nat), Copied(z, t, Len(NewList(z))), OnlyCopies(z, t),
           NEW buckets, \A b \in 1..NewBuckets : Row(z, b, buckets[b]),
           NEW v, v = ReadBuckets(t, buckets)
    PROVE  /\ Consistent(v, {}, Nat) /\ SameEntries(t, v) /\ OnlyCopies(z, v)
           /\ \A s \in NewSlots : z.vvNew[s] # None => v.vvNew[s] # None
<1> DEFINE N == NewBuckets
           ids == NewList(z)
           n == Len(ids)
<1>0. N \in Nat /\ n \in Nat
  BY AddrAssumption DEF Lists
<1>1. PICK F : IsLoop("bucket", t, buckets, N, F) /\ v = F[N]
  BY ReadBucketsLoop
<1>2. Kept("bucket", z, t, buckets, t, 0)
  BY DEF Kept, SameEntries, KeepsSlots, Copy
<1>3. ASSUME NEW u, NEW k \in 1..N, Kept("bucket", z, t, buckets, u, k - 1)
      PROVE  Kept("bucket", z, t, buckets, StepOf("bucket", buckets, u, k), k)
  <2>1. /\ Consistent(u, {}, Nat) /\ SameEntries(t, u) /\ OnlyCopies(z, u) /\ KeepsSlots(t, u)
        /\ \A s \in NewSlots : s[1] \in 1..(k - 1) /\ z.vvNew[s] # None => u.vvNew[s] # None
    BY <1>3 DEF Kept
  <2> DEFINE q == buckets[k]
             w == ReadBucket(u, k, q)
  <2>2. StepOf("bucket", buckets, u, k) = w
    BY DEF StepOf
  <2>3. Copied(z, u, n)
    <3> HIDE DEF n
    <3> QED BY <2>1 DEF Copied, SameEntries, Copy, n
  <2>4. w = ReadBucket(u, k, q) /\ k \in 1..NewBuckets /\ Row(z, k, q)
    OBVIOUS
  <2> HIDE DEF q, w
  <2>5. /\ Consistent(w, {}, Nat) /\ SameEntries(u, w) /\ OnlyCopies(z, w) /\ KeepsSlots(u, w)
        /\ \A j \in 1..Len(q) : w.vvNew[NewSlot(k, u.mapInfo[q[j] - 1].addr)] # None
    BY <2>1, <2>3, <2>4, ReadBucketKeeps
  <2>6. SameEntries(t, w) /\ KeepsSlots(t, w)
    BY <2>1, <2>5 DEF SameEntries, KeepsSlots, Copy
  <2>7. ASSUME NEW s \in NewSlots, s[1] \in 1..k, z.vvNew[s] # None PROVE w.vvNew[s] # None
    <3>1. CASE s[1] = k
      <4>1. PICK j \in 1..Len(q) : z.vvNew[s] = ids[q[j]]
        BY <2>4, <2>7, <3>1 DEF Row
      <4> DEFINE id == q[j] - 1
                 a == u.mapInfo[id].addr
      <4>2. q[j] \in 1..n /\ id \in 0..(n - 1) /\ id + 1 = q[j]
        BY <1>0, <2>4 DEF Row
      <4>3. a = z.mapInfo[z.vvNew[s]].addr
        <5> HIDE DEF id, n
        <5> QED BY <2>3, <4>1, <4>2 DEF Copied, Copy
      <4>4. s = NewSlot(k, a)
        <5> HIDE DEF a
        <5> QED BY <2>7, <3>1, <4>3, IndexSlot
      <4> QED BY <2>5, <4>4
    <3>2. CASE s[1] # k
      <4>1. s[1] \in 1..(k - 1)
        BY <1>0, <2>7, <3>2
      <4> QED BY <2>1, <2>5, <2>7, <4>1 DEF KeepsSlots
    <3> QED BY <3>1, <3>2
  <2> QED BY <2>2, <2>5, <2>6, <2>7 DEF Kept
<1> HIDE DEF N
<1>4. Kept("bucket", z, t, buckets, F[N], N)
  BY <1>0, <1>1, <1>2, <1>3, LoopKeeps
<1>5. \A s \in NewSlots : s[1] \in 1..N
  BY DEF NewSlots, N
<1> QED BY <1>1, <1>4, <1>5 DEF Kept

\* Nothing is pruned when every entry has a slot.
LEMMA PruneKeeps ==
    ASSUME NEW t, NEW ids, Len(ids) \in Nat,
           \A k \in 1..Len(ids) : ~(t.mapInfo[ids[k]].nRefCount = 0 /\ ~t.mapInfo[ids[k]].fInTried)
    PROVE  Prune(t, ids) = t
<1> DEFINE N == Len(ids)
<1>1. PICK F : IsLoop("prune", t, ids, N, F) /\ Prune(t, ids) = F[N]
  BY PruneLoop
<1>2. Kept("prune", t, t, ids, t, 0)
  BY DEF Kept
<1>3. ASSUME NEW u, NEW k \in 1..N, Kept("prune", t, t, ids, u, k - 1)
      PROVE  Kept("prune", t, t, ids, StepOf("prune", ids, u, k), k)
  <2>1. u = t
    BY <1>3 DEF Kept
  <2>2. StepOf("prune", ids, u, k) = PruneEntry(t, ids[k])
    BY <2>1 DEF StepOf
  <2>3. PruneEntry(t, ids[k]) = t
    BY DEF PruneEntry
  <2> QED BY <2>2, <2>3 DEF Kept
<1> HIDE DEF N
<1>4. Kept("prune", t, t, ids, F[N], N)
  BY <1>1, <1>2, <1>3, LoopKeeps DEF N
<1> QED BY <1>1, <1>4 DEF Kept

-----------------------------------------------------------------------------
(* A restart.                                                              *)

\* A process starts with consistent tables.
LEMMA FreshKept ==
    /\ Consistent(Fresh, {}, {}) /\ Fresh.nIdCount = 0 /\ DOMAIN Fresh.mapAddr = {} /\ DOMAIN Fresh.mapInfo = {}
    /\ \A s \in NewSlots : Fresh.vvNew[s] = None
<1> DEFINE e == <<>>
           vn == [s \in NewSlots |-> None]
           vt == [s \in TriedSlots |-> None]
<1>1. Fresh = [mapInfo |-> e, mapAddr |-> e, vRandom |-> e, nIdCount |-> 0, nNew |-> 0, nTried |-> 0,
               vvNew |-> vn, vvTried |-> vt, ok |-> TRUE]
  BY DEF Fresh, Clear
<1>2. e \in [{} -> Entry] /\ DOMAIN e = {} /\ e \in Seq({}) /\ Len(e) = 0
  OBVIOUS
<1>3. /\ vn \in [NewSlots -> {None}] /\ vt \in [TriedSlots -> {None}]
      /\ (\A s \in NewSlots : vn[s] = None) /\ (\A s \in TriedSlots : vt[s] = None)
  OBVIOUS
<1> HIDE DEF e, vn, vt
<1>4. IsTables(Fresh)
  BY <1>1, Zenon DEF IsTables, Fields
<1>5. /\ Fresh.mapInfo = e /\ Fresh.mapAddr = e /\ Fresh.vRandom = e /\ Fresh.nIdCount = 0
      /\ Fresh.nNew = 0 /\ Fresh.nTried = 0 /\ Fresh.vvNew = vn /\ Fresh.vvTried = vt /\ Fresh.ok
  BY <1>1
<1>6. EntriesOK(e, 0) /\ RandomOK(e, e) /\ AddrOK(e, e) /\ RefsOK(e, {}, {})
  <2>1. DOMAIN e \subseteq 0..(0 - 1) /\ e \in [DOMAIN e -> Entry] /\ e \in Seq(DOMAIN e)
    BY <1>2
  <2>2. \A k \in 1..Len(e) : FALSE
    BY <1>2
  <2> QED BY <1>2, <2>1, <2>2 DEF EntriesOK, RandomOK, AddrOK, RefsOK
<1>7. NewOK(e, vn) /\ TriedOK(e, vt)
  BY <1>2, <1>3 DEF NewOK, TriedOK
<1>8. CountOK(e, 0, 0, {})
  <2>1. TriedIds(e) = {} /\ NewIds(e, {}) = {}
    BY <1>2 DEF TriedIds, NewIds
  <2> QED BY <2>1, FS_EmptySet DEF CountOK
<1> QED BY <1>2, <1>3, <1>4, <1>5, <1>6, <1>7, <1>8 DEF Consistent

\* What Serialize writes.
Written(z, f) ==
    /\ Lists(NewList(z), NewIds(z.mapInfo, {})) /\ Lists(TriedList(z), TriedIds(z.mapInfo))
    /\ Len(f.new) = Len(NewList(z))
    /\ \A i \in 1..Len(f.new) : f.new[i] = z.mapInfo[NewList(z)[i]]
    /\ Len(f.tried) = Len(TriedList(z))
    /\ \A i \in 1..Len(f.tried) : f.tried[i] = z.mapInfo[TriedList(z)[i]]
    /\ \A b \in 1..NewBuckets : Row(z, b, f.buckets[b])
    /\ f.ok

\* The assertions of Serialize hold, and the indexes are those of the entries in the slots.
LEMMA SerializeWrites ==
    ASSUME NEW t, Consistent(t, {}, {})
    PROVE  Written(t, Serialize(t))
<1> DEFINE info == t.mapInfo
           S == {id \in DOMAIN t.mapInfo : t.mapInfo[id].nRefCount > 0}
           T == {id \in DOMAIN t.mapInfo : t.mapInfo[id].fInTried}
           ids == InOrder(S)
           tried == InOrder(T)
           Index(id) == CHOOSE i \in 1..Len(ids) : ids[i] = id
           At(b) == {i \in 1..BucketSize : t.vvNew[<<b, i>>] # None}
           taken(b) == InOrder(At(b))
           f == Serialize(t)
           new == [i \in 1..Len(ids) |-> t.mapInfo[ids[i]]]
           old == [i \in 1..Len(tried) |-> t.mapInfo[tried[i]]]
           row(b) == [i \in 1..Len(taken(b)) |-> Index(t.vvNew[<<b, taken(b)[i]>>])]
<1>1. f = [new |-> new, tried |-> old, buckets |-> [b \in 1..NewBuckets |-> row(b)],
           ok |-> Len(ids) <= t.nNew /\ Len(tried) <= t.nTried]
  BY Zenon DEF Serialize
<1>2. /\ NewOK(info, t.vvNew) /\ RefsOK(info, {}, {}) /\ CountOK(info, t.nNew, t.nTried, {})
      /\ None \notin DOMAIN info /\ IsFiniteSet(DOMAIN info) /\ DOMAIN info \subseteq Int
  BY NoneOutside DEF Consistent, EntriesOK
<1>3. S = NewIds(info, {}) /\ T = TriedIds(info) /\ ids = NewList(t) /\ tried = TriedList(t)
  <2>1. \A id \in DOMAIN info : info[id].nRefCount \in Nat /\ (info[id].nRefCount > 0 <=> ~info[id].fInTried)
    BY <1>2, EntryIn DEF RefsOK
  <2>2. S = NewIds(info, {}) /\ T = TriedIds(info)
    BY <2>1 DEF NewIds, TriedIds
  <2>3. ids = NewList(t) /\ tried = TriedList(t)
    BY Zenon DEF NewList, TriedList
  <2> QED BY <2>2, <2>3
<1>4. Lists(ids, S) /\ Lists(tried, T)
  <2>1. S \in SUBSET Int /\ T \in SUBSET Int /\ IsFiniteSet(S) /\ IsFiniteSet(T)
    <3>1. S \subseteq DOMAIN info /\ T \subseteq DOMAIN info
      OBVIOUS
    <3> HIDE DEF S, T
    <3> QED BY <1>2, <3>1, FS_Subset
  <2> HIDE DEF S, T
  <2> QED BY <2>1, InOrderLists
<1>5. /\ \A x \in S : \E i \in 1..Len(ids) : ids[i] = x
      /\ Len(ids) \in Nat /\ Len(tried) \in Nat
      /\ Len(ids) = Cardinality(S) /\ Len(tried) = Cardinality(T)
  <2> HIDE DEF ids, tried, S, T, info
  <2> QED BY <1>4 DEF Lists
<1> HIDE DEF ids, tried
<1>6. /\ Len(new) = Len(ids) /\ \A i \in 1..Len(ids) : new[i] = info[ids[i]]
      /\ Len(old) = Len(tried) /\ \A i \in 1..Len(tried) : old[i] = info[tried[i]]
  BY <1>5
<1>7. ASSUME NEW s \in NewSlots, t.vvNew[s] # None PROVE t.vvNew[s] \in S
  <2>1. t.vvNew[s] \in DOMAIN info
    BY <1>2, <1>7 DEF NewOK
  <2>2. info[t.vvNew[s]].nRefCount > 0
    BY <2>1, HasSlot
  <2> QED BY <2>1, <2>2
<1>8. ASSUME NEW x \in S PROVE Index(x) \in 1..Len(ids) /\ ids[Index(x)] = x
  <2>1. \E i \in 1..Len(ids) : ids[i] = x
    <3> HIDE DEF S
    <3> QED BY <1>5
  <2> QED BY <2>1
<1> HIDE DEF Index, S
<1>9. ASSUME NEW b \in 1..NewBuckets
      PROVE  /\ Len(row(b)) \in Nat
             /\ \A k \in 1..Len(row(b)) : /\ row(b)[k] \in 1..Len(ids)
                                          /\ \E s \in NewSlots : s[1] = b /\ t.vvNew[s] = ids[row(b)[k]]
             /\ \A s \in NewSlots : s[1] = b /\ t.vvNew[s] # None =>
                    \E k \in 1..Len(row(b)) : t.vvNew[s] = ids[row(b)[k]]
  <2>1. Lists(taken(b), At(b))
    <3>1. At(b) \in SUBSET (1..BucketSize) /\ 1..BucketSize \subseteq Int /\ IsFiniteSet(1..BucketSize)
      BY FS_Interval, AddrAssumption
    <3>2. At(b) \in SUBSET Int /\ IsFiniteSet(At(b))
      <4> HIDE DEF At
      <4> QED BY <3>1, FS_Subset
    <3> HIDE DEF At
    <3> QED BY <3>2, InOrderLists
  <2> HIDE DEF taken
  <2>2. /\ Len(taken(b)) \in Nat /\ \A k \in 1..Len(taken(b)) : taken(b)[k] \in At(b)
        /\ \A i \in At(b) : \E k \in 1..Len(taken(b)) : taken(b)[k] = i
    <3> HIDE DEF At
    <3> QED BY <2>1 DEF Lists
  <2> DEFINE N == Len(taken(b))
             at(k) == <<b, taken(b)[k]>>
             G(k) == Index(t.vvNew[at(k)])
  <2>3. ASSUME NEW k \in 1..N
        PROVE  at(k) \in NewSlots /\ at(k)[1] = b /\ G(k) \in 1..Len(ids) /\ ids[G(k)] = t.vvNew[at(k)]
    <3>1. at(k) \in NewSlots /\ at(k)[1] = b /\ t.vvNew[at(k)] # None
      BY <2>2 DEF NewSlots
    <3> HIDE DEF at
    <3> QED BY <1>7, <1>8, <3>1
  <2>4. ASSUME NEW s \in NewSlots, s[1] = b, t.vvNew[s] # None PROVE \E k \in 1..N : s = at(k)
    <3>1. PICK i \in 1..BucketSize : s = <<b, i>>
      BY <2>4 DEF NewSlots
    <3>2. i \in At(b)
      BY <2>4, <3>1
    <3>3. PICK k \in 1..N : taken(b)[k] = i
      <4> HIDE DEF At
      <4> QED BY <2>2, <3>2
    <3> QED BY <3>1, <3>3
  <2>5. N \in Nat /\ row(b) = [k \in 1..N |-> G(k)]
    BY <2>2, Zenon
  <2> HIDE DEF N, G, row, at
  <2>6. Len(row(b)) = N /\ \A k \in 1..N : row(b)[k] = G(k)
    BY <2>5
  <2>7. \A k \in 1..N : /\ row(b)[k] \in 1..Len(ids)
                        /\ \E s \in NewSlots : s[1] = b /\ t.vvNew[s] = ids[row(b)[k]]
    BY <2>3, <2>6
  <2>8. \A s \in NewSlots : s[1] = b /\ t.vvNew[s] # None => \E k \in 1..N : t.vvNew[s] = ids[row(b)[k]]
    BY <2>3, <2>4, <2>6
  <2> QED BY <2>5, <2>6, <2>7, <2>8
<1> HIDE DEF new, old, row, f, taken, At
<1>10. /\ f.new = new /\ f.tried = old /\ (f.ok <=> Len(ids) <= t.nNew /\ Len(tried) <= t.nTried)
       /\ \A b \in 1..NewBuckets : f.buckets[b] = row(b)
  BY <1>1
<1>11. f.ok
  <2>1. t.nNew = Len(ids) /\ t.nTried = Len(tried)
    BY <1>2, <1>3, <1>5 DEF CountOK
  <2> QED BY <1>5, <1>10, <2>1
<1>12. \A b \in 1..NewBuckets : Row(t, b, row(b))
  BY <1>3, <1>9 DEF Row
<1>13. \A b \in 1..NewBuckets : Row(t, b, f.buckets[b])
  BY <1>10, <1>12
<1> HIDE DEF T
<1>14. Written(t, f)
  BY <1>3, <1>4, <1>6, <1>10, <1>11, <1>13 DEF Written
<1> QED BY <1>14 DEF f

\* No address is written twice, and no two "tried" entries have the same slot.
LEMMA WrittenApart ==
    ASSUME NEW z, Consistent(z, {}, {}), NEW f, Written(z, f)
    PROVE  /\ Records(f.new) /\ Records(f.tried) /\ Spread(f.tried)
           /\ \A j \in 1..Len(f.new), k \in 1..Len(f.tried) : f.new[j].addr # f.tried[k].addr
<1> DEFINE info == z.mapInfo
           ids == NewList(z)
           tried == TriedList(z)
<1>1. \A i, j \in DOMAIN info : info[i].addr = info[j].addr => i = j
  BY DEF Consistent, AddrOK
<1>2. \A i \in DOMAIN info : info[i].addr \in Addr /\ info[i].source \in Source
  BY EntryIn
<1>3. \A i, j \in DOMAIN info :
        info[i].fInTried /\ info[j].fInTried /\ TriedSlot[info[i].addr] = TriedSlot[info[j].addr] => i = j
  BY DEF Consistent, TriedOK
<1>4. /\ Lists(ids, NewIds(info, {})) /\ Lists(tried, TriedIds(info))
      /\ Len(f.new) = Len(ids) /\ \A i \in 1..Len(ids) : f.new[i] = info[ids[i]]
      /\ Len(f.tried) = Len(tried) /\ \A i \in 1..Len(tried) : f.tried[i] = info[tried[i]]
  BY DEF Written
<1>5. /\ \A i \in 1..Len(ids) : ids[i] \in DOMAIN info /\ ~info[ids[i]].fInTried
      /\ \A i \in 1..Len(tried) : tried[i] \in DOMAIN info /\ info[tried[i]].fInTried
      /\ \A i, j \in 1..Len(ids) : ids[i] = ids[j] => i = j
      /\ \A i, j \in 1..Len(tried) : tried[i] = tried[j] => i = j
      /\ Len(ids) \in Nat /\ Len(tried) \in Nat
  <2> HIDE DEF info, ids, tried
  <2> DEFINE S == NewIds(info, {})
             T == TriedIds(info)
  <2>1. (\A i \in S : i \in DOMAIN info /\ ~info[i].fInTried) /\ (\A i \in T : i \in DOMAIN info /\ info[i].fInTried)
    BY DEF NewIds, TriedIds
  <2>2. Lists(ids, S) /\ Lists(tried, T)
    BY <1>4
  <2> HIDE DEF S, T
  <2>3. /\ (\A i \in 1..Len(ids) : ids[i] \in S) /\ Len(ids) \in Nat
        /\ \A i, j \in 1..Len(ids) : ids[i] = ids[j] => i = j
    BY <2>2 DEF Lists
  <2>4. /\ (\A i \in 1..Len(tried) : tried[i] \in T) /\ Len(tried) \in Nat
        /\ \A i, j \in 1..Len(tried) : tried[i] = tried[j] => i = j
    BY <2>2 DEF Lists
  <2> QED BY <2>1, <2>3, <2>4
<1> HIDE DEF info, ids, tried
<1>6. Records(f.new)
  BY <1>1, <1>2, <1>4, <1>5 DEF Records
<1>7. Records(f.tried)
  BY <1>1, <1>2, <1>4, <1>5 DEF Records
<1>8. Spread(f.tried)
  BY <1>3, <1>4, <1>5 DEF Spread
<1>9. \A j \in 1..Len(f.new), k \in 1..Len(f.tried) : f.new[j].addr # f.tried[k].addr
  <2>1. \A j \in 1..Len(ids), k \in 1..Len(tried) : ids[j] # tried[k]
    BY <1>5
  <2> QED BY <1>1, <1>4, <1>5, <2>1
<1> QED BY <1>6, <1>7, <1>8, <1>9

\* Two tables show the same when their slots hold copies.
LEMMA ShownSame ==
    ASSUME NEW v, NEW z, NEW D, NEW f, NEW g, DOMAIN f = D, DOMAIN g = D,
           \A s \in D : /\ f[s] # None <=> g[s] # None
                        /\ g[s] # None => Copy(v.mapInfo[f[s]], z.mapInfo[g[s]])
    PROVE  Shown(v, f) = Shown(z, g)
<1>1. {k \in DOMAIN f : f[k] # None} = {k \in DOMAIN g : g[k] # None}
  OBVIOUS
<1>2. \A s \in {k \in DOMAIN g : g[k] # None} :
        <<s, v.mapInfo[f[s]].addr, v.mapInfo[f[s]].source>> = <<s, z.mapInfo[g[s]].addr, z.mapInfo[g[s]].source>>
  BY DEF Copy
<1> QED BY <1>1, <1>2 DEF Shown

\* What a restart leads to
LEMMA RestartKeeps ==
    ASSUME NEW z, Consistent(z, {}, {}), NEW v, v = Unserialize(Serialize(z))
    PROVE  /\ Consistent(v, {}, {})
           /\ Shown(v, v.vvNew) = Shown(z, z.vvNew) /\ Shown(v, v.vvTried) = Shown(z, z.vvTried)
<1> DEFINE f == Serialize(z)
           ids == NewList(z)
           tried == TriedList(z)
           n == Len(f.new)
           a == ReadAllNew(Fresh, f.new)
           b == ReadAllTried(a, f.tried)
           c == ReadBuckets(b, f.buckets)
           q == InOrder(DOMAIN c.mapInfo)
           d == Prune(c, q)
           P == f.ok
<1>1. v = [d EXCEPT !.ok = @ /\ P]
  BY DEF Unserialize
<1>2. Written(z, f)
  BY SerializeWrites
<1>3. /\ a = ReadAllNew(Fresh, f.new) /\ b = ReadAllTried(a, f.tried) /\ c = ReadBuckets(b, f.buckets)
      /\ d = Prune(c, q)
  OBVIOUS
<1> HIDE DEF f, a, b, c, d
<1>4. /\ Records(f.new) /\ Records(f.tried) /\ Spread(f.tried)
      /\ \A j \in 1..Len(f.new), k \in 1..Len(f.tried) : f.new[j].addr # f.tried[k].addr
  BY <1>2, WrittenApart
<1>5. /\ n \in Nat /\ n = Len(ids) /\ P /\ Lists(ids, NewIds(z.mapInfo, {})) /\ Lists(tried, TriedIds(z.mapInfo))
      /\ \A i \in 1..Len(f.new) : f.new[i] = z.mapInfo[ids[i]]
      /\ Len(f.tried) = Len(tried)
      /\ \A i \in 1..Len(f.tried) : f.tried[i] = z.mapInfo[tried[i]]
      /\ \A k \in 1..NewBuckets : Row(z, k, f.buckets[k])
  BY <1>2, <1>4 DEF Written, Records
<1> HIDE DEF P
<1>6. /\ Consistent(a, {}, Nat) /\ a.nIdCount = n /\ DOMAIN a.mapInfo = 0..(n - 1)
      /\ Copied(z, a, n) /\ DOMAIN a.mapAddr = Addresses(f.new, n) /\ a.vvNew = Fresh.vvNew
  <2>1. Consistent(Fresh, {}, Nat)
    BY FreshKept, Settled
  <2>2. Kept("new", z, Fresh, f.new, a, n)
    BY <1>3, <1>4, <1>5, <2>1, FreshKept, ReadAllNewKeeps
  <2> QED BY <2>2 DEF Kept
<1>7. \A k \in 1..Len(f.tried) : f.tried[k].addr \notin DOMAIN a.mapAddr
  BY <1>4, <1>6 DEF Addresses
<1>8. /\ Consistent(b, {}, Nat) /\ Copied(z, b, n) /\ CopiedTried(b, f.tried, Len(f.tried), n)
      /\ b.vvNew = a.vvNew
  <2> DEFINE infos == f.tried
  <2>1. /\ b = ReadAllTried(a, infos) /\ Records(infos) /\ Spread(infos) /\ n \in Nat
        /\ Consistent(a, {}, Nat) /\ n = a.nIdCount /\ DOMAIN a.mapInfo = 0..(n - 1) /\ Copied(z, a, n)
        /\ \A k \in 1..Len(infos) : infos[k].addr \notin DOMAIN a.mapAddr
    BY <1>3, <1>4, <1>5, <1>6, <1>7
  <2> HIDE DEF n, infos
  <2>2. /\ Consistent(b, {}, Nat) /\ Copied(z, b, n) /\ CopiedTried(b, infos, Len(infos), n)
        /\ b.vvNew = a.vvNew
    BY <2>1, ReadAllTriedKeeps
  <2> QED BY <2>2 DEF infos
<1>9. OnlyCopies(z, b)
  BY <1>6, <1>8, FreshKept DEF OnlyCopies
<1>10. /\ Consistent(c, {}, Nat) /\ SameEntries(b, c) /\ OnlyCopies(z, c)
       /\ \A s \in NewSlots : z.vvNew[s] # None => c.vvNew[s] # None
  BY <1>3, <1>5, <1>8, <1>9, ReadBucketsKeeps
<1>11. \A i \in 1..n : ids[i] \in DOMAIN z.mapInfo /\ ids[i] # None /\ z.mapInfo[ids[i]].nRefCount > 0
  <2>1. None \notin DOMAIN z.mapInfo
    BY NoneOutside DEF Consistent
  <2>2. \A i \in 1..n : ids[i] \in NewIds(z.mapInfo, {})
    BY <1>5 DEF Lists
  <2>3. \A i \in NewIds(z.mapInfo, {}) : i \in DOMAIN z.mapInfo /\ z.mapInfo[i].nRefCount > 0
    BY DEF NewIds, Consistent, RefsOK
  <2> QED BY <2>1, <2>2, <2>3
<1>12. ASSUME NEW i \in DOMAIN c.mapInfo PROVE c.mapInfo[i].fInTried \/ c.mapInfo[i].nRefCount > 0
  <2>1. i \in DOMAIN b.mapInfo /\ (c.mapInfo[i].fInTried <=> b.mapInfo[i].fInTried)
    BY <1>10 DEF SameEntries
  <2>2. CASE i \notin 0..(n - 1)
    BY <1>8, <2>1, <2>2 DEF CopiedTried
  <2>3. CASE i \in 0..(n - 1)
    <3> DEFINE o == ids[i + 1]
    <3>1. i + 1 \in 1..n
      BY <1>5, <2>3
    <3>2. o \in DOMAIN z.mapInfo /\ o # None /\ z.mapInfo[o].nRefCount > 0
      BY <1>11, <3>1
    <3>3. z.mapInfo[o].nRefCount = Cardinality(SlotsOf(z.vvNew, o))
      BY <3>2 DEF Consistent, NewOK
    <3> HIDE DEF o
    <3>4. PICK s \in NewSlots : z.vvNew[s] = o
      <4>1. Cardinality(SlotsOf(z.vvNew, o)) # 0
        BY <3>2, <3>3
      <4> QED BY <4>1, HeldCounted
    <3> DEFINE y == c.vvNew[s]
    <3>5. y \in 0..(n - 1) /\ ids[y + 1] = ids[i + 1]
      BY <1>5, <1>10, <3>2, <3>4 DEF OnlyCopies, o
    <3> HIDE DEF y
    <3>6. y = i
      <4>1. y + 1 \in 1..n /\ y + 1 = i + 1
        <5>1. y + 1 \in 1..n
          BY <1>5, <3>5
        <5> QED BY <1>5, <3>1, <3>5, <5>1 DEF Lists
      <4> QED BY <1>5, <2>3, <3>5, <4>1
    <3>7. c.mapInfo[i].nRefCount > 0
      BY <1>10, <3>6, HasSlot DEF y
    <3> QED BY <3>7
  <2> QED BY <2>2, <2>3
<1>13. d = c
  <2>1. IsFiniteSet(DOMAIN c.mapInfo) /\ DOMAIN c.mapInfo \in SUBSET Int
    BY <1>10, NoneOutside DEF Consistent, EntriesOK
  <2>2. Lists(q, DOMAIN c.mapInfo)
    BY <2>1, InOrderLists
  <2> HIDE DEF q
  <2>3. Len(q) \in Nat /\ \A k \in 1..Len(q) : q[k] \in DOMAIN c.mapInfo
    BY <2>2 DEF Lists
  <2>4. \A k \in 1..Len(q) : ~(c.mapInfo[q[k]].nRefCount = 0 /\ ~c.mapInfo[q[k]].fInTried)
    BY <1>12, <2>3
  <2> QED BY <1>3, <2>3, <2>4, PruneKeeps
<1>14. Consistent(c, {}, {})
  BY <1>10, <1>12, Settled
<1>15. Consistent(v, {}, {}) /\ v.mapInfo = c.mapInfo /\ v.vvNew = c.vvNew /\ v.vvTried = c.vvTried
  <2>1. v = [c EXCEPT !.ok = @ /\ P] /\ P
    BY <1>1, <1>5, <1>13
  <2> QED BY <1>14, <2>1, OkKeeps
<1>16. Shown(v, v.vvNew) = Shown(z, z.vvNew)
  <2>1. DOMAIN c.vvNew = NewSlots /\ DOMAIN z.vvNew = NewSlots
    BY <1>10 DEF Consistent, NewOK
  <2>2. ASSUME NEW s \in NewSlots
        PROVE  /\ c.vvNew[s] # None <=> z.vvNew[s] # None
               /\ z.vvNew[s] # None => Copy(c.mapInfo[c.vvNew[s]], z.mapInfo[z.vvNew[s]])
    <3>1. CASE c.vvNew[s] = None
      BY <1>10, <3>1
    <3>2. CASE c.vvNew[s] # None
      <4> DEFINE y == c.vvNew[s]
      <4>1. y \in 0..(n - 1) /\ z.vvNew[s] = ids[y + 1]
        BY <1>5, <1>10, <3>2 DEF OnlyCopies
      <4> HIDE DEF y
      <4>2. z.vvNew[s] # None
        <5>1. y + 1 \in 1..n
          BY <1>5, <4>1
        <5> QED BY <1>11, <4>1, <5>1
      <4>3. y \in DOMAIN b.mapInfo /\ Copy(b.mapInfo[y], z.mapInfo[z.vvNew[s]])
        BY <1>8, <4>1 DEF Copied
      <4>4. Copy(c.mapInfo[y], z.mapInfo[z.vvNew[s]])
        BY <1>10, <4>3 DEF SameEntries, Copy
      <4> QED BY <3>2, <4>2, <4>4 DEF y
    <3> QED BY <3>1, <3>2
  <2>3. \A s \in NewSlots : /\ v.vvNew[s] # None <=> z.vvNew[s] # None
                            /\ z.vvNew[s] # None => Copy(v.mapInfo[v.vvNew[s]], z.mapInfo[z.vvNew[s]])
    BY <1>15, <2>2
  <2>4. DOMAIN v.vvNew = NewSlots
    BY <1>15, <2>1
  <2> QED BY <2>1, <2>3, <2>4, ShownSame
<1>17. Shown(v, v.vvTried) = Shown(z, z.vvTried)
  <2>1. TriedOK(c.mapInfo, c.vvTried) /\ TriedOK(z.mapInfo, z.vvTried)
    BY <1>10 DEF Consistent
  <2>2. None \notin DOMAIN z.mapInfo /\ None \notin DOMAIN c.mapInfo
    BY <1>10, NoneOutside DEF Consistent
  <2>3. ASSUME NEW s \in TriedSlots, c.vvTried[s] # None
        PROVE  z.vvTried[s] # None /\ Copy(c.mapInfo[c.vvTried[s]], z.mapInfo[z.vvTried[s]])
    <3> DEFINE i == c.vvTried[s]
    <3>1. i \in DOMAIN c.mapInfo /\ c.mapInfo[i].fInTried /\ s = TriedSlot[c.mapInfo[i].addr]
      BY <2>1, <2>3 DEF TriedOK
    <3> HIDE DEF i
    <3>2. i \in DOMAIN b.mapInfo /\ b.mapInfo[i].fInTried /\ Copy(c.mapInfo[i], b.mapInfo[i])
      BY <1>10, <3>1 DEF SameEntries
    <3>3. PICK j \in 1..Len(f.tried) : Copy(b.mapInfo[i], f.tried[j])
      BY <1>8, <3>2 DEF CopiedTried
    <3> DEFINE o == tried[j]
    <3>4. o \in DOMAIN z.mapInfo /\ z.mapInfo[o].fInTried
      BY <1>5 DEF Lists, TriedIds
    <3>5. Copy(c.mapInfo[i], z.mapInfo[o])
      BY <1>5, <3>2, <3>3 DEF Copy
    <3> HIDE DEF o
    <3>6. z.vvTried[s] = o
      BY <2>1, <3>1, <3>4, <3>5 DEF TriedOK, Copy
    <3> QED BY <2>2, <3>4, <3>5, <3>6 DEF i
  <2>4. ASSUME NEW s \in TriedSlots, z.vvTried[s] # None PROVE c.vvTried[s] # None
    <3> DEFINE o == z.vvTried[s]
    <3>1. o \in DOMAIN z.mapInfo /\ z.mapInfo[o].fInTried /\ s = TriedSlot[z.mapInfo[o].addr]
      BY <2>1, <2>4 DEF TriedOK
    <3> HIDE DEF o
    <3>2. PICK j \in 1..Len(tried) : tried[j] = o
      BY <1>5, <3>1 DEF Lists, TriedIds
    <3>3. PICK i \in DOMAIN b.mapInfo : b.mapInfo[i].fInTried /\ Copy(b.mapInfo[i], f.tried[j])
      BY <1>5, <1>8 DEF CopiedTried
    <3>4. i \in DOMAIN c.mapInfo /\ c.mapInfo[i].fInTried /\ c.mapInfo[i].addr = z.mapInfo[o].addr
      BY <1>5, <1>10, <3>2, <3>3 DEF SameEntries, Copy
    <3>5. c.vvTried[s] = i
      BY <2>1, <3>1, <3>4 DEF TriedOK
    <3> QED BY <2>2, <3>4, <3>5
  <2>5. DOMAIN c.vvTried = TriedSlots /\ DOMAIN z.vvTried = TriedSlots
    BY <2>1 DEF TriedOK
  <2>6. \A s \in TriedSlots : /\ v.vvTried[s] # None <=> z.vvTried[s] # None
                              /\ z.vvTried[s] # None => Copy(v.mapInfo[v.vvTried[s]], z.mapInfo[z.vvTried[s]])
    BY <1>15, <2>3, <2>4
  <2>7. DOMAIN v.vvTried = TriedSlots
    BY <1>15, <2>5
  <2> QED BY <2>5, <2>6, <2>7, ShownSame
<1> QED BY <1>15, <1>16, <1>17

-----------------------------------------------------------------------------
(* The actions.                                                            *)

\* Add_ of an address that is not known
LEMMA AddUnknownKeeps ==
    ASSUME Consistent(m, {}, {}), NEW a \in Addr, NEW src \in Source, NEW terrible, AddUnknown(a, src, terrible)
    PROVE  Consistent(m', {}, {})
<1> DEFINE t == [Create(m, a, src) EXCEPT !.nNew = @ + 1]
           id == m.nIdCount
           b == GetNewBucket[<<a, src>>]
           slot == NewSlot(b, a)
           E == {}
           Y == {id}
           u == m'
<1>1. a \notin DOMAIN m.mapAddr /\ u = PlaceNew(t, id, slot, terrible)
  BY DEF AddUnknown
<1>2. CountedNew(Create(m, a, src), t)
  BY DEF CountedNew
<1> HIDE DEF t, u
<1>3. slot \in NewSlots /\ Belongs(slot, a)
  <2>1. b \in 1..NewBuckets
    BY AddrAssumption
  <2> HIDE DEF b
  <2> QED BY <2>1, SlotWhere
<1> HIDE DEF slot
<1>4. /\ Consistent(t, {}, Y) /\ DOMAIN t.mapInfo = DOMAIN m.mapInfo \cup {id}
      /\ t.mapInfo[id].addr = a /\ t.mapInfo[id].nRefCount = 0 /\ ~t.mapInfo[id].fInTried
  <2>1. Consistent(m, {}, E) /\ (\A i : i \in E \/ i = id => i \in Y) /\ id = m.nIdCount
    OBVIOUS
  <2> HIDE DEF E, Y, id
  <2> QED BY <1>1, <1>2, <2>1, ReadNewKeeps
<1>5. /\ id \in DOMAIN t.mapInfo /\ (\A i \in Y : i = id) /\ t.mapInfo[id].nRefCount # MaxRefs
      /\ Belongs(slot, t.mapInfo[id].addr)
  BY <1>3, <1>4, AddrAssumption
<1> HIDE DEF Y, id
<1>6. Consistent(u, {}, {})
  BY <1>1, <1>3, <1>4, <1>5, PlaceNewKeeps
<1> QED BY <1>6 DEF u

\* A known address has an entry.
LEMMA Known ==
    ASSUME Consistent(m, {}, {}), NEW a \in DOMAIN m.mapAddr
    PROVE  m.mapAddr[a] \in DOMAIN m.mapInfo
BY DEF Consistent, AddrOK

\* Add_ of a known address
LEMMA AddKnownKeeps ==
    ASSUME Consistent(m, {}, {}), NEW a \in Addr, NEW src \in Source, NEW terrible, AddKnown(a, src, terrible)
    PROVE  Consistent(m', {}, {})
<1> DEFINE id == m.mapAddr[a]
           x == m.mapInfo[id].addr
           b == GetNewBucket[<<x, src>>]
           slot == NewSlot(b, x)
           u == m'
           E == {}
<1>1. /\ a \in DOMAIN m.mapAddr /\ ~m.mapInfo[id].fInTried /\ m.mapInfo[id].nRefCount # MaxRefs
      /\ u = PlaceNew(m, id, slot, terrible)
  BY DEF AddKnown
<1>2. id \in DOMAIN m.mapInfo
  BY <1>1, Known
<1> HIDE DEF u, id
<1>3. x \in Addr
  BY <1>2, EntryIn
<1>4. slot \in NewSlots /\ Belongs(slot, x)
  <2>1. b \in 1..NewBuckets
    BY <1>3, AddrAssumption
  <2> HIDE DEF b, x
  <2> QED BY <1>3, <2>1, SlotWhere
<1> HIDE DEF slot
<1>5. Consistent(u, {}, {})
  <2>1. \A i \in E : i = id
    OBVIOUS
  <2>2. Consistent(m, {}, E)
    OBVIOUS
  <2> HIDE DEF E
  <2> QED BY <1>1, <1>2, <1>4, <2>1, <2>2, PlaceNewKeeps
<1> QED BY <1>5 DEF u

\* Every action keeps the tables.
LEMMA NextKeeps ==
    ASSUME Consistent(m, {}, {}), AddrNext
    PROVE  Consistent(m', {}, {})
<1>1. ASSUME NEW a \in Addr, NEW src \in Source, NEW terrible \in BOOLEAN,
             AddUnknown(a, src, terrible) \/ AddKnown(a, src, terrible)
      PROVE  Consistent(m', {}, {})
  BY <1>1, AddUnknownKeeps, AddKnownKeeps
<1>2. ASSUME NEW a \in Addr, Good(a) PROVE Consistent(m', {}, {})
  <2> DEFINE id == m.mapAddr[a]
             u == m'
  <2>1. a \in DOMAIN m.mapAddr /\ ~m.mapInfo[id].fInTried /\ u = MakeTried(m, id)
    BY <1>2 DEF Good
  <2>2. id \in DOMAIN m.mapInfo
    BY <2>1, Known
  <2> HIDE DEF u, id
  <2>3. Consistent(u, {}, {})
    BY <2>1, <2>2, MakeTriedKeeps
  <2> QED BY <2>3 DEF u
<1>3. ASSUME GetAddr PROVE Consistent(m', {}, {})
  <2> DEFINE u == m'
  <2>0. PICK k \in 1..Len(m.vRandom) : \E pick \in [1..k -> 1..Len(m.vRandom)] : u = Shuffle(m, k, pick)
    BY <1>3 DEF GetAddr
  <2>1. PICK pick \in [1..k -> 1..Len(m.vRandom)] : u = Shuffle(m, k, pick)
    BY <2>0
  <2>2. Len(m.vRandom) \in Nat
    BY DEF Consistent, RandomOK
  <2>3. k \in Nat /\ k <= Len(m.vRandom)
    BY <2>2
  <2> HIDE DEF u
  <2>4. Consistent(u, {}, {})
    BY <2>1, <2>3, ShuffleKeeps
  <2> QED BY <2>4 DEF u
<1>4. ASSUME Restart PROVE Consistent(m', {}, {})
  <2> DEFINE u == m'
  <2>1. u = Unserialize(Serialize(m))
    BY <1>4 DEF Restart
  <2> HIDE DEF u
  <2>2. Consistent(u, {}, {})
    BY <2>1, RestartKeeps
  <2> QED BY <2>2 DEF u
<1> QED BY <1>1, <1>2, <1>3, <1>4 DEF AddrNext

\* The invariant is what Check_ tests.
LEMMA ConsistentTables ==
    ASSUME Consistent(m, {}, {})
    PROVE  TablesConsistent
<1> DEFINE info == m.mapInfo
<1>1. /\ m.ok /\ EntriesOK(info, m.nIdCount) /\ RandomOK(info, m.vRandom)
      /\ AddrOK(info, m.mapAddr) /\ NewOK(info, m.vvNew) /\ TriedOK(info, m.vvTried)
      /\ RefsOK(info, {}, {}) /\ CountOK(info, m.nNew, m.nTried, {})
      /\ None \notin DOMAIN info /\ IsFiniteSet(DOMAIN info)
  BY NoneOutside DEF Consistent
<1>2. /\ m.nTried = Cardinality({id \in Ids : m.mapInfo[id].fInTried})
      /\ m.nNew = Cardinality({id \in Ids : ~m.mapInfo[id].fInTried})
  <2>1. {id \in Ids : ~m.mapInfo[id].fInTried} = NewIds(info, {})
    BY DEF Ids, NewIds
  <2>2. {id \in Ids : m.mapInfo[id].fInTried} = TriedIds(info)
    BY DEF Ids, TriedIds
  <2> QED BY <1>1, <2>1, <2>2, Zenon DEF CountOK
<1>3. Len(m.vRandom) = m.nNew + m.nTried
  <2> DEFINE S == NewIds(info, {})
             T == TriedIds(info)
  <2>1. DOMAIN info = S \cup T /\ S \cap T = {}
    BY DEF NewIds, TriedIds
  <2>2. IsFiniteSet(S) /\ IsFiniteSet(T) /\ Cardinality(S) \in Nat /\ Cardinality(T) \in Nat
    <3> HIDE DEF info
    <3> QED BY <1>1, IdsFinite
  <2>3. m.nNew = Cardinality(S) /\ m.nTried = Cardinality(T)
    BY <1>1 DEF CountOK
  <2>4. Len(m.vRandom) = Cardinality(DOMAIN info)
    BY <1>1, RandomLength
  <2> HIDE DEF S, T, info
  <2>5. Cardinality(S \cup T) = Cardinality(S) + Cardinality(T) - Cardinality(S \cap T)
    BY <2>2, FS_Union
  <2>6. Cardinality(S \cap T) = 0
    BY <2>1, FS_EmptySet
  <2> QED BY <2>1, <2>2, <2>3, <2>4, <2>5, <2>6
<1>4. ASSUME NEW id \in Ids
      PROVE  /\ info[id].addr \in DOMAIN m.mapAddr /\ m.mapAddr[info[id].addr] = id
             /\ info[id].nRandomPos \in 1..Len(m.vRandom) /\ m.vRandom[info[id].nRandomPos] = id
             /\ IF info[id].fInTried THEN info[id].nRefCount = 0 ELSE info[id].nRefCount \in 1..MaxRefs
             /\ info[id].nRefCount = Cardinality(HeldNew(m, id))
             /\ {k \in TriedSlots : m.vvTried[k] = id}
                    = IF info[id].fInTried THEN {TriedSlot[info[id].addr]} ELSE {}
  <2>0. id \in DOMAIN info /\ id # None
    BY <1>1 DEF Ids
  <2>1. info[id].addr \in DOMAIN m.mapAddr /\ m.mapAddr[info[id].addr] = id
    BY <1>1, <2>0 DEF AddrOK
  <2>2. info[id].nRandomPos \in 1..Len(m.vRandom) /\ m.vRandom[info[id].nRandomPos] = id
    BY <1>1, <2>0 DEF RandomOK
  <2>3. info[id].nRefCount \in Nat /\ info[id].addr \in Addr
    BY <2>0, EntryIn
  <2>4. IF info[id].fInTried THEN info[id].nRefCount = 0 ELSE info[id].nRefCount \in 1..MaxRefs
    BY <1>1, <2>0, <2>3, AddrAssumption DEF RefsOK
  <2>5. info[id].nRefCount = Cardinality(HeldNew(m, id))
    <3>1. HeldNew(m, id) = SlotsOf(m.vvNew, id)
      BY <2>0, HeldIsSlots
    <3> QED BY <1>1, <2>0, <3>1 DEF NewOK
  <2>6. {k \in TriedSlots : m.vvTried[k] = id}
            = IF info[id].fInTried THEN {TriedSlot[info[id].addr]} ELSE {}
    <3>1. \A k \in TriedSlots : m.vvTried[k] = id => info[id].fInTried /\ k = TriedSlot[info[id].addr]
      BY <1>1, <2>0 DEF TriedOK
    <3>2. info[id].fInTried => m.vvTried[TriedSlot[info[id].addr]] = id
      BY <1>1, <2>0 DEF TriedOK
    <3>3. TriedSlot[info[id].addr] \in TriedSlots
      BY <2>3, AddrAssumption
    <3> QED BY <3>1, <3>2, <3>3
  <2> QED BY <2>1, <2>2, <2>4, <2>5, <2>6
<1>5. ASSUME NEW s \in NewSlots, m.vvNew[s] # None
      PROVE  m.vvNew[s] \in Ids /\ s \in HeldNew(m, m.vvNew[s])
  <2>1. m.vvNew[s] \in Ids
    BY <1>1, <1>5 DEF NewOK, Ids
  <2> DEFINE id == m.vvNew[s]
  <2>2. HeldNew(m, id) = SlotsOf(m.vvNew, id)
    BY <2>1, HeldIsSlots DEF Ids
  <2> QED BY <2>1, <2>2 DEF SlotsOf
<1> HIDE DEF info
<1>6. /\ m.ok /\ \A id \in Ids :
        /\ info[id].addr \in DOMAIN m.mapAddr /\ m.mapAddr[info[id].addr] = id
        /\ info[id].nRandomPos \in 1..Len(m.vRandom) /\ m.vRandom[info[id].nRandomPos] = id
        /\ IF info[id].fInTried THEN info[id].nRefCount = 0 ELSE info[id].nRefCount \in 1..MaxRefs
        /\ info[id].nRefCount = Cardinality(HeldNew(m, id))
        /\ {k \in TriedSlots : m.vvTried[k] = id} = IF info[id].fInTried THEN {TriedSlot[info[id].addr]} ELSE {}
  BY <1>1, <1>4
<1> QED BY <1>2, <1>3, <1>5, <1>6, Zenon DEF TablesConsistent, info

\* The invariant holds in every state.
LEMMA ConsistentAlways == AddrSpec => []Consistent(m, {}, {})
<1>1. AddrInit => Consistent(m, {}, {})
  BY FreshKept DEF AddrInit
<1>2. Consistent(m, {}, {}) /\ [AddrNext]_m => Consistent(m, {}, {})'
  <2> SUFFICES ASSUME Consistent(m, {}, {}), [AddrNext]_m PROVE Consistent(m', {}, {})
    BY DEF Consistent
  <2>1. CASE AddrNext
    BY <2>1, NextKeeps
  <2>2. CASE m' = m
    BY <2>2
  <2> QED BY <2>1, <2>2
<1> QED BY <1>1, <1>2, PTL DEF AddrSpec

\* What Check_ tests holds after every operation, whatever is added, tried, shuffled
\* and restarted, and no assertion of the address manager fails.
THEOREM TablesAlways == AddrSpec => []TablesConsistent
<1>1. Consistent(m, {}, {}) => TablesConsistent
  BY ConsistentTables
<1> QED BY <1>1, ConsistentAlways, PTL

\* In every state, Unserialize of what Serialize writes leads to the same addresses,
\* with the same first sources, in the same slots: no entry of peers.dat collides
\* with another, none is refused for its references and none is pruned.
THEOREM RestartAlwaysExact == AddrSpec => []RestartExact
<1>1. Consistent(m, {}, {}) => RestartExact
  <2> SUFFICES ASSUME Consistent(m, {}, {}) PROVE RestartExact
    OBVIOUS
  <2> DEFINE t == Unserialize(Serialize(m))
  <2>1. t = Unserialize(Serialize(m))
    OBVIOUS
  <2> HIDE DEF t
  <2>2. Shown(t, t.vvNew) = Shown(m, m.vvNew) /\ Shown(t, t.vvTried) = Shown(m, m.vvTried)
    BY <2>1, RestartKeeps
  <2> QED BY <2>2, Zenon DEF RestartExact, t
<1> QED BY <1>1, ConsistentAlways, PTL
=============================================================================
