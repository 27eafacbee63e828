------------------------------- MODULE AddrMan -------------------------------
(***************************************************************************)
(* The address manager (src/addrman.cpp, src/addrman.h): addresses in the  *)
(* slots of "new" and "tried" buckets, with ids, reference counts, a       *)
(* vector of all ids and counters that must agree, and peers.dat, from     *)
(* which they are rebuilt.                                                 *)
(*                                                                         *)
(* Each operation holds cs and is one action.  A slot is a bucket and a    *)
(* position; where an address belongs is a hash under nKey, which          *)
(* peers.dat keeps, and is a constant here.  Times, attempts and services  *)
(* decide only whether an entry IsTerrible() and whether an announcement   *)
(* is news, which are choices: Attempt_, Connected_ and SetServices_       *)
(* change nothing else.  An address has one port.                          *)
(***************************************************************************)
EXTENDS Integers, Sequences, FiniteSets, FiniteSetsExt, SequencesExt, Functions

CONSTANTS
    Addr, Source,
    NewBuckets,         \* the buckets are 1..NewBuckets
    BucketSize,         \* the positions of a bucket are 1..BucketSize
    GetNewBucket,       \* <<address, source>> -> bucket
    GetBucketPosition,  \* <<bucket, address>> -> position in a "new" bucket
    TriedSlots,         \* the slots of the "tried" buckets
    TriedSlot,          \* address -> its slot
    MaxRefs,            \* ADDRMAN_NEW_BUCKETS_PER_ADDRESS
    MaxIds              \* bound: the ids given out between two restarts

ASSUME AddrAssumption ==
    /\ NewBuckets \in Nat /\ BucketSize \in Nat /\ MaxIds \in Nat
    /\ MaxRefs \in Nat \ {0}
    /\ GetNewBucket \in [Addr \X Source -> 1..NewBuckets]
    /\ GetBucketPosition \in [(1..NewBuckets) \X Addr -> 1..BucketSize]
    /\ TriedSlot \in [Addr -> TriedSlots]

None == -1
NewSlots == (1..NewBuckets) \X (1..BucketSize)
NewSlot(bucket, a) == <<bucket, GetBucketPosition[<<bucket, a>>]>>

VARIABLE
    m       \* the members of CAddrMan; ok is FALSE once an assertion has failed

(* Positions in vRandom start from 1.                                      *)
CAddrInfo(a, src, pos) ==
    [addr |-> a, source |-> src, nRefCount |-> 0, fInTried |-> FALSE, nRandomPos |-> pos]

\* Clear() resets everything but mapInfo and mapAddr.
Clear(info, addr) ==
    [mapInfo |-> info, mapAddr |-> addr, vRandom |-> <<>>, nIdCount |-> 0,
     nNew |-> 0, nTried |-> 0,
     vvNew |-> [s \in NewSlots |-> None], vvTried |-> [s \in TriedSlots |-> None],
     ok |-> TRUE]

\* A process starts with empty maps.
Fresh == Clear(<<>>, <<>>)

-----------------------------------------------------------------------------
(* The steps the operations are made of, as functions of the tables.       *)

With(f, x, y) == [z \in DOMAIN f \cup {x} |-> IF z = x THEN y ELSE f[z]]
Without(f, x) == Restrict(f, DOMAIN f \ {x})

\* An entry with the next id, at the end of vRandom
Create(t, a, src) ==
    [t EXCEPT !.nIdCount = @ + 1,
              !.mapInfo = With(@, t.nIdCount, CAddrInfo(a, src, Len(t.vRandom) + 1)),
              !.mapAddr = With(@, a, t.nIdCount),
              !.vRandom = Append(@, t.nIdCount)]

SwapRandom(t, p, q) ==
    IF p = q THEN t
    ELSE IF ~({p, q} \subseteq 1..Len(t.vRandom)) THEN [t EXCEPT !.ok = FALSE]
    ELSE [t EXCEPT !.mapInfo[t.vRandom[p]].nRandomPos = q,
                   !.mapInfo[t.vRandom[q]].nRandomPos = p,
                   !.vRandom[p] = t.vRandom[q],
                   !.vRandom[q] = t.vRandom[p]]

\* Mutant: the last element of vRandom is not told its new position.
Delete_NoSwap(t, id) ==
    LET info == t.mapInfo[id] IN
    [t EXCEPT !.vRandom = SelectSeq(@, LAMBDA x : x # id),
              !.mapAddr = Without(@, info.addr), !.mapInfo = Without(@, id), !.nNew = @ - 1]

Delete(t, id) ==
    LET info == t.mapInfo[id]
        s == SwapRandom(t, info.nRandomPos, Len(t.vRandom))
    IN  [s EXCEPT !.ok = @ /\ ~info.fInTried /\ info.nRefCount = 0,
                  !.vRandom = Front(@),
                  !.mapAddr = Without(@, info.addr),
                  !.mapInfo = Without(@, id),
                  !.nNew = @ - 1]

\* The entry of a "new" slot loses a reference, and is deleted with its last one.
ClearNew(t, slot) ==
    LET id == t.vvNew[slot]
        u == [t EXCEPT !.mapInfo[id].nRefCount = @ - 1, !.vvNew[slot] = None]
    IN  IF id = None THEN t
        ELSE IF t.mapInfo[id].nRefCount = 1 THEN Delete(u, id)
        ELSE [u EXCEPT !.ok = @ /\ t.mapInfo[id].nRefCount > 0]

\* The "new" slots that hold id, where its address belongs
HeldNew(t, id) ==
    {s \in NewSlots : t.vvNew[s] = id /\ s = NewSlot(s[1], t.mapInfo[id].addr)}

\* First part of MakeTried: out of all "new" buckets
LeaveNew(t, id) ==
    LET held == HeldNew(t, id)
    IN  [t EXCEPT !.vvNew = [s \in NewSlots |-> IF s \in held THEN None ELSE @[s]],
                  !.mapInfo[id].nRefCount = @ - Cardinality(held),
                  !.nNew = @ - 1,
                  !.ok = @ /\ t.mapInfo[id].nRefCount = Cardinality(held)]

\* Second part: the entry in the "tried" slot k, if any, goes back to the "new"
\* slot of its first source, and what is there loses that slot.
EvictTried(t, k) ==
    LET id == t.vvTried[k]
        info == t.mapInfo[id]
        slot == NewSlot(GetNewBucket[<<info.addr, info.source>>], info.addr)
        out == [t EXCEPT !.mapInfo[id].fInTried = FALSE, !.vvTried[k] = None, !.nTried = @ - 1]
    IN  IF id = None THEN t
        ELSE [ClearNew(out, slot) EXCEPT !.mapInfo[id].nRefCount = 1,
                                         !.vvNew[slot] = id, !.nNew = @ + 1]

MakeTried(t, id) ==
    LET k == TriedSlot[t.mapInfo[id].addr]
    IN  [EvictTried(LeaveNew(t, id), k) EXCEPT !.vvTried[k] = id, !.nTried = @ + 1,
                                               !.mapInfo[id].fInTried = TRUE]

\* The end of Add_: the slot is taken if it is free, if the entry there is terrible
\* or if that one has other slots and id has none; else id goes if it has no slot.
PlaceNew(t, id, slot, terrible) ==
    LET old == t.vvNew[slot]
        refs == t.mapInfo[id].nRefCount
    IN  IF old = id THEN t
        ELSE IF old = None \/ terrible \/ (refs = 0 /\ t.mapInfo[old].nRefCount > 1)
        THEN [ClearNew(t, slot) EXCEPT !.mapInfo[id].nRefCount = @ + 1, !.vvNew[slot] = id]
        ELSE IF refs = 0 THEN Delete(t, id) ELSE t

-----------------------------------------------------------------------------
(* peers.dat.                                                              *)

\* The numbers of S in ascending order
InOrder(S) ==
    [k \in 1..Cardinality(S) |-> CHOOSE x \in S : Cardinality({y \in S : y < x}) = k - 1]

\* Serialize: the "new" entries, the "tried" ones, and for each bucket, in the order
\* of positions, the indexes of its entries in the first list.  The two assertions
\* are that there are no more entries than the counters say.
Serialize(t) ==
    LET ids == InOrder({id \in DOMAIN t.mapInfo : t.mapInfo[id].nRefCount > 0})
        tried == InOrder({id \in DOMAIN t.mapInfo : t.mapInfo[id].fInTried})
        Index(id) == CHOOSE i \in 1..Len(ids) : ids[i] = id
        taken(b) == InOrder({i \in 1..BucketSize : t.vvNew[<<b, i>>] # None})
    IN  [new |-> [i \in 1..Len(ids) |-> t.mapInfo[ids[i]]],
         tried |-> [i \in 1..Len(tried) |-> t.mapInfo[tried[i]]],
         buckets |-> [b \in 1..NewBuckets |->
                        [i \in 1..Len(taken(b)) |-> Index(t.vvNew[<<b, taken(b)[i]>>])]],
         ok |-> Len(ids) <= t.nNew /\ Len(tried) <= t.nTried]

ReadNew(t, info) ==
    [Create(t, info.addr, info.source) EXCEPT !.nNew = @ + 1]

\* A "tried" entry whose slot is taken is lost.
ReadTried(t, info) ==
    LET k == TriedSlot[info.addr]
    IN  IF t.vvTried[k] # None THEN t
        ELSE [Create(t, info.addr, info.source) EXCEPT
                !.mapInfo[t.nIdCount].fInTried = TRUE, !.vvTried[k] = t.nIdCount, !.nTried = @ + 1]

\* Mutant: the bucket is computed again too, from the first source.
ReadPosition_FirstSource(t, bucket, id) ==
    LET info == t.mapInfo[id]
        slot == NewSlot(GetNewBucket[<<info.addr, info.source>>], info.addr)
    IN  IF t.vvNew[slot] = None /\ info.nRefCount < MaxRefs
        THEN [t EXCEPT !.vvNew[slot] = id, !.mapInfo[id].nRefCount = @ + 1] ELSE t

\* One index of a bucket: the position is computed again.
ReadPosition(t, bucket, id) ==
    LET slot == NewSlot(bucket, t.mapInfo[id].addr)
    IN  IF t.vvNew[slot] = None /\ t.mapInfo[id].nRefCount < MaxRefs
        THEN [t EXCEPT !.vvNew[slot] = id, !.mapInfo[id].nRefCount = @ + 1] ELSE t

\* The loops of Unserialize
ReadAllNew(t, infos) ==
    LET after[k \in 0..Len(infos)] == IF k = 0 THEN t ELSE ReadNew(after[k - 1], infos[k])
    IN  after[Len(infos)]

ReadAllTried(t, infos) ==
    LET after[k \in 0..Len(infos)] == IF k = 0 THEN t ELSE ReadTried(after[k - 1], infos[k])
    IN  after[Len(infos)]

ReadBucket(t, b, indexes) ==
    LET after[k \in 0..Len(indexes)] ==
            IF k = 0 THEN t ELSE ReadPosition(after[k - 1], b, indexes[k] - 1)
    IN  after[Len(indexes)]

ReadBuckets(t, buckets) ==
    LET after[b \in 0..NewBuckets] == IF b = 0 THEN t ELSE ReadBucket(after[b - 1], b, buckets[b])
    IN  after[NewBuckets]

\* "Prune new entries with refcount 0 (as a result of collisions)."
PruneEntry(t, id) ==
    IF t.mapInfo[id].nRefCount = 0 /\ ~t.mapInfo[id].fInTried THEN Delete(t, id) ELSE t

Prune(t, ids) ==
    LET after[k \in 0..Len(ids)] == IF k = 0 THEN t ELSE PruneEntry(after[k - 1], ids[k])
    IN  after[Len(ids)]

Unserialize(file) ==
    LET filled == ReadBuckets(ReadAllTried(ReadAllNew(Fresh, file.new), file.tried), file.buckets)
    IN  [Prune(filled, InOrder(DOMAIN filled.mapInfo)) EXCEPT !.ok = @ /\ file.ok]

-----------------------------------------------------------------------------
AddrInit == m = Fresh

\* Add_ of an address that is not known
AddUnknown(a, src, terrible) ==
    /\ m.ok /\ a \notin DOMAIN m.mapAddr /\ m.nIdCount < MaxIds
    /\ LET t == [Create(m, a, src) EXCEPT !.nNew = @ + 1]
       IN  m' = PlaceNew(t, m.nIdCount, NewSlot(GetNewBucket[<<a, src>>], a), terrible)

\* Add_ of a known one that is news, not tried, and may have another slot
AddKnown(a, src, terrible) ==
    /\ m.ok /\ a \in DOMAIN m.mapAddr
    /\ LET id == m.mapAddr[a]
           info == m.mapInfo[id]
       IN  /\ ~info.fInTried /\ info.nRefCount # MaxRefs
           /\ m' = PlaceNew(m, id, NewSlot(GetNewBucket[<<info.addr, src>>], info.addr), terrible)

\* Good_: a connection to a succeeded.
Good(a) ==
    /\ m.ok /\ a \in DOMAIN m.mapAddr
    /\ m.mapInfo[m.mapAddr[a]].addr = a /\ ~m.mapInfo[m.mapAddr[a]].fInTried
    /\ HeldNew(m, m.mapAddr[a]) # {}
    /\ m' = MakeTried(m, m.mapAddr[a])

\* Entries 1 to k of vRandom are exchanged, one after the other.
Shuffle(t, k, pick) ==
    LET after[n \in 0..k] == IF n = 0 THEN t ELSE SwapRandom(after[n - 1], n, pick[n])
    IN  after[k]

\* GetAddr_: entry after entry is exchanged with one at or after it, until there
\* are enough (23 percent in the code) that are not terrible.
GetAddr ==
    \E k \in 1..Len(m.vRandom) : \E pick \in [1..k -> 1..Len(m.vRandom)] :
        /\ m.ok /\ \A n \in 1..k : pick[n] >= n
        /\ m' = Shuffle(m, k, pick)

\* The node stops, with DumpAddresses, and starts.  A start from an older file
\* leads to a state that a restart at the time of that dump led to.
Restart == m.ok /\ m' = Unserialize(Serialize(m))

AddrNext ==
    \/ \E a \in Addr, src \in Source, terrible \in BOOLEAN :
          AddUnknown(a, src, terrible) \/ AddKnown(a, src, terrible)
    \/ \E a \in Addr : Good(a)
    \/ GetAddr
    \/ Restart

AddrSpec == AddrInit /\ [][AddrNext]_m

\* A start with a peers.dat whose entries end too early: Unserialize throws after
\* some of the "new" entries, and CAddrDB::Read and the start call Clear().
ReadCorrupt(n) ==
    /\ m.ok
    /\ n <= Len(Serialize(m).new)
    /\ LET t == ReadAllNew(Fresh, SubSeq(Serialize(m).new, 1, n))
       IN  m' = Clear(t.mapInfo, t.mapAddr)

CorruptSpec == AddrInit /\ [][AddrNext \/ \E n \in 1..MaxIds : ReadCorrupt(n)]_m

-----------------------------------------------------------------------------
(* Properties.                                                             *)

Ids == DOMAIN m.mapInfo

\* What Check_ tests when DEBUG_ADDRMAN is defined, which no build does: every
\* entry is in one "tried" slot or in as many "new" slots as it has references, in
\* the slots where its address belongs; the counters, mapAddr and vRandom agree
\* with the entries; and no assertion has failed.
TablesConsistent ==
    /\ m.ok
    /\ Len(m.vRandom) = m.nNew + m.nTried
    /\ m.nTried = Cardinality({id \in Ids : m.mapInfo[id].fInTried})
    /\ m.nNew = Cardinality({id \in Ids : ~m.mapInfo[id].fInTried})
    /\ \A id \in Ids : LET info == m.mapInfo[id] IN
        /\ info.addr \in DOMAIN m.mapAddr /\ m.mapAddr[info.addr] = id
        /\ info.nRandomPos \in 1..Len(m.vRandom) /\ m.vRandom[info.nRandomPos] = id
        /\ IF info.fInTried THEN info.nRefCount = 0 ELSE info.nRefCount \in 1..MaxRefs
        /\ info.nRefCount = Cardinality(HeldNew(m, id))
        /\ {k \in TriedSlots : m.vvTried[k] = id} = IF info.fInTried THEN {TriedSlot[info.addr]} ELSE {}
    /\ \A s \in NewSlots : m.vvNew[s] # None => m.vvNew[s] \in Ids /\ s \in HeldNew(m, m.vvNew[s])

\* The slots of a table that are taken, with their addresses and first sources
Shown(t, table) ==
    {<<s, t.mapInfo[table[s]].addr, t.mapInfo[table[s]].source>> :
        s \in {k \in DOMAIN table : table[k] # None}}

\* A restart loses and moves nothing: every slot holds the address, with its first
\* source, that it held before, although peers.dat has neither positions nor ids and
\* its reader drops what collides.
RestartExact ==
    LET t == Unserialize(Serialize(m))
    IN  Shown(t, t.vvNew) = Shown(m, m.vvNew) /\ Shown(t, t.vvTried) = Shown(m, m.vvTried)
=============================================================================
