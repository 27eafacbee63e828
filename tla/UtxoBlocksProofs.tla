--------------------------- MODULE UtxoBlocksProofs ---------------------------
(* Theorems about the caches over the chainstate database and the blocks     *)
(* that are connected through them, for any transactions, outputs and tree   *)
(* of blocks.  First CoinsCache: the flags never lie, no logic_error is      *)
(* thrown, and the layers behave as the plain maps of CoinsView.  Then       *)
(* UtxoBlocks: the coins are the ones a replay of the chain leaves, undo     *)
(* data fits and is on disk, and the caches are used as CoinsCache expects.  *)
EXTENDS UtxoBlocks, WellFoundedInduction, NaturalsInduction, TLAPS

(***************************************************************************)
(* The inductive invariant.                                                *)
(***************************************************************************)

\* There are entries above pcoinsTip only while a view is open.
ClosedViewEmpty == ~open => view = EmptyCache

\* A view whose best block is null lies over an empty chainstate: GetBestBlock
\* of an open view has asked the layers below.
NullBestBlock ==
    (flush = "fine" /\ open /\ viewBest = NullHash) => tipBest = NullHash /\ dbBest = NullHash

CoinsInv == CoinsTypeOK /\ ClosedViewEmpty /\ NullBestBlock /\ FlagsTrue /\ NeverThrows

(***************************************************************************)
(* The functions on one layer over another.                                *)
(***************************************************************************)

LEMMA EntryFacts ==
    /\ \A e \in Entry : e.coins \in SUBSET Outs /\ e.dirty \in BOOLEAN /\ e.fresh \in BOOLEAN /\ e # NoEntry
    /\ \A c \in SUBSET Outs, d, f \in BOOLEAN :
          [coins |-> c, dirty |-> d, fresh |-> f] \in Entry
BY CoinsAssumption DEF Entry

\* What a lookup gives is a map of coins, if the layer below is one.
LEMMA SeenType ==
    ASSUME NEW cache \in Cache, NEW below \in [Txids -> SUBSET Outs]
    PROVE  [t \in Txids |-> Seen(cache, below, t)] \in [Txids -> SUBSET Outs]
BY EntryFacts DEF Cache, Seen

\* An empty cache shows the layer below; a new one shows it with the randpay output.
LEMMA EmptyShows ==
    ASSUME NEW below \in [Txids -> SUBSET Outs]
    PROVE  /\ EmptyCache \in Cache /\ NewCache \in Cache
           /\ [t \in Txids |-> Seen(EmptyCache, below, t)] = below
           /\ [t \in Txids |-> Seen(NewCache, below, t)] = [below EXCEPT ![RandPay] = RandPayCoins]
           /\ FlagsSound(EmptyCache, below) /\ FlagsSound(NewCache, below)
BY CoinsAssumption, EntryFacts DEF Cache, Seen, EmptyCache, NewCache, FlagsSound

\* FetchCoins of what the layer below has changes nothing that can be seen, and
\* its flags are true.
LEMMA FetchInvisible ==
    ASSUME NEW cache \in Cache, NEW below \in [Txids -> SUBSET Outs], NEW t \in Txids,
           NEW found \in BOOLEAN, ~found => below[t] = {}
    PROVE  LET new == FetchCoins(cache, t, found, below[t]) IN
           /\ new \in Cache
           /\ [x \in Txids |-> Seen(new, below, x)] = [x \in Txids |-> Seen(cache, below, x)]
           /\ FlagsSound(cache, below) => FlagsSound(new, below)
<1>1. [coins |-> below[t], dirty |-> FALSE, fresh |-> IsPruned(below[t])] \in Entry
  BY EntryFacts DEF IsPruned
<1> QED BY <1>1, EntryFacts DEF Cache, Seen, FetchCoins, FlagsSound, IsPruned

\* The cache shows c for t, otherwise what the old one showed, and its flags are true.
Shows(new, cache, below, t, c) ==
    /\ new \in Cache
    /\ [x \in Txids |-> Seen(new, below, x)] = [[x \in Txids |-> Seen(cache, below, x)] EXCEPT ![t] = c]
    /\ FlagsSound(new, below)

\* The end of a CCoinsModifier on an entry whose flags are true: the coins that
\* are seen become c, and the flags are true again.
LEMMA ModifiedShows ==
    ASSUME NEW cache \in Cache, NEW below \in [Txids -> SUBSET Outs], NEW t \in Txids,
           NEW entry \in Entry, NEW c \in SUBSET Outs,
           entry.fresh => IsPruned(below[t]),
           FlagsSound(cache, below)
    PROVE  Shows(Modified(cache, t, entry, c), cache, below, t, c)
<1> USE DEF Shows
<1>2. [coins |-> c, dirty |-> TRUE, fresh |-> entry.fresh] \in Entry
  BY EntryFacts
<1>3. CASE entry.fresh /\ IsPruned(c)
  BY <1>3, EntryFacts DEF Cache, Seen, Modified, FlagsSound, IsPruned
<1>4. CASE ~(entry.fresh /\ IsPruned(c))
  BY <1>2, <1>4, EntryFacts DEF Cache, Seen, Modified, FlagsSound
<1> QED BY <1>3, <1>4

\* BatchWrite of one cache into another whose flags are true: the parent shows
\* what the child showed, its flags are true, and there is nothing to throw for.
LEMMA BatchShows ==
    ASSUME NEW child \in Cache, NEW parent \in Cache, NEW below \in [Txids -> SUBSET Outs],
           FlagsSound(parent, below),
           FlagsSound(child, [t \in Txids |-> Seen(parent, below, t)])
    PROVE  LET new == [t \in Txids |-> BatchEntry(child[t], parent[t])] IN
           /\ \A t \in Txids : ~Misapplied(child[t], parent[t])
           /\ new \in Cache
           /\ [t \in Txids |-> Seen(new, below, t)]
                = [t \in Txids |-> Seen(child, [x \in Txids |-> Seen(parent, below, x)], t)]
           /\ FlagsSound(new, below)
<1> DEFINE new == [t \in Txids |-> BatchEntry(child[t], parent[t])]
<1> SUFFICES ASSUME NEW t \in Txids
             PROVE  /\ ~Misapplied(child[t], parent[t])
                    /\ new[t] \in Entry \cup {NoEntry}
                    /\ Seen(new, below, t) = Seen(child, [x \in Txids |-> Seen(parent, below, x)], t)
                    /\ new[t] # NoEntry =>
                        /\ new[t].fresh => IsPruned(below[t])
                        /\ ~new[t].dirty => new[t].coins = below[t]
  BY DEF Cache, FlagsSound
<1> DEFINE c == child[t]
           p == parent[t]
<1>1. c \in Entry \cup {NoEntry} /\ p \in Entry \cup {NoEntry} /\ new[t] = BatchEntry(c, p)
  BY DEF Cache
<1>2. p # NoEntry => (p.fresh => below[t] = {}) /\ (~p.dirty => p.coins = below[t])
  BY DEF FlagsSound, IsPruned
<1>3. c # NoEntry => /\ c.fresh => Seen(parent, below, t) = {}
                     /\ ~c.dirty => c.coins = Seen(parent, below, t)
  BY DEF FlagsSound, IsPruned
<1>4. Seen(parent, below, t) = IF p # NoEntry THEN p.coins ELSE below[t]
  BY DEF Seen
<1>5. Seen(child, [x \in Txids |-> Seen(parent, below, x)], t)
        = IF c # NoEntry THEN c.coins ELSE Seen(parent, below, t)
  BY DEF Seen
<1>6. Seen(new, below, t) = IF BatchEntry(c, p) # NoEntry THEN BatchEntry(c, p).coins ELSE below[t]
  BY DEF Seen
<1>7. ~Misapplied(c, p)
  BY <1>1, <1>3, <1>4 DEF Misapplied, IsPruned
<1>8. CASE c = NoEntry \/ ~c.dirty
  <2>1. BatchEntry(c, p) = p
    BY <1>8 DEF BatchEntry
  <2> QED BY <1>1, <1>2, <1>3, <1>4, <1>5, <1>6, <1>7, <1>8, <2>1 DEF IsPruned
<1>9. CASE c # NoEntry /\ c.dirty
  <2> DEFINE gone == c.coins = {} /\ IF p = NoEntry THEN c.fresh ELSE p.fresh
             kept == [coins |-> c.coins, dirty |-> TRUE, fresh |-> IF p = NoEntry THEN c.fresh ELSE p.fresh]
  <2>1. BatchEntry(c, p) = IF gone THEN NoEntry ELSE kept
    BY <1>1, <1>9, EntryFacts DEF BatchEntry, IsPruned
  <2>2. kept \in Entry /\ kept # NoEntry
    BY <1>1, <1>9, EntryFacts
  <2>3. CASE gone
    BY <1>1, <1>2, <1>3, <1>4, <1>5, <1>6, <1>7, <1>9, <2>1, <2>3 DEF IsPruned
  <2>4. CASE ~gone
    BY <1>1, <1>2, <1>3, <1>4, <1>5, <1>6, <1>7, <1>9, <2>1, <2>2, <2>4 DEF IsPruned
  <2> QED BY <2>3, <2>4
<1> QED BY <1>8, <1>9

\* Writing the dirty entries of a cache to the layer below leaves what is seen.
LEMMA WriteShows ==
    ASSUME NEW cache \in Cache, NEW below \in [Txids -> SUBSET Outs], FlagsSound(cache, below)
    PROVE  [t \in Txids |-> IF cache[t] # NoEntry /\ cache[t].dirty THEN cache[t].coins ELSE below[t]]
             = [t \in Txids |-> Seen(cache, below, t)]
BY EntryFacts DEF Cache, Seen, FlagsSound

(***************************************************************************)
(* The state.                                                              *)
(***************************************************************************)

LEMMA LayerTypes ==
    ASSUME CoinsTypeOK
    PROVE  /\ db \in [Txids -> SUBSET Outs]
           /\ TipCoins \in [Txids -> SUBSET Outs] /\ ViewCoins \in [Txids -> SUBSET Outs]
           /\ TipBest \in Hashes \cup {NullHash}
BY SeenType DEF CoinsTypeOK, TipCoins, ViewCoins, TipBest

\* A lookup in pcoinsTip.
LEMMA TipFetch ==
    ASSUME CoinsTypeOK, NEW t \in Txids
    PROVE  /\ TipFetched(t) \in Cache
           /\ [x \in Txids |-> Seen(TipFetched(t), db, x)] = TipCoins
           /\ FlagsSound(tip, db) => FlagsSound(TipFetched(t), db)
           /\ TipHas(t) \in BOOLEAN
           /\ ~TipHas(t) => TipCoins[t] = {}
<1>1. tip \in Cache /\ db \in [Txids -> SUBSET Outs] /\ DbHas(t) \in BOOLEAN
      /\ (~DbHas(t) => db[t] = {})
  BY DEF CoinsTypeOK, DbHas, IsPruned
<1>2. /\ TipFetched(t) \in Cache
      /\ [x \in Txids |-> Seen(TipFetched(t), db, x)] = TipCoins
      /\ FlagsSound(tip, db) => FlagsSound(TipFetched(t), db)
  BY <1>1, FetchInvisible DEF TipFetched, TipCoins
<1>3. ~TipHas(t) => TipCoins[t] = {}
  <2> SUFFICES ASSUME ~TipHas(t) PROVE TipCoins[t] = {}
    OBVIOUS
  <2>1. TipCoins[t] = Seen(TipFetched(t), db, t)
    BY <1>2
  <2>2. TipFetched(t)[t] = NoEntry
    BY DEF TipHas
  <2>3. tip[t] = NoEntry /\ (DbHas(t) => FALSE)
    <3>1. CASE tip[t] # NoEntry
      BY <2>2, <3>1 DEF TipFetched, FetchCoins
    <3>2. CASE tip[t] = NoEntry /\ DbHas(t)
      <4>1. TipFetched(t)[t] = [coins |-> db[t], dirty |-> FALSE, fresh |-> IsPruned(db[t])]
        BY <1>1, <3>2 DEF TipFetched, FetchCoins, Cache
      <4>2. [coins |-> db[t], dirty |-> FALSE, fresh |-> IsPruned(db[t])] \in Entry
        BY <1>1, EntryFacts DEF IsPruned
      <4> QED BY <2>2, <4>1, <4>2, EntryFacts
    <3> QED BY <3>1, <3>2
  <2> QED BY <1>1, <2>1, <2>2, <2>3 DEF Seen
<1> QED BY <1>2, <1>3 DEF TipHas

\* The entry ModifyCoins works on has true flags.
LEMMA ModifyEntryFacts ==
    ASSUME CoinsTypeOK, FlagsSound(view, TipCoins), NEW t \in Txids
    PROVE  LET e == ModifyEntry(view, t, TipHas(t), TipCoins[t]) IN
           e \in Entry /\ (e.fresh => IsPruned(TipCoins[t]))
<1>1. TipHas(t) \in BOOLEAN /\ (~TipHas(t) => TipCoins[t] = {}) /\ TipCoins[t] \in SUBSET Outs
      /\ view[t] \in Entry \cup {NoEntry}
  BY TipFetch, LayerTypes DEF CoinsTypeOK, Cache
<1>2. CASE view[t] # NoEntry
  BY <1>1, <1>2, EntryFacts DEF ModifyEntry, FlagsSound
<1>3. CASE view[t] = NoEntry
  <2> DEFINE e == [coins |-> IF TipHas(t) THEN TipCoins[t] ELSE {}, dirty |-> TRUE,
                   fresh |-> ~TipHas(t) \/ IsPruned(TipCoins[t])]
  <2>1. e \in Entry
    BY <1>1, EntryFacts DEF IsPruned
  <2> QED BY <1>1, <1>3, <2>1 DEF ModifyEntry, IsPruned
<1> QED BY <1>2, <1>3

\* So has the one of ModifyNewCoins, and nothing is thrown, if nothing unspent is
\* seen; no look at the layer below is needed.
LEMMA NewEntryFacts ==
    ASSUME CoinsTypeOK, NEW t \in Txids, NEW coinbase \in BOOLEAN
    PROVE  LET e == NewEntry(view, t, coinbase) IN
           /\ e \in Entry
           /\ FlagsSound(view, TipCoins) /\ (coinbase \/ IsPruned(ViewCoins[t])) =>
                /\ e.fresh => IsPruned(TipCoins[t])
                /\ coinbase \/ IsPruned(e.coins)
<1>1. view[t] \in Entry \cup {NoEntry} /\ ViewCoins[t] = Seen(view, TipCoins, t)
  BY DEF CoinsTypeOK, Cache, ViewCoins
<1>2. CASE view[t] # NoEntry
  BY <1>1, <1>2, EntryFacts DEF NewEntry, FlagsSound, Seen, IsPruned
<1>3. CASE view[t] = NoEntry
  BY <1>1, <1>3, EntryFacts DEF NewEntry, FlagsSound, Seen, IsPruned
<1> QED BY <1>2, <1>3

LEMMA CoinsTypeNext ==
    ASSUME CoinsTypeOK, [CoinsNext]_coinsVars
    PROVE  CoinsTypeOK'
<1> USE DEF CoinsTypeOK
<1>0. TipBest \in Hashes \cup {NullHash} /\ EmptyCache \in Cache /\ NewCache \in Cache
  BY LayerTypes, EmptyShows
<1>1. CASE UNCHANGED coinsVars
  BY <1>1 DEF coinsVars
<1>2. CASE OpenView
  BY <1>0, <1>2 DEF OpenView
<1>3. ASSUME NEW t \in Txids, AccessTip(t) PROVE CoinsTypeOK'
  BY <1>3, TipFetch DEF AccessTip
<1>4. ASSUME NEW t \in Txids, AccessView(t) PROVE CoinsTypeOK'
  <2>1. FetchCoins(view, t, TipHas(t), TipCoins[t]) \in Cache
    BY TipFetch, LayerTypes, FetchInvisible
  <2> QED BY <1>4, <2>1, TipFetch DEF AccessView
<1>5. ASSUME NEW t \in Txids, Uncache(t) PROVE CoinsTypeOK'
  BY <1>5 DEF Uncache, Cache
<1>6. ASSUME NEW t \in Txids, NEW c \in SUBSET Outs, ModifyCoins(t, c) PROVE CoinsTypeOK'
  <2>1. TipFetched(t) \in Cache
    BY TipFetch
  <2>2. view'[t] \in Entry \cup {NoEntry}
    <3>1. TipHas(t) \in BOOLEAN /\ TipCoins[t] \in SUBSET Outs
      BY TipFetch, LayerTypes
    <3>2. ModifyEntry(view, t, TipHas(t), TipCoins[t]).fresh \in BOOLEAN
      BY <3>1, EntryFacts DEF ModifyEntry, Cache, IsPruned
    <3> QED BY <1>6, <3>2, EntryFacts DEF ModifyCoins, Modified, Cache
  <2>3. view' \in Cache
    BY <1>6, <2>2 DEF ModifyCoins, Modified, Cache
  <2> QED BY <1>6, <2>1, <2>3 DEF ModifyCoins
<1>7. ASSUME NEW t \in Txids, NEW c \in SUBSET Outs, NEW coinbase \in BOOLEAN,
             ModifyNewCoins(t, coinbase, c)
      PROVE  CoinsTypeOK'
  <2>1. NewEntry(view, t, coinbase) \in Entry
    BY NewEntryFacts
  <2>2. Modified(view, t, NewEntry(view, t, coinbase), c) \in Cache
    <3>1. [coins |-> c, dirty |-> TRUE, fresh |-> NewEntry(view, t, coinbase).fresh] \in Entry
      BY <2>1, EntryFacts
    <3> QED BY <3>1 DEF Modified, Cache
  <2> QED BY <1>7, <2>2 DEF ModifyNewCoins
<1>8. ASSUME NEW h \in Hashes, SetBestBlock(h) PROVE CoinsTypeOK'
  BY <1>8 DEF SetBestBlock
<1>9. CASE FlushView
  <2>1. ASSUME NEW t \in Txids PROVE BatchEntry(view[t], tip[t]) \in Entry \cup {NoEntry}
    BY EntryFacts DEF BatchEntry, Cache
  <2> QED BY <1>0, <1>9, <2>1 DEF FlushView, Cache
<1>10. CASE DropView
  BY <1>0, <1>10 DEF DropView
<1>11. CASE FlushTip
  <2>1. db' \in [Txids -> SUBSET Outs]
    BY <1>11, EntryFacts DEF FlushTip, Cache
  <2> QED BY <1>0, <1>11, <2>1 DEF FlushTip
<1>12. CASE FlushTipFails
  BY <1>0, <1>12 DEF FlushTipFails
<1>13. CASE Restart
  BY <1>0, <1>13 DEF Restart
<1> QED BY <1>1, <1>2, <1>3, <1>4, <1>5, <1>6, <1>7, <1>8, <1>9, <1>10, <1>11, <1>12, <1>13
        DEF CoinsNext

(***************************************************************************)
(* What each operation does to the maps that are seen, and that it leaves  *)
(* the flags true, as long as no write has failed.                         *)
(***************************************************************************)

LEMMA FineFacts ==
    ASSUME CoinsInv, flush = "fine"
    PROVE  CoinsTypeOK /\ ~threw /\ FlagsSound(tip, db) /\ FlagsSound(view, TipCoins)
BY DEF CoinsInv, FlagsTrue, NeverThrows

\* A step that changes pcoinsTip invisibly and the view to new.
LEMMA InvisibleBelow ==
    ASSUME [x \in Txids |-> Seen(tip', db', x)] = TipCoins
    PROVE  /\ TipCoins' = TipCoins
           /\ ViewCoins' = [x \in Txids |-> Seen(view', TipCoins, x)]
BY DEF TipCoins, ViewCoins

LEMMA AccessTipEffect ==
    ASSUME CoinsInv, flush = "fine", NEW t \in Txids, AccessTip(t)
    PROVE  TipCoins' = TipCoins /\ ViewCoins' = ViewCoins /\ FlagsTrue'
<1>1. tip' = TipFetched(t) /\ db' = db /\ view' = view
  BY DEF AccessTip
<1>2. TipCoins' = TipCoins /\ ViewCoins' = ViewCoins
  BY <1>1, FineFacts, TipFetch, InvisibleBelow DEF ViewCoins
<1> QED BY <1>1, <1>2, FineFacts, TipFetch DEF FlagsTrue

LEMMA AccessViewEffect ==
    ASSUME CoinsInv, flush = "fine", NEW t \in Txids, AccessView(t)
    PROVE  TipCoins' = TipCoins /\ ViewCoins' = ViewCoins /\ FlagsTrue'
<1>1. /\ tip' = IF view[t] # NoEntry THEN tip ELSE TipFetched(t)
      /\ db' = db /\ view' = FetchCoins(view, t, TipHas(t), TipCoins[t])
  BY DEF AccessView
<1>2. [x \in Txids |-> Seen(tip', db', x)] = TipCoins /\ FlagsSound(tip', db')
  BY <1>1, FineFacts, TipFetch DEF TipCoins
<1>3. [x \in Txids |-> Seen(view', TipCoins, x)] = ViewCoins /\ FlagsSound(view', TipCoins)
  <2>1. view \in Cache /\ TipCoins \in [Txids -> SUBSET Outs] /\ FlagsSound(view, TipCoins)
        /\ TipHas(t) \in BOOLEAN /\ (~TipHas(t) => TipCoins[t] = {})
    BY FineFacts, LayerTypes, TipFetch DEF CoinsTypeOK
  <2> QED BY <1>1, <2>1, FetchInvisible DEF ViewCoins
<1>4. TipCoins' = TipCoins /\ ViewCoins' = ViewCoins
  BY <1>2, <1>3, InvisibleBelow
<1> QED BY <1>2, <1>3, <1>4 DEF FlagsTrue

LEMMA ModifyCoinsEffect ==
    ASSUME CoinsInv, flush = "fine", NEW t \in Txids, NEW c \in SUBSET Outs, ModifyCoins(t, c)
    PROVE  TipCoins' = TipCoins /\ ViewCoins' = [ViewCoins EXCEPT ![t] = c] /\ FlagsTrue'
<1> DEFINE e == ModifyEntry(view, t, TipHas(t), TipCoins[t])
<1>1. /\ tip' = IF view[t] # NoEntry THEN tip ELSE TipFetched(t)
      /\ db' = db /\ view' = Modified(view, t, e, c)
  BY DEF ModifyCoins
<1>2. [x \in Txids |-> Seen(tip', db', x)] = TipCoins /\ FlagsSound(tip', db')
  BY <1>1, FineFacts, TipFetch DEF TipCoins
<1>3. [x \in Txids |-> Seen(view', TipCoins, x)] = [ViewCoins EXCEPT ![t] = c]
      /\ FlagsSound(view', TipCoins)
  <2>1. view \in Cache /\ TipCoins \in [Txids -> SUBSET Outs] /\ FlagsSound(view, TipCoins)
    BY FineFacts, LayerTypes DEF CoinsTypeOK
  <2>2. e \in Entry /\ (e.fresh => IsPruned(TipCoins[t]))
    BY <2>1, FineFacts, ModifyEntryFacts
  <2> HIDE DEF e
  <2>3. Shows(Modified(view, t, e, c), view, TipCoins, t, c)
    BY <2>1, <2>2, ModifiedShows, Zenon
  <2> QED BY <1>1, <2>3, Zenon DEF ViewCoins, Shows
<1>4. TipCoins' = TipCoins /\ ViewCoins' = [ViewCoins EXCEPT ![t] = c]
  BY <1>2, <1>3, InvisibleBelow
<1> QED BY <1>2, <1>3, <1>4 DEF FlagsTrue

\* ModifyNewCoins, where nothing unspent is seen unless it is for a coinbase
LEMMA ModifyNewCoinsEffect ==
    ASSUME CoinsInv, flush = "fine", NEW t \in Txids, NEW c \in SUBSET Outs, NEW coinbase \in BOOLEAN,
           coinbase \/ IsPruned(ViewCoins[t]), ModifyNewCoins(t, coinbase, c)
    PROVE  /\ TipCoins' = TipCoins /\ ViewCoins' = [ViewCoins EXCEPT ![t] = c]
           /\ FlagsTrue' /\ threw' = threw
<1> DEFINE e == NewEntry(view, t, coinbase)
<1>1. e \in Entry /\ (e.fresh => IsPruned(TipCoins[t])) /\ (coinbase \/ IsPruned(e.coins))
  BY FineFacts, NewEntryFacts
<1>2. tip' = tip /\ db' = db /\ threw' = threw /\ view' = Modified(view, t, e, c)
  BY <1>1 DEF ModifyNewCoins
<1> HIDE DEF e
<1>3. [x \in Txids |-> Seen(view', TipCoins, x)] = [ViewCoins EXCEPT ![t] = c]
      /\ FlagsSound(view', TipCoins)
  <2>1. view \in Cache /\ TipCoins \in [Txids -> SUBSET Outs] /\ FlagsSound(view, TipCoins)
    BY FineFacts, LayerTypes DEF CoinsTypeOK
  <2>2. Shows(Modified(view, t, e, c), view, TipCoins, t, c)
    BY <1>1, <2>1, ModifiedShows, Zenon
  <2> QED BY <1>2, <2>2, Zenon DEF ViewCoins, Shows
<1>4. [x \in Txids |-> Seen(tip', db', x)] = TipCoins /\ FlagsSound(tip', db')
  BY <1>2, FineFacts DEF TipCoins
<1>5. TipCoins' = TipCoins /\ ViewCoins' = [ViewCoins EXCEPT ![t] = c]
  BY <1>3, <1>4, InvisibleBelow
<1> QED BY <1>2, <1>3, <1>4, <1>5 DEF FlagsTrue

LEMMA UncacheEffect ==
    ASSUME CoinsInv, flush = "fine", NEW t \in Txids, Uncache(t)
    PROVE  TipCoins' = TipCoins /\ ViewCoins' = ViewCoins /\ FlagsTrue'
<1>1. tip' = [tip EXCEPT ![t] = NoEntry] /\ db' = db /\ view' = view
      /\ tip[t] # NoEntry /\ ~tip[t].dirty
  BY DEF Uncache
<1>2. tip \in Cache /\ db \in [Txids -> SUBSET Outs] /\ FlagsSound(tip, db)
  BY FineFacts DEF CoinsTypeOK
<1>3. [x \in Txids |-> Seen(tip', db', x)] = TipCoins /\ FlagsSound(tip', db')
  BY <1>1, <1>2 DEF TipCoins, Seen, FlagsSound, Cache
<1>4. TipCoins' = TipCoins /\ ViewCoins' = ViewCoins
  BY <1>1, <1>3, InvisibleBelow DEF ViewCoins
<1> QED BY <1>1, <1>3, <1>4, FineFacts DEF FlagsTrue

LEMMA OpenViewEffect ==
    ASSUME CoinsInv, flush = "fine", OpenView
    PROVE  /\ TipCoins' = TipCoins /\ ViewCoins' = [TipCoins EXCEPT ![RandPay] = RandPayCoins]
           /\ TipBest' = TipBest /\ viewBest' = TipBest /\ FlagsTrue'
<1>1. tip' = tip /\ db' = db /\ view' = NewCache
  BY DEF OpenView
<1>2. TipCoins' = TipCoins
  BY <1>1 DEF TipCoins
<1>3. ViewCoins' = [TipCoins EXCEPT ![RandPay] = RandPayCoins] /\ FlagsSound(view', TipCoins)
  BY <1>1, <1>2, FineFacts, LayerTypes, EmptyShows DEF ViewCoins
<1>4. TipBest' = TipBest /\ viewBest' = TipBest
  BY DEF OpenView, TipBest
<1> QED BY <1>1, <1>2, <1>3, <1>4, FineFacts DEF FlagsTrue

\* The view reaches pcoinsTip as a whole.
LEMMA FlushViewEffect ==
    ASSUME CoinsInv, flush = "fine", FlushView
    PROVE  /\ TipCoins' = ViewCoins /\ ViewCoins' = ViewCoins
           /\ TipBest' = viewBest /\ open' = FALSE /\ threw' = threw /\ FlagsTrue'
<1>1. view \in Cache /\ tip \in Cache /\ db \in [Txids -> SUBSET Outs]
      /\ FlagsSound(tip, db) /\ FlagsSound(view, [t \in Txids |-> Seen(tip, db, t)])
  BY FineFacts DEF CoinsTypeOK, TipCoins
<1>2. \A t \in Txids : ~Misapplied(view[t], tip[t])
  BY <1>1, BatchShows
<1>3. /\ tip' = [t \in Txids |-> BatchEntry(view[t], tip[t])]
      /\ tipBest' = viewBest /\ view' = EmptyCache /\ open' = FALSE /\ threw' = threw
      /\ db' = db /\ dbBest' = dbBest
  BY <1>2 DEF FlushView
<1>4. TipCoins' = ViewCoins /\ FlagsSound(tip', db')
  BY <1>1, <1>3, BatchShows DEF TipCoins, ViewCoins
<1>5. ViewCoins' = ViewCoins /\ FlagsSound(view', TipCoins')
  BY <1>3, <1>4, FineFacts, LayerTypes, EmptyShows DEF ViewCoins
<1>6. TipBest' = viewBest
  BY <1>3 DEF CoinsInv, NullBestBlock, TipBest, FlushView
<1> QED BY <1>3, <1>4, <1>5, <1>6 DEF FlagsTrue

LEMMA DropViewEffect ==
    ASSUME CoinsInv, flush = "fine", DropView
    PROVE  TipCoins' = TipCoins /\ TipBest' = TipBest /\ FlagsTrue'
<1>1. tip' = tip /\ db' = db /\ view' = EmptyCache /\ tipBest' = tipBest /\ dbBest' = dbBest
  BY DEF DropView
<1>2. TipCoins' = TipCoins /\ TipBest' = TipBest
  BY <1>1 DEF TipCoins, TipBest
<1> QED BY <1>1, <1>2, FineFacts, LayerTypes, EmptyShows DEF FlagsTrue

\* pcoinsTip reaches the database as a whole, and nothing seen changes.
LEMMA FlushTipEffect ==
    ASSUME CoinsInv, flush = "fine", FlushTip
    PROVE  /\ db' = TipCoins /\ TipCoins' = TipCoins /\ ViewCoins' = ViewCoins
           /\ dbBest' = TipBest /\ TipBest' = TipBest /\ FlagsTrue'
<1>1. db' = TipCoins
  BY FineFacts, WriteShows DEF FlushTip, CoinsTypeOK, TipCoins
<1>2. tip' = EmptyCache /\ view' = view /\ dbBest' = TipBest /\ tipBest' = tipBest
  BY DEF FlushTip
<1>3. [x \in Txids |-> Seen(tip', db', x)] = TipCoins /\ FlagsSound(tip', db')
  BY <1>1, <1>2, FineFacts, LayerTypes, EmptyShows
<1>4. TipCoins' = TipCoins /\ ViewCoins' = ViewCoins
  BY <1>2, <1>3, InvisibleBelow DEF ViewCoins
<1> QED BY <1>1, <1>2, <1>3, <1>4, FineFacts DEF FlagsTrue, TipBest

\* A new process sees the database, and the randpay output.
LEMMA RestartEffect ==
    ASSUME CoinsTypeOK, Restart
    PROVE  /\ TipCoins' = [db EXCEPT ![RandPay] = RandPayCoins] /\ ViewCoins' = TipCoins'
           /\ TipBest' = dbBest /\ FlagsTrue'
<1>1. db' = db /\ tip' = NewCache /\ view' = EmptyCache /\ tipBest' = NullHash /\ dbBest' = dbBest
  BY DEF Restart
<1>2. TipCoins' = [db EXCEPT ![RandPay] = RandPayCoins] /\ FlagsSound(tip', db')
  BY <1>1, LayerTypes, EmptyShows DEF TipCoins
<1>3. TipCoins' \in [Txids -> SUBSET Outs]
  BY <1>2, LayerTypes, CoinsAssumption
<1>4. ViewCoins' = TipCoins' /\ FlagsSound(view', TipCoins')
  BY <1>1, <1>3, EmptyShows DEF ViewCoins
<1> QED BY <1>1, <1>2, <1>4 DEF FlagsTrue, TipBest

(***************************************************************************)
(* The invariant, and the first two theorems.                              *)
(***************************************************************************)

LEMMA CoinsInvInit == CoinsInit => CoinsInv
<1> SUFFICES ASSUME CoinsInit PROVE CoinsInv
  OBVIOUS
<1>1. db \in [Txids -> SUBSET Outs] /\ tip = NewCache /\ view = EmptyCache
  BY DEF CoinsInit
<1>2. CoinsTypeOK
  BY <1>1, EmptyShows DEF CoinsInit, CoinsTypeOK
<1>3. FlagsTrue
  BY <1>1, <1>2, LayerTypes, EmptyShows DEF FlagsTrue
<1> QED BY <1>2, <1>3 DEF CoinsInit, CoinsInv, ClosedViewEmpty, NullBestBlock, NeverThrows

LEMMA CoinsInvNext ==
    ASSUME CoinsInv, [CoinsNext]_coinsVars
    PROVE  CoinsInv'
<1>0. CoinsTypeOK /\ CoinsTypeOK'
  BY CoinsTypeNext DEF CoinsInv
<1> DEFINE Rest == ClosedViewEmpty' /\ NullBestBlock' /\ FlagsTrue' /\ NeverThrows'
<1> SUFFICES Rest
  BY <1>0 DEF CoinsInv
<1> USE DEF CoinsInv, ClosedViewEmpty, NullBestBlock, NeverThrows
<1>1. CASE UNCHANGED coinsVars
  <2>1. TipCoins' = TipCoins
    BY <1>1 DEF coinsVars, TipCoins
  <2> QED BY <1>1, <2>1 DEF coinsVars, FlagsTrue, EmptyCache
<1>2. CASE Restart
  BY <1>0, <1>2, RestartEffect DEF Restart
<1>3. CASE flush # "fine" /\ CoinsNext /\ ~Restart
  <2>1. flush' # "fine"
    BY <1>3 DEF CoinsNext, OpenView, AccessTip, AccessView, Uncache, ModifyCoins, ModifyNewCoins,
                SetBestBlock, FlushView, DropView, FlushTip, FlushTipFails
  <2>2. ~open' => view' = EmptyCache
    BY <1>3 DEF CoinsNext, OpenView, AccessTip, AccessView, Uncache, ModifyCoins, ModifyNewCoins,
                SetBestBlock, FlushView, DropView, FlushTip, FlushTipFails
  <2> QED BY <2>1, <2>2 DEF FlagsTrue
<1>4. CASE FlushTipFails
  BY <1>4 DEF FlushTipFails, FlagsTrue
<1>5. ASSUME flush = "fine", OpenView PROVE Rest
  <2>1. FlagsTrue' /\ TipBest' = TipBest
    BY <1>5, OpenViewEffect
  <2> QED BY <1>5, <2>1 DEF OpenView, TipBest
<1>6. ASSUME flush = "fine", NEW t \in Txids, AccessTip(t) PROVE Rest
  BY <1>6, AccessTipEffect DEF AccessTip
<1>7. ASSUME flush = "fine", NEW t \in Txids, AccessView(t) PROVE Rest
  BY <1>7, AccessViewEffect DEF AccessView
<1>8. ASSUME flush = "fine", NEW t \in Txids, Uncache(t) PROVE Rest
  BY <1>8, UncacheEffect DEF Uncache
<1>9. ASSUME flush = "fine", NEW t \in Txids, NEW c \in SUBSET Outs, ModifyCoins(t, c) PROVE Rest
  BY <1>9, ModifyCoinsEffect DEF ModifyCoins
<1>10. ASSUME flush = "fine", NEW t \in Txids, NEW c \in SUBSET Outs, NEW coinbase \in BOOLEAN,
              coinbase \/ IsPruned(ViewCoins[t]), ModifyNewCoins(t, coinbase, c)
       PROVE  Rest
  <2>1. FlagsTrue' /\ threw' = threw
    BY <1>10, ModifyNewCoinsEffect
  <2> QED BY <1>10, <2>1 DEF ModifyNewCoins
<1>11. ASSUME flush = "fine", NEW h \in Hashes, SetBestBlock(h) PROVE Rest
  <2>1. TipCoins' = TipCoins
    BY <1>11 DEF SetBestBlock, TipCoins
  <2> QED BY <1>11, <2>1, CoinsAssumption DEF SetBestBlock, FlagsTrue
<1>12. ASSUME flush = "fine", FlushView PROVE Rest
  <2>1. FlagsTrue' /\ threw' = threw /\ open' = FALSE
    BY <1>12, FlushViewEffect
  <2> QED BY <1>12, <2>1 DEF FlushView
<1>13. ASSUME flush = "fine", DropView PROVE Rest
  BY <1>13, DropViewEffect DEF DropView
<1>14. ASSUME flush = "fine", FlushTip PROVE Rest
  <2>1. FlagsTrue'
    BY <1>14, FlushTipEffect
  <2> QED BY <1>14, <2>1 DEF FlushTip, TipBest
<1> QED BY <1>1, <1>2, <1>3, <1>4, <1>5, <1>6, <1>7, <1>8, <1>9, <1>10, <1>11, <1>12, <1>13, <1>14
        DEF CoinsNext

LEMMA CoinsAlways == CoinsSpec => []CoinsInv
<1>1. CoinsInv /\ [CoinsNext]_coinsVars => CoinsInv'
  BY CoinsInvNext
<1> QED BY <1>1, CoinsInvInit, PTL DEF CoinsSpec

\* "not mark FRESH if that condition is not guaranteed" (coins.h): for any number
\* of transactions and any order of fetches, modifications, flushes of the view,
\* flushes of pcoinsTip and evictions, the DIRTY and FRESH flags of both caches
\* are true of the layers below.
THEOREM FlagsAlwaysTrue == CoinsSpec => []FlagsTrue
<1>1. CoinsInv => FlagsTrue
  BY DEF CoinsInv
<1> QED BY <1>1, CoinsAlways, PTL

\* The logic_error of ModifyNewCoins and the one of BatchWrite are never thrown,
\* if callers create coins only where nothing is unspent.
THEOREM NoLogicError == CoinsSpec => []NeverThrows
<1>1. CoinsInv => NeverThrows
  BY DEF CoinsInv
<1> QED BY <1>1, CoinsAlways, PTL

(***************************************************************************)
(* The refinement.                                                         *)
(***************************************************************************)

LEMMA ShownTypesNext ==
    ASSUME CoinsTypeOK'
    PROVE  /\ db' \in Maps!Coins /\ TipCoins' \in Maps!Coins /\ ShownView' \in Maps!Coins
           /\ dbBest' \in Maps!HashOrNull /\ TipBest' \in Maps!HashOrNull
           /\ ShownBest' \in Maps!HashOrNull /\ open' \in BOOLEAN
<1>1. TipCoins' \in [Txids -> SUBSET Outs]
  BY SeenType DEF CoinsTypeOK, TipCoins
<1>2. ViewCoins' \in [Txids -> SUBSET Outs]
  BY <1>1, SeenType DEF CoinsTypeOK, ViewCoins
<1> QED BY <1>1, <1>2 DEF CoinsTypeOK, Maps!Coins, Maps!HashOrNull, ShownView, ShownBest, TipBest

LEMMA MapsInit == CoinsInit => Maps!AbsInit
<1> SUFFICES ASSUME CoinsInit PROVE Maps!AbsInit
  OBVIOUS
<1>1. /\ db = [t \in Txids |-> {}] /\ dbBest = NullHash /\ tip = NewCache /\ tipBest = NullHash
      /\ open = FALSE /\ flush = "fine"
  BY DEF CoinsInit
<1>2. TipCoins = [db EXCEPT ![RandPay] = RandPayCoins]
  BY <1>1, EmptyShows DEF TipCoins
<1>3. TipBest = NullHash
  BY <1>1 DEF TipBest
<1> QED BY <1>1, <1>2, <1>3 DEF Maps!AbsInit, ShownView, ShownBest, Promise

\* While no write has failed, every step is one of the plain maps or invisible.
LEMMA MapsNextFine ==
    ASSUME CoinsInv, flush = "fine", CoinsNext
    PROVE  Maps!AbsNext \/ UNCHANGED Maps!absVars
<1>0. CoinsTypeOK /\ CoinsTypeOK' /\ ~threw
  BY CoinsTypeNext, FineFacts
<1>1. Promise = "kept" /\ (flush' = "fine" => Promise' = "kept") /\ (flush' = "failed" => Promise' = "disk")
  BY <1>0 DEF Promise
<1>2. CASE OpenView
  BY <1>1, <1>2, OpenViewEffect DEF ShownView, ShownBest, Promise, OpenView, Maps!AbsOpen, Maps!AbsNext
<1>3. ASSUME NEW t \in Txids, AccessTip(t) PROVE UNCHANGED Maps!absVars
  BY <1>3, AccessTipEffect DEF ShownView, ShownBest, Promise, AccessTip, TipBest, Maps!absVars
<1>4. ASSUME NEW t \in Txids, AccessView(t) PROVE UNCHANGED Maps!absVars
  BY <1>4, AccessViewEffect DEF ShownView, ShownBest, Promise, AccessView, TipBest, Maps!absVars
<1>5. ASSUME NEW t \in Txids, Uncache(t) PROVE UNCHANGED Maps!absVars
  BY <1>5, UncacheEffect DEF ShownView, ShownBest, Promise, Uncache, TipBest, Maps!absVars
<1>6. ASSUME NEW t \in Txids \ {RandPay}, NEW c \in SUBSET Outs, ModifyCoins(t, c) PROVE Maps!AbsChange
  BY <1>6, ModifyCoinsEffect DEF ShownView, ShownBest, Promise, ModifyCoins, TipBest, Maps!AbsChange
<1>7. ASSUME NEW t \in Txids \ {RandPay}, NEW c \in SUBSET Outs, NEW coinbase \in BOOLEAN,
             coinbase \/ IsPruned(ViewCoins[t]), ModifyNewCoins(t, coinbase, c)
      PROVE  Maps!AbsChange
  BY <1>7, ModifyNewCoinsEffect DEF ShownView, ShownBest, Promise, ModifyNewCoins, TipBest, Maps!AbsChange
<1>8. ASSUME NEW h \in Hashes, SetBestBlock(h) PROVE Maps!AbsSetBest
  <2>1. TipCoins' = TipCoins /\ ViewCoins' = ViewCoins /\ TipBest' = TipBest
    BY <1>8 DEF SetBestBlock, TipCoins, ViewCoins, TipBest
  <2> QED BY <1>8, <2>1 DEF ShownView, ShownBest, Promise, SetBestBlock, Maps!AbsSetBest
<1>9. CASE FlushView
  <2>1. open /\ db' = db /\ dbBest' = dbBest /\ flush' = flush
    BY <1>9 DEF FlushView
  <2> QED BY <1>9, <2>1, FlushViewEffect DEF ShownView, ShownBest, Promise, Maps!AbsCommit, Maps!AbsNext
<1>10. CASE DropView
  BY <1>10, DropViewEffect DEF ShownView, ShownBest, Promise, DropView, Maps!AbsDrop, Maps!AbsNext
<1>11. CASE FlushTip
  BY <1>1, <1>11, FlushTipEffect DEF ShownView, ShownBest, Promise, FlushTip, Maps!AbsFlush, Maps!AbsNext
<1>12. CASE FlushTipFails
  BY <1>0, <1>1, <1>12, ShownTypesNext DEF FlushTipFails, Maps!AbsFail, Maps!AbsNext
<1>13. CASE Restart
  BY <1>0, <1>1, <1>13, RestartEffect DEF ShownView, ShownBest, Promise, Restart, Maps!AbsRestart, Maps!AbsNext
<1> QED BY <1>2, <1>3, <1>4, <1>5, <1>6, <1>7, <1>8, <1>9, <1>10, <1>11, <1>12, <1>13
        DEF CoinsNext, Maps!AbsNext

\* After a failed write only the database is promised, until it is written again.
LEMMA MapsNextFailed ==
    ASSUME CoinsInv, flush # "fine", CoinsNext
    PROVE  Maps!AbsNext
<1>0. CoinsTypeOK /\ CoinsTypeOK'
  BY CoinsTypeNext DEF CoinsInv
<1>1. flush \in {"failed", "retried"} /\ flush' \in {"fine", "failed", "retried"}
  BY <1>0 DEF CoinsTypeOK
<1>2. CASE Restart /\ flush = "failed"
  BY <1>0, <1>2, RestartEffect DEF Restart, ShownView, ShownBest, Promise, Maps!AbsRestart, Maps!AbsNext
<1>3. CASE flush' = "retried"
  BY <1>0, <1>1, <1>3, ShownTypesNext DEF Promise, Maps!AbsUndefined, Maps!AbsNext
<1>4. CASE ~Restart /\ flush' # "retried"
  <2>1. flush = "failed" /\ flush' = "failed" /\ db' = db /\ dbBest' = dbBest
    BY <1>1, <1>4
       DEF CoinsNext, OpenView, AccessTip, AccessView, Uncache, ModifyCoins, ModifyNewCoins,
           SetBestBlock, FlushView, DropView, FlushTip, FlushTipFails
  <2> QED BY <1>0, <2>1, ShownTypesNext DEF Promise, Maps!AbsUndefined, Maps!AbsNext
<1>5. CASE Restart /\ flush = "retried"
  BY <1>3, <1>5 DEF Restart
<1> QED BY <1>1, <1>2, <1>3, <1>4, <1>5

\* The caches, with their flags, fetches and evictions, implement the plain maps of
\* CoinsView: whatever the transactions, a lookup gives what three complete maps
\* would give, a view is committed or dropped as a whole, a flush of pcoinsTip writes
\* exactly what pcoinsTip shows, and a restart loses what was not written and
\* nothing else.
THEOREM CachesAreMaps == CoinsSpec => MapsSpec
<1>1. CoinsInv /\ [CoinsNext]_coinsVars => [Maps!AbsNext]_(Maps!absVars)
  <2>1. ASSUME UNCHANGED coinsVars PROVE UNCHANGED Maps!absVars
    BY <2>1 DEF coinsVars, Maps!absVars, ShownView, ShownBest, Promise, TipCoins, ViewCoins, TipBest
  <2>2. ASSUME CoinsInv, CoinsNext PROVE Maps!AbsNext \/ UNCHANGED Maps!absVars
    BY <2>2, MapsNextFine, MapsNextFailed
  <2> QED BY <2>1, <2>2
<1> QED BY <1>1, MapsInit, CoinsAlways, PTL DEF CoinsSpec, MapsSpec, Maps!AbsSpec

-----------------------------------------------------------------------------
(***************************************************************************)
(* Blocks below a block.                                                   *)
(***************************************************************************)

\* Nothing is below the null hash.
LEMMA BelowNull == Below[NullHash] = {}
<1>1. {} \in SUBSET Hashes /\ {NullHash} \cup {Prev[x] : x \in {}} \subseteq {} \cup {NullHash}
  OBVIOUS
<1> QED BY <1>1 DEF Below

\* A block lies over its predecessor and what that lies over, and nothing else.
LEMMA BelowStep ==
    ASSUME NEW b \in Hashes
    PROVE  Below[b] \subseteq {b} \cup Below[Prev[b]] /\ Below[Prev[b]] \subseteq Below[b]
<1>0. Prev[b] \in Hashes \cup {NullHash} /\ b # NullHash /\ NullHash \notin Hashes
  BY PrevAssumption, CoinsAssumption
<1>1. ASSUME NEW a \in Below[b], a # b, a \notin Below[Prev[b]] PROVE FALSE
  <2>1. PICK S \in SUBSET Hashes :
            /\ {Prev[b]} \cup {Prev[x] : x \in S} \subseteq S \cup {NullHash}
            /\ a \notin S
    BY <1>0, <1>1 DEF Below
  <2>2. {b} \cup {Prev[x] : x \in S \cup {b}} \subseteq (S \cup {b}) \cup {NullHash}
    BY <2>1
  <2>3. S \cup {b} \in SUBSET Hashes
    OBVIOUS
  <2>4. a \in S \cup {b}
    BY <1>1, <2>2, <2>3 DEF Below
  <2> QED BY <1>1, <2>1, <2>4
<1>2. ASSUME NEW a \in Below[Prev[b]], NEW S \in SUBSET Hashes,
             {b} \cup {Prev[x] : x \in S} \subseteq S \cup {NullHash}
      PROVE  a \in S
  <2>1. b \in S
    BY <1>0, <1>2
  <2>2. {Prev[b]} \cup {Prev[x] : x \in S} \subseteq S \cup {NullHash}
    BY <1>2, <2>1
  <2> QED BY <1>0, <1>2, <2>2 DEF Below
<1>3. Below[Prev[b]] \subseteq Hashes
  BY <1>0 DEF Below
<1> QED BY <1>1, <1>2, <1>3 DEF Below

(***************************************************************************)
(* The inductive invariant for the undo data.                              *)
(***************************************************************************)

\* d has the undo data of the chain of h.
Covered(h, d) == \A b \in Below[h] : Prev[b] # NullHash => b \in d

Best == Hashes \cup {NullHash}

\* The index in memory is never behind the one on disk, and has the undo data of
\* the chain pcoinsTip is at and, while a block is in work, of the view's.
UndoInv ==
    /\ dbBest \in Best /\ tipBest \in Best /\ viewBest \in Best
    /\ DOMAIN diskUndo \subseteq DOMAIN undo
    /\ Covered(dbBest, DOMAIN diskUndo) /\ Covered(TipBest, DOMAIN undo)
    /\ job # NoJob =>
        /\ {"kind", "block"} \subseteq DOMAIN job /\ job.block \in Hashes
        /\ job.kind = "connect" => Prev[job.block] = TipBest
        /\ Covered(viewBest, DOMAIN undo)

LEMMA CoveredMore ==
    ASSUME NEW h, NEW d, NEW e, Covered(h, d), d \subseteq e
    PROVE  Covered(h, e)
BY DEF Covered

LEMMA CoveredStep ==
    ASSUME NEW b \in Hashes, NEW d
    PROVE  /\ Covered(b, d) => Covered(Prev[b], d)
           /\ Covered(Prev[b], d) /\ (Prev[b] = NullHash \/ b \in d) => Covered(b, d)
BY BelowStep DEF Covered

\* A step on the view, which leaves the blocks of all layers as they are.
LEMMA SameBlocks ==
    ASSUME UndoInv, UNCHANGED <<dbBest, tipBest, viewBest, undo, diskUndo>>,
           job' # NoJob => /\ job # NoJob /\ job'.kind = job.kind /\ job'.block = job.block
                           /\ DOMAIN job' = DOMAIN job
    PROVE  UndoInv'
BY DEF UndoInv, TipBest, Covered

\* What is left of a job after one of its operations.
LEMMA AdvanceOfJob ==
    ASSUME UndoInv, job # NoJob, NEW s, NEW c, NEW j \in {Advance, [Advance EXCEPT !.clean = c], [Advance EXCEPT !.spent = s]}
    PROVE  j.kind = job.kind /\ j.block = job.block /\ DOMAIN j = DOMAIN job
<1>1. {"kind", "block"} \subseteq DOMAIN job
  BY DEF UndoInv
<1>2. Advance.kind = job.kind /\ Advance.block = job.block /\ DOMAIN Advance = DOMAIN job
  BY <1>1 DEF Advance
<1> HIDE DEF Advance
<1> QED BY <1>1, <1>2

(***************************************************************************)
(* The steps.                                                              *)
(***************************************************************************)

\* A block is begun: the view is at the block pcoinsTip is at.
LEMMA BeginUndo ==
    ASSUME UndoInv, (\E b \in Hashes : BeginConnect(b)) \/ BeginDisconnect
    PROVE  UndoInv'
<1>1. /\ viewBest' = TipBest /\ tipBest' = TipBest
      /\ UNCHANGED <<dbBest, undo, diskUndo>>
  BY DEF BeginConnect, BeginDisconnect, OpenView
<1>2. TipBest' = TipBest /\ TipBest \in Best
  BY <1>1 DEF TipBest, UndoInv
<1>3. /\ {"kind", "block"} \subseteq DOMAIN job' /\ job'.block \in Hashes
      /\ job'.kind = "connect" => Prev[job'.block] = TipBest
  <2>1. ASSUME NEW b \in Hashes, BeginConnect(b)
        PROVE  /\ {"kind", "block"} \subseteq DOMAIN job' /\ job'.block \in Hashes
               /\ job'.kind = "connect" => Prev[job'.block] = TipBest
    <3>1. job' = Job("connect", b) /\ Prev[b] = TipBest
      BY <2>1 DEF BeginConnect
    <3> QED BY <3>1 DEF Job
  <2>2. CASE BeginDisconnect
    <3>1. job' = Job("disconnect", TipBest) /\ TipBest # NullHash
      BY <2>2 DEF BeginDisconnect
    <3> QED BY <1>2, <3>1 DEF Job, Best
  <2> QED BY <2>1, <2>2
<1> QED BY <1>1, <1>2, <1>3 DEF UndoInv, Covered

\* One operation of a block.
LEMMA WorkUndo ==
    ASSUME UndoInv, HaveInput \/ SpendInput \/ AddOutputs \/ RemoveOutputs \/ ApplyTxInUndo
    PROVE  UndoInv'
<1>1. job # NoJob
  BY DEF HaveInput, SpendInput, AddOutputs, RemoveOutputs, ApplyTxInUndo, Doing
<1>2. UNCHANGED <<dbBest, tipBest, viewBest, undo, diskUndo>>
  BY DEF HaveInput, SpendInput, AddOutputs, RemoveOutputs, ApplyTxInUndo,
         AccessView, ModifyCoins, ModifyNewCoins, coinsVars
<1>3. \E s, c : job' \in {Advance, [Advance EXCEPT !.clean = c], [Advance EXCEPT !.spent = s]}
  BY Zenon DEF HaveInput, SpendInput, AddOutputs, RemoveOutputs, ApplyTxInUndo
<1>4. job'.kind = job.kind /\ job'.block = job.block /\ DOMAIN job' = DOMAIN job
  BY <1>1, <1>3, AdvanceOfJob
<1> QED BY <1>1, <1>2, <1>4, SameBlocks

\* The end of ConnectBlock: the block is known with its undo data before the view
\* is said to be at it.
LEMMA EndConnectUndo ==
    ASSUME UndoInv, EndConnect
    PROVE  UndoInv'
<1> DEFINE b == job.block
<1>1. /\ job # NoJob /\ job.kind = "connect" /\ b \in Hashes /\ Prev[b] = TipBest
      /\ viewBest' = b /\ UNCHANGED <<dbBest, tipBest, job, diskUndo>>
      /\ undo' = IF b \in DOMAIN undo \/ Prev[b] = NullHash THEN undo
                 ELSE [x \in DOMAIN undo \cup {b} |-> IF x = b THEN job.spent ELSE undo[x]]
  BY DEF EndConnect, SetBestBlock, UndoInv
<1>2. DOMAIN undo \subseteq DOMAIN undo' /\ (Prev[b] = NullHash \/ b \in DOMAIN undo')
  BY <1>1
<1>3. Covered(TipBest, DOMAIN undo')
  BY <1>2, CoveredMore DEF UndoInv
<1>4. Covered(b, DOMAIN undo')
  BY <1>1, <1>2, <1>3, CoveredStep
<1>5. TipBest' = TipBest
  BY <1>1 DEF TipBest
<1> HIDE DEF b
<1>6. Covered(dbBest, DOMAIN diskUndo)' /\ Covered(TipBest, DOMAIN undo)' /\ Covered(viewBest, DOMAIN undo)'
  BY <1>1, <1>3, <1>4, <1>5 DEF UndoInv, Covered
<1>7. job' # NoJob => /\ {"kind", "block"} \subseteq DOMAIN job' /\ job'.block \in Hashes
                      /\ job'.kind = "connect" => Prev[job'.block] = TipBest'
  BY <1>1, <1>5 DEF UndoInv
<1> QED BY <1>1, <1>2, <1>6, <1>7 DEF UndoInv, Best

\* The end of DisconnectBlock: the view is at the block below.
LEMMA EndDisconnectUndo ==
    ASSUME UndoInv, EndDisconnect
    PROVE  UndoInv'
<1>1. /\ job # NoJob /\ job.block \in Hashes /\ viewBest = job.block /\ viewBest' = Prev[job.block]
      /\ UNCHANGED <<dbBest, tipBest, job, undo, diskUndo>>
  BY DEF EndDisconnect, SetBestBlock, UndoInv
<1>2. Covered(viewBest', DOMAIN undo) /\ viewBest' \in Best
  BY <1>1, CoveredStep, PrevAssumption DEF UndoInv, Best
<1> QED BY <1>1, <1>2 DEF UndoInv, TipBest, Covered

\* The view is flushed into pcoinsTip, or goes.
LEMMA CommitUndo ==
    ASSUME UndoInv, Commit \/ GiveUp
    PROVE  UndoInv'
<1>1. /\ job # NoJob /\ job' = NoJob /\ UNCHANGED <<dbBest, undo, diskUndo>>
      /\ tipBest' \in {tipBest, viewBest} /\ viewBest' \in {viewBest, NullHash}
  BY DEF Commit, GiveUp, FlushView, DropView
<1>2. Covered(dbBest, DOMAIN undo)
  BY CoveredMore DEF UndoInv
<1>3. TipBest' \in {TipBest, viewBest, dbBest}
  BY <1>1 DEF TipBest
<1>4. Covered(TipBest', DOMAIN undo)
  BY <1>1, <1>2, <1>3 DEF UndoInv
<1> QED BY <1>1, <1>4 DEF UndoInv, Covered, Best

\* FlushStateToDisk: with the coins the index is written.
LEMMA FlushUndo ==
    ASSUME UndoInv, WriteIndex \/ FullFlush \/ FullFlushFails
    PROVE  UndoInv'
<1>1. /\ job = NoJob /\ diskUndo' = undo /\ UNCHANGED <<tipBest, viewBest, job, undo>>
      /\ dbBest' \in {dbBest, TipBest}
  BY DEF WriteIndex, FullFlush, FullFlushFails, FlushTip, FlushTipFails, coinsVars
<1>2. Covered(dbBest, DOMAIN undo)
  BY CoveredMore DEF UndoInv
<1>3. TipBest' = TipBest /\ TipBest \in Best
  BY <1>1 DEF TipBest, UndoInv
<1> QED BY <1>1, <1>2, <1>3 DEF UndoInv, Covered

\* A restart: everything is read from disk.
LEMMA RestartUndo ==
    ASSUME UndoInv, RestartNode
    PROVE  UndoInv'
<1>1. /\ job' = NoJob /\ undo' = diskUndo /\ tipBest' = NullHash /\ viewBest' = NullHash
      /\ UNCHANGED <<dbBest, diskUndo>>
  BY DEF RestartNode, Restart
<1>2. TipBest' = dbBest
  BY <1>1 DEF TipBest
<1> QED BY <1>1, <1>2 DEF UndoInv, Covered, Best

LEMMA UndoNext == UndoInv /\ [UtxoNext]_utxoVars => UndoInv'
<1> SUFFICES ASSUME UndoInv, [UtxoNext]_utxoVars PROVE UndoInv'
  OBVIOUS
<1>1. CASE UNCHANGED utxoVars
  BY <1>1, SameBlocks DEF utxoVars, coinsVars
<1>2. CASE PoolAccess
  BY <1>2, SameBlocks DEF PoolAccess, AccessTip, Uncache
<1> QED
  BY <1>1, <1>2, BeginUndo, WorkUndo, EndConnectUndo, EndDisconnectUndo, CommitUndo, FlushUndo,
     RestartUndo DEF UtxoNext

\* UndoInv holds in every reachable state.
LEMMA UndoAlways == UtxoSpec => []UndoInv
<1>1. UtxoInit => UndoInv
  BY BelowNull DEF UtxoInit, CoinsInit, UndoInv, Covered, TipBest, Best
<1> QED BY <1>1, UndoNext, PTL DEF UtxoSpec

(***************************************************************************)
(* Theorems.                                                               *)
(***************************************************************************)

\* FlushStateToDisk writes the index before the coins, so the index on disk has
\* the undo data of every block of the chain the database is at, whenever the
\* process stops, and also after a write of the coins that failed.
THEOREM UndoIsOnDisk == UtxoSpec => []UndoOnDisk
<1>1. UndoInv => UndoOnDisk
  BY DEF UndoInv, Covered, UndoOnDisk
<1> QED BY <1>1, UndoAlways, PTL

\* The tip of a running node can be disconnected.
TipUndo == TipBest # NullHash /\ Prev[TipBest] # NullHash => TipBest \in DOMAIN undo

\* DisconnectTip never fails for want of undo data, through reorganisations,
\* blocks given up half way, flushes and restarts.
THEOREM TipCanBeUndone == UtxoSpec => []TipUndo
<1>1. ASSUME NEW b \in Hashes PROVE b \in Below[b]
  BY CoinsAssumption DEF Below
<1>2. UndoInv => TipUndo
  <2> SUFFICES ASSUME UndoInv, TipBest # NullHash, Prev[TipBest] # NullHash
               PROVE  TipBest \in DOMAIN undo
    BY DEF TipUndo
  <2>1. TipBest \in Hashes
    BY DEF UndoInv, TipBest, Best
  <2> QED BY <1>1, <2>1 DEF UndoInv, Covered
<1> QED BY <1>2, UndoAlways, PTL

(***************************************************************************)
(* The recursions of Replay and Utxo define functions.                     *)
(***************************************************************************)

\* A set of naturals has a least element.
LEMMA LeastNumber ==
    ASSUME NEW T \in SUBSET Nat, T # {}
    PROVE  \E n \in T : \A m \in T : n <= m
<1>0. IsWellFoundedOn(OpToRel(<, Nat), Nat)
  BY NatLessThanWellFounded
<1>1. PICK n \in T : \A m \in T : ~(<<m, n>> \in OpToRel(<, Nat))
  BY <1>0, WFMin
<1>2. \A m \in T : ~(m < n)
  BY <1>1 DEF OpToRel
<1>3. ASSUME NEW m \in T PROVE n <= m
  <2>1. m \in Nat /\ n \in Nat /\ ~(m < n)
    BY <1>2
  <2> QED BY <2>1
<1> QED BY <1>3

\* Replay's function, up to transaction N.
ReplayBody(F, before, b, k) == IF k = 0 THEN before ELSE Apply(F[k - 1], Vtx[b][k])
IsReplay(before, b, N, F) == F = [k \in 0..N |-> ReplayBody(F, before, b, k)]

\* The recursion of Replay has a solution,
LEMMA ReplayExists ==
    ASSUME NEW before, NEW b, NEW N \in Nat
    PROVE  \E F : IsReplay(before, b, N, F)
<1> DEFINE T == {k \in Nat : ~\E F : IsReplay(before, b, k, F)}
<1>1. SUFFICES ASSUME T # {} PROVE FALSE
  OBVIOUS
<1>2. PICK m \in T : \A k \in T : m <= k
  <2>1. T \in SUBSET Nat
    OBVIOUS
  <2> HIDE DEF T
  <2> QED BY <1>1, <2>1, LeastNumber
<1>3. m \in Nat /\ ~\E F : IsReplay(before, b, m, F)
  BY <1>2
<1>4. CASE m = 0
  <2> DEFINE F == [k \in 0..0 |-> before]
  <2>1. \A k \in 0..0 : ReplayBody(F, before, b, k) = before
    BY DEF ReplayBody
  <2>2. F = [k \in 0..0 |-> ReplayBody(F, before, b, k)]
    BY <2>1
  <2> QED BY <1>3, <1>4, <2>2 DEF IsReplay
<1>5. CASE m # 0
  <2>1. m - 1 \in Nat /\ ~(m <= m - 1)
    BY <1>3, <1>5
  <2>2. m - 1 \notin T
    <3> HIDE DEF T
    <3> QED BY <1>2, <2>1
  <2>3. PICK G : IsReplay(before, b, m - 1, G)
    BY <2>1, <2>2
  <2> DEFINE F == [k \in 0..m |-> IF k < m THEN G[k] ELSE ReplayBody(G, before, b, m)]
  <2>4. ASSUME NEW k \in 0..m PROVE F[k] = ReplayBody(F, before, b, k)
    <3>1. k \in Int /\ m \in Int /\ (k = 0 \/ k - 1 \in 0..(m - 1))
      BY <1>3
    <3>2. k # 0 => k - 1 \in 0..m /\ k - 1 < m /\ F[k - 1] = G[k - 1]
      BY <1>3, <3>1
    <3>3. ReplayBody(F, before, b, k) = ReplayBody(G, before, b, k)
      <4> HIDE DEF F
      <4> QED BY <3>2 DEF ReplayBody
    <3>4. CASE k < m
      <4>1. k \in 0..(m - 1)
        BY <1>3, <3>4
      <4>2. G[k] = ReplayBody(G, before, b, k)
        BY <2>3, <4>1 DEF IsReplay
      <4> QED BY <3>3, <3>4, <4>2
    <3>5. CASE k = m
      BY <1>3, <3>3, <3>5
    <3> QED BY <1>3, <3>4, <3>5
  <2>5. F = [k \in 0..m |-> ReplayBody(F, before, b, k)]
    <3>1. DOMAIN F = 0..m /\ F = [k \in 0..m |-> F[k]]
      OBVIOUS
    <3> HIDE DEF F
    <3> QED BY <2>4, <3>1
  <2> QED BY <1>3, <2>5 DEF IsReplay
<1> QED BY <1>4, <1>5

\* and no two that differ.
LEMMA ReplayAgree ==
    ASSUME NEW before, NEW b, NEW N \in Nat, NEW M \in Nat, N <= M, NEW F, NEW G,
           IsReplay(before, b, N, F), IsReplay(before, b, M, G)
    PROVE  \A k \in 0..N : F[k] = G[k]
<1> DEFINE T == {k \in 0..N : F[k] # G[k]}
<1>1. SUFFICES ASSUME T # {} PROVE FALSE
  OBVIOUS
<1>2. PICK m \in T : \A k \in T : m <= k
  <2>1. T \in SUBSET Nat
    OBVIOUS
  <2> HIDE DEF T
  <2> QED BY <1>1, <2>1, LeastNumber
<1>3. m \in 0..N /\ m \in 0..M /\ F[m] # G[m]
  BY <1>2
<1>4. F[m] = ReplayBody(F, before, b, m) /\ G[m] = ReplayBody(G, before, b, m)
  BY <1>3 DEF IsReplay
<1>5. m # 0 => F[m - 1] = G[m - 1]
  <2> SUFFICES ASSUME m # 0 PROVE F[m - 1] = G[m - 1]
    OBVIOUS
  <2>1. m - 1 \in 0..N /\ ~(m <= m - 1)
    BY <1>3
  <2>2. m - 1 \notin T
    <3> HIDE DEF T
    <3> QED BY <1>2, <2>1
  <2> QED BY <2>1, <2>2
<1> QED BY <1>3, <1>4, <1>5 DEF ReplayBody

\* Replay is the last value of such a solution.
LEMMA ReplayValue ==
    ASSUME NEW before, NEW b, NEW N \in Nat
    PROVE  \E F : IsReplay(before, b, N, F) /\ Replay(before, b, N) = F[N]
<1> DEFINE G == CHOOSE F : IsReplay(before, b, N, F)
<1>1. \E F : IsReplay(before, b, N, F)
  BY ReplayExists
<1>2. IsReplay(before, b, N, G)
  BY <1>1, Zenon
<1>3. Replay(before, b, N) = G[N]
  BY Zenon DEF Replay, IsReplay, ReplayBody
<1> QED BY <1>2, <1>3

\* A replay begins with the coins before the block, and every transaction is applied
\* to what the ones before it left.
LEMMA ReplayStep ==
    ASSUME NEW before, NEW b
    PROVE  /\ Replay(before, b, 0) = before
           /\ \A i \in Nat \ {0} : Replay(before, b, i) = Apply(Replay(before, b, i - 1), Vtx[b][i])
<1>1. Replay(before, b, 0) = before
  <2>1. PICK F : IsReplay(before, b, 0, F) /\ Replay(before, b, 0) = F[0]
    BY ReplayValue
  <2> QED BY <2>1 DEF IsReplay, ReplayBody
<1>2. ASSUME NEW i \in Nat \ {0}
      PROVE  Replay(before, b, i) = Apply(Replay(before, b, i - 1), Vtx[b][i])
  <2>0. i \in Nat /\ i - 1 \in Nat /\ i - 1 <= i /\ i # 0 /\ i - 1 \in 0..(i - 1) /\ i \in 0..i
    OBVIOUS
  <2>1. PICK F : IsReplay(before, b, i, F) /\ Replay(before, b, i) = F[i]
    BY <2>0, ReplayValue
  <2>2. PICK G : IsReplay(before, b, i - 1, G) /\ Replay(before, b, i - 1) = G[i - 1]
    BY <2>0, ReplayValue
  <2>3. G[i - 1] = F[i - 1]
    <3> DEFINE p == i - 1
    <3>1. p \in Nat /\ p <= i /\ p \in 0..p /\ IsReplay(before, b, p, G)
      BY <2>0, <2>2
    <3> HIDE DEF p
    <3>2. \A k \in 0..p : G[k] = F[k]
      BY <2>0, <2>1, <3>1, ReplayAgree
    <3>3. G[p] = F[p]
      BY <3>1, <3>2
    <3> QED BY <3>3 DEF p
  <2>4. F[i] = ReplayBody(F, before, b, i)
    BY <2>0, <2>1 DEF IsReplay
  <2> QED BY <2>0, <2>1, <2>2, <2>3, <2>4 DEF ReplayBody
<1> QED BY <1>1, <1>2

\* The recursion of Utxo on a set of blocks that has the blocks below each of them.
UtxoBody(F, b) ==
    IF b = NullHash THEN [t \in Txids |-> {}] ELSE Replay(F[Prev[b]], b, Len(Vtx[b]))
IsUtxo(D, F) == F = [b \in D |-> UtxoBody(F, b)]
Closed(D) == D \subseteq Best /\ \A b \in D : b # NullHash => Prev[b] \in D

\* Two solutions agree on the blocks both have.
LEMMA UtxoAgree ==
    ASSUME NEW D, NEW E, Closed(D), Closed(E), NEW F, NEW G, IsUtxo(D, F), IsUtxo(E, G)
    PROVE  \A b \in D \cap E : F[b] = G[b]
<1> DEFINE S == {b \in D \cap E : F[b] # G[b]}
<1>1. ASSUME NEW b \in D \cap E PROVE F[b] = UtxoBody(F, b) /\ G[b] = UtxoBody(G, b)
  BY DEF IsUtxo
<1>2. NullHash \notin S
  BY <1>1 DEF UtxoBody
<1>3. S \in SUBSET Hashes
  BY <1>2 DEF Closed, Best
<1>4. SUFFICES ASSUME S # {} PROVE FALSE
  OBVIOUS
<1>5. PICK b \in S : Prev[b] \notin S
  <2> HIDE DEF S
  <2> QED BY <1>3, <1>4, PrevAssumption
<1>6. b \in Hashes /\ b # NullHash /\ b \in D \cap E /\ F[b] # G[b]
  BY <1>3, <1>5, CoinsAssumption
<1>7. F[Prev[b]] = G[Prev[b]]
  BY <1>5, <1>6 DEF Closed
<1> QED BY <1>1, <1>6, <1>7 DEF UtxoBody

\* F solves the recursion on a set with b in it.
Reached(b, F) == \E D : Closed(D) /\ IsUtxo(D, F) /\ b \in D

\* Every block is reached: take one whose predecessor is, if it is not.
LEMMA UtxoReached ==
    ASSUME NEW b \in Best
    PROVE  \E F : Reached(b, F)
<1> DEFINE S == {h \in Hashes : ~\E F : Reached(h, F)}
<1>0. NullHash \notin Hashes /\ Prev \in [Hashes -> Best]
  BY CoinsAssumption, PrevAssumption DEF Best
<1>1. \E F : Reached(NullHash, F)
  <2> DEFINE F == [h \in {NullHash} |-> [t \in Txids |-> {}]]
  <2>1. IsUtxo({NullHash}, F)
    BY DEF IsUtxo, UtxoBody
  <2>2. Closed({NullHash})
    BY DEF Closed, Best
  <2> QED BY <2>1, <2>2 DEF Reached
<1>2. S = {}
  <2> SUFFICES ASSUME S # {} PROVE FALSE
    OBVIOUS
  <2>1. PICK h \in S : Prev[h] \notin S
    <3>1. S \in SUBSET Hashes
      OBVIOUS
    <3> HIDE DEF S
    <3> QED BY <3>1, PrevAssumption
  <2>2. h \in Hashes /\ h # NullHash /\ Prev[h] \in Best /\ ~\E F : Reached(h, F)
    BY <1>0, <2>1
  <2>3. \E F : Reached(Prev[h], F)
    <3>1. CASE Prev[h] = NullHash
      BY <1>1, <3>1
    <3>2. CASE Prev[h] \in Hashes
      BY <2>1, <3>2
    <3> QED BY <2>2, <3>1, <3>2 DEF Best
  <2>4. PICK G, D : Closed(D) /\ IsUtxo(D, G) /\ Prev[h] \in D
    BY <2>3 DEF Reached
  <2>5. h \notin D
    BY <2>2, <2>4 DEF Reached
  <2> DEFINE E == D \cup {h}
             F == [x \in E |-> IF x = h THEN UtxoBody(G, h) ELSE G[x]]
  <2>6. Closed(E)
    BY <2>2, <2>4 DEF Closed, Best
  <2>7. ASSUME NEW x \in E PROVE F[x] = UtxoBody(F, x)
    <3>1. x # NullHash => F[Prev[x]] = G[Prev[x]]
      BY <2>4, <2>5 DEF Closed
    <3>2. UtxoBody(F, x) = UtxoBody(G, x)
      <4> HIDE DEF F
      <4> QED BY <3>1 DEF UtxoBody
    <3>3. CASE x = h
      BY <3>2, <3>3
    <3>4. CASE x # h
      <4>1. x \in D /\ G[x] = UtxoBody(G, x)
        BY <2>4, <3>4 DEF IsUtxo
      <4> QED BY <3>2, <3>4, <4>1
    <3> QED BY <3>3, <3>4
  <2>8. IsUtxo(E, F)
    <3>1. F = [x \in E |-> F[x]]
      OBVIOUS
    <3> HIDE DEF F, E
    <3> QED BY <2>7, <3>1 DEF IsUtxo
  <2>9. Reached(h, F)
    <3> HIDE DEF F
    <3> QED BY <2>6, <2>8 DEF Reached
  <2> QED BY <2>2, <2>9
<1> QED BY <1>1, <1>2 DEF Best

\* Utxo has the values its recursion says.
LEMMA UtxoValue == IsUtxo(Best, Utxo)
<1> DEFINE P(b) == CHOOSE F : Reached(b, F)
           W == [b \in Best |-> P(b)[b]]
<1>1. ASSUME NEW b \in Best PROVE Reached(b, P(b))
  BY UtxoReached, Zenon
<1> HIDE DEF P
<1>2. ASSUME NEW b \in Best PROVE W[b] = UtxoBody(W, b)
  <2>1. PICK D : Closed(D) /\ IsUtxo(D, P(b)) /\ b \in D
    BY <1>1 DEF Reached
  <2>2. P(b)[b] = UtxoBody(P(b), b)
    BY <2>1 DEF IsUtxo
  <2>3. ASSUME b # NullHash PROVE P(b)[Prev[b]] = W[Prev[b]]
    <3>1. Prev[b] \in D /\ Prev[b] \in Best
      BY <2>1, <2>3 DEF Closed
    <3>2. PICK E : Closed(E) /\ IsUtxo(E, P(Prev[b])) /\ Prev[b] \in E
      BY <1>1, <3>1 DEF Reached
    <3>3. P(b)[Prev[b]] = P(Prev[b])[Prev[b]]
      BY <2>1, <3>1, <3>2, UtxoAgree
    <3> QED BY <3>1, <3>3
  <2>4. UtxoBody(P(b), b) = UtxoBody(W, b)
    <3> HIDE DEF W
    <3> QED BY <2>3 DEF UtxoBody
  <2> QED BY <2>2, <2>4
<1>3. IsUtxo(Best, W)
  <2>1. W = [b \in Best |-> W[b]]
    OBVIOUS
  <2> HIDE DEF W
  <2> QED BY <1>2, <2>1 DEF IsUtxo
<1>4. Utxo = CHOOSE F : IsUtxo(Best, F)
  BY Zenon DEF Utxo, IsUtxo, UtxoBody, Best
<1> QED BY <1>3, <1>4, Zenon

(***************************************************************************)
(* Transactions and the coins they spend.                                  *)
(***************************************************************************)

\* The coins after the first i transactions of a block.
After(b, i) == Replay(Utxo[Prev[b]], b, i)

\* The coins before a block, between its transactions and after it.
LEMMA AfterFacts ==
    ASSUME NEW b \in Hashes
    PROVE  /\ After(b, 0) = Utxo[Prev[b]]
           /\ \A i \in Nat \ {0} : After(b, i) = Apply(After(b, i - 1), Vtx[b][i])
           /\ After(b, Len(Vtx[b])) = Utxo[b]
<1>1. b \in Best /\ b # NullHash
  BY CoinsAssumption DEF Best
<1>2. Utxo[b] = UtxoBody(Utxo, b)
  BY <1>1, UtxoValue DEF IsUtxo
<1>3. Utxo[b] = Replay(Utxo[Prev[b]], b, Len(Vtx[b]))
  BY <1>1, <1>2 DEF UtxoBody
<1>4. /\ Replay(Utxo[Prev[b]], b, 0) = Utxo[Prev[b]]
      /\ \A i \in Nat \ {0} :
            Replay(Utxo[Prev[b]], b, i) = Apply(Replay(Utxo[Prev[b]], b, i - 1), Vtx[b][i])
  BY ReplayStep, Zenon
<1> QED BY <1>3, <1>4, Zenon DEF After

\* Nothing is unspent before the genesis block.
LEMMA UtxoOfNull == Utxo[NullHash] = [t \in Txids |-> {}]
<1>1. NullHash \in Best
  BY DEF Best
<1>2. Utxo[NullHash] = UtxoBody(Utxo, NullHash)
  BY <1>1, UtxoValue DEF IsUtxo
<1> QED BY <1>2 DEF UtxoBody

\* The types of the inputs of a transaction.
LEMMA InputFacts ==
    ASSUME NEW t \in Txids
    PROVE  /\ Len(Vin[t]) \in Nat /\ DOMAIN Vin[t] = 1..Len(Vin[t])
           /\ \A j \in 1..Len(Vin[t]) :
                /\ Vin[t][j][1] \in Txids /\ Vin[t][j][2] \in Outs
                /\ Vin[t][j] = <<Vin[t][j][1], Vin[t][j][2]>>
           /\ \A j, k \in 1..Len(Vin[t]) : Vin[t][j] = Vin[t][k] => j = k
<1>1. Vin[t] \in Seq(Txids \X Outs)
  BY TxAssumption
<1>2. Len(Vin[t]) \in Nat /\ DOMAIN Vin[t] = 1..Len(Vin[t])
  BY <1>1
<1>3. ASSUME NEW j \in 1..Len(Vin[t])
      PROVE  /\ Vin[t][j][1] \in Txids /\ Vin[t][j][2] \in Outs
             /\ Vin[t][j] = <<Vin[t][j][1], Vin[t][j][2]>>
  <2>1. Vin[t][j] \in Txids \X Outs
    BY <1>1
  <2> QED BY <2>1
<1>4. \A j, k \in 1..Len(Vin[t]) : Vin[t][j] = Vin[t][k] => j = k
  BY <1>2, TxAssumption
<1> QED BY <1>2, <1>3, <1>4

\* The types of the transactions of a block.
LEMMA BlockFacts ==
    ASSUME NEW b \in Hashes
    PROVE  /\ Len(Vtx[b]) \in Nat /\ DOMAIN Vtx[b] = 1..Len(Vtx[b])
           /\ \A i \in 1..Len(Vtx[b]) : Vtx[b][i] \in Txids /\ Vtx[b][i] # RandPay
<1>1. Vtx[b] \in Seq(Txids \ {RandPay})
  BY TxAssumption
<1>2. Len(Vtx[b]) \in Nat /\ DOMAIN Vtx[b] = 1..Len(Vtx[b])
  BY <1>1
<1>3. ASSUME NEW i \in 1..Len(Vtx[b]) PROVE Vtx[b][i] \in Txids /\ Vtx[b][i] # RandPay
  <2>1. Vtx[b][i] \in Txids \ {RandPay}
    BY <1>1
  <2> QED BY <2>1
<1> QED BY <1>2, <1>3

\* What is left of the outputs of x when t has spent its first s inputs.
Left(c, t, s, x) == c[x] \ {n \in Outs : \E j \in 1..s : Vin[t][j] = <<x, n>>}

\* Input j of t is there, or is the randpay output.
Has(c, t, j) == Vin[t][j][1] # RandPay => Vin[t][j][2] \in c[Vin[t][j][1]]
Present(c, t) == \A j \in 1..Len(Vin[t]) : Has(c, t, j)

\* Nothing is spent.
LEMMA LeftNone ==
    ASSUME NEW c, NEW t, NEW x
    PROVE  Left(c, t, 0, x) = c[x]
BY DEF Left

\* Input j is one more output spent.
LeftStep(c, t, j, x) ==
    /\ x = Vin[t][j][1] => Left(c, t, j, x) = Left(c, t, j - 1, x) \ {Vin[t][j][2]}
    /\ x # Vin[t][j][1] => Left(c, t, j, x) = Left(c, t, j - 1, x)

LEMMA LeftNext ==
    ASSUME NEW c, NEW t \in Txids, NEW j \in 1..Len(Vin[t]), NEW x \in Txids
    PROVE  LeftStep(c, t, j, x)
<1>1. /\ Len(Vin[t]) \in Nat /\ j \in Nat /\ Vin[t][j][2] \in Outs
      /\ Vin[t][j] = <<Vin[t][j][1], Vin[t][j][2]>>
  BY InputFacts
<1>2. \A k \in 1..j : k = j \/ k \in 1..(j - 1)
  BY <1>1
<1>3. \A k \in 1..(j - 1) : k \in 1..j
  BY <1>1
<1>4. j \in 1..j
  BY <1>1
<1>5. ASSUME NEW n \in Outs
      PROVE  (\E k \in 1..j : Vin[t][k] = <<x, n>>) <=>
                \/ \E k \in 1..(j - 1) : Vin[t][k] = <<x, n>>
                \/ x = Vin[t][j][1] /\ n = Vin[t][j][2]
  BY <1>1, <1>2, <1>3, <1>4
<1> QED BY <1>1, <1>5 DEF Left, LeftStep

\* The output input j spends is there until it is spent.
LEMMA LeftHas ==
    ASSUME NEW c, NEW t \in Txids, NEW j \in 1..Len(Vin[t]), Has(c, t, j), Vin[t][j][1] # RandPay
    PROVE  /\ Vin[t][j][2] \in Left(c, t, j - 1, Vin[t][j][1])
           /\ Vin[t][j][2] \notin Left(c, t, j, Vin[t][j][1])
<1>1. /\ Len(Vin[t]) \in Nat /\ j \in Nat /\ Vin[t][j][1] \in Txids /\ Vin[t][j][2] \in Outs
      /\ Vin[t][j] = <<Vin[t][j][1], Vin[t][j][2]>>
      /\ \A k \in 1..Len(Vin[t]) : Vin[t][j] = Vin[t][k] => j = k
  BY InputFacts
<1>2. Vin[t][j][2] \notin Left(c, t, j, Vin[t][j][1])
  <2>1. j \in 1..j
    BY <1>1
  <2> QED BY <1>1, <2>1 DEF Left
<1>3. \A k \in 1..(j - 1) : k \in 1..Len(Vin[t]) /\ k # j
  BY <1>1
<1> QED BY <1>1, <1>2, <1>3 DEF Left, Has

\* All inputs spent: what Apply leaves of the transactions before.
LEMMA LeftAll ==
    ASSUME NEW c, NEW t \in Txids, NEW x \in Txids, x # t
    PROVE  Left(c, t, Len(Vin[t]), x) = Apply(c, t)[x]
<1>1. DOMAIN Vin[t] = 1..Len(Vin[t])
  BY InputFacts
<1>2. ASSUME NEW n \in Outs
      PROVE  <<x, n>> \in Range(Vin[t]) <=> \E j \in 1..Len(Vin[t]) : Vin[t][j] = <<x, n>>
  BY <1>1 DEF Range
<1> QED BY <1>2 DEF Left, Apply

(***************************************************************************)
(* What the coins say of the transactions that were applied.               *)
(***************************************************************************)

\* The transactions of the chain of a block, and up to transaction i of a block.
TxsBelow(h) == {t \in Txids : \E a \in Below[h] : \E k \in DOMAIN Vtx[a] : t = Vtx[a][k]}
TxsTo(b, i) == TxsBelow(Prev[b]) \cup {t \in Txids : \E k \in 1..i : t = Vtx[b][k]}

\* Only transactions of S have coins, and what one of S spends is spent.
Sound(c, S) ==
    /\ \A t \in Txids \ {RandPay} : t \notin S => c[t] = {}
    /\ \A t \in S : \A j \in 1..Len(Vin[t]) :
          Vin[t][j][1] # RandPay => Vin[t][j][1] \in S /\ Vin[t][j][2] \notin c[Vin[t][j][1]]

SoundAt(h) == Sound(Utxo[h], TxsBelow(h))

\* One transaction more.
LEMMA TxsFacts ==
    ASSUME NEW b \in Hashes
    PROVE  /\ TxsTo(b, 0) = TxsBelow(Prev[b]) /\ TxsTo(b, Len(Vtx[b])) = TxsBelow(b)
           /\ \A i \in 1..Len(Vtx[b]) : TxsTo(b, i) = TxsTo(b, i - 1) \cup {Vtx[b][i]}
<1>1. /\ Len(Vtx[b]) \in Nat /\ DOMAIN Vtx[b] = 1..Len(Vtx[b])
      /\ \A i \in 1..Len(Vtx[b]) : Vtx[b][i] \in Txids
  BY BlockFacts
<1>2. TxsTo(b, 0) = TxsBelow(Prev[b])
  BY DEF TxsTo
<1>3. b \in Below[b]
  BY CoinsAssumption DEF Below
<1>4. Below[b] = {b} \cup Below[Prev[b]]
  BY <1>3, BelowStep
<1>5. TxsTo(b, Len(Vtx[b])) = TxsBelow(b)
  BY <1>1, <1>4 DEF TxsTo, TxsBelow
<1>6. ASSUME NEW i \in 1..Len(Vtx[b]) PROVE TxsTo(b, i) = TxsTo(b, i - 1) \cup {Vtx[b][i]}
  <2>1. \A k \in 1..i : k = i \/ k \in 1..(i - 1)
    BY <1>1
  <2>2. i \in 1..i /\ \A k \in 1..(i - 1) : k \in 1..i
    BY <1>1
  <2> QED BY <1>1, <2>1, <2>2 DEF TxsTo
<1> QED BY <1>2, <1>5, <1>6

\* A transaction whose inputs are there has not been applied: what it spends would
\* be spent, or it has nothing to spend and occurs once.
LEMMA NotYet ==
    ASSUME OnceOnly, NEW b \in Hashes, NEW i \in 1..Len(Vtx[b]), NEW c,
           Sound(c, TxsTo(b, i - 1)), Present(c, Vtx[b][i])
    PROVE  Vtx[b][i] \notin TxsTo(b, i - 1) /\ c[Vtx[b][i]] = {}
<1> DEFINE t == Vtx[b][i]
<1>1. t \in Txids /\ t # RandPay /\ i \in DOMAIN Vtx[b] /\ Len(Vtx[b]) \in Nat
      /\ DOMAIN Vtx[b] = 1..Len(Vtx[b])
  BY BlockFacts
<1>2. DOMAIN Vin[t] = 1..Len(Vin[t])
  BY <1>1, InputFacts
<1>3. ASSUME t \in TxsTo(b, i - 1) PROVE FALSE
  <2>1. CASE \E j \in 1..Len(Vin[t]) : Vin[t][j][1] # RandPay
    BY <1>3, <2>1 DEF Sound, Present, Has
  <2>2. CASE \A j \in DOMAIN Vin[t] : Vin[t][j][1] = RandPay
    <3>1. /\ \A k \in DOMAIN Vtx[b] : Vtx[b][k] = t => k = i
          /\ \A a \in Below[Prev[b]] : \A k \in DOMAIN Vtx[a] : Vtx[a][k] # t
      BY <1>1, <2>2 DEF OnceOnly
    <3>2. \A k \in 1..(i - 1) : k \in DOMAIN Vtx[b] /\ k # i
      BY <1>1
    <3> QED BY <1>3, <3>1, <3>2 DEF TxsTo, TxsBelow
  <2> QED BY <1>2, <2>1, <2>2
<1> QED BY <1>1, <1>3 DEF Sound

\* A transaction is applied whose inputs are there.
LEMMA SoundNext ==
    ASSUME NEW t \in Txids, t # RandPay, NEW S, NEW c, S \subseteq Txids, t \notin S, Sound(c, S), Present(c, t)
    PROVE  Sound(Apply(c, t), S \cup {t})
<1>1. ASSUME NEW x \in Txids \ {RandPay}, x \notin S \cup {t} PROVE Apply(c, t)[x] = {}
  BY <1>1 DEF Apply, Sound
<1>2. ASSUME NEW u \in S \cup {t}, NEW j \in 1..Len(Vin[u]), Vin[u][j][1] # RandPay
      PROVE  Vin[u][j][1] \in S /\ Vin[u][j][2] \notin Apply(c, t)[Vin[u][j][1]]
  <2> DEFINE x == Vin[u][j][1]
             n == Vin[u][j][2]
  <2>1. x \in Txids /\ n \in Outs /\ Vin[u][j] = <<x, n>> /\ j \in DOMAIN Vin[u] /\ u \in Txids
    BY InputFacts
  <2>2. CASE u \in S
    <3>1. x \in S /\ n \notin c[x]
      BY <1>2, <2>2 DEF Sound
    <3> HIDE DEF x, n
    <3> QED BY <2>1, <3>1 DEF Apply, x, n
  <2>3. CASE u = t
    <3>1. n \in c[x]
      BY <1>2, <2>3 DEF Present, Has
    <3>2. x \in S
      BY <1>2, <2>1, <3>1 DEF Sound
    <3>3. <<x, n>> \in Range(Vin[t])
      BY <2>1, <2>3 DEF Range
    <3> QED BY <2>1, <3>2, <3>3 DEF Apply
  <2> QED BY <2>2, <2>3
<1> QED BY <1>1, <1>2 DEF Sound

(***************************************************************************)
(* A block worked through: what the view shows and what the undo data is.  *)
(***************************************************************************)

\* No output of x is lost.
Whole(x, l) == \A q \in l : q[1] # x

\* b is a, but for outputs of x that are lost.
Near(a, b, x, l) == a \subseteq b /\ \A n \in b \ a : <<x, n>> \in l

\* Nothing is missing where nothing is lost, and losing more keeps sets near.
LEMMA NearWhole ==
    ASSUME NEW a, NEW b, NEW x, NEW l, Near(a, b, x, l), Whole(x, l)
    PROVE  a = b
<1>1. ASSUME NEW n \in b \ a PROVE FALSE
  BY <1>1 DEF Near, Whole
<1> QED BY <1>1 DEF Near

LEMMA NearMore ==
    ASSUME NEW a, NEW b, NEW x, NEW l, NEW k, Near(a, b, x, l), l \subseteq k
    PROVE  Near(a, b, x, k)
BY DEF Near

\* u has the undo data of the first s inputs of transaction i: whether an output was
\* the last of its transaction to be spent.  l are the lost outpoints, throughout.
UndoRight(b, i, s, u, l) ==
    \A j \in 1..s : Vin[Vtx[b][i]][j][1] # RandPay =>
        /\ <<i, j>> \in DOMAIN u
        /\ Whole(Vin[Vtx[b][i]][j][1], l) =>
            (u[<<i, j>>] <=> Left(After(b, i - 1), Vtx[b][i], j, Vin[Vtx[b][i]][j][1]) = {})

\* Transaction i found its inputs and no outputs of its own, and u can undo it.
Done(b, i, u, l) ==
    /\ Present(After(b, i - 1), Vtx[b][i])
    /\ After(b, i - 1)[Vtx[b][i]] = {}
    /\ UndoRight(b, i, Len(Vin[Vtx[b][i]]), u, l)

\* All undo data in u can undo its block.
KnownUndo(u, l) ==
    \A b \in DOMAIN u : SoundAt(Prev[b]) /\ \A i \in 1..Len(Vtx[b]) : Done(b, i, u[b], l)

\* The view shows the coins c, except for lost ones and the randpay output.
ShowsCoins(vc, c, l) == \A x \in Txids \ {RandPay} : Near(vc[x], c[x], x, l)
ShowsLeft(vc, c, t, s, l) == \A x \in Txids \ {RandPay} : Near(vc[x], Left(c, t, s, x), x, l)

\* The inputs that are spent when operation op of a transaction with m inputs is next.
SpentBefore(op, m) == IF op <= m + 1 THEN 0 ELSE op - 1 - m

\* ConnectBlock at operation op of transaction i.
Connected(b, i, u, l) ==
    /\ \A k \in 1..(i - 1) : Done(b, k, u, l)
    /\ Sound(After(b, i - 1), TxsTo(b, i - 1))

ConnectAt(b, i, op, u, clean, vc, l) ==
    LET t == Vtx[b][i]
        m == Len(Vin[t])
    IN  /\ op > m + 1 => clean
        /\ clean => \A j \in 1..m : j < op => Has(After(b, i - 1), t, j)
        /\ ShowsLeft(vc, After(b, i - 1), t, SpentBefore(op, m), l)
        /\ UndoRight(b, i, SpentBefore(op, m), u, l)

\* A transaction is begun.
LEMMA ConnectFirst ==
    ASSUME NEW l, NEW b \in Hashes, NEW i \in 1..Len(Vtx[b]), NEW u, NEW vc, ShowsCoins(vc, After(b, i - 1), l)
    PROVE  ConnectAt(b, i, 1, u, TRUE, vc, l)
<1> DEFINE t == Vtx[b][i]
           m == Len(Vin[t])
<1>1. t \in Txids /\ m \in Nat
  BY BlockFacts, InputFacts
<1>2. SpentBefore(1, m) = 0
  BY <1>1 DEF SpentBefore
<1>3. ShowsLeft(vc, After(b, i - 1), t, 0, l)
  BY LeftNone DEF ShowsCoins, ShowsLeft
<1>4. UndoRight(b, i, 0, u, l)
  BY DEF UndoRight
<1> HIDE DEF m
<1>5. ~(1 > m + 1) /\ \A j \in 1..m : ~(j < 1)
  BY <1>1
<1> QED BY <1>2, <1>3, <1>4, <1>5 DEF ConnectAt, m

\* HaveInputs finds input op, or not.
LEMMA ConnectHave ==
    ASSUME NEW l, NEW b \in Hashes, NEW i \in 1..Len(Vtx[b]), NEW op \in 1..Len(Vin[Vtx[b][i]]), NEW u, NEW vc,
           ConnectAt(b, i, op, u, TRUE, vc, l)
    PROVE  ConnectAt(b, i, op + 1, u, Vin[Vtx[b][i]][op][2] \in vc[Vin[Vtx[b][i]][op][1]], vc, l)
<1> DEFINE t == Vtx[b][i]
           m == Len(Vin[t])
           c == After(b, i - 1)
           there == Vin[t][op][2] \in vc[Vin[t][op][1]]
<1>1. t \in Txids /\ m \in Nat
  BY BlockFacts, InputFacts
<1>2. SpentBefore(op, m) = 0 /\ SpentBefore(op + 1, m) = 0 /\ ~(op + 1 > m + 1)
  BY <1>1 DEF SpentBefore
<1>3. \A j \in 1..m : j < op + 1 => j < op \/ j = op
  BY <1>1
<1>4. there => Has(c, t, op)
  <2>1. Vin[t][op][1] \in Txids
    BY <1>1, InputFacts
  <2>2. ShowsLeft(vc, c, t, 0, l)
    BY <1>2 DEF ConnectAt
  <2>3. Vin[t][op][1] # RandPay => vc[Vin[t][op][1]] \subseteq c[Vin[t][op][1]]
    BY <2>1, <2>2, LeftNone DEF ShowsLeft, Near
  <2> QED BY <2>3 DEF Has
<1>5. \A j \in 1..m : j < op => Has(c, t, j)
  BY DEF ConnectAt
<1> HIDE DEF there
<1>6. ShowsLeft(vc, c, t, 0, l) /\ UndoRight(b, i, 0, u, l)
  BY <1>2 DEF ConnectAt
<1>7. there => \A j \in 1..m : j < op + 1 => Has(c, t, j)
  BY <1>3, <1>4, <1>5
<1>8. ConnectAt(b, i, op + 1, u, there, vc, l)
  <2> HIDE DEF c, t, m
  <2> QED BY <1>2, <1>6, <1>7 DEF ConnectAt, c, t, m
<1> QED BY <1>8 DEF there

\* UpdateCoins passes over the randpay output.
LEMMA ConnectSkip ==
    ASSUME NEW l, NEW b \in Hashes, NEW i \in 1..Len(Vtx[b]), NEW j \in 1..Len(Vin[Vtx[b][i]]), NEW u, NEW vc,
           ConnectAt(b, i, Len(Vin[Vtx[b][i]]) + j, u, TRUE, vc, l), Vin[Vtx[b][i]][j][1] = RandPay
    PROVE  ConnectAt(b, i, Len(Vin[Vtx[b][i]]) + j + 1, u, TRUE, vc, l)
<1> DEFINE t == Vtx[b][i]
           m == Len(Vin[t])
           c == After(b, i - 1)
<1>1. t \in Txids /\ m \in Nat /\ j \in Nat
  BY BlockFacts, InputFacts
<1>2. SpentBefore(m + j, m) = j - 1 /\ SpentBefore(m + j + 1, m) = j
  BY <1>1 DEF SpentBefore
<1>3. \A k \in 1..m : Has(c, t, k)
  <2>1. \A k \in 1..m : k < m + j
    BY <1>1
  <2> QED BY <2>1 DEF ConnectAt
<1>4. ShowsLeft(vc, c, t, j - 1, l) /\ UndoRight(b, i, j - 1, u, l)
  BY <1>2 DEF ConnectAt
<1>5. ShowsLeft(vc, c, t, j, l)
  <2>1. ASSUME NEW x \in Txids \ {RandPay} PROVE Left(c, t, j, x) = Left(c, t, j - 1, x)
    <3>1. x \in Txids /\ x # Vin[t][j][1] /\ j \in 1..Len(Vin[t])
      OBVIOUS
    <3> HIDE DEF c, t
    <3>2. LeftStep(c, t, j, x)
      BY <1>1, <3>1, LeftNext, Zenon
    <3> QED BY <3>1, <3>2 DEF LeftStep
  <2> QED BY <1>4, <2>1 DEF ShowsLeft
<1>6. UndoRight(b, i, j, u, l)
  <2>1. \A k \in 1..j : k = j \/ k \in 1..(j - 1)
    BY <1>1
  <2> QED BY <1>4, <2>1 DEF UndoRight
<1> HIDE DEF c, t, m
<1> QED BY <1>2, <1>3, <1>5, <1>6 DEF ConnectAt, c, t, m

\* v is u with the undo data of input j of transaction i.
Records(v, u, i, j, last) ==
    v = [q \in DOMAIN u \cup {<<i, j>>} |-> IF q = <<i, j>> THEN last ELSE u[q]]

\* UpdateCoins spends input j and records whether it was the last output.
LEMMA ConnectSpend ==
    ASSUME NEW l, NEW b \in Hashes, NEW i \in 1..Len(Vtx[b]), NEW j \in 1..Len(Vin[Vtx[b][i]]), NEW u, NEW v,
           NEW vc \in [Txids -> SUBSET Outs],
           ConnectAt(b, i, Len(Vin[Vtx[b][i]]) + j, u, TRUE, vc, l), Vin[Vtx[b][i]][j][1] # RandPay,
           NEW left, left = vc[Vin[Vtx[b][i]][j][1]] \ {Vin[Vtx[b][i]][j][2]},
           Records(v, u, i, j, left = {})
    PROVE  ConnectAt(b, i, Len(Vin[Vtx[b][i]]) + j + 1, v, TRUE,
                     [vc EXCEPT ![Vin[Vtx[b][i]][j][1]] = left], l)
<1> DEFINE t == Vtx[b][i]
           m == Len(Vin[t])
           c == After(b, i - 1)
           y == Vin[t][j][1]
<1>1. t \in Txids /\ m \in Nat /\ j \in Nat /\ y \in Txids
  BY BlockFacts, InputFacts
<1>2. SpentBefore(m + j, m) = j - 1 /\ SpentBefore(m + j + 1, m) = j
  BY <1>1 DEF SpentBefore
<1>3. \A k \in 1..m : Has(c, t, k)
  <2>1. \A k \in 1..m : k < m + j
    BY <1>1
  <2> QED BY <2>1 DEF ConnectAt
<1>4. ShowsLeft(vc, c, t, j - 1, l) /\ UndoRight(b, i, j - 1, u, l)
  BY <1>2 DEF ConnectAt
<1>5. Near(left, Left(c, t, j, y), y, l)
  <2>1. j \in 1..Len(Vin[t]) /\ left = vc[y] \ {Vin[t][j][2]}
    OBVIOUS
  <2>2. Near(vc[y], Left(c, t, j - 1, y), y, l)
    BY <1>1, <1>4 DEF ShowsLeft
  <2> HIDE DEF c, t
  <2>3. LeftStep(c, t, j, y)
    BY <1>1, <2>1, LeftNext, Zenon
  <2>4. Left(c, t, j, y) = Left(c, t, j - 1, y) \ {Vin[t][j][2]}
    BY <2>3 DEF LeftStep
  <2> HIDE DEF y
  <2> QED BY <2>1, <2>2, <2>4 DEF Near
<1>6. ShowsLeft([vc EXCEPT ![y] = left], c, t, j, l)
  <2>1. ASSUME NEW x \in Txids, x # y PROVE Left(c, t, j, x) = Left(c, t, j - 1, x)
    <3>1. x # Vin[t][j][1] /\ j \in 1..Len(Vin[t])
      BY <2>1
    <3> HIDE DEF c, t
    <3>2. LeftStep(c, t, j, x)
      BY <1>1, <3>1, LeftNext, Zenon
    <3> QED BY <3>1, <3>2 DEF LeftStep
  <2> HIDE DEF y
  <2> QED BY <1>1, <1>4, <1>5, <2>1 DEF ShowsLeft
<1>7. UndoRight(b, i, j, v, l)
  <2>1. ASSUME NEW k \in 1..(j - 1), Vin[t][k][1] # RandPay
        PROVE  /\ <<i, k>> \in DOMAIN v
               /\ Whole(Vin[t][k][1], l) => (v[<<i, k>>] <=> Left(c, t, k, Vin[t][k][1]) = {})
    <3>1. k # j
      BY <1>1
    <3>2. <<i, k>> # <<i, j>> /\ <<i, k>> \in DOMAIN u
      BY <1>4, <2>1, <3>1 DEF UndoRight
    <3>3. v[<<i, k>>] = u[<<i, k>>] /\ <<i, k>> \in DOMAIN v
      BY <3>2 DEF Records
    <3> QED BY <1>4, <2>1, <3>3 DEF UndoRight
  <2>2. /\ <<i, j>> \in DOMAIN v
        /\ Whole(y, l) => (v[<<i, j>>] <=> Left(c, t, j, y) = {})
    <3>1. Whole(y, l) => left = Left(c, t, j, y)
      <4> HIDE DEF c, t, y
      <4> QED BY <1>5, NearWhole, Zenon
    <3>2. <<i, j>> \in DOMAIN v /\ v[<<i, j>>] = (left = {})
      BY DEF Records
    <3> QED BY <3>1, <3>2, Zenon
  <2>3. \A k \in 1..j : k = j \/ k \in 1..(j - 1)
    BY <1>1
  <2> QED BY <2>1, <2>2, <2>3 DEF UndoRight
<1> HIDE DEF c, t, m, y
<1> QED BY <1>2, <1>3, <1>6, <1>7 DEF ConnectAt, c, t, m, y

\* The outputs of the transaction are added: there were none.
LEMMA ConnectAdd ==
    ASSUME NEW l, OnceOnly, NEW b \in Hashes, NEW i \in 1..Len(Vtx[b]), NEW u, NEW vc \in [Txids -> SUBSET Outs],
           Connected(b, i, u, l), ConnectAt(b, i, 2 * Len(Vin[Vtx[b][i]]) + 1, u, TRUE, vc, l)
    PROVE  /\ vc[Vtx[b][i]] = {}
           /\ Connected(b, i + 1, u, l)
           /\ ShowsCoins([vc EXCEPT ![Vtx[b][i]] = Vout[Vtx[b][i]]], After(b, i), l)
<1> DEFINE t == Vtx[b][i]
           m == Len(Vin[t])
           c == After(b, i - 1)
<1>1. t \in Txids /\ t # RandPay /\ m \in Nat /\ i \in Nat \ {0} /\ Len(Vtx[b]) \in Nat
  BY BlockFacts, InputFacts
<1>2. SpentBefore(2 * m + 1, m) = m
  BY <1>1 DEF SpentBefore
<1>3. Present(c, t)
  <2>1. \A k \in 1..m : k < 2 * m + 1
    BY <1>1
  <2> QED BY <2>1 DEF ConnectAt, Present
<1>4. ShowsLeft(vc, c, t, m, l) /\ UndoRight(b, i, m, u, l)
  BY <1>2 DEF ConnectAt
<1>5. t \notin TxsTo(b, i - 1) /\ c[t] = {}
  BY <1>3, NotYet DEF Connected
<1>6. vc[t] = {}
  <2>1. vc[t] \subseteq Left(c, t, m, t)
    BY <1>1, <1>4 DEF ShowsLeft, Near
  <2> QED BY <1>5, <2>1 DEF Left
<1>7. Done(b, i, u, l)
  BY <1>3, <1>4, <1>5 DEF Done
<1>8. After(b, i) = Apply(c, t)
  BY <1>1, AfterFacts
<1>9. TxsTo(b, i) = TxsTo(b, i - 1) \cup {t}
  BY TxsFacts
<1>10. Sound(After(b, i), TxsTo(b, i))
  <2>1. TxsTo(b, i - 1) \subseteq Txids
    BY DEF TxsTo, TxsBelow
  <2>2. Sound(c, TxsTo(b, i - 1))
    BY DEF Connected
  <2> HIDE DEF c, t
  <2> QED BY <1>1, <1>3, <1>5, <1>8, <1>9, <2>1, <2>2, SoundNext
<1>11. Connected(b, i + 1, u, l)
  <2>1. (i + 1) - 1 = i /\ \A k \in 1..i : k = i \/ k \in 1..(i - 1)
    BY <1>1
  <2>2. \A k \in 1..i : Done(b, k, u, l)
    BY <1>7, <2>1 DEF Connected
  <2> QED BY <1>10, <2>1, <2>2 DEF Connected
<1>12. ShowsCoins([vc EXCEPT ![t] = Vout[t]], After(b, i), l)
  <2>1. \A x \in Txids \ {RandPay} : x # t => Near(vc[x], Apply(c, t)[x], x, l)
    BY <1>1, <1>4, LeftAll DEF ShowsLeft
  <2>2. Near(Vout[t], Apply(c, t)[t], t, l)
    BY <1>1 DEF Apply, Near
  <2> HIDE DEF t, c
  <2> QED BY <1>1, <1>8, <2>1, <2>2 DEF ShowsCoins
<1> QED BY <1>6, <1>11, <1>12

\* DisconnectBlock, when operation op of transaction q is next.
DisconnectAt(b, q, op, vc, l) ==
    /\ op = 1 => ShowsCoins(vc, After(b, q), l)
    /\ op > 1 => ShowsLeft(vc, After(b, q - 1), Vtx[b][q], Len(Vin[Vtx[b][q]]) + 2 - op, l)

\* The outputs are the ones the transaction made, unless some are lost; they are
\* removed.
Removable(vc, b, q, l) ==
    LET t == Vtx[b][q]
    IN  (Whole(t, l) => vc[t] = Vout[t]) /\ ShowsLeft([vc EXCEPT ![t] = {}], After(b, q - 1), t, Len(Vin[t]), l)

LEMMA DisconnectRemove ==
    ASSUME NEW l, NEW b \in Hashes, NEW q \in 1..Len(Vtx[b]), NEW u, Done(b, q, u, l),
           NEW vc \in [Txids -> SUBSET Outs], ShowsCoins(vc, After(b, q), l)
    PROVE  Removable(vc, b, q, l)
<1> DEFINE t == Vtx[b][q]
           c == After(b, q - 1)
<1>1. t \in Txids /\ t # RandPay /\ q \in Nat \ {0}
  BY BlockFacts
<1>2. After(b, q) = Apply(c, t)
  BY <1>1, AfterFacts
<1>3. Whole(t, l) => vc[t] = Vout[t]
  <2>1. Near(vc[t], Vout[t], t, l)
    BY <1>1, <1>2 DEF ShowsCoins, Apply
  <2> QED BY <2>1, NearWhole
<1>4. \A x \in Txids \ {RandPay} : x # t => Near(vc[x], Left(c, t, Len(Vin[t]), x), x, l)
  BY <1>1, <1>2, LeftAll DEF ShowsCoins
<1>5. Near({}, Left(c, t, Len(Vin[t]), t), t, l)
  BY DEF Done, Left, Near
<1> HIDE DEF t, c
<1>6. ShowsLeft([vc EXCEPT ![t] = {}], c, t, Len(Vin[t]), l)
  BY <1>1, <1>4, <1>5 DEF ShowsLeft
<1> QED BY <1>3, <1>6 DEF Removable, t, c

\* ApplyTxInUndo passes over the randpay output.
LEMMA DisconnectSkip ==
    ASSUME NEW l, NEW c, NEW t \in Txids, NEW j \in 1..Len(Vin[t]), Vin[t][j][1] = RandPay, NEW vc,
           ShowsLeft(vc, c, t, j, l)
    PROVE  ShowsLeft(vc, c, t, j - 1, l)
<1>1. \A x \in Txids : LeftStep(c, t, j, x)
  BY LeftNext, Zenon
<1> QED BY <1>1 DEF ShowsLeft, LeftStep

\* ApplyTxInUndo has no complaint: the output is not there, and nothing of its
\* transaction is if it was the last to be spent, unless an output of it is lost.
Restorable(vc, b, q, j, u, l) ==
    LET t == Vtx[b][q]
        y == Vin[t][j][1]
        n == Vin[t][j][2]
    IN  /\ Whole(y, l) => (u[<<q, j>>] <=> vc[y] = {})
        /\ n \notin vc[y]
        /\ ShowsLeft([vc EXCEPT ![y] = vc[y] \cup {n}], After(b, q - 1), t, j - 1, l)

LEMMA DisconnectRestore ==
    ASSUME NEW l, NEW b \in Hashes, NEW q \in 1..Len(Vtx[b]), NEW u, Done(b, q, u, l),
           NEW j \in 1..Len(Vin[Vtx[b][q]]), Vin[Vtx[b][q]][j][1] # RandPay,
           NEW vc \in [Txids -> SUBSET Outs], ShowsLeft(vc, After(b, q - 1), Vtx[b][q], j, l)
    PROVE  Restorable(vc, b, q, j, u, l)
<1> DEFINE t == Vtx[b][q]
           c == After(b, q - 1)
           y == Vin[t][j][1]
           n == Vin[t][j][2]
<1>1. t \in Txids /\ y \in Txids /\ n \in Outs /\ y # RandPay
  BY BlockFacts, InputFacts
<1>2. Near(vc[y], Left(c, t, j, y), y, l)
  BY <1>1 DEF ShowsLeft
<1>3. Whole(y, l) => (u[<<q, j>>] <=> vc[y] = {})
  <2>1. Whole(y, l) => (u[<<q, j>>] <=> Left(c, t, j, y) = {})
    BY DEF Done, UndoRight
  <2>2. Whole(y, l) => vc[y] = Left(c, t, j, y)
    <3> HIDE DEF y, c, t
    <3> QED BY <1>2, NearWhole, Zenon
  <2> HIDE DEF y, c, t
  <2> QED BY <2>1, <2>2
<1>4. Has(c, t, j)
  BY DEF Done, Present
<1>5. n \in Left(c, t, j - 1, y) /\ n \notin Left(c, t, j, y)
  BY <1>1, <1>4, LeftHas
<1>6. \A x \in Txids : LeftStep(c, t, j, x)
  <2>1. j \in 1..Len(Vin[t])
    OBVIOUS
  <2> HIDE DEF t, c
  <2> QED BY <1>1, <2>1, LeftNext, Zenon
<1>7. ShowsLeft(vc, c, t, j, l)
  OBVIOUS
<1>8. Near(vc[y] \cup {n}, Left(c, t, j - 1, y), y, l)
  <2>1. Left(c, t, j, y) = Left(c, t, j - 1, y) \ {n}
    BY <1>1, <1>6 DEF LeftStep
  <2> HIDE DEF y, n, t, c
  <2> QED BY <1>2, <1>5, <2>1 DEF Near
<1>9. \A x \in Txids : x # y => Left(c, t, j, x) = Left(c, t, j - 1, x)
  BY <1>6 DEF LeftStep
<1> HIDE DEF t, c, y, n
<1>10. ShowsLeft([vc EXCEPT ![y] = vc[y] \cup {n}], c, t, j - 1, l)
  BY <1>1, <1>7, <1>8, <1>9 DEF ShowsLeft
<1>11. n \notin vc[y]
  BY <1>2, <1>5 DEF Near
<1> QED BY <1>3, <1>10, <1>11 DEF Restorable, t, c, y, n

\* The outpoints that t spends, but for the randpay output.
Spends(t) == {q \in Range(Vin[t]) : ~Skipped(q[1])}

\* Inputs that are not restored are lost.
LEMMA DisconnectLose ==
    ASSUME NEW l, NEW c, NEW t \in Txids, NEW vc, ShowsLeft(vc, c, t, Len(Vin[t]), l)
    PROVE  ShowsLeft(vc, c, t, 0, l \cup Spends(t))
<1>1. ASSUME NEW x \in Txids \ {RandPay}
      PROVE  Near(vc[x], c[x], x, l \cup Spends(t))
  <2>1. Near(vc[x], Left(c, t, Len(Vin[t]), x), x, l)
    BY DEF ShowsLeft
  <2>2. ASSUME NEW n \in c[x] \ vc[x] PROVE <<x, n>> \in l \cup Spends(t)
    <3>1. CASE n \in Left(c, t, Len(Vin[t]), x)
      BY <2>1, <2>2, <3>1 DEF Near
    <3>2. CASE n \notin Left(c, t, Len(Vin[t]), x)
      <4>1. PICK j \in 1..Len(Vin[t]) : Vin[t][j] = <<x, n>>
        BY <2>2, <3>2 DEF Left
      <4>2. <<x, n>> \in Range(Vin[t])
        BY <4>1, InputFacts DEF Range
      <4>3. <<x, n>>[1] = x
        OBVIOUS
      <4> QED BY <1>1, <4>2, <4>3 DEF Spends, Skipped
    <3> QED BY <3>1, <3>2
  <2>3. vc[x] \subseteq c[x]
    BY <2>1 DEF Near, Left
  <2> QED BY <2>2, <2>3 DEF Near
<1> QED BY <1>1, LeftNone DEF ShowsLeft

\* What is known stays known when more is lost.
LEMMA LoseMore ==
    ASSUME NEW l, NEW k, l \subseteq k
    PROVE  /\ \A u : KnownUndo(u, l) => KnownUndo(u, k)
           /\ \A vc, c : ShowsCoins(vc, c, l) => ShowsCoins(vc, c, k)
           /\ \A vc, c, t, s : ShowsLeft(vc, c, t, s, l) => ShowsLeft(vc, c, t, s, k)
<1>1. ASSUME NEW b, NEW i, NEW u, Done(b, i, u, l) PROVE Done(b, i, u, k)
  <2>1. \A x : Whole(x, k) => Whole(x, l)
    BY DEF Whole
  <2>2. UndoRight(b, i, Len(Vin[Vtx[b][i]]), u, k)
    BY <1>1, <2>1 DEF Done, UndoRight
  <2> QED BY <1>1, <2>2 DEF Done
<1>2. \A a, c, x : Near(a, c, x, l) => Near(a, c, x, k)
  BY NearMore
<1>3. \A u : KnownUndo(u, l) => KnownUndo(u, k)
  BY <1>1 DEF KnownUndo
<1>4. \A vc, c : ShowsCoins(vc, c, l) => ShowsCoins(vc, c, k)
  BY <1>2 DEF ShowsCoins
<1>5. \A vc, c, t, s : ShowsLeft(vc, c, t, s, l) => ShowsLeft(vc, c, t, s, k)
  BY <1>2 DEF ShowsLeft
<1> QED BY <1>3, <1>4, <1>5

\* The block is done: the coins are the ones after it, and what they say is sound.
LEMMA ConnectedAll ==
    ASSUME NEW l, NEW b \in Hashes, NEW u, Connected(b, Len(Vtx[b]) + 1, u, l)
    PROVE  SoundAt(b) /\ \A k \in 1..Len(Vtx[b]) : Done(b, k, u, l)
<1>1. Len(Vtx[b]) \in Nat
  BY BlockFacts
<1>2. (Len(Vtx[b]) + 1) - 1 = Len(Vtx[b])
  BY <1>1
<1>3. Sound(After(b, Len(Vtx[b])), TxsTo(b, Len(Vtx[b])))
  BY <1>2 DEF Connected
<1>4. After(b, Len(Vtx[b])) = Utxo[b] /\ TxsTo(b, Len(Vtx[b])) = TxsBelow(b)
  BY AfterFacts, TxsFacts
<1> QED BY <1>2, <1>3, <1>4 DEF Connected, SoundAt

\* A block is begun.
LEMMA ConnectedFirst ==
    ASSUME NEW l, NEW b \in Hashes, NEW u, SoundAt(Prev[b])
    PROVE  Connected(b, 1, u, l) /\ After(b, 0) = Utxo[Prev[b]]
<1>1. After(b, 0) = Utxo[Prev[b]] /\ TxsTo(b, 0) = TxsBelow(Prev[b])
  BY AfterFacts, TxsFacts
<1> QED BY <1>1 DEF Connected, SoundAt

(***************************************************************************)
(* The operations of a transaction.                                        *)
(***************************************************************************)

\* r is p and then q.
Joins(r, p, q) ==
    /\ Len(r) = Len(p) + Len(q)
    /\ \A j \in 1..Len(p) : r[j] = p[j]
    /\ \A j \in 1..Len(q) : r[Len(p) + j] = q[j]

\* The concatenation of two sequences.
LEMMA Joined ==
    ASSUME NEW R, NEW p \in Seq(R), NEW q \in Seq(R)
    PROVE  p \o q \in Seq(R) /\ Joins(p \o q, p, q)
BY DEF Joins

\* ConnectBlock: the inputs are looked up, then spent, then the outputs are added.
LEMMA ConnectOpsFacts ==
    ASSUME NEW t \in Txids
    PROVE  /\ Len(ConnectOps(t)) = 2 * Len(Vin[t]) + 1
           /\ \A j \in 1..Len(Vin[t]) :
                /\ ConnectOps(t)[j] = Op("have", Vin[t][j][1], Vin[t][j][2], j)
                /\ ConnectOps(t)[Len(Vin[t]) + j] = Op("spend", Vin[t][j][1], Vin[t][j][2], j)
           /\ ConnectOps(t)[2 * Len(Vin[t]) + 1] = Op("add", t, 0, 0)
<1> DEFINE m == Len(Vin[t])
           H == OpsOn("have", Vin[t])
           S == OpsOn("spend", Vin[t])
           A == <<Op("add", t, 0, 0)>>
           R == {Op("have", Vin[t][j][1], Vin[t][j][2], j) : j \in 1..m}
                \cup {Op("spend", Vin[t][j][1], Vin[t][j][2], j) : j \in 1..m} \cup {Op("add", t, 0, 0)}
<1>1. m \in Nat
  BY InputFacts
<1>2. H \in Seq(R) /\ Len(H) = m /\ \A j \in 1..m : H[j] = Op("have", Vin[t][j][1], Vin[t][j][2], j)
  BY <1>1 DEF OpsOn
<1>3. S \in Seq(R) /\ Len(S) = m /\ \A j \in 1..m : S[j] = Op("spend", Vin[t][j][1], Vin[t][j][2], j)
  BY <1>1 DEF OpsOn
<1>4. A \in Seq(R) /\ Len(A) = 1 /\ A[1] = Op("add", t, 0, 0)
  OBVIOUS
<1>5. ConnectOps(t) = (H \o S) \o A
  BY DEF ConnectOps
<1> HIDE DEF H, S, A, R, m
<1> DEFINE HS == H \o S
<1>6. /\ HS \in Seq(R) /\ Len(HS) = 2 * m
      /\ \A j \in 1..m : HS[j] = H[j] /\ HS[m + j] = S[j]
  <2>1. HS \in Seq(R) /\ Joins(HS, H, S)
    BY <1>2, <1>3, Joined, Zenon
  <2> HIDE DEF HS
  <2> QED BY <1>1, <1>2, <1>3, <2>1 DEF Joins
<1> HIDE DEF HS
<1>7. /\ Len(HS \o A) = 2 * m + 1
      /\ \A j \in 1..(2 * m) : (HS \o A)[j] = HS[j]
      /\ (HS \o A)[2 * m + 1] = A[1]
  <2> DEFINE C == HS \o A
  <2>1. Joins(C, HS, A)
    BY <1>4, <1>6, Joined, Zenon
  <2> HIDE DEF C
  <2>2. Len(C) = 2 * m + 1 /\ C[2 * m + 1] = A[1] /\ \A j \in 1..(2 * m) : C[j] = HS[j]
    BY <1>1, <1>4, <1>6, <2>1 DEF Joins
  <2> QED BY <2>2 DEF C
<1>8. \A j \in 1..m : j \in 1..(2 * m) /\ m + j \in 1..(2 * m)
  BY <1>1
<1> QED BY <1>2, <1>3, <1>4, <1>5, <1>6, <1>7, <1>8 DEF m, HS

\* DisconnectBlock: the outputs are removed, the inputs restored from the last.
Undoes(ops, t) ==
    /\ Len(ops) = Len(Vin[t]) + 1
    /\ ops[1] = Op("remove", t, 0, 0)
    /\ \A op \in 2..(Len(Vin[t]) + 1) :
        LET j == Len(Vin[t]) + 2 - op
        IN  ops[op] = Op("restore", Vin[t][j][1], Vin[t][j][2], j)

LEMMA UndoingOps ==
    ASSUME NEW t \in Txids
    PROVE  Undoes(<<Op("remove", t, 0, 0)>> \o Reverse(OpsOn("restore", Vin[t])), t)
<1> DEFINE m == Len(Vin[t])
           S == OpsOn("restore", Vin[t])
           B == Reverse(S)
           A == <<Op("remove", t, 0, 0)>>
           R == {Op("restore", Vin[t][j][1], Vin[t][j][2], j) : j \in 1..m} \cup {Op("remove", t, 0, 0)}
<1>1. m \in Nat
  BY InputFacts
<1>2. S \in Seq(R) /\ Len(S) = m /\ \A j \in 1..m : S[j] = Op("restore", Vin[t][j][1], Vin[t][j][2], j)
  BY <1>1 DEF OpsOn
<1>3. B \in Seq(R) /\ Len(B) = m /\ \A j \in 1..m : B[j] = S[m - j + 1]
  <2> HIDE DEF S, R, m
  <2>1. B = [j \in 1..m |-> S[(m - j) + 1]]
    BY <1>2 DEF Reverse
  <2>2. \A j \in 1..m : (m - j) + 1 \in 1..m
    BY <1>1
  <2> HIDE DEF B
  <2> QED BY <1>1, <1>2, <2>1, <2>2
<1>4. A \in Seq(R) /\ Len(A) = 1 /\ A[1] = Op("remove", t, 0, 0)
  OBVIOUS
<1> HIDE DEF S, A, R, B, m
<1>6. Len(A \o B) = m + 1 /\ (A \o B)[1] = A[1] /\ \A op \in 2..(m + 1) : (A \o B)[op] = B[op - 1]
  <2> DEFINE C == A \o B
  <2>1. Joins(C, A, B)
    BY <1>3, <1>4, Joined, Zenon
  <2>2. \A op \in 2..(m + 1) : op - 1 \in 1..m /\ 1 + (op - 1) = op
    BY <1>1
  <2> HIDE DEF C
  <2>3. Len(C) = m + 1 /\ C[1] = A[1] /\ \A op \in 2..(m + 1) : C[op] = B[op - 1]
    BY <1>1, <1>3, <1>4, <2>1, <2>2 DEF Joins
  <2> QED BY <2>3 DEF C
<1>7. ASSUME NEW op \in 2..(m + 1) PROVE (A \o B)[op] = S[m + 2 - op] /\ m + 2 - op \in 1..m
  <2>1. op - 1 \in 1..m /\ m - (op - 1) + 1 = m + 2 - op /\ m + 2 - op \in 1..m
    BY <1>1
  <2> QED BY <1>3, <1>6, <2>1
<1>8. Undoes(A \o B, t)
  BY <1>2, <1>4, <1>6, <1>7 DEF Undoes, m
<1> QED BY <1>8 DEF A, B, S

\* At a coinbase's place the outputs are only removed.
LEMMA DisconnectOpsFacts ==
    ASSUME NEW b \in Hashes, NEW i \in 1..Len(Vtx[b])
    PROVE  /\ RestoresInputs(b, i) => Undoes(DisconnectOps(b, i), Vtx[b][i])
           /\ ~RestoresInputs(b, i) => /\ Len(DisconnectOps(b, i)) = 1
                                       /\ DisconnectOps(b, i)[1] = Op("remove", Vtx[b][i], 0, 0)
<1>1. Vtx[b][i] \in Txids
  BY BlockFacts
<1>2. CASE RestoresInputs(b, i)
  <2>1. DisconnectOps(b, i) = <<Op("remove", Vtx[b][i], 0, 0)>> \o Reverse(OpsOn("restore", Vin[Vtx[b][i]]))
    BY <1>2, Zenon DEF DisconnectOps
  <2> QED BY <1>1, <1>2, <2>1, UndoingOps, Zenon
<1>3. CASE ~RestoresInputs(b, i)
  <2>1. DisconnectOps(b, i) = <<Op("remove", Vtx[b][i], 0, 0)>> \o <<>>
    BY <1>3, Zenon DEF DisconnectOps
  <2> QED BY <1>3, <2>1
<1> QED BY <1>2, <1>3

(***************************************************************************)
(* The job: where it is, and that it does what the block says.             *)
(***************************************************************************)

\* The transaction in work, and its number of operations.
TxOf(j) == Vtx[j.block][Place(j.kind, j.block, j.i)]
NumOps(j) ==
    IF j.kind = "connect" THEN 2 * Len(Vin[TxOf(j)]) + 1
    ELSE IF RestoresInputs(j.block, Place(j.kind, j.block, j.i)) THEN Len(Vin[TxOf(j)]) + 1 ELSE 1

\* The fields of a job.
JobType(j) ==
    /\ DOMAIN j = {"kind", "block", "i", "op", "spent", "clean"}
    /\ j.kind \in {"connect", "disconnect"} /\ j.block \in Hashes
    /\ j.i \in 1..(Len(Vtx[j.block]) + 1) /\ j.clean \in BOOLEAN
    /\ j.i > Len(Vtx[j.block]) => j.op = 1
    /\ j.i <= Len(Vtx[j.block]) => j.op \in 1..NumOps(j)

\* A job of ConnectBlock has done what the block says up to its operation.
ConnectRight(j, vc, l) ==
    /\ Connected(j.block, j.i, j.spent, l)
    /\ j.i > Len(Vtx[j.block]) => ShowsCoins(vc, After(j.block, Len(Vtx[j.block])), l)
    /\ j.i <= Len(Vtx[j.block]) => ConnectAt(j.block, j.i, j.op, j.spent, j.clean, vc, l)

\* A transaction of b, or one that b spends from, has a lost output.
MarredBy(b, l) == \E q \in l : \E i \in DOMAIN Vtx[b] :
    q[1] = Vtx[b][i] \/ \E j \in DOMAIN Vin[Vtx[b][i]] : q[1] = Vin[Vtx[b][i]][j][1]

\* A job of DisconnectBlock has undone it, or complained of a lost output.
DisconnectRight(j, vc, u, l) ==
    /\ j.block \in DOMAIN u /\ Prev[j.block] # NullHash /\ (j.clean \/ MarredBy(j.block, l))
    /\ j.clean => DisconnectAt(j.block, Len(Vtx[j.block]) + 1 - j.i, j.op, vc, l)

\* What is known of a job, the coins vc its view shows and the undo data u.
JobRight(j, vc, u, l) ==
    /\ j.kind = "connect" => ConnectRight(j, vc, l)
    /\ j.kind = "disconnect" => DisconnectRight(j, vc, u, l)

\* A transaction is in work.
LEMMA WorkFacts ==
    ASSUME JobType(job), ~Finished
    PROVE  /\ Len(Vtx[job.block]) \in Nat /\ job.i \in 1..Len(Vtx[job.block])
           /\ InWork \in 1..Len(Vtx[job.block])
           /\ job.kind = "connect" => InWork = job.i
           /\ job.kind = "disconnect" => InWork = Len(Vtx[job.block]) + 1 - job.i
           /\ TxOf(job) = Vtx[job.block][InWork] /\ TxOf(job) \in Txids /\ TxOf(job) # RandPay
           /\ Len(Vin[TxOf(job)]) \in Nat /\ Len(Ops) = NumOps(job) /\ job.op \in 1..NumOps(job)
<1>1. job.block \in Hashes /\ Len(Vtx[job.block]) \in Nat
  BY BlockFacts DEF JobType
<1>2. job.i \in 1..Len(Vtx[job.block]) /\ job.op \in 1..NumOps(job)
  BY <1>1 DEF JobType, Finished
<1>3. InWork = Place(job.kind, job.block, job.i) /\ TxOf(job) = Vtx[job.block][InWork]
  BY DEF InWork, TxOf
<1>4. /\ InWork \in 1..Len(Vtx[job.block])
      /\ job.kind = "connect" => InWork = job.i
      /\ job.kind = "disconnect" => InWork = Len(Vtx[job.block]) + 1 - job.i
  BY <1>1, <1>2, <1>3 DEF Place
<1>5. TxOf(job) \in Txids /\ TxOf(job) # RandPay
  BY <1>1, <1>3, <1>4, BlockFacts
<1>6. Len(Vin[TxOf(job)]) \in Nat
  BY <1>5, InputFacts
<1>7. Len(Ops) = NumOps(job)
  <2>1. CASE job.kind = "connect"
    BY <1>3, <1>5, <2>1, ConnectOpsFacts DEF Ops, NumOps
  <2>2. CASE job.kind # "connect"
    <3>1. Ops = DisconnectOps(job.block, InWork)
      BY <2>2 DEF Ops
    <3>2. RestoresInputs(job.block, InWork) => Len(DisconnectOps(job.block, InWork)) = Len(Vin[TxOf(job)]) + 1
      BY <1>1, <1>3, <1>4, DisconnectOpsFacts DEF Undoes
    <3>3. ~RestoresInputs(job.block, InWork) => Len(DisconnectOps(job.block, InWork)) = 1
      BY <1>1, <1>4, DisconnectOpsFacts
    <3> QED BY <1>3, <2>2, <3>1, <3>2, <3>3 DEF NumOps
  <2> QED BY <2>1, <2>2
<1> QED BY <1>1, <1>2, <1>3, <1>4, <1>5, <1>6, <1>7

\* The operation ConnectBlock is at.
LEMMA NowConnect ==
    ASSUME JobType(job), ~Finished, job.kind = "connect"
    PROVE  LET t == TxOf(job)
               m == Len(Vin[t])
           IN  \/ job.op \in 1..m /\ Now = Op("have", Vin[t][job.op][1], Vin[t][job.op][2], job.op)
               \/ \E j \in 1..m : job.op = m + j /\ Now = Op("spend", Vin[t][j][1], Vin[t][j][2], j)
               \/ job.op = 2 * m + 1 /\ Now = Op("add", t, 0, 0)
<1> DEFINE t == TxOf(job)
           m == Len(Vin[t])
<1>1. t \in Txids /\ m \in Nat /\ job.op \in 1..(2 * m + 1) /\ Now = ConnectOps(t)[job.op]
  BY WorkFacts DEF NumOps, Now, Ops
<1>2. /\ \A j \in 1..m : /\ ConnectOps(t)[j] = Op("have", Vin[t][j][1], Vin[t][j][2], j)
                         /\ ConnectOps(t)[m + j] = Op("spend", Vin[t][j][1], Vin[t][j][2], j)
      /\ ConnectOps(t)[2 * m + 1] = Op("add", t, 0, 0)
  BY <1>1, ConnectOpsFacts
<1>3. CASE job.op \in 1..m
  BY <1>1, <1>2, <1>3
<1>4. CASE job.op = 2 * m + 1
  BY <1>1, <1>2, <1>4
<1>5. CASE job.op \in (m + 1)..(2 * m)
  <2>1. job.op - m \in 1..m /\ m + (job.op - m) = job.op
    BY <1>1, <1>5
  <2> DEFINE j == job.op - m
  <2>2. j \in 1..m /\ job.op = m + j
    BY <2>1, <1>1
  <2> HIDE DEF j, t, m
  <2>3. Now = Op("spend", Vin[t][j][1], Vin[t][j][2], j)
    BY <1>1, <1>2, <2>2
  <2> QED BY <2>2, <2>3 DEF t, m
<1>6. job.op \in 1..m \/ job.op = 2 * m + 1 \/ job.op \in (m + 1)..(2 * m)
  BY <1>1
<1> QED BY <1>3, <1>4, <1>5, <1>6

\* The operation DisconnectBlock is at.
LEMMA NowDisconnect ==
    ASSUME JobType(job), ~Finished, job.kind = "disconnect"
    PROVE  LET t == TxOf(job)
               m == Len(Vin[t])
           IN  \/ job.op = 1 /\ Now = Op("remove", t, 0, 0)
               \/ /\ RestoresInputs(job.block, InWork)
                  /\ \E j \in 1..m : job.op = m + 2 - j /\ Now = Op("restore", Vin[t][j][1], Vin[t][j][2], j)
<1> DEFINE t == TxOf(job)
           m == Len(Vin[t])
           ops == DisconnectOps(job.block, InWork)
           some == RestoresInputs(job.block, InWork)
<1>1. /\ t \in Txids /\ m \in Nat /\ t = Vtx[job.block][InWork] /\ Now = ops[job.op]
      /\ job.block \in Hashes /\ InWork \in 1..Len(Vtx[job.block])
  BY WorkFacts DEF Now, Ops, JobType
<1>2. job.op \in 1..(IF some THEN m + 1 ELSE 1)
  <2>1. NumOps(job) = IF some THEN m + 1 ELSE 1
    BY DEF NumOps, InWork
  <2> QED BY <2>1, WorkFacts
<1>3. some => Undoes(ops, t)
  BY <1>1, DisconnectOpsFacts, Zenon
<1>4. ~some => ops[1] = Op("remove", t, 0, 0)
  BY <1>1, DisconnectOpsFacts, Zenon
<1> HIDE DEF ops, some, t, m
<1>5. CASE job.op = 1
  <2>1. ops[1] = Op("remove", t, 0, 0)
    BY <1>3, <1>4 DEF Undoes
  <2> QED BY <1>1, <1>5, <2>1 DEF t, m
<1>6. CASE job.op # 1
  <2> DEFINE j == m + 2 - job.op
  <2>1. some /\ job.op \in 2..(m + 1)
    BY <1>1, <1>2, <1>6
  <2>2. j \in 1..m /\ job.op = m + 2 - j
    BY <1>1, <2>1
  <2>3. Now = Op("restore", Vin[t][j][1], Vin[t][j][2], j)
    BY <1>1, <1>3, <2>1 DEF Undoes, m
  <2> HIDE DEF j
  <2> QED BY <2>1, <2>2, <2>3 DEF t, m, some
<1> QED BY <1>5, <1>6

\* The fields of an operation.
LEMMA OpFields ==
    ASSUME NEW name, NEW x, NEW n, NEW j
    PROVE  Op(name, x, n, j).op = name /\ Op(name, x, n, j).tx = x
           /\ Op(name, x, n, j).n = n /\ Op(name, x, n, j).in = j
BY DEF Op

\* An operation is done on a transaction in work.
LEMMA NotFinished ==
    ASSUME NEW name, Doing(name)
    PROVE  job # NoJob /\ ~Finished /\ Now.op = name
BY DEF Doing

\* What is done tells where the job is.
LEMMA DoingHave ==
    ASSUME JobType(job), Doing("have")
    PROVE  LET t == TxOf(job) IN
           /\ job.kind = "connect" /\ job.op \in 1..Len(Vin[t])
           /\ Now.tx = Vin[t][job.op][1] /\ Now.n = Vin[t][job.op][2]
<1>1. ~Finished /\ Now.op = "have"
  BY NotFinished
<1>2. job.kind \in {"connect", "disconnect"}
  BY DEF JobType
<1>3. job.kind # "disconnect"
  BY <1>1, NowDisconnect, OpFields
<1> QED BY <1>1, <1>2, <1>3, NowConnect, OpFields

LEMMA DoingSpend ==
    ASSUME JobType(job), Doing("spend")
    PROVE  LET t == TxOf(job) IN
           /\ job.kind = "connect"
           /\ Now.in \in 1..Len(Vin[t]) /\ job.op = Len(Vin[t]) + Now.in
           /\ Now.tx = Vin[t][Now.in][1] /\ Now.n = Vin[t][Now.in][2]
<1>1. ~Finished /\ Now.op = "spend"
  BY NotFinished
<1>2. job.kind \in {"connect", "disconnect"}
  BY DEF JobType
<1>3. job.kind # "disconnect"
  BY <1>1, NowDisconnect, OpFields
<1> QED BY <1>1, <1>2, <1>3, NowConnect, OpFields

LEMMA DoingAdd ==
    ASSUME JobType(job), Doing("add")
    PROVE  LET t == TxOf(job) IN
           /\ job.kind = "connect" /\ job.op = 2 * Len(Vin[t]) + 1 /\ Now.tx = t
<1>1. ~Finished /\ Now.op = "add"
  BY NotFinished
<1>2. job.kind \in {"connect", "disconnect"}
  BY DEF JobType
<1>3. job.kind # "disconnect"
  BY <1>1, NowDisconnect, OpFields
<1> QED BY <1>1, <1>2, <1>3, NowConnect, OpFields

LEMMA DoingRemove ==
    ASSUME JobType(job), Doing("remove")
    PROVE  job.kind = "disconnect" /\ job.op = 1 /\ Now.tx = TxOf(job)
<1>1. ~Finished /\ Now.op = "remove"
  BY NotFinished
<1>2. job.kind \in {"connect", "disconnect"}
  BY DEF JobType
<1>3. job.kind # "connect"
  BY <1>1, NowConnect, OpFields
<1> QED BY <1>1, <1>2, <1>3, NowDisconnect, OpFields

LEMMA DoingRestore ==
    ASSUME JobType(job), Doing("restore")
    PROVE  LET t == TxOf(job) IN
           /\ job.kind = "disconnect" /\ RestoresInputs(job.block, InWork)
           /\ Now.in \in 1..Len(Vin[t]) /\ job.op = Len(Vin[t]) + 2 - Now.in
           /\ Now.tx = Vin[t][Now.in][1] /\ Now.n = Vin[t][Now.in][2]
<1>1. ~Finished /\ Now.op = "restore"
  BY NotFinished
<1>2. job.kind \in {"connect", "disconnect"}
  BY DEF JobType
<1>3. job.kind # "connect"
  BY <1>1, NowConnect, OpFields
<1> QED BY <1>1, <1>2, <1>3, NowDisconnect, OpFields

\* k is j after one operation.
Moved(j, k) ==
    /\ DOMAIN k = DOMAIN j /\ k.kind = j.kind /\ k.block = j.block
    /\ j.op = NumOps(j) => k.i = j.i + 1 /\ k.op = 1
    /\ j.op # NumOps(j) => k.i = j.i /\ k.op = j.op + 1

\* What is left of a job after an operation.
LEMMA AdvanceFields ==
    ASSUME JobType(job), ~Finished
    PROVE  /\ Moved(job, Advance) /\ Advance.spent = job.spent /\ Advance.clean = job.clean
           /\ \A c : /\ Moved(job, [Advance EXCEPT !.clean = c])
                     /\ [Advance EXCEPT !.clean = c].spent = job.spent
                     /\ [Advance EXCEPT !.clean = c].clean = c
           /\ \A s : /\ Moved(job, [Advance EXCEPT !.spent = s])
                     /\ [Advance EXCEPT !.spent = s].spent = s
                     /\ [Advance EXCEPT !.spent = s].clean = job.clean
<1>1. DOMAIN job = {"kind", "block", "i", "op", "spent", "clean"} /\ Len(Ops) = NumOps(job)
  BY WorkFacts DEF JobType
<1>2. /\ DOMAIN Advance = {"kind", "block", "i", "op", "spent", "clean"}
      /\ Advance.kind = job.kind /\ Advance.block = job.block
      /\ Advance.spent = job.spent /\ Advance.clean = job.clean
      /\ job.op = NumOps(job) => Advance.i = job.i + 1 /\ Advance.op = 1
      /\ job.op # NumOps(job) => Advance.i = job.i /\ Advance.op = job.op + 1
  BY <1>1 DEF Advance
<1>3. Moved(job, Advance)
  BY <1>1, <1>2 DEF Moved
<1> HIDE DEF Advance
<1>4. ASSUME NEW c
      PROVE  /\ Moved(job, [Advance EXCEPT !.clean = c])
             /\ [Advance EXCEPT !.clean = c].spent = job.spent
             /\ [Advance EXCEPT !.clean = c].clean = c
  BY <1>1, <1>2 DEF Moved
<1>5. ASSUME NEW s
      PROVE  /\ Moved(job, [Advance EXCEPT !.spent = s])
             /\ [Advance EXCEPT !.spent = s].spent = s
             /\ [Advance EXCEPT !.spent = s].clean = job.clean
  BY <1>1, <1>2 DEF Moved
<1> QED BY <1>2, <1>3, <1>4, <1>5

\* Every transaction has an operation.
LEMMA OpsAtLeastOne ==
    ASSUME NEW j, j.kind \in {"connect", "disconnect"}, j.block \in Hashes, j.i \in 1..Len(Vtx[j.block])
    PROVE  NumOps(j) \in Nat \ {0}
<1>1. Len(Vtx[j.block]) \in Nat
  BY BlockFacts
<1>2. Place(j.kind, j.block, j.i) \in 1..Len(Vtx[j.block])
  BY <1>1 DEF Place
<1>3. Len(Vin[TxOf(j)]) \in Nat
  BY <1>2, BlockFacts, InputFacts DEF TxOf
<1> QED BY <1>3 DEF NumOps

\* An operation leaves a job.
LEMMA MovedType ==
    ASSUME NEW j, NEW k, JobType(j), j.i <= Len(Vtx[j.block]), Moved(j, k), k.clean \in BOOLEAN
    PROVE  JobType(k)
<1>1. /\ DOMAIN k = {"kind", "block", "i", "op", "spent", "clean"}
      /\ k.kind = j.kind /\ k.block = j.block /\ k.kind \in {"connect", "disconnect"} /\ k.block \in Hashes
      /\ j.op \in 1..NumOps(j)
  BY DEF Moved, JobType
<1>2. Len(Vtx[j.block]) \in Nat /\ j.i \in 1..Len(Vtx[j.block])
  BY BlockFacts DEF JobType
<1>3. CASE j.op = NumOps(j)
  <2>1. k.i = j.i + 1 /\ k.op = 1
    BY <1>3 DEF Moved
  <2>2. k.i \in 1..(Len(Vtx[k.block]) + 1)
    BY <1>1, <1>2, <2>1
  <2>3. ASSUME k.i <= Len(Vtx[k.block]) PROVE k.op \in 1..NumOps(k)
    <3>1. k.i \in 1..Len(Vtx[k.block])
      BY <1>1, <1>2, <2>2, <2>3
    <3>2. NumOps(k) \in Nat \ {0}
      BY <1>1, <3>1, OpsAtLeastOne
    <3> QED BY <2>1, <3>2
  <2> QED BY <1>1, <2>1, <2>2, <2>3 DEF JobType
<1>4. CASE j.op # NumOps(j)
  <2>1. k.i = j.i /\ k.op = j.op + 1
    BY <1>4 DEF Moved
  <2>2. NumOps(k) = NumOps(j)
    BY <1>1, <2>1 DEF NumOps, TxOf
  <2>3. NumOps(j) \in Nat \ {0}
    BY <1>1, <1>2, OpsAtLeastOne
  <2>4. k.op \in 1..NumOps(k)
    BY <1>1, <1>4, <2>1, <2>2, <2>3
  <2> QED BY <1>1, <1>2, <2>1, <2>4 DEF JobType
<1> QED BY <1>3, <1>4

(***************************************************************************)
(* The inductive invariant for the coins.                                  *)
(***************************************************************************)

\* pcoinsTip and the database represent the blocks they are at, and only
\* transactions below those have coins.
CoinsRight ==
    /\ flush = "fine" =>
        /\ ShowsCoins(TipCoins, Utxo[TipBest], lost) /\ SoundAt(TipBest)
        /\ TipCoins[RandPay] = RandPayCoins /\ ViewCoins[RandPay] = RandPayCoins
    /\ flush # "retried" => ShowsCoins(db, Utxo[dbBest], lost) /\ SoundAt(dbBest)

\* DisconnectBlock moves the view to the block below only when all was clean.
ViewAt(j, h) == j.kind = "disconnect" => h = j.block \/ (j.i > Len(Vtx[j.block]) /\ j.clean)

\* A block is in work only while no write has failed.
JobInv ==
    job # NoJob => /\ flush = "fine" /\ JobType(job) /\ ViewAt(job, viewBest)
                   /\ JobRight(job, ViewCoins, undo, lost)

\* All of it.
ReplayInv == KnownUndo(undo, lost) /\ KnownUndo(diskUndo, lost) /\ CoinsRight /\ JobInv

UtxoInv == CoinsInv /\ UndoInv /\ ReplayInv

(***************************************************************************)
(* Operations of a block.                                                  *)
(***************************************************************************)

\* ConnectBlock in a transaction with nothing missing so far.
LEMMA ConnectIn ==
    ASSUME NEW l, NEW j, NEW vc, NEW u, j.block \in Hashes, JobRight(j, vc, u, l), j.kind = "connect", j.i \in 1..Len(Vtx[j.block]), j.clean = TRUE
    PROVE  Connected(j.block, j.i, j.spent, l) /\ ConnectAt(j.block, j.i, j.op, j.spent, TRUE, vc, l)
<1>1. j.i <= Len(Vtx[j.block])
  BY BlockFacts
<1>2. Connected(j.block, j.i, j.spent, l) /\ ConnectAt(j.block, j.i, j.op, j.spent, j.clean, vc, l)
  BY <1>1 DEF JobRight, ConnectRight
<1> QED BY <1>2, Zenon

\* HaveInputs looks an input up.
LEMMA HaveStep ==
    ASSUME CoinsInv, ReplayInv, HaveInput
    PROVE  /\ Now.tx \in Txids /\ AccessView(Now.tx)
           /\ JobType(job') /\ JobRight(job', ViewCoins', undo', lost')
<1> DEFINE t == TxOf(job)
           m == Len(Vin[t])
<1>1. /\ Doing("have") /\ job.clean /\ AccessView(Now.tx) /\ undo' = undo /\ lost' = lost
      /\ job' = [Advance EXCEPT !.clean = Now.n \in ViewCoins[Now.tx]]
  BY DEF HaveInput
<1>2. job # NoJob /\ ~Finished
  BY <1>1, NotFinished
<1>3. flush = "fine" /\ JobType(job) /\ JobRight(job, ViewCoins, undo, lost)
  BY <1>2 DEF ReplayInv, JobInv
<1>4. /\ job.kind = "connect" /\ job.op \in 1..m
      /\ Now.tx = Vin[t][job.op][1] /\ Now.n = Vin[t][job.op][2]
  BY <1>1, <1>3, DoingHave
<1>5. /\ t \in Txids /\ m \in Nat /\ t = Vtx[job.block][job.i] /\ NumOps(job) = 2 * m + 1
      /\ job.i \in 1..Len(Vtx[job.block]) /\ Len(Vtx[job.block]) \in Nat
  BY <1>2, <1>3, <1>4, WorkFacts DEF NumOps
<1>6. job.block \in Hashes /\ job.clean = TRUE
  BY <1>1, <1>3 DEF JobType
<1>7. Now.tx \in Txids
  BY <1>4, <1>5, InputFacts
<1>8. ViewCoins' = ViewCoins
  BY <1>1, <1>3, <1>7, AccessViewEffect
<1>9. /\ Moved(job, job') /\ job'.spent = job.spent
      /\ job'.clean = (Vin[t][job.op][2] \in ViewCoins[Vin[t][job.op][1]])
  BY <1>1, <1>2, <1>3, <1>4, AdvanceFields
<1>10. job'.kind = job.kind /\ job'.block = job.block /\ job'.i = job.i /\ job'.op = job.op + 1
  BY <1>4, <1>5, <1>9 DEF Moved
<1>11. JobType(job')
  <2>1. job.i <= Len(Vtx[job.block]) /\ job'.clean \in BOOLEAN
    BY <1>5, <1>9
  <2> QED BY <1>3, <1>9, <2>1, MovedType, Zenon
<1>12. /\ Connected(job.block, job.i, job.spent, lost)
       /\ ConnectAt(job.block, job.i, job.op, job.spent, TRUE, ViewCoins, lost)
  BY <1>3, <1>4, <1>5, <1>6, ConnectIn, Zenon
<1>13. ConnectAt(job.block, job.i, job.op + 1, job.spent,
                 Vin[t][job.op][2] \in ViewCoins[Vin[t][job.op][1]], ViewCoins, lost)
  BY <1>4, <1>5, <1>6, <1>12, ConnectHave
<1>14. ConnectRight(job', ViewCoins, lost)
  <2>1. ConnectAt(job'.block, job'.i, job'.op, job'.spent, job'.clean, ViewCoins, lost)
    BY <1>9, <1>10, <1>13
  <2>2. Connected(job'.block, job'.i, job'.spent, lost) /\ ~(job'.i > Len(Vtx[job'.block]))
    BY <1>5, <1>9, <1>10, <1>12
  <2> QED BY <2>1, <2>2 DEF ConnectRight
<1> QED BY <1>1, <1>4, <1>7, <1>8, <1>10, <1>11, <1>14 DEF JobRight

\* Undo data of a transaction leaves the data of the ones before it alone.
LEMMA ConnectedMore ==
    ASSUME NEW l, NEW b \in Hashes, NEW i \in 1..Len(Vtx[b]), NEW k, NEW w, NEW u, Connected(b, i, u, l), NEW v,
           Records(v, u, i, k, w)
    PROVE  Connected(b, i, v, l)
<1>1. ASSUME NEW p \in 1..(i - 1) PROVE Done(b, p, v, l)
  <2>1. p # i
    BY BlockFacts
  <2>2. Done(b, p, u, l)
    BY DEF Connected
  <2>3. \A j : <<p, j>> # <<i, k>>
    BY <2>1
  <2>4. \A j : <<p, j>> \in DOMAIN u => <<p, j>> \in DOMAIN v /\ v[<<p, j>>] = u[<<p, j>>]
    BY <2>3 DEF Records
  <2>5. UndoRight(b, p, Len(Vin[Vtx[b][p]]), v, l)
    BY <2>2, <2>4 DEF Done, UndoRight
  <2> QED BY <2>2, <2>5 DEF Done
<1> QED BY <1>1 DEF Connected

\* UpdateCoins spends an input, or passes over the randpay output.
LEMMA SpendStep ==
    ASSUME CoinsInv, ReplayInv, SpendInput
    PROVE  /\ \/ UNCHANGED coinsVars
              \/ /\ Now.tx \in Txids \ {RandPay}
                 /\ \E left \in SUBSET Outs : ModifyCoins(Now.tx, left)
           /\ JobType(job') /\ JobRight(job', ViewCoins', undo', lost')
<1> DEFINE t == TxOf(job)
           m == Len(Vin[t])
           k == Now.in
           b == job.block
           i == job.i
<1>1. Doing("spend") /\ job.clean /\ undo' = undo /\ lost' = lost
  BY DEF SpendInput
<1>2. job # NoJob /\ ~Finished
  BY <1>1, NotFinished
<1>3. flush = "fine" /\ JobType(job) /\ JobRight(job, ViewCoins, undo, lost)
  BY <1>2 DEF ReplayInv, JobInv
<1>4. job.kind = "connect" /\ k \in 1..m /\ job.op = m + k /\ Now.tx = Vin[t][k][1] /\ Now.n = Vin[t][k][2]
  BY <1>1, <1>3, DoingSpend
<1>5. /\ t \in Txids /\ m \in Nat /\ t = Vtx[b][i] /\ NumOps(job) = 2 * m + 1 /\ InWork = i
      /\ i \in 1..Len(Vtx[b]) /\ Len(Vtx[b]) \in Nat
  BY <1>2, <1>3, <1>4, WorkFacts DEF NumOps
<1>6. b \in Hashes /\ job.clean = TRUE
  BY <1>1, <1>3 DEF JobType
<1>7. Now.tx \in Txids
  BY <1>4, <1>5, InputFacts
<1>8. ViewCoins \in [Txids -> SUBSET Outs]
  BY LayerTypes DEF CoinsInv
<1>9. /\ Connected(b, i, job.spent, lost)
      /\ ConnectAt(b, i, m + k, job.spent, TRUE, ViewCoins, lost)
  BY <1>3, <1>4, <1>5, <1>6, ConnectIn, Zenon
<1>10. ASSUME Moved(job, job'), job'.clean = TRUE
       PROVE  /\ job'.kind = job.kind /\ job'.block = b /\ job'.i = i /\ job'.op = m + k + 1
              /\ JobType(job')
  <2>1. job.op # NumOps(job) /\ job.op + 1 = m + k + 1
    BY <1>4, <1>5
  <2>2. JobType(job')
    <3>1. i <= Len(Vtx[b])
      BY <1>5
    <3>2. job'.clean \in BOOLEAN
      BY <1>10, Zenon
    <3> QED BY <1>3, <1>10, <3>1, <3>2, MovedType, Zenon
  <2> QED BY <1>10, <2>1, <2>2 DEF Moved
<1> HIDE DEF t, m, k, b, i
<1>11. CASE Skipped(Now.tx) /\ job' = Advance /\ UNCHANGED coinsVars
  <2>1. Moved(job, job') /\ job'.spent = job.spent /\ job'.clean = TRUE
    BY <1>2, <1>3, <1>6, <1>11, AdvanceFields
  <2>2. Vin[t][k][1] = RandPay
    BY <1>4, <1>11 DEF Skipped
  <2>3. ConnectAt(b, i, m + k + 1, job.spent, TRUE, ViewCoins, lost)
    BY <1>4, <1>5, <1>6, <1>9, <2>2, ConnectSkip DEF m
  <2>4. ViewCoins' = ViewCoins
    BY <1>11 DEF coinsVars, ViewCoins, TipCoins
  <2>5. job'.kind = "connect" /\ job'.block = b /\ job'.i = i /\ job'.op = m + k + 1 /\ JobType(job')
    BY <1>4, <1>10, <2>1
  <2>6. ConnectAt(job'.block, job'.i, job'.op, job'.spent, job'.clean, ViewCoins, lost)
    BY <2>1, <2>3, <2>5
  <2>7. Connected(job'.block, job'.i, job'.spent, lost) /\ ~(job'.i > Len(Vtx[job'.block]))
    BY <1>5, <1>9, <2>1, <2>5
  <2> QED BY <1>1, <1>11, <2>4, <2>5, <2>6, <2>7 DEF JobRight, ConnectRight
<1>12. CASE ~Skipped(Now.tx) /\ \E left \in {ViewCoins[Now.tx] \ {Now.n}} :
                /\ ModifyCoins(Now.tx, left)
                /\ job' = [Advance EXCEPT !.spent = Recorded(IsPruned(left))]
  <2> DEFINE left == ViewCoins[Now.tx] \ {Now.n}
             v == Recorded(IsPruned(left))
  <2>1. ModifyCoins(Now.tx, left) /\ job' = [Advance EXCEPT !.spent = v]
    BY <1>12
  <2>2. Moved(job, job') /\ job'.spent = v /\ job'.clean = TRUE
    BY <1>2, <1>3, <1>6, <2>1, AdvanceFields
  <2>3. Vin[t][k][1] # RandPay
    BY <1>4, <1>12 DEF Skipped
  <2>4. left \in SUBSET Outs /\ left = ViewCoins[Vin[t][k][1]] \ {Vin[t][k][2]}
    BY <1>4, <1>7, <1>8
  <2>5. Records(v, job.spent, i, k, left = {})
    BY <1>5 DEF Records, Recorded, IsPruned, k
  <2> HIDE DEF left, v
  <2>6. ViewCoins' = [ViewCoins EXCEPT ![Vin[t][k][1]] = left]
    BY <1>3, <1>4, <1>7, <2>1, <2>4, ModifyCoinsEffect
  <2>7. ConnectAt(b, i, m + k + 1, v, TRUE, [ViewCoins EXCEPT ![Vin[t][k][1]] = left], lost)
    BY <1>4, <1>5, <1>6, <1>8, <1>9, <2>3, <2>4, <2>5, ConnectSpend, Zenon DEF m
  <2>8. job'.kind = "connect" /\ job'.block = b /\ job'.i = i /\ job'.op = m + k + 1 /\ JobType(job')
    BY <1>4, <1>10, <2>2
  <2>9. ConnectAt(job'.block, job'.i, job'.op, job'.spent, job'.clean, ViewCoins', lost)
    BY <2>2, <2>6, <2>7, <2>8
  <2>10. Connected(b, i, v, lost)
    BY <1>5, <1>6, <1>9, <2>5, ConnectedMore, Zenon
  <2>11. Connected(job'.block, job'.i, job'.spent, lost) /\ ~(job'.i > Len(Vtx[job'.block]))
    BY <1>5, <2>2, <2>8, <2>10
  <2>12. JobRight(job', ViewCoins', undo', lost')
    BY <1>1, <2>8, <2>9, <2>11 DEF JobRight, ConnectRight
  <2> QED BY <1>4, <1>7, <2>1, <2>3, <2>4, <2>8, <2>12
<1> QED BY <1>11, <1>12 DEF SpendInput

\* The outputs are added, and the next transaction begins, or the block is done.
LEMMA AddStep ==
    ASSUME OnceOnly, CoinsInv, ReplayInv, AddOutputs
    PROVE  /\ Now.tx \in Txids \ {RandPay} /\ Vout[Now.tx] \in SUBSET Outs /\ IsPruned(ViewCoins[Now.tx])
           /\ ModifyNewCoins(Now.tx, Now.tx \in Coinbase, Vout[Now.tx])
           /\ JobType(job') /\ JobRight(job', ViewCoins', undo', lost')
<1> DEFINE t == TxOf(job)
           m == Len(Vin[t])
           b == job.block
           i == job.i
<1>1. /\ Doing("add") /\ job.clean /\ undo' = undo /\ lost' = lost /\ job' = Advance
      /\ ModifyNewCoins(Now.tx, Now.tx \in Coinbase, Vout[Now.tx])
  BY DEF AddOutputs
<1>2. job # NoJob /\ ~Finished
  BY <1>1, NotFinished
<1>3. flush = "fine" /\ JobType(job) /\ JobRight(job, ViewCoins, undo, lost)
  BY <1>2 DEF ReplayInv, JobInv
<1>4. job.kind = "connect" /\ job.op = 2 * m + 1 /\ Now.tx = t
  BY <1>1, <1>3, DoingAdd
<1>5. /\ t \in Txids \ {RandPay} /\ m \in Nat /\ t = Vtx[b][i] /\ NumOps(job) = 2 * m + 1
      /\ i \in 1..Len(Vtx[b]) /\ Len(Vtx[b]) \in Nat
  BY <1>2, <1>3, <1>4, WorkFacts DEF NumOps
<1>6. b \in Hashes /\ job.clean = TRUE
  BY <1>1, <1>3 DEF JobType
<1>7. ViewCoins \in [Txids -> SUBSET Outs] /\ Vout[t] \in SUBSET Outs
  BY <1>5, LayerTypes, TxAssumption DEF CoinsInv
<1>8. Connected(b, i, job.spent, lost) /\ ConnectAt(b, i, 2 * m + 1, job.spent, TRUE, ViewCoins, lost)
  BY <1>3, <1>4, <1>5, <1>6, ConnectIn, Zenon
<1>9. /\ ViewCoins[t] = {} /\ Connected(b, i + 1, job.spent, lost)
      /\ ShowsCoins([ViewCoins EXCEPT ![t] = Vout[t]], After(b, i), lost)
  <2>1. t = Vtx[b][i] /\ m = Len(Vin[Vtx[b][i]]) /\ i \in 1..Len(Vtx[b])
    BY <1>5
  <2> HIDE DEF t, m, b, i
  <2> QED BY <1>6, <1>7, <1>8, <2>1, ConnectAdd, Zenon
<1>10. ViewCoins' = [ViewCoins EXCEPT ![t] = Vout[t]]
  <2> DEFINE cb == t \in Coinbase
  <2>1. ModifyNewCoins(t, cb, Vout[t]) /\ cb \in BOOLEAN /\ IsPruned(ViewCoins[t]) /\ t \in Txids
    BY <1>1, <1>4, <1>5, <1>9 DEF IsPruned
  <2> HIDE DEF t, cb
  <2> QED BY <1>3, <1>7, <2>1, ModifyNewCoinsEffect
<1>11. /\ Moved(job, job') /\ job'.spent = job.spent /\ job'.clean = TRUE
  BY <1>1, <1>2, <1>3, <1>6, AdvanceFields
<1>12. job'.kind = "connect" /\ job'.block = b /\ job'.i = i + 1 /\ job'.op = 1
  BY <1>4, <1>5, <1>11 DEF Moved
<1>13. JobType(job')
  <2>1. i <= Len(Vtx[b])
    BY <1>5
  <2>2. job'.clean \in BOOLEAN
    BY <1>11, Zenon
  <2> QED BY <1>3, <1>11, <2>1, <2>2, MovedType, Zenon
<1> HIDE DEF t, m, b, i
<1>14. ConnectRight(job', ViewCoins', lost)
  <2>1. Connected(job'.block, job'.i, job'.spent, lost)
    BY <1>9, <1>11, <1>12
  <2>2. ShowsCoins(ViewCoins', After(b, i), lost)
    BY <1>9, <1>10
  <2>3. CASE job'.i > Len(Vtx[b])
    <3>1. i = Len(Vtx[b])
      BY <1>5, <1>12, <2>3
    <3>2. ShowsCoins(ViewCoins', After(b, Len(Vtx[b])), lost)
      BY <2>2, <3>1
    <3>3. ~(job'.i <= Len(Vtx[b]))
      BY <1>5, <1>12, <2>3
    <3> QED BY <1>12, <2>1, <3>2, <3>3 DEF ConnectRight
  <2>4. CASE ~(job'.i > Len(Vtx[b]))
    <3>1. i + 1 \in 1..Len(Vtx[b]) /\ (i + 1) - 1 = i
      BY <1>5, <1>12, <2>4
    <3>2. ConnectAt(b, i + 1, 1, job.spent, TRUE, ViewCoins', lost)
      BY <1>6, <2>2, <3>1, ConnectFirst
    <3>3. ConnectAt(job'.block, job'.i, job'.op, job'.spent, job'.clean, ViewCoins', lost)
      BY <1>11, <1>12, <3>2, Zenon
    <3> QED BY <1>12, <2>1, <2>4, <3>3 DEF ConnectRight
  <2> QED BY <2>3, <2>4
<1>15. JobRight(job', ViewCoins', undo', lost')
  BY <1>1, <1>12, <1>14 DEF JobRight
<1> QED BY <1>1, <1>4, <1>5, <1>7, <1>9, <1>13, <1>15 DEF IsPruned

\* The data DisconnectBlock works with.
LEMMA DisconnectFacts ==
    ASSUME ReplayInv, job # NoJob, ~Finished, job.kind = "disconnect"
    PROVE  /\ flush = "fine" /\ JobType(job) /\ job.block \in Hashes /\ job.block \in DOMAIN undo
           /\ Prev[job.block] # NullHash /\ job.clean \in BOOLEAN
           /\ InWork \in 1..Len(Vtx[job.block]) /\ InWork = Len(Vtx[job.block]) + 1 - job.i
           /\ Len(Vtx[job.block]) \in Nat /\ job.i \in 1..Len(Vtx[job.block])
           /\ TxOf(job) = Vtx[job.block][InWork] /\ TxOf(job) \in Txids \ {RandPay}
           /\ Len(Vin[TxOf(job)]) \in Nat
           /\ NumOps(job) = IF RestoresInputs(job.block, InWork) THEN Len(Vin[TxOf(job)]) + 1 ELSE 1
           /\ Done(job.block, InWork, undo[job.block], lost)
           /\ job.clean \/ MarredBy(job.block, lost)
           /\ job.clean => DisconnectAt(job.block, InWork, job.op, ViewCoins, lost)
<1>1. flush = "fine" /\ JobType(job) /\ DisconnectRight(job, ViewCoins, undo, lost)
  BY DEF ReplayInv, JobInv, JobRight
<1>2. /\ job.block \in Hashes /\ job.block \in DOMAIN undo /\ Prev[job.block] # NullHash
      /\ job.clean \in BOOLEAN
  BY <1>1 DEF DisconnectRight, JobType
<1>3. /\ InWork \in 1..Len(Vtx[job.block]) /\ InWork = Len(Vtx[job.block]) + 1 - job.i
      /\ Len(Vtx[job.block]) \in Nat /\ job.i \in 1..Len(Vtx[job.block])
      /\ TxOf(job) = Vtx[job.block][InWork] /\ TxOf(job) \in Txids \ {RandPay}
      /\ Len(Vin[TxOf(job)]) \in Nat
  BY <1>1, WorkFacts
<1>4. NumOps(job) = IF RestoresInputs(job.block, InWork) THEN Len(Vin[TxOf(job)]) + 1 ELSE 1
  BY DEF NumOps, InWork
<1>5. Done(job.block, InWork, undo[job.block], lost)
  BY <1>2, <1>3 DEF ReplayInv, KnownUndo
<1>6. job.clean \/ MarredBy(job.block, lost)
  BY <1>1 DEF DisconnectRight
<1>7. job.clean => DisconnectAt(job.block, InWork, job.op, ViewCoins, lost)
  BY <1>1, <1>3 DEF DisconnectRight
<1> QED BY <1>1, <1>2, <1>3, <1>4, <1>5, <1>6, <1>7

\* A lost output of a transaction of the block in work, or of one it spends from.
LEMMA MarredFacts ==
    ASSUME NEW b \in Hashes, NEW q \in 1..Len(Vtx[b]), NEW l
    PROVE  /\ ~Whole(Vtx[b][q], l) => MarredBy(b, l)
           /\ \A j \in 1..Len(Vin[Vtx[b][q]]) : ~Whole(Vin[Vtx[b][q]][j][1], l) => MarredBy(b, l)
           /\ \A k : l \subseteq k /\ MarredBy(b, l) => MarredBy(b, k)
<1>1. q \in DOMAIN Vtx[b] /\ DOMAIN Vin[Vtx[b][q]] = 1..Len(Vin[Vtx[b][q]])
  BY BlockFacts, InputFacts
<1> QED BY <1>1 DEF Whole, MarredBy

\* After an operation of DisconnectBlock that leaves s inputs of its transaction spent.
LEMMA DisconnectMoved ==
    ASSUME ReplayInv, job # NoJob, ~Finished, job.kind = "disconnect", NEW s \in 0..Len(Vin[TxOf(job)]),
           IF RestoresInputs(job.block, InWork) THEN job.op = Len(Vin[TxOf(job)]) + 1 - s
           ELSE s = 0 /\ job.op = 1,
           NEW k, Moved(job, k), k.clean \in BOOLEAN, NEW vc, NEW l, k.clean \/ MarredBy(job.block, l),
           k.clean => ShowsLeft(vc, After(job.block, InWork - 1), TxOf(job), s, l)
    PROVE  JobType(k) /\ JobRight(k, vc, undo, l)
<1> DEFINE t == TxOf(job)
           m == Len(Vin[t])
           b == job.block
           q == InWork
           some == RestoresInputs(b, q)
<1>1. /\ JobType(job) /\ b \in Hashes /\ b \in DOMAIN undo /\ Prev[b] # NullHash
      /\ q \in 1..Len(Vtx[b]) /\ q = Len(Vtx[b]) + 1 - job.i /\ t = Vtx[b][q]
      /\ Len(Vtx[b]) \in Nat /\ job.i \in 1..Len(Vtx[b]) /\ m \in Nat
      /\ NumOps(job) = IF some THEN m + 1 ELSE 1
  BY DisconnectFacts
<1>2. k.kind = "disconnect" /\ k.block = b
  BY DEF Moved
<1>3. JobType(k)
  <2>1. job.i <= Len(Vtx[b])
    BY <1>1
  <2> QED BY <1>1, <2>1, MovedType, Zenon
<1>0. s \in 0..m /\ IF some THEN job.op = m + 1 - s ELSE s = 0 /\ job.op = 1
  OBVIOUS
<1> HIDE DEF t, m, b, q, some
<1>4. ASSUME k.clean PROVE DisconnectAt(b, Len(Vtx[b]) + 1 - k.i, k.op, vc, l)
  <2>1. CASE s = 0
    <3>0. job.op = NumOps(job)
      BY <1>0, <1>1, <2>1
    <3>1. k.i = job.i + 1 /\ k.op = 1
      BY <3>0 DEF Moved
    <3>2. Len(Vtx[b]) + 1 - k.i = q - 1
      <4> DEFINE L == Len(Vtx[b])
      <4>1. L \in Nat /\ job.i \in 1..L /\ q = L + 1 - job.i
        BY <1>1
      <4> HIDE DEF L
      <4>2. L + 1 - k.i = q - 1
        BY <3>1, <4>1
      <4> QED BY <4>2 DEF L
    <3>3. ShowsCoins(vc, After(b, q - 1), l)
      BY <1>4, <2>1, LeftNone DEF ShowsLeft, ShowsCoins, t, b, q
    <3> QED BY <3>1, <3>2, <3>3 DEF DisconnectAt
  <2>2. CASE s # 0
    <3>0. some /\ job.op # NumOps(job)
      BY <1>0, <1>1, <2>2
    <3>1. k.i = job.i /\ k.op = job.op + 1
      BY <3>0 DEF Moved
    <3>2. k.op > 1 /\ k.op # 1 /\ m + 2 - k.op = s
      <4>1. m \in Nat /\ s \in 0..m /\ job.op = m + 1 - s
        BY <1>0, <1>1, <3>0
      <4>2. k.op = m + 2 - s /\ s \in Int /\ m \in Int /\ 0 < s /\ s <= m
        BY <2>2, <3>1, <4>1
      <4> QED BY <4>2
    <3>4. Len(Vtx[b]) + 1 - k.i = q
      BY <1>1, <3>1
    <3>3. ShowsLeft(vc, After(b, q - 1), Vtx[b][q], s, l) /\ Len(Vin[Vtx[b][q]]) = m
      BY <1>1, <1>4 DEF t, b, q, m
    <3> QED BY <3>2, <3>3, <3>4 DEF DisconnectAt
  <2> QED BY <2>1, <2>2
<1>5. DisconnectRight(k, vc, undo, l)
  BY <1>1, <1>2, <1>4 DEF DisconnectRight, b
<1> QED BY <1>2, <1>3, <1>5 DEF JobRight

\* The outputs are removed, and inputs that are not restored are lost.
LEMMA RemoveStep ==
    ASSUME CoinsInv, ReplayInv, RemoveOutputs
    PROVE  /\ Now.tx \in Txids \ {RandPay} /\ ModifyCoins(Now.tx, {}) /\ lost \subseteq lost'
           /\ JobType(job') /\ JobRight(job', ViewCoins', undo', lost')
<1> DEFINE t == TxOf(job)
           b == job.block
           c == After(b, InWork - 1)
           some == RestoresInputs(b, InWork)
<1>1. /\ Doing("remove") /\ ModifyCoins(Now.tx, {}) /\ undo' = undo
      /\ job' = [Advance EXCEPT !.clean = job.clean /\ ViewCoins[Now.tx] = Vout[Now.tx]]
      /\ lost' = IF some THEN lost ELSE lost \cup Spends(Now.tx)
  BY DEF RemoveOutputs, Spends
<1>2. job # NoJob /\ ~Finished
  BY <1>1, NotFinished
<1>3. JobType(job)
  BY <1>2 DEF ReplayInv, JobInv
<1>4. job.kind = "disconnect" /\ job.op = 1 /\ Now.tx = t
  BY <1>1, <1>3, DoingRemove
<1>5. /\ flush = "fine" /\ b \in Hashes /\ job.clean \in BOOLEAN /\ t \in Txids \ {RandPay}
      /\ InWork \in 1..Len(Vtx[b]) /\ t = Vtx[b][InWork] /\ Len(Vin[t]) \in Nat
      /\ Done(b, InWork, undo[b], lost) /\ (job.clean \/ MarredBy(b, lost))
      /\ job.clean => DisconnectAt(b, InWork, 1, ViewCoins, lost)
  BY <1>2, <1>4, DisconnectFacts
<1>6. ViewCoins \in [Txids -> SUBSET Outs]
  BY LayerTypes DEF CoinsInv
<1>7. ASSUME job.clean
      PROVE  /\ Whole(t, lost) => ViewCoins[t] = Vout[t]
             /\ ShowsLeft([ViewCoins EXCEPT ![t] = {}], c, t, Len(Vin[t]), lost)
  <2>1. ShowsCoins(ViewCoins, After(b, InWork), lost)
    BY <1>5, <1>7 DEF DisconnectAt
  <2>2. Removable(ViewCoins, b, InWork, lost)
    BY <1>5, <1>6, <2>1, DisconnectRemove, Zenon
  <2> QED BY <1>5, <2>2 DEF Removable
<1>8. ViewCoins' = [ViewCoins EXCEPT ![t] = {}]
  <2>1. {} \in SUBSET Outs
    OBVIOUS
  <2> QED BY <1>1, <1>4, <1>5, <2>1, ModifyCoinsEffect
<1>9. Moved(job, job') /\ job'.clean = (job.clean /\ ViewCoins[t] = Vout[t])
  BY <1>1, <1>2, <1>3, <1>4, AdvanceFields, Zenon
<1>10. lost \subseteq lost' /\ job'.clean \in BOOLEAN
  BY <1>1, <1>9
<1>11. job'.clean \/ MarredBy(b, lost')
  <2>1. job'.clean \/ MarredBy(b, lost)
    <3>1. CASE Whole(t, lost)
      BY <1>5, <1>7, <1>9, <3>1, Zenon
    <3>2. CASE ~Whole(t, lost)
      <4>1. ~Whole(Vtx[b][InWork], lost) /\ b \in Hashes /\ InWork \in 1..Len(Vtx[b])
        BY <1>5, <3>2
      <4> HIDE DEF b, t
      <4>2. MarredBy(b, lost)
        BY <4>1, MarredFacts, Zenon
      <4> QED BY <4>2
    <3> QED BY <3>1, <3>2
  <2> QED BY <1>5, <1>10, <2>1, MarredFacts, Zenon
<1> HIDE DEF t, b, c, some
<1>12. CASE some
  <2>1. Len(Vin[t]) \in 0..Len(Vin[t]) /\ job.op = Len(Vin[t]) + 1 - Len(Vin[t])
    BY <1>4, <1>5
  <2>2. job'.clean => ShowsLeft(ViewCoins', c, t, Len(Vin[t]), lost')
    BY <1>1, <1>7, <1>8, <1>9, <1>12
  <2>3. JobType(job') /\ JobRight(job', ViewCoins', undo, lost')
    BY <1>2, <1>4, <1>9, <1>10, <1>11, <1>12, <2>1, <2>2, DisconnectMoved, Zenon DEF t, b, c, some
  <2> QED BY <1>1, <1>4, <1>5, <1>10, <2>3
<1>13. CASE ~some
  <2>1. 0 \in 0..Len(Vin[t]) /\ lost' = lost \cup Spends(t)
    BY <1>1, <1>4, <1>5, <1>13
  <2>2. job'.clean => ShowsLeft(ViewCoins', c, t, 0, lost')
    BY <1>5, <1>7, <1>8, <1>9, <2>1, DisconnectLose
  <2>3. JobType(job') /\ JobRight(job', ViewCoins', undo, lost')
    BY <1>2, <1>4, <1>9, <1>10, <1>11, <1>13, <2>1, <2>2, DisconnectMoved, Zenon DEF t, b, c, some
  <2> QED BY <1>1, <1>4, <1>5, <1>10, <2>3
<1> QED BY <1>12, <1>13

\* An input is restored, or is the randpay output.
LEMMA RestoreStep ==
    ASSUME CoinsInv, ReplayInv, ApplyTxInUndo
    PROVE  /\ \/ UNCHANGED coinsVars
              \/ Now.tx \in Txids \ {RandPay} /\ \E c \in SUBSET Outs : ModifyCoins(Now.tx, c)
           /\ JobType(job') /\ JobRight(job', ViewCoins', undo', lost')
<1> DEFINE t == TxOf(job)
           b == job.block
           j == Now.in
<1>1. Doing("restore") /\ undo' = undo /\ lost' = lost
  BY DEF ApplyTxInUndo
<1>2. job # NoJob /\ ~Finished
  BY <1>1, NotFinished
<1>3. JobType(job)
  BY <1>2 DEF ReplayInv, JobInv
<1>4. /\ job.kind = "disconnect" /\ j \in 1..Len(Vin[t]) /\ job.op = Len(Vin[t]) + 2 - j
      /\ Now.tx = Vin[t][j][1] /\ Now.n = Vin[t][j][2] /\ RestoresInputs(b, InWork)
  BY <1>1, <1>3, DoingRestore
<1>5. /\ flush = "fine" /\ b \in Hashes /\ job.clean \in BOOLEAN /\ t \in Txids
      /\ InWork \in 1..Len(Vtx[b]) /\ t = Vtx[b][InWork] /\ Len(Vin[t]) \in Nat
      /\ Done(b, InWork, undo[b], lost) /\ (job.clean \/ MarredBy(b, lost))
      /\ job.clean => DisconnectAt(b, InWork, job.op, ViewCoins, lost)
  BY <1>2, <1>4, DisconnectFacts
<1>6. ViewCoins \in [Txids -> SUBSET Outs] /\ Now.tx \in Txids /\ Now.n \in Outs
  BY <1>4, <1>5, LayerTypes, InputFacts DEF CoinsInv
<1>7. ASSUME job.clean PROVE ShowsLeft(ViewCoins, After(b, InWork - 1), t, j, lost)
  <2>1. job.op > 1 /\ Len(Vin[t]) + 2 - job.op = j
    <3> DEFINE m == Len(Vin[t])
    <3>1. m \in Nat /\ j \in 1..m /\ job.op = m + 2 - j
      BY <1>4, <1>5
    <3> HIDE DEF m, j
    <3>2. job.op > 1 /\ m + 2 - job.op = j
      BY <3>1
    <3> QED BY <3>2 DEF m
  <2> QED BY <1>5, <1>7, <2>1 DEF DisconnectAt
<1>8. j - 1 \in 0..Len(Vin[t]) /\ job.op = Len(Vin[t]) + 1 - (j - 1)
  BY <1>4, <1>5
<1> HIDE DEF t, b, j
<1>9. ASSUME Moved(job, job'), job'.clean \in BOOLEAN, job'.clean \/ MarredBy(b, lost),
             job'.clean => ShowsLeft(ViewCoins', After(b, InWork - 1), t, j - 1, lost)
      PROVE  JobType(job') /\ JobRight(job', ViewCoins', undo, lost)
  BY <1>2, <1>4, <1>8, <1>9, DisconnectMoved, Zenon DEF t, b
<1>10. CASE Skipped(Now.tx) /\ job' = Advance /\ UNCHANGED coinsVars
  <2>1. Moved(job, job') /\ job'.clean = job.clean
    BY <1>2, <1>3, <1>10, AdvanceFields
  <2>2. ViewCoins' = ViewCoins
    BY <1>10 DEF coinsVars, ViewCoins, TipCoins
  <2>3. job.clean => ShowsLeft(ViewCoins, After(b, InWork - 1), t, j - 1, lost)
    BY <1>4, <1>5, <1>7, <1>10, DisconnectSkip DEF Skipped
  <2>4. JobType(job') /\ JobRight(job', ViewCoins', undo, lost)
    BY <1>5, <1>9, <2>1, <2>2, <2>3
  <2> QED BY <1>1, <1>10, <2>4
<1>11. CASE ~Skipped(Now.tx) /\ \E last \in {undo[job.block][<<InWork, Now.in>>]}, c \in {ViewCoins[Now.tx]} :
                /\ ModifyCoins(Now.tx, IF last THEN {Now.n} ELSE c \cup {Now.n})
                /\ job' = [Advance EXCEPT !.clean =
                            job.clean /\ (last <=> IsPruned(c)) /\ Now.n \notin c]
  <2> DEFINE last == undo[b][<<InWork, j>>]
             c == ViewCoins[Now.tx]
             new == IF last THEN {Now.n} ELSE c \cup {Now.n}
             fits == (last <=> c = {}) /\ Now.n \notin c
  <2>1. /\ ModifyCoins(Now.tx, new)
        /\ job' = [Advance EXCEPT !.clean = job.clean /\ (last <=> IsPruned(c)) /\ Now.n \notin c]
    BY <1>11, Zenon DEF b, j
  <2>2. Vin[t][j][1] # RandPay
    BY <1>4, <1>11 DEF Skipped
  <2>3. ASSUME job.clean
        PROVE  /\ Whole(Now.tx, lost) => fits
               /\ ShowsLeft([ViewCoins EXCEPT ![Now.tx] = c \cup {Now.n}], After(b, InWork - 1), t, j - 1, lost)
    <3>1. Restorable(ViewCoins, b, InWork, j, undo[b], lost)
      BY <1>4, <1>5, <1>6, <1>7, <2>2, <2>3, DisconnectRestore, Zenon
    <3> QED BY <1>4, <1>5, <3>1 DEF Restorable
  <2>4. new \in SUBSET Outs /\ (fits => new = c \cup {Now.n})
    BY <1>6
  <2>5. Moved(job, job') /\ job'.clean = (job.clean /\ fits)
    <3>1. Moved(job, job') /\ job'.clean = (job.clean /\ (last <=> IsPruned(c)) /\ Now.n \notin c)
      BY <1>2, <1>3, <2>1, AdvanceFields, Zenon
    <3> QED BY <3>1, Zenon DEF IsPruned
  <2> HIDE DEF last, new, fits
  <2>6. job'.clean \in BOOLEAN /\ (job'.clean \/ MarredBy(b, lost))
    <3>1. CASE Whole(Now.tx, lost)
      BY <1>5, <2>3, <2>5, <3>1, Zenon
    <3>2. CASE ~Whole(Now.tx, lost)
      <4>1. MarredBy(b, lost)
        BY <1>4, <1>5, <3>2, MarredFacts
      <4> QED BY <2>5, <4>1, Zenon
    <3> QED BY <3>1, <3>2
  <2>7. ViewCoins' = [ViewCoins EXCEPT ![Now.tx] = new]
    BY <1>5, <1>6, <2>1, <2>4, ModifyCoinsEffect, Zenon
  <2>8. job'.clean => ShowsLeft(ViewCoins', After(b, InWork - 1), t, j - 1, lost)
    BY <2>3, <2>4, <2>5, <2>7
  <2>9. JobType(job') /\ JobRight(job', ViewCoins', undo, lost)
    BY <1>9, <2>5, <2>6, <2>8, Zenon
  <2> QED BY <1>1, <1>4, <1>6, <2>1, <2>2, <2>4, <2>9
<1> QED BY <1>10, <1>11 DEF ApplyTxInUndo

(***************************************************************************)
(* The steps, and that each is one of the caches.                          *)
(***************************************************************************)

\* What an operation on the view leaves alone.
SameBelow ==
    /\ UNCHANGED <<db, dbBest, flush>> /\ TipCoins' = TipCoins /\ TipBest' = TipBest
    /\ ViewCoins'[RandPay] = ViewCoins[RandPay]

\* Then the coins are still right.
LEMMA SameRight ==
    ASSUME CoinsRight, SameBelow, lost \subseteq lost'
    PROVE  CoinsRight'
<1>1. \A vc, c : ShowsCoins(vc, c, lost) => ShowsCoins(vc, c, lost')
  BY LoseMore
<1>2. UNCHANGED <<db, dbBest, flush>> /\ TipCoins' = TipCoins /\ TipBest' = TipBest
  BY DEF SameBelow
<1>3. flush = "fine" => ShowsCoins(TipCoins', Utxo[TipBest'], lost')
  BY <1>1, <1>2 DEF CoinsRight
<1>4. flush # "retried" => ShowsCoins(db', Utxo[dbBest'], lost')
  BY <1>1, <1>2 DEF CoinsRight
<1> QED BY <1>2, <1>3, <1>4 DEF CoinsRight, SameBelow

\* No layer is touched.
LEMMA UnchangedBelow ==
    ASSUME UNCHANGED coinsVars
    PROVE  SameBelow /\ ViewCoins' = ViewCoins
BY DEF coinsVars, SameBelow, TipCoins, ViewCoins, TipBest

\* ModifyCoins on the view.
LEMMA ModifyBelow ==
    ASSUME CoinsInv, flush = "fine", NEW t \in Txids \ {RandPay}, NEW c \in SUBSET Outs, ModifyCoins(t, c)
    PROVE  SameBelow
<1>1. TipCoins' = TipCoins /\ ViewCoins' = [ViewCoins EXCEPT ![t] = c]
  BY ModifyCoinsEffect
<1>2. ViewCoins \in [Txids -> SUBSET Outs]
  BY LayerTypes DEF CoinsInv
<1>3. ViewCoins'[RandPay] = ViewCoins[RandPay]
  BY <1>1, <1>2, CoinsAssumption
<1> QED BY <1>1, <1>3 DEF SameBelow, ModifyCoins, TipBest

\* One operation of a block.
LEMMA WorkReplay ==
    ASSUME OnceOnly, CoinsInv, ReplayInv, HaveInput \/ SpendInput \/ AddOutputs \/ RemoveOutputs \/ ApplyTxInUndo
    PROVE  [CoinsNext]_coinsVars /\ ReplayInv'
<1>1. /\ job # NoJob /\ ~Finished /\ UNCHANGED <<undo, diskUndo, viewBest>>
      /\ ~RemoveOutputs => lost' = lost
  BY DEF HaveInput, SpendInput, AddOutputs, RemoveOutputs, ApplyTxInUndo, Doing,
         AccessView, ModifyCoins, ModifyNewCoins, coinsVars
<1>0. lost \subseteq lost'
  BY <1>1, RemoveStep
<1>2. flush = "fine"
  BY <1>1 DEF ReplayInv, JobInv
<1>3. /\ [CoinsNext]_coinsVars /\ SameBelow
      /\ JobType(job') /\ JobRight(job', ViewCoins', undo', lost')
  <2>1. CASE HaveInput
    <3>1. /\ Now.tx \in Txids /\ AccessView(Now.tx)
          /\ JobType(job') /\ JobRight(job', ViewCoins', undo', lost')
      BY <2>1, HaveStep
    <3>2. TipCoins' = TipCoins /\ ViewCoins' = ViewCoins
      BY <1>2, <3>1, AccessViewEffect
    <3>3. SameBelow
      BY <3>1, <3>2 DEF AccessView, SameBelow, TipBest
    <3> QED BY <3>1, <3>3 DEF CoinsNext
  <2>2. CASE SpendInput
    <3>1. /\ \/ UNCHANGED coinsVars
             \/ /\ Now.tx \in Txids \ {RandPay}
                /\ \E left \in SUBSET Outs : ModifyCoins(Now.tx, left)
          /\ JobType(job') /\ JobRight(job', ViewCoins', undo', lost')
      BY <2>2, SpendStep
    <3> QED BY <1>2, <3>1, UnchangedBelow, ModifyBelow DEF CoinsNext
  <2>3. CASE AddOutputs
    <3> DEFINE cb == Now.tx \in Coinbase
    <3>1. /\ Now.tx \in Txids \ {RandPay} /\ Vout[Now.tx] \in SUBSET Outs /\ IsPruned(ViewCoins[Now.tx])
          /\ ModifyNewCoins(Now.tx, cb, Vout[Now.tx]) /\ cb \in BOOLEAN
          /\ JobType(job') /\ JobRight(job', ViewCoins', undo', lost')
      BY <2>3, AddStep
    <3> HIDE DEF cb
    <3>2. CoinsNext
      BY <3>1 DEF CoinsNext
    <3>3. TipCoins' = TipCoins /\ ViewCoins' = [ViewCoins EXCEPT ![Now.tx] = Vout[Now.tx]]
      BY <1>2, <3>1, ModifyNewCoinsEffect
    <3>4. ViewCoins \in [Txids -> SUBSET Outs]
      BY LayerTypes DEF CoinsInv
    <3>5. ViewCoins'[RandPay] = ViewCoins[RandPay]
      BY <3>1, <3>3, <3>4, CoinsAssumption
    <3>6. SameBelow
      BY <3>1, <3>3, <3>5 DEF SameBelow, ModifyNewCoins, TipBest
    <3> QED BY <3>1, <3>2, <3>6
  <2>4. CASE RemoveOutputs
    <3>1. /\ Now.tx \in Txids \ {RandPay} /\ ModifyCoins(Now.tx, {}) /\ {} \in SUBSET Outs
          /\ JobType(job') /\ JobRight(job', ViewCoins', undo', lost')
      BY <2>4, RemoveStep
    <3> QED BY <1>2, <3>1, ModifyBelow DEF CoinsNext
  <2>5. CASE ApplyTxInUndo
    <3>1. /\ \/ UNCHANGED coinsVars
             \/ Now.tx \in Txids \ {RandPay} /\ \E c \in SUBSET Outs : ModifyCoins(Now.tx, c)
          /\ JobType(job') /\ JobRight(job', ViewCoins', undo', lost')
      BY <2>5, RestoreStep
    <3> QED BY <1>2, <3>1, UnchangedBelow, ModifyBelow DEF CoinsNext
  <2> QED BY <2>1, <2>2, <2>3, <2>4, <2>5
<1>4. CoinsRight' /\ flush' = "fine"
  BY <1>0, <1>2, <1>3, SameRight DEF ReplayInv, SameBelow
<1>5. KnownUndo(undo', lost') /\ KnownUndo(diskUndo', lost')
  <2>1. \A u : KnownUndo(u, lost) => KnownUndo(u, lost')
    BY <1>0, LoseMore
  <2> QED BY <1>1, <2>1 DEF ReplayInv
<1>6. ViewAt(job', viewBest')
  <2>1. ViewAt(job, viewBest) /\ JobType(job)
    BY <1>1 DEF ReplayInv, JobInv
  <2>2. \E k, c : job' \in {Advance, [Advance EXCEPT !.clean = c], [Advance EXCEPT !.spent = k]}
    BY Zenon DEF HaveInput, SpendInput, AddOutputs, RemoveOutputs, ApplyTxInUndo
  <2>3. job'.kind = job.kind /\ job'.block = job.block
    <3>1. Moved(job, job')
      <4>1. /\ Moved(job, Advance) /\ \A c : Moved(job, [Advance EXCEPT !.clean = c])
            /\ \A k : Moved(job, [Advance EXCEPT !.spent = k])
        BY <1>1, <2>1, AdvanceFields, Zenon
      <4> QED BY <2>2, <4>1, Zenon
    <3> QED BY <3>1 DEF Moved
  <2>4. job.kind = "disconnect" => viewBest = job.block
    BY <1>1, <2>1 DEF ViewAt, Finished
  <2> QED BY <1>1, <2>3, <2>4 DEF ViewAt
<1> QED BY <1>3, <1>4, <1>5, <1>6 DEF ReplayInv, JobInv

\* j is at the beginning of b.
AtStart(j, kind, b) ==
    /\ DOMAIN j = {"kind", "block", "i", "op", "spent", "clean"}
    /\ j.kind = kind /\ j.block = b /\ j.i = 1 /\ j.op = 1 /\ j.spent = <<>> /\ j.clean = TRUE

\* A new job is there.
LEMMA JobAtStart ==
    ASSUME NEW kind, NEW b
    PROVE  AtStart(Job(kind, b), kind, b)
BY DEF Job, AtStart

\* It has the type of a job.
LEMMA JobStartType ==
    ASSUME NEW kind \in {"connect", "disconnect"}, NEW b \in Hashes
    PROVE  JobType(Job(kind, b))
<1> DEFINE j == Job(kind, b)
<1>0. AtStart(j, kind, b)
  BY JobAtStart, Zenon
<1>1. /\ DOMAIN j = {"kind", "block", "i", "op", "spent", "clean"}
      /\ j.kind = kind /\ j.block = b /\ j.i = 1 /\ j.op = 1
  BY <1>0, Zenon DEF AtStart
<1>2. j.clean \in BOOLEAN
  BY <1>0, Zenon DEF AtStart
<1>3. Len(Vtx[b]) \in Nat
  BY BlockFacts
<1> HIDE DEF j
<1>4. ASSUME j.i <= Len(Vtx[b]) PROVE j.op \in 1..NumOps(j)
  <2>1. j.i \in 1..Len(Vtx[j.block])
    BY <1>1, <1>3, <1>4
  <2>2. NumOps(j) \in Nat \ {0}
    BY <1>1, <2>1, OpsAtLeastOne
  <2> QED BY <1>1, <2>2
<1>5. JobType(j)
  BY <1>1, <1>2, <1>3, <1>4 DEF JobType
<1> QED BY <1>5 DEF j

\* A block is begun: the view shows the coins at the tip.
LEMMA BeginReplay ==
    ASSUME CoinsInv, UndoInv, ReplayInv, (\E b \in Hashes : BeginConnect(b)) \/ BeginDisconnect
    PROVE  [CoinsNext]_coinsVars /\ ReplayInv'
<1>1. OpenView /\ flush = "fine" /\ UNCHANGED <<undo, diskUndo, lost>>
  BY DEF BeginConnect, BeginDisconnect, Idle
<1>2. /\ TipCoins' = TipCoins /\ ViewCoins' = [TipCoins EXCEPT ![RandPay] = RandPayCoins]
      /\ TipBest' = TipBest
  BY <1>1, OpenViewEffect
<1>3. TipCoins \in [Txids -> SUBSET Outs] /\ TipBest \in Best
  BY LayerTypes DEF CoinsInv, Best
<1>4. ShowsCoins(TipCoins, Utxo[TipBest], lost) /\ SoundAt(TipBest) /\ TipCoins[RandPay] = RandPayCoins
  BY <1>1 DEF ReplayInv, CoinsRight
<1>5. ShowsCoins(ViewCoins', Utxo[TipBest], lost) /\ ViewCoins'[RandPay] = RandPayCoins
  BY <1>2, <1>3, <1>4, CoinsAssumption DEF ShowsCoins
<1>6. flush' = "fine" /\ UNCHANGED <<db, dbBest>> /\ viewBest' = TipBest
  BY <1>1 DEF OpenView
<1>7. CoinsRight'
  BY <1>1, <1>2, <1>4, <1>5, <1>6 DEF ReplayInv, CoinsRight
<1>8. ASSUME NEW b \in Hashes, BeginConnect(b)
      PROVE  JobType(job') /\ JobRight(job', ViewCoins', undo', lost') /\ ViewAt(job', viewBest')
  <2>1. job' = Job("connect", b) /\ Prev[b] = TipBest
    BY <1>8 DEF BeginConnect
  <2>2. JobType(job')
    BY <2>1, JobStartType
  <2>3. job'.kind = "connect" /\ job'.block = b /\ job'.i = 1 /\ job'.op = 1 /\ job'.spent = <<>> /\ job'.clean = TRUE
    <3>1. AtStart(job', "connect", b)
      BY <2>1, JobAtStart, Zenon
    <3> QED BY <3>1, Zenon DEF AtStart
  <2>4. Connected(b, 1, <<>>, lost) /\ After(b, 0) = Utxo[TipBest] /\ Len(Vtx[b]) \in Nat
    BY <1>4, <2>1, ConnectedFirst, BlockFacts
  <2>5. CASE Len(Vtx[b]) = 0
    <3>1. ShowsCoins(ViewCoins', After(b, Len(Vtx[b])), lost)
      BY <1>5, <2>4, <2>5
    <3>2. ~(1 <= Len(Vtx[b]))
      BY <2>5
    <3>3. ConnectRight(job', ViewCoins', lost)
      BY <2>3, <2>4, <3>1, <3>2 DEF ConnectRight
    <3> QED BY <1>1, <2>2, <2>3, <3>3 DEF JobRight, ViewAt
  <2>6. CASE Len(Vtx[b]) # 0
    <3>1. 1 \in 1..Len(Vtx[b]) /\ 1 - 1 = 0 /\ ~(1 > Len(Vtx[b]))
      BY <2>4, <2>6
    <3>2. ShowsCoins(ViewCoins', After(b, 1 - 1), lost)
      BY <1>5, <2>4, <3>1
    <3>3. ConnectAt(b, 1, 1, <<>>, TRUE, ViewCoins', lost)
      BY <3>1, <3>2, ConnectFirst
    <3>4. ConnectAt(job'.block, job'.i, job'.op, job'.spent, job'.clean, ViewCoins', lost)
      BY <2>3, <3>3, Zenon
    <3>5. ConnectRight(job', ViewCoins', lost)
      BY <2>3, <2>4, <3>1, <3>4 DEF ConnectRight
    <3> QED BY <1>1, <2>2, <2>3, <3>5 DEF JobRight, ViewAt
  <2> QED BY <2>5, <2>6
<1>9. ASSUME BeginDisconnect
      PROVE  JobType(job') /\ JobRight(job', ViewCoins', undo', lost') /\ ViewAt(job', viewBest')
  <2> DEFINE b == TipBest
  <2>1. job' = Job("disconnect", b) /\ b # NullHash /\ Prev[b] # NullHash /\ b \in DOMAIN undo
    BY <1>9 DEF BeginDisconnect
  <2>2. b \in Hashes
    BY <1>3, <2>1 DEF Best
  <2> HIDE DEF b
  <2>3. JobType(job')
    BY <2>1, <2>2, JobStartType
  <2>4. job'.kind = "disconnect" /\ job'.block = b /\ job'.i = 1 /\ job'.op = 1 /\ job'.clean = TRUE
    <3>1. AtStart(job', "disconnect", b)
      BY <2>1, JobAtStart, Zenon
    <3> QED BY <3>1, Zenon DEF AtStart
  <2>5. After(b, Len(Vtx[b])) = Utxo[b] /\ Len(Vtx[b]) + 1 - 1 = Len(Vtx[b])
    BY <2>2, AfterFacts, BlockFacts
  <2>6. ShowsCoins(ViewCoins', After(b, Len(Vtx[b])), lost)
    BY <1>5, <2>5 DEF b
  <2>7. DisconnectAt(b, Len(Vtx[b]), 1, ViewCoins', lost)
    BY <2>6 DEF DisconnectAt
  <2>8. DisconnectRight(job', ViewCoins', undo', lost')
    BY <1>1, <2>1, <2>4, <2>5, <2>7 DEF DisconnectRight
  <2> QED BY <1>6, <2>3, <2>4, <2>8 DEF JobRight, ViewAt, b
<1>10. KnownUndo(undo', lost') /\ KnownUndo(diskUndo', lost')
  BY <1>1 DEF ReplayInv
<1> QED BY <1>1, <1>6, <1>7, <1>8, <1>9, <1>10 DEF ReplayInv, JobInv, CoinsNext

\* All transactions are worked through.
LEMMA FinishedFacts ==
    ASSUME ReplayInv, job # NoJob, Finished
    PROVE  /\ flush = "fine" /\ JobType(job) /\ JobRight(job, ViewCoins, undo, lost) /\ ViewAt(job, viewBest)
           /\ job.block \in Hashes /\ job.kind \in {"connect", "disconnect"}
           /\ Len(Vtx[job.block]) \in Nat /\ job.i = Len(Vtx[job.block]) + 1 /\ job.op = 1
<1>1. flush = "fine" /\ JobType(job) /\ JobRight(job, ViewCoins, undo, lost) /\ ViewAt(job, viewBest)
  BY DEF ReplayInv, JobInv
<1>2. job.block \in Hashes /\ job.kind \in {"connect", "disconnect"} /\ Len(Vtx[job.block]) \in Nat
  BY <1>1, BlockFacts DEF JobType
<1> QED BY <1>1, <1>2 DEF JobType, Finished

\* The end of a block: its undo data is complete.
LEMMA EndReplay ==
    ASSUME CoinsInv, UndoInv, ReplayInv, EndConnect \/ EndDisconnect
    PROVE  [CoinsNext]_coinsVars /\ ReplayInv'
<1> DEFINE b == job.block
<1>1. job # NoJob /\ Finished /\ UNCHANGED <<job, diskUndo, lost>> /\ \E h : SetBestBlock(h)
  BY DEF EndConnect, EndDisconnect
<1>2. /\ flush = "fine" /\ JobType(job) /\ JobRight(job, ViewCoins, undo, lost) /\ b \in Hashes
      /\ Len(Vtx[b]) \in Nat /\ job.i = Len(Vtx[b]) + 1
  BY <1>1, FinishedFacts
<1>3. UNCHANGED <<db, dbBest, tip, tipBest, view, flush>>
  BY <1>1 DEF SetBestBlock
<1>4. ViewCoins' = ViewCoins /\ SameBelow
  BY <1>3 DEF SameBelow, ViewCoins, TipCoins, TipBest
<1>5. CoinsRight' /\ flush' = "fine"
  BY <1>1, <1>2, <1>3, <1>4, SameRight DEF ReplayInv
<1>6. CASE EndConnect
  <2>1. /\ job.kind = "connect" /\ SetBestBlock(b)
        /\ undo' = IF b \in DOMAIN undo \/ Prev[b] = NullHash THEN undo
                   ELSE [x \in DOMAIN undo \cup {b} |-> IF x = b THEN job.spent ELSE undo[x]]
    BY <1>6 DEF EndConnect
  <2>2. Prev[b] = TipBest
    BY <1>1, <2>1 DEF UndoInv
  <2>3. SoundAt(Prev[b])
    BY <1>2, <2>2 DEF ReplayInv, CoinsRight
  <2>4. \A k \in 1..Len(Vtx[b]) : Done(b, k, job.spent, lost)
    BY <1>2, <2>1, ConnectedAll DEF JobRight, ConnectRight
  <2> HIDE DEF b
  <2>5. KnownUndo(undo', lost')
    BY <1>1, <2>1, <2>3, <2>4 DEF ReplayInv, KnownUndo
  <2>6. JobRight(job', ViewCoins', undo', lost')
    BY <1>1, <1>2, <1>4, <2>1 DEF JobRight
  <2>7. CoinsNext
    BY <1>2, <2>1 DEF CoinsNext
  <2>8. ViewAt(job', viewBest')
    BY <1>1, <2>1 DEF ViewAt
  <2> QED BY <1>1, <1>2, <1>5, <2>5, <2>6, <2>7, <2>8 DEF ReplayInv, JobInv
<1>7. CASE EndDisconnect
  <2>1. job.kind = "disconnect" /\ SetBestBlock(Prev[b]) /\ undo' = undo /\ job.clean
    BY <1>7 DEF EndDisconnect
  <2>2. Prev[b] \in Hashes
    BY <1>2, <2>1, PrevAssumption DEF JobRight, DisconnectRight
  <2>3. CoinsNext
    BY <2>1, <2>2 DEF CoinsNext
  <2>4. ViewAt(job', viewBest')
    BY <1>1, <2>1 DEF ViewAt, Finished
  <2> QED BY <1>1, <1>2, <1>4, <1>5, <2>1, <2>3, <2>4 DEF ReplayInv, JobInv
<1> QED BY <1>6, <1>7

\* No block is its own predecessor.
LEMMA OneBelow ==
    ASSUME NEW b \in Hashes
    PROVE  Prev[b] # b
<1>1. {b} \in SUBSET Hashes /\ {b} # {}
  OBVIOUS
<1> QED BY <1>1, PrevAssumption

\* The view shows the coins at the block it is said to be at.
LEMMA CommitReplay ==
    ASSUME CoinsInv, ReplayInv, Commit
    PROVE  [CoinsNext]_coinsVars /\ ReplayInv'
<1> DEFINE b == job.block
<1>1. /\ job # NoJob /\ Finished /\ FlushView /\ job' = NoJob /\ UNCHANGED <<undo, diskUndo, lost>>
      /\ viewBest = IF job.kind = "connect" THEN b ELSE Prev[b]
  BY DEF Commit
<1>2. /\ flush = "fine" /\ JobRight(job, ViewCoins, undo, lost) /\ ViewAt(job, viewBest) /\ b \in Hashes
      /\ job.kind \in {"connect", "disconnect"} /\ Len(Vtx[b]) \in Nat
      /\ job.i = Len(Vtx[b]) + 1 /\ job.op = 1
  BY <1>1, FinishedFacts
<1>3. TipCoins' = ViewCoins /\ ViewCoins' = ViewCoins /\ TipBest' = viewBest
  BY <1>1, <1>2, FlushViewEffect
<1>4. UNCHANGED <<db, dbBest, flush>>
  BY <1>1 DEF FlushView
<1>5. ShowsCoins(ViewCoins, Utxo[viewBest], lost) /\ SoundAt(viewBest)
  <2>1. CASE job.kind = "connect"
    <3>1. ConnectRight(job, ViewCoins, lost) /\ viewBest = b
      BY <1>1, <1>2, <2>1 DEF JobRight
    <3>2. ShowsCoins(ViewCoins, After(b, Len(Vtx[b])), lost) /\ Connected(b, Len(Vtx[b]) + 1, job.spent, lost)
      BY <1>2, <3>1 DEF ConnectRight
    <3> QED BY <1>2, <3>1, <3>2, ConnectedAll, AfterFacts
  <2>2. CASE job.kind = "disconnect"
    <3>1. DisconnectRight(job, ViewCoins, undo, lost) /\ viewBest = Prev[b]
      BY <1>1, <1>2, <2>2 DEF JobRight
    <3>0. Prev[b] # b
      BY <1>2, OneBelow
    <3>2. b \in DOMAIN undo /\ DisconnectAt(b, Len(Vtx[b]) + 1 - job.i, 1, ViewCoins, lost)
      BY <1>2, <2>2, <3>0, <3>1 DEF DisconnectRight, ViewAt
    <3>3. Len(Vtx[b]) + 1 - job.i = 0
      BY <1>2
    <3>4. ShowsCoins(ViewCoins, After(b, 0), lost)
      BY <3>2, <3>3 DEF DisconnectAt
    <3>5. SoundAt(Prev[b])
      BY <3>2 DEF ReplayInv, KnownUndo
    <3> QED BY <1>2, <3>1, <3>4, <3>5, AfterFacts
  <2> QED BY <1>2, <2>1, <2>2
<1>6. ViewCoins[RandPay] = RandPayCoins
  BY <1>2 DEF ReplayInv, CoinsRight
<1>7. CoinsRight'
  <2>1. ShowsCoins(TipCoins', Utxo[TipBest'], lost') /\ SoundAt(TipBest')
    BY <1>1, <1>3, <1>5
  <2>2. ShowsCoins(db', Utxo[dbBest'], lost') /\ SoundAt(dbBest')
    BY <1>1, <1>2, <1>4 DEF ReplayInv, CoinsRight
  <2> QED BY <1>3, <1>6, <2>1, <2>2 DEF CoinsRight
<1> QED BY <1>1, <1>7 DEF CoinsNext, ReplayInv, JobInv

\* The view goes and pcoinsTip is as before.
LEMMA GiveUpReplay ==
    ASSUME CoinsInv, ReplayInv, GiveUp
    PROVE  [CoinsNext]_coinsVars /\ ReplayInv'
<1>1. job # NoJob /\ DropView /\ job' = NoJob /\ UNCHANGED <<undo, diskUndo, lost>>
  BY DEF GiveUp
<1>2. flush = "fine"
  BY <1>1 DEF ReplayInv, JobInv
<1>3. TipCoins' = TipCoins /\ TipBest' = TipBest
  BY <1>1, <1>2, DropViewEffect
<1>4. UNCHANGED <<db, dbBest, flush>> /\ view' = EmptyCache
  BY <1>1 DEF DropView
<1>5. TipCoins' \in [Txids -> SUBSET Outs]
  BY <1>3, LayerTypes DEF CoinsInv
<1>6. ViewCoins' = TipCoins'
  BY <1>4, <1>5, EmptyShows DEF ViewCoins
<1>7. SameBelow
  BY <1>2, <1>3, <1>4, <1>6 DEF SameBelow, ReplayInv, CoinsRight
<1>8. CoinsRight'
  BY <1>1, <1>7, SameRight DEF ReplayInv
<1> QED BY <1>1, <1>8 DEF CoinsNext, ReplayInv, JobInv

\* Lookups of the memory pool are not seen.
LEMMA PoolReplay ==
    ASSUME CoinsInv, ReplayInv, PoolAccess
    PROVE  [CoinsNext]_coinsVars /\ ReplayInv'
<1>1. PICK t \in Txids : AccessTip(t) \/ Uncache(t)
  BY DEF PoolAccess
<1>2. flush = "fine" /\ job = NoJob /\ UNCHANGED <<job, undo, diskUndo, lost>>
  BY DEF PoolAccess, Idle
<1>3. TipCoins' = TipCoins /\ ViewCoins' = ViewCoins
  BY <1>1, <1>2, AccessTipEffect, UncacheEffect
<1>4. SameBelow
  BY <1>1, <1>3 DEF SameBelow, AccessTip, Uncache, TipBest
<1>5. CoinsRight'
  BY <1>2, <1>4, SameRight DEF ReplayInv
<1> QED BY <1>1, <1>2, <1>5 DEF CoinsNext, ReplayInv, JobInv

\* FlushStateToDisk.
LEMMA FlushReplay ==
    ASSUME CoinsInv, ReplayInv, WriteIndex \/ FullFlush \/ FullFlushFails
    PROVE  [CoinsNext]_coinsVars /\ ReplayInv'
<1>1. job = NoJob /\ diskUndo' = undo /\ UNCHANGED <<job, undo, lost>>
  BY DEF WriteIndex, FullFlush, FullFlushFails
<1>2. [CoinsNext]_coinsVars /\ CoinsRight'
  <2>1. CASE WriteIndex
    <3>1. UNCHANGED coinsVars
      BY <2>1 DEF WriteIndex
    <3> QED BY <1>1, <3>1, UnchangedBelow, SameRight DEF ReplayInv
  <2>2. CASE FullFlush
    <3>1. FlushTip
      BY <2>2 DEF FullFlush
    <3>2. CASE flush = "fine"
      <4>1. /\ db' = TipCoins /\ TipCoins' = TipCoins /\ ViewCoins' = ViewCoins
            /\ dbBest' = TipBest /\ TipBest' = TipBest
        BY <3>1, <3>2, FlushTipEffect
      <4>2. CoinsRight'
        BY <1>1, <3>2, <4>1 DEF ReplayInv, CoinsRight
      <4> QED BY <3>1, <4>2 DEF CoinsNext
    <3>3. CASE flush # "fine"
      <4>1. flush' = "retried"
        BY <3>1, <3>3 DEF FlushTip
      <4> QED BY <3>1, <4>1 DEF CoinsNext, CoinsRight
    <3> QED BY <3>2, <3>3
  <2>3. CASE FullFlushFails
    <3>1. FlushTipFails
      BY <2>3 DEF FullFlushFails
    <3>2. flush' # "fine" /\ (flush' # "retried" => flush # "retried") /\ UNCHANGED <<db, dbBest>>
      BY <3>1 DEF FlushTipFails
    <3>3. CoinsRight'
      BY <1>1, <3>2 DEF ReplayInv, CoinsRight
    <3> QED BY <3>1, <3>3 DEF CoinsNext
  <2> QED BY <2>1, <2>2, <2>3
<1> QED BY <1>1, <1>2 DEF ReplayInv, JobInv

\* A restart: the coins and the undo data on disk belong together.
LEMMA RestartReplay ==
    ASSUME CoinsInv, ReplayInv, RestartNode
    PROVE  [CoinsNext]_coinsVars /\ ReplayInv'
<1>1. Restart /\ job' = NoJob /\ undo' = diskUndo /\ diskUndo' = diskUndo /\ lost' = lost
  BY DEF RestartNode
<1>2. /\ TipCoins' = [db EXCEPT ![RandPay] = RandPayCoins] /\ ViewCoins' = TipCoins'
      /\ TipBest' = dbBest
  BY <1>1, RestartEffect DEF CoinsInv
<1>3. UNCHANGED <<db, dbBest>> /\ (flush' # "retried" => flush # "retried") /\ (flush' = "fine" => flush # "retried")
  BY <1>1 DEF Restart
<1>4. db \in [Txids -> SUBSET Outs]
  BY LayerTypes DEF CoinsInv
<1>5. CoinsRight'
  BY <1>1, <1>2, <1>3, <1>4, CoinsAssumption DEF ReplayInv, CoinsRight, ShowsCoins
<1> QED BY <1>1, <1>5 DEF CoinsNext, ReplayInv, JobInv

\* Every step is one of the caches, and keeps the invariant.
LEMMA ReplayNext ==
    ASSUME OnceOnly, UtxoInv, [UtxoNext]_utxoVars
    PROVE  [CoinsNext]_coinsVars /\ UtxoInv'
<1>0. CoinsInv /\ UndoInv /\ ReplayInv
  BY DEF UtxoInv
<1>1. [CoinsNext]_coinsVars /\ ReplayInv'
  <2>1. CASE UNCHANGED utxoVars
    <3>1. UNCHANGED coinsVars /\ UNCHANGED <<job, undo, diskUndo, lost>> /\ viewBest' = viewBest
      BY <2>1 DEF utxoVars, coinsVars
    <3>2. SameBelow /\ ViewCoins' = ViewCoins
      BY <3>1, UnchangedBelow
    <3>3. CoinsRight' /\ flush' = flush
      BY <1>0, <3>1, <3>2, SameRight DEF ReplayInv, SameBelow
    <3> QED BY <1>0, <3>1, <3>2, <3>3 DEF ReplayInv, JobInv
  <2> QED BY <1>0, <2>1, BeginReplay, WorkReplay, EndReplay, CommitReplay, GiveUpReplay, PoolReplay,
             FlushReplay, RestartReplay DEF UtxoNext
<1>2. CoinsInv'
  BY <1>0, <1>1, CoinsInvNext
<1>3. UndoInv'
  BY <1>0, UndoNext
<1> QED BY <1>1, <1>2, <1>3 DEF UtxoInv

\* An empty chainstate.
LEMMA UtxoInvInit == UtxoInit => UtxoInv
<1> SUFFICES ASSUME UtxoInit PROVE UtxoInv
  OBVIOUS
<1>1. CoinsInv
  BY CoinsInvInit DEF UtxoInit
<1>2. UndoInv
  BY BelowNull DEF UtxoInit, CoinsInit, UndoInv, Covered, TipBest, Best
<1>3. KnownUndo(undo, lost) /\ KnownUndo(diskUndo, lost) /\ JobInv
  BY DEF UtxoInit, KnownUndo, JobInv
<1>4. /\ db = [t \in Txids |-> {}] /\ db \in [Txids -> SUBSET Outs] /\ dbBest = NullHash /\ TipBest = NullHash
      /\ tip = NewCache /\ view = EmptyCache
  BY DEF UtxoInit, CoinsInit, TipBest
<1>5. SoundAt(NullHash) /\ Utxo[NullHash] = db
  <2>1. TxsBelow(NullHash) = {}
    BY BelowNull DEF TxsBelow
  <2> QED BY <1>4, <2>1, UtxoOfNull DEF SoundAt, Sound
<1>6. TipCoins = [db EXCEPT ![RandPay] = RandPayCoins]
  BY <1>4, EmptyShows DEF TipCoins
<1>7. ViewCoins = TipCoins
  <2>1. TipCoins \in [Txids -> SUBSET Outs]
    BY <1>4, <1>6, CoinsAssumption
  <2> QED BY <1>4, <2>1, EmptyShows DEF ViewCoins
<1>8. CoinsRight
  BY <1>4, <1>5, <1>6, <1>7, CoinsAssumption DEF CoinsRight, ShowsCoins, Near
<1> QED BY <1>1, <1>2, <1>3, <1>8 DEF UtxoInv, ReplayInv

\* The invariant holds in every reachable state.
LEMMA UtxoAlways == ASSUME OnceOnly PROVE UtxoSpec => []UtxoInv
<1>1. UtxoInv /\ [UtxoNext]_utxoVars => UtxoInv'
  BY ReplayNext
<1> QED BY <1>1, UtxoInvInit, PTL DEF UtxoSpec

(***************************************************************************)
(* Theorems about the coins.                                               *)
(***************************************************************************)

\* pcoinsTip and the database hold the outputs that a replay of the chain of their
\* best block leaves unspent, for any tree of blocks and any transactions, through
\* ConnectBlock, DisconnectBlock, blocks given up half way, FlushStateToDisk and
\* restarts: never one that is spent, and all but those that DisconnectBlock did not
\* restore at a fork height.
THEOREM CoinsAreReplay == ASSUME OnceOnly PROVE UtxoSpec => []UtxoExact
<1>1. \A c, b : ShowsCoins(c, Utxo[b], lost) => Represents(c, b)
  BY DEF ShowsCoins, Near, Represents
<1>2. UtxoInv => UtxoExact
  BY <1>1 DEF UtxoInv, ReplayInv, CoinsRight, UtxoExact
<1> QED BY <1>2, UtxoAlways, PTL

\* DisconnectBlock finds the outputs it must remove as the block made them, and
\* ApplyTxInUndo never complains, unless an output of a transaction concerned was left
\* unrestored before: undo data that ConnectBlock recorded, on whichever branch and
\* before whichever restart, fits the coins it is applied to.
THEOREM UndoIsClean == ASSUME OnceOnly PROVE UtxoSpec => []UndoClean
<1>1. MarredBy(job.block, lost) => Marred(job.block)
  BY DEF MarredBy, Marred
<1>2. UtxoInv => UndoClean
  BY <1>1 DEF UtxoInv, ReplayInv, JobInv, JobRight, DisconnectRight, UndoClean
<1> QED BY <1>2, UtxoAlways, PTL

\* ConnectBlock and DisconnectBlock use the caches as CoinsCache says their callers
\* do: they leave the randpay output alone, and AddCoins finds nothing unspent.
THEOREM BlocksUseCaches == ASSUME OnceOnly PROVE UtxoSpec => CoinsSpec
<1>1. UtxoInit => CoinsInit
  BY DEF UtxoInit
<1>2. UtxoInv /\ [UtxoNext]_utxoVars => [CoinsNext]_coinsVars
  BY ReplayNext
<1> QED BY <1>1, <1>2, UtxoAlways, PTL DEF UtxoSpec, CoinsSpec

\* Under blocks, too, the caches are the plain maps of CoinsView and no logic_error
\* is thrown.
THEOREM BlocksSeeMaps == ASSUME OnceOnly PROVE UtxoSpec => MapsSpec /\ []NeverThrows
BY BlocksUseCaches, CachesAreMaps, NoLogicError, PTL
=============================================================================
