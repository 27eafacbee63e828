------------------------------ MODULE CoinsCache ------------------------------
(***************************************************************************)
(* The caches over the chainstate database (src/coins.cpp, src/txdb.cpp):  *)
(* pcoinsTip, and the view ConnectTip and DisconnectTip stack on it.  An   *)
(* entry carries the flags DIRTY (differs from the layer below) and FRESH  *)
(* (the layer below has nothing unspent), and both decide what a flush     *)
(* writes, erases and leaves out.                                          *)
(*                                                                         *)
(* CCoins is the set of the outputs that are not null; heights and times   *)
(* are left out.  Every CCoinsModifier of the node lives for one           *)
(* statement or block with no other modifier, so taking it, changing the   *)
(* coins and its destructor are one action, and hasModifier is not a       *)
(* variable.  The memory accounting decides only when pcoinsTip is         *)
(* flushed, which is any time here.                                        *)
(***************************************************************************)
CONSTANTS
    Txids, Outs,        \* transactions and the positions of their outputs
    Hashes, NullHash,   \* blocks, and the hash that IsNull()
    RandPay,            \* randpaytx
    RandPayCoins,       \* its one output
    NoEntry             \* cacheCoins.end()

Entry == [coins : SUBSET Outs, dirty : BOOLEAN, fresh : BOOLEAN]

ASSUME CoinsAssumption ==
    /\ RandPay \in Txids /\ RandPayCoins \in SUBSET Outs /\ RandPayCoins # {}
    /\ NullHash \notin Hashes
    /\ NoEntry \notin Entry

VARIABLES
    db, dbBest,         \* CCoinsViewDB; {} is a transaction without a record
    tip, tipBest,       \* pcoinsTip: cacheCoins and hashBlock
    view, viewBest,     \* the view on top of it
    open,               \* there is one
    threw,              \* a logic_error was thrown
    flush               \* "failed" after a failed write, "retried" after another

coinsVars == <<db, dbBest, tip, tipBest, view, viewBest, open, threw, flush>>

-----------------------------------------------------------------------------
(* One layer over another.                                                 *)

IsPruned(c) == c = {}

\* The coins a lookup in a cache gives when the layer below gives below.
Seen(cache, below, t) == IF cache[t] # NoEntry THEN cache[t].coins ELSE below[t]

TipCoins == [t \in Txids |-> Seen(tip, db, t)]
ViewCoins == [t \in Txids |-> Seen(view, TipCoins, t)]

\* Mutant: what the layer below has is taken for new.
FetchCoins_Fresh(cache, t, found, c) ==
    IF cache[t] # NoEntry \/ ~found THEN cache
    ELSE [cache EXCEPT ![t] = [coins |-> c, dirty |-> FALSE, fresh |-> TRUE]]

\* FetchCoins, where the layer below answers found and c.
FetchCoins(cache, t, found, c) ==
    IF cache[t] # NoEntry \/ ~found THEN cache
    ELSE [cache EXCEPT ![t] = [coins |-> c, dirty |-> FALSE, fresh |-> IsPruned(c)]]

\* GetCoins of the database and of pcoinsTip; the latter fills its cache.
DbHas(t) == ~IsPruned(db[t])
TipFetched(t) == FetchCoins(tip, t, DbHas(t), db[t])
TipHas(t) == TipFetched(t)[t] # NoEntry

\* ~CCoinsModifier: coins that were not below and are spent leave no trace.
Modified(cache, t, entry, c) ==
    [cache EXCEPT ![t] = IF entry.fresh /\ IsPruned(c) THEN NoEntry
                         ELSE [coins |-> c, dirty |-> TRUE, fresh |-> entry.fresh]]

\* The entry ModifyCoins works on.
ModifyEntry(cache, t, found, c) ==
    IF cache[t] # NoEntry THEN cache[t]
    ELSE [coins |-> IF found THEN c ELSE {}, dirty |-> TRUE, fresh |-> ~found \/ IsPruned(c)]

\* The entry ModifyNewCoins works on: nothing is read from the layer below.
NewEntry(cache, t, coinbase) ==
    LET e == IF cache[t] # NoEntry THEN cache[t]
             ELSE [coins |-> {}, dirty |-> FALSE, fresh |-> FALSE]
    IN  [coins |-> e.coins, dirty |-> e.dirty, fresh |-> e.fresh \/ (~coinbase /\ ~e.dirty)]

\* Mutant: the parent takes the FRESH flag of the child.
BatchEntry_FreshUp(c, p) ==
    IF c = NoEntry \/ (c # NoEntry /\ ~c.dirty) THEN p
    ELSE IF p = NoEntry
         THEN IF c.fresh /\ IsPruned(c.coins) THEN NoEntry
              ELSE [coins |-> c.coins, dirty |-> TRUE, fresh |-> c.fresh]
         ELSE IF p.fresh /\ IsPruned(c.coins) THEN NoEntry
              ELSE [coins |-> c.coins, dirty |-> TRUE, fresh |-> p.fresh \/ c.fresh]

\* What CCoinsViewCache::BatchWrite makes of the parent's p, given the child's c.
BatchEntry(c, p) ==
    IF c = NoEntry \/ (c # NoEntry /\ ~c.dirty) THEN p
    ELSE IF p = NoEntry
         THEN IF c.fresh /\ IsPruned(c.coins) THEN NoEntry
              ELSE [coins |-> c.coins, dirty |-> TRUE, fresh |-> c.fresh]
         ELSE IF p.fresh /\ IsPruned(c.coins) THEN NoEntry
              ELSE [coins |-> c.coins, dirty |-> TRUE, fresh |-> p.fresh]

\* "FRESH flag misapplied to cache entry for base transaction with spendable outputs"
Misapplied(c, p) ==
    /\ c # NoEntry /\ p # NoEntry
    /\ c.dirty /\ c.fresh /\ ~IsPruned(p.coins)

\* GetBestBlock of pcoinsTip
TipBest == IF tipBest = NullHash THEN dbBest ELSE tipBest

EmptyCache == [t \in Txids |-> NoEntry]

\* The constructor puts the randpay output into every new cache.
NewCache == [EmptyCache EXCEPT ![RandPay] =
                [coins |-> RandPayCoins, dirty |-> TRUE, fresh |-> FALSE]]

-----------------------------------------------------------------------------
(* Operations.                                                             *)

CoinsInit ==
    /\ db = [t \in Txids |-> {}] /\ dbBest = NullHash
    /\ tip = NewCache /\ tipBest = NullHash
    /\ view = EmptyCache /\ viewBest = NullHash
    /\ open = FALSE
    /\ threw = FALSE
    /\ flush = "fine"

\* CCoinsViewCache view(pcoinsTip), and the GetBestBlock that ConnectBlock and
\* DisconnectBlock begin with.
OpenView ==
    /\ ~open /\ ~threw
    /\ open' = TRUE
    /\ view' = NewCache /\ viewBest' = TipBest /\ tipBest' = TipBest
    /\ UNCHANGED <<db, dbBest, tip, threw, flush>>

\* AccessCoins, HaveCoins, GetCoins of pcoinsTip, by the memory pool
AccessTip(t) ==
    /\ ~threw
    /\ tip' = TipFetched(t)
    /\ UNCHANGED <<db, dbBest, tipBest, view, viewBest, open, threw, flush>>

\* ... and of the view
AccessView(t) ==
    /\ open /\ ~threw
    /\ tip' = IF view[t] # NoEntry THEN tip ELSE TipFetched(t)
    /\ view' = FetchCoins(view, t, TipHas(t), TipCoins[t])
    /\ UNCHANGED <<db, dbBest, tipBest, viewBest, open, threw, flush>>

\* ModifyCoins of the view, which changes the coins to c.
ModifyCoins(t, c) ==
    /\ open /\ ~threw
    /\ tip' = IF view[t] # NoEntry THEN tip ELSE TipFetched(t)
    /\ view' = Modified(view, t, ModifyEntry(view, t, TipHas(t), TipCoins[t]), c)
    /\ UNCHANGED <<db, dbBest, tipBest, viewBest, open, threw, flush>>

\* ModifyNewCoins of the view.  It throws when it finds unspent coins; it
\* assumes that there are none below either.
ModifyNewCoins(t, coinbase, c) ==
    /\ open /\ ~threw
    /\ LET e == NewEntry(view, t, coinbase)
       IN  IF ~coinbase /\ ~IsPruned(e.coins)
           THEN threw' = TRUE /\ UNCHANGED view
           ELSE view' = Modified(view, t, e, c) /\ UNCHANGED threw
    /\ UNCHANGED <<db, dbBest, tip, tipBest, viewBest, open, flush>>

SetBestBlock(h) ==
    /\ open /\ ~threw
    /\ viewBest' = h
    /\ UNCHANGED <<db, dbBest, tip, tipBest, view, open, threw, flush>>

\* view.Flush(): BatchWrite of pcoinsTip.
FlushView ==
    /\ open /\ ~threw
    /\ IF \E t \in Txids : Misapplied(view[t], tip[t])
       THEN threw' = TRUE /\ UNCHANGED <<tip, tipBest, view, viewBest, open>>
       ELSE /\ tip' = [t \in Txids |-> BatchEntry(view[t], tip[t])]
            /\ tipBest' = viewBest
            /\ view' = EmptyCache /\ viewBest' = NullHash /\ open' = FALSE
            /\ UNCHANGED threw
    /\ UNCHANGED <<db, dbBest, flush>>

\* The view goes out of scope.
DropView ==
    /\ open /\ ~threw
    /\ view' = EmptyCache /\ viewBest' = NullHash /\ open' = FALSE
    /\ UNCHANGED <<db, dbBest, tip, tipBest, threw, flush>>

\* Mutant: an entry that is FRESH only is taken for unmodified, as is one that
\* is DIRTY.
Uncache_Dirty(t) ==
    /\ ~threw
    /\ tip' = [tip EXCEPT ![t] = NoEntry]
    /\ UNCHANGED <<db, dbBest, tipBest, view, viewBest, open, threw, flush>>

Uncache(t) ==
    /\ ~threw
    /\ tip[t] # NoEntry /\ ~tip[t].dirty /\ ~tip[t].fresh
    /\ tip' = [tip EXCEPT ![t] = NoEntry]
    /\ UNCHANGED <<db, dbBest, tipBest, view, viewBest, open, threw, flush>>

\* pcoinsTip->Flush(): CCoinsViewDB::BatchWrite is one batch.  The cache is empty
\* afterwards; the randpay output is in the database.
FlushTip ==
    /\ ~threw
    /\ db' = [t \in Txids |-> IF tip[t] # NoEntry /\ tip[t].dirty THEN tip[t].coins ELSE db[t]]
    /\ dbBest' = TipBest
    /\ tip' = EmptyCache
    /\ flush' = IF flush = "fine" THEN "fine" ELSE "retried"
    /\ UNCHANGED <<tipBest, view, viewBest, open, threw>>

\* The batch is not written: the entries are already gone from cacheCoins, and
\* hashBlock stays.
FlushTipFails ==
    /\ ~threw
    /\ tip' = EmptyCache
    /\ flush' = IF flush = "fine" THEN "failed" ELSE flush
    /\ UNCHANGED <<db, dbBest, tipBest, view, viewBest, open, threw>>

\* The process stops at any point and starts again.
Restart ==
    /\ tip' = NewCache /\ tipBest' = NullHash
    /\ view' = EmptyCache /\ viewBest' = NullHash /\ open' = FALSE
    /\ threw' = FALSE
    /\ flush' = IF flush = "retried" THEN "retried" ELSE "fine"
    /\ UNCHANGED <<db, dbBest>>

\* The callers leave the randpay output alone, and create coins only where
\* nothing is unspent (BIP 30).
CoinsNext ==
    \/ OpenView
    \/ \E t \in Txids : AccessTip(t) \/ AccessView(t) \/ Uncache(t)
    \/ \E t \in Txids \ {RandPay}, c \in SUBSET Outs : ModifyCoins(t, c)
    \/ \E t \in Txids \ {RandPay}, c \in SUBSET Outs, coinbase \in BOOLEAN :
          (coinbase \/ IsPruned(ViewCoins[t])) /\ ModifyNewCoins(t, coinbase, c)
    \/ \E h \in Hashes : SetBestBlock(h)
    \/ FlushView \/ DropView \/ FlushTip \/ FlushTipFails \/ Restart

CoinsSpec == CoinsInit /\ [][CoinsNext]_coinsVars

-----------------------------------------------------------------------------
(* Properties.                                                             *)

Cache == [Txids -> Entry \cup {NoEntry}]

\* The types of the caches, the database and the flags.
CoinsTypeOK ==
    /\ db \in [Txids -> SUBSET Outs]
    /\ tip \in Cache /\ view \in Cache
    /\ {dbBest, tipBest, viewBest} \subseteq Hashes \cup {NullHash}
    /\ open \in BOOLEAN /\ threw \in BOOLEAN
    /\ flush \in {"fine", "failed", "retried"}

\* What the flags of an entry say of the layer below: nothing is unspent there
\* when it is FRESH, and it agrees with the entry when it is not DIRTY.
FlagsSound(cache, below) ==
    \A t \in Txids : cache[t] # NoEntry =>
        /\ cache[t].fresh => IsPruned(below[t])
        /\ ~cache[t].dirty => cache[t].coins = below[t]

\* The flags of both caches are true of the layers below them, whatever was
\* fetched, modified, written down, uncached or lost in a restart, as long as no
\* write failed (CCoinsCacheEntry: "not mark FRESH if that condition is not
\* guaranteed").
FlagsTrue ==
    flush = "fine" => FlagsSound(tip, db) /\ FlagsSound(view, TipCoins)

\* Neither ModifyNewCoins nor BatchWrite ever throws its logic_error.
NeverThrows == flush = "fine" => ~threw

(* The maps of CoinsView that the caches stand for.                        *)
ShownView == IF open THEN ViewCoins ELSE TipCoins
ShownBest == IF open THEN viewBest ELSE TipBest
Promise == IF flush = "fine" THEN "kept" ELSE IF flush = "failed" THEN "disk" ELSE "undefined"

Maps == INSTANCE CoinsView WITH
    view <- ShownView, tip <- TipCoins, disk <- db,
    viewBest <- ShownBest, tipBest <- TipBest, diskBest <- dbBest,
    promise <- Promise

\* The caches implement the plain maps of CoinsView: flags, fetches and uncached
\* entries are invisible, a flush of a view or of pcoinsTip takes over all of it.
MapsSpec == Maps!AbsSpec
=============================================================================
