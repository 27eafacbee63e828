---------------------------- MODULE NameMempool ----------------------------
(***************************************************************************)
(* The memory pool of an MFCoin node and mapNamePending, the map by which  *)
(* the node keeps more than one operation per name out of the pool and     *)
(* name_operation refuses to start a second one, composed with the name    *)
(* index: AcceptToMemoryPool, the removals that follow eviction, block     *)
(* connection and reorganisation, and the resurrection of the transactions *)
(* of a disconnected block.                                                *)
(*                                                                         *)
(* Policy (fees, sizes, finality, standardness, replacement) is a free     *)
(* choice: a transaction that passes the checks modelled here may still be *)
(* refused.                                                                *)
(***************************************************************************)
EXTENDS NameIndex

VARIABLES
    mempool,            \* the transactions of the memory pool
    mapNamePending,     \* name -> transactions AddToPendingNames was called for
    raised              \* DisconnectTip: how many transactions were resurrected

poolVars == <<mempool, mapNamePending, raised>>
allVars == <<vars, poolVars>>

-----------------------------------------------------------------------------
(* The memory pool.                                                        *)

Spends(t, s) == \E o \in t.vin : o[1] = s.hash

\* CalculateDescendants: the smallest part of pool that contains S and every
\* transaction spending an output of one in it.
ClosedIn(C, pool) == \A t \in pool : (\E s \in C : Spends(t, s)) => t \in C
Descendants(S, pool) == {t \in pool : \A C \in SUBSET pool :
                            (S \subseteq C /\ ClosedIn(C, pool)) => t \in C}

\* mapNextTx: the transactions of the pool that spend an input of t.
ConflictsOf(t, pool) == {s \in pool : s # t /\ s.vin \cap t.vin # {}}

\* Mutant: the children of a transaction that is not in the pool are kept.
RemoveRecursive_NoChildren(t, pool) == pool \ Descendants({t} \cap pool, pool)

\* removeRecursive: t with its descendants, or the children of t with theirs.
RemoveRecursive(t, pool) ==
    pool \ Descendants(IF t \in pool THEN {t} ELSE {s \in pool : Spends(s, t)}, pool)

\* removeForBlock
RemoveForBlock(blk, pool) ==
    LET rest == pool \ {blk[i] : i \in DOMAIN blk}
    IN  rest \ Descendants(UNION {ConflictsOf(blk[i], rest) : i \in DOMAIN blk}, rest)

\* The chain whose coins pcoinsTip holds: DisconnectBlock is flushed before the
\* tip moves.
CoinsTip == IF job.phase = "disconnect" THEN SubSeq(chain, 1, Len(chain) - 1) ELSE chain

HaveInputs(c, pool, t) ==
    \A o \in t.vin : /\ \E s \in TxsOf(c) \cup pool : s.hash = o[1]
                     /\ \A s \in TxsOf(c) : o \notin s.vin

\* Mutant: CheckPendingNames does not look at mapNamePending.
CheckPendingNames_Any(t) == t \notin TxsOf(CoinsTip)

CheckPendingNames(t) == t \notin TxsOf(CoinsTip) /\ mapNamePending[t.name] = {}

\* What AcceptToMemoryPoolWorker requires whatever the policy.
Acceptable(t) ==
    /\ ~t.generated
    /\ t.op # "none" => CheckPendingNames(t)
    /\ t \notin mempool /\ t \notin TxsOf(CoinsTip)
    /\ HaveInputs(CoinsTip, mempool, t)
    /\ \A s \in Descendants(ConflictsOf(t, mempool), mempool) : ~Spends(t, s)

\* The pool with t in the place of the transactions it conflicts with.
Replaced(t) == (mempool \ Descendants(ConflictsOf(t, mempool), mempool)) \cup {t}

AddToPendingNames(t) ==
    IF t.op = "none" THEN mapNamePending
    ELSE [mapNamePending EXCEPT ![t.name] = @ \cup {t}]

-----------------------------------------------------------------------------
MempoolInit ==
    /\ Init
    /\ mempool = {}
    /\ mapNamePending = [n \in Name |-> {}]
    /\ raised = 0

\* A transaction from a peer, the wallet or mempool.dat.  LimitMempoolSize then
\* evicts transactions with their descendants; when t is one of them it is
\* refused, and not pending.
AcceptToMemoryPool(t, evicted) ==
    /\ Idle
    /\ Acceptable(t)
    /\ ClosedIn(evicted, Replaced(t))
    /\ mempool' = Replaced(t) \ evicted
    /\ mapNamePending' = IF t \in evicted THEN mapNamePending ELSE AddToPendingNames(t)
    /\ UNCHANGED <<vars, raised>>

\* Expire, TrimToSize and removeForReorg.
RemoveStaged(removed) ==
    /\ Idle
    /\ removed # {} /\ ClosedIn(removed, mempool)
    /\ mempool' = mempool \ removed
    /\ UNCHANGED <<vars, mapNamePending, raised>>

\* The head of the loop of CNamecoinHooks::ConnectBlock removes the operation
\* from mapNamePending, a second name_new that is not written included.
ConnectPending ==
    /\ ConnectName
    /\ LET t == job.blk[NextUp(job.todo)] IN
       mapNamePending' = [mapNamePending EXCEPT ![t.name] = @ \ {t}]
    /\ UNCHANGED <<mempool, raised>>

ConnectTip ==
    /\ EndConnect
    /\ mempool' = RemoveForBlock(job.blk, mempool)
    /\ UNCHANGED <<mapNamePending, raised>>

\* DisconnectTip offers the transactions of the block to the pool in their
\* order, without a limit on its size, and drops what depends on the refused.
Resurrect ==
    /\ job.phase = "disconnect" /\ job.todo = {}
    /\ raised < Len(job.blk)
    /\ LET t == job.blk[raised + 1] IN
       \/ /\ Acceptable(t)
          /\ mempool' = Replaced(t)
          /\ mapNamePending' = AddToPendingNames(t)
       \/ /\ mempool' = RemoveRecursive(t, mempool)
          /\ UNCHANGED mapNamePending
    /\ raised' = raised + 1
    /\ UNCHANGED vars

DisconnectTip ==
    /\ EndDisconnect
    /\ raised = Len(job.blk)
    /\ raised' = 0
    /\ UNCHANGED <<mempool, mapNamePending>>

\* Neither the pool nor mapNamePending survives a restart (what mempool.dat
\* held is offered again).
RestartEmpty ==
    /\ \E keepName, keepAddr \in BOOLEAN : Restart(keepName, keepAddr)
    /\ mempool' = {}
    /\ mapNamePending' = [n \in Name |-> {}]
    /\ raised' = 0

IndexOnly ==
    /\ \/ \E b \in Blocks : BeginConnect(b)
       \/ BeginDisconnect
       \/ DisconnectName
       \/ FlushStateToDisk
       \/ Crash
       \/ CrashBetweenWrites
       \/ RebuildNextBlock
    /\ UNCHANGED poolVars

MempoolNext ==
    \/ \E t \in Tx : \E evicted \in SUBSET Replaced(t) : AcceptToMemoryPool(t, evicted)
    \/ \E removed \in SUBSET mempool : RemoveStaged(removed)
    \/ ConnectPending
    \/ ConnectTip
    \/ Resurrect
    \/ DisconnectTip
    \/ RestartEmpty
    \/ IndexOnly

MempoolSpec == MempoolInit /\ [][MempoolNext]_allVars

-----------------------------------------------------------------------------
(* Properties.                                                             *)

MempoolTypeOK ==
    /\ mempool \subseteq Tx
    /\ mapNamePending \in [Name -> SUBSET Tx]
    /\ raised \in Nat

\* "rather not accept more than one name op on the same name": the pool of a
\* running node never holds two operations on one name, so that no block made
\* from it does, through replacements, evictions and reorganisations that put
\* the operations of several blocks back.
OneOpInPool ==
    Running => \A t, u \in mempool :
        (t.op # "none" /\ u.op # "none" /\ t.name = u.name) => t = u

\* What CTxMemPool::check asserts: between blocks the inputs of every
\* transaction of the pool are unspent outputs of the chain or outputs of the
\* pool, and no two transactions of the pool spend the same one.
PoolSpendable ==
    Idle => \A t \in mempool :
                HaveInputs(chain, mempool, t) /\ ConflictsOf(t, mempool) = {}
=============================================================================
