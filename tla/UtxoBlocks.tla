------------------------------ MODULE UtxoBlocks ------------------------------
(***************************************************************************)
(* The unspent outputs under blocks (src/validation.cpp): ConnectBlock and *)
(* DisconnectBlock work on a view over pcoinsTip, undo data goes to the    *)
(* block files and its position to the block index, FlushStateToDisk       *)
(* writes the index and then the coins, and the process may stop anywhere. *)
(*                                                                         *)
(* cs_main is held from the construction of the view to the end of its     *)
(* flush, so the memory pool and FlushStateToDisk wait for it.  A block is *)
(* worked through one lookup or modification at a time, each a step of     *)
(* CoinsCache.  What else can make ConnectBlock fail (scripts, fees, the   *)
(* check of a template) is a choice to give up.  Which block is connected  *)
(* or disconnected next is left open.  So is what the blocks at the fork   *)
(* heights hold: the comparison with the snapshot file is not modelled.    *)
(***************************************************************************)
EXTENDS CoinsCache, Integers, Sequences, SequencesExt

CONSTANTS
    Prev,       \* pprev, a function on Hashes; NullHash for the genesis block
    Vtx,        \* block -> its transactions, in order
    Vin,        \* transaction -> the outpoints <<txid, n>> it spends, in order
    Vout,       \* transaction -> the positions of its spendable outputs
    Coinbase,   \* the transactions with IsCoinBase()
    forkHeightRange,    \* the last height at which blocks of a snapshot are expected
    forkCBPerBlock,     \* the coinbases such a block may have beside the first
    NoJob       \* no block is being connected or disconnected

\* A hash commits to the block below, so that no block is below itself.
ASSUME PrevAssumption ==
    /\ Prev \in [Hashes -> Hashes \cup {NullHash}]
    /\ \A S \in SUBSET Hashes : S # {} => \E b \in S : Prev[b] \notin S

\* nHeight of a block
Height[b \in Hashes \cup {NullHash}] == IF b = NullHash THEN -1 ELSE Height[Prev[b]] + 1

\* "verify with file": heights 1 to forkHeightRange (forkStartHeight is 0)
isForkBlock(nHeight) == 0 < nHeight /\ nHeight <= forkHeightRange

\* "when block in forking region - all transactions are coinbase": the last place,
\* counted from 0, at which DisconnectBlock takes a transaction for a coinbase
nNonCBIdx(b) == IF isForkBlock(Height[b]) THEN forkCBPerBlock ELSE 0

\* Whether the inputs of the i-th transaction, counted from 1, are restored.
RestoresInputs(b, i) == i - 1 > nNonCBIdx(b)

\* CheckTransaction refuses a transaction that spends an output twice, CheckBlock a
\* block that does not begin with a coinbase, and ContextualCheckBlock any other
\* coinbase, except at the fork heights, where it looks at no transaction and up to
\* forkCBPerBlock of them follow the first.
ASSUME TxAssumption ==
    /\ Vtx \in [Hashes -> Seq(Txids \ {RandPay})]
    /\ Vin \in [Txids -> Seq(Txids \X Outs)]
    /\ Vout \in [Txids -> SUBSET Outs]
    /\ \A t \in Txids : \A j, k \in DOMAIN Vin[t] : Vin[t][j] = Vin[t][k] => j = k
    /\ \A t \in Coinbase : Vin[t] = <<>>
    /\ \A b \in Hashes : Vtx[b] # <<>> => Vtx[b][1] \in Coinbase
    /\ \A b \in Hashes : \A i \in DOMAIN Vtx[b] :
            Vtx[b][i] \in Coinbase => ~RestoresInputs(b, i)

ASSUME ForkAssumption == forkHeightRange \in Nat /\ forkCBPerBlock \in Nat

VARIABLES
    job,        \* the block in work and how far it is
    undo,       \* block -> its undo data, for the blocks with BLOCK_HAVE_UNDO: by
                \* transaction and input, whether the output was the last of its
                \* transaction to be spent
    diskUndo,   \* the same in the block index on disk
    lost        \* history: the outpoints that a DisconnectBlock ever left unrestored

utxoVars == <<coinsVars, job, undo, diskUndo, lost>>

Op(name, t, n, j) == [op |-> name, tx |-> t, n |-> n, in |-> j]
OpsOn(name, outpoints) ==
    [j \in 1..Len(outpoints) |-> Op(name, outpoints[j][1], outpoints[j][2], j)]

\* ConnectBlock, for a transaction: HaveInputs, and UpdateCoins spends the inputs and
\* adds the outputs.
ConnectOps(t) == OpsOn("have", Vin[t]) \o OpsOn("spend", Vin[t]) \o <<Op("add", t, 0, 0)>>

\* DisconnectBlock, for the i-th transaction: remove the outputs, restore the inputs,
\* but not those of a transaction at a coinbase's place.
DisconnectOps(b, i) ==
    <<Op("remove", Vtx[b][i], 0, 0)>> \o
        (IF RestoresInputs(b, i) THEN Reverse(OpsOn("restore", Vin[Vtx[b][i]])) ELSE <<>>)

\* Mutant: the randpay output is spent like any other.
Skipped_Never(t) == FALSE

\* "skip special randpay utxo, because we don't record undo information for it"
Skipped(t) == t = RandPay

\* Mutant: the transactions are undone in the order of the block.
Place_Forward(kind, b, i) == i

\* The i-th transaction that is worked on: DisconnectBlock goes from the last to the
\* first.
Place(kind, b, i) == IF kind = "connect" THEN i ELSE Len(Vtx[b]) + 1 - i

-----------------------------------------------------------------------------
UtxoInit ==
    /\ CoinsInit
    /\ job = NoJob
    /\ undo = <<>> /\ diskUndo = <<>>
    /\ lost = {}

\* After a failed write AbortNode ends the activation of blocks, and what a
\* damaged database leads to is not followed.
Idle == job = NoJob /\ flush = "fine"

\* Operation op of the i-th transaction is next.
Job(kind, b) == [kind |-> kind, block |-> b, i |-> 1, op |-> 1, spent |-> <<>>, clean |-> TRUE]

\* ConnectTip of a block on the tip
BeginConnect(b) ==
    /\ Idle /\ Prev[b] = TipBest
    /\ OpenView
    /\ job' = Job("connect", b)
    /\ UNCHANGED <<undo, diskUndo, lost>>

\* DisconnectTip.  Without undo data it fails.
BeginDisconnect ==
    /\ Idle /\ TipBest # NullHash /\ Prev[TipBest] # NullHash
    /\ TipBest \in DOMAIN undo
    /\ OpenView
    /\ job' = Job("disconnect", TipBest)
    /\ UNCHANGED <<undo, diskUndo, lost>>

Finished == job.i > Len(Vtx[job.block])
InWork == Place(job.kind, job.block, job.i)
Ops == IF job.kind = "connect" THEN ConnectOps(Vtx[job.block][InWork])
       ELSE DisconnectOps(job.block, InWork)
Now == Ops[job.op]
Doing(name) == job # NoJob /\ ~Finished /\ Now.op = name
Advance == [job EXCEPT !.i = IF job.op = Len(Ops) THEN job.i + 1 ELSE job.i,
                       !.op = IF job.op = Len(Ops) THEN 1 ELSE job.op + 1]

\* HaveInputs of one input: the lookup fills both caches.  The first that is
\* missing ends it.
HaveInput ==
    /\ Doing("have") /\ job.clean
    /\ AccessView(Now.tx)
    /\ job' = [Advance EXCEPT !.clean = Now.n \in ViewCoins[Now.tx]]
    /\ UNCHANGED <<undo, diskUndo, lost>>

\* vprevout of the transaction gets the undo data of an input.
Recorded(last) == [q \in DOMAIN job.spent \cup {<<InWork, Now.in>>} |->
                    IF q = <<InWork, Now.in>> THEN last ELSE job.spent[q]]

SpendInput ==
    /\ Doing("spend") /\ job.clean
    /\ \/ /\ Skipped(Now.tx)
          /\ job' = Advance
          /\ UNCHANGED coinsVars
       \/ /\ ~Skipped(Now.tx)
          /\ \E left \in {ViewCoins[Now.tx] \ {Now.n}} :
                /\ ModifyCoins(Now.tx, left)
                /\ job' = [Advance EXCEPT !.spent = Recorded(IsPruned(left))]
    /\ UNCHANGED <<undo, diskUndo, lost>>

AddOutputs ==
    /\ Doing("add") /\ job.clean
    /\ ModifyNewCoins(Now.tx, Now.tx \in Coinbase, Vout[Now.tx])
    /\ job' = Advance
    /\ UNCHANGED <<undo, diskUndo, lost>>

\* "added transaction mismatch? database corrupted"
RemoveOutputs ==
    /\ Doing("remove")
    /\ ModifyCoins(Now.tx, {})
    /\ job' = [Advance EXCEPT !.clean = job.clean /\ ViewCoins[Now.tx] = Vout[Now.tx]]
    /\ lost' = IF RestoresInputs(job.block, InWork) THEN lost
               ELSE lost \cup {q \in Range(Vin[Now.tx]) : ~Skipped(q[1])}
    /\ UNCHANGED <<undo, diskUndo>>

\* ApplyTxInUndo and its three complaints
ApplyTxInUndo ==
    /\ Doing("restore")
    /\ \/ /\ Skipped(Now.tx)
          /\ job' = Advance
          /\ UNCHANGED coinsVars
       \/ /\ ~Skipped(Now.tx)
          /\ \E last \in {undo[job.block][<<InWork, Now.in>>]}, c \in {ViewCoins[Now.tx]} :
                /\ ModifyCoins(Now.tx, IF last THEN {Now.n} ELSE c \cup {Now.n})
                /\ job' = [Advance EXCEPT !.clean =
                            job.clean /\ (last <=> IsPruned(c)) /\ Now.n \notin c]
    /\ UNCHANGED <<undo, diskUndo, lost>>

\* The end of ConnectBlock: undo data is written unless it is there already, or
\* the block is the genesis block, which is not connected.
EndConnect ==
    /\ job # NoJob /\ job.kind = "connect" /\ Finished /\ viewBest # job.block
    /\ SetBestBlock(job.block)
    /\ undo' = IF job.block \in DOMAIN undo \/ Prev[job.block] = NullHash THEN undo
               ELSE [b \in DOMAIN undo \cup {job.block} |->
                        IF b = job.block THEN job.spent ELSE undo[b]]
    /\ UNCHANGED <<job, diskUndo, lost>>

EndDisconnect ==
    /\ job # NoJob /\ job.kind = "disconnect" /\ Finished
    /\ job.clean /\ viewBest = job.block
    /\ SetBestBlock(Prev[job.block])
    /\ UNCHANGED <<job, undo, diskUndo, lost>>

\* view.Flush() in ConnectTip and DisconnectTip
Commit ==
    /\ job # NoJob /\ Finished
    /\ viewBest = IF job.kind = "connect" THEN job.block ELSE Prev[job.block]
    /\ FlushView
    /\ job' = NoJob
    /\ UNCHANGED <<undo, diskUndo, lost>>

\* ConnectBlock fails, on a missing input or another check, or only checks;
\* DisconnectBlock fails when it is not clean.
GiveUp ==
    /\ job # NoJob
    /\ job.kind = "connect" \/ ~job.clean
    /\ DropView
    /\ job' = NoJob
    /\ UNCHANGED <<undo, diskUndo, lost>>

\* A transaction is offered to the memory pool: its inputs are looked up, and
\* uncached when it is refused or evicted.
PoolAccess ==
    /\ Idle
    /\ \E t \in Txids : AccessTip(t) \/ Uncache(t)
    /\ UNCHANGED <<job, undo, diskUndo, lost>>

\* FlushStateToDisk writes the block index alone,
WriteIndex ==
    /\ job = NoJob /\ ~threw
    /\ diskUndo' = undo
    /\ UNCHANGED <<coinsVars, job, undo, lost>>

\* Mutant: the coins are written before the index.
FullFlush_CoinsFirst ==
    /\ job = NoJob
    /\ FlushTip
    /\ UNCHANGED <<job, undo, diskUndo, lost>>

\* or the index and then the coins; Shutdown does so too.
FullFlush ==
    /\ job = NoJob
    /\ FlushTip
    /\ diskUndo' = undo
    /\ UNCHANGED <<job, undo, lost>>

FullFlushFails ==
    /\ job = NoJob
    /\ FlushTipFails
    /\ diskUndo' = undo
    /\ UNCHANGED <<job, undo, lost>>

RestartNode ==
    /\ Restart
    /\ job' = NoJob
    /\ undo' = diskUndo
    /\ UNCHANGED <<diskUndo, lost>>

UtxoNext ==
    \/ \E b \in Hashes : BeginConnect(b)
    \/ BeginDisconnect
    \/ HaveInput \/ SpendInput \/ AddOutputs \/ RemoveOutputs \/ ApplyTxInUndo
    \/ EndConnect \/ EndDisconnect \/ Commit \/ GiveUp
    \/ PoolAccess \/ WriteIndex \/ FullFlush \/ FullFlushFails \/ RestartNode

UtxoSpec == UtxoInit /\ [][UtxoNext]_utxoVars

-----------------------------------------------------------------------------
(* Properties.                                                             *)

\* What a transaction makes of a set of coins, by definition.
Apply(coins, t) ==
    [x \in Txids |-> IF x = t THEN Vout[t]
                     ELSE coins[x] \ {n \in Outs : <<x, n>> \in Range(Vin[t])}]

\* What the first i transactions of a block make of the coins before it.
Replay(before, b, i) ==
    LET after[k \in 0..i] == IF k = 0 THEN before ELSE Apply(after[k - 1], Vtx[b][k])
    IN  after[i]

\* The unspent outputs after a block: replay its chain from the beginning.
Utxo[b \in Hashes \cup {NullHash}] ==
    IF b = NullHash THEN [t \in Txids |-> {}] ELSE Replay(Utxo[Prev[b]], b, Len(Vtx[b]))

\* A block and the blocks below it: the smallest set with it that is closed under
\* pprev.
Below == [b \in Hashes \cup {NullHash} |->
            {a \in Hashes : \A S \in SUBSET Hashes :
                ({b} \cup {Prev[x] : x \in S} \subseteq S \cup {NullHash}) => a \in S}]

\* What UtxoExact rests on, where ConnectBlock does not look for unspent outputs of
\* a block's own transactions (BIP 30) and no height is demanded in a coinbase (BIP
\* 34): a transaction that spends nothing, or the randpay output only, is in a chain
\* once.  Any other finds its inputs spent when it comes again.
OnceOnly ==
    \A b \in Hashes : \A i \in DOMAIN Vtx[b] :
        (\A j \in DOMAIN Vin[Vtx[b][i]] : Vin[Vtx[b][i]][j][1] = RandPay) =>
            /\ \A k \in DOMAIN Vtx[b] : Vtx[b][k] = Vtx[b][i] => k = i
            /\ \A a \in Below[Prev[b]] : \A k \in DOMAIN Vtx[a] : Vtx[a][k] # Vtx[b][i]

\* No output is there that the replay spent or never made, and the only outputs that
\* are missing were spent at a fork height in a block that was disconnected.
Represents(coins, b) ==
    \A t \in Txids \ {RandPay} :
        /\ coins[t] \subseteq Utxo[b][t]
        /\ \A n \in Utxo[b][t] \ coins[t] : <<t, n>> \in lost

\* pcoinsTip and the database each hold the outputs that a replay of the chain of
\* its own GetBestBlock leaves unspent, through reorganisations, blocks given up half
\* way, evictions and restarts at any point; the database does so even after a write
\* that failed.  Outputs are missing only where DisconnectBlock at a fork height took
\* the transaction that spent them for a coinbase.  The randpay output, which can be
\* spent again and again, is there in every view.
UtxoExact ==
    /\ flush = "fine" => Represents(TipCoins, TipBest)
    /\ flush = "fine" => TipCoins[RandPay] = RandPayCoins /\ ViewCoins[RandPay] = RandPayCoins
    /\ flush # "retried" => Represents(db, dbBest)

\* A lost output is of a transaction of the block or of one that it spends from.
Marred(b) == \E q \in lost : \E i \in DOMAIN Vtx[b] :
    q[1] = Vtx[b][i] \/ \E j \in DOMAIN Vin[Vtx[b][i]] : q[1] = Vin[Vtx[b][i]][j][1]

\* Disconnecting a block finds every output it must remove and no output it must
\* restore, whatever was flushed, uncached or thrown away by a restart in between,
\* unless an output of the transactions concerned was left unrestored before.
UndoClean ==
    (job # NoJob /\ job.kind = "disconnect") => job.clean \/ Marred(job.block)

\* The index on disk has the undo data of every block of the chain the database
\* is at, so that a restarted node can always leave that chain.
UndoOnDisk == \A b \in Below[dbBest] : Prev[b] # NullHash => b \in DOMAIN diskUndo
=============================================================================
