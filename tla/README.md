# A TLA+ verification of MFCoin

MFCoin Core is a Bitcoin 0.14 / Emercoin node with proof-of-stake, merged mining
and a key/value store of *names* in the block chain. This directory holds TLA+
models of the parts that carry the node's own logic, the TLC configurations that
check them and TLAPS proofs about them. Source paths below are relative to the
repository (`src/namecoin.cpp` is the file of that name in its `src` directory).

## 1. Inventory

State, operations, what is hard and what correctness means, for each part.
PROJECT.json lists the same parts with their files and status.

* **Name index** (`namecoin.cpp`, `namecoin.h`, the hooks of `hooks.h`).
  State: `nameindexV2.dat`, a Berkeley DB map from a name to its history
  (`CNameRecord`: `vtxPos`, the cached `nExpiresAt`, and `nLastActiveChainIndex`,
  the position of the last `name_new`), and `nameaddress.dat`, from an address to
  the names it holds. Operations: `CheckInputs` for every transaction of a block,
  `ConnectBlock` for the accepted ones, `DisconnectInputs` in a reorganisation,
  `createNameIndexes` and `createNameAddressFile` at start-up. Hard: every
  operation is written on its own while the block is being connected, the
  chainstate only at the next flush; histories are pruned from the front and
  popped from the back; the operations of a block are judged against the index
  before it. Correct: the index is a function of the active chain; nobody takes
  over a registered name; updates are made by the holder; a rental lasts as long
  as was paid; the two files agree; no assertion fails.
* **Pending names and memory pool** (`mapNamePending`, `txmempool.cpp`,
  `AcceptToMemoryPool`). State: the pool and, per name, the operations accepted
  into it. Operations: acceptance, replacement, eviction, removal for a block,
  resurrection after a disconnected block. Hard: resurrection is in block order
  and partial, and a transaction leaves the pool on many paths, of which one
  updates `mapNamePending`. Correct: one operation per name, every input
  spendable, and nothing pending that is not in the pool.
* **Block index and chain activation** (`validation.cpp`: `mapBlockIndex`,
  `setBlockIndexCandidates`, `mapBlocksUnlinked`, `chainActive`). Operations:
  `AcceptBlockHeader`, `AcceptBlock`, `ActivateBestChain`, `InvalidateBlock`,
  `ResetBlockFailureFlags`, `PreciousBlock`, pruning. Hard: `ActivateBestChain`
  releases `cs_main` between its steps and keeps `pindexMostWork`. Correct: the
  assertions of `CheckBlockIndex`; the best valid chain becomes active.
* **Synchronised checkpoints** (`checkpoints.cpp`, `AcceptBlock`). State: the current
  checkpoint, the pending one, and whether the initial download is over. Operations:
  `ProcessSyncCheckpoint` for a signed message, `CheckSync` and
  `AcceptPendingSyncCheckpoint` inside `AcceptBlock`. Hard: a checkpoint is accepted
  between two steps of `ActivateBestChain`, which knows nothing of checkpoints, and
  `CheckSync` asserts that it is active. Correct: what is stored after a checkpoint
  descends from it; the assertion holds.
* **Proof-of-stake kernel** (`kernel.cpp`). A pure algorithm over the block index:
  `ComputeNextStakeModifier` (candidates, `SwapSort`, 64 selection rounds) and
  `GetKernelStakeModifierV05`. Hard: timestamps go back by up to two hours, loops end
  early on sorted data, positions are unsigned. Correct: every node computes the
  modifier the selection rules define.
* **UTXO cache and undo** (`coins.cpp`, `txdb.cpp`, `ConnectBlock`, `DisconnectBlock`,
  `FlushStateToDisk`). State: the chainstate database, `pcoinsTip` and a view on it,
  with DIRTY and FRESH flags; undo data in the block files and its positions in the
  block index. Hard: flags decide what is written and what is forgotten; the memory
  pool fetches and uncaches between blocks; index and coins are two writes; the
  *randpay* output (put into every cache by its constructor) is spent again and again;
  a write can fail. Correct: the layers behave as one map, at any moment the one a
  replay of the chain gives, and every block of the chain on disk can be undone.
* **Script check queue** (`checkqueue.h`): a master and workers with two condition
  variables, `nTodo`, `nIdle`, `nTotal`, `fAllOk`. Hard: early returns of `ConnectBlock`,
  interruption in the wait, one notification for one check. Correct: no check is
  lost, the result is the conjunction, the queue is idle between blocks, `Wait` returns.
* **Block download** (`net_processing.cpp`). State: `mapBlocksInFlight`, per peer the
  queue, counters, best known and last common block, and `mapBlocksWait`, the blocks
  that arrived before their parent. Operations: `inv`, `headers` and `block` messages,
  `FindNextBlocksToDownload` and the time limits of `SendMessages`, `FinalizeNode`. Hard:
  requests move between peers, peers stay silent or leave, a window that one peer can
  hold up, state that survives from one message to the next. Correct: the books
  balance; an honest peer's chain is downloaded whatever the others do.
* **Scheduler** (`scheduler.cpp`): one queue of timed tasks under one mutex.
* **Address manager** (`addrman.cpp`, `addrman.h`, `addrdb.cpp`). State: `mapInfo`,
  `mapAddr`, `vRandom`, the slots of `vvNew` and `vvTried`, three counters, and
  `peers.dat`. Operations: `Add`, `Good`, `GetAddr`, `Select`, writing and reading, each
  under one lock. Hard: a move to *tried* evicts an entry, which takes the slot of a third
  one, which may be deleted; the file has no positions, its reader computes them again; a
  read may fail half way. Correct: what `Check_` tests (compiled only under
  `DEBUG_ADDRMAN`), and a restart that loses nothing.
* **Peer connections** (`net.cpp`), transaction relay and orphans.
* **Mining** (`miner.cpp`), **merged mining** (`auxpow.cpp`), **difficulty and time**
  (`pow.cpp`, `timedata.cpp`), **alerts** (`alert.cpp`), **wallet** (`wallet/`),
  **DNS** (`mfcdns.cpp`), **fee estimation** (`policy/fees.cpp`), **Tor and STUN**
  (`torcontrol.cpp`, `stun.cpp`), **RPC, HTTP, REST**, **Qt**, **ZMQ**, **script
  interpreter**, vendored libraries, tests and build files.

How they interact: `validation.cpp` holds `cs_main` while it connects or
disconnects a block; it calls the name hooks synchronously, updates the memory
pool, and signals wallet and peers afterwards. The memory pool consults the name
index and `mapNamePending` through the same hooks. Message handlers, RPC threads
and the miner compete for `cs_main`. Names, chainstate and block index are three
databases flushed at different times; there is no transaction over them. Script
checks of a block run on other threads while `ConnectBlock` goes on, and are joined
before it returns. The message handler is one thread: it stores the blocks it has
asked for, activates chains, and consults the synchronised checkpoint on the way.


## 2. Modules

| module | models | uses |
|---|---|---|
| `NameIndex` | name index: connect, disconnect, flush, crash, restart, rebuild | |
| `MCNameIndex` | transactions and blocks of the runs | `NameIndex` |
| `NameMempool` | memory pool and `mapNamePending` composed with the index | `NameIndex` |
| `MCNameMempool` | transactions and blocks of the runs | `NameMempool` |
| `NameIndexProofs`, `NameMempoolProofs` | theorems and proofs | `NameIndex`, `NameMempool` |
| `ChainState` | block index, candidates, `ActivateBestChain`, operator commands | |
| `MCChainState` | trees of blocks of the runs | `ChainState` |
| `SyncCheckpoint`, `MCSyncCheckpoint` | synchronised checkpoints composed with the block index | `ChainState` |
| `ChainStateProofs` | theorems and proofs | `ChainState`, `SyncCheckpoint` |
| `CoinsView` | abstract specification: what a coins view promises, plain maps | |
| `CoinsCache` | `pcoinsTip` and a view over the database, with flags | implements `CoinsView` |
| `UtxoBlocks`, `MCUtxoBlocks` | blocks, undo data, flush order, restart over the caches | `CoinsCache` |
| `UtxoBlocksProofs` | theorems and proofs, among them the refinements | `CoinsCache`, `UtxoBlocks` |
| `CheckQueue` | script check queue and its use by `ConnectBlock` | |
| `CheckQueueProofs` | theorems and proofs | `CheckQueue` |
| `StakeKernel`, `MCStakeKernel` | stake modifiers of a growing chain | |
| `StakeKernelProofs` | theorems and proofs | `StakeKernel` |
| `BlockDownload`, `MCBlockDownload` | block download from several peers | |
| `BlockDownloadProofs` | theorems and proofs | `BlockDownload` |
| `AddrMan`, `MCAddrMan` | address tables and `peers.dat` | |
| `AddrManProofs` | theorems and proofs | `AddrMan` |

### NameIndex

`chain` is the active chain above genesis, `disk` the chain of the last flush
(what a restart starts from; empty means that nothing was flushed), `nameDB`,
`inDB` and `nameFile` are `nameindexV2.dat` (a name that is not in `inDB` reads as
the empty record), `addrDB` is `nameaddress.dat`, and `job` is what the thread
that holds `cs_main` is doing: the phase, the block, the names still to do
(`vName`) with the address the index gave for each (`prev_address`), and the set
`sNameNew`.

`BeginConnect` is `ConnectBlock` up to the name hook: every name transaction is
checked by `CheckInputs` against the index before the block. `ConnectName` is one
round of the hook's loop: `PushOperation` appends and prunes,
`MoveName` follows, and a failing `MoveName` ends the loop. `EndConnect` is the rest
of `ConnectTip`. `BeginDisconnect`, `DisconnectName` and `EndDisconnect` are
`DisconnectBlock` and `DisconnectTip`, with `PopOperation` for the search of the
previous `name_new`. `Crash` may follow any write and `CrashBetweenWrites` falls
between `WriteName` and `MoveName`. `Restart` loses what was not flushed and may
find either index file missing; `RebuildNextBlock` is `createNameIndexes`, which
then writes the address file. An assertion that fails is the phase `"assert"`.

`CalculateExpiresAt` keeps C's arithmetic: days times 175 is an `int` product
(`Wrap`), the sum is 64-bit and limited to `INT_MAX` at the end. When
`nLastActiveChainIndex` is one past the end, the code reads an element that does not
exist: the model takes any value of `Garbage`.

A transaction is a record: its operation, name, address, rental days, inputs, the
heights at which its fee is enough (`IsNameFeeEnough` depends on the block's height
through the price), and whether it is generated. Values of names, scripts,
amounts and signatures are left out: no modelled decision depends on them.

### NameMempool

Extends `NameIndex` with `mempool`, `mapNamePending` and `raised` (how many
transactions of a block that is being disconnected were offered to the pool).
`AcceptToMemoryPool` is `AcceptToMemoryPoolWorker`: inputs exist and are unspent or
conflicts are replaced, `CheckInputs` and `CheckPendingNames` accept it.
`RemoveStaged` is any removal the pool decides on its own (expiry, size limit,
`removeForReorg`). `ConnectTip` composes the end of a connection with
`removeForBlock`, `ConnectPending` the hook's loop with the cleanup of
`mapNamePending`. `Resurrect` and `DisconnectTip` are the two halves of
`DisconnectTip`: transactions re-enter one by one, the refused ones are removed with
their descendants. Policy (fees, standardness, limits) is a free choice: what
passes the modelled checks may still be refused.

### ChainState

The blocks of the network are a constant tree (`Parent`, `Trust`, `Address`, the
last only for ties); `Bad` are the blocks `ConnectBlock` finds invalid, `Malformed`
those the contextual and proof-of-stake checks refuse. The state is the block
index: known headers, blocks with transactions (`nTx`), linked blocks (`nChainTx`),
`mapBlocksUnlinked`, the two failure marks, sequence ids, the candidates, the tip
(`chainActive` is `Chain[tip]`) and, for each thread, `pindexMostWork` of its call of
`ActivateBestChain` (`Idle` outside, `NoBlock` for NULL).

An action is one region under `cs_main`. `AcceptBlockHeader` and `AcceptBlock` are
the handlers of headers and blocks; `AcceptBlock` ends with the thread at the
start of `ActivateBestChain`. `ActivateBestChain(t)` is one round of the loop:
`FindMostWorkChain` when the thread has no target (with the blocks it gives up and
marks), then `ActivateBestChainStep`, which disconnects to the fork and connects
until a block is invalid or the tip has more trust than before. The candidates
are pruned for every connected block; a failing assertion sets `asserted`.
`InvalidateBlock`, `ReconsiderBlock` and `PreciousBlock` are the commands; the
"careful operator" of `chain_commands` (`"reconsider_root"`) reconsiders only a marked block
below which nothing is marked. `fRefused` is the answer of `CheckSync`: free here, given
by `SyncCheckpoint` in the composition. `ConnectBlock` failures that may be caused by
corruption are left out.

### SyncCheckpoint

Extends `ChainState` with the two checkpoints and the latch of
`IsInitialBlockDownload`. `SyncAcceptBlock` composes `AcceptBlock` with the checkpoint
check before the block is stored and `AcceptPendingSyncCheckpoint` after it;
`ProcessSyncCheckpoint` is the handler of a signed message; `ActivateBestChain` and
`AcceptBlockHeader` are those of `ChainState`. `CheckSync` is written by what its walk
finds: a block of the active chain at or above the checkpoint's height. A failing
assertion sets `syncAsserted`, which ends the run. `before` is a history variable:
the blocks that were stored when the checkpoint was set, and those stored later without
a check (`Unchecked`: during the initial download, and while the active chain is back
at genesis, where `AcceptBlock` skips the check for the sake of a reindex). Every action is one of
`ChainState` with the checkpoints' part conjoined, or leaves the block index alone, so that what is
shown of `ChainState` holds of the composition. Commands of the operator are
left out of it.

### CoinsView, CoinsCache, UtxoBlocks

`CoinsView` has three plain maps, `disk`, `tip` and `view`, each with the block it
represents: a view opens on the tip, changes, and is committed or dropped as a whole;
a flush and a restart copy whole maps. After a failed write only the database is promised, and
after a second write nothing (the comment of `Flush` in `coins.h` has "undefined").

`CoinsCache` has the code's entries: `coins`, `dirty`, `fresh`, or no entry. Its
operators are the functions of `coins.cpp` (`FetchCoins`, `ModifyCoins`,
`ModifyNewCoins`, `~CCoinsModifier`, `BatchWrite`, `Uncache`, `Flush`), including the two
`logic_error`s (`threw`). `Maps` is the refinement mapping: a map is what a lookup gives.

`UtxoBlocks` drives the cache as validation does. `job` is the block in work with a
cursor: the transaction it is at (`Place`, forward or backward) and the lookup or modification within
it (`ConnectOps`, `DisconnectOps`), each one step of `CoinsCache`, so that giving up,
a crash, or a flush of the memory pool's fetches can come between any two blocks, and
a crash between any two operations. The randpay output is looked up and otherwise
skipped, as in the code. `undo` is the undo data in the block files whose
position the index has, by transaction and input; `diskUndo` is the part of the index on disk;
`FullFlush` writes index and coins in the order of `FlushStateToDisk`. `UtxoExact` compares with a
replay of the chain.

Fork heights. At heights 1 to 365 (`isForkBlock`, `forkHeightRange`) a block of a snapshot of the old
chain is expected, which has up to `forkCBPerBlock` (2000) coinbases beside the first.
`DisconnectBlock` therefore restores inputs only of transactions behind that place
(`nNonCBIdx`, `validation.cpp:1808-1814`): of the others it removes the outputs and goes on. That they are
coinbases is not enforced. `CheckBlock` demands a first coinbase only, `ContextualCheckBlock`
skips its loop over the transactions at these heights (`validation.cpp:3288-3297`), and
`AcceptBlock` compares the number of transactions, their time and their first outputs with the snapshot,
and only if the file can be opened (`validation.cpp:3582-3683`). `generate`, `getblocktemplate` and the minter
make ordinary blocks there, as on any regtest chain of the rpc-tests, some of which reorganise and presuppose
restoration. The model leaves open what the blocks hold: `RestoresInputs` is the code's condition, for any
`forkHeightRange` and `forkCBPerBlock`, and the history variable `lost` collects the outputs that were not
restored. `UtxoExact` (`Represents`) then says that nothing is there that a replay does not
give, and that nothing is missing but `lost` outputs; `UndoClean` that a disconnection
is clean unless a lost output belongs to a transaction of the block or to one it spends from (`Marred`). What
follows from a loss is in the model: the block that made the output can no longer be disconnected
("added transaction mismatch"), and another branch that spends it is refused. Not in the model: a
fork block with more coinbases than `forkCBPerBlock` beside the first, which could not be
disconnected at all, and the comparison with the snapshot. `NameIndex` and `NameMempool` are about
heights above the range. 
The two refinements: `CoinsSpec` (block operations are cache
operations within their contract: no double creation, randpay left alone) and
`MapsSpec` (the cache is a plain map).

### CheckQueue

One action per critical section of `Loop`; `at` says where a thread is. A waiting thread goes
on when notified or spuriously. `Add` notifies one worker for one check and all for
more. `ReturnEarly` is the destructor of `CCheckQueueControl` after an early return,
`InterruptMaster` and `InterruptWorker` are Boost's interruption of the wait, which
leaves `nIdle` and `nTotal` as they are.

### StakeKernel

A chain grows block by block, each with a timestamp that
`ContextualCheckBlockHeader` admits. `ComputeNextStakeModifier` is written as the code
computes (`SwapSort`, the passes and the rounds as recursive functions, with the early end of a
round), the reference (`Choice`) as the comment on it defines. Modifiers are sets of bits; hashes are
constant numbers, and `KernelAssumption` says that no two blocks have the same; 256-bit
targets are a choice.

### BlockDownload

The message handler is one thread, peers are a constant set with a chain each.
`dl` is the record of download state that `MarkBlockAsInFlight` and
`MarkBlockAsReceived` change.

Headers. `StartSync`, the first part of `SendMessages`, asks one peer at a time for headers, more than one
only if the best header is less than a day old (`fRecent`, a free choice, since time is left out):
`fSyncStarted` are the peers that hold a slot and `nSyncStarted` is their number, which falls in
`FinalizeNode` alone. `InvMessage` asks for the headers of an unknown tip, `UnconnectingHeaders` is
a headers message whose parent is unknown and asks too. `getheaders` are the honest peers that have
an answer to send; a request from the tip of the peer's chain on has an empty answer, which changes
nothing. That is why the request starts below the best header, "as long as the peer is up-to-date". An honest
peer has ended its own initial download, and sends headers when asked, or its tip alone when that connects; another peer sends its headers at any time. A full
message of `MAX_HEADERS_RESULTS` headers, after which more are asked for, is not modelled: a chain comes in one message.

Blocks. `HeadersMessage` includes the direct fetch, `RequestBlocks`, the last part of `SendMessages`, is
`FindNextBlocksToDownload` with the staller it finds, and
`BlockMessage` begins the loop over `mapBlocksWait`, whose turns are `DropWaiting`,
`ProcessWaiting` and `EndLoop`. A peer that is not honest may send a block of `Malleable` with other
transactions (`fMalformed`): `CheckBlock` refuses it, the block is not marked as failed and
`pindexLastAccepted` stays; an unrequested block is ignored when it is not better than the tip or too far ahead (`Wanted`). Between two
turns the connection thread may finalise any peer but `pfrom`, the sender of the block. The code holds
references to all the peers of its pass (`vNodesCopy`), which may be fewer than all others: the model's behaviours include the
code's. Bans and misbehaviour scores are left out (a ban is a `CloseConnection`); in the code they go to the peer whose message runs the
loop, also for a block that another peer sent earlier (`net_processing.cpp:2563`).

Time is left out: `StallTimeout` and `DownloadTimeout`
may come whenever the peer has not answered. Validation is reduced to what
`ChainState` shows of it: the tip is the best accepted block. The loops over blocks
(`MarkAll`, `UpToLimit`, `Erase`) are recursive functions.

### AddrMan

`m` is a record of the members of `CAddrMan`; `m.ok` is FALSE once an assertion has failed.
The private functions (`Create`, `Delete`, `SwapRandom`, `ClearNew`, `MakeTried`) are
operators on such a record, the operations are actions. Where an address belongs is a hash
under `nKey`, which `peers.dat` keeps: a constant. Times, attempts and services decide only
whether an entry is terrible and whether an announcement is news, which are free
choices. `Restart` is `Unserialize(Serialize(m))`; a crash starts from an older file, which
gives a state that a restart at that time gave. `Select_` changes nothing; that its search
ends follows from the counters (`TablesConsistent`). `ReadCorrupt` is a read that throws
after some entries, and is part of `CorruptSpec` only.

## 3. Runs

Passing runs:

| run | question | bounds, distinct states |
|---|---|---|
| `names_reorg` | Is the index the one the active chain defines, through every order of connects and disconnects? | height 4, two names, seven transactions, blocks of up to two transactions with one operation per name, or two registrations; 13,788 states |
| `names_restart` | What survives a crash at any write and the pruning of histories, and is a rebuild exact? | height 3, `-nameindexchainsize` 2, one restart, either file may be missing; 162,341 states |
| `names_mempool` | One operation per name and only spendable transactions in the pool? | height 3, one restart; 478,422 states |
| `chain_threads` | Do two threads keep the index linked and the candidates sound, and does every call return? | a tree of 8 blocks with one invalid and one malformed block, 2 threads, one `reconsiderblock`; 20,250 states |
| `chain_commands` | Are marks, candidates and tip right after any commands of a careful operator, and is the best valid block activated in the end? | 6 blocks, 1 thread, 2 commands, a block the checkpoint may refuse; 33,342 states |
| `chain_sync` | Does everything stored after a checkpoint descend from it? | branches of 2, 3 and 1 blocks, the last with an invalid block, 2 threads, depths 1 and 2 for the code's 2 and 32; 174,341 states |
| `utxo_blocks` | Are the layered caches one map, exact at every flush and restart, and can every block be undone? | 7 blocks, 6 transactions, three of them coinbases, with dependencies inside a block and the randpay output, heights 1 and 2 as fork heights with one coinbase beside the first; 52,295 states |
| `check_queue` | Is no check lost, the result right, the queue idle between blocks, and does `Wait` return? | 2 workers and a master, batch size 2, up to 4 checks a block, one interruption of the master; 371,420 states |
| `stake_kernel` | Do the sort and the selection compute what their comment defines, and is the kernel's modifier the latest one old enough? | 7 blocks, 3 rounds, ratio 3, interval 4, minimum age 12, drift 2; 29,807 states |
| `block_download` | Do the books on requests balance, and is the honest chain downloaded in the end, with and without announcements? | 4 blocks, of which one is invalid and one may come malformed, an honest and another peer, 2 requests per peer, window 1; 68,382 states |
| `addresses` | Do slots, reference counts, counters, `mapAddr` and `vRandom` agree after any operations, and does a restart restore every slot? | 3 addresses that collide pairwise, 2 sources, 2 new buckets of 2, 2 tried slots, 2 references for the code's 8, 5 ids between restarts; 73,595 states |

A run whose property the code violates (the finding of PROJECT.json quotes the
assertion):

| run | what happens |
|---|---|
| `sync_assert` | a checkpoint is accepted while a better branch stored before it is about to be activated; the branch replaces it, and the next block meets `assert(chainActive.Contains(pindexSync))` |

Further disagreements of code and comments were met while modelling. The models
show them too, under the constants given here, but no run is kept for them:

* `assert(rec.nLastActiveChainIndex < s)` (`namecoin.cpp:223`) fails after pruning has
  dropped the older `name_new` and the newer one is disconnected
  (`NoFailedAssert` under `NameIndexRestart.cfg` without restarts);
* a disconnected operation "should only match last tx" of the history
  (`namecoin.cpp:1617`); after a crash the index is ahead of the chainstate, and the disconnection
  of an older block hits `assert(!found)` (`namecoin.cpp:1631`; `NoFailedAssert` with a restart);
* days times 175 overflows `int` (`namecoin.cpp:98`) before the sum is limited as the
  comment at `namecoin.cpp:101` says; the script checks cap a rental at
  `MAX_RENTAL_DAYS` (`script.h:702`), which is above the first overflow (`Wrap` with a
  small `IntMax`);
* an operation that leaves the pool unconfirmed stays in `mapNamePending`
  (`namecoin.cpp:1433`, `1155`), and the name is refused until a restart;
* a record that is to be erased ("delete empty record", `namecoin.cpp:1639`) is erased and
  written back empty (`inDB` keeps the name after `DisconnectName`);
* two operations on one name in a block, spending different outputs of the last
  operation, make a later `MoveName` fail, which drops the remaining operations of
  the block (`namecoin.cpp:1775`), and leave a deleted name listed (`namecoin.h:103`):
  `IndexMatchesChain` and `AddressIndexExact` hold for blocks without such pairs;
* between two rounds of `ActivateBestChain`, after an invalid block, `cs_main` is free
  while the tip, or a block as good as it, is not a candidate, which
  `CheckBlockIndex` asserts (`validation.cpp:4694`): `CandidatesComplete` holds only
  when no thread is in the function (`CandidatesCompleteWhenQuiet`);
* a thread with a stale `pindexMostWork` (`validation.cpp:2737`) disconnects the better chain
  another thread has activated meanwhile, and returns (the comment at
  `validation.cpp:2707` promises "either failure or an activated best chain");
* `invalidateblock` between two steps of another thread empties the candidates, and
  the assertion of `PruneBlockIndexCandidates` fails (`validation.cpp:2603`); with another
  branch among the candidates it connects the invalidated block again (`chain_threads`
  with `"invalidateblock"` among its commands);
* `reconsiderblock` of a block above the invalidated one clears its ancestors without
  making them candidates and leaves `BLOCK_FAILED_CHILD` on their other descendants
  (`validation.cpp:2886`): `chain_commands` with `"reconsiderblock"` among its commands
  violates `FailedBelowInvalid` and `CandidatesCompleteWhenQuiet`;
* the counter of `preciousblock` restarts at -1 when the tip has more trust than at the
  last call (`validation.cpp:2804`): after the chain has shrunk and grown again a
  block may get an id that a rival of the same trust still has;
* a failing write of the chainstate leaves `pcoinsTip` empty with its block hash set;
  `Shutdown` flushes again (`init.cpp:238`) and records that block without its coins
  (`flush = "retried"` in `CoinsCache`; the comment of `Flush` only says "undefined");
* the duplicate check of BIP 30 is made only if `pindex->phashBlock` is null
  (`validation.cpp:2030`), against the comment above it (`validation.cpp:2018`); that
  no creation meets unspent coins is a contract of the callers in `CoinsNext`;
* comments in `kernel.cpp` (144, 288) have a kernel hash with a modifier that is later
  than its coin; when the chain pauses for longer than a selection interval, the
  latest modifier old enough may be older than the coin;
* a block that waits for its parent should be stored "in memory until we can connect it"
  (`net_processing.cpp:2496`), but `mapBlocksWait` has one place per parent: a sibling
  overwrites it, and it stays in flight from a peer that has already sent it until that
  peer is disconnected for the time limit (`InFlightAccounted` under the constants of
  `BlockDownload.cfg`; `CatchUp` holds all the same);
* "when block in forking region - all transcations are coinbase" (`validation.cpp:1809`): nothing enforces it,
  and `DisconnectBlock` does not restore what such a transaction spent (section 2, fork heights;
  without `lost` in `Represents` and `UndoClean`, `utxo_blocks` violates both);
* a failing read of `peers.dat` calls `Clear()` to "ensure addrman is left in a clean
  state" (`addrdb.cpp:212`, tested in `net_tests.cpp:141` by `size()`), which does not clear
  `mapInfo` and `mapAddr`: an address read before the failure is found by the next `Add_`,
  gets a slot without being counted in `nNew`, and the next dump meets
  `assert(nIds != nNew)` (`addrman.h:315`; `CorruptSpec` under the constants of `AddrMan.cfg`
  violates `TablesConsistent`). It needs a file with a valid checksum that ends too early;
* the comment on the download timeout (`net_processing.cpp:3404`, "2 + 0.5*N" intervals) is not
  the constant `BLOCK_DOWNLOAD_TIMEOUT_BASE`, which is one.

Why the bounds are enough. A takeover or a wrong owner needs a registration, an
operation and its rival, and a reorganisation over them: three blocks and a
disconnect. A wrong `nLastActiveChainIndex` needs two registrations or an operation
pruned before one: three operations with `MaxSize` 2. An index ahead of
the chain needs one flush and one crash. `BlocksPerDay` 1 makes rentals expire
within the height bound; the real factor only scales heights. `IntMax` 1000 is out
of reach. For most of the safety properties the proofs of section 4 remove the bounds
altogether.

Deadlock is checked in `names_reorg`. The other name runs switch it
off because the system really may stop there: at a failed assertion, or down with
`MaxRestarts` used up.

Chain runs: two threads and trees of six to eight blocks, with two branches, a
fork on one of them, a tie and an invalid block in the middle, are what a stale
target, an invalid reorganisation and a second branch need at the same time. More
blocks repeat these patterns; the proofs cover all trees. `MinBlocksToKeep` is 1
instead of 288, so that blocks are refused as too far ahead. `chain_commands` and
`chain_sync` switch the deadlock check off: a node
whose commands are used up and whose blocks are known, or whose assertion has
failed, has nothing left to do. In `chain_threads` blocks keep
arriving (a known block still calls `ActivateBestChain`).

A checkpoint that loses its place needs two branches of which the second overtakes,
and a block above each: two branches of three in `sync_assert`. In `chain_sync` a third,
invalid branch takes the tip back to genesis. A wrong flag of a cache entry shows
after at most a fetch, a modification, a flush of the view, another modification and a flush of
`pcoinsTip`, over a transaction with two outputs spent by different blocks: the seven blocks
have it in one block, in two, and on two branches. A lost check needs two
threads with batches, one that waits and checks still to be added. The selection
rounds need ties, a block beyond the stop and more candidates than rounds; the
delays of `MCDelays` reach each, and a pause longer than the selection interval; the run
stops at the height bound (no deadlock check). The loss at a fork height needs one such block with a
spend that is disconnected, a fork block without one and a block above the range: `a2`, `b2` and `b3`.
Block download needs a fork, an invalid block, a window shorter than the chain, and a second peer that can
hold requests, the slot of header sync and a malformed copy of a block the first peer has too. `Malleable` is that block. The longest
chain of evictions of the address manager has three addresses: one that becomes tried, the
one it evicts, and the one whose slot that takes.

Fairness: `FairChainSpec` assumes weak fairness of `ActivateBestChain(t)` for each
thread `t`. A thread inside the function asks for `cs_main` in every round; every
holder of the lock releases it after bounded work, and the mutexes of the
supported platforms do not starve a waiter forever. Nothing is assumed about
headers, blocks and commands: they need not arrive.

`FairQueueSpec` assumes weak fairness of the steps of each thread: a thread that is
not waiting runs. Spurious wakeups, interruptions and further blocks are not assumed, so
`WaitReturns` depends on the notifications alone.

`FairDownloadSpec` assumes that the handler finishes each message (weak fairness of
`LoopTurn`) and, since it serves every peer in every pass, that what is possible again and again for a peer
(`FinalizeNode`, the time limit of its requests, `SendMessages`) happens; and of
the honest peers that they connect, answer `getheaders` and answer requests,
before the time limits. Of other peers nothing is assumed, and of honest ones neither announcements nor headers
nobody asked for. `SendMessages(p, FALSE)` is the pass of a node whose best header is old; with a recent one
it does the same and may start header sync as well.

That is not enough to catch up. A peer that holds the only slot of header sync, does not answer and stays
connected is never given up: the request for headers has no time limit (`net_processing.cpp:3087-3109`), and while
the node is more than a day behind it asks nobody else. TLC shows it (the formula `CaughtUp("p")` is
violated under `BlockDownload.cfg`). Two things end the wait, and each has a property. An honest peer
announces its tip, whose headers are then asked from it directly: `CatchUp` has the strong fairness of
`InvMessage(p)` as its premise. Or the slot becomes free: `HeadersSync` has as its premise that in the end no other
peer holds one, and the peer be up-to-date; its mutant, in which `FinalizeNode` forgets to
release the slot, violates it. The time limits of block requests are needed by both.

A peer that is not honest
connects once: each connection has a `NodeId` of its own, and finitely many are what
`Peer` bounds.

## 4. Proofs

`NameIndexProofs` proves, for all constants that satisfy the assumptions of
`NameIndex` (transactions are typed records, `NoAddr` is no address, the bounds are
naturals, `MaxSize > 0`), and, where no hypothesis is named, for any blocks, also those no
honest miner makes:

* `TypeCorrect`: `Spec => []TypeOK`;
* `ActiveChainCorrect`: `Spec => []LastActiveChain`;
* `NeverTakenOver`: `Spec => []NoTakeover`;
* `OwnersContinue`: `[]OwnerContinuity` for blocks with `OneOpPerBlock` (no two operations on
  one name in a block, registrations excepted);
* `AddressesExact`: `AddressIndexExact` for such blocks up to the first crash
  (`restarts = 0`), and `RebuildListsAddresses`: a completed rebuild restores it after any crash;
* `AssertionsHold`: `NoFailedAssert` up to the first crash while histories are `Short`
  (shorter than `-nameindexchainsize`, so that nothing was pruned);
* `IndexIsOfTheChain`: `IndexMatchesChain` under all three hypotheses, for any number of
  blocks connected and disconnected in any order;
* `ExpiriesHonoured`: `ExpiryHonoured` for blocks with `OneOpPerBlock` and `RentalsFit` (the blocks of
  every rental are an `int`);
* `RebuildIsExact`: `RebuildExact` after any number of crashes, under `OneOpPerBlock`, `Short` and
  `NoGenerated` (no coinbase or coinstake carries a name operation).

The hypotheses are facts on the blocks and on the run, and each excludes a behaviour of the
code, not of the proof: pairs of operations in a block make `MoveName` fail and leave histories
with two heirs; a crash leaves the index ahead of the chainstate; a disconnected block
does not bring back what was pruned; and the rebuild skips generated transactions
(`createNameIndexes`), which the hook does not. The first three are listed under "Further
disagreements" in section 3. `RentalsFit` is there because the product
of days and blocks per day is an `int` (`namecoin.cpp:98`) and overflows below the longest rental
that the scripts allow; a sum of rentals that fit is limited as the code intends.

Neither of `LastActiveChain` and `NoTakeover` is inductive. `NoTakeover` speaks of expirations of whole
registrations, but the code compares with the cached `nExpiresAt` of the record as
it was *before* the block. The invariant `IInv == TypeOK /\ RecordsGood /\
VNameValid` adds what connects them: every record is good (`nLastActiveChainIndex`
marks the last `name_new`, the cached expiration is the one of that registration
unless the record is corrupt, no takeover in the history) and each operation of
`vName` that is still to be written is permitted on the record as it is *now*,
the second `name_new` of a name excepted, which `sNameNew` drops. The argument per
operation is in the lemmas `PushGood` (appending and pruning) and `PopGood`
(undoing and searching backwards), from facts on sequences (`SameSegment`,
`FreePart`, `FreeAppend`); one lemma per action carries the invariant.

`ExpiriesHonoured` needs no other invariant: in a good record the cached `nExpiresAt` is the one of
the last registration, and `OneOpPerBlock` keeps a deletion out of the operations that it sums (a deletion
is the last of its registration). What is left is that a sum over a finite set of positions is a natural number
and that limiting it once is limiting it at the end (`SumNatural`, `NoWrap`, `ExpiryPaid`).

Three more invariants stand on `IInv`. `OwnInv`: every history is owned step by step, each
operation still to be written spends the last one in the index, and the address file is exact
between any two operations, not only between blocks. `PlaceInv`: every history is a chronicle
of the chain, each entry at the height and of the transaction where the chain has it, so
that a disconnection pops what it expects. `HistoryInv`: the histories are those of
`RefHistory(chain)`; inside a block, those with the names already done applied or undone; in a
rebuild, those of the blocks it has gone through. `RefHistory` is a recursive
function of the height. What it computes is proved without an induction
principle, through the least height at which it could fail (`LeastNumber`, `RefAgree`,
`RefNext`); `AcceptExact` shows that the code, which judges an operation by the cached
`nExpiresAt`, and the reference, which computes expirations from the history, accept the same
operations.

Every step of `NameMempool` is a step of `NameIndex` or leaves its variables alone (the lemma `IndexStep`), so
all of the above holds of the composition too. `NameMempoolProofs` proves

* `AtMostOneOp`: `MempoolSpec => []OneOpInPool`. The invariant adds that at most one
  operation per name is pending and that each operation in the pool is pending
  (`PoolPending`): entries that stay behind in `mapNamePending` are on the safe side;
* `PoolStaysSpendable`: `MempoolSpec => []PoolSpendable`, with no proviso. While a block is
  being disconnected its transactions return one by one, and the pool may hold what spends those
  that have not; `PoolSound` counts them as available (`Unraised`), and `RaisedBlock` ties
  the counter to the tip, so that none is left when `DisconnectTip` ends.

`ChainStateProofs` proves, for all trees of blocks, sets of invalid blocks and
threads (`TreeAssumption`: parents have less trust, trust is bounded and addresses
differ; `SetAssumption`):

* `ChainTypeCorrect`: `ChainSpec => []ChainTypeOK`;
* `LinkedInOrder`: `ChainSpec => []NothingUnlinked`;
* `MarkedNotActive`: no marked block is active if one thread activates chains or
  `invalidateblock` is not used;
* `CandidatesCorrect`: no candidate is worse than the tip, under the same proviso or
  without `preciousblock`;
* `CandidatesStay`: the assertion of `PruneBlockIndexCandidates` holds for any number
  of threads as long as neither command is used;
* `MarkedBelowInvalid`: a block marked `BLOCK_FAILED_CHILD` has one marked
  `BLOCK_FAILED_VALID` below it, for any number of threads and a careful operator;
* `CandidatesAreComplete`, `BestChainReached`, `CandidatesStayOrderly`: when
  `ActivateBestChain` has returned, the candidates are complete and no stored block with a valid
  chain is better than the tip, and the assertion holds with `invalidateblock` too, under
  `Orderly == SingleThread /\ Careful /\ NoPrecious`.

The provisos are necessary: the races listed under "Further disagreements" are what
happens without them. `Chain` is the
least set closed under `pprev`; the lemmas on it (composition, order by trust,
linearity, a lowest block of a set) are proved by exhibiting closed sets, without
induction. `BaseInv` adds to the types that tip, candidates and targets have
transactions and that sequence ids are bounded below, which makes the best
candidate exist. `MarkedNotActive` needs two invariants, one per proviso: with one
thread the target of the thread is unmarked too (`TargetUnmarked`); without
`invalidateblock` every stored marked block has an invalid block at or below it
(`MarkedForCause`), and no thread can connect that. `CandidatesStay` rests on
`BestGoodIsCandidate`: the best stored block whose chain is valid is a candidate at
all times, also when the tip has fallen back to a fork; everything a step connects
is valid, so pruning never removes it.

`BestChainReached` and its companions need each part of `Orderly`. A second thread that
returns to a stale `pindexMostWork` moves the tip back after the first has pruned the
candidates that are worse than the better tip; an operator who reconsiders from the middle
leaves marks without a cause; and the counter that `preciousblock` resets
(`validation.cpp:2802`) can make a block that was pruned better than the tip. `BestChainActive`
itself says nothing of the moments in between: a step that meets an invalid block leaves a
tip that is worse than blocks already pruned. `WorkInv` is the invariant that bridges them, a
watermark: some stored block with a valid chain, the tip before the step or one connected since, is
a candidate together with everything at least as good, and the thread's target is better than all
that is unmarked.

The last part of the module is about `SyncCheckpoint`, whose steps are steps of `ChainState` (a lemma), so that the
theorems above hold of the node with checkpoints: `CheckpointHolds`
(`[]CheckpointBinds`: a block stored with a check since the checkpoint was set descends
from it) and `CheckpointsFormChain` (a step keeps the checkpoint or takes it to a
higher descendant). The first is the reason why `CheckSync` may look for any active block at or
above the checkpoint's height: its assertion has just established that the checkpoint is active,
and two blocks of one chain are comparable. That the assertion holds is not among the
theorems: `sync_assert` shows that it may fail.

`UtxoBlocksProofs` begins with the caches alone: `FlagsAlwaysTrue`, `NoLogicError`, and `CachesAreMaps`, the
refinement `CoinsSpec => MapsSpec`. The invariant `CoinsInv` is `CoinsTypeOK`, `FlagsTrue` and
`NeverThrows` with two facts on the view: a closed view has no entries, and an open view whose best
block is null lies over an empty chainstate (otherwise committing it would not copy a map). The lemmas are about one layer
over another: what a fetch, a modification and a batch write do to the entry and to what a
lookup gives. Nothing in `CoinsSpec` limits the blocks, transactions or the order of operations.

With the blocks over them: `UndoIsOnDisk` (`[]UndoOnDisk`) and `TipCanBeUndone`: `DisconnectBlock` finds
undo data for the block `pcoinsTip` is at. `UndoInv` says that the index on disk covers the chain
of the chainstate on disk, the index in memory that of `pcoinsTip` and of the view while a block is in
work, and that memory is never behind the disk: the order of the two writes of
`FlushStateToDisk` is what keeps the first when a crash falls between them.

`CoinsAreReplay` (`[]UtxoExact`), `UndoIsClean` (`[]UndoClean`), `BlocksUseCaches` (`UtxoSpec =>
CoinsSpec`) and `BlocksSeeMaps` (`UtxoSpec => MapsSpec`) hold for all blocks and transactions
under the hypothesis `OnceOnly`: a transaction that spends nothing, or only the randpay output,
occurs once in a chain. A coinbase that came twice would be created over its own unspent
outputs, and undoing the second would take the first away: `ConnectBlock` looks for that
only in templates (`validation.cpp:2030`), and the height that BIP 34 puts into a coinbase, which makes
coinbases differ, is demanded from a height that no chain reaches (`chainparams.cpp:260`). With a repeated
coinbase among its blocks `utxo_blocks` violates `UtxoExact`. Any other transaction finds its inputs
spent the second time, and that is proved, not assumed.

The four are proved together, since none holds without the others: what a step does to the maps depends on
the flags (`CoinsInv`), that the cache throws nothing on the contract of the caller, and that contract on
the coins being those of the chain. `UtxoInv == CoinsInv /\ UndoInv /\ ReplayInv`; `ReplayInv` says that
`pcoinsTip` and the database represent their chains (`Represents`), that the view represents the block below with the
transactions up to the cursor applied or taken back, and that undo data says of each input whether it was the last output of its
transaction. All of it is up to `lost`: `Near` compares the coins of a transaction with those of the replay, and
they are equal for a transaction none of whose outputs was lost (`Whole`, `NearWhole`), to which the statements on undo data and on clean
disconnections are limited, transaction by transaction; `lost` only grows, so that what was
shown of the database stays true. With `forkHeightRange = 0` nothing is ever lost and the
theorems say what they say of the heights above the range. The replay `Utxo` is a recursive function over the chain and over the
transactions of a block; one lemma per operation (`ConnectIn` and those after it) moves the cursor.

`CheckQueueProofs`: `TodoIsExact`, `QueueIdle` and `WaitIsExact`, for any number of
workers, any batch size and any number of checks. `QueueInv` has one part per
idea: who may hold a batch (`BatchesHeld`), `nTodo` against queue and batches (`Counted`), where the master is
while a block is in work (`MasterPlace`), that all checks are of this block (`ChecksOfBlock`), that
`fAllOk` is false only after a failure (`FailuresTrue`), and that a failure is not lost: a failed
check is in the queue, in a batch, in some thread's `fOk`, or has cleared `fAllOk`
(`FailuresKept`). `ResultExact` alone is not inductive: the result is read when `nTodo` is zero, and only
the last two say what that means.

`StakeKernelProofs`: `ModifiersOnePerInterval` (of two blocks that generate a modifier the higher one is in a
later interval) and `KernelModifierIsLatest`. The second needs the first:
timestamps go back, so a search by height finds the latest modifier only because modifiers,
unlike blocks, are ordered by time.

`ModifiersByDefinition` (`KernelSpec => []ModifierByDefinition`) is about what
`ComputeNextStakeModifier` computes, with any number of rounds. Its steps:

* `SwapSort` calls itself to both sides from the place of a swap, the outer call on the result of
  the inner one. That such a function exists is not obvious: it does because each call has
  fewer inversions left than the one before (`Disorder`, `SwappedLess`, `SwapSortIs`).
* `Inserted` says what one call does: if the first `pos` candidates are in order, the first `pos + 1`
  are afterwards, and a later candidate that all those before it precede still is one
  (`SwapSortInserts`); so the loop over the positions leaves all in order (`SortedIs`).
* In a sorted sequence the break at the first block beyond the stop loses none that lies
  before it, so a round finds the smallest hash of those in reach, the earlier of equal ones
  (`RoundIs`).
* `IsChoice` states what the blocks of all rounds have to satisfy. It determines them, and the rounds of the code
  (`SelectedIs`) and the reference (`ChoiceIs`) both satisfy it.
* The invariant `ModifierInv` says it of each modifier of the chain (`ByRounds`). It is
  inductive since the candidates of a block depend on lower blocks only (`BelowStable`,
  `ChoiceStable`).

That hashes do not collide is needed: the order of two blocks with the same timestamp
and the same hash would be an accident of the sort.

`BlockDownloadProofs`: `InFlightIsExact` (`DownloadSpec => []InFlightExact`), for any peers, trees of blocks,
windows and limits: `mapBlocksInFlight`, the queue of each peer, its counter and the number of peers with
downloads agree, no peer has more requests than allowed, and what a peer had is released
when it goes. `DownloadInv` states the same of the record `dl` alone (`Books`, `Limited`,
`Released`), so that it can be carried through the calls inside one handler: a block is moved from one
peer to another by `MarkBlockAsReceived` within `MarkBlockAsInFlight`, and `HeadersMessage` and
`RequestBlocks` make several requests. `SyncInv` adds that `nSyncStarted` counts the connected
peers that hold a slot of header sync. The loops are recursive functions; what they preserve is
proved through the least number of turns after which it could fail (`MarksExist`, `MarksKeepBooks`).

`AddrManProofs`: `TablesAlways` (`AddrSpec => []TablesConsistent`) and `RestartAlwaysExact` (`AddrSpec =>
[]RestartExact`), from `AddrAssumption` alone: positions are any functions of the addresses, and buckets and limits have any
size. `MaxIds` bounds the ids an execution gives out, and may be any number. `TablesConsistent` is about moments when no operation is in work; the
invariant `Consistent(t, X, Y)` is also true between two steps of one, when the entries of X are
not counted in `nNew` and have no slot, and those of Y may be without one. There is one
lemma per step (`Create`, `Delete`, `SwapRandom`, `ClearNew`, the references, the move to "tried"), about
the parts it disturbs: ids, `vRandom`, `mapAddr`, the two tables, references and counters. Between two
operations X and Y are empty.

The restart is harder than the operations, since `Unserialize` is not the inverse of `Serialize` line by line: it numbers
the entries anew, puts the "tried" ones into slots computed from their addresses, refers to
the "new" ones bucket by bucket, refuses a reference to an occupied slot or above the limit, and deletes
what is left without a reference. `Written` says what the file has, `Copied` and `CopiedTried`
what has been read of it after k turns, `OnlyCopies` that slots hold nothing else. A slot has been
free until its own entry comes, because in the tables that were written an entry was there alone; and
the limit is not met, because an entry has no more references than it had (`RoomLeft`). So all that the file lists is copied,
and the last loop deletes nothing. The five loops are recursive functions of one operator
(`StepOf`); `LoopKeeps` carries a property through any of them, by the least number of turns after which it
could fail.

Only model-checked: the
liveness properties `ActivationReturns`, `BestBlockActivated`, `WaitReturns`, `CatchUp` and
`HeadersSync`,
which are out of the prover's reach. `CheckpointStaysActive` is violated (`sync_assert`).
Where a theorem has hypotheses the runs go further than it: `names_restart` checks
histories that are pruned, `names_restart` and `names_mempool` crashes at any write.

## 5. What is left out

Not modelled. Amounts, scripts, signatures and block contents other than name
operations and spent outputs; the RPC commands that build name transactions; the
wallet; fee policy; compact blocks, transaction relay and orphan transactions;
everything listed as `not_modelled` in PROJECT.json with its reason. By lines the larger
part of the repository is of that kind: the genesis data, the wallet and its
commands, the Qt interface, vendored OpenSSL applications, LevelDB and secp256k1,
and their tests have either no state of the node's own or only state that follows
signals of the modelled parts.

A rebuild interrupted by a crash leaves a partial index that is never rebuilt: the
model has these states (`Crash` in phase `"rebuild"`), but no line of the code promises
more than a comment asking the user not to close the application. Two readings of
the source are taken over as they are: the checkpoint's master key is set, as it is by default,
and `nPeersWithValidatedDownloads` counts peers with any request, since requests are
made for known headers only.

Three details of modelled functions are simplified, without effect on the properties. `DisconnectName` compares the
transaction where the code compares its position on disk, and the failure of the read of that position ("tx index not
found", `namecoin.cpp:1613-1618`) is left out. `RebuildNextBlock` leaves out the progress report, which divides by
the height of the chain (`namecoin.cpp:1287`), and a failing `GetTransaction`, which ends the rebuild
(`namecoin.cpp:1318-1319`). `CheckProofOfStake` takes the time of the block that holds the coin where the
code takes the one of the transaction (`kernel.cpp:476`), which may be earlier.

## 6. Plan

Names, memory pool, chain activation, checkpoints, coins, check queue, stake
modifiers, block download and address manager are modelled; section 4 says what is proved of them.

Left to prove: nothing but liveness, which stays with TLC, and the hypotheses section 4 names.

Left to model: the restart of the block index (`LoadBlockIndexDB`), compact blocks, orphan
transactions, the scheduler.
