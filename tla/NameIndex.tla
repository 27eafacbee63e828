------------------------------ MODULE NameIndex ------------------------------
(***************************************************************************)
(* The name index of an MFCoin node: nameindexV2.dat (name -> history of   *)
(* name operations) and nameaddress.dat (address -> names), as they are    *)
(* maintained by the hooks of src/namecoin.cpp while src/validation.cpp    *)
(* connects and disconnects blocks, loses its volatile state in a crash,   *)
(* and recreates the index at start-up.                                    *)
(*                                                                         *)
(* One connect or disconnect of a block is several steps, one per name     *)
(* operation, because every operation is written to the databases on its   *)
(* own and a crash may fall between two of them.  cs_main is held          *)
(* throughout, so no other connect or disconnect interleaves.              *)
(***************************************************************************)
EXTENDS Integers, Sequences, FiniteSets, FiniteSetsExt

CONSTANTS
    Name,           \* the names
    Addr,           \* the addresses a name output can pay to
    NoAddr,         \* the empty address string
    Hash,           \* transaction hashes
    Tx,             \* the transactions blocks are made of (records, see TxRecord)
    Blocks,         \* the blocks the network may offer: sequences over Tx
    MaxHeight,      \* bound: height of the active chain
    MaxRestarts,    \* bound: number of restarts
    MaxSize,        \* -nameindexchainsize
    BlocksPerDay,   \* 175 in the code
    IntMax,         \* INT_MAX
    Garbage         \* what a read one past the end of vtxPos may return as nHeight

\* Operation of a transaction; "none" stands for a transaction that is not a
\* (decodable) name transaction.
Ops == {"new", "update", "delete", "none"}

\* vin is a set of outpoints <<hash, n>>: output 0 carries the name, output 1
\* is change.  feeHeights are the heights of blocks in which the transaction's
\* fee passes IsNameFeeEnough.  days is nRentalDays, which stays -1 when a
\* name_delete is decoded.  generated: a coinbase or coinstake.
TxRecord == [hash : Hash, op : Ops, name : Name, addr : Addr, days : Int,
             vin : SUBSET (Hash \X {0, 1}), feeHeights : SUBSET Nat,
             generated : BOOLEAN]

ASSUME TxAssumption ==
    /\ Tx \subseteq TxRecord
    /\ Blocks \subseteq Seq(Tx)
    /\ NoAddr \notin Addr

ASSUME BoundAssumption ==
    /\ MaxHeight \in Nat /\ MaxRestarts \in Nat
    /\ MaxSize \in Nat \ {0}
    /\ BlocksPerDay \in Nat /\ IntMax \in Nat
    /\ Garbage \subseteq Int /\ Garbage # {}

VARIABLES
    chain,      \* the active chain above genesis, chain[h] is the block at height h
    disk,       \* the chain of the last chainstate flush: what a restart starts from
    nameDB,     \* nameindexV2.dat; an absent name reads as EmptyRecord
    inDB,       \* the names that have a record in nameindexV2.dat
    nameFile,   \* does nameindexV2.dat exist?
    addrDB,     \* nameaddress.dat
    job,        \* what the thread that holds cs_main is doing
    restarts    \* number of restarts so far

vars == <<chain, disk, nameDB, inDB, nameFile, addrDB, job, restarts>>
dbVars == <<nameDB, inDB, nameFile, addrDB>>

-----------------------------------------------------------------------------
(* Records.                                                                *)

CNameIndex == [txPos : Tx, nHeight : Nat, op : Ops]

EmptyRecord == [vtxPos |-> <<>>, nExpiresAt |-> 0, nLastActiveChainIndex |-> 0]

\* CNameRecord::deleted
Deleted(rec) == rec.vtxPos = <<>> \/ rec.vtxPos[Len(rec.vtxPos)].op = "delete"

\* The test of CNameDB::ReadName that removes the index and kills the process.
Corrupt(rec) == rec.vtxPos # <<>> /\ rec.nLastActiveChainIndex >= Len(rec.vtxPos)

\* An int expression that leaves the range of int wraps around.
Wrap(x) == ((x + IntMax + 1) % (2 * (IntMax + 1))) - (IntMax + 1)

RentalBlocks(e) == Wrap(e.txPos.days * BlocksPerDay)

\* The operations from the last name_new on.
ActiveChain(v, last) == SubSeq(v, last + 1, Len(v))

\* Height first plus the rentals of all operations of seg, at most INT_MAX.
ChainExpiry(seg, first) ==
    LET sum == MapThenSumSet(LAMBDA k : RentalBlocks(seg[k]), 1..Len(seg)) + first
    IN  Wrap(IF sum > IntMax THEN IntMax ELSE sum)

\* The record CalculateExpiresAt leaves for a history and an index into it.  If
\* the index is one past the end of the vector, the nHeight found there is g.
CalculateExpiresAt(v, last, g) ==
    [vtxPos |-> v, nLastActiveChainIndex |-> last,
     nExpiresAt |-> IF v = <<>> \/ v[Len(v)].op = "delete" THEN 0
                    ELSE ChainExpiry(ActiveChain(v, last),
                                     IF last < Len(v) THEN v[last + 1].nHeight ELSE g)]

NameActive(rec, nHeight) == ~Deleted(rec) /\ nHeight <= rec.nExpiresAt

LastAddr(rec) == IF Deleted(rec) THEN NoAddr
                 ELSE rec.vtxPos[Len(rec.vtxPos)].txPos.addr

\* Mutant: the address of a name_delete output is listed.
NewAddr_OfDelete(t) == t.addr

NewAddr(t) == IF t.op = "delete" THEN NoAddr ELSE t.addr

-----------------------------------------------------------------------------
(* The address index.                                                      *)

EraseSingleName(db, a, n) == [db EXCEPT ![a] = @ \ {n}]
WriteSingleName(db, a, n) == [db EXCEPT ![a] = @ \cup {n}]

\* Erasing fails when the name is not listed, and writing then does not
\* happen; writing fails when the name is already listed.
EraseFails(db, a, n) == a # NoAddr /\ n \notin db[a]

MoveNameOK(db, old, new, n) ==
    \/ old = new
    \/ ~EraseFails(db, old, n) /\ (new = NoAddr \/ n \notin db[new])

MoveName(db, old, new, n) ==
    IF old = new \/ EraseFails(db, old, n) THEN db
    ELSE LET erased == IF old = NoAddr THEN db ELSE EraseSingleName(db, old, n)
         IN  IF new = NoAddr THEN erased ELSE WriteSingleName(erased, new, n)

-----------------------------------------------------------------------------
(* Validity of a block and of the name operations in it.                   *)

TxsOf(c) == UNION {{c[h][i] : i \in DOMAIN c[h]} : h \in DOMAIN c}

\* The inputs of every transaction exist and are unspent.
ValidBlock(c, b) ==
    \A i \in DOMAIN b :
        LET before == TxsOf(c) \cup {b[j] : j \in 1..(i-1)} IN
        /\ b[i] \notin before
        /\ \A o \in b[i].vin : /\ \E t \in before : t.hash = o[1]
                               /\ \A t \in before : o \notin t.vin

\* Mutant: an output of any earlier operation on the name will do.
SpendsLast_Any(t, rec) ==
    ~Deleted(rec) /\ \E o \in t.vin, k \in DOMAIN rec.vtxPos : o[1] = rec.vtxPos[k].txPos.hash

\* Some input of t is an output of the last known operation on its name.
SpendsLast(t, rec) ==
    ~Deleted(rec) /\ \E o \in t.vin : o[1] = rec.vtxPos[Len(rec.vtxPos)].txPos.hash

\* CNamecoinHooks::CheckInputs: t is a valid name operation at nHeight.
CheckInputs(t, rec, nHeight) ==
    \/ /\ t.op = "new"
       /\ nHeight \in t.feeHeights
       /\ ~NameActive(rec, nHeight)
    \/ /\ t.op = "update"
       /\ nHeight \in t.feeHeights
       /\ SpendsLast(t, rec)
       /\ NameActive(rec, nHeight)
    \/ /\ t.op = "delete"
       /\ SpendsLast(t, rec)
       /\ NameActive(rec, nHeight)

-----------------------------------------------------------------------------
(* What the thread that holds cs_main is doing.                            *)

Phases == {"idle", "connect", "disconnect", "rebuild", "down", "assert"}

\* todo holds the positions in blk that are still to be processed; prev is
\* prev_address of nameTempProxy; sNameNew the names a name_new of this block
\* was written for.
Job(phase, blk, h, todo, prev) ==
    [phase |-> phase, blk |-> blk, nHeight |-> h, todo |-> todo, prev |-> prev,
     sNameNew |-> {}]

JobType == [phase : Phases, blk : Seq(Tx), nHeight : Nat, todo : SUBSET Nat,
            prev : Seq(Addr \cup {NoAddr}), sNameNew : SUBSET Name]

NoJob(phase) == Job(phase, <<>>, 0, {}, <<>>)
Idle == job.phase = "idle"

\* The block's transactions CheckInputs is called for: createNameIndexes skips
\* coinbase and coinstake, ConnectBlock does not.
Candidates(phase, blk) ==
    {i \in DOMAIN blk : phase = "rebuild" => ~blk[i].generated}

\* Collect vName.  All of it is checked against the index as it is before the
\* block; reading a corrupt record removes nameindexV2.dat and aborts.
CollectNames(phase, blk, h) ==
    IF \E i \in Candidates(phase, blk) :
            blk[i].op # "none" /\ Corrupt(nameDB[blk[i].name])
    THEN job' = NoJob("assert") /\ nameFile' = FALSE
    ELSE /\ job' = Job(phase, blk, h,
                       {i \in Candidates(phase, blk) :
                            CheckInputs(blk[i], nameDB[blk[i].name], h)},
                       [i \in DOMAIN blk |-> LastAddr(nameDB[blk[i].name])])
         /\ nameFile' = nameFile

Init ==
    /\ chain = <<>> /\ disk = <<>>
    /\ nameDB = [n \in Name |-> EmptyRecord]
    /\ inDB = {}
    /\ nameFile = TRUE
    /\ addrDB = [a \in Addr |-> {}]
    /\ job = NoJob("idle")
    /\ restarts = 0

-----------------------------------------------------------------------------
(* Connecting a block.                                                     *)

BeginConnect(b) ==
    /\ Idle
    /\ Len(chain) < MaxHeight
    /\ ValidBlock(chain, b)
    /\ CollectNames("connect", b, Len(chain) + 1)
    /\ UNCHANGED <<chain, disk, nameDB, inDB, addrDB, restarts>>

\* Mutant: pruning does not move nLastActiveChainIndex.
PushOperation_IndexKept(rec, e) ==
    LET v    == Append(rec.vtxPos, e)
        last == IF e.op = "new" THEN Len(v) - 1 ELSE rec.nLastActiveChainIndex
        d    == IF Len(v) > MaxSize /\ Len(v) - last + 1 <= MaxSize
                THEN Len(v) - MaxSize ELSE 0
    IN  CalculateExpiresAt(SubSeq(v, d + 1, Len(v)), last, 0)

\* Append to the history, restart the active chain at a name_new, and drop the
\* oldest operations when there are more than MaxSize and the active chain is
\* shorter than that.
PushOperation(rec, e) ==
    LET v    == Append(rec.vtxPos, e)
        last == IF e.op = "new" THEN Len(v) - 1 ELSE rec.nLastActiveChainIndex
        d    == IF Len(v) > MaxSize /\ Len(v) - last + 1 <= MaxSize
                THEN Len(v) - MaxSize ELSE 0
    IN  CalculateExpiresAt(SubSeq(v, d + 1, Len(v)), last - d, 0)

NextUp(todo)   == CHOOSE j \in todo : \A k \in todo : j <= k
NextDown(todo) == CHOOSE j \in todo : \A k \in todo : k <= j

\* Mutant: every name_new of a block is written.
SecondNew_Written(t) == FALSE

\* "only first name_new for same name in same block will get written"
SecondNew(t) == t.op = "new" /\ t.name \in job.sNameNew

\* One turn of the loop of CNamecoinHooks::ConnectBlock.  A failing MoveName
\* abandons the rest of the loop, and nobody looks at the error.
ConnectName ==
    /\ job.phase \in {"connect", "rebuild"}
    /\ job.todo # {}
    /\ LET j == NextUp(job.todo)
           t == job.blk[j]
           old == job.prev[j]
       IN  IF SecondNew(t)
           THEN /\ job' = [job EXCEPT !.todo = @ \ {j}]
                /\ UNCHANGED dbVars
           ELSE /\ nameDB' = [nameDB EXCEPT ![t.name] =
                        PushOperation(@, [txPos |-> t, nHeight |-> job.nHeight, op |-> t.op])]
                /\ inDB' = inDB \cup {t.name}
                /\ addrDB' = MoveName(addrDB, old, NewAddr(t), t.name)
                /\ job' = [job EXCEPT
                        !.todo = IF MoveNameOK(addrDB, old, NewAddr(t), t.name)
                                 THEN @ \ {j} ELSE {},
                        !.sNameNew = IF t.op = "new" THEN @ \cup {t.name} ELSE @]
                /\ UNCHANGED nameFile
    /\ UNCHANGED <<chain, disk, restarts>>

EndConnect ==
    /\ job.phase = "connect" /\ job.todo = {}
    /\ chain' = Append(chain, job.blk)
    /\ job' = NoJob("idle")
    /\ UNCHANGED <<disk, dbVars, restarts>>

-----------------------------------------------------------------------------
(* Disconnecting the tip.                                                  *)

BeginDisconnect ==
    /\ Idle
    /\ chain # <<>>
    /\ LET blk == chain[Len(chain)] IN
       job' = Job("disconnect", blk, Len(chain), DOMAIN blk, [i \in DOMAIN blk |-> NoAddr])
    /\ UNCHANGED <<chain, disk, dbVars, restarts>>

\* Mutant: nLastActiveChainIndex is not looked for again.
PopOperation_IndexKept(rec, g) ==
    CalculateExpiresAt(SubSeq(rec.vtxPos, 1, Len(rec.vtxPos) - 1), rec.nLastActiveChainIndex, g)

\* Mutant: the search that finds no name_new leaves -1.
PopOperation_MinusOne(rec, g) ==
    LET v    == SubSeq(rec.vtxPos, 1, Len(rec.vtxPos) - 1)
        news == {k \in 1..Len(v) : v[k].op = "new"}
        last == IF rec.vtxPos[Len(rec.vtxPos)].op # "new" THEN rec.nLastActiveChainIndex
                ELSE IF news = {} THEN -1 ELSE Max(news) - 1
    IN  CalculateExpiresAt(v, last, g)

\* Mutant: the expiration is not calculated again.
PopOperation_StaleExpiry(rec, g) ==
    LET v    == SubSeq(rec.vtxPos, 1, Len(rec.vtxPos) - 1)
        news == {k \in 1..Len(v) : v[k].op = "new"}
        last == IF rec.vtxPos[Len(rec.vtxPos)].op = "new" /\ news # {}
                THEN Max(news) - 1 ELSE rec.nLastActiveChainIndex
    IN  [CalculateExpiresAt(v, last, g) EXCEPT !.nExpiresAt = rec.nExpiresAt]

\* Mutant: disconnecting an operation drops the whole history of the name.
PopOperation_All(rec, g) == CalculateExpiresAt(<<>>, 0, g)

\* The record without its last operation.  When a name_new was removed the
\* search for the previous one may find none, and the index stays as it was.
PopOperation(rec, g) ==
    LET v    == SubSeq(rec.vtxPos, 1, Len(rec.vtxPos) - 1)
        news == {k \in 1..Len(v) : v[k].op = "new"}
        last == IF rec.vtxPos[Len(rec.vtxPos)].op = "new" /\ news # {}
                THEN Max(news) - 1
                ELSE rec.nLastActiveChainIndex
    IN  CalculateExpiresAt(v, last, g)

\* CNamecoinHooks::DisconnectInputs for the next transaction in reverse order.
DisconnectName ==
    /\ job.phase = "disconnect"
    /\ job.todo # {}
    /\ LET j   == NextDown(job.todo)
           t   == job.blk[j]
           rec == nameDB[t.name]
           v   == rec.vtxPos
           next == [job EXCEPT !.todo = @ \ {j}]
       IN  \/ /\ t.op = "none" \/ t.name \notin inDB
              /\ job' = next
              /\ UNCHANGED dbVars
           \/ /\ t.op # "none" /\ t.name \in inDB /\ Corrupt(rec)
              /\ job' = NoJob("assert") /\ nameFile' = FALSE
              /\ UNCHANGED <<nameDB, inDB, addrDB>>
           \/ /\ t.op # "none" /\ t.name \in inDB /\ v = <<>>
              /\ nameDB' = [nameDB EXCEPT ![t.name] = EmptyRecord]
              /\ inDB' = inDB \ {t.name}
              /\ job' = next
              /\ UNCHANGED <<nameFile, addrDB>>
           \/ /\ t.op # "none" /\ t.name \in inDB /\ ~Corrupt(rec)
              /\ v # <<>> /\ v[Len(v)].txPos # t
              /\ job' = IF \E k \in DOMAIN v : v[k].txPos = t THEN NoJob("assert") ELSE next
              /\ UNCHANGED dbVars
           \/ /\ t.op # "none" /\ t.name \in inDB /\ ~Corrupt(rec)
              /\ v # <<>> /\ v[Len(v)].txPos = t
              /\ \E g \in Garbage : LET popped == PopOperation(rec, g) IN
                    /\ nameDB' = [nameDB EXCEPT ![t.name] = popped]
                    /\ addrDB' = MoveName(addrDB, NewAddr(t), LastAddr(popped), t.name)
              /\ job' = next
              /\ UNCHANGED <<inDB, nameFile>>
    /\ UNCHANGED <<chain, disk, restarts>>

EndDisconnect ==
    /\ job.phase = "disconnect" /\ job.todo = {}
    /\ chain' = SubSeq(chain, 1, Len(chain) - 1)
    /\ job' = NoJob("idle")
    /\ UNCHANGED <<disk, dbVars, restarts>>

-----------------------------------------------------------------------------
(* Flushing, crashing and starting again.                                  *)

\* FlushStateToDisk writes the chainstate; the name databases are not part of
\* it, each of their writes is durable at once.  (A flush or crash no
\* restart can follow has no effect on anything modelled here and is left out.)
FlushStateToDisk ==
    /\ Idle
    /\ restarts < MaxRestarts
    /\ disk' = chain
    /\ UNCHANGED <<chain, dbVars, job, restarts>>

Running == job.phase \notin {"down", "assert"}

Crash ==
    /\ Running
    /\ restarts < MaxRestarts
    /\ job' = NoJob("down")
    /\ UNCHANGED <<chain, disk, dbVars, restarts>>

\* A crash after nameindexV2.dat is written and before nameaddress.dat is.
CrashBetweenWrites ==
    /\ restarts < MaxRestarts
    /\ job' = NoJob("down")
    /\ \/ /\ job.phase \in {"connect", "rebuild"} /\ job.todo # {}
          /\ LET t == job.blk[NextUp(job.todo)] IN
             /\ ~SecondNew(t)
             /\ nameDB' = [nameDB EXCEPT ![t.name] =
                    PushOperation(@, [txPos |-> t, nHeight |-> job.nHeight, op |-> t.op])]
             /\ inDB' = inDB \cup {t.name}
       \/ /\ job.phase = "disconnect" /\ job.todo # {}
          /\ LET t == job.blk[NextDown(job.todo)]
                 rec == nameDB[t.name]
             IN  /\ t.op # "none" /\ t.name \in inDB /\ ~Corrupt(rec)
                 /\ rec.vtxPos # <<>> /\ rec.vtxPos[Len(rec.vtxPos)].txPos = t
                 /\ \E g \in Garbage :
                        nameDB' = [nameDB EXCEPT ![t.name] = PopOperation(rec, g)]
                 /\ inDB' = inDB
    /\ UNCHANGED <<chain, disk, nameFile, addrDB, restarts>>

\* createNameAddressFile
AddressFileOf(db) == [a \in Addr |-> {n \in Name : LastAddr(db[n]) = a}]

\* Mutant: nameaddress.dat is not removed before nameindexV2.dat is rebuilt.
Restart_AddrKept(keepName, keepAddr) ==
    /\ ~Running
    /\ restarts < MaxRestarts
    /\ restarts' = restarts + 1
    /\ chain' = disk
    /\ nameFile' = TRUE
    /\ addrDB' = IF keepAddr THEN addrDB ELSE AddressFileOf(nameDB)
    /\ \/ /\ nameFile /\ keepName
          /\ job' = NoJob("idle")
          /\ UNCHANGED <<nameDB, inDB>>
       \/ /\ ~(nameFile /\ keepName)
          /\ job' = NoJob("rebuild")
          /\ nameDB' = [n \in Name |-> EmptyRecord]
          /\ inDB' = {}
    /\ UNCHANGED disk

\* Start-up.  keepName, keepAddr: the user has left the two files in place.  A
\* missing nameindexV2.dat is rebuilt from the chain together with
\* nameaddress.dat; a missing nameaddress.dat alone is rebuilt from the index.
Restart(keepName, keepAddr) ==
    /\ ~Running
    /\ restarts < MaxRestarts
    /\ restarts' = restarts + 1
    /\ chain' = disk
    /\ nameFile' = TRUE
    /\ \/ /\ nameFile /\ keepName
          /\ job' = NoJob("idle")
          /\ addrDB' = IF keepAddr THEN addrDB ELSE AddressFileOf(nameDB)
          /\ UNCHANGED <<nameDB, inDB>>
       \/ /\ ~(nameFile /\ keepName)
          /\ job' = NoJob("rebuild")
          /\ nameDB' = [n \in Name |-> EmptyRecord]
          /\ inDB' = {}
          /\ addrDB' = [a \in Addr |-> {}]
    /\ UNCHANGED disk

\* createNameIndexes: the next block, or the end of the chain.
RebuildNextBlock ==
    /\ job.phase = "rebuild" /\ job.todo = {}
    /\ IF job.nHeight < Len(chain)
       THEN CollectNames("rebuild", chain[job.nHeight + 1], job.nHeight + 1)
       ELSE job' = NoJob("idle") /\ nameFile' = nameFile
    /\ UNCHANGED <<chain, disk, nameDB, inDB, addrDB, restarts>>

Next ==
    \/ \E b \in Blocks : BeginConnect(b)
    \/ ConnectName
    \/ EndConnect
    \/ BeginDisconnect
    \/ DisconnectName
    \/ EndDisconnect
    \/ FlushStateToDisk
    \/ Crash
    \/ CrashBetweenWrites
    \/ \E keepName, keepAddr \in BOOLEAN : Restart(keepName, keepAddr)
    \/ RebuildNextBlock

Spec == Init /\ [][Next]_vars
-----------------------------------------------------------------------------
(* Properties.                                                             *)

\* The variables hold values of their types.  (nExpiresAt is the subject of
\* ExpiryHonoured.)
TypeOK ==
    /\ chain \in Seq(Seq(Tx)) /\ disk \in Seq(Seq(Tx))
    /\ DOMAIN nameDB = Name
    /\ \A n \in Name : /\ nameDB[n].vtxPos \in Seq(CNameIndex)
                       /\ nameDB[n].nLastActiveChainIndex \in Nat
    /\ inDB \subseteq Name
    /\ nameFile \in BOOLEAN
    /\ addrDB \in [Addr -> SUBSET Name]
    /\ job \in JobType
    /\ job.todo \subseteq DOMAIN job.blk /\ Len(job.prev) = Len(job.blk)
    /\ restarts \in Nat

IsNew(v, k) == v[k].op = "new"

\* last is the position of the last name_new of v, or, when pruning and a
\* reorganisation have removed all of them, one past the end.
StartsActiveChain(v, last) ==
    \/ /\ last < Len(v) /\ IsNew(v, last + 1)
       /\ \A k \in (last + 2)..Len(v) : ~IsNew(v, k)
    \/ last = Len(v) /\ \A k \in 1..Len(v) : ~IsNew(v, k)

\* nLastActiveChainIndex really is the "position in vtxPos of first tx in last
\* active chain of name_new -> name_update -> ..." through appending, pruning,
\* reorganisations and restarts; the only way it can be wrong is the one
\* ReadName looks for.
LastActiveChain ==
    \A n \in Name :
        nameDB[n].vtxPos # <<>> =>
            StartsActiveChain(nameDB[n].vtxPos, nameDB[n].nLastActiveChainIndex)

\* Neither the assertion of ReadName (nLastActiveChainIndex < size) nor the one
\* of DisconnectInputs (a disconnected operation is never an older one than the
\* last of its name) ever fails.
NoFailedAssert == job.phase # "assert"

\* Each name_new of v comes after a name_delete or after the expiration of the
\* registration before it, all updates of that registration counted.
FreeWhenTaken(v) ==
    \A i \in 2..Len(v) : \A k \in 1..(i-1) :
        /\ IsNew(v, i) /\ IsNew(v, k) /\ \A m \in (k+1)..(i-1) : ~IsNew(v, m)
        /\ v[i-1].op # "delete"
        => ~(v[i].nHeight <= ChainExpiry(SubSeq(v, k, i-1), v[k].nHeight))

\* A registered name cannot be taken over: the index accepts a name_new only for
\* a name that is deleted or expired, also when a block holds several operations
\* on the name or a restart replays blocks onto an index that is ahead of them.
NoTakeover == \A n \in Name : FreeWhenTaken(nameDB[n].vtxPos)

\* Every name_update and name_delete in the index is made by the holder: it
\* spends an output of the operation before it, which is no name_delete.
OwnerContinuity ==
    \A n \in Name : LET v == nameDB[n].vtxPos IN
        \A i \in 2..Len(v) : ~IsNew(v, i) =>
            /\ v[i-1].op # "delete"
            /\ \E o \in v[i].txPos.vin : o[1] = v[i-1].txPos.hash

\* A live registration lasts until its height plus everything that was paid for
\* ("limit to INT_MAX value" the only exception).
ExpiryHonoured ==
    \A n \in Name : LET rec == nameDB[n] IN
        (~Deleted(rec) /\ ~Corrupt(rec)) =>
            LET seg == ActiveChain(rec.vtxPos, rec.nLastActiveChainIndex)
                paid == MapThenSumSet(LAMBDA k : seg[k].txPos.days * BlocksPerDay,
                                      {k \in 1..Len(seg) : seg[k].op # "delete"})
            IN  rec.nExpiresAt = Min({IntMax, seg[1].nHeight + paid})

\* Between blocks the address index lists exactly the names whose last operation
\* is no name_delete, each under the address of that operation.
ListedAddress(v, a) == v # <<>> /\ v[Len(v)].op # "delete" /\ v[Len(v)].txPos.addr = a

ListingExact ==
    addrDB = [a \in Addr |-> {n \in Name : ListedAddress(nameDB[n].vtxPos, a)}]

AddressIndexExact == Idle => ListingExact

\* Reference: the history of every name as a function of the chain alone.
\* h -> name -> operations, each block judged against the histories before it.
RefExpired(v, h) ==
    \/ v = <<>>
    \/ v[Len(v)].op = "delete"
    \/ LET k == Max({m \in 1..Len(v) : IsNew(v, m)})
       IN  ~(h <= ChainExpiry(SubSeq(v, k, Len(v)), v[k].nHeight))

RefAccepts(v, t, h) ==
    IF t.op = "new" THEN h \in t.feeHeights /\ RefExpired(v, h)
    ELSE /\ t.op = "update" => h \in t.feeHeights
         /\ ~RefExpired(v, h)
         /\ \E o \in t.vin : o[1] = v[Len(v)].txPos.hash

\* The positions of the operations on n of block b that are valid, and of those
\* that are written.
RefAccepted(v, b, n, h) ==
    {i \in DOMAIN b : b[i].op # "none" /\ b[i].name = n /\ RefAccepts(v, b[i], h)}

RefWritten(ok, b) == {i \in ok : b[i].op = "new" => \A k \in ok : i <= k}

RefOps(v, b, n, h) ==
    LET written == RefWritten(RefAccepted(v, b, n, h), b)
        at == [k \in 1..Cardinality(written) |->
                 CHOOSE i \in written : Cardinality({m \in written : m <= i}) = k]
    IN  [k \in 1..Cardinality(written) |->
            [txPos |-> b[at[k]], nHeight |-> h, op |-> b[at[k]].op]]

RefHistory(c) ==
    LET H[h \in 0..Len(c)] ==
            IF h = 0 THEN [n \in Name |-> <<>>]
            ELSE [n \in Name |-> H[h-1][n] \o RefOps(H[h-1][n], c[h], n, h)]
    IN  H[Len(c)]

\* Between blocks the index is a function of the active chain, whatever blocks
\* were connected and disconnected on the way and however it was rebuilt.  Only
\* the end of a history longer than MaxSize need be there.
EndOf(v, ref) ==
    /\ Len(v) <= Len(ref) /\ v = SubSeq(ref, Len(ref) - Len(v) + 1, Len(ref))
    /\ v = ref \/ Len(v) >= MaxSize

HistoryExact ==
    \E ref \in {RefHistory(chain)} : \A n \in Name : EndOf(nameDB[n].vtxPos, ref[n])

IndexMatchesChain == Idle => HistoryExact

\* createNameIndexes, run to its end, leaves both files as the chain says,
\* whatever a crash had left in them before.
RebuildExact ==
    [][job.phase = "rebuild" /\ job'.phase = "idle" => (HistoryExact /\ ListingExact)']_vars
=============================================================================
