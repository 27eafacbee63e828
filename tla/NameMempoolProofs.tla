------------------------- MODULE NameMempoolProofs -------------------------
(***************************************************************************)
(* Proofs about the memory pool and mapNamePending, for every set of       *)
(* names, transactions and blocks and any number of restarts.              *)
(***************************************************************************)
EXTENDS NameMempool, NameIndexProofs

-----------------------------------------------------------------------------
(* The steps of the composition, as the index sees them.                   *)

\* A step of the composition is a step of the index or leaves it unchanged.
LEMMA IndexStep == [MempoolNext]_allVars => [Next]_vars
<1>1. UNCHANGED allVars => UNCHANGED vars
  BY DEF allVars
<1>2. ASSUME NEW t \in Tx, NEW evicted, AcceptToMemoryPool(t, evicted) PROVE UNCHANGED vars
  BY <1>2 DEF AcceptToMemoryPool
<1>3. ASSUME NEW removed, RemoveStaged(removed) PROVE UNCHANGED vars
  BY <1>3 DEF RemoveStaged
<1>4. Resurrect => UNCHANGED vars
  BY DEF Resurrect
<1>5. ConnectPending \/ ConnectTip \/ DisconnectTip \/ RestartEmpty \/ IndexOnly => Next
  BY DEF ConnectPending, ConnectTip, DisconnectTip, RestartEmpty, IndexOnly, Next
<1> QED BY <1>1, <1>2, <1>3, <1>4, <1>5 DEF MempoolNext

-----------------------------------------------------------------------------
(* The inductive invariant.                                                *)

\* mapNamePending holds at most one operation per name.
OnePending == \A n \in Name : \A x, y \in mapNamePending[n] : x = y

\* An operation of the pool is pending, unless it is in the block that is just
\* being connected.
InBlock(t) == job.phase = "connect" /\ \E i \in DOMAIN job.blk : job.blk[i] = t

PoolPending ==
    Running => \A t \in mempool : t.op # "none" => t \in mapNamePending[t.name] \/ InBlock(t)

EmptyInRebuild == job.phase = "rebuild" => mempool = {}

PoolInv == MempoolTypeOK /\ OnePending /\ PoolPending /\ EmptyInRebuild /\ OneOpInPool

\* An empty pool satisfies the invariant.
LEMMA PoolInit == MempoolInit => PoolInv
<1> SUFFICES ASSUME MempoolInit PROVE PoolInv OBVIOUS
<1>1. mempool = {} /\ mapNamePending = [n \in Name |-> {}] /\ raised = 0
  BY DEF MempoolInit
<1>2. MempoolTypeOK /\ OnePending
  BY <1>1 DEF MempoolTypeOK, OnePending
<1>3. PoolPending /\ EmptyInRebuild /\ OneOpInPool
  BY <1>1 DEF PoolPending, EmptyInRebuild, OneOpInPool
<1> QED BY <1>2, <1>3 DEF PoolInv

\* A smaller pool with the same pending names.
LEMMA Shrink ==
    ASSUME PoolInv, mempool' \subseteq mempool, mapNamePending' = mapNamePending, raised' \in Nat,
           \A t \in mempool' : Running' => Running /\ (InBlock(t) => InBlock(t)'),
           job'.phase = "rebuild" => job.phase = "rebuild" \/ mempool' = {}
    PROVE  PoolInv'
<1>1. MempoolTypeOK' /\ OnePending'
  BY DEF PoolInv, MempoolTypeOK, OnePending
<1>2. PoolPending'
  <2> SUFFICES ASSUME Running', NEW t \in mempool', t.op # "none"
               PROVE  t \in mapNamePending[t.name] \/ InBlock(t)'
    BY DEF PoolPending
  <2>1. Running /\ t \in mempool /\ (InBlock(t) => InBlock(t)')
    OBVIOUS
  <2> QED BY <2>1 DEF PoolInv, PoolPending
<1>3. OneOpInPool'
  <2> SUFFICES ASSUME Running', NEW t \in mempool', NEW u \in mempool',
                      t.op # "none", u.op # "none", t.name = u.name
               PROVE  t = u
    BY DEF OneOpInPool
  <2>1. Running /\ t \in mempool /\ u \in mempool
    OBVIOUS
  <2> QED BY <2>1 DEF PoolInv, OneOpInPool
<1>4. EmptyInRebuild'
  BY DEF PoolInv, EmptyInRebuild
<1> QED BY <1>1, <1>2, <1>3, <1>4 DEF PoolInv

\* A transaction enters the pool, and mapNamePending when it is an operation.
LEMMA Enter ==
    ASSUME PoolInv, NEW t \in Tx, Acceptable(t), UNCHANGED vars, job.phase \in {"idle", "disconnect"},
           mempool' \subseteq Replaced(t), mapNamePending' = AddToPendingNames(t), raised' \in Nat
    PROVE  PoolInv'
<1>0. /\ mempool' \subseteq mempool \cup {t} /\ mempool \subseteq Tx
      /\ mapNamePending \in [Name -> SUBSET Tx] /\ t.name \in Name
      /\ job' = job
  BY TxFields DEF Replaced, PoolInv, MempoolTypeOK, vars
<1>1. t.op # "none" => mapNamePending[t.name] = {}
  BY DEF Acceptable, CheckPendingNames
<1>2. /\ mapNamePending' \in [Name -> SUBSET Tx]
      /\ \A n \in Name : mapNamePending'[n] =
            IF n = t.name /\ t.op # "none" THEN mapNamePending[n] \cup {t} ELSE mapNamePending[n]
  BY <1>0 DEF AddToPendingNames
<1>3. MempoolTypeOK'
  BY <1>0, <1>2 DEF MempoolTypeOK
<1>4. OnePending'
  BY <1>0, <1>1, <1>2 DEF PoolInv, OnePending
<1>5. Running /\ Running' /\ ~(job'.phase = "rebuild")
  BY <1>0 DEF Running
<1>6. \A u \in mempool : u.op # "none" => u \in mapNamePending[u.name] /\ u.name \in Name
  <2>1. \A u \in mempool : u.name \in Name
    BY <1>0, TxFields
  <2> QED BY <1>5, <2>1 DEF PoolInv, PoolPending, InBlock
<1>7. \A u \in mempool' : u.op # "none" => u \in mapNamePending'[u.name]
  BY <1>0, <1>2, <1>6
<1>8. PoolPending'
  BY <1>7 DEF PoolPending
<1>9. OneOpInPool'
  <2> SUFFICES ASSUME NEW u \in mempool', NEW w \in mempool',
                      u.op # "none", w.op # "none", u.name = w.name
               PROVE  u = w
    BY DEF OneOpInPool
  <2>1. u \in mapNamePending'[u.name] /\ w \in mapNamePending'[u.name] /\ u.name \in Name
    BY <1>0, <1>7, TxFields
  <2> QED BY <1>4, <2>1 DEF OnePending
<1> QED BY <1>3, <1>4, <1>5, <1>8, <1>9 DEF PoolInv, EmptyInRebuild

\* Every step preserves the invariant of the pool: one case per action.
LEMMA PoolStep == ASSUME IInv, PoolInv, [MempoolNext]_allVars PROVE PoolInv'
<1>0. /\ MempoolTypeOK /\ job.blk \in Seq(Tx) /\ job.todo \in SUBSET (1..Len(job.blk)) /\ Len(job.blk) \in Nat
  BY DEF PoolInv, IInv, TypeOK, JobType
<1>1. CASE UNCHANGED allVars
  <2>1. mempool' = mempool /\ mapNamePending' = mapNamePending /\ raised' = raised /\ job' = job
    BY <1>1 DEF allVars, poolVars, vars
  <2> QED BY <1>0, <2>1, Shrink DEF MempoolTypeOK, Running, InBlock
<1>2. ASSUME NEW t \in Tx, NEW evicted \in SUBSET Replaced(t), AcceptToMemoryPool(t, evicted) PROVE PoolInv'
  <2>1. UNCHANGED vars /\ Acceptable(t) /\ job.phase = "idle" /\ raised' \in Nat /\ mempool' = Replaced(t) \ evicted
    BY <1>0, <1>2 DEF AcceptToMemoryPool, Idle, MempoolTypeOK
  <2>2. CASE t \in evicted
    <3>1. mapNamePending' = mapNamePending /\ mempool' \subseteq mempool /\ job' = job
      BY <1>2, <2>1, <2>2 DEF AcceptToMemoryPool, Replaced, vars
    <3> QED BY <2>1, <3>1, Shrink DEF Running, InBlock
  <2>3. CASE t \notin evicted
    <3>1. mapNamePending' = AddToPendingNames(t) /\ mempool' \subseteq Replaced(t)
      BY <1>2, <2>1, <2>3 DEF AcceptToMemoryPool
    <3> QED BY <2>1, <3>1, Enter
  <2> QED BY <2>2, <2>3
<1>3. ASSUME NEW removed \in SUBSET mempool, RemoveStaged(removed) PROVE PoolInv'
  <2>1. mempool' \subseteq mempool /\ mapNamePending' = mapNamePending /\ raised' \in Nat /\ job' = job
    BY <1>0, <1>3 DEF RemoveStaged, MempoolTypeOK, vars
  <2> QED BY <2>1, Shrink DEF Running, InBlock
<1>4. CASE ConnectPending
  <2> DEFINE t == job.blk[NextUp(job.todo)]
  <2>1. /\ job.phase \in {"connect", "rebuild"} /\ job.todo # {}
        /\ job'.phase = job.phase /\ job'.blk = job.blk
    <3>1. job.phase \in {"connect", "rebuild"} /\ job.todo # {} /\ job \in JobType
      BY <1>4 DEF ConnectPending, ConnectName, IInv, TypeOK
    <3>2. \/ job' = [job EXCEPT !.todo = job'.todo]
          \/ job' = [job EXCEPT !.todo = job'.todo, !.sNameNew = job'.sNameNew]
      <4>1. \/ job' = [job EXCEPT !.todo = @ \ {NextUp(job.todo)}]
            \/ \E S, N : job' = [job EXCEPT !.todo = S, !.sNameNew = N]
        BY <1>4 DEF ConnectPending, ConnectName
      <4>2. ASSUME NEW S, NEW N, job' = [job EXCEPT !.todo = S, !.sNameNew = N]
            PROVE  job' = [job EXCEPT !.todo = job'.todo, !.sNameNew = job'.sNameNew]
        BY <3>1, <4>2 DEF JobType
      <4>3. ASSUME NEW S, job' = [job EXCEPT !.todo = S]
            PROVE  job' = [job EXCEPT !.todo = job'.todo]
        BY <3>1, <4>3 DEF JobType
      <4> QED BY <4>1, <4>2, <4>3
    <3> QED BY <3>1, <3>2 DEF JobType
  <2>2. NextUp(job.todo) \in DOMAIN job.blk /\ t \in Tx /\ t.name \in Name
    <3>1. NextUp(job.todo) \in job.todo
      BY <1>0, <2>1, NextUpOf
    <3> QED BY <1>0, <3>1, TxFields
  <2>3. /\ mempool' = mempool /\ raised' = raised
        /\ mapNamePending' = [mapNamePending EXCEPT ![t.name] = @ \ {t}]
    BY <1>4 DEF ConnectPending
  <2>4. /\ mapNamePending' \in [Name -> SUBSET Tx]
        /\ \A n \in Name : mapNamePending'[n] \subseteq mapNamePending[n]
        /\ \A n \in Name : \A u \in mapNamePending[n] : u = t \/ u \in mapNamePending'[n]
    BY <1>0, <2>2, <2>3 DEF MempoolTypeOK
  <2>5. MempoolTypeOK' /\ OnePending'
    BY <1>0, <2>3, <2>4 DEF MempoolTypeOK, OnePending, PoolInv
  <2>6. Running /\ Running'
    BY <2>1 DEF Running
  <2>7. PoolPending' 
    <3>1. CASE job.phase = "rebuild"
      BY <2>3, <3>1 DEF PoolPending, PoolInv, EmptyInRebuild
    <3>2. CASE job.phase = "connect"
      <4> SUFFICES ASSUME NEW u \in mempool, u.op # "none"
                   PROVE  u \in mapNamePending'[u.name] \/ InBlock(u)'
        BY <2>3 DEF PoolPending
      <4>1. u \in mapNamePending[u.name] \/ InBlock(u)
        BY <2>6 DEF PoolInv, PoolPending
      <4>2. InBlock(u) => InBlock(u)'
        BY <2>1 DEF InBlock
      <4>3. job'.phase = "connect" /\ \E i \in DOMAIN job'.blk : job'.blk[i] = t
        BY <2>1, <2>2, <3>2
      <4>4. u.name \in Name
        BY <1>0, TxFields DEF MempoolTypeOK
      <4>5. CASE u = t
        BY <4>3, <4>5 DEF InBlock
      <4>6. CASE u # t
        BY <2>4, <4>1, <4>2, <4>4, <4>6
      <4> QED BY <4>5, <4>6
    <3> QED BY <2>1, <3>1, <3>2
  <2>8. OneOpInPool' /\ EmptyInRebuild'
    BY <2>1, <2>3, <2>6 DEF PoolInv, OneOpInPool, EmptyInRebuild
  <2> QED BY <2>5, <2>7, <2>8 DEF PoolInv
<1>5. CASE ConnectTip
  <2>1. /\ job.phase = "connect" /\ job' = NoJob("idle") /\ mapNamePending' = mapNamePending /\ raised' = raised
        /\ mempool' = RemoveForBlock(job.blk, mempool)
    BY <1>5 DEF ConnectTip, EndConnect
  <2>2. mempool' \subseteq mempool /\ \A t \in mempool' : ~\E i \in DOMAIN job.blk : job.blk[i] = t
    BY <2>1 DEF RemoveForBlock
  <2>3. job'.phase = "idle"
    BY <2>1, NoJobTyped DEF Phases
  <2>4. \A t \in mempool' : Running' => Running /\ (InBlock(t) => InBlock(t)')
    BY <2>1, <2>2 DEF Running, InBlock
  <2> QED BY <1>0, <2>1, <2>2, <2>3, <2>4, Shrink DEF MempoolTypeOK
<1>6. CASE Resurrect
  <2> DEFINE t == job.blk[raised + 1]
  <2>1. job.phase = "disconnect" /\ UNCHANGED vars /\ raised' = raised + 1 /\ raised < Len(job.blk)
    BY <1>6 DEF Resurrect
  <2>2. raised' \in Nat /\ t \in Tx
    BY <1>0, <2>1 DEF MempoolTypeOK
  <2>3. CASE Acceptable(t) /\ mempool' = Replaced(t) /\ mapNamePending' = AddToPendingNames(t)
    BY <2>1, <2>2, <2>3, Enter
  <2>4. CASE mempool' = RemoveRecursive(t, mempool) /\ mapNamePending' = mapNamePending
    <3>1. mempool' \subseteq mempool /\ job' = job
      BY <2>1, <2>4 DEF RemoveRecursive, vars
    <3> QED BY <2>2, <2>4, <3>1, Shrink DEF Running, InBlock
  <2> QED BY <1>6, <2>3, <2>4 DEF Resurrect
<1>7. CASE DisconnectTip
  <2>1. job.phase = "disconnect" /\ job' = NoJob("idle") /\ mapNamePending' = mapNamePending /\ raised' = 0 /\ mempool' = mempool
    BY <1>7 DEF DisconnectTip, EndDisconnect
  <2>2. job'.phase = "idle"
    BY <2>1, NoJobTyped DEF Phases
  <2> QED BY <2>1, <2>2, Shrink DEF Running, InBlock
<1>8. CASE RestartEmpty
  <2>1. mempool' = {} /\ mapNamePending' = [n \in Name |-> {}] /\ raised' = 0
    BY <1>8 DEF RestartEmpty
  <2>2. MempoolTypeOK' /\ OnePending'
    BY <2>1 DEF MempoolTypeOK, OnePending
  <2>3. PoolPending' /\ EmptyInRebuild' /\ OneOpInPool'
    BY <2>1 DEF PoolPending, EmptyInRebuild, OneOpInPool
  <2> QED BY <2>2, <2>3 DEF PoolInv
<1>9. CASE IndexOnly
  <2>1. mempool' = mempool /\ mapNamePending' = mapNamePending /\ raised' \in Nat
    BY <1>0, <1>9 DEF IndexOnly, poolVars, MempoolTypeOK
  <2>2. /\ job'.phase \notin {"down", "assert"} => Running /\ job.phase # "connect"
        /\ job'.phase = "rebuild" => job.phase = "rebuild"
    <3>1. ASSUME NEW b \in Blocks, BeginConnect(b)
          PROVE  job.phase = "idle" /\ job'.phase \in {"connect", "assert"}
      BY <3>1, NoJobTyped DEF BeginConnect, Idle, CollectNames, Job, Phases
    <3>2. BeginDisconnect => job.phase = "idle" /\ job'.phase = "disconnect"
      BY DEF BeginDisconnect, Idle, Job
    <3>3. DisconnectName => job.phase = "disconnect" /\ job'.phase \in {"disconnect", "assert"}
      <4> SUFFICES ASSUME DisconnectName PROVE job'.phase \in {"disconnect", "assert"}
        BY DEF DisconnectName
      <4>1. job' = NoJob("assert") \/ job' = [job EXCEPT !.todo = @ \ {NextDown(job.todo)}]
        BY DEF DisconnectName
      <4>2. job \in JobType /\ job.phase = "disconnect"
        BY DEF IInv, TypeOK, DisconnectName
      <4> QED BY <4>1, <4>2, NoJobTyped DEF Phases, JobType
    <3>4. FlushStateToDisk => job.phase = "idle" /\ job'.phase = "idle"
      BY DEF FlushStateToDisk, Idle
    <3>5. Crash \/ CrashBetweenWrites => job'.phase = "down"
      BY NoJobTyped DEF Crash, CrashBetweenWrites, Phases
    <3>6. RebuildNextBlock => job.phase = "rebuild" /\ job'.phase \in {"rebuild", "idle", "assert"}
      BY NoJobTyped DEF RebuildNextBlock, CollectNames, Job, Phases
    <3> QED BY <1>9, <3>1, <3>2, <3>3, <3>4, <3>5, <3>6 DEF IndexOnly, Running
  <2>3. \A t \in mempool' : Running' => Running /\ (InBlock(t) => InBlock(t)')
    BY <2>2 DEF Running, InBlock
  <2> QED BY <2>1, <2>2, <2>3, Shrink
<1> QED BY <1>1, <1>2, <1>3, <1>4, <1>5, <1>6, <1>7, <1>8, <1>9 DEF MempoolNext

\* The pool never holds two operations on one name, for all transactions, blocks
\* and policies.
THEOREM AtMostOneOp == MempoolSpec => []OneOpInPool
<1>1. MempoolInit => IInv /\ PoolInv
  BY InitIInv, PoolInit DEF MempoolInit
<1>2. (IInv /\ PoolInv) /\ [MempoolNext]_allVars => (IInv /\ PoolInv)'
  BY IndexStep, StepIInv, PoolStep
<1>3. PoolInv => OneOpInPool
  BY DEF PoolInv
<1> QED BY <1>1, <1>2, <1>3, PTL DEF MempoolSpec
-----------------------------------------------------------------------------
(* The pool can be mined: inputs exist, are unspent and are spent once.    *)

\* Every input of t is an output of a transaction of S.
Sourced(t, S) == \A o \in t.vin : \E s \in S : s.hash = o[1]

\* The inputs of the transactions of a pool are outputs of base or of the pool,
\* not spent by a transaction of coins, and each is spent once.
SoundPool(base, coins, pool) ==
    \A t \in pool :
        /\ Sourced(t, base \cup pool)
        /\ \A s \in coins : s.vin \cap t.vin = {}
        /\ \A u \in pool : u # t => u.vin \cap t.vin = {}

\* CalculateDescendants finds a set that is closed under spending.
LEMMA DescendantsClosed ==
    ASSUME NEW pool, NEW S \in SUBSET pool
    PROVE  S \subseteq Descendants(S, pool) /\ ClosedIn(Descendants(S, pool), pool)
<1> DEFINE D == Descendants(S, pool)
<1>1. S \subseteq D
  BY DEF Descendants
<1>2. ASSUME NEW t \in pool, NEW s \in D, Spends(t, s) PROVE t \in D
  <2> SUFFICES ASSUME NEW C \in SUBSET pool, S \subseteq C, ClosedIn(C, pool) PROVE t \in C
    BY DEF Descendants
  <2>1. s \in C
    BY <1>2 DEF Descendants
  <2> QED BY <1>2, <2>1 DEF ClosedIn
<1> HIDE DEF D
<1>3. ClosedIn(D, pool)
  BY <1>2 DEF ClosedIn
<1> QED BY <1>1, <1>3 DEF D

\* Removing transactions with all their descendants leaves a sound pool.
LEMMA RemoveSound ==
    ASSUME NEW base, NEW coins, NEW pool, SoundPool(base, coins, pool), NEW D, ClosedIn(D, pool)
    PROVE  SoundPool(base, coins, pool \ D)
<1> SUFFICES ASSUME NEW t \in pool \ D
             PROVE  /\ Sourced(t, base \cup (pool \ D))
                    /\ \A s \in coins : s.vin \cap t.vin = {}
                    /\ \A u \in pool \ D : u # t => u.vin \cap t.vin = {}
  BY DEF SoundPool
<1>1. /\ Sourced(t, base \cup pool)
      /\ \A s \in coins : s.vin \cap t.vin = {}
      /\ \A u \in pool : u # t => u.vin \cap t.vin = {}
  BY DEF SoundPool
<1>2. ASSUME NEW o \in t.vin PROVE \E s \in base \cup (pool \ D) : s.hash = o[1]
  <2>1. PICK s \in base \cup pool : s.hash = o[1]
    BY <1>1 DEF Sourced
  <2>2. s \notin D \/ s \notin pool
    BY <2>1 DEF ClosedIn, Spends
  <2> QED BY <2>1, <2>2
<1> QED BY <1>1, <1>2 DEF Sourced

\* A transaction with its inputs takes the place of those it conflicts with.
LEMMA EnterSound ==
    ASSUME NEW base, NEW coins, coins \subseteq base, SoundPool(base, coins, mempool), NEW t,
           Sourced(t, coins \cup mempool), \A s \in coins : s.vin \cap t.vin = {},
           \A s \in Descendants(ConflictsOf(t, mempool), mempool) : ~Spends(t, s)
    PROVE  SoundPool(base, coins, Replaced(t))
<1> DEFINE D == Descendants(ConflictsOf(t, mempool), mempool)
           rest == mempool \ D
<1>1. ConflictsOf(t, mempool) \subseteq mempool
  BY DEF ConflictsOf
<1>2. ConflictsOf(t, mempool) \subseteq D /\ ClosedIn(D, mempool)
  BY <1>1, DescendantsClosed
<1>3. \A s \in D : ~Spends(t, s)
  OBVIOUS
<1>4. Replaced(t) = rest \cup {t}
  BY DEF Replaced
<1> HIDE DEF D
<1>5. SoundPool(base, coins, rest)
  BY <1>2, RemoveSound
<1>6. \A u \in rest : u # t => u.vin \cap t.vin = {}
  BY <1>2 DEF ConflictsOf
<1>7. Sourced(t, base \cup rest)
  <2> SUFFICES ASSUME NEW o \in t.vin PROVE \E s \in base \cup rest : s.hash = o[1]
    BY DEF Sourced
  <2>1. PICK s \in coins \cup mempool : s.hash = o[1]
    BY DEF Sourced
  <2>2. s \notin D
    BY <1>3, <2>1 DEF Spends
  <2> QED BY <2>1, <2>2
<1> HIDE DEF rest
<1>8. \A u \in rest : Sourced(u, base \cup (rest \cup {t}))
  BY <1>5 DEF SoundPool, Sourced
<1>9. Sourced(t, base \cup (rest \cup {t}))
  BY <1>7 DEF Sourced
<1>10. \A u \in rest : /\ \A s \in coins : s.vin \cap u.vin = {}
                       /\ \A w \in rest : w # u => w.vin \cap u.vin = {}
  BY <1>5 DEF SoundPool
<1>11. SoundPool(base, coins, rest \cup {t})
  BY <1>6, <1>8, <1>9, <1>10 DEF SoundPool
<1> QED BY <1>4, <1>11

\* removeForBlock leaves a pool that is sound on the chain with the block.
LEMMA BlockSound ==
    ASSUME NEW coins, NEW pool, SoundPool(coins, coins, pool), NEW blk
    PROVE  LET txs == {blk[i] : i \in DOMAIN blk}
           IN  SoundPool(coins \cup txs, coins \cup txs, RemoveForBlock(blk, pool))
<1> DEFINE txs == {blk[i] : i \in DOMAIN blk}
           rest == pool \ txs
           conf == UNION {ConflictsOf(blk[i], rest) : i \in DOMAIN blk}
           D == Descendants(conf, rest)
<1>1. conf \subseteq rest
  BY DEF ConflictsOf
<1>2. conf \subseteq D /\ ClosedIn(D, rest)
  BY <1>1, DescendantsClosed
<1>3. RemoveForBlock(blk, pool) = rest \ D
  BY DEF RemoveForBlock
<1>4. \A b \in txs : \A t \in rest : b.vin \cap t.vin # {} => t \in conf
  BY DEF ConflictsOf
<1> HIDE DEF D, conf
<1>5. SoundPool(coins \cup txs, coins, rest)
  <2> SUFFICES ASSUME NEW t \in rest
               PROVE  /\ Sourced(t, (coins \cup txs) \cup rest)
                      /\ \A s \in coins : s.vin \cap t.vin = {}
                      /\ \A u \in rest : u # t => u.vin \cap t.vin = {}
    BY DEF SoundPool
  <2>1. Sourced(t, coins \cup pool)
    BY DEF SoundPool
  <2>2. coins \cup pool \subseteq (coins \cup txs) \cup rest
    OBVIOUS
  <2> HIDE DEF txs
  <2>3. Sourced(t, (coins \cup txs) \cup rest)
    BY <2>1, <2>2 DEF Sourced
  <2> QED BY <2>3 DEF SoundPool
<1> HIDE DEF txs, rest
<1>6. SoundPool(coins \cup txs, coins, rest \ D)
  BY <1>2, <1>5, RemoveSound
<1>7. \A t \in rest \ D : \A s \in txs : s.vin \cap t.vin = {}
  BY <1>2, <1>4
<1>8. SoundPool(coins \cup txs, coins \cup txs, rest \ D)
  BY <1>6, <1>7 DEF SoundPool
<1> QED BY <1>3, <1>8 DEF txs

\* The transactions of the disconnected block that were not offered to the pool
\* yet.  Until they are, the pool may hold transactions that spend them.
Unraised ==
    IF job.phase = "disconnect" THEN {job.blk[i] : i \in {k \in DOMAIN job.blk : k > raised}}
    ELSE {}

PoolSound ==
    Running => SoundPool(TxsOf(CoinsTip) \cup Unraised, TxsOf(CoinsTip), mempool)

\* The block in work is the tip, and outside DisconnectTip none is resurrected.
RaisedBlock ==
    /\ job.phase = "disconnect" => chain # <<>> /\ job.blk = chain[Len(chain)]
    /\ Running /\ job.phase # "disconnect" => raised = 0

SoundInv == PoolSound /\ RaisedBlock

\* A transaction of a chain is at some place of some block.
LEMMA InTxsOf ==
    ASSUME NEW c, NEW x
    PROVE  x \in TxsOf(c) <=> \E h \in DOMAIN c : \E i \in DOMAIN c[h] : x = c[h][i]
  BY DEF TxsOf

\* The transactions of a chain are those below its tip and those of the tip.
LEMMA TxsOfFront ==
    ASSUME NEW S, NEW c \in Seq(S), c # <<>>
    PROVE  TxsOf(c) = TxsOf(SubSeq(c, 1, Len(c) - 1))
                        \cup {c[Len(c)][i] : i \in DOMAIN c[Len(c)]}
<1> DEFINE f == SubSeq(c, 1, Len(c) - 1)
           n == Len(c)
<1>1. n \in Nat \ {0} /\ DOMAIN c = 1..n
  OBVIOUS
<1>2. f \in Seq(S) /\ Len(f) = n - 1 /\ \A i \in 1..Len(f) : f[i] = c[i]
  <2>1. f = SubSeq(c, 1, Len(c) - 1)
    OBVIOUS
  <2>2. Len(c) \in Nat \ {0}
    OBVIOUS
  <2> HIDE DEF f
  <2>3. f \in Seq(S) /\ Len(f) = Len(c) - 1 /\ \A i \in 1..Len(f) : f[i] = c[i]
    BY <2>1, <2>2, WithoutLast, Zenon
  <2> QED BY <2>3
<1> HIDE DEF f
<1>3. DOMAIN f = 1..(n - 1)
  BY <1>1, <1>2
<1> HIDE DEF n
<1>4. \A h \in DOMAIN c : h = n \/ (h \in DOMAIN f /\ f[h] = c[h])
  BY <1>1, <1>2, <1>3
<1>5. \A h \in DOMAIN f : h \in DOMAIN c /\ f[h] = c[h]
  BY <1>1, <1>2, <1>3
<1>6. n \in DOMAIN c
  BY <1>1
<1>7. TxsOf(c) \subseteq TxsOf(f) \cup {c[n][i] : i \in DOMAIN c[n]}
  BY <1>4, InTxsOf
<1>8. TxsOf(f) \subseteq TxsOf(c)
  BY <1>5, InTxsOf
<1>9. {c[n][i] : i \in DOMAIN c[n]} \subseteq TxsOf(c)
  BY <1>6, InTxsOf
<1> QED BY <1>7, <1>8, <1>9 DEF f, n

\* A chain with one more block.
LEMMA TxsOfAppend ==
    ASSUME NEW c \in Seq(Seq(Tx)), NEW b \in Seq(Tx)
    PROVE  TxsOf(Append(c, b)) = TxsOf(c) \cup {b[i] : i \in DOMAIN b}
<1> DEFINE a == Append(c, b)
           n == Len(c) + 1
<1>1. a \in Seq(Seq(Tx)) /\ DOMAIN a = 1..n /\ n \in Nat /\ DOMAIN c = 1..Len(c) /\ Len(c) \in Nat
  OBVIOUS
<1>2. a[n] = b /\ \A h \in 1..Len(c) : a[h] = c[h]
  OBVIOUS
<1>3. \A h \in DOMAIN a : h = n \/ (h \in DOMAIN c /\ a[h] = c[h])
  BY <1>1, <1>2
<1>4. n \in DOMAIN a /\ \A h \in DOMAIN c : h \in DOMAIN a /\ a[h] = c[h]
  BY <1>1, <1>2
<1> HIDE DEF a, n
<1>5. TxsOf(a) \subseteq TxsOf(c) \cup {b[i] : i \in DOMAIN b}
  BY <1>2, <1>3, InTxsOf
<1>6. TxsOf(c) \subseteq TxsOf(a)
  BY <1>4, InTxsOf
<1>7. {b[i] : i \in DOMAIN b} \subseteq TxsOf(a)
  BY <1>2, <1>4, InTxsOf
<1> QED BY <1>5, <1>6, <1>7 DEF a

\* What a step that leaves the pool and the chain alone must keep.
LEMMA SoundUnchanged ==
    ASSUME SoundInv, UNCHANGED <<chain, mempool, raised>>, RaisedBlock',
           Running' => Running /\ job'.phase = job.phase /\ job'.blk = job.blk
    PROVE  SoundInv'
<1>1. Running' => CoinsTip' = CoinsTip /\ Unraised' = Unraised
  BY DEF CoinsTip, Unraised
<1>2. PoolSound'
  BY <1>1 DEF SoundInv, PoolSound
<1> QED BY <1>2 DEF SoundInv
\* Acceptable transactions have unspent inputs.
LEMMA AcceptableInputs ==
    ASSUME NEW t, Acceptable(t)
    PROVE  /\ Sourced(t, TxsOf(CoinsTip) \cup mempool)
           /\ \A s \in TxsOf(CoinsTip) : s.vin \cap t.vin = {}
           /\ \A s \in Descendants(ConflictsOf(t, mempool), mempool) : ~Spends(t, s)
  BY DEF Acceptable, HaveInputs, Sourced

\* Connecting the block in work: removeForBlock.
LEMMA ConnectTipSound == ASSUME IInv, SoundInv, ConnectTip PROVE SoundInv'
<1>1. /\ job.phase = "connect" /\ job' = NoJob("idle") /\ chain' = Append(chain, job.blk)
      /\ mempool' = RemoveForBlock(job.blk, mempool) /\ raised' = raised
  BY DEF ConnectTip, EndConnect
<1>2. chain \in Seq(Seq(Tx)) /\ job.blk \in Seq(Tx) /\ job'.phase = "idle"
  BY <1>1, NoJobTyped DEF IInv, TypeOK, JobType, Phases
<1>3. CoinsTip = chain /\ CoinsTip' = chain' /\ Unraised = {} /\ Unraised' = {} /\ Running
  BY <1>1, <1>2 DEF CoinsTip, Unraised, Running
<1>4. SoundPool(TxsOf(chain), TxsOf(chain), mempool)
  <2>1. TxsOf(chain) \cup {} = TxsOf(chain)
    OBVIOUS
  <2> QED BY <1>3, <2>1 DEF SoundInv, PoolSound
<1> DEFINE coins == TxsOf(chain)
           txs == {job.blk[i] : i \in DOMAIN job.blk}
<1>5. SoundPool(coins \cup txs, coins \cup txs, mempool')
  BY <1>1, <1>4, BlockSound
<1>6. TxsOf(chain') = coins \cup txs
  BY <1>1, <1>2, TxsOfAppend
<1> HIDE DEF coins, txs
<1>7. TxsOf(chain') \cup {} = TxsOf(chain')
  OBVIOUS
<1>8. PoolSound'
  BY <1>3, <1>5, <1>6, <1>7 DEF PoolSound
<1>9. RaisedBlock'
  BY <1>1, <1>2, <1>3 DEF RaisedBlock, SoundInv
<1> QED BY <1>8, <1>9 DEF SoundInv

\* Resurrecting the next transaction of the disconnected block, or dropping what
\* depends on it.
LEMMA ResurrectSound == ASSUME IInv, MempoolTypeOK, SoundInv, Resurrect PROVE SoundInv'
<1> DEFINE t == job.blk[raised + 1]
           coins == TxsOf(CoinsTip)
           base == coins \cup Unraised'
<1>1. /\ job.phase = "disconnect" /\ UNCHANGED vars /\ raised' = raised + 1 /\ raised < Len(job.blk)
      /\ raised \in Nat /\ job.blk \in Seq(Tx)
  BY DEF Resurrect, MempoolTypeOK, IInv, TypeOK, JobType
<1>2. job' = job /\ chain' = chain
  BY <1>1 DEF vars
<1>3. CoinsTip' = CoinsTip /\ Running /\ Running'
  BY <1>1, <1>2 DEF CoinsTip, Running
<1>4. Unraised \subseteq Unraised' \cup {t} /\ Unraised' \subseteq Unraised
  <2>1. \A k \in DOMAIN job.blk : k > raised => k > raised + 1 \/ k = raised + 1
    BY <1>1
  <2>2. \A k \in DOMAIN job.blk : k > raised + 1 => k > raised
    BY <1>1
  <2> QED BY <1>1, <1>2, <2>1, <2>2 DEF Unraised
<1>5. SoundPool(coins \cup Unraised, coins, mempool)
  BY <1>3 DEF SoundInv, PoolSound
<1>6. RaisedBlock'
  BY <1>1, <1>2 DEF SoundInv, RaisedBlock
<1>7. SUFFICES SoundPool(base, coins, mempool')
  BY <1>3, <1>6 DEF SoundInv, PoolSound
<1>8. CASE Acceptable(t) /\ mempool' = Replaced(t)
  <2>0. /\ Sourced(t, coins \cup mempool) /\ \A s \in coins : s.vin \cap t.vin = {}
        /\ \A s \in Descendants(ConflictsOf(t, mempool), mempool) : ~Spends(t, s)
    BY <1>8, AcceptableInputs
  <2> HIDE DEF coins, t
  <2>1. SoundPool(coins \cup Unraised, coins, Replaced(t))
    BY <1>5, <2>0, EnterSound
  <2>2. t \in Replaced(t)
    BY DEF Replaced
  <2>3. (coins \cup Unraised) \cup Replaced(t) \subseteq base \cup Replaced(t)
    BY <1>4, <2>2
  <2>4. \A u \in Replaced(t) : Sourced(u, base \cup Replaced(t))
    BY <2>1, <2>3 DEF SoundPool, Sourced
  <2> QED BY <1>8, <2>1, <2>4 DEF SoundPool
<1>9. CASE mempool' = RemoveRecursive(t, mempool)
  <2> DEFINE S == IF t \in mempool THEN {t} ELSE {s \in mempool : Spends(s, t)}
             D == Descendants(S, mempool)
  <2>1. S \subseteq mempool
    OBVIOUS
  <2>2. S \subseteq D /\ ClosedIn(D, mempool)
    BY <2>1, DescendantsClosed
  <2>3. mempool' = mempool \ D
    BY <1>9 DEF RemoveRecursive
  <2> HIDE DEF D, t, coins
  <2>4. \A u \in mempool : Spends(u, t) => u \in D
    BY <2>2 DEF ClosedIn
  <2> HIDE DEF S
  <2>5. SoundPool(coins \cup Unraised, coins, mempool \ D)
    BY <1>5, <2>2, RemoveSound
  <2>6. \A u \in mempool \ D : Sourced(u, base \cup (mempool \ D))
    <3> SUFFICES ASSUME NEW u \in mempool \ D, NEW o \in u.vin
                 PROVE  \E s \in base \cup (mempool \ D) : s.hash = o[1]
      BY DEF Sourced
    <3>1. PICK s \in (coins \cup Unraised) \cup (mempool \ D) : s.hash = o[1]
      BY <2>5 DEF SoundPool, Sourced
    <3>2. s # t
      BY <2>4, <3>1 DEF Spends
    <3> QED BY <1>4, <3>1, <3>2
  <2> QED BY <2>3, <2>5, <2>6 DEF SoundPool
<1> QED BY <1>8, <1>9 DEF Resurrect

\* The index's own steps: no step of ConnectBlock or DisconnectBlock touches the
\* pool, and disconnecting takes the block's transactions from the coins.
LEMMA IndexOnlySound == ASSUME IInv, SoundInv, IndexOnly PROVE SoundInv'
<1>0. /\ mempool' = mempool /\ raised' = raised /\ chain \in Seq(Seq(Tx)) /\ job \in JobType
  BY DEF IndexOnly, poolVars, IInv, TypeOK
<1>1. ASSUME NEW b \in Blocks, BeginConnect(b) PROVE SoundInv'
  <2>1. job.phase = "idle" /\ job'.phase \in {"connect", "assert"} /\ chain' = chain
    BY <1>1, NoJobTyped DEF BeginConnect, Idle, CollectNames, Job, Phases
  <2>2. CoinsTip' = CoinsTip /\ Unraised' = Unraised /\ Running
    BY <2>1 DEF CoinsTip, Unraised, Running
  <2> QED BY <1>0, <2>1, <2>2 DEF SoundInv, PoolSound, RaisedBlock, Running
<1>2. CASE BeginDisconnect
  <2>1. /\ job.phase = "idle" /\ job'.phase = "disconnect" /\ chain' = chain /\ chain # <<>>
        /\ job'.blk = chain[Len(chain)]
    BY <1>2 DEF BeginDisconnect, Idle, Job
  <2>2. raised = 0 /\ Running
    BY <2>1 DEF SoundInv, RaisedBlock, Running
  <2> DEFINE front == SubSeq(chain, 1, Len(chain) - 1)
             blk == chain[Len(chain)]
             txs == {blk[i] : i \in DOMAIN blk}
  <2>3. TxsOf(chain) = TxsOf(front) \cup txs
    BY <1>0, <2>1, TxsOfFront
  <2>4. Unraised' = txs
    <3>1. blk \in Seq(Tx)
      BY <1>0, <2>1
    <3>2. {k \in DOMAIN blk : k > 0} = DOMAIN blk
      BY <3>1
    <3> QED BY <1>0, <2>1, <2>2, <3>2 DEF Unraised
  <2>5. CoinsTip = chain /\ CoinsTip' = front /\ Unraised = {}
    BY <2>1 DEF CoinsTip, Unraised
  <2> HIDE DEF front, txs
  <2>6. SoundPool(TxsOf(chain), TxsOf(chain), mempool)
    <3>1. TxsOf(chain) \cup {} = TxsOf(chain)
      OBVIOUS
    <3> QED BY <2>2, <2>5, <3>1 DEF SoundInv, PoolSound
  <2>7. SoundPool(TxsOf(front) \cup txs, TxsOf(front), mempool)
    BY <2>3, <2>6 DEF SoundPool
  <2> QED BY <1>0, <2>1, <2>4, <2>5, <2>7 DEF SoundInv, PoolSound, RaisedBlock
<1>3. CASE DisconnectName
  <2>1. job' = NoJob("assert") \/ job' = [job EXCEPT !.todo = @ \ {NextDown(job.todo)}]
    BY <1>3 DEF DisconnectName
  <2>2. job.phase = "disconnect" /\ chain' = chain
    BY <1>3 DEF DisconnectName
  <2>3. job'.phase = "assert" \/ (job'.phase = "disconnect" /\ job'.blk = job.blk)
    BY <1>0, <2>1, <2>2, NoJobTyped DEF Phases, JobType
  <2>4. RaisedBlock'
    BY <1>0, <2>2, <2>3 DEF RaisedBlock, SoundInv, Running
  <2> QED BY <1>0, <2>2, <2>3, <2>4, SoundUnchanged DEF Running
<1>4. CASE FlushStateToDisk
  <2>1. job' = job /\ chain' = chain
    BY <1>4 DEF FlushStateToDisk
  <2> QED BY <1>0, <2>1, SoundUnchanged DEF SoundInv, RaisedBlock, Running
<1>5. CASE Crash \/ CrashBetweenWrites
  <2>1. job'.phase = "down"
    BY <1>5, NoJobTyped DEF Crash, CrashBetweenWrites, Phases
  <2> QED BY <2>1 DEF SoundInv, PoolSound, RaisedBlock, Running
<1>6. CASE RebuildNextBlock
  <2>1. job.phase = "rebuild" /\ job'.phase \in {"rebuild", "idle", "assert"} /\ chain' = chain
    BY <1>6, NoJobTyped DEF RebuildNextBlock, CollectNames, Job, Phases
  <2>2. CoinsTip' = CoinsTip /\ Unraised' = Unraised /\ Running
    BY <2>1 DEF CoinsTip, Unraised, Running
  <2> QED BY <1>0, <2>1, <2>2 DEF SoundInv, PoolSound, RaisedBlock, Running
<1> QED BY <1>1, <1>2, <1>3, <1>4, <1>5, <1>6 DEF IndexOnly
\* Every step keeps the pool sound: one case per action.
LEMMA SoundStep == ASSUME IInv, PoolInv, SoundInv, [MempoolNext]_allVars PROVE SoundInv'
<1>1. CASE UNCHANGED allVars
  <2>1. job' = job /\ UNCHANGED <<chain, mempool, raised>>
    BY <1>1 DEF allVars, vars, poolVars
  <2> QED BY <2>1, SoundUnchanged DEF SoundInv, RaisedBlock, Running
<1>2. ASSUME UNCHANGED vars, raised' = raised, Idle,
             SoundPool(TxsOf(CoinsTip) \cup Unraised, TxsOf(CoinsTip), mempool')
      PROVE  SoundInv'
  <2>1. job' = job /\ chain' = chain
    BY <1>2 DEF vars
  <2>2. CoinsTip' = CoinsTip /\ Unraised' = Unraised
    BY <1>2, <2>1 DEF CoinsTip, Unraised
  <2> QED BY <1>2, <2>1, <2>2 DEF SoundInv, PoolSound, RaisedBlock, Running
<1>3. Idle => SoundPool(TxsOf(CoinsTip) \cup Unraised, TxsOf(CoinsTip), mempool)
  BY DEF SoundInv, PoolSound, Running, Idle
<1>4. ASSUME NEW t \in Tx, NEW evicted \in SUBSET Replaced(t), AcceptToMemoryPool(t, evicted)
      PROVE  SoundInv'
  <2> DEFINE coins == TxsOf(CoinsTip)
             base == coins \cup Unraised
  <2>1. Idle /\ Acceptable(t) /\ ClosedIn(evicted, Replaced(t)) /\ mempool' = Replaced(t) \ evicted
    BY <1>4 DEF AcceptToMemoryPool
  <2>2. /\ Sourced(t, coins \cup mempool) /\ \A s \in coins : s.vin \cap t.vin = {}
        /\ \A s \in Descendants(ConflictsOf(t, mempool), mempool) : ~Spends(t, s)
    BY <2>1, AcceptableInputs
  <2>3. SoundPool(base, coins, mempool) /\ coins \subseteq base
    BY <1>3, <2>1
  <2> HIDE DEF coins, base
  <2>4. SoundPool(base, coins, Replaced(t))
    BY <2>2, <2>3, EnterSound
  <2>5. SoundPool(base, coins, mempool')
    BY <2>1, <2>4, RemoveSound
  <2> QED BY <1>2, <1>4, <2>1, <2>5 DEF AcceptToMemoryPool, base, coins
<1>5. ASSUME NEW removed \in SUBSET mempool, RemoveStaged(removed) PROVE SoundInv'
  <2>1. Idle /\ ClosedIn(removed, mempool) /\ mempool' = mempool \ removed
    BY <1>5 DEF RemoveStaged
  <2>2. SoundPool(TxsOf(CoinsTip) \cup Unraised, TxsOf(CoinsTip), mempool \ removed)
    BY <1>3, <2>1, RemoveSound
  <2> QED BY <1>2, <1>5, <2>1, <2>2 DEF RemoveStaged
<1>6. CASE ConnectPending
  <2> DEFINE j == NextUp(job.todo)
  <2>1. /\ job.phase \in {"connect", "rebuild"} /\ job \in JobType
        /\ UNCHANGED <<chain, mempool, raised>>
    BY <1>6 DEF ConnectPending, ConnectName, IInv, TypeOK
  <2>2. \/ job' = [job EXCEPT !.todo = @ \ {j}]
        \/ \E S, N : job' = [job EXCEPT !.todo = S, !.sNameNew = N]
    BY <1>6 DEF ConnectPending, ConnectName
  <2>3. job'.phase = job.phase /\ job'.blk = job.blk
    BY <2>1, <2>2 DEF JobType
  <2>4. RaisedBlock'
    BY <2>1, <2>3 DEF SoundInv, RaisedBlock, Running
  <2> QED BY <2>1, <2>3, <2>4, SoundUnchanged DEF Running
<1>7. CASE DisconnectTip
  <2>1. /\ job.phase = "disconnect" /\ job' = NoJob("idle") /\ raised' = 0 /\ mempool' = mempool
        /\ chain' = SubSeq(chain, 1, Len(chain) - 1) /\ raised = Len(job.blk)
    BY <1>7 DEF DisconnectTip, EndDisconnect
  <2>2. job'.phase = "idle" /\ job.blk \in Seq(Tx)
    BY <2>1, NoJobTyped DEF Phases, IInv, TypeOK, JobType
  <2>3. CoinsTip = chain' /\ CoinsTip' = chain' /\ Unraised' = {} /\ Running
    BY <2>1, <2>2 DEF CoinsTip, Unraised, Running
  <2>4. Unraised = {}
    <3>1. {k \in DOMAIN job.blk : k > raised} = {}
      BY <2>1, <2>2
    <3> QED BY <2>1, <3>1 DEF Unraised
  <2> QED BY <2>1, <2>2, <2>3, <2>4 DEF SoundInv, PoolSound, RaisedBlock
<1>8. CASE RestartEmpty
  <2>1. mempool' = {} /\ raised' = 0 /\ (job' = NoJob("idle") \/ job' = NoJob("rebuild"))
    BY <1>8 DEF RestartEmpty, Restart
  <2>2. job'.phase # "disconnect"
    BY <2>1, NoJobTyped DEF Phases
  <2> QED BY <2>1, <2>2 DEF SoundInv, PoolSound, RaisedBlock, SoundPool
<1>9. CASE ConnectTip
  BY <1>9, ConnectTipSound
<1>10. CASE Resurrect
  BY <1>10, ResurrectSound DEF PoolInv
<1>11. CASE IndexOnly
  BY <1>11, IndexOnlySound
<1> QED BY <1>1, <1>4, <1>5, <1>6, <1>7, <1>8, <1>9, <1>10, <1>11 DEF MempoolNext

\* What CTxMemPool::check asserts holds for all transactions, blocks and
\* policies: through replacements, evictions, blocks that conflict with the
\* pool, reorganisations and restarts.
THEOREM PoolStaysSpendable == MempoolSpec => []PoolSpendable
<1>1. MempoolInit => IInv /\ PoolInv /\ SoundInv
  <2> SUFFICES ASSUME MempoolInit PROVE SoundInv
    BY InitIInv, PoolInit DEF MempoolInit
  <2>1. mempool = {} /\ raised = 0 /\ job = NoJob("idle")
    BY DEF MempoolInit, Init
  <2>2. job.phase = "idle"
    BY <2>1, NoJobTyped DEF Phases
  <2> QED BY <2>1, <2>2 DEF SoundInv, PoolSound, RaisedBlock, SoundPool
<1>2. (IInv /\ PoolInv /\ SoundInv) /\ [MempoolNext]_allVars => (IInv /\ PoolInv /\ SoundInv)'
  BY IndexStep, StepIInv, PoolStep, SoundStep
<1>3. SoundInv => PoolSpendable
  <2> SUFFICES ASSUME SoundInv, Idle, NEW t \in mempool
               PROVE  HaveInputs(chain, mempool, t) /\ ConflictsOf(t, mempool) = {}
    BY DEF PoolSpendable
  <2>1. CoinsTip = chain /\ Unraised = {} /\ Running
    BY DEF CoinsTip, Unraised, Running, Idle
  <2>2. SoundPool(TxsOf(chain) \cup {}, TxsOf(chain), mempool)
    BY <2>1 DEF SoundInv, PoolSound
  <2>3. /\ Sourced(t, (TxsOf(chain) \cup {}) \cup mempool)
        /\ \A s \in TxsOf(chain) : s.vin \cap t.vin = {}
        /\ \A u \in mempool : u # t => u.vin \cap t.vin = {}
    BY <2>2 DEF SoundPool
  <2>4. ConflictsOf(t, mempool) = {}
    BY <2>3 DEF ConflictsOf
  <2>5. HaveInputs(chain, mempool, t)
    BY <2>3 DEF HaveInputs, Sourced
  <2> QED BY <2>4, <2>5
<1> QED BY <1>1, <1>2, <1>3, PTL DEF MempoolSpec
=============================================================================
