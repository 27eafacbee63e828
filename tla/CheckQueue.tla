------------------------------ MODULE CheckQueue ------------------------------
(***************************************************************************)
(* The queue of script checks (src/checkqueue.h) and the way ConnectBlock  *)
(* uses it: the master adds checks while it reads the block, then joins    *)
(* the workers until nothing is left; when ConnectBlock returns early, the *)
(* destructor of CCheckQueueControl waits instead.                         *)
(*                                                                         *)
(* A region under the mutex is one action.  A thread in a wait holds no    *)
(* lock; it goes on when it was notified, or spuriously.  The wait is an   *)
(* interruption point of Boost: the shutdown interrupts workers there, and *)
(* "setgenerate false" a miner that is the master; both leave nIdle and    *)
(* nTotal as they are.  fQuit is never set.                                *)
(***************************************************************************)
EXTENDS Integers, Sequences, FiniteSets

CONSTANTS
    Workers,        \* ThreadScriptCheck threads
    Master,         \* the thread in ConnectBlock; cs_main admits one at a time
    nBatchSize,     \* 128 in the code
    MaxChecks,      \* bound: the checks of one block
    MaxInterrupts   \* bound: how often a master is interrupted

Threads == Workers \cup {Master}
Checks == 1..MaxChecks

ASSUME QueueAssumption ==
    /\ Master \notin Workers /\ IsFiniteSet(Workers)
    /\ nBatchSize \in Nat \ {0} /\ MaxChecks \in Nat /\ MaxInterrupts \in Nat

VARIABLES
    queue, nIdle, nTotal, nTodo, fAllOk,    \* the members of CCheckQueue
    at,             \* per thread, where in Loop it is
    vChecks,        \* per thread, its batch; nNow is its length
    fOk,            \* per thread, the result of its batch
    block,          \* ConnectBlock: "none", "adding", "waiting" or "leaving"
    added, bad,     \* its checks 1..added, and which of all fail
    result,         \* what Wait returned for the last block
    interrupts

loopVars == <<at, vChecks, fOk>>
blockVars == <<block, added, bad, result>>
queueVars == <<queue, nIdle, nTotal, nTodo, fAllOk, loopVars, blockVars, interrupts>>

(* Where a thread is: "out" of Loop, at the "first" entry to the critical  *)
(* section, at a "next" one after a batch, in the "wait", "woken" from it, *)
(* at "work", or "dead".                                                   *)

QueueInit ==
    /\ queue = <<>> /\ nIdle = 0 /\ nTotal = 0 /\ nTodo = 0 /\ fAllOk = TRUE
    /\ at = [t \in Threads |-> IF t = Master THEN "out" ELSE "first"]
    /\ vChecks = [t \in Threads |-> <<>>]
    /\ fOk = [t \in Threads |-> TRUE]
    /\ block = "none" /\ added = 0 /\ bad = {} /\ result = "none"
    /\ interrupts = 0

IsIdle == nTotal = nIdle /\ nTodo = 0 /\ fAllOk

-----------------------------------------------------------------------------
(* Loop.                                                                   *)

Least(a, b) == IF a <= b THEN a ELSE b
Most(a, b) == IF a >= b THEN a ELSE b

\* nNow
BatchOf(size, total, idle) == Most(1, Least(nBatchSize, size \div (total + idle + 1)))

Waiting(S, where) == {t \in S : where[t] = "wait"}
Wake(S, where) == [t \in Threads |-> IF t \in S THEN "woken" ELSE where[t]]

\* The inner loop, with the mutex held: the thread takes a batch, waits, or, as
\* the master with nothing left to do, returns.  The arguments are the members
\* and places of threads as the lines above it leave them.
TakeWaitReturn(t, total, idle, todo, ok, where) ==
    IF queue # <<>>
    THEN LET nNow == BatchOf(Len(queue), total, idle) IN
         /\ queue' = SubSeq(queue, 1, Len(queue) - nNow)
         /\ vChecks' = [vChecks EXCEPT ![t] = SubSeq(queue, Len(queue) - nNow + 1, Len(queue))]
         /\ fOk' = [fOk EXCEPT ![t] = ok]
         /\ at' = [where EXCEPT ![t] = "work"]
         /\ nTotal' = total /\ nIdle' = idle /\ nTodo' = todo /\ fAllOk' = ok
         /\ UNCHANGED blockVars
    ELSE /\ UNCHANGED queue
         /\ vChecks' = [vChecks EXCEPT ![t] = <<>>]
         /\ fOk' = [fOk EXCEPT ![t] = TRUE]
         /\ IF t = Master /\ todo = 0
            THEN /\ nTotal' = total - 1 /\ nIdle' = idle /\ nTodo' = todo
                 /\ fAllOk' = TRUE
                 /\ at' = [where EXCEPT ![t] = "out"]
                 /\ result' = IF block = "waiting" THEN (IF ok THEN "valid" ELSE "invalid") ELSE "none"
                 /\ block' = "none"
                 /\ UNCHANGED <<added, bad>>
            ELSE /\ nTotal' = total /\ nIdle' = idle + 1 /\ nTodo' = todo /\ fAllOk' = ok
                 /\ at' = [where EXCEPT ![t] = "wait"]
                 /\ UNCHANGED blockVars

\* Loop begins: nTotal++.
Enter(t) ==
    /\ at[t] = "first"
    /\ TakeWaitReturn(t, nTotal + 1, nIdle, nTodo, fAllOk, at)
    /\ UNCHANGED interrupts

\* Mutant: the worker that finishes the last check does not notify the master.
CleanUp_NoNotify(t) ==
    /\ at[t] = "next"
    /\ LET todo == nTodo - Len(vChecks[t])
       IN  TakeWaitReturn(t, nTotal, nIdle, todo, fAllOk /\ fOk[t], at)
    /\ UNCHANGED interrupts

\* Mutant: the result of the batch replaces the result of the others.
CleanUp_LastOnly(t) ==
    /\ at[t] = "next"
    /\ LET todo == nTodo - Len(vChecks[t])
           told == IF todo = 0 /\ t # Master THEN Waiting({Master}, at) ELSE {}
       IN  TakeWaitReturn(t, nTotal, nIdle, todo, fOk[t], Wake(told, at))
    /\ UNCHANGED interrupts

\* The critical section after a batch.
CleanUp(t) ==
    /\ at[t] = "next"
    /\ LET todo == nTodo - Len(vChecks[t])
           told == IF todo = 0 /\ t # Master THEN Waiting({Master}, at) ELSE {}
       IN  TakeWaitReturn(t, nTotal, nIdle, todo, fAllOk /\ fOk[t], Wake(told, at))
    /\ UNCHANGED interrupts

\* Mutant: the thread stays counted as idle.
Resume_StillIdle(t) ==
    /\ at[t] = "woken"
    /\ TakeWaitReturn(t, nTotal, nIdle, nTodo, fAllOk, at)
    /\ UNCHANGED interrupts

\* The wait returns and the mutex is held again: nIdle--.
Resume(t) ==
    /\ at[t] = "woken"
    /\ TakeWaitReturn(t, nTotal, nIdle - 1, nTodo, fAllOk, at)
    /\ UNCHANGED interrupts

\* The checks of the batch, without the lock; after a failure they are skipped.
Execute(t) ==
    /\ at[t] = "work"
    /\ fOk' = [fOk EXCEPT ![t] = fOk[t] /\ \A k \in 1..Len(vChecks[t]) : vChecks[t][k] \notin bad]
    /\ at' = [at EXCEPT ![t] = "next"]
    /\ UNCHANGED <<queue, nIdle, nTotal, nTodo, fAllOk, vChecks, blockVars, interrupts>>

SpuriousWakeup(t) ==
    /\ at[t] = "wait"
    /\ at' = [at EXCEPT ![t] = "woken"]
    /\ UNCHANGED <<queue, nIdle, nTotal, nTodo, fAllOk, vChecks, fOk, blockVars, interrupts>>

-----------------------------------------------------------------------------
(* The master in ConnectBlock.                                             *)

\* CCheckQueueControl control(&scriptcheckqueue), which asserts IsIdle()
Begin ==
    /\ block = "none" /\ IsIdle
    /\ block' = "adding"
    /\ added' = 0 /\ result' = "none"
    /\ bad' \in SUBSET Checks
    /\ UNCHANGED <<queue, nIdle, nTotal, nTodo, fAllOk, loopVars, interrupts>>

\* Mutant: a batch of checks wakes one worker and is not counted.
Add_NotCounted(n) ==
    /\ block = "adding"
    /\ queue' = queue \o [k \in 1..n |-> added + k]
    /\ added' = added + n
    /\ UNCHANGED <<nIdle, nTotal, nTodo, fAllOk, loopVars, block, bad, result, interrupts>>

\* control.Add(vChecks) with the checks of a transaction
Add(n) ==
    /\ block = "adding"
    /\ queue' = queue \o [k \in 1..n |-> added + k]
    /\ nTodo' = nTodo + n
    /\ added' = added + n
    /\ LET idle == Waiting(Workers, at) IN
       \E told \in IF n = 0 \/ idle = {} THEN {{}}
                   ELSE IF n = 1 THEN {{w} : w \in idle} ELSE {idle} :
          at' = Wake(told, at)
    /\ UNCHANGED <<nIdle, nTotal, fAllOk, vChecks, fOk, block, bad, result, interrupts>>

\* control.Wait()
Wait ==
    /\ block = "adding"
    /\ block' = "waiting"
    /\ at' = [at EXCEPT ![Master] = "first"]
    /\ UNCHANGED <<queue, nIdle, nTotal, nTodo, fAllOk, vChecks, fOk, added, bad, result, interrupts>>

\* ConnectBlock returns before Wait: the destructor of control waits.
ReturnEarly ==
    /\ block = "adding"
    /\ block' = "leaving"
    /\ at' = [at EXCEPT ![Master] = "first"]
    /\ UNCHANGED <<queue, nIdle, nTotal, nTodo, fAllOk, vChecks, fOk, added, bad, result, interrupts>>

\* The master is interrupted in the wait; the destructor of control waits again.
InterruptMaster ==
    /\ at[Master] \in {"wait", "woken"}
    /\ block = "waiting"
    /\ interrupts < MaxInterrupts
    /\ interrupts' = interrupts + 1
    /\ block' = "leaving"
    /\ at' = [at EXCEPT ![Master] = "first"]
    /\ UNCHANGED <<queue, nIdle, nTotal, nTodo, fAllOk, vChecks, fOk, added, bad, result>>

\* A worker is interrupted, with the notification it may have had.
InterruptWorker(t) ==
    /\ at[t] \in {"wait", "woken"}
    /\ at' = [at EXCEPT ![t] = "dead"]
    /\ UNCHANGED <<queue, nIdle, nTotal, nTodo, fAllOk, vChecks, fOk, blockVars, interrupts>>

Step(t) == Enter(t) \/ CleanUp(t) \/ Resume(t) \/ Execute(t)

QueueNext ==
    \/ \E t \in Threads : Step(t) \/ SpuriousWakeup(t)
    \/ Begin \/ Wait \/ ReturnEarly \/ InterruptMaster
    \/ \E n \in 0..(MaxChecks - added) : Add(n)
    \/ \E t \in Workers : InterruptWorker(t)

QueueSpec == QueueInit /\ [][QueueNext]_queueVars

\* The scheduler runs every thread that can run.  A wait that nobody ends need
\* not end, and nobody has to interrupt.
FairQueueSpec == QueueSpec /\ \A t \in Threads : WF_queueVars(Step(t))

-----------------------------------------------------------------------------
(* Properties.                                                             *)

\* The places of the batches of the threads, and how many there are.
Slots(batches) == UNION {{t} \X (1..Len(batches[t])) : t \in Threads}
Held == Cardinality(Slots(vChecks))

\* nTodo counts the checks in the queue and in the batches of the threads: none
\* is lost or counted twice between Add, the batches and the clean-up.
TodoExact == nTodo = Len(queue) + Held

\* The assertion of the constructor of CCheckQueueControl: between two blocks the
\* queue is idle, however early the last one was left, whoever was interrupted
\* and whichever worker is just waking up.
IdleBetweenBlocks == block = "none" => IsIdle

\* Wait returns true exactly when every check of the block succeeds, those of
\* other threads and those skipped after a failure included.
ResultExact ==
    result # "none" => (result = "valid" <=> bad \cap (1..added) = {})

\* Every wait of the master ends, without help from spurious wakeups.
WaitReturns == (block \in {"waiting", "leaving"}) ~> (block = "none")
=============================================================================
