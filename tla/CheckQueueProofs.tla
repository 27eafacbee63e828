--------------------------- MODULE CheckQueueProofs ---------------------------
(* Theorems about the queue of script checks, for any number of workers,    *)
(* checks and interruptions and any batch size.                             *)
EXTENDS CheckQueue, FiniteSetTheorems, SequenceTheorems, TLAPS

(***************************************************************************)
(* The inductive invariant.                                                *)
(***************************************************************************)

Places == {"out", "first", "next", "wait", "woken", "work", "dead"}

QueueTypeOK ==
    /\ queue \in Seq(Nat)
    /\ nIdle \in Nat /\ nTotal \in Nat /\ nTodo \in Nat /\ fAllOk \in BOOLEAN
    /\ at \in [Threads -> Places]
    /\ vChecks \in [Threads -> Seq(Nat)]
    /\ fOk \in [Threads -> BOOLEAN]
    /\ block \in {"none", "adding", "waiting", "leaving"}
    /\ added \in Nat
    /\ result \in {"none", "valid", "invalid"}

\* The threads with a batch, and those in the wait, or about to leave it.
BusyIn(where) == {t \in Threads : where[t] \in {"work", "next"}}
AsleepIn(where) == {t \in Threads : where[t] \in {"wait", "woken"}}
Busy == BusyIn(at)
Asleep == AsleepIn(at)

\* A thread has a batch, and can have seen a failure, exactly while it is at work or
\* on its way to the clean-up.
BatchesHeld ==
    \A t \in Threads : /\ t \in Busy <=> vChecks[t] # <<>>
                       /\ t \notin Busy => fOk[t]

\* Interrupted threads stay counted in nTotal and in nIdle alike: the difference
\* is the number of busy threads.
Counted ==
    /\ nTotal = nIdle + Cardinality(Busy)
    /\ nIdle >= Cardinality(Asleep)
    /\ IsFiniteSet(Slots(vChecks))
    /\ TodoExact

\* The master is in Loop exactly while it waits for the end of a block.
MasterPlace ==
    /\ at[Master] # "dead"
    /\ block \in {"none", "adding"} <=> at[Master] = "out"
    /\ block # "none" => result = "none"
    /\ block = "none" => nTodo = 0 /\ fAllOk

Within(k, s) == \E i \in 1..Len(s) : s[i] = k

\* The checks of the block that fail.
Failing == {k \in bad : k \in 1..added}

\* Only checks of the block are in the queue and in the batches.
ChecksOfBlock ==
    /\ \A i \in 1..Len(queue) : queue[i] \in 1..added
    /\ \A t \in Threads : \A i \in 1..Len(vChecks[t]) : vChecks[t][i] \in 1..added

\* No failure is seen that is not there, and none that is there gets lost: it is
\* still in the queue or in a batch at work, or it is in the result of a batch that
\* has not been cleaned up, or in fAllOk.
FailuresTrue == ~fAllOk \/ (\E t \in Threads : ~fOk[t]) => Failing # {}
FailuresKept ==
    block # "none" =>
        \A k \in Failing :
            \/ ~fAllOk
            \/ Within(k, queue)
            \/ \E t \in Threads : at[t] = "work" /\ Within(k, vChecks[t])
            \/ \E t \in Threads : at[t] = "next" /\ ~fOk[t]

QueueInv ==
    /\ QueueTypeOK /\ BatchesHeld /\ Counted /\ MasterPlace
    /\ ChecksOfBlock /\ FailuresTrue /\ FailuresKept /\ ResultExact

(***************************************************************************)
(* Batches and counters.                                                   *)
(***************************************************************************)

LEMMA ThreadsFinite == IsFiniteSet(Threads) /\ Master \in Threads
BY QueueAssumption, FS_AddElement DEF Threads

\* nNow is a part of the queue.
LEMMA BatchFits ==
    ASSUME NEW size \in Nat \ {0}, NEW total \in Nat, NEW idle \in Nat
    PROVE  BatchOf(size, total, idle) \in 1..size
<1> DEFINE d == total + idle + 1
           q == size \div d
<1>1. d \in Nat /\ d > 0 /\ q \in Int /\ q * d <= size
  OBVIOUS
<1>2. q <= size
  <2>1. CASE q <= 0
    BY <1>1, <2>1
  <2>2. CASE q > 0
    <3> HIDE DEF q, d
    <3>1. q * d >= q
      BY <1>1, <2>2
    <3> QED BY <1>1, <3>1
  <2> QED BY <1>1, <2>1, <2>2
<1> HIDE DEF q, d
<1>3. nBatchSize \in Nat \ {0}
  BY QueueAssumption
<1> QED BY <1>1, <1>2, <1>3 DEF BatchOf, Most, Least, q, d

\* The queue and the batch taken from its end hold the same checks.
LEMMA TakenApart ==
    ASSUME NEW s \in Seq(Nat), NEW n \in 1..Len(s)
    PROVE  LET rest == SubSeq(s, 1, Len(s) - n)
               batch == SubSeq(s, Len(s) - n + 1, Len(s))
           IN  /\ rest \in Seq(Nat) /\ batch \in Seq(Nat)
               /\ Len(rest) = Len(s) - n /\ Len(batch) = n
               /\ \A k : Within(k, s) <=> Within(k, rest) \/ Within(k, batch)
<1> DEFINE rest == SubSeq(s, 1, Len(s) - n)
           batch == SubSeq(s, Len(s) - n + 1, Len(s))
<1>0. Len(s) \in Nat /\ \A i \in 1..Len(s) : s[i] \in Nat
  BY ElementOfSeq
<1>1. /\ rest \in Seq(Nat) /\ Len(rest) = Len(s) - n
      /\ \A i \in 1..(Len(s) - n) : rest[i] = s[i]
  <2>1. \A i \in 1..(Len(s) - n) : s[i] \in Nat
    BY <1>0
  <2>2. /\ rest \in Seq(Nat)
        /\ Len(rest) = IF 1 <= Len(s) - n THEN (Len(s) - n) - 1 + 1 ELSE 0
        /\ \A i \in 1..((Len(s) - n) - 1 + 1) : rest[i] = s[1 + i - 1]
    BY <1>0, <2>1, SubSeqProperties
  <2> HIDE DEF rest
  <2> QED BY <1>0, <2>2
<1>2. /\ batch \in Seq(Nat) /\ Len(batch) = n
      /\ \A i \in 1..n : batch[i] = s[Len(s) - n + i]
  <2>1. \A i \in (Len(s) - n + 1)..Len(s) : s[i] \in Nat
    BY <1>0
  <2>2. /\ batch \in Seq(Nat)
        /\ Len(batch) = IF Len(s) - n + 1 <= Len(s) THEN Len(s) - (Len(s) - n + 1) + 1 ELSE 0
        /\ \A i \in 1..(Len(s) - (Len(s) - n + 1) + 1) : batch[i] = s[(Len(s) - n + 1) + i - 1]
    BY <1>0, <2>1, SubSeqProperties
  <2> HIDE DEF batch
  <2> QED BY <1>0, <2>2
<1> HIDE DEF rest, batch
<1>3. ASSUME NEW k
      PROVE  Within(k, s) <=> Within(k, rest) \/ Within(k, batch)
  <2>1. ASSUME NEW i \in 1..Len(s), s[i] = k
        PROVE  Within(k, rest) \/ Within(k, batch)
    <3>1. CASE i <= Len(s) - n
      <4>1. i \in 1..Len(rest) /\ rest[i] = k
        BY <1>0, <1>1, <2>1, <3>1
      <4> QED BY <4>1 DEF Within
    <3>2. CASE i > Len(s) - n
      <4>1. i - (Len(s) - n) \in 1..n /\ Len(s) - n + (i - (Len(s) - n)) = i
        BY <1>0, <3>2
      <4>2. i - (Len(s) - n) \in 1..Len(batch) /\ batch[i - (Len(s) - n)] = k
        BY <1>2, <2>1, <4>1
      <4> QED BY <4>2 DEF Within
    <3> QED BY <1>0, <3>1, <3>2
  <2>2. ASSUME NEW i \in 1..Len(rest), rest[i] = k
        PROVE  Within(k, s)
    <3>1. i \in 1..Len(s) /\ s[i] = k
      BY <1>0, <1>1, <2>2
    <3> QED BY <3>1 DEF Within
  <2>3. ASSUME NEW i \in 1..Len(batch), batch[i] = k
        PROVE  Within(k, s)
    <3>1. Len(s) - n + i \in 1..Len(s) /\ s[Len(s) - n + i] = k
      BY <1>0, <1>2, <2>3
    <3> QED BY <3>1 DEF Within
  <2> QED BY <2>1, <2>2, <2>3 DEF Within
<1> QED BY <1>1, <1>2, <1>3 DEF rest, batch

\* The slots of one thread.
Own(t, n) == {t} \X (1..n)

LEMMA OwnCount ==
    ASSUME NEW t, NEW n \in Nat
    PROVE  IsFiniteSet(Own(t, n)) /\ Cardinality(Own(t, n)) = n
<1>1. IsFiniteSet(1..n) /\ Cardinality(1..n) = n
  <2>1. 1 \in Int /\ n \in Int
    OBVIOUS
  <2>2. IsFiniteSet(1..n) /\ Cardinality(1..n) = IF 1 > n THEN 0 ELSE n - 1 + 1
    BY <2>1, FS_Interval
  <2> QED BY <2>2
<1>2. ExistsBijection(1..n, Own(t, n))
  <2> DEFINE f == [i \in 1..n |-> <<t, i>>]
  <2>1. f \in [1..n -> Own(t, n)]
    BY DEF Own
  <2>2. \A i, j \in 1..n : f[i] = f[j] => i = j
    OBVIOUS
  <2>3. \A p \in Own(t, n) : \E i \in 1..n : f[i] = p
    BY DEF Own
  <2> HIDE DEF f
  <2>4. f \in Bijection(1..n, Own(t, n))
    BY <2>1, <2>2, <2>3 DEF Bijection, Injection, Surjection, IsInjective
  <2> QED BY <2>4 DEF ExistsBijection
<1> QED BY <1>1, <1>2, FS_Bijection

\* What a thread holds counts with its length.
LEMMA SlotsUpdate ==
    ASSUME NEW v \in [Threads -> Seq(Nat)], IsFiniteSet(Slots(v)),
           NEW t \in Threads, NEW q \in Seq(Nat)
    PROVE  /\ IsFiniteSet(Slots([v EXCEPT ![t] = q]))
           /\ Cardinality(Slots([v EXCEPT ![t] = q])) = Cardinality(Slots(v)) - Len(v[t]) + Len(q)
           /\ Cardinality(Slots(v)) \in Nat
<1> DEFINE Rest == {p \in Slots(v) : p[1] # t}
           w == [v EXCEPT ![t] = q]
<1>2. IsFiniteSet(Rest)
  <2>1. Rest \in SUBSET Slots(v)
    OBVIOUS
  <2> HIDE DEF Rest
  <2> QED BY <2>1, FS_Subset
<1>3. ASSUME NEW n \in Nat
      PROVE  /\ IsFiniteSet(Rest \cup Own(t, n))
             /\ Cardinality(Rest \cup Own(t, n)) = Cardinality(Rest) + n
  <2>1. Rest \cap Own(t, n) = {}
    BY DEF Own
  <2>2. IsFiniteSet(Own(t, n)) /\ Cardinality(Own(t, n)) = n
    BY OwnCount
  <2> HIDE DEF Rest
  <2>3. /\ IsFiniteSet(Rest \cup Own(t, n))
        /\ Cardinality(Rest \cup Own(t, n)) =
                Cardinality(Rest) + Cardinality(Own(t, n)) - Cardinality(Rest \cap Own(t, n))
    BY <1>2, <2>2, FS_Union
  <2>4. Cardinality(Rest) \in Nat /\ Cardinality(Rest \cap Own(t, n)) = 0
    BY <1>2, <2>1, FS_EmptySet, FS_CardinalityType
  <2> QED BY <2>2, <2>3, <2>4
<1>4. Slots(v) = Rest \cup Own(t, Len(v[t]))
  BY DEF Slots, Own
<1>5. Slots(w) = Rest \cup Own(t, Len(q))
  <2>1. w[t] = q /\ \A s \in Threads \ {t} : w[s] = v[s]
    OBVIOUS
  <2> HIDE DEF w
  <2> QED BY <2>1 DEF Slots, Own
<1>6. v[t] \in Seq(Nat) /\ Cardinality(Rest) \in Nat /\ Len(q) \in Nat /\ Len(v[t]) \in Nat
  <2> HIDE DEF Rest
  <2> QED BY <1>2, FS_CardinalityType
<1> HIDE DEF Rest, w
<1>7. /\ IsFiniteSet(Slots(w)) /\ Cardinality(Slots(w)) = Cardinality(Rest) + Len(q)
      /\ Cardinality(Slots(v)) = Cardinality(Rest) + Len(v[t])
  BY <1>3, <1>4, <1>5, <1>6
<1>8. Cardinality(Slots(w)) = Cardinality(Slots(v)) - Len(v[t]) + Len(q) /\ Cardinality(Slots(v)) \in Nat
  BY <1>6, <1>7
<1> QED BY <1>7, <1>8 DEF w

\* The same, relative to the state in which the thread has nothing.
LEMMA SlotsWithout ==
    ASSUME NEW v \in [Threads -> Seq(Nat)], IsFiniteSet(Slots(v)), NEW t \in Threads
    PROVE  /\ IsFiniteSet(Slots([v EXCEPT ![t] = <<>>]))
           /\ Cardinality(Slots([v EXCEPT ![t] = <<>>])) \in Nat
           /\ Cardinality(Slots([v EXCEPT ![t] = <<>>])) = Cardinality(Slots(v)) - Len(v[t])
           /\ \A q \in Seq(Nat) :
                /\ IsFiniteSet(Slots([v EXCEPT ![t] = q]))
                /\ Cardinality(Slots([v EXCEPT ![t] = q])) =
                        Cardinality(Slots([v EXCEPT ![t] = <<>>])) + Len(q)
<1> DEFINE none == <<>>
<1>1. none \in Seq(Nat) /\ Len(none) = 0 /\ v[t] \in Seq(Nat)
  BY EmptySeq
<1> HIDE DEF none
<1>2. \A q \in Seq(Nat) :
        /\ IsFiniteSet(Slots([v EXCEPT ![t] = q]))
        /\ Cardinality(Slots([v EXCEPT ![t] = q])) = Cardinality(Slots(v)) - Len(v[t]) + Len(q)
        /\ Cardinality(Slots(v)) \in Nat
  BY SlotsUpdate
<1>3. /\ IsFiniteSet(Slots([v EXCEPT ![t] = none]))
      /\ Cardinality(Slots([v EXCEPT ![t] = none])) = Cardinality(Slots(v)) - Len(v[t]) + 0
      /\ Cardinality(Slots(v)) \in Nat
  BY <1>1, <1>2
<1>4. Cardinality(Slots([v EXCEPT ![t] = none])) \in Nat
  BY <1>3, FS_CardinalityType
<1>5. Len(v[t]) \in Nat
  BY <1>1
<1>6. Cardinality(Slots([v EXCEPT ![t] = none])) = Cardinality(Slots(v)) - Len(v[t])
  BY <1>3, <1>5
<1>7. ASSUME NEW q \in Seq(Nat)
      PROVE  Cardinality(Slots([v EXCEPT ![t] = q])) = Cardinality(Slots([v EXCEPT ![t] = none])) + Len(q)
  <2>1. Len(q) \in Nat
    OBVIOUS
  <2>2. Cardinality(Slots([v EXCEPT ![t] = q])) = Cardinality(Slots(v)) - Len(v[t]) + Len(q)
    BY <1>2
  <2> QED BY <1>6, <2>2
<1> QED BY <1>2, <1>3, <1>4, <1>6, <1>7 DEF none

\* Nothing is held when the count says so.
LEMMA SlotsEmpty ==
    ASSUME NEW v \in [Threads -> Seq(Nat)], IsFiniteSet(Slots(v)), Cardinality(Slots(v)) = 0
    PROVE  \A t \in Threads : v[t] = <<>>
<1>1. Slots(v) = {}
  BY FS_EmptySet
<1>2. ASSUME NEW t \in Threads, v[t] # <<>> PROVE FALSE
  <2>1. Len(v[t]) \in Nat \ {0}
    BY <1>2, EmptySeq
  <2>2. <<t, 1>> \in {t} \X (1..Len(v[t]))
    BY <2>1
  <2> QED BY <1>1, <2>2 DEF Slots
<1> QED BY <1>2

(***************************************************************************)
(* The inner loop.                                                         *)
(***************************************************************************)

\* Threads move between two places with nobody else affected, but for waiting
\* threads that are woken.
Moved(t, where) ==
    /\ where \in [Threads -> Places]
    /\ \A s \in Threads \ {t} : where[s] = at[s] \/ (at[s] = "wait" /\ where[s] = "woken")

\* What the lines above the inner loop have established when t gets there: the
\* counters without t, and the failures without those of t.
LoopReady(t, total, idle, todo, ok, where) ==
    /\ total \in Nat /\ idle \in Nat /\ todo \in Nat /\ ok \in BOOLEAN
    /\ Moved(t, where)
    /\ t = Master => block \in {"waiting", "leaving"}
    /\ total = idle + 1 + Cardinality(Busy \ {t})
    /\ idle >= Cardinality(Asleep \ {t})
    /\ todo = Len(queue) + Cardinality(Slots([vChecks EXCEPT ![t] = <<>>]))
    /\ block = "none" => todo = 0 /\ ok
    /\ ~ok => Failing # {}
    /\ block # "none" =>
        \A k \in Failing :
            \/ ~ok
            \/ Within(k, queue)
            \/ \E s \in Threads \ {t} : at[s] = "work" /\ Within(k, vChecks[s])
            \/ \E s \in Threads \ {t} : at[s] = "next" /\ ~fOk[s]

\* Who is busy and who is asleep after t has gone to p.
LEMMA MoveCount ==
    ASSUME QueueTypeOK, NEW t \in Threads, NEW where, Moved(t, where), NEW p \in Places,
           at' = [where EXCEPT ![t] = p]
    PROVE  /\ at' \in [Threads -> Places] /\ at'[t] = p
           /\ \A s \in Threads \ {t} :
                /\ at[s] \notin {"wait", "woken"} => at'[s] = at[s]
                /\ at[s] \in {"wait", "woken"} => at'[s] \in {"wait", "woken"}
           /\ Busy' = IF p \in {"work", "next"} THEN (Busy \ {t}) \cup {t} ELSE Busy \ {t}
           /\ IsFiniteSet(Busy) /\ IsFiniteSet(Asleep)
           /\ Cardinality(Busy \ {t}) \in Nat /\ Cardinality(Asleep \ {t}) \in Nat
           /\ Cardinality(Busy') =
                IF p \in {"work", "next"} THEN Cardinality(Busy \ {t}) + 1 ELSE Cardinality(Busy \ {t})
           /\ Cardinality(Asleep') =
                IF p \in {"wait", "woken"} THEN Cardinality(Asleep \ {t}) + 1 ELSE Cardinality(Asleep \ {t})
<1>1. at' \in [Threads -> Places] /\ at'[t] = p /\ \A s \in Threads \ {t} : at'[s] = where[s]
  BY DEF Moved
<1>2. \A s \in Threads \ {t} :
        /\ at[s] \notin {"wait", "woken"} => at'[s] = at[s]
        /\ at[s] \in {"wait", "woken"} => at'[s] \in {"wait", "woken"}
  BY <1>1 DEF Moved
<1>3. /\ Busy' = IF p \in {"work", "next"} THEN (Busy \ {t}) \cup {t} ELSE Busy \ {t}
      /\ Asleep' = IF p \in {"wait", "woken"} THEN (Asleep \ {t}) \cup {t} ELSE Asleep \ {t}
  BY <1>1, <1>2 DEF Busy, Asleep, BusyIn, AsleepIn
<1>4. IsFiniteSet(Busy) /\ IsFiniteSet(Asleep)
  <2>1. Busy \in SUBSET Threads /\ Asleep \in SUBSET Threads
    BY DEF Busy, Asleep, BusyIn, AsleepIn
  <2> QED BY <2>1, ThreadsFinite, FS_Subset
<1>5. IsFiniteSet(Busy \ {t}) /\ IsFiniteSet(Asleep \ {t})
  BY <1>4, FS_RemoveElement
<1>6. Cardinality(Busy \ {t}) \in Nat /\ Cardinality(Asleep \ {t}) \in Nat
  BY <1>5, FS_CardinalityType
<1>7. /\ Cardinality((Busy \ {t}) \cup {t}) = Cardinality(Busy \ {t}) + 1
      /\ Cardinality((Asleep \ {t}) \cup {t}) = Cardinality(Asleep \ {t}) + 1
  <2>1. t \notin Busy \ {t} /\ t \notin Asleep \ {t}
    OBVIOUS
  <2> QED BY <1>5, <2>1, FS_AddElement
<1> QED BY <1>1, <1>2, <1>3, <1>4, <1>6, <1>7

\* t takes a batch.
LEMMA TakeBatch ==
    ASSUME QueueInv, NEW t \in Threads, NEW total, NEW idle, NEW todo, NEW ok, NEW where,
           LoopReady(t, total, idle, todo, ok, where), queue # <<>>,
           TakeWaitReturn(t, total, idle, todo, ok, where)
    PROVE  QueueInv'
<1> DEFINE nNow == BatchOf(Len(queue), total, idle)
           batch == SubSeq(queue, Len(queue) - nNow + 1, Len(queue))
<1> USE DEF QueueInv
<1>1. /\ queue' = SubSeq(queue, 1, Len(queue) - nNow)
      /\ vChecks' = [vChecks EXCEPT ![t] = batch]
      /\ fOk' = [fOk EXCEPT ![t] = ok]
      /\ at' = [where EXCEPT ![t] = "work"]
      /\ nTotal' = total /\ nIdle' = idle /\ nTodo' = todo /\ fAllOk' = ok
      /\ UNCHANGED <<block, added, bad, result>>
  BY DEF TakeWaitReturn, blockVars
<1>2. /\ total \in Nat /\ idle \in Nat /\ todo \in Nat /\ ok \in BOOLEAN
      /\ Moved(t, where)
      /\ t = Master => block \in {"waiting", "leaving"}
      /\ total = idle + 1 + Cardinality(Busy \ {t})
      /\ idle >= Cardinality(Asleep \ {t})
      /\ todo = Len(queue) + Cardinality(Slots([vChecks EXCEPT ![t] = <<>>]))
      /\ block = "none" => todo = 0 /\ ok
      /\ ~ok => Failing # {}
  BY DEF LoopReady
<1>3. Len(queue) \in Nat \ {0} /\ nNow \in 1..Len(queue)
  BY <1>2, BatchFits, EmptySeq DEF QueueTypeOK
<1> HIDE DEF nNow
<1>4. /\ queue' \in Seq(Nat) /\ batch \in Seq(Nat)
      /\ Len(queue') = Len(queue) - nNow /\ Len(batch) = nNow
      /\ \A k : Within(k, queue) <=> Within(k, queue') \/ Within(k, batch)
  BY <1>1, <1>3, TakenApart DEF QueueTypeOK
<1> HIDE DEF batch
<1>5. /\ at' \in [Threads -> Places] /\ at'[t] = "work"
      /\ \A s \in Threads \ {t} :
            /\ at[s] \notin {"wait", "woken"} => at'[s] = at[s]
            /\ at[s] \in {"wait", "woken"} => at'[s] \in {"wait", "woken"}
      /\ Busy' = (Busy \ {t}) \cup {t}
      /\ Cardinality(Busy') = Cardinality(Busy \ {t}) + 1
      /\ Cardinality(Asleep') = Cardinality(Asleep \ {t})
      /\ Cardinality(Busy \ {t}) \in Nat /\ Cardinality(Asleep \ {t}) \in Nat
  BY <1>1, <1>2, MoveCount DEF Places
<1>6. QueueTypeOK'
  BY <1>1, <1>2, <1>4, <1>5 DEF QueueTypeOK
<1>7. /\ vChecks'[t] = batch /\ \A s \in Threads \ {t} : vChecks'[s] = vChecks[s]
      /\ fOk'[t] = ok /\ \A s \in Threads \ {t} : fOk'[s] = fOk[s]
  BY <1>1 DEF QueueTypeOK
<1>8. batch # <<>>
  BY <1>3, <1>4
<1>9. BatchesHeld'
  BY <1>5, <1>7, <1>8 DEF BatchesHeld
<1>10. Counted'
  <2>3. /\ IsFiniteSet(Slots(vChecks'))
        /\ Cardinality(Slots(vChecks')) = Cardinality(Slots([vChecks EXCEPT ![t] = <<>>])) + Len(batch)
        /\ Cardinality(Slots([vChecks EXCEPT ![t] = <<>>])) \in Nat
    BY <1>1, <1>4, SlotsWithout DEF QueueTypeOK, Counted
  <2>5. nTodo' = Len(queue') + Cardinality(Slots(vChecks'))
    BY <1>1, <1>2, <1>3, <1>4, <2>3
  <2>6. nTotal' = nIdle' + Cardinality(Busy') /\ nIdle' >= Cardinality(Asleep')
    BY <1>1, <1>2, <1>5
  <2> QED BY <2>3, <2>5, <2>6 DEF Counted, TodoExact, Held
<1>11. block # "none"
  <2>1. Cardinality(Slots([vChecks EXCEPT ![t] = <<>>])) \in Nat
    BY SlotsWithout DEF QueueTypeOK, Counted
  <2> QED BY <1>2, <1>3, <2>1
<1>12. MasterPlace'
  <2>1. CASE t = Master
    BY <1>1, <1>2, <1>5, <1>11, <2>1 DEF MasterPlace
  <2>2. CASE t # Master
    BY <1>1, <1>5, <1>11, <2>2, ThreadsFinite DEF MasterPlace
  <2> QED BY <2>1, <2>2
<1>13. ChecksOfBlock'
  <2>1. \A k : Within(k, queue) => k \in 1..added
    BY DEF ChecksOfBlock, Within
  <2>2. \A k : Within(k, queue') \/ Within(k, batch) => k \in 1..added
    BY <1>4, <2>1
  <2>3. \A i \in 1..Len(queue') : queue'[i] \in 1..added
    BY <2>2 DEF Within
  <2>4. \A i \in 1..Len(batch) : batch[i] \in 1..added
    BY <2>2 DEF Within
  <2> QED BY <1>1, <1>7, <2>3, <2>4 DEF ChecksOfBlock
<1>14. Failing' = Failing
  BY <1>1 DEF Failing
<1>15. FailuresTrue'
  BY <1>1, <1>2, <1>7, <1>14 DEF FailuresTrue
<1>16. FailuresKept'
  <2> SUFFICES ASSUME NEW k \in Failing
               PROVE  \/ ~ok
                      \/ Within(k, queue')
                      \/ \E s \in Threads : at'[s] = "work" /\ Within(k, vChecks'[s])
                      \/ \E s \in Threads : at'[s] = "next" /\ ~fOk'[s]
    BY <1>1, <1>14 DEF FailuresKept
  <2>1. \/ ~ok
        \/ Within(k, queue)
        \/ \E s \in Threads \ {t} : at[s] = "work" /\ Within(k, vChecks[s])
        \/ \E s \in Threads \ {t} : at[s] = "next" /\ ~fOk[s]
    BY <1>11 DEF LoopReady
  <2>2. CASE Within(k, queue)
    BY <1>4, <1>5, <1>7, <2>2
  <2> QED BY <1>5, <1>7, <2>1, <2>2
<1>17. ResultExact'
  BY <1>1, <1>11 DEF ResultExact, MasterPlace
<1> QED BY <1>6, <1>9, <1>10, <1>12, <1>13, <1>15, <1>16, <1>17

\* t has found the queue empty and gone to p.
LeftEmpty(t, p, total, idle, todo) ==
    /\ vChecks' \in [Threads -> Seq(Nat)] /\ fOk' \in [Threads -> BOOLEAN]
    /\ at' \in [Threads -> Places] /\ at'[t] = p
    /\ \A s \in Threads \ {t} :
        /\ at[s] \notin {"wait", "woken"} => at'[s] = at[s]
        /\ at[s] \in {"wait", "woken"} => at'[s] \in {"wait", "woken"}
        /\ vChecks'[s] = vChecks[s] /\ fOk'[s] = fOk[s]
    /\ vChecks'[t] = <<>> /\ fOk'[t] = TRUE
    /\ BatchesHeld' /\ ChecksOfBlock' /\ Failing' = Failing
    /\ IsFiniteSet(Slots(vChecks')) /\ todo = Cardinality(Slots(vChecks'))
    /\ Cardinality(Busy') \in Nat
    /\ total = idle + 1 + Cardinality(Busy')
    /\ idle >= Cardinality(Asleep \ {t}) /\ Cardinality(Asleep \ {t}) \in Nat
    /\ Cardinality(Asleep') =
        IF p \in {"wait", "woken"} THEN Cardinality(Asleep \ {t}) + 1 ELSE Cardinality(Asleep \ {t})

\* t finds the queue empty: what both ways out of it have in common.
LEMMA EmptyHanded ==
    ASSUME QueueInv, NEW t \in Threads, NEW total, NEW idle, NEW todo, NEW ok, NEW where,
           LoopReady(t, total, idle, todo, ok, where), queue = <<>>, queue' = queue,
           vChecks' = [vChecks EXCEPT ![t] = <<>>],
           fOk' = [fOk EXCEPT ![t] = TRUE],
           NEW p \in Places \ {"work", "next"}, at' = [where EXCEPT ![t] = p],
           added' = added, bad' = bad
    PROVE  LeftEmpty(t, p, total, idle, todo)
<1> USE DEF QueueInv
<1>1. /\ total \in Nat /\ idle \in Nat /\ todo \in Nat /\ ok \in BOOLEAN
      /\ Moved(t, where)
      /\ total = idle + 1 + Cardinality(Busy \ {t})
      /\ idle >= Cardinality(Asleep \ {t})
      /\ todo = Len(queue) + Cardinality(Slots([vChecks EXCEPT ![t] = <<>>]))
  BY DEF LoopReady
<1>2. /\ at' \in [Threads -> Places] /\ at'[t] = p
      /\ \A s \in Threads \ {t} :
            /\ at[s] \notin {"wait", "woken"} => at'[s] = at[s]
            /\ at[s] \in {"wait", "woken"} => at'[s] \in {"wait", "woken"}
      /\ Busy' = Busy \ {t}
      /\ Cardinality(Busy \ {t}) \in Nat /\ Cardinality(Asleep \ {t}) \in Nat
      /\ Cardinality(Asleep') =
            IF p \in {"wait", "woken"} THEN Cardinality(Asleep \ {t}) + 1 ELSE Cardinality(Asleep \ {t})
  BY <1>1, MoveCount
<1>3. vChecks' \in [Threads -> Seq(Nat)] /\ fOk' \in [Threads -> BOOLEAN]
  BY EmptySeq DEF QueueTypeOK
<1>4. /\ vChecks'[t] = <<>> /\ fOk'[t] = TRUE
      /\ \A s \in Threads \ {t} : vChecks'[s] = vChecks[s] /\ fOk'[s] = fOk[s]
  BY DEF QueueTypeOK
<1>5. BatchesHeld'
  BY <1>2, <1>4 DEF BatchesHeld
<1>6. ChecksOfBlock'
  <2>1. Len(vChecks'[t]) = 0
    BY <1>4
  <2> QED BY <1>4, <2>1 DEF ChecksOfBlock
<1>7. Failing' = Failing
  BY DEF Failing
<1>8. IsFiniteSet(Slots(vChecks')) /\ Cardinality(Slots(vChecks')) \in Nat
  BY SlotsWithout DEF QueueTypeOK, Counted
<1>9. todo = Cardinality(Slots(vChecks'))
  <2>1. Len(queue) = 0
    OBVIOUS
  <2> QED BY <1>1, <1>8, <2>1
<1> QED BY <1>1, <1>2, <1>3, <1>4, <1>5, <1>6, <1>7, <1>8, <1>9 DEF LeftEmpty

\* t waits.
LEMMA GoToWait ==
    ASSUME QueueInv, NEW t \in Threads, NEW total, NEW idle, NEW todo, NEW ok, NEW where,
           LoopReady(t, total, idle, todo, ok, where), queue = <<>>, ~(t = Master /\ todo = 0),
           TakeWaitReturn(t, total, idle, todo, ok, where)
    PROVE  QueueInv'
<1> USE DEF QueueInv
<1>1. /\ queue' = queue
      /\ vChecks' = [vChecks EXCEPT ![t] = <<>>]
      /\ fOk' = [fOk EXCEPT ![t] = TRUE]
      /\ at' = [where EXCEPT ![t] = "wait"]
      /\ nTotal' = total /\ nIdle' = idle + 1 /\ nTodo' = todo /\ fAllOk' = ok
      /\ UNCHANGED <<block, added, bad, result>>
  BY DEF TakeWaitReturn, blockVars
<1>2. /\ total \in Nat /\ idle \in Nat /\ todo \in Nat /\ ok \in BOOLEAN
      /\ t = Master => block \in {"waiting", "leaving"}
      /\ block = "none" => todo = 0 /\ ok
      /\ ~ok => Failing # {}
  BY DEF LoopReady
<1>3. "wait" \in Places \ {"work", "next"}
  BY DEF Places
<1>4. /\ vChecks' \in [Threads -> Seq(Nat)] /\ fOk' \in [Threads -> BOOLEAN]
      /\ at' \in [Threads -> Places] /\ at'[t] = "wait"
      /\ \A s \in Threads \ {t} :
            /\ at[s] \notin {"wait", "woken"} => at'[s] = at[s]
            /\ at[s] \in {"wait", "woken"} => at'[s] \in {"wait", "woken"}
            /\ vChecks'[s] = vChecks[s] /\ fOk'[s] = fOk[s]
      /\ vChecks'[t] = <<>> /\ fOk'[t] = TRUE
      /\ BatchesHeld' /\ ChecksOfBlock' /\ Failing' = Failing
      /\ IsFiniteSet(Slots(vChecks')) /\ todo = Cardinality(Slots(vChecks'))
      /\ Cardinality(Busy') \in Nat
      /\ total = idle + 1 + Cardinality(Busy')
      /\ idle >= Cardinality(Asleep \ {t}) /\ Cardinality(Asleep \ {t}) \in Nat
      /\ Cardinality(Asleep') = Cardinality(Asleep \ {t}) + 1
  <2>1. LeftEmpty(t, "wait", total, idle, todo)
    <3> HIDE DEF QueueInv
    <3> QED BY <1>1, <1>3, EmptyHanded
  <2> QED BY <2>1 DEF LeftEmpty
<1>5. QueueTypeOK'
  BY <1>1, <1>2, <1>4 DEF QueueTypeOK
<1>6. Counted'
  <2>1. nTodo' = Len(queue') + Cardinality(Slots(vChecks'))
    <3>1. Len(queue') = 0
      BY <1>1
    <3> QED BY <1>1, <1>2, <1>4, <3>1
  <2>2. nTotal' = nIdle' + Cardinality(Busy') /\ nIdle' >= Cardinality(Asleep')
    BY <1>1, <1>2, <1>4
  <2> QED BY <1>4, <2>1, <2>2 DEF Counted, TodoExact, Held
<1>7. MasterPlace'
  <2>1. CASE t = Master
    BY <1>1, <1>2, <1>4, <2>1 DEF MasterPlace
  <2>2. CASE t # Master
    <3>1. at'[Master] = "out" <=> at[Master] = "out"
      BY <1>4, <2>2, ThreadsFinite
    <3>2. at'[Master] # "dead"
      BY <1>4, <2>2, ThreadsFinite DEF MasterPlace
    <3> QED BY <1>1, <1>2, <3>1, <3>2 DEF MasterPlace
  <2> QED BY <2>1, <2>2
<1>8. FailuresTrue'
  BY <1>1, <1>2, <1>4 DEF FailuresTrue
<1>9. FailuresKept'
  <2> SUFFICES ASSUME block # "none", NEW k \in Failing
               PROVE  \/ ~ok
                      \/ \E s \in Threads : at'[s] = "work" /\ Within(k, vChecks'[s])
                      \/ \E s \in Threads : at'[s] = "next" /\ ~fOk'[s]
    BY <1>1, <1>4 DEF FailuresKept
  <2>1. \/ ~ok
        \/ Within(k, queue)
        \/ \E s \in Threads \ {t} : at[s] = "work" /\ Within(k, vChecks[s])
        \/ \E s \in Threads \ {t} : at[s] = "next" /\ ~fOk[s]
    BY DEF LoopReady
  <2>2. ~Within(k, queue)
    <3>1. Len(queue) = 0
      OBVIOUS
    <3> QED BY <3>1 DEF Within
  <2> QED BY <1>4, <2>1, <2>2
<1>10. ResultExact'
  BY <1>1 DEF ResultExact
<1> QED BY <1>4, <1>5, <1>6, <1>7, <1>8, <1>9, <1>10

\* The master returns: nothing is left in the queue or in a batch, so fAllOk is
\* the conjunction of the results of all checks.
LEMMA MasterReturns ==
    ASSUME QueueInv, NEW t \in Threads, NEW total, NEW idle, NEW todo, NEW ok, NEW where,
           LoopReady(t, total, idle, todo, ok, where), queue = <<>>, t = Master, todo = 0,
           TakeWaitReturn(t, total, idle, todo, ok, where)
    PROVE  QueueInv'
<1> USE DEF QueueInv
<1>1. /\ queue' = queue
      /\ vChecks' = [vChecks EXCEPT ![t] = <<>>]
      /\ fOk' = [fOk EXCEPT ![t] = TRUE]
      /\ at' = [where EXCEPT ![t] = "out"]
      /\ nTotal' = total - 1 /\ nIdle' = idle /\ nTodo' = 0 /\ fAllOk' = TRUE
      /\ result' = IF block = "waiting" THEN (IF ok THEN "valid" ELSE "invalid") ELSE "none"
      /\ block' = "none"
      /\ UNCHANGED <<added, bad>>
  BY DEF TakeWaitReturn, blockVars
<1>2. /\ total \in Nat /\ idle \in Nat /\ todo \in Nat /\ ok \in BOOLEAN
      /\ block \in {"waiting", "leaving"}
      /\ ~ok => Failing # {}
  BY DEF LoopReady
<1>3. "out" \in Places \ {"work", "next"}
  BY DEF Places
<1>4. /\ vChecks' \in [Threads -> Seq(Nat)] /\ fOk' \in [Threads -> BOOLEAN]
      /\ at' \in [Threads -> Places] /\ at'[t] = "out"
      /\ \A s \in Threads \ {t} :
            /\ at[s] \notin {"wait", "woken"} => at'[s] = at[s]
            /\ at[s] \in {"wait", "woken"} => at'[s] \in {"wait", "woken"}
            /\ vChecks'[s] = vChecks[s] /\ fOk'[s] = fOk[s]
      /\ vChecks'[t] = <<>> /\ fOk'[t] = TRUE
      /\ BatchesHeld' /\ ChecksOfBlock' /\ Failing' = Failing
      /\ IsFiniteSet(Slots(vChecks')) /\ todo = Cardinality(Slots(vChecks'))
      /\ Cardinality(Busy') \in Nat
      /\ total = idle + 1 + Cardinality(Busy')
      /\ idle >= Cardinality(Asleep \ {t}) /\ Cardinality(Asleep \ {t}) \in Nat
      /\ Cardinality(Asleep') = Cardinality(Asleep \ {t})
  <2>1. LeftEmpty(t, "out", total, idle, todo)
    <3> HIDE DEF QueueInv
    <3> QED BY <1>1, <1>3, EmptyHanded
  <2> QED BY <2>1 DEF LeftEmpty
<1>5. QueueTypeOK'
  BY <1>1, <1>2, <1>4 DEF QueueTypeOK
<1>6. Counted'
  <2>1. nTodo' = Len(queue') + Cardinality(Slots(vChecks'))
    <3>1. Len(queue') = 0
      BY <1>1
    <3> QED BY <1>1, <1>2, <1>4, <3>1
  <2>2. nTotal' = nIdle' + Cardinality(Busy') /\ nIdle' >= Cardinality(Asleep')
    BY <1>1, <1>2, <1>4
  <2> QED BY <1>4, <2>1, <2>2 DEF Counted, TodoExact, Held
<1>7. MasterPlace'
  BY <1>1, <1>4 DEF MasterPlace
<1>8. \A s \in Threads : vChecks'[s] = <<>>
  BY <1>4, SlotsEmpty
<1>9. \A s \in Threads : s \notin Busy' /\ fOk'[s]
  BY <1>4, <1>8 DEF BatchesHeld
<1>10. FailuresTrue'
  BY <1>1, <1>9 DEF FailuresTrue
<1>11. FailuresKept'
  BY <1>1 DEF FailuresKept
<1>12. ASSUME NEW k \in Failing PROVE ~ok
  <2>1. \/ ~ok
        \/ Within(k, queue)
        \/ \E s \in Threads \ {t} : at[s] = "work" /\ Within(k, vChecks[s])
        \/ \E s \in Threads \ {t} : at[s] = "next" /\ ~fOk[s]
    BY <1>2 DEF LoopReady
  <2>2. ~Within(k, queue)
    <3>1. Len(queue) = 0
      OBVIOUS
    <3> QED BY <3>1 DEF Within
  <2>3. \A s \in Threads \ {t} : at[s] \notin {"work", "next"}
    BY <1>4, <1>9 DEF Busy, BusyIn
  <2> QED BY <2>1, <2>2, <2>3
<1>13. ResultExact'
  <2>1. Failing = bad \cap (1..added)
    BY DEF Failing
  <2>2. ok <=> bad \cap (1..added) = {}
    BY <1>2, <1>12, <2>1
  <2>3. bad' = bad /\ added' = added
    BY <1>1
  <2> QED BY <1>1, <2>2, <2>3 DEF ResultExact
<1> QED BY <1>4, <1>5, <1>6, <1>7, <1>10, <1>11, <1>13

\* The inner loop keeps the invariant.
LEMMA InnerLoop ==
    ASSUME QueueInv, NEW t \in Threads, NEW total, NEW idle, NEW todo, NEW ok, NEW where,
           LoopReady(t, total, idle, todo, ok, where),
           TakeWaitReturn(t, total, idle, todo, ok, where)
    PROVE  QueueInv'
BY TakeBatch, GoToWait, MasterReturns

(***************************************************************************)
(* The steps of a thread.                                                  *)
(***************************************************************************)

\* The sets of busy and of sleeping threads are finite.
LEMMA CountsAreNumbers ==
    /\ IsFiniteSet(Busy) /\ Cardinality(Busy) \in Nat
    /\ IsFiniteSet(Asleep) /\ Cardinality(Asleep) \in Nat
<1>1. Busy \in SUBSET Threads /\ Asleep \in SUBSET Threads
  BY DEF Busy, Asleep, BusyIn, AsleepIn
<1>2. IsFiniteSet(Busy) /\ IsFiniteSet(Asleep)
  BY <1>1, ThreadsFinite, FS_Subset
<1> QED BY <1>2, FS_CardinalityType

\* Waking threads that wait.
LEMMA WakeMoves ==
    ASSUME QueueTypeOK, NEW S, NEW T \in SUBSET Waiting(S, at), NEW t
    PROVE  Moved(t, Wake(T, at))
BY DEF QueueTypeOK, Waiting, Wake, Moved, Places

\* A thread begins.
LEMMA EnterStep ==
    ASSUME QueueInv, NEW t \in Threads, Enter(t)
    PROVE  QueueInv'
<1>1. at[t] = "first" /\ TakeWaitReturn(t, nTotal + 1, nIdle, nTodo, fAllOk, at)
  BY DEF Enter
<1>2. LoopReady(t, nTotal + 1, nIdle, nTodo, fAllOk, at)
  <2> USE DEF QueueInv
  <2>1. Moved(t, at)
    BY DEF Moved, QueueTypeOK
  <2>2. Busy \ {t} = Busy /\ Asleep \ {t} = Asleep
    BY <1>1 DEF Busy, Asleep, BusyIn, AsleepIn
  <2>3. t = Master => block \in {"waiting", "leaving"}
    BY <1>1 DEF MasterPlace, QueueTypeOK
  <2>4. [vChecks EXCEPT ![t] = <<>>] = vChecks
    BY <1>1 DEF BatchesHeld, Busy, BusyIn, QueueTypeOK
  <2>5. nTotal + 1 = nIdle + 1 + Cardinality(Busy) /\ nIdle >= Cardinality(Asleep)
        /\ nTotal + 1 \in Nat /\ nIdle \in Nat
    BY CountsAreNumbers DEF Counted, QueueTypeOK
  <2>6. nTodo = Len(queue) + Cardinality(Slots(vChecks)) /\ nTodo \in Nat /\ fAllOk \in BOOLEAN
    BY DEF Counted, TodoExact, Held, QueueTypeOK
  <2>7. (block = "none" => nTodo = 0 /\ fAllOk) /\ (~fAllOk => Failing # {})
    BY DEF MasterPlace, FailuresTrue
  <2>8. ASSUME block # "none", NEW k \in Failing
        PROVE  \/ ~fAllOk
               \/ Within(k, queue)
               \/ \E s \in Threads \ {t} : at[s] = "work" /\ Within(k, vChecks[s])
               \/ \E s \in Threads \ {t} : at[s] = "next" /\ ~fOk[s]
    BY <1>1, <2>8 DEF FailuresKept
  <2> QED BY <2>1, <2>2, <2>3, <2>4, <2>5, <2>6, <2>7, <2>8 DEF LoopReady
<1> QED BY <1>1, <1>2, InnerLoop

\* A thread wakes up.
LEMMA ResumeStep ==
    ASSUME QueueInv, NEW t \in Threads, Resume(t)
    PROVE  QueueInv'
<1>1. at[t] = "woken" /\ TakeWaitReturn(t, nTotal, nIdle - 1, nTodo, fAllOk, at)
  BY DEF Resume
<1>2. LoopReady(t, nTotal, nIdle - 1, nTodo, fAllOk, at)
  <2> USE DEF QueueInv
  <2>1. Moved(t, at)
    BY DEF Moved, QueueTypeOK
  <2>2. Busy \ {t} = Busy /\ t \in Asleep
    BY <1>1 DEF Busy, Asleep, BusyIn, AsleepIn
  <2>3. t = Master => block \in {"waiting", "leaving"}
    BY <1>1 DEF MasterPlace, QueueTypeOK
  <2>4. [vChecks EXCEPT ![t] = <<>>] = vChecks
    BY <1>1 DEF BatchesHeld, Busy, BusyIn, QueueTypeOK
  <2>5. /\ nTotal = (nIdle - 1) + 1 + Cardinality(Busy) /\ nIdle - 1 >= Cardinality(Asleep \ {t})
        /\ nTotal \in Nat /\ nIdle - 1 \in Nat
    <3>1. Cardinality(Asleep \ {t}) = Cardinality(Asleep) - 1 /\ Cardinality(Asleep \ {t}) \in Nat
      <4>1. IsFiniteSet(Asleep \ {t}) /\ Cardinality(Asleep \ {t}) = Cardinality(Asleep) - 1
        BY <2>2, CountsAreNumbers, FS_RemoveElement
      <4> QED BY <4>1, FS_CardinalityType
    <3> QED BY <3>1, CountsAreNumbers DEF Counted, QueueTypeOK
  <2>6. nTodo = Len(queue) + Cardinality(Slots(vChecks)) /\ nTodo \in Nat /\ fAllOk \in BOOLEAN
    BY DEF Counted, TodoExact, Held, QueueTypeOK
  <2>7. (block = "none" => nTodo = 0 /\ fAllOk) /\ (~fAllOk => Failing # {})
    BY DEF MasterPlace, FailuresTrue
  <2>8. ASSUME block # "none", NEW k \in Failing
        PROVE  \/ ~fAllOk
               \/ Within(k, queue)
               \/ \E s \in Threads \ {t} : at[s] = "work" /\ Within(k, vChecks[s])
               \/ \E s \in Threads \ {t} : at[s] = "next" /\ ~fOk[s]
    BY <1>1, <2>8 DEF FailuresKept
  <2> QED BY <2>1, <2>2, <2>3, <2>4, <2>5, <2>6, <2>7, <2>8 DEF LoopReady
<1> QED BY <1>1, <1>2, InnerLoop

\* A thread cleans up after its batch: the count and the result of the batch go
\* into nTodo and fAllOk together.
LEMMA CleanUpStep ==
    ASSUME QueueInv, NEW t \in Threads, CleanUp(t)
    PROVE  QueueInv'
<1> DEFINE todo == nTodo - Len(vChecks[t])
           told == IF todo = 0 /\ t # Master THEN Waiting({Master}, at) ELSE {}
           ok == fAllOk /\ fOk[t]
           where == Wake(told, at)
<1>1. at[t] = "next" /\ TakeWaitReturn(t, nTotal, nIdle, todo, ok, where)
  BY DEF CleanUp
<1>2. LoopReady(t, nTotal, nIdle, todo, ok, where)
  <2> USE DEF QueueInv
  <2>1. Moved(t, where)
    <3>1. told \in SUBSET Waiting({Master}, at)
      OBVIOUS
    <3> HIDE DEF told
    <3> QED BY <3>1, WakeMoves
  <2>2. t \in Busy /\ Asleep \ {t} = Asleep
    BY <1>1 DEF Busy, Asleep, BusyIn, AsleepIn
  <2>3. t = Master => block \in {"waiting", "leaving"}
    BY <1>1 DEF MasterPlace, QueueTypeOK
  <2>4. Cardinality(Busy \ {t}) = Cardinality(Busy) - 1
    BY <2>2, CountsAreNumbers, FS_RemoveElement
  <2>5. /\ nTotal = nIdle + 1 + Cardinality(Busy \ {t}) /\ nIdle >= Cardinality(Asleep)
        /\ nTotal \in Nat /\ nIdle \in Nat
    BY <2>4, CountsAreNumbers DEF Counted, QueueTypeOK
  <2>6. /\ Cardinality(Slots([vChecks EXCEPT ![t] = <<>>])) \in Nat
        /\ Cardinality(Slots([vChecks EXCEPT ![t] = <<>>])) = Cardinality(Slots(vChecks)) - Len(vChecks[t])
    BY SlotsWithout DEF QueueTypeOK, Counted
  <2>7. nTodo = Len(queue) + Cardinality(Slots(vChecks)) /\ Len(queue) \in Nat /\ Len(vChecks[t]) \in Nat
    BY DEF Counted, TodoExact, Held, QueueTypeOK
  <2>8. todo = Len(queue) + Cardinality(Slots([vChecks EXCEPT ![t] = <<>>])) /\ todo \in Nat
    <3>1. Cardinality(Slots(vChecks)) \in Nat
      BY FS_CardinalityType DEF Counted
    <3> QED BY <2>6, <2>7, <3>1
  <2>9. block # "none"
    <3>1. SUFFICES ASSUME block = "none" PROVE FALSE
      OBVIOUS
    <3>2. nTodo = 0 /\ Cardinality(Slots(vChecks)) \in Nat
      BY <3>1, FS_CardinalityType DEF MasterPlace, Counted
    <3>3. Cardinality(Slots(vChecks)) = 0
      BY <2>7, <3>2
    <3>4. vChecks[t] = <<>>
      BY <3>3, SlotsEmpty DEF QueueTypeOK, Counted
    <3> QED BY <2>2, <3>4 DEF BatchesHeld
  <2>10. ok \in BOOLEAN /\ (~ok => Failing # {})
    BY DEF FailuresTrue
  <2>11. ASSUME NEW k \in Failing
         PROVE  \/ ~ok
                \/ Within(k, queue)
                \/ \E s \in Threads \ {t} : at[s] = "work" /\ Within(k, vChecks[s])
                \/ \E s \in Threads \ {t} : at[s] = "next" /\ ~fOk[s]
    BY <1>1, <2>9 DEF FailuresKept
  <2> HIDE DEF todo, ok, where
  <2> QED BY <2>1, <2>2, <2>3, <2>5, <2>8, <2>9, <2>10, <2>11 DEF LoopReady
<1> HIDE DEF todo, ok, where
<1> QED BY <1>1, <1>2, InnerLoop

\* The checks of a batch are run: a failure among them moves from the batch to
\* its result.
LEMMA ExecuteStep ==
    ASSUME QueueInv, NEW t \in Threads, Execute(t)
    PROVE  QueueInv'
<1> DEFINE good == \A i \in 1..Len(vChecks[t]) : vChecks[t][i] \notin bad
<1> USE DEF QueueInv
<1>1. /\ at[t] = "work" /\ fOk' = [fOk EXCEPT ![t] = fOk[t] /\ good] /\ at' = [at EXCEPT ![t] = "next"]
      /\ UNCHANGED <<queue, nIdle, nTotal, nTodo, fAllOk, vChecks, block, added, bad, result>>
  BY DEF Execute, blockVars
<1>2. /\ fOk' \in [Threads -> BOOLEAN] /\ at' \in [Threads -> Places]
      /\ at'[t] = "next" /\ (fOk'[t] <=> fOk[t] /\ good)
      /\ \A s \in Threads \ {t} : at'[s] = at[s] /\ fOk'[s] = fOk[s]
  BY <1>1 DEF QueueTypeOK, Places
<1>3. QueueTypeOK'
  BY <1>1, <1>2 DEF QueueTypeOK
<1>4. Busy' = Busy /\ Asleep' = Asleep /\ t \in Busy
  BY <1>1, <1>2 DEF Busy, Asleep, BusyIn, AsleepIn
<1>5. BatchesHeld'
  BY <1>1, <1>2, <1>4 DEF BatchesHeld
<1>6. Counted'
  BY <1>1, <1>4 DEF Counted, TodoExact, Held
<1>7. MasterPlace'
  BY <1>1, <1>2, ThreadsFinite DEF MasterPlace
<1>8. ChecksOfBlock' /\ ResultExact'
  BY <1>1 DEF ChecksOfBlock, ResultExact
<1>9. Failing' = Failing
  BY <1>1 DEF Failing
<1>10. ~good => Failing # {}
  BY DEF ChecksOfBlock, Failing
<1>11. FailuresTrue'
  BY <1>1, <1>2, <1>9, <1>10 DEF FailuresTrue
<1>12. FailuresKept'
  <2> SUFFICES ASSUME block # "none", NEW k \in Failing
               PROVE  \/ ~fAllOk
                      \/ Within(k, queue)
                      \/ \E s \in Threads : at'[s] = "work" /\ Within(k, vChecks[s])
                      \/ \E s \in Threads : at'[s] = "next" /\ ~fOk'[s]
    BY <1>1, <1>9 DEF FailuresKept
  <2>1. CASE Within(k, vChecks[t])
    <3>1. ~good
      BY <2>1 DEF Within, Failing
    <3> QED BY <1>2, <3>1
  <2>2. CASE \/ ~fAllOk
             \/ Within(k, queue)
             \/ \E s \in Threads : at[s] = "work" /\ s # t /\ Within(k, vChecks[s])
             \/ \E s \in Threads : at[s] = "next" /\ ~fOk[s]
    BY <1>1, <1>2, <2>2
  <2> QED BY <2>1, <2>2 DEF FailuresKept
<1> QED BY <1>3, <1>5, <1>6, <1>7, <1>8, <1>11, <1>12

(***************************************************************************)
(* The other steps.                                                        *)
(***************************************************************************)

\* A thread without a batch changes its place, and does not fall asleep.
LEMMA PlaceStep ==
    ASSUME QueueInv, NEW t \in Threads, at[t] \notin {"work", "next"},
           NEW p \in Places \ {"work", "next"}, at' = [at EXCEPT ![t] = p],
           p \in {"wait", "woken"} => at[t] \in {"wait", "woken"},
           UNCHANGED <<queue, nIdle, nTotal, nTodo, fAllOk, vChecks, fOk, added, bad, result>>,
           block' \in {"none", "adding", "waiting", "leaving"}, block' = "none" <=> block = "none",
           MasterPlace'
    PROVE  QueueInv'
<1> USE DEF QueueInv
<1>1. at' \in [Threads -> Places] /\ at'[t] = p /\ \A s \in Threads \ {t} : at'[s] = at[s]
  BY DEF QueueTypeOK
<1>2. QueueTypeOK'
  BY <1>1 DEF QueueTypeOK
<1>3. Busy' = Busy /\ Asleep' \in SUBSET Asleep
  BY <1>1 DEF Busy, Asleep, BusyIn, AsleepIn
<1>4. Cardinality(Asleep') <= Cardinality(Asleep) /\ Cardinality(Asleep') \in Nat
  BY <1>3, CountsAreNumbers, FS_Subset, FS_CardinalityType
<1>5. BatchesHeld'
  BY <1>3 DEF BatchesHeld
<1>6. Counted'
  BY <1>3, <1>4, CountsAreNumbers DEF Counted, TodoExact, Held, QueueTypeOK
<1>7. ChecksOfBlock' /\ ResultExact' /\ FailuresTrue'
  BY DEF ChecksOfBlock, ResultExact, FailuresTrue, Failing
<1>8. FailuresKept'
  BY <1>1 DEF FailuresKept, Failing
<1> QED BY <1>2, <1>5, <1>6, <1>7, <1>8

\* Spurious wakeups, and interrupted workers.
LEMMA SpuriousStep ==
    ASSUME QueueInv, NEW t \in Threads, SpuriousWakeup(t)
    PROVE  QueueInv'
<1>1. /\ at[t] = "wait" /\ at' = [at EXCEPT ![t] = "woken"]
      /\ UNCHANGED <<queue, nIdle, nTotal, nTodo, fAllOk, vChecks, fOk, block, added, bad, result>>
  BY DEF SpuriousWakeup, blockVars
<1>2. MasterPlace'
  BY <1>1, ThreadsFinite DEF QueueInv, QueueTypeOK, MasterPlace
<1>3. "woken" \in Places \ {"work", "next"} /\ block \in {"none", "adding", "waiting", "leaving"}
  BY DEF Places, QueueInv, QueueTypeOK
<1> QED BY <1>1, <1>2, <1>3, PlaceStep

LEMMA InterruptWorkerStep ==
    ASSUME QueueInv, NEW t \in Workers, InterruptWorker(t)
    PROVE  QueueInv'
<1>1. /\ at[t] \in {"wait", "woken"} /\ at' = [at EXCEPT ![t] = "dead"]
      /\ UNCHANGED <<queue, nIdle, nTotal, nTodo, fAllOk, vChecks, fOk, block, added, bad, result>>
  BY DEF InterruptWorker, blockVars
<1>2. t \in Threads /\ t # Master
  BY QueueAssumption DEF Threads
<1>3. MasterPlace'
  BY <1>1, <1>2, ThreadsFinite DEF QueueInv, QueueTypeOK, MasterPlace
<1>4. "dead" \in Places \ {"work", "next"} /\ block \in {"none", "adding", "waiting", "leaving"}
  BY DEF Places, QueueInv, QueueTypeOK
<1> QED BY <1>1, <1>2, <1>3, <1>4, PlaceStep

\* The master enters Loop: from Wait, from the destructor, or again after an
\* interruption.
LEMMA MasterStep ==
    ASSUME QueueInv, Wait \/ ReturnEarly \/ InterruptMaster
    PROVE  QueueInv'
<1>1. /\ block # "none" /\ block' \in {"waiting", "leaving"}
      /\ at' = [at EXCEPT ![Master] = "first"]
      /\ UNCHANGED <<queue, nIdle, nTotal, nTodo, fAllOk, vChecks, fOk, added, bad, result>>
  BY DEF Wait, ReturnEarly, InterruptMaster
<1>2. at[Master] \notin {"work", "next"}
  BY DEF Wait, ReturnEarly, InterruptMaster, QueueInv, MasterPlace
<1>3. MasterPlace'
  BY <1>1, ThreadsFinite DEF QueueInv, QueueTypeOK, MasterPlace
<1>4. "first" \in Places \ {"work", "next"} /\ "first" \notin {"wait", "woken"}
  BY DEF Places
<1> QED BY <1>1, <1>2, <1>3, <1>4, ThreadsFinite, PlaceStep

\* A block begins, with everything idle and nothing held.
LEMMA BeginStep ==
    ASSUME QueueInv, Begin
    PROVE  QueueInv'
<1> USE DEF QueueInv
<1>1. /\ block = "none" /\ block' = "adding" /\ added' = 0 /\ result' = "none"
      /\ UNCHANGED <<queue, nIdle, nTotal, nTodo, fAllOk, at, vChecks, fOk>>
  BY DEF Begin, loopVars
<1>2. nTodo = 0 /\ fAllOk
  BY <1>1 DEF MasterPlace
<1>3. Len(queue) = 0 /\ Cardinality(Slots(vChecks)) = 0
  <2>1. Cardinality(Slots(vChecks)) \in Nat /\ Len(queue) \in Nat
    BY FS_CardinalityType DEF Counted, QueueTypeOK
  <2>2. nTodo = Len(queue) + Cardinality(Slots(vChecks))
    BY DEF Counted, TodoExact, Held
  <2> QED BY <1>2, <2>1, <2>2
<1>4. \A t \in Threads : vChecks[t] = <<>>
  BY <1>3, SlotsEmpty DEF QueueTypeOK, Counted
<1>5. \A t \in Threads : Len(vChecks[t]) = 0 /\ fOk[t]
  BY <1>4 DEF BatchesHeld
<1>6. QueueTypeOK' /\ BatchesHeld'
  BY <1>1 DEF QueueTypeOK, BatchesHeld, Busy, BusyIn
<1>7. Counted'
  BY <1>1 DEF Counted, TodoExact, Held, Busy, Asleep, BusyIn, AsleepIn
<1>8. MasterPlace' /\ ResultExact'
  BY <1>1 DEF MasterPlace, ResultExact
<1>9. ChecksOfBlock'
  BY <1>1, <1>3, <1>5 DEF ChecksOfBlock
<1>10. Failing' = {}
  BY <1>1 DEF Failing
<1>11. FailuresTrue' /\ FailuresKept'
  BY <1>1, <1>2, <1>5, <1>10 DEF FailuresTrue, FailuresKept
<1> QED BY <1>6, <1>7, <1>8, <1>9, <1>11

\* Checks are added to the queue; workers may be woken.
LEMMA AddStep ==
    ASSUME QueueInv, NEW n \in 0..(MaxChecks - added), Add(n)
    PROVE  QueueInv'
<1> DEFINE more == [k \in 1..n |-> added + k]
<1> USE DEF QueueInv
<1>0. n \in Nat /\ added \in Nat
  BY QueueAssumption DEF QueueTypeOK
<1>1. /\ block = "adding" /\ queue' = queue \o more /\ nTodo' = nTodo + n /\ added' = added + n
      /\ UNCHANGED <<nIdle, nTotal, fAllOk, vChecks, fOk, block, bad, result>>
  BY DEF Add
<1>2. PICK told \in SUBSET Waiting(Workers, at) : at' = Wake(told, at)
  BY DEF Add
<1>3. /\ at' \in [Threads -> Places]
      /\ \A t \in Threads : at'[t] = at[t] \/ (at[t] = "wait" /\ at'[t] = "woken")
  BY <1>2 DEF Wake, Waiting, QueueTypeOK, Places
<1>4. at'[Master] = at[Master]
  BY <1>2, ThreadsFinite, QueueAssumption DEF Wake, Waiting
<1>5. Busy' = Busy /\ Asleep' = Asleep
  BY <1>3 DEF Busy, Asleep, BusyIn, AsleepIn
<1>6. more \in Seq(Nat) /\ Len(more) = n /\ \A i \in 1..n : more[i] = added + i
  <2>1. more \in [1..n -> Nat]
    BY <1>0
  <2>2. \A i \in 1..n : more[i] = added + i
    OBVIOUS
  <2> HIDE DEF more
  <2> QED BY <1>0, <2>1, <2>2
<1> HIDE DEF more
<1>7. /\ queue' \in Seq(Nat) /\ Len(queue') = Len(queue) + n /\ Len(queue) \in Nat
      /\ \A i \in 1..Len(queue) + n :
            queue'[i] = IF i <= Len(queue) THEN queue[i] ELSE more[i - Len(queue)]
  <2>1. queue \in Seq(Nat) /\ Len(queue) \in Nat
    BY DEF QueueTypeOK
  <2>2. /\ queue \o more \in Seq(Nat)
        /\ Len(queue \o more) = Len(queue) + Len(more)
        /\ \A i \in 1..Len(queue) + Len(more) :
                (queue \o more)[i] = IF i <= Len(queue) THEN queue[i] ELSE more[i - Len(queue)]
    BY <1>6, <2>1, ConcatProperties, Zenon
  <2> QED BY <1>1, <1>6, <2>1, <2>2, Zenon
<1>8. QueueTypeOK'
  BY <1>0, <1>1, <1>3, <1>7 DEF QueueTypeOK
<1>9. BatchesHeld'
  BY <1>1, <1>5 DEF BatchesHeld
<1>10. Counted'
  <2>1. nTodo' = Len(queue') + Cardinality(Slots(vChecks))
    <3>1. nTodo = Len(queue) + Cardinality(Slots(vChecks)) /\ Cardinality(Slots(vChecks)) \in Nat
      BY FS_CardinalityType DEF Counted, TodoExact, Held
    <3> QED BY <1>0, <1>1, <1>7, <3>1
  <2> QED BY <1>1, <1>5, <2>1 DEF Counted, TodoExact, Held
<1>11. MasterPlace' /\ ResultExact'
  BY <1>1, <1>4 DEF MasterPlace, ResultExact
<1>12. ChecksOfBlock'
  <2>1. ASSUME NEW i \in 1..Len(queue') PROVE queue'[i] \in 1..(added + n)
    <3>1. CASE i <= Len(queue)
      BY <1>0, <1>7, <3>1 DEF ChecksOfBlock
    <3>2. CASE i > Len(queue)
      <4>1. i - Len(queue) \in 1..n
        BY <1>0, <1>7, <3>2
      <4>2. queue'[i] = added + (i - Len(queue))
        BY <1>6, <1>7, <3>2, <4>1
      <4> QED BY <1>0, <4>1, <4>2
    <3> QED BY <1>7, <3>1, <3>2
  <2>2. ASSUME NEW t \in Threads, NEW i \in 1..Len(vChecks[t]) PROVE vChecks[t][i] \in 1..(added + n)
    BY <1>0 DEF ChecksOfBlock
  <2> QED BY <1>1, <2>1, <2>2 DEF ChecksOfBlock
<1>13. /\ Failing \subseteq Failing'
       /\ \A k \in Failing' \ Failing : Within(k, queue')
  <2>1. Failing \subseteq Failing'
    BY <1>0, <1>1 DEF Failing
  <2>2. ASSUME NEW k \in Failing' \ Failing PROVE Within(k, queue')
    <3>1. k \in Nat /\ k > added /\ k <= added + n
      BY <1>0, <1>1 DEF Failing
    <3>2. Len(queue) + (k - added) \in 1..Len(queue') /\ k - added \in 1..n
          /\ Len(queue) + (k - added) > Len(queue)
      BY <1>0, <1>7, <3>1
    <3>3. queue'[Len(queue) + (k - added)] = more[(Len(queue) + (k - added)) - Len(queue)]
      BY <1>7, <3>2
    <3>4. (Len(queue) + (k - added)) - Len(queue) = k - added
      BY <1>0, <1>7, <3>1
    <3>5. more[k - added] = k
      BY <1>0, <1>6, <3>1, <3>2
    <3> QED BY <3>2, <3>3, <3>4, <3>5 DEF Within
  <2> QED BY <2>1, <2>2
<1>14. \A k : Within(k, queue) => Within(k, queue')
  BY <1>0, <1>7 DEF Within
<1>15. FailuresTrue'
  BY <1>1, <1>13 DEF FailuresTrue
<1>16. FailuresKept'
  <2> SUFFICES ASSUME NEW k \in Failing'
               PROVE  \/ ~fAllOk
                      \/ Within(k, queue')
                      \/ \E t \in Threads : at'[t] = "work" /\ Within(k, vChecks[t])
                      \/ \E t \in Threads : at'[t] = "next" /\ ~fOk[t]
    BY <1>1 DEF FailuresKept
  <2>1. CASE k \in Failing
    <3>1. \/ ~fAllOk
          \/ Within(k, queue)
          \/ \E t \in Threads : at[t] = "work" /\ Within(k, vChecks[t])
          \/ \E t \in Threads : at[t] = "next" /\ ~fOk[t]
      BY <1>1, <2>1 DEF FailuresKept
    <3> QED BY <1>3, <1>14, <3>1
  <2>2. CASE k \notin Failing
    BY <1>13, <2>2
  <2> QED BY <2>1, <2>2
<1> QED BY <1>8, <1>9, <1>10, <1>11, <1>12, <1>15, <1>16

\* The queue of a node that has just started.
LEMMA QueueStart == QueueInit => QueueInv
<1> SUFFICES ASSUME QueueInit PROVE QueueInv
  OBVIOUS
<1> USE DEF QueueInit
<1>1. \A t \in Threads : vChecks[t] = <<>> /\ Len(vChecks[t]) = 0
  OBVIOUS
<1>2. QueueTypeOK
  <2>1. queue \in Seq(Nat) /\ vChecks \in [Threads -> Seq(Nat)]
    BY EmptySeq
  <2> QED BY <2>1 DEF QueueTypeOK, Places
<1>3. Busy = {} /\ Asleep = {}
  BY DEF Busy, Asleep, BusyIn, AsleepIn
<1>4. BatchesHeld
  BY <1>1, <1>3 DEF BatchesHeld
<1>5. Slots(vChecks) = {}
  <2>1. \A t \in Threads : {t} \X (1..Len(vChecks[t])) = {}
    BY <1>1
  <2> QED BY <2>1 DEF Slots
<1>6. Counted
  BY <1>3, <1>5, FS_EmptySet DEF Counted, TodoExact, Held
<1>7. MasterPlace
  BY ThreadsFinite DEF MasterPlace
<1>8. ChecksOfBlock /\ FailuresTrue /\ FailuresKept /\ ResultExact
  BY <1>1 DEF ChecksOfBlock, FailuresTrue, FailuresKept, ResultExact
<1> QED BY <1>2, <1>4, <1>6, <1>7, <1>8 DEF QueueInv

LEMMA QueueStep == QueueInv /\ [QueueNext]_queueVars => QueueInv'
<1> SUFFICES ASSUME QueueInv, [QueueNext]_queueVars PROVE QueueInv'
  OBVIOUS
<1>1. CASE UNCHANGED queueVars
  BY <1>1 DEF queueVars, loopVars, blockVars, QueueInv, QueueTypeOK, BatchesHeld, Counted, MasterPlace,
        ChecksOfBlock, FailuresTrue, FailuresKept, ResultExact, TodoExact, Held, Failing,
        Busy, Asleep, BusyIn, AsleepIn
<1>2. ASSUME NEW t \in Threads, Step(t) PROVE QueueInv'
  BY <1>2, EnterStep, CleanUpStep, ResumeStep, ExecuteStep DEF Step
<1>3. ASSUME NEW t \in Threads, SpuriousWakeup(t) PROVE QueueInv'
  BY <1>3, SpuriousStep
<1>4. CASE Wait \/ ReturnEarly \/ InterruptMaster
  BY <1>4, MasterStep
<1>5. CASE Begin
  BY <1>5, BeginStep
<1>6. ASSUME NEW n \in 0..(MaxChecks - added), Add(n) PROVE QueueInv'
  BY <1>6, AddStep
<1>7. ASSUME NEW t \in Workers, InterruptWorker(t) PROVE QueueInv'
  BY <1>7, InterruptWorkerStep
<1> QED BY <1>1, <1>2, <1>3, <1>4, <1>5, <1>6, <1>7 DEF QueueNext

LEMMA QueueAlways == QueueSpec => []QueueInv
BY QueueStart, QueueStep, PTL DEF QueueSpec

(***************************************************************************)
(* Theorems.                                                               *)
(***************************************************************************)

\* nTodo counts the checks in the queue and in the batches of the threads, for any
\* number of workers and any batch size.
THEOREM TodoIsExact == QueueSpec => []TodoExact
<1>1. QueueInv => TodoExact
  BY DEF QueueInv, Counted
<1> QED BY <1>1, QueueAlways, PTL

\* The assertion of the constructor of CCheckQueueControl holds: between two blocks
\* the queue is idle, however the last block was left and whoever was interrupted.
THEOREM QueueIdle == QueueSpec => []IdleBetweenBlocks
<1>1. QueueInv => IdleBetweenBlocks
  <2> SUFFICES ASSUME QueueInv, block = "none" PROVE IsIdle
    BY DEF IdleBetweenBlocks
  <2> USE DEF QueueInv
  <2>1. nTodo = 0 /\ fAllOk
    BY DEF MasterPlace
  <2>2. Cardinality(Slots(vChecks)) = 0
    <3>1. Cardinality(Slots(vChecks)) \in Nat /\ Len(queue) \in Nat
      BY FS_CardinalityType DEF Counted, QueueTypeOK
    <3>2. nTodo = Len(queue) + Cardinality(Slots(vChecks))
      BY DEF Counted, TodoExact, Held
    <3> QED BY <2>1, <3>1, <3>2
  <2>3. \A t \in Threads : vChecks[t] = <<>>
    BY <2>2, SlotsEmpty DEF QueueTypeOK, Counted
  <2>4. Busy = {}
    <3>1. \A t \in Threads : t \notin Busy
      BY <2>3 DEF BatchesHeld
    <3> QED BY <3>1 DEF Busy, BusyIn
  <2>5. nTotal = nIdle
    BY <2>4, FS_EmptySet DEF Counted, QueueTypeOK
  <2> QED BY <2>1, <2>5 DEF IsIdle
<1> QED BY <1>1, QueueAlways, PTL

\* Wait returns true exactly when every check of the block succeeds: no failure is
\* lost between a batch, its clean-up and the return of the master, and none is
\* carried over from the block before.
THEOREM WaitIsExact == QueueSpec => []ResultExact
<1>1. QueueInv => ResultExact
  BY DEF QueueInv
<1> QED BY <1>1, QueueAlways, PTL
=============================================================================
