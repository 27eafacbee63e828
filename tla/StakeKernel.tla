------------------------------ MODULE StakeKernel ------------------------------
(***************************************************************************)
(* Stake modifiers (src/kernel.cpp): ComputeNextStakeModifier for each     *)
(* block that is accepted and the modifier a proof-of-stake kernel hashes  *)
(* with (GetKernelStakeModifierV05), over one chain of blocks 0..n.  Both  *)
(* read the blocks below only, and AcceptBlock refuses a block whose       *)
(* parent is not there, so that a chain grows block by block.              *)
(*                                                                         *)
(* A modifier is the set of its bits.  Hashes are constants.  Whether a    *)
(* kernel meets the target is a choice.  Protocol 0.5 starts nStakeMinAge  *)
(* after the genesis block, before any coin is old enough to stake, and    *)
(* IsProtocolV04 holds of every block of this chain.                       *)
(***************************************************************************)
EXTENDS Integers, Sequences, FiniteSets, FiniteSetsExt, SequencesExt

CONSTANTS
    BlockHash,          \* height -> the hash of the block, as a number
    SelectionHash(_, _),\* the hash of a block's proof and the previous modifier
    PosShift,           \* 2^32 in the code
    Rounds,             \* 64 in the code
    Ratio,              \* MODIFIER_INTERVAL_RATIO
    nStakeModifierInterval, nStakeMinAge, nMaxClockDrift, nMedianTimeSpan,
    Delays              \* the times a block may lie after its parent

MaxHeight == Max(DOMAIN BlockHash)

\* Hashes are numbers, and those of two blocks differ.
ASSUME KernelAssumption ==
    /\ nStakeModifierInterval \in Nat \ {0}
    /\ Rounds \in Nat \ {0, 1} /\ Ratio \in Nat \ {0} /\ PosShift \in Nat \ {0}
    /\ Delays \subseteq Int
    /\ MaxHeight \in Nat /\ BlockHash \in [0..MaxHeight -> Nat]
    /\ \A a, b \in DOMAIN BlockHash : BlockHash[a] = BlockHash[b] => a = b
    /\ \A b \in DOMAIN BlockHash : \A m \in SUBSET (0..(Rounds - 1)) : SelectionHash(b, m) \in Nat

Genesis == 0

VARIABLES
    height,             \* the blocks are 0..height
    time,               \* GetBlockTime()
    proofOfStake,       \* BLOCK_PROOF_OF_STAKE
    modifier,           \* nStakeModifier
    generated           \* BLOCK_STAKE_MODIFIER

kernelVars == <<height, time, proofOfStake, modifier, generated>>

Block == 0..height

\* GetStakeEntropyBit: the last bit of the hash
EntropyBit(b) == BlockHash[b] % 2

-----------------------------------------------------------------------------
(* ComputeNextStakeModifier.                                               *)

\* GetStakeModifierSelectionIntervalSection
Section(n) ==
    (nStakeModifierInterval * (Rounds - 1)) \div ((Rounds - 1) + ((Rounds - 1 - n) * (Ratio - 1)))

\* The first n sections together
Sections[n \in 0..Rounds] == IF n = 0 THEN 0 ELSE Sections[n - 1] + Section(n - 1)

GetStakeModifierSelectionInterval == Sections[Rounds]

\* The highest block up to b that generated a modifier
GetLastStakeModifier(b) == Max({a \in 0..b : generated[a]})

IntervalOf(t) == t \div nStakeModifierInterval

\* Timestamp, and the hash where it is the same
Earlier(a, b) == time[a] < time[b] \/ (time[a] = time[b] /\ BlockHash[a] <= BlockHash[b])

Swapped(v, pos) ==
    [i \in 1..Len(v) |-> v[IF i = pos THEN pos + 1 ELSE IF i = pos + 1 THEN pos ELSE i]]

\* SwapSort, with positions from 1: at the first one pos - 1 is the largest
\* unsigned number and nothing is done there.
SwapSort[v \in Seq(Block)] == [pos \in Nat |->
    IF pos \notin 1..(Len(v) - 1) \/ Earlier(v[pos], v[pos + 1]) THEN v
    ELSE SwapSort[SwapSort[Swapped(v, pos)][pos - 1]][pos + 1]]

\* The candidates: the blocks from prev down to the first that lies before the
\* selection interval, from the lowest up.
IntervalStart(prev) ==
    IntervalOf(time[prev]) * nStakeModifierInterval - GetStakeModifierSelectionInterval

Candidates(prev) ==
    LET before == {b \in 0..prev : time[b] < IntervalStart(prev)}
        low == IF before = {} THEN 0 ELSE Max(before) + 1
    IN  [i \in 1..(prev - low + 1) |-> low + i - 1]

\* vSortedByTimestamp: SwapSort at each position in turn
Sorted(prev) ==
    LET v == Candidates(prev)
        Pass[i \in 0..Len(v)] == IF i = 0 THEN v ELSE SwapSort[Pass[i - 1]][i]
    IN  Pass[Len(v)]

HashOf(b, m) ==
    IF proofOfStake[b] THEN SelectionHash(b, m) \div PosShift ELSE SelectionHash(b, m)

\* The position of the best so far, after the one at i
Better(v, reached, m, best, i) ==
    IF i \in reached /\ HashOf(v[i], m) < HashOf(v[best], m) THEN i ELSE best

\* Mutant: the round passes over the blocks at its stop.
SelectBlockFromCandidates_Stop(v, selected, stop, m) ==
    LET open == {i \in 1..Len(v) : v[i] \notin selected}
        reached == {i \in open : i = Min(open) \/ time[v[i]] < stop}
        Best[i \in 0..Len(v)] ==
            IF i = 0 THEN Min(open) ELSE Better(v, reached, m, Best[i - 1], i)
    IN  v[Best[Len(v)]]

\* SelectBlockFromCandidates: the first block that is not selected yet, then the
\* blocks after it up to the first beyond the stop, each if its hash is smaller
\* than the best so far.  Hashes are kept from round to round: they depend on
\* the block and m.
SelectBlockFromCandidates(v, selected, stop, m) ==
    LET open == {i \in 1..Len(v) : v[i] \notin selected}
        beyond == {i \in open : i # Min(open) /\ time[v[i]] > stop}
        reached == {i \in open : \A j \in beyond : i < j}
        Best[i \in 0..Len(v)] ==
            IF i = 0 THEN Min(open) ELSE Better(v, reached, m, Best[i - 1], i)
    IN  v[Best[Len(v)]]

\* The blocks selected in the first n rounds, in this order
Selected(v, n, start, m) ==
    LET S[k \in 0..n] ==
            IF k = 0 THEN <<>>
            ELSE Append(S[k - 1],
                        SelectBlockFromCandidates(v, ToSet(S[k - 1]), start + Sections[k], m))
    IN  S[n]

Lesser(a, b) == IF a < b THEN a ELSE b

\* Mutant: a block may generate a modifier whatever its own timestamp (protocol 0.3).
ComputeNextStakeModifier_V03(prev, at) ==
    LET last == GetLastStakeModifier(prev)
        v == Sorted(prev)
        s == Selected(v, Lesser(Rounds, Len(v)), IntervalStart(prev), modifier[last])
    IN  IF IntervalOf(time[last]) >= IntervalOf(time[prev])
        THEN [value |-> modifier[last], new |-> FALSE]
        ELSE [value |-> {r \in 0..(Len(s) - 1) : EntropyBit(s[r + 1]) = 1}, new |-> TRUE]

\* The modifier of a block on prev with timestamp at, and whether it is new
ComputeNextStakeModifier(prev, at) ==
    LET last == GetLastStakeModifier(prev)
        v == Sorted(prev)
        s == Selected(v, Lesser(Rounds, Len(v)), IntervalStart(prev), modifier[last])
    IN  IF \/ IntervalOf(time[last]) >= IntervalOf(time[prev])
           \/ IntervalOf(time[last]) >= IntervalOf(at)
        THEN [value |-> modifier[last], new |-> FALSE]
        ELSE [value |-> {r \in 0..(Len(s) - 1) : EntropyBit(s[r + 1]) = 1}, new |-> TRUE]

-----------------------------------------------------------------------------
(* The modifier of a kernel.                                               *)

Fail == -1

\* GetKernelStakeModifierV05: back from prev to a block below it that generated a
\* modifier and is nStakeMinAge less a selection interval older than the stake.
\* The answer is that block.
GetKernelStakeModifierV05(prev, nTimeTx) ==
    LET limit == nTimeTx - nStakeMinAge + GetStakeModifierSelectionInterval
        old == {b \in 0..(prev - 1) : generated[b] /\ time[b] <= limit}
    IN  IF time[prev] <= limit \/ old = {} THEN Fail ELSE Max(old)

\* CheckProofOfStake of a block on prev with its coin in block from: the coin is
\* old enough and the kernel has a modifier.
CheckProofOfStake(prev, from, nTimeTx) ==
    /\ time[from] + nStakeMinAge <= nTimeTx
    /\ GetKernelStakeModifierV05(prev, nTimeTx) # Fail

\* GetMedianTimePast
MedianTimePast(prev) ==
    LET from == IF prev < nMedianTimeSpan THEN 0 ELSE prev - nMedianTimeSpan + 1
        sorted == SortSeq([i \in 1..(prev - from + 1) |-> time[from + i - 1]], <)
    IN  sorted[Len(sorted) \div 2 + 1]

\* ContextualCheckBlockHeader, the timestamp
TimestampOK(prev, at) == at > MedianTimePast(prev) /\ at + nMaxClockDrift >= time[prev]

-----------------------------------------------------------------------------
KernelInit ==
    /\ height = 0
    /\ time = [b \in {0} |-> 0]
    /\ proofOfStake = [b \in {0} |-> FALSE]
    /\ modifier = [b \in {0} |-> {}]
    /\ generated = [b \in {0} |-> TRUE]

\* A function on 0..height with one more value
Extended(f, x) == [b \in 0..(height + 1) |-> IF b \in Block THEN f[b] ELSE x]

\* ppcoinContextualBlockChecks: the block and its modifier enter the index.
Index(at, pos) ==
    LET new == ComputeNextStakeModifier(height, at)
    IN  /\ height' = height + 1
        /\ time' = Extended(time, at)
        /\ proofOfStake' = Extended(proofOfStake, pos)
        /\ modifier' = Extended(modifier, new.value)
        /\ generated' = Extended(generated, new.new)

AcceptWork(at) ==
    /\ height < MaxHeight /\ TimestampOK(height, at)
    /\ Index(at, FALSE)

AcceptStake(at, from) ==
    /\ height < MaxHeight /\ TimestampOK(height, at)
    /\ CheckProofOfStake(height, from, at)
    /\ Index(at, TRUE)

KernelNext ==
    \E d \in Delays :
        \/ AcceptWork(time[height] + d)
        \/ \E from \in Block : AcceptStake(time[height] + d, from)

KernelSpec == KernelInit /\ [][KernelNext]_kernelVars

-----------------------------------------------------------------------------
(* Properties.                                                             *)

\* The candidate blocks end up in the order of their timestamps and, where these
\* are the same, of their hashes, although SwapSort starts from the order of the
\* chain, in which a timestamp may lie before that of the parent.
SortedByTimestamp ==
    \A prev \in Block :
        LET v == Sorted(prev)
        IN  /\ \A i, j \in 1..Len(v) : i < j => Earlier(v[i], v[j])
            /\ ToSet(v) = ToSet(Candidates(prev)) /\ Len(v) = Len(Candidates(prev))

Wins(b, a, m) ==
    HashOf(b, m) < HashOf(a, m) \/ (HashOf(b, m) = HashOf(a, m) /\ Earlier(b, a))

\* The block of a round by definition: the smallest hash among the candidates not
\* selected before whose time is up to the stop of the round, or the earliest
\* candidate when there is none.
BlockOfRound(left, stop, m) ==
    IF \E b \in left : time[b] <= stop
    THEN CHOOSE b \in left : time[b] <= stop /\ \A a \in left : time[a] <= stop => Wins(b, a, m)
    ELSE CHOOSE b \in left : \A a \in left : Earlier(b, a)

\* The blocks of the first n rounds
Choice(C, n, start, m) ==
    LET S[k \in 0..n] ==
            IF k = 0 THEN <<>>
            ELSE Append(S[k - 1], BlockOfRound(C \ ToSet(S[k - 1]), start + Sections[k], m))
    IN  S[n]

\* A new modifier has the entropy bits of the blocks that the comment on
\* SelectBlockFromCandidates describes, round by round, although the code sorts
\* with SwapSort and finds them in one pass of a loop with an early end.
ModifierByDefinition ==
    /\ SortedByTimestamp
    /\ \A b \in Block \ {Genesis} : generated[b] =>
           LET C == ToSet(Candidates(b - 1))
               s == Choice(C, Lesser(Rounds, Cardinality(C)), IntervalStart(b - 1),
                           modifier[GetLastStakeModifier(b - 1)])
           IN  modifier[b] = {r \in 0..(Len(s) - 1) : EntropyBit(s[r + 1]) = 1}

\* The search of GetKernelStakeModifierV05 by height finds the modifier that is the
\* latest in time of those old enough: timestamps may go back, the timestamps of
\* the blocks that generate modifiers never do.
KernelModifierLatest ==
    \A prev \in Block : \A nTimeTx \in 0..(time[prev] + nStakeMinAge) :
        LET p == GetKernelStakeModifierV05(prev, nTimeTx)
        IN  p # Fail =>
                \A b \in 0..(prev - 1) :
                    (generated[b] /\ time[b] <= nTimeTx - nStakeMinAge + GetStakeModifierSelectionInterval)
                        => time[b] <= time[p]
=============================================================================
