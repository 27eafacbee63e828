--------------------------- MODULE StakeKernelProofs ---------------------------
(***************************************************************************)
(* Theorems about stake modifiers, for chains of any length, any           *)
(* timestamps the block checks admit, and any hash.  The second half is    *)
(* about what ComputeNextStakeModifier computes: the sort, a round, the    *)
(* rounds, and that later blocks do not change what was computed.          *)
(***************************************************************************)
EXTENDS StakeKernel, FiniteSetTheorems, WellFoundedInduction, NaturalsInduction, TLAPS

-----------------------------------------------------------------------------
(* Heights and intervals.                                                  *)

\* The walk back from a block finds the highest of the blocks it looks for, if
\* there is one.
LEMMA HighestBlock ==
    ASSUME NEW N \in Int, NEW S \in SUBSET (0..N), S # {}
    PROVE  Max(S) \in S /\ \A y \in S : y <= Max(S)
<1>0. IsWellFoundedOn(OpToRel(<, Nat), Nat)
  BY NatLessThanWellFounded
<1> DEFINE T == {N - k : k \in S}
<1>1. T \subseteq Nat /\ T # {}
  <2>1. \A k \in S : N - k \in Nat
    BY SMT
  <2> QED BY <2>1, Zenon
<1>2. PICK m \in T : \A y \in T : ~(<<y, m>> \in OpToRel(<, Nat))
  <2> HIDE DEF T
  <2> QED BY <1>0, <1>1, WFMin
<1>3. \A y \in T : ~(y < m)
  BY <1>1, <1>2 DEF OpToRel
<1>4. PICK k \in S : m = N - k
  BY <1>2
<1>5. \A y \in S : k >= y
  <2> TAKE y \in S
  <2>1. ~(N - y < N - k)
    BY <1>3, <1>4
  <2> QED BY <2>1
<1> HIDE DEF T
<1>6. \E x \in S : \A y \in S : x >= y
  BY <1>5
<1>7. Max(S) \in S /\ \A y \in S : Max(S) >= y
  BY <1>6, Zenon DEF Max
<1> QED BY <1>7

\* A timestamp in an earlier interval is earlier.
LEMMA IntervalOrder ==
    ASSUME NEW s \in Int, NEW t \in Int
    PROVE  /\ IntervalOf(s) \in Int
           /\ IntervalOf(s) < IntervalOf(t) => s < t
<1> DEFINE n == nStakeModifierInterval
           p == s \div n
           q == t \div n
<1>1. n \in Nat /\ n > 0
  BY KernelAssumption
<1>2. p \in Int /\ q \in Int /\ s < (p + 1) * n /\ q * n <= t
  BY <1>1
<1> HIDE DEF n, p, q
<1>3. ASSUME p < q PROVE s < t
  <2>1. PICK d \in Nat : q = p + 1 + d
    <3>1. q - p - 1 \in Nat
      BY <1>2, <1>3
    <3> QED BY <1>2, <3>1
  <2>2. q * n = (p + 1) * n + d * n /\ d * n >= 0
    BY <1>1, <1>2, <2>1
  <2> QED BY <1>1, <1>2, <2>1, <2>2
<1> QED BY <1>2, <1>3 DEF n, p, q, IntervalOf

-----------------------------------------------------------------------------
(* The inductive invariant: the blocks that generate a modifier lie in     *)
(* different intervals, in the order of the chain.                         *)

OnePerInterval ==
    \A a, b \in Block :
        a < b /\ generated[a] /\ generated[b] => IntervalOf(time[a]) < IntervalOf(time[b])

KernelInv ==
    /\ height \in Nat
    /\ time \in [Block -> Int]
    /\ generated \in [Block -> BOOLEAN] /\ generated[Genesis]
    /\ OnePerInterval

\* GetLastStakeModifier finds a block: the genesis block has a modifier.
LEMMA LastModifier ==
    ASSUME KernelInv
    PROVE  LET last == GetLastStakeModifier(height)
           IN  last \in Block /\ generated[last] /\ \A a \in Block : generated[a] => a <= last
<1> DEFINE S == {a \in 0..height : generated[a]}
<1>1. S \in SUBSET (0..height) /\ S # {} /\ height \in Int
  BY DEF KernelInv, Genesis, Block
<1>2. Max(S) \in S /\ \A y \in S : y <= Max(S)
  <2> HIDE DEF S
  <2> QED BY <1>1, HighestBlock
<1> QED BY <1>2 DEF GetLastStakeModifier, Block

\* A block that enters the index.
LEMMA IndexKeepsInv ==
    ASSUME KernelInv, NEW at \in Int, NEW pos, Index(at, pos)
    PROVE  KernelInv'
<1> DEFINE new == ComputeNextStakeModifier(height, at)
           last == GetLastStakeModifier(height)
<1>1. /\ height \in Nat /\ height' = height + 1 /\ height' \in Nat
      /\ time' = Extended(time, at) /\ generated' = Extended(generated, new.new)
  BY DEF Index, KernelInv
<1>2. last \in Block /\ generated[last] /\ \A a \in Block : generated[a] => a <= last
  BY LastModifier
<1>3. new.new \in BOOLEAN /\ (new.new => IntervalOf(time[last]) < IntervalOf(at))
  <2>1. IntervalOf(time[last]) \in Int /\ IntervalOf(at) \in Int
    BY <1>2, IntervalOrder DEF KernelInv
  <2>2. \/ new.new = FALSE
        \/ /\ new.new = TRUE
           /\ ~(IntervalOf(time[last]) >= IntervalOf(at))
    BY Zenon DEF ComputeNextStakeModifier
  <2> HIDE DEF new, last
  <2>3. ~(IntervalOf(time[last]) >= IntervalOf(at)) => IntervalOf(time[last]) < IntervalOf(at)
    BY <2>1
  <2> QED BY <2>2, <2>3, Zenon
<1> HIDE DEF new, last
<1>4. /\ Block' = 0..(height + 1) /\ Block = 0..height
      /\ time' = [b \in 0..(height + 1) |-> IF b \in Block THEN time[b] ELSE at]
      /\ generated' = [b \in 0..(height + 1) |-> IF b \in Block THEN generated[b] ELSE new.new]
  BY <1>1 DEF Block, Extended
<1>5. /\ time' \in [Block' -> Int] /\ generated' \in [Block' -> BOOLEAN]
      /\ \A b \in Block : time'[b] = time[b] /\ generated'[b] = generated[b]
      /\ time'[height + 1] = at /\ generated'[height + 1] = new.new
  BY <1>1, <1>3, <1>4 DEF KernelInv
<1>6. generated'[Genesis]
  BY <1>1, <1>4, <1>5 DEF KernelInv, Genesis
<1>7. OnePerInterval'
  <2> SUFFICES ASSUME NEW a \in Block', NEW b \in Block', a < b, generated'[a], generated'[b]
               PROVE  IntervalOf(time'[a]) < IntervalOf(time'[b])
    BY DEF OnePerInterval, IntervalOf
  <2>1. a \in Block
    BY <1>1, <1>4
  <2>2. CASE b \in Block
    BY <1>5, <2>1, <2>2 DEF KernelInv, OnePerInterval
  <2>3. CASE b \notin Block
    <3>1. b = height + 1
      BY <1>1, <1>4, <2>3
    <3>2. IntervalOf(time[last]) < IntervalOf(at) /\ a <= last
      BY <1>2, <1>3, <1>5, <2>1, <3>1
    <3>3. /\ IntervalOf(time[a]) \in Int /\ IntervalOf(time[last]) \in Int /\ IntervalOf(at) \in Int
      BY <1>2, <2>1, IntervalOrder DEF KernelInv
    <3>4. a = last \/ a < last
      BY <1>1, <1>2, <1>4, <2>1, <3>2
    <3>5. a = last \/ IntervalOf(time[a]) < IntervalOf(time[last])
      BY <1>2, <1>5, <2>1, <3>4 DEF KernelInv, OnePerInterval
    <3> QED BY <1>5, <2>1, <3>1, <3>2, <3>3, <3>5
  <2> QED BY <2>2, <2>3
<1> QED BY <1>1, <1>5, <1>6, <1>7 DEF KernelInv

\* KernelInv holds in every reachable state.
LEMMA KernelAlways == KernelSpec => []KernelInv
<1>1. KernelInit => KernelInv
  <2> SUFFICES ASSUME KernelInit PROVE KernelInv
    OBVIOUS
  <2>1. height = 0 /\ Block = {0} /\ time = [b \in {0} |-> 0] /\ generated = [b \in {0} |-> TRUE]
    BY DEF KernelInit, Block
  <2> QED BY <2>1 DEF KernelInv, OnePerInterval, Genesis
<1>2. KernelInv /\ [KernelNext]_kernelVars => KernelInv'
  <2> SUFFICES ASSUME KernelInv, [KernelNext]_kernelVars PROVE KernelInv'
    OBVIOUS
  <2>1. CASE UNCHANGED kernelVars
    BY <2>1 DEF kernelVars, KernelInv, OnePerInterval, Block, IntervalOf
  <2>2. ASSUME NEW d \in Delays,
               \/ AcceptWork(time[height] + d)
               \/ \E from \in Block : AcceptStake(time[height] + d, from)
        PROVE  KernelInv'
    <3>1. time[height] + d \in Int
      BY KernelAssumption DEF KernelInv, Block
    <3>2. PICK pos \in BOOLEAN : Index(time[height] + d, pos)
      BY <2>2, Zenon DEF AcceptWork, AcceptStake
    <3> QED BY <3>1, <3>2, IndexKeepsInv
  <2> QED BY <2>1, <2>2 DEF KernelNext
<1> QED BY <1>1, <1>2, PTL DEF KernelSpec

-----------------------------------------------------------------------------
(* Theorems.                                                               *)

\* No two blocks of a chain generate a modifier in the same interval, and a later
\* one lies in a later interval, although a timestamp may lie before that of the
\* parent: from protocol 0.4 on ComputeNextStakeModifier looks at the timestamp of
\* the block itself too.
THEOREM ModifiersOnePerInterval == KernelSpec => []OnePerInterval
<1>1. KernelInv => OnePerInterval
  BY DEF KernelInv
<1> QED BY <1>1, KernelAlways, PTL

\* GetKernelStakeModifierV05 goes back by height and stops at the first block that is
\* old enough; what it finds is the latest in time of all the modifiers that are.
THEOREM KernelModifierIsLatest == KernelSpec => []KernelModifierLatest
<1>1. KernelInv => KernelModifierLatest
  <2> SUFFICES ASSUME KernelInv, NEW prev \in Block, NEW nTimeTx \in 0..(time[prev] + nStakeMinAge),
                      GetKernelStakeModifierV05(prev, nTimeTx) # Fail,
                      NEW b \in 0..(prev - 1), generated[b],
                      time[b] <= nTimeTx - nStakeMinAge + GetStakeModifierSelectionInterval
               PROVE  time[b] <= time[GetKernelStakeModifierV05(prev, nTimeTx)]
    BY Zenon DEF KernelModifierLatest
  <2> DEFINE limit == nTimeTx - nStakeMinAge + GetStakeModifierSelectionInterval
             old == {x \in 0..(prev - 1) : generated[x] /\ time[x] <= limit}
             p == GetKernelStakeModifierV05(prev, nTimeTx)
  <2>1. b \in old /\ time[b] <= limit
    OBVIOUS
  <2>2. p = Max(old)
    BY Zenon DEF GetKernelStakeModifierV05
  <2>3. old \in SUBSET (0..(prev - 1)) /\ old # {} /\ prev - 1 \in Int
    <3>1. old \subseteq 0..(prev - 1) /\ old # {}
      BY <2>1, Zenon
    <3> HIDE DEF old
    <3> QED BY <3>1 DEF Block, KernelInv
  <2>4. \A x \in old : x \in 0..(prev - 1) /\ generated[x]
    OBVIOUS
  <2> HIDE DEF old, limit, p
  <2>5. p \in old /\ b <= p
    BY <2>1, <2>2, <2>3, HighestBlock
  <2>6. b \in Block /\ p \in Block /\ generated[p] /\ time[b] \in Int /\ time[p] \in Int
    BY <2>4, <2>5 DEF Block, KernelInv
  <2>7. b = p \/ b < p
    BY <2>5, <2>6 DEF Block
  <2>8. b = p \/ time[b] < time[p]
    BY <2>6, <2>7, IntervalOrder DEF KernelInv, OnePerInterval
  <2>9. time[b] <= time[p]
    BY <2>6, <2>8
  <2> QED BY <2>9 DEF p
<1> QED BY <1>1, KernelAlways, PTL

-----------------------------------------------------------------------------
(* The order of the candidates and one exchange of neighbours.             *)

\* What the sort needs of the state: every block has a timestamp and a hash.
TimesOK ==
    /\ height \in Nat /\ time \in [Block -> Int]
    /\ \A b \in Block : BlockHash[b] \in Nat
    /\ \A a, b \in Block : BlockHash[a] = BlockHash[b] => a = b

\* Earlier is a total order of the blocks.
LEMMA EarlierTotal ==
    ASSUME TimesOK, NEW a \in Block, NEW b \in Block
    PROVE  /\ Earlier(a, b) \/ Earlier(b, a)
           /\ Earlier(a, a)
           /\ Earlier(a, b) /\ Earlier(b, a) => a = b
           /\ Earlier(a, b) => time[a] <= time[b]
           /\ Earlier(a, b) \in BOOLEAN
<1>1. time[a] \in Int /\ time[b] \in Int /\ BlockHash[a] \in Nat /\ BlockHash[b] \in Nat
      /\ (BlockHash[a] = BlockHash[b] => a = b)
  BY DEF TimesOK
<1> QED BY <1>1 DEF Earlier

\* It is transitive.
LEMMA EarlierTransitive ==
    ASSUME TimesOK, NEW a \in Block, NEW b \in Block, NEW c \in Block, Earlier(a, b), Earlier(b, c)
    PROVE  Earlier(a, c)
<1>1. time[a] \in Int /\ time[b] \in Int /\ time[c] \in Int
      /\ BlockHash[a] \in Nat /\ BlockHash[b] \in Nat /\ BlockHash[c] \in Nat
  BY DEF TimesOK
<1> QED BY <1>1 DEF Earlier

\* The position from which Swapped takes what it puts at i
From(pos, i) == IF i = pos THEN pos + 1 ELSE IF i = pos + 1 THEN pos ELSE i

\* Swapped exchanges two neighbours.
LEMMA SwappedIs ==
    ASSUME NEW v \in Seq(Block), NEW pos \in 1..(Len(v) - 1)
    PROVE  /\ Swapped(v, pos) \in Seq(Block) /\ Len(Swapped(v, pos)) = Len(v)
           /\ \A i \in 1..Len(v) : From(pos, i) \in 1..Len(v) /\ Swapped(v, pos)[i] = v[From(pos, i)]
           /\ \A i \in 1..Len(v) : From(pos, From(pos, i)) = i
<1> DEFINE n == Len(v)
           w == Swapped(v, pos)
<1>1. n \in Nat /\ pos \in Int /\ 1 <= pos /\ pos + 1 <= n /\ \A i \in 1..n : v[i] \in Block
  OBVIOUS
<1>2. w = [i \in 1..n |-> v[From(pos, i)]]
  BY DEF Swapped, From
<1> HIDE DEF n, w
<1>3. \A i \in 1..n : From(pos, i) \in 1..n /\ From(pos, From(pos, i)) = i
  BY <1>1 DEF From
<1>4. w \in [1..n -> Block]
  BY <1>1, <1>2, <1>3
<1>5. w \in Seq(Block) /\ Len(w) = n
  BY <1>1, <1>4
<1> QED BY <1>2, <1>3, <1>5 DEF n, w

\* The pairs of positions in the wrong order.  An exchange takes one away.
Inversions(v) == {p \in (1..Len(v)) \X (1..Len(v)) : p[1] < p[2] /\ ~Earlier(v[p[1]], v[p[2]])}
Disorder(v) == Cardinality(Inversions(v))

\* There are finitely many inversions.
LEMMA DisorderFinite ==
    ASSUME NEW v \in Seq(Block)
    PROVE  IsFiniteSet(Inversions(v)) /\ Disorder(v) \in Nat
<1> DEFINE D == (1..Len(v)) \X (1..Len(v))
<1>1. IsFiniteSet(1..Len(v))
  <2>1. Len(v) \in Nat
    OBVIOUS
  <2> QED BY <2>1, FS_Interval
<1>2. IsFiniteSet(D)
  BY <1>1, FS_Product
<1>3. Inversions(v) \in SUBSET D
  BY DEF Inversions
<1>4. IsFiniteSet(Inversions(v))
  <2> HIDE DEF D
  <2> QED BY <1>2, <1>3, FS_Subset
<1> QED BY <1>4, FS_CardinalityType DEF Disorder

\* An exchange of neighbours in the wrong order leaves fewer inversions.
LEMMA SwappedLess ==
    ASSUME TimesOK, NEW v \in Seq(Block), NEW pos \in 1..(Len(v) - 1), ~Earlier(v[pos], v[pos + 1])
    PROVE  Disorder(Swapped(v, pos)) < Disorder(v)
<1> DEFINE n == Len(v)
           w == Swapped(v, pos)
           R == Inversions(v) \ {<<pos, pos + 1>>}
           g == [p \in Inversions(w) |-> <<From(pos, p[1]), From(pos, p[2])>>]
<1>1. /\ w \in Seq(Block) /\ Len(w) = n
      /\ \A i \in 1..n : From(pos, i) \in 1..n /\ w[i] = v[From(pos, i)] /\ From(pos, From(pos, i)) = i
  BY SwappedIs
<1>2. n \in Nat /\ pos \in Int /\ 1 <= pos /\ pos + 1 <= n /\ \A i \in 1..n : v[i] \in Block
  OBVIOUS
<1>3. Earlier(v[pos + 1], v[pos])
  <2>1. v[pos] \in Block /\ v[pos + 1] \in Block
    BY <1>2
  <2> QED BY <2>1, EarlierTotal
<1> HIDE DEF n, w
<1>4. ASSUME NEW p \in Inversions(w)
      PROVE  /\ p[1] \in 1..n /\ p[2] \in 1..n /\ p = <<p[1], p[2]>> /\ p[1] < p[2]
             /\ ~Earlier(v[From(pos, p[1])], v[From(pos, p[2])])
  <2>1. /\ p[1] \in 1..n /\ p[2] \in 1..n /\ p = <<p[1], p[2]>> /\ p[1] < p[2]
        /\ ~Earlier(w[p[1]], w[p[2]])
    BY <1>1 DEF Inversions
  <2> QED BY <1>1, <2>1
<1>5. ASSUME NEW i \in 1..n, NEW j \in 1..n, i < j, ~Earlier(v[From(pos, i)], v[From(pos, j)])
      PROVE  <<From(pos, i), From(pos, j)>> \in R
  <2>1. ~(i = pos /\ j = pos + 1)
    <3> SUFFICES ASSUME i = pos, j = pos + 1 PROVE FALSE
      OBVIOUS
    <3>1. From(pos, i) = pos + 1 /\ From(pos, j) = pos
      BY <1>2 DEF From
    <3> QED BY <1>3, <1>5, <3>1
  <2>2. From(pos, i) < From(pos, j) /\ ~(From(pos, i) = pos /\ From(pos, j) = pos + 1)
    BY <1>2, <1>5, <2>1 DEF From
  <2>3. From(pos, i) \in 1..n /\ From(pos, j) \in 1..n
    BY <1>1
  <2>4. <<From(pos, i), From(pos, j)>> \in Inversions(v)
    BY <1>5, <2>2, <2>3 DEF Inversions, n
  <2> QED BY <2>2, <2>4
<1>6. g \in [Inversions(w) -> R]
  <2> HIDE DEF R
  <2> QED BY <1>4, <1>5
<1>7. \A p, q \in Inversions(w) : g[p] = g[q] => p = q
  <2> SUFFICES ASSUME NEW p \in Inversions(w), NEW q \in Inversions(w), g[p] = g[q] PROVE p = q
    OBVIOUS
  <2>1. From(pos, p[1]) = From(pos, q[1]) /\ From(pos, p[2]) = From(pos, q[2])
    OBVIOUS
  <2>2. p[1] = q[1] /\ p[2] = q[2]
    BY <1>1, <1>4, <2>1
  <2> QED BY <1>4, <2>2
<1>8. g \in Injection(Inversions(w), R)
  <2> HIDE DEF g, R
  <2> QED BY <1>6, <1>7 DEF Injection, IsInjective
<1>9. <<pos, pos + 1>> \in Inversions(v)
  BY <1>2 DEF Inversions, n
<1>10. IsFiniteSet(R) /\ Cardinality(R) = Disorder(v) - 1 /\ Disorder(v) \in Nat
  BY <1>9, DisorderFinite, FS_RemoveElement DEF Disorder
<1>11. Cardinality(Inversions(w)) <= Cardinality(R)
  <2> HIDE DEF g, R
  <2> QED BY <1>8, <1>10, FS_Injection
<1>12. Disorder(w) \in Nat /\ Disorder(w) <= Disorder(v) - 1
  <2>1. Disorder(w) \in Nat
    BY <1>1, DisorderFinite
  <2> HIDE DEF R
  <2> QED BY <1>10, <1>11, <2>1 DEF Disorder
<1> QED BY <1>10, <1>12 DEF w

-----------------------------------------------------------------------------
(* SwapSort.  It calls itself on what it returns; every call has less      *)
(* disorder, so that the recursion has a solution.                         *)

SwapBody(f, v, pos) ==
    IF pos \notin 1..(Len(v) - 1) \/ Earlier(v[pos], v[pos + 1]) THEN v
    ELSE f[f[Swapped(v, pos)][pos - 1]][pos + 1]

Low(k) == {v \in Seq(Block) : Disorder(v) < k}

\* f sorts the sequences with less than k inversions.
SwapsUpTo(f, k) ==
    /\ f \in [Low(k) -> [Nat -> Seq(Block)]]
    /\ \A v \in Low(k) : \A pos \in Nat :
           f[v][pos] = SwapBody(f, v, pos) /\ Disorder(f[v][pos]) <= Disorder(v)

\* Every non-empty set of natural numbers has a least element.
LEMMA LeastNumber ==
    ASSUME NEW T \in SUBSET Nat, T # {}
    PROVE  \E n \in T : \A k \in T : n <= k
<1>0. IsWellFoundedOn(OpToRel(<, Nat), Nat)
  BY NatLessThanWellFounded
<1>1. PICK n \in T : \A k \in T : ~(<<k, n>> \in OpToRel(<, Nat))
  BY <1>0, WFMin
<1>2. \A k \in T : ~(k < n)
  BY <1>1 DEF OpToRel
<1>3. ASSUME NEW k \in T PROVE n <= k
  <2>1. k \in Nat /\ n \in Nat /\ ~(k < n)
    BY <1>2
  <2> QED BY <2>1
<1> QED BY <1>3

\* The two calls of a sequence with up to k inversions
LEMMA CallsLow ==
    ASSUME TimesOK, NEW k \in Nat, NEW f, SwapsUpTo(f, k), NEW v \in Low(k + 1), NEW pos \in Nat,
           pos \in 1..(Len(v) - 1), ~Earlier(v[pos], v[pos + 1])
    PROVE  LET s == Swapped(v, pos)
               r == f[s][pos - 1]
           IN  /\ s \in Low(k) /\ pos - 1 \in Nat /\ pos + 1 \in Nat
               /\ Disorder(s) < Disorder(v)
               /\ r \in Low(k) /\ Disorder(r) <= Disorder(s)
<1> DEFINE s == Swapped(v, pos)
           r == f[s][pos - 1]
<1>1. v \in Seq(Block) /\ Disorder(v) < k + 1 /\ Disorder(v) \in Nat
  BY DisorderFinite DEF Low
<1>2. s \in Seq(Block) /\ Disorder(s) < Disorder(v)
  BY <1>1, SwappedIs, SwappedLess
<1>3. Disorder(s) \in Nat
  BY <1>2, DisorderFinite
<1> HIDE DEF s
<1>4. s \in Low(k) /\ pos - 1 \in Nat /\ pos + 1 \in Nat
  BY <1>1, <1>2, <1>3 DEF Low
<1>5. r \in Seq(Block) /\ Disorder(r) <= Disorder(s)
  BY <1>4 DEF SwapsUpTo
<1>6. Disorder(r) \in Nat
  BY <1>5, DisorderFinite
<1>7. r \in Low(k)
  BY <1>1, <1>2, <1>3, <1>5, <1>6 DEF Low
<1> QED BY <1>2, <1>4, <1>5, <1>7 DEF s

\* What SwapBody returns then
LEMMA BodyLow ==
    ASSUME TimesOK, NEW k \in Nat, NEW f, SwapsUpTo(f, k), NEW v \in Low(k + 1), NEW pos \in Nat
    PROVE  SwapBody(f, v, pos) \in Seq(Block) /\ Disorder(SwapBody(f, v, pos)) <= Disorder(v)
<1>1. v \in Seq(Block) /\ Disorder(v) \in Nat
  BY DisorderFinite DEF Low
<1>2. CASE pos \notin 1..(Len(v) - 1) \/ Earlier(v[pos], v[pos + 1])
  BY <1>1, <1>2 DEF SwapBody
<1>3. CASE ~(pos \notin 1..(Len(v) - 1) \/ Earlier(v[pos], v[pos + 1]))
  <2> DEFINE s == Swapped(v, pos)
             r == f[s][pos - 1]
             w == f[r][pos + 1]
  <2>1. /\ s \in Low(k) /\ pos - 1 \in Nat /\ pos + 1 \in Nat
        /\ Disorder(s) < Disorder(v)
        /\ r \in Low(k) /\ Disorder(r) <= Disorder(s)
    BY <1>3, CallsLow
  <2>2. SwapBody(f, v, pos) = w
    BY <1>3 DEF SwapBody
  <2> HIDE DEF s, r
  <2>3. w \in Seq(Block) /\ Disorder(w) <= Disorder(r)
    BY <2>1 DEF SwapsUpTo
  <2>4. Disorder(w) \in Nat /\ Disorder(r) \in Nat /\ Disorder(s) \in Nat
    BY <2>1, <2>3, DisorderFinite DEF Low
  <2> QED BY <1>1, <2>1, <2>2, <2>3, <2>4
<1> QED BY <1>2, <1>3

\* One more inversion
LEMMA SwapsNext ==
    ASSUME TimesOK, NEW k \in Nat, NEW f, SwapsUpTo(f, k)
    PROVE  \E g : SwapsUpTo(g, k + 1)
<1> DEFINE g == [v \in Low(k + 1) |-> [pos \in Nat |-> SwapBody(f, v, pos)]]
<1>1. g \in [Low(k + 1) -> [Nat -> Seq(Block)]]
  BY BodyLow
<1>2. \A v \in Low(k + 1) : \A pos \in Nat : g[v][pos] = SwapBody(f, v, pos)
  OBVIOUS
<1> HIDE DEF g
<1>3. ASSUME NEW v \in Low(k) PROVE v \in Low(k + 1) /\ \A pos \in Nat : g[v][pos] = f[v][pos]
  <2>1. v \in Seq(Block) /\ Disorder(v) \in Nat /\ Disorder(v) < k
    BY DisorderFinite DEF Low
  <2>2. v \in Low(k + 1)
    BY <2>1 DEF Low
  <2> QED BY <1>2, <2>2 DEF SwapsUpTo
<1>4. ASSUME NEW v \in Low(k + 1), NEW pos \in Nat
      PROVE  SwapBody(g, v, pos) = SwapBody(f, v, pos)
  <2>1. CASE pos \notin 1..(Len(v) - 1) \/ Earlier(v[pos], v[pos + 1])
    BY <2>1 DEF SwapBody
  <2>2. CASE ~(pos \notin 1..(Len(v) - 1) \/ Earlier(v[pos], v[pos + 1]))
    <3> DEFINE s == Swapped(v, pos)
               r == f[s][pos - 1]
    <3>1. s \in Low(k) /\ pos - 1 \in Nat /\ pos + 1 \in Nat /\ r \in Low(k)
      BY <2>2, CallsLow
    <3>2. SwapBody(f, v, pos) = f[r][pos + 1] /\ SwapBody(g, v, pos) = g[g[s][pos - 1]][pos + 1]
      BY <2>2 DEF SwapBody
    <3>3. g[s][pos - 1] = r
      BY <1>3, <3>1
    <3> HIDE DEF s, r
    <3> QED BY <1>3, <3>1, <3>2, <3>3
  <2> QED BY <2>1, <2>2
<1>5. SwapsUpTo(g, k + 1)
  BY <1>1, <1>2, <1>4, BodyLow DEF SwapsUpTo
<1> QED BY <1>5

\* So there is a solution for any number of inversions.
LEMMA SwapsExist ==
    ASSUME TimesOK, NEW k \in Nat
    PROVE  \E f : SwapsUpTo(f, k)
<1> DEFINE T == {n \in Nat : ~\E f : SwapsUpTo(f, n)}
<1>1. SUFFICES ASSUME T # {} PROVE FALSE
  OBVIOUS
<1>2. PICK n \in T : \A m \in T : n <= m
  <2>1. T \in SUBSET Nat
    OBVIOUS
  <2> HIDE DEF T
  <2> QED BY <1>1, <2>1, LeastNumber
<1>3. n \in Nat /\ ~\E f : SwapsUpTo(f, n)
  BY <1>2
<1>4. CASE n = 0
  <2>1. Low(0) = {}
    <3> SUFFICES ASSUME NEW v \in Low(0) PROVE FALSE
      OBVIOUS
    <3>1. Disorder(v) \in Nat /\ Disorder(v) < 0
      BY DisorderFinite DEF Low
    <3> QED BY <3>1
  <2> DEFINE f == [v \in {} |-> 0]
  <2>2. f \in [{} -> [Nat -> Seq(Block)]]
    OBVIOUS
  <2>3. SwapsUpTo(f, 0)
    <3> HIDE DEF f
    <3> QED BY <2>1, <2>2 DEF SwapsUpTo
  <2> QED BY <1>3, <1>4, <2>3
<1>5. CASE n # 0
  <2>1. n - 1 \in Nat /\ ~(n <= n - 1) /\ (n - 1) + 1 = n
    BY <1>3, <1>5
  <2>2. n - 1 \notin T
    <3> HIDE DEF T
    <3> QED BY <1>2, <2>1
  <2>3. PICK f : SwapsUpTo(f, n - 1)
    BY <2>1, <2>2
  <2>4. \E g : SwapsUpTo(g, (n - 1) + 1)
    BY <2>1, <2>3, SwapsNext
  <2> QED BY <1>3, <2>1, <2>4
<1> QED BY <1>4, <1>5

\* Two solutions agree where both are defined.
LEMMA SwapsAgree ==
    ASSUME TimesOK, NEW j \in Nat, NEW k \in Nat, NEW f, SwapsUpTo(f, j), NEW g, SwapsUpTo(g, k),
           NEW v \in Low(j), v \in Low(k), NEW pos \in Nat
    PROVE  f[v][pos] = g[v][pos]
<1> DEFINE Bad == {u \in Low(j) \cap Low(k) : \E p \in Nat : f[u][p] # g[u][p]}
           T == {Disorder(u) : u \in Bad}
<1>1. SUFFICES ASSUME T # {} PROVE FALSE
  <2>1. Bad = {}
    <3> HIDE DEF Bad
    <3> QED BY <1>1
  <2> QED BY <2>1
<1>2. PICK u \in Bad : \A x \in Bad : Disorder(u) <= Disorder(x)
  <2>1. T \in SUBSET Nat
    BY DisorderFinite DEF Low
  <2>2. PICK n \in T : \A m \in T : n <= m
    <3> HIDE DEF T
    <3> QED BY <1>1, <2>1, LeastNumber
  <2>3. PICK u \in Bad : n = Disorder(u)
    <3> HIDE DEF Bad
    <3> QED BY <2>2
  <2> HIDE DEF Bad
  <2> QED BY <2>2, <2>3
<1>3. u \in Low(j) /\ u \in Low(k)
  BY <1>2
<1>4. PICK p \in Nat : f[u][p] # g[u][p]
  BY <1>2
<1>5. ASSUME NEW x \in Low(j), x \in Low(k), Disorder(x) < Disorder(u), NEW q \in Nat
      PROVE  f[x][q] = g[x][q]
  <2>1. Disorder(x) \in Nat /\ Disorder(u) \in Nat
    BY <1>3, DisorderFinite DEF Low
  <2>2. x \notin Bad
    <3> HIDE DEF Bad
    <3> QED BY <1>2, <1>5, <2>1
  <2> QED BY <1>5, <2>2
<1> HIDE DEF Bad, T
<1>6. f[u][p] = SwapBody(f, u, p) /\ g[u][p] = SwapBody(g, u, p)
  BY <1>3 DEF SwapsUpTo
<1>7. CASE p \notin 1..(Len(u) - 1) \/ Earlier(u[p], u[p + 1])
  BY <1>4, <1>6, <1>7 DEF SwapBody
<1>8. CASE ~(p \notin 1..(Len(u) - 1) \/ Earlier(u[p], u[p + 1]))
  <2> DEFINE s == Swapped(u, p)
             r == f[s][p - 1]
             q == g[s][p - 1]
  <2>1. u \in Low(j + 1) /\ u \in Low(k + 1)
    <3>1. u \in Seq(Block) /\ Disorder(u) \in Nat /\ Disorder(u) < j /\ Disorder(u) < k
      BY <1>3, DisorderFinite DEF Low
    <3> QED BY <3>1 DEF Low
  <2>2. /\ s \in Low(j) /\ p - 1 \in Nat /\ p + 1 \in Nat /\ Disorder(s) < Disorder(u)
        /\ r \in Low(j) /\ Disorder(r) <= Disorder(s)
    BY <1>8, <2>1, CallsLow
  <2>3. s \in Low(k) /\ q \in Low(k)
    BY <1>8, <2>1, CallsLow
  <2>4. f[u][p] = f[r][p + 1] /\ g[u][p] = g[q][p + 1]
    BY <1>6, <1>8 DEF SwapBody
  <2>5. r = q
    BY <1>5, <2>2, <2>3
  <2>6. Disorder(r) \in Nat /\ Disorder(s) \in Nat /\ Disorder(u) \in Nat
    BY <1>3, <2>2, DisorderFinite DEF Low
  <2> HIDE DEF s, r, q
  <2>7. Disorder(r) < Disorder(u)
    BY <2>2, <2>6
  <2>8. f[r][p + 1] = g[r][p + 1]
    BY <1>5, <2>2, <2>3, <2>5, <2>7
  <2> QED BY <1>4, <2>4, <2>5, <2>8
<1> QED BY <1>7, <1>8

\* The recursion of SwapSort has a solution, so SwapSort is one.
LEMMA SwapSortIs ==
    ASSUME TimesOK
    PROVE  \A v \in Seq(Block) : \A pos \in Nat : SwapSort[v][pos] = SwapBody(SwapSort, v, pos)
<1> DEFINE Sol(F) == F = [v \in Seq(Block) |-> [pos \in Nat |-> SwapBody(F, v, pos)]]
           S(v) == CHOOSE f : SwapsUpTo(f, Disorder(v) + 1)
           F == [v \in Seq(Block) |-> S(v)[v]]
<1>1. ASSUME NEW v \in Seq(Block)
      PROVE  /\ Disorder(v) \in Nat /\ v \in Low(Disorder(v) + 1) /\ SwapsUpTo(S(v), Disorder(v) + 1)
             /\ F[v] = S(v)[v]
  <2>1. Disorder(v) \in Nat
    BY DisorderFinite
  <2>2. \E f : SwapsUpTo(f, Disorder(v) + 1)
    BY <2>1, SwapsExist
  <2>3. SwapsUpTo(S(v), Disorder(v) + 1)
    BY <2>2
  <2> QED BY <2>1, <2>3 DEF Low
<1>2. DOMAIN F = Seq(Block) /\ F = [v \in Seq(Block) |-> F[v]]
  OBVIOUS
<1> HIDE DEF F, S
<1>3. ASSUME NEW v \in Seq(Block) PROVE F[v] \in [Nat -> Seq(Block)]
  BY <1>1 DEF SwapsUpTo
<1>4. ASSUME NEW v \in Seq(Block), NEW x \in Low(Disorder(v) + 1), NEW q \in Nat
      PROVE  F[x][q] = S(v)[x][q]
  <2>1. x \in Seq(Block)
    BY DEF Low
  <2>2. Disorder(v) + 1 \in Nat /\ Disorder(x) + 1 \in Nat
    BY <1>1, <2>1
  <2> QED BY <1>1, <2>1, <2>2, SwapsAgree
<1>5. ASSUME NEW v \in Seq(Block), NEW pos \in Nat PROVE F[v][pos] = SwapBody(F, v, pos)
  <2> DEFINE k == Disorder(v) + 1
             f == S(v)
  <2>1. k \in Nat /\ v \in Low(k) /\ SwapsUpTo(f, k) /\ F[v][pos] = f[v][pos]
    BY <1>1
  <2>2. \A x \in Low(k) : \A q \in Nat : F[x][q] = f[x][q]
    BY <1>4
  <2>3. v \in Low(k + 1)
    BY <1>1 DEF Low
  <2> HIDE DEF k, f
  <2>4. F[v][pos] = SwapBody(f, v, pos)
    BY <2>1 DEF SwapsUpTo
  <2>5. CASE pos \notin 1..(Len(v) - 1) \/ Earlier(v[pos], v[pos + 1])
    BY <2>4, <2>5 DEF SwapBody
  <2>6. CASE ~(pos \notin 1..(Len(v) - 1) \/ Earlier(v[pos], v[pos + 1]))
    <3> DEFINE s == Swapped(v, pos)
               r == f[s][pos - 1]
    <3>1. s \in Low(k) /\ pos - 1 \in Nat /\ pos + 1 \in Nat /\ r \in Low(k)
      BY <2>1, <2>3, <2>6, CallsLow
    <3>2. SwapBody(f, v, pos) = f[r][pos + 1] /\ SwapBody(F, v, pos) = F[F[s][pos - 1]][pos + 1]
      BY <2>6 DEF SwapBody
    <3>3. F[s][pos - 1] = r
      BY <2>2, <3>1
    <3> HIDE DEF s, r
    <3> QED BY <2>2, <2>4, <3>1, <3>2, <3>3
  <2> QED BY <2>5, <2>6
<1>6. Sol(F)
  <2>1. ASSUME NEW v \in Seq(Block) PROVE F[v] = [pos \in Nat |-> SwapBody(F, v, pos)]
    BY <1>3, <1>5
  <2> QED BY <1>2, <2>1
<1>7. SwapSort = CHOOSE G : Sol(G)
  BY Zenon DEF SwapSort, SwapBody
<1>8. Sol(SwapSort)
  <2>1. \E G : Sol(G)
    BY <1>6
  <2> HIDE DEF Sol
  <2> QED BY <1>7, <2>1, Zenon
<1>9. ASSUME NEW G, Sol(G), NEW v \in Seq(Block), NEW pos \in Nat PROVE G[v][pos] = SwapBody(G, v, pos)
  <2>1. G[v] = [p \in Nat |-> SwapBody(G, v, p)]
    BY <1>9, Zenon
  <2> HIDE DEF Sol
  <2> QED BY <2>1
<1>10. TAKE v \in Seq(Block), pos \in Nat
<1> HIDE DEF Sol
<1> QED BY <1>8, <1>9

\* The first n elements are in order; the one at q is after all before it.
InOrder(v, n) == \A i, j \in 1..Len(v) : i < j /\ j <= n => Earlier(v[i], v[j])
AfterAll(v, q) == \A i \in 1..Len(v) : i < q => Earlier(v[i], v[q])

\* w has the elements of v.
Rearranged(v, w) ==
    /\ w \in Seq(Block) /\ Len(w) = Len(v)
    /\ \A i \in 1..Len(v) : (\E j \in 1..Len(v) : w[j] = v[i]) /\ (\E j \in 1..Len(v) : w[i] = v[j])
    /\ (\A i, j \in 1..Len(v) : v[i] = v[j] => i = j) => (\A i, j \in 1..Len(v) : w[i] = w[j] => i = j)

\* To rearrange twice is to rearrange.
LEMMA RearrangedTwice ==
    ASSUME NEW u, NEW v, NEW w, Rearranged(u, v), Rearranged(v, w)
    PROVE  Rearranged(u, w)
<1> DEFINE n == Len(u)
<1>1. Len(v) = n /\ Len(w) = n /\ w \in Seq(Block)
  BY DEF Rearranged
<1> HIDE DEF n
<1>2. \A i \in 1..n : (\E j \in 1..n : v[j] = u[i]) /\ (\E j \in 1..n : v[i] = u[j])
  BY DEF Rearranged, n
<1>3. \A i \in 1..n : (\E j \in 1..n : w[j] = v[i]) /\ (\E j \in 1..n : w[i] = v[j])
  BY <1>1 DEF Rearranged
<1>4. \A i \in 1..n : (\E j \in 1..n : w[j] = u[i]) /\ (\E j \in 1..n : w[i] = u[j])
  <2> TAKE i \in 1..n
  <2>1. PICK a \in 1..n : v[a] = u[i]
    BY <1>2
  <2>2. PICK b \in 1..n : w[b] = v[a]
    BY <1>3
  <2>3. PICK c \in 1..n : w[i] = v[c]
    BY <1>3
  <2>4. PICK d \in 1..n : v[c] = u[d]
    BY <1>2
  <2> QED BY <2>1, <2>2, <2>3, <2>4
<1>5. (\A i, j \in 1..n : u[i] = u[j] => i = j) => (\A i, j \in 1..n : w[i] = w[j] => i = j)
  <2>1. (\A i, j \in 1..n : u[i] = u[j] => i = j) => (\A i, j \in 1..n : v[i] = v[j] => i = j)
    BY Zenon DEF Rearranged, n
  <2>2. (\A i, j \in 1..n : v[i] = v[j] => i = j) => (\A i, j \in 1..n : w[i] = w[j] => i = j)
    BY <1>1, Zenon DEF Rearranged
  <2> QED BY <2>1, <2>2
<1> QED BY <1>1, <1>4, <1>5, Zenon DEF Rearranged, n

\* An exchange rearranges.
LEMMA SwappedRearranged ==
    ASSUME NEW v \in Seq(Block), NEW pos \in 1..(Len(v) - 1)
    PROVE  Rearranged(v, Swapped(v, pos))
<1> DEFINE w == Swapped(v, pos)
           n == Len(v)
<1>1. /\ w \in Seq(Block) /\ Len(w) = n
      /\ \A i \in 1..n : From(pos, i) \in 1..n /\ w[i] = v[From(pos, i)]
      /\ \A i \in 1..n : From(pos, From(pos, i)) = i
  BY SwappedIs
<1> HIDE DEF w, n
<1>2. ASSUME NEW i \in 1..n PROVE (\E j \in 1..n : w[j] = v[i]) /\ (\E j \in 1..n : w[i] = v[j])
  <2>1. From(pos, i) \in 1..n /\ w[From(pos, i)] = v[i] /\ w[i] = v[From(pos, i)]
    BY <1>1
  <2> QED BY <2>1
<1>3. ASSUME \A i, j \in 1..n : v[i] = v[j] => i = j, NEW i \in 1..n, NEW j \in 1..n, w[i] = w[j]
      PROVE  i = j
  <2>1. From(pos, i) = From(pos, j)
    BY <1>1, <1>3
  <2> QED BY <1>1, <2>1
<1>4. Rearranged(v, w)
  BY <1>1, <1>2, <1>3 DEF Rearranged, n
<1> QED BY <1>4 DEF w

\* What SwapSort does at pos: an element after all before it stays so, and the order
\* of the first pos elements extends to the next.
Inserted(v, pos, w) ==
    /\ Rearranged(v, w) /\ Disorder(w) <= Disorder(v)
    /\ \A q \in (pos + 1)..Len(v) : AfterAll(v, q) => AfterAll(w, q)
    /\ InOrder(v, pos) => InOrder(w, pos + 1)

\* Nothing is done at the ends or where the neighbours are in order.
LEMMA InsertedAtOnce ==
    ASSUME TimesOK, NEW v \in Seq(Block), NEW pos \in Nat,
           pos \notin 1..(Len(v) - 1) \/ Earlier(v[pos], v[pos + 1])
    PROVE  Inserted(v, pos, v)
<1>1. Len(v) \in Nat /\ \A i \in 1..Len(v) : v[i] \in Block
  OBVIOUS
<1>2. Disorder(v) \in Nat
  BY DisorderFinite
<1>3. Rearranged(v, v)
  BY DEF Rearranged
<1>4. ASSUME InOrder(v, pos), NEW i \in 1..Len(v), NEW j \in 1..Len(v), i < j, j <= pos + 1
      PROVE  Earlier(v[i], v[j])
  <2>1. CASE j <= pos
    BY <1>4, <2>1 DEF InOrder
  <2>2. CASE ~(j <= pos)
    <3>1. j = pos + 1 /\ pos \in 1..(Len(v) - 1) /\ pos \in 1..Len(v) /\ i <= pos
      BY <1>1, <1>4, <2>2
    <3>2. Earlier(v[pos], v[j])
      BY <3>1
    <3>3. i = pos \/ Earlier(v[i], v[pos])
      BY <1>4, <3>1 DEF InOrder
    <3>4. v[i] \in Block /\ v[pos] \in Block /\ v[j] \in Block
      BY <1>1, <3>1
    <3>5. CASE i = pos
      BY <3>2, <3>5
    <3>6. CASE Earlier(v[i], v[pos])
      BY <3>2, <3>4, <3>6, EarlierTransitive
    <3> QED BY <3>3, <3>5, <3>6
  <2> QED BY <2>1, <2>2
<1>5. InOrder(v, pos) => InOrder(v, pos + 1)
  BY <1>4 DEF InOrder
<1>6. Disorder(v) <= Disorder(v)
  BY <1>2
<1> QED BY <1>3, <1>5, <1>6 DEF Inserted

\* The exchange and the two calls together
LEMMA InsertedBySwap ==
    ASSUME TimesOK, NEW v \in Seq(Block), NEW pos \in 1..(Len(v) - 1), ~Earlier(v[pos], v[pos + 1]),
           NEW r, Inserted(Swapped(v, pos), pos - 1, r), NEW w, Inserted(r, pos + 1, w)
    PROVE  Inserted(v, pos, w)
<1> DEFINE s == Swapped(v, pos)
           n == Len(v)
<1>1. /\ s \in Seq(Block) /\ Len(s) = n
      /\ \A i \in 1..n : From(pos, i) \in 1..n /\ s[i] = v[From(pos, i)]
  BY SwappedIs
<1>2. n \in Nat /\ pos \in Nat /\ 1 <= pos /\ pos + 1 <= n /\ \A i \in 1..n : v[i] \in Block
  OBVIOUS
<1>3. Rearranged(v, s)
  BY SwappedRearranged
<1>4. Disorder(s) < Disorder(v)
  BY SwappedLess
<1> HIDE DEF s
<1>5. Inserted(s, pos - 1, r)
  BY DEF s
<1>6. Rearranged(v, w) /\ Len(r) = n /\ Len(w) = n /\ r \in Seq(Block) /\ w \in Seq(Block)
  <2>1. Rearranged(s, r) /\ Rearranged(r, w)
    BY <1>5 DEF Inserted
  <2>2. Rearranged(v, w)
    BY <1>3, <2>1, RearrangedTwice
  <2> QED BY <1>1, <2>1, <2>2 DEF Rearranged
<1>7. Disorder(w) <= Disorder(v)
  <2>1. Disorder(r) <= Disorder(s) /\ Disorder(w) <= Disorder(r)
    BY <1>5 DEF Inserted
  <2>2. Disorder(r) \in Nat /\ Disorder(s) \in Nat /\ Disorder(w) \in Nat /\ Disorder(v) \in Nat
    BY <1>1, <1>6, DisorderFinite
  <2> QED BY <1>4, <2>1, <2>2
<1>8. Earlier(v[pos + 1], v[pos])
  <2>1. v[pos] \in Block /\ v[pos + 1] \in Block
    BY <1>2
  <2> QED BY <2>1, EarlierTotal
<1>9. s[pos] = v[pos + 1] /\ s[pos + 1] = v[pos] /\ \A i \in 1..n : i # pos /\ i # pos + 1 => s[i] = v[i]
  BY <1>1, <1>2 DEF From
<1>10. ASSUME NEW q \in (pos + 1)..n, AfterAll(v, q) PROVE AfterAll(w, q)
  <2>1. q # pos + 1
    <3>1. pos \in 1..n /\ pos < pos + 1
      BY <1>2
    <3> QED BY <1>10, <3>1 DEF AfterAll, n
  <2>2. q \in Int /\ pos + 2 <= q /\ q <= n /\ q \in pos..n /\ q \in (pos + 2)..n
    BY <1>2, <2>1
  <2>3. AfterAll(s, q)
    <3> SUFFICES ASSUME NEW i \in 1..n, i < q PROVE Earlier(s[i], s[q])
      BY <1>1 DEF AfterAll
    <3>1. s[q] = v[q]
      BY <1>2, <1>9, <2>2
    <3>2. From(pos, i) \in 1..n /\ From(pos, i) < q /\ s[i] = v[From(pos, i)]
      <4>1. From(pos, i) < q
        BY <1>2, <2>2 DEF From
      <4> QED BY <1>1, <4>1
    <3> QED BY <1>10, <3>1, <3>2 DEF AfterAll, n
  <2>4. q \in ((pos - 1) + 1)..Len(s)
    BY <1>1, <1>2, <2>2
  <2>5. AfterAll(r, q)
    BY <1>5, <2>3, <2>4 DEF Inserted
  <2>6. q \in ((pos + 1) + 1)..Len(r)
    BY <1>2, <1>6, <2>2
  <2> QED BY <2>5, <2>6 DEF Inserted
<1>11. ASSUME InOrder(v, pos) PROVE InOrder(w, pos + 1)
  <2>1. InOrder(s, pos - 1)
    <3> SUFFICES ASSUME NEW i \in 1..n, NEW j \in 1..n, i < j, j <= pos - 1 PROVE Earlier(s[i], s[j])
      BY <1>1 DEF InOrder
    <3>1. s[i] = v[i] /\ s[j] = v[j] /\ j <= pos
      BY <1>2, <1>9
    <3> QED BY <1>11, <3>1 DEF InOrder, n
  <2>2. AfterAll(s, pos + 1)
    <3> SUFFICES ASSUME NEW i \in 1..n, i < pos + 1 PROVE Earlier(s[i], s[pos + 1])
      BY <1>1 DEF AfterAll
    <3>1. CASE i = pos
      BY <1>8, <1>9, <3>1
    <3>2. CASE i # pos
      <4>1. i < pos /\ s[i] = v[i] /\ pos \in 1..n /\ pos <= pos
        BY <1>2, <1>9, <3>2
      <4> QED BY <1>9, <1>11, <4>1 DEF InOrder, n
    <3> QED BY <3>1, <3>2
  <2>3. pos + 1 \in ((pos - 1) + 1)..Len(s) /\ (pos - 1) + 1 = pos
    BY <1>1, <1>2
  <2>4. InOrder(r, pos) /\ AfterAll(r, pos + 1)
    <3>1. InOrder(r, (pos - 1) + 1) /\ AfterAll(r, pos + 1)
      BY <1>5, <2>1, <2>2, <2>3 DEF Inserted
    <3> QED BY <2>3, <3>1
  <2>5. InOrder(r, pos + 1)
    <3> SUFFICES ASSUME NEW i \in 1..n, NEW j \in 1..n, i < j, j <= pos + 1 PROVE Earlier(r[i], r[j])
      BY <1>6 DEF InOrder
    <3>1. CASE j <= pos
      BY <1>6, <2>4, <3>1 DEF InOrder
    <3>2. CASE ~(j <= pos)
      <4>1. j = pos + 1
        BY <1>2, <3>2
      <4> QED BY <1>6, <2>4, <4>1 DEF AfterAll
    <3> QED BY <3>1, <3>2
  <2>6. InOrder(w, (pos + 1) + 1)
    BY <2>5 DEF Inserted
  <2> SUFFICES ASSUME NEW i \in 1..n, NEW j \in 1..n, i < j, j <= pos + 1 PROVE Earlier(w[i], w[j])
    BY <1>6 DEF InOrder
  <2>7. j <= (pos + 1) + 1
    BY <1>2
  <2> QED BY <1>6, <2>6, <2>7 DEF InOrder
<1> QED BY <1>6, <1>7, <1>10, <1>11 DEF Inserted, n

\* SwapSort inserts, for every sequence and position: the least disordered sequence for
\* which it did not would lead to a less disordered one.
LEMMA SwapSortInserts ==
    ASSUME TimesOK, NEW v \in Seq(Block), NEW pos \in Nat
    PROVE  Inserted(v, pos, SwapSort[v][pos])
<1> DEFINE Bad == {u \in Seq(Block) : \E p \in Nat : ~Inserted(u, p, SwapSort[u][p])}
           T == {Disorder(u) : u \in Bad}
<1>1. SUFFICES ASSUME T # {} PROVE FALSE
  <2>1. Bad = {}
    <3> HIDE DEF Bad
    <3> QED BY <1>1
  <2> QED BY <2>1
<1>2. PICK u \in Bad : \A x \in Bad : Disorder(u) <= Disorder(x)
  <2>1. T \in SUBSET Nat
    BY DisorderFinite
  <2>2. PICK n \in T : \A m \in T : n <= m
    <3> HIDE DEF T
    <3> QED BY <1>1, <2>1, LeastNumber
  <2>3. PICK u \in Bad : n = Disorder(u)
    <3> HIDE DEF Bad
    <3> QED BY <2>2
  <2> HIDE DEF Bad
  <2> QED BY <2>2, <2>3
<1>3. u \in Seq(Block) /\ Disorder(u) \in Nat
  BY <1>2, DisorderFinite
<1>4. PICK p \in Nat : ~Inserted(u, p, SwapSort[u][p])
  BY <1>2
<1>5. ASSUME NEW x \in Seq(Block), Disorder(x) < Disorder(u), NEW q \in Nat
      PROVE  Inserted(x, q, SwapSort[x][q])
  <2>1. Disorder(x) \in Nat
    BY DisorderFinite
  <2>2. x \notin Bad
    <3> HIDE DEF Bad
    <3> QED BY <1>2, <1>3, <1>5, <2>1
  <2> QED BY <2>2
<1> HIDE DEF Bad, T
<1>6. SwapSort[u][p] = SwapBody(SwapSort, u, p)
  BY <1>3, SwapSortIs
<1>7. CASE p \notin 1..(Len(u) - 1) \/ Earlier(u[p], u[p + 1])
  <2>1. SwapSort[u][p] = u
    BY <1>6, <1>7 DEF SwapBody
  <2>2. Inserted(u, p, u)
    BY <1>3, <1>7, InsertedAtOnce
  <2> QED BY <1>4, <2>1, <2>2
<1>8. CASE ~(p \notin 1..(Len(u) - 1) \/ Earlier(u[p], u[p + 1]))
  <2> DEFINE s == Swapped(u, p)
             r == SwapSort[s][p - 1]
             w == SwapSort[r][p + 1]
  <2>1. SwapSort[u][p] = w
    BY <1>6, <1>8 DEF SwapBody
  <2>2. s \in Seq(Block) /\ Disorder(s) < Disorder(u) /\ p - 1 \in Nat /\ p + 1 \in Nat
    BY <1>3, <1>8, SwappedIs, SwappedLess
  <2> HIDE DEF s
  <2>3. Inserted(s, p - 1, r)
    BY <1>5, <2>2
  <2>4. r \in Seq(Block) /\ Disorder(r) <= Disorder(s)
    BY <2>3 DEF Inserted, Rearranged
  <2>5. Disorder(r) < Disorder(u)
    <3>1. Disorder(r) \in Nat /\ Disorder(s) \in Nat
      BY <2>2, <2>4, DisorderFinite
    <3> QED BY <1>3, <2>2, <2>4, <3>1
  <2> HIDE DEF r
  <2>6. Inserted(r, p + 1, w)
    BY <1>5, <2>2, <2>4, <2>5
  <2>7. Inserted(u, p, w)
    <3> HIDE DEF w
    <3> QED BY <1>3, <1>8, <2>3, <2>6, InsertedBySwap DEF s
  <2> QED BY <1>4, <2>1, <2>7
<1> QED BY <1>7, <1>8

-----------------------------------------------------------------------------
(* Loops.  Their steps are one operator, so that what a loop computes and  *)
(* keeps is proved once.                                                   *)

StepOf(kind, a, u, k) ==
    IF kind = "sections" THEN u + Section(k - 1)
    ELSE IF kind = "sort" THEN SwapSort[u][k]
    ELSE IF kind = "best" THEN Better(a[1], a[2], a[3], u, k)
    ELSE IF kind = "rounds"
    THEN Append(u, SelectBlockFromCandidates(a[1], ToSet(u), a[2] + Sections[k], a[3]))
    ELSE Append(u, BlockOfRound(a[1] \ ToSet(u), a[2] + Sections[k], a[3]))

\* F[k] is the value after k steps.
LoopBody(F, kind, t, a, k) == IF k = 0 THEN t ELSE StepOf(kind, a, F[k - 1], k)
IsLoop(kind, t, a, N, F) == F = [k \in 0..N |-> LoopBody(F, kind, t, a, k)]

\* The recursion of a loop has a solution,
LEMMA LoopExists ==
    ASSUME NEW kind, NEW t, NEW a, NEW N \in Nat
    PROVE  \E F : IsLoop(kind, t, a, N, F)
<1> DEFINE T == {k \in Nat : ~\E F : IsLoop(kind, t, a, k, F)}
<1>1. SUFFICES ASSUME T # {} PROVE FALSE
  OBVIOUS
<1>2. PICK n \in T : \A k \in T : n <= k
  <2>1. T \in SUBSET Nat
    OBVIOUS
  <2> HIDE DEF T
  <2> QED BY <1>1, <2>1, LeastNumber
<1>3. n \in Nat /\ ~\E F : IsLoop(kind, t, a, n, F)
  BY <1>2
<1>4. CASE n = 0
  <2> DEFINE F == [k \in 0..0 |-> t]
  <2>1. \A k \in 0..0 : LoopBody(F, kind, t, a, k) = t
    BY DEF LoopBody
  <2>2. F = [k \in 0..0 |-> LoopBody(F, kind, t, a, k)]
    BY <2>1
  <2> QED BY <1>3, <1>4, <2>2 DEF IsLoop
<1>5. CASE n # 0
  <2>1. n - 1 \in Nat /\ ~(n <= n - 1)
    BY <1>3, <1>5
  <2>2. n - 1 \notin T
    <3> HIDE DEF T
    <3> QED BY <1>2, <2>1
  <2>3. PICK G : IsLoop(kind, t, a, n - 1, G)
    BY <2>1, <2>2
  <2> DEFINE F == [k \in 0..n |-> IF k < n THEN G[k] ELSE LoopBody(G, kind, t, a, n)]
  <2>4. ASSUME NEW k \in 0..n PROVE F[k] = LoopBody(F, kind, t, a, k)
    <3>1. k \in Int /\ n \in Int /\ (k = 0 \/ k - 1 \in 0..(n - 1))
      BY <1>3
    <3>2. k # 0 => k - 1 \in 0..n /\ k - 1 < n /\ F[k - 1] = G[k - 1]
      BY <1>3, <3>1
    <3>3. LoopBody(F, kind, t, a, k) = LoopBody(G, kind, t, a, k)
      <4> HIDE DEF F
      <4> QED BY <3>2 DEF LoopBody
    <3>4. CASE k < n
      <4>1. k \in 0..(n - 1)
        BY <1>3, <3>4
      <4>2. G[k] = LoopBody(G, kind, t, a, k)
        BY <2>3, <4>1 DEF IsLoop
      <4> QED BY <3>3, <3>4, <4>2
    <3>5. CASE k = n
      BY <1>3, <3>3, <3>5
    <3> QED BY <1>3, <3>4, <3>5
  <2>5. F = [k \in 0..n |-> LoopBody(F, kind, t, a, k)]
    <3>1. DOMAIN F = 0..n /\ F = [k \in 0..n |-> F[k]]
      OBVIOUS
    <3> HIDE DEF F
    <3> QED BY <2>4, <3>1
  <2> QED BY <1>3, <2>5 DEF IsLoop
<1> QED BY <1>4, <1>5

(* The block of a round and the blocks of n rounds, by conditions that     *)
(* determine them, over any timestamps tm and kinds ps of the blocks.      *)

EarlierIn(tm, a, b) == tm[a] < tm[b] \/ (tm[a] = tm[b] /\ BlockHash[a] <= BlockHash[b])

HashIn(ps, b, m) == IF ps[b] THEN SelectionHash(b, m) \div PosShift ELSE SelectionHash(b, m)

WinsIn(tm, ps, b, a, m) ==
    HashIn(ps, b, m) < HashIn(ps, a, m) \/ (HashIn(ps, b, m) = HashIn(ps, a, m) /\ EarlierIn(tm, b, a))

IsBest(tm, ps, x, left, stop, m) ==
    /\ x \in left
    /\ (\E b \in left : tm[b] <= stop) =>
           tm[x] <= stop /\ \A a \in left : tm[a] <= stop => WinsIn(tm, ps, x, a, m)
    /\ ~(\E b \in left : tm[b] <= stop) => \A a \in left : EarlierIn(tm, x, a)

IsChoice(tm, ps, s, C, n, start, m) ==
    /\ s \in Seq(C) /\ Len(s) = n
    /\ \A k \in 1..n : IsBest(tm, ps, s[k], C \ {s[j] : j \in 1..(k - 1)}, start + Sections[k], m)

\* What holds after k steps of a loop that begins with t.
Kept(kind, t, a, u, k) ==
    IF kind = "sort" THEN Rearranged(t, u) /\ InOrder(u, k + 1)
    ELSE IF kind = "best"
    THEN /\ u \in a[2] /\ (u <= k \/ u = t)
         /\ \A j \in a[2] : j <= k \/ j = t =>
                \/ HashOf(a[1][u], a[3]) < HashOf(a[1][j], a[3])
                \/ HashOf(a[1][u], a[3]) = HashOf(a[1][j], a[3]) /\ u <= j
    ELSE IF kind = "rounds" THEN IsChoice(time, proofOfStake, u, ToSet(a[1]), k, a[2], a[3])
    ELSE u \in Seq(a[1]) /\ Len(u) = k /\ \A i \in 1..k : u[i] = a[4][i]

\* and what every step keeps holds in the end.
LEMMA LoopKeeps ==
    ASSUME NEW kind, NEW t, NEW a, NEW N \in Nat, NEW F, IsLoop(kind, t, a, N, F),
           Kept(kind, t, a, t, 0),
           \A u : \A k \in 1..N : Kept(kind, t, a, u, k - 1) =>
             Kept(kind, t, a, StepOf(kind, a, u, k), k)
    PROVE  Kept(kind, t, a, F[N], N)
<1> DEFINE T == {k \in 0..N : ~Kept(kind, t, a, F[k], k)}
<1>1. SUFFICES ASSUME T # {} PROVE FALSE
  <2>1. N \in 0..N
    OBVIOUS
  <2> QED BY <2>1
<1>2. PICK n \in T : \A k \in T : n <= k
  <2>1. T \in SUBSET Nat
    OBVIOUS
  <2> HIDE DEF T
  <2> QED BY <1>1, <2>1, LeastNumber
<1>3. n \in 0..N /\ ~Kept(kind, t, a, F[n], n)
  BY <1>2
<1>4. F[n] = LoopBody(F, kind, t, a, n)
  BY <1>3 DEF IsLoop
<1>5. CASE n = 0
  BY <1>3, <1>4, <1>5 DEF LoopBody
<1>6. CASE n # 0
  <2>1. n \in 1..N /\ n - 1 \in 0..N /\ ~(n <= n - 1)
    BY <1>3, <1>6
  <2>2. n - 1 \notin T
    <3> HIDE DEF T
    <3> QED BY <1>2, <2>1
  <2>3. Kept(kind, t, a, F[n - 1], n - 1)
    BY <2>1, <2>2
  <2>4. F[n] = StepOf(kind, a, F[n - 1], n)
    BY <1>4, <1>6 DEF LoopBody
  <2> QED BY <1>3, <2>1, <2>3, <2>4
<1> QED BY <1>5, <1>6

\* The loop over the positions in ComputeNextStakeModifier
LEMMA SortedLoop ==
    ASSUME NEW prev, Len(Candidates(prev)) \in Nat
    PROVE  \E F : IsLoop("sort", Candidates(prev), <<>>, Len(Candidates(prev)), F)
               /\ Sorted(prev) = F[Len(Candidates(prev))]
<1> DEFINE Is(F) == F = [k \in 0..Len(Candidates(prev)) |->
               IF k = 0 THEN Candidates(prev) ELSE SwapSort[F[k - 1]][k]]
           G == CHOOSE F : Is(F)
<1>1. ASSUME NEW F PROVE Is(F) <=> IsLoop("sort", Candidates(prev), <<>>, Len(Candidates(prev)), F)
  <2>1. \A k \in 0..Len(Candidates(prev)) : LoopBody(F, "sort", Candidates(prev), <<>>, k) =
           IF k = 0 THEN Candidates(prev) ELSE SwapSort[F[k - 1]][k]
    BY DEF LoopBody, StepOf
  <2> QED BY <2>1 DEF IsLoop
<1>2. \E F : Is(F)
  <2>1. \E F : IsLoop("sort", Candidates(prev), <<>>, Len(Candidates(prev)), F)
    BY LoopExists
  <2> QED BY <1>1, <2>1
<1>3. Is(G)
  <2> HIDE DEF Is
  <2> QED BY <1>2, Zenon
<1>4. Sorted(prev) = G[Len(Candidates(prev))]
  BY Zenon DEF Sorted
<1> HIDE DEF Is, G
<1> QED BY <1>1, <1>3, <1>4

\* The rounds
LEMMA RoundsLoop ==
    ASSUME NEW v, NEW n \in Nat, NEW start \in Int, NEW m
    PROVE  \E F : IsLoop("rounds", <<>>, <<v, start, m>>, n, F) /\ Selected(v, n, start, m) = F[n]
<1> DEFINE Is(F) == F = [k \in 0..n |->
               IF k = 0 THEN <<>>
               ELSE Append(F[k - 1], SelectBlockFromCandidates(v, ToSet(F[k - 1]), start + Sections[k], m))]
           G == CHOOSE F : Is(F)
<1>1. ASSUME NEW F PROVE Is(F) <=> IsLoop("rounds", <<>>, <<v, start, m>>, n, F)
  <2>1. \A k \in 0..n : LoopBody(F, "rounds", <<>>, <<v, start, m>>, k) =
           IF k = 0 THEN <<>>
           ELSE Append(F[k - 1], SelectBlockFromCandidates(v, ToSet(F[k - 1]), start + Sections[k], m))
    BY DEF LoopBody, StepOf
  <2> QED BY <2>1 DEF IsLoop
<1>2. \E F : Is(F)
  <2>1. \E F : IsLoop("rounds", <<>>, <<v, start, m>>, n, F)
    BY LoopExists
  <2> QED BY <1>1, <2>1
<1>3. Is(G)
  <2> HIDE DEF Is
  <2> QED BY <1>2, Zenon
<1>4. Selected(v, n, start, m) = G[n]
  BY Zenon DEF Selected
<1> HIDE DEF Is, G
<1> QED BY <1>1, <1>3, <1>4

\* The rounds by definition; s is only what they are compared with.
LEMMA ChoiceLoop ==
    ASSUME NEW C, NEW n \in Nat, NEW start, NEW m, NEW s
    PROVE  \E F : IsLoop("choice", <<>>, <<C, start, m, s>>, n, F) /\ Choice(C, n, start, m) = F[n]
<1> DEFINE Is(F) == F = [k \in 0..n |->
               IF k = 0 THEN <<>>
               ELSE Append(F[k - 1], BlockOfRound(C \ ToSet(F[k - 1]), start + Sections[k], m))]
           G == CHOOSE F : Is(F)
<1>1. ASSUME NEW F PROVE Is(F) <=> IsLoop("choice", <<>>, <<C, start, m, s>>, n, F)
  <2>1. \A k \in 0..n : LoopBody(F, "choice", <<>>, <<C, start, m, s>>, k) =
           IF k = 0 THEN <<>>
           ELSE Append(F[k - 1], BlockOfRound(C \ ToSet(F[k - 1]), start + Sections[k], m))
    BY DEF LoopBody, StepOf
  <2> QED BY <2>1 DEF IsLoop
<1>2. \E F : Is(F)
  <2>1. \E F : IsLoop("choice", <<>>, <<C, start, m, s>>, n, F)
    BY LoopExists
  <2> QED BY <1>1, <2>1
<1>3. Is(G)
  <2> HIDE DEF Is
  <2> QED BY <1>2, Zenon
<1>4. Choice(C, n, start, m) = G[n]
  BY Zenon DEF Choice
<1> HIDE DEF Is, G
<1> QED BY <1>1, <1>3, <1>4

\* A section is a number.
LEMMA SectionInt ==
    ASSUME NEW n \in 0..(Rounds - 1)
    PROVE  Section(n) \in Int
<1> DEFINE d == Rounds - 1 - n
           e == Ratio - 1
           p == d * e
           q == nStakeModifierInterval * (Rounds - 1)
<1>1. d \in Nat /\ e \in Nat /\ Rounds - 1 \in Nat /\ Rounds - 1 > 0 /\ nStakeModifierInterval \in Nat
  BY KernelAssumption
<1>2. p \in Nat /\ q \in Nat
  <2> HIDE DEF d, e
  <2> QED BY <1>1
<1>3. Section(n) = q \div ((Rounds - 1) + p)
  BY DEF Section
<1> HIDE DEF p, q
<1>4. (Rounds - 1) + p \in Nat /\ (Rounds - 1) + p > 0
  BY <1>1, <1>2
<1> QED BY <1>2, <1>3, <1>4

\* and so are the sections together.
LEMMA SectionsInt ==
    \A n \in 0..Rounds : Sections[n] \in Int
<1> DEFINE Is(F) == F = [k \in 0..Rounds |-> IF k = 0 THEN 0 ELSE F[k - 1] + Section(k - 1)]
<1>0. Rounds \in Nat
  BY KernelAssumption
<1>1. ASSUME NEW F PROVE Is(F) <=> IsLoop("sections", 0, <<>>, Rounds, F)
  <2>1. \A k \in 0..Rounds : LoopBody(F, "sections", 0, <<>>, k) =
           IF k = 0 THEN 0 ELSE F[k - 1] + Section(k - 1)
    BY DEF LoopBody, StepOf
  <2> QED BY <2>1 DEF IsLoop
<1>2. \E F : Is(F)
  <2>1. \E F : IsLoop("sections", 0, <<>>, Rounds, F)
    BY <1>0, LoopExists
  <2> QED BY <1>1, <2>1
<1>3. Sections = CHOOSE F : Is(F)
  BY Zenon DEF Sections
<1>4. Is(Sections)
  <2> HIDE DEF Is
  <2> QED BY <1>2, <1>3, Zenon
<1> HIDE DEF Is
<1>5. IsLoop("sections", 0, <<>>, Rounds, Sections)
  BY <1>1, <1>4
<1>6. ASSUME NEW n \in 0..Rounds PROVE Sections[n] \in Int
  <2> DEFINE T == {k \in 0..Rounds : Sections[k] \notin Int}
  <2> SUFFICES ASSUME T # {} PROVE FALSE
    OBVIOUS
  <2>1. PICK k \in T : \A j \in T : k <= j
    <3>1. T \in SUBSET Nat
      OBVIOUS
    <3> HIDE DEF T
    <3> QED BY <3>1, LeastNumber
  <2>2. k \in 0..Rounds /\ Sections[k] \notin Int
    BY <2>1
  <2>3. Sections[k] = LoopBody(Sections, "sections", 0, <<>>, k)
    BY <1>5, <2>2 DEF IsLoop
  <2>4. CASE k = 0
    BY <2>2, <2>3, <2>4 DEF LoopBody
  <2>5. CASE k # 0
    <3>1. k - 1 \in 0..Rounds /\ k - 1 \in 0..(Rounds - 1) /\ ~(k <= k - 1)
      BY <1>0, <2>2, <2>5
    <3>2. k - 1 \notin T
      <4> HIDE DEF T
      <4> QED BY <2>1, <3>1
    <3>3. Sections[k - 1] \in Int /\ Section(k - 1) \in Int
      BY <3>1, <3>2, SectionInt
    <3>4. Sections[k] = Sections[k - 1] + Section(k - 1)
      BY <2>3, <2>5 DEF LoopBody, StepOf
    <3> QED BY <2>2, <3>3, <3>4
  <2> QED BY <2>4, <2>5
<1> QED BY <1>6

-----------------------------------------------------------------------------
(* The sorted candidates.                                                  *)

\* The candidates are different blocks.
LEMMA CandidatesOK ==
    ASSUME TimesOK, NEW prev \in Block
    PROVE  LET v == Candidates(prev)
           IN  /\ v \in Seq(Block) /\ v \in Seq(0..prev)
               /\ \A i, j \in 1..Len(v) : v[i] = v[j] => i = j
<1> DEFINE before == {b \in 0..prev : time[b] < IntervalStart(prev)}
           low == IF before = {} THEN 0 ELSE Max(before) + 1
           n == prev - low + 1
           v == Candidates(prev)
<1>1. prev \in Nat /\ height \in Nat /\ prev <= height
  BY DEF TimesOK, Block
<1>2. low \in Nat /\ low <= prev + 1
  <2>1. CASE before = {}
    BY <1>1, <2>1
  <2>2. CASE before # {}
    <3>1. before \in SUBSET (0..prev) /\ prev \in Int
      BY <1>1
    <3>2. Max(before) \in 0..prev
      <4> HIDE DEF before
      <4> QED BY <2>2, <3>1, HighestBlock
    <3> HIDE DEF before
    <3> QED BY <1>1, <2>2, <3>2
  <2> QED BY <2>1, <2>2
<1>3. v = [i \in 1..n |-> low + i - 1]
  BY DEF Candidates
<1> HIDE DEF low, v
<1>4. n \in Nat /\ \A i \in 1..n : low + i - 1 \in 0..prev /\ low + i - 1 \in Block
  BY <1>1, <1>2 DEF Block
<1>5. v \in [1..n -> 0..prev] /\ v \in [1..n -> Block] /\ \A i \in 1..n : v[i] = low + i - 1
  BY <1>3, <1>4
<1>6. v \in Seq(0..prev) /\ v \in Seq(Block) /\ Len(v) = n
  BY <1>4, <1>5
<1>7. \A i, j \in 1..n : v[i] = v[j] => i = j
  BY <1>2, <1>4, <1>5
<1> QED BY <1>6, <1>7 DEF v

\* ToSet lists the elements.
LEMMA Elements ==
    ASSUME NEW S, NEW v \in Seq(S)
    PROVE  ToSet(v) = {v[i] : i \in 1..Len(v)}
BY DEF ToSet

\* The loop over the positions leaves all candidates in order.
LEMMA SortedIs ==
    ASSUME TimesOK, NEW prev \in Block
    PROVE  LET v == Candidates(prev)
               w == Sorted(prev)
           IN  /\ w \in Seq(Block) /\ Len(w) = Len(v) /\ ToSet(w) = ToSet(v)
               /\ \A i, j \in 1..Len(w) : w[i] = w[j] => i = j
               /\ InOrder(w, Len(w))
<1> DEFINE v == Candidates(prev)
           w == Sorted(prev)
           N == Len(v)
<1>1. v \in Seq(Block) /\ N \in Nat /\ \A i, j \in 1..N : v[i] = v[j] => i = j
  BY CandidatesOK
<1>2. PICK F : IsLoop("sort", v, <<>>, N, F) /\ w = F[N]
  BY <1>1, SortedLoop
<1> HIDE DEF v, w
<1>3. Kept("sort", v, <<>>, v, 0)
  <2>1. Rearranged(v, v)
    BY <1>1 DEF Rearranged
  <2>2. InOrder(v, 0 + 1)
    BY <1>1 DEF InOrder
  <2> QED BY <2>1, <2>2 DEF Kept
<1>4. ASSUME NEW u, NEW k \in 1..N, Kept("sort", v, <<>>, u, k - 1)
      PROVE  Kept("sort", v, <<>>, StepOf("sort", <<>>, u, k), k)
  <2>1. Rearranged(v, u) /\ InOrder(u, (k - 1) + 1) /\ (k - 1) + 1 = k /\ k \in Nat
    BY <1>4 DEF Kept
  <2>2. u \in Seq(Block)
    BY <2>1 DEF Rearranged
  <2>3. Inserted(u, k, SwapSort[u][k])
    BY <2>1, <2>2, SwapSortInserts
  <2>4. Rearranged(v, SwapSort[u][k]) /\ InOrder(SwapSort[u][k], k + 1)
    BY <2>1, <2>3, RearrangedTwice DEF Inserted
  <2> QED BY <2>4 DEF Kept, StepOf
<1>5. Kept("sort", v, <<>>, F[N], N)
  BY <1>1, <1>2, <1>3, <1>4, LoopKeeps
<1>6. Rearranged(v, w) /\ InOrder(w, N + 1)
  BY <1>2, <1>5 DEF Kept
<1>7. w \in Seq(Block) /\ Len(w) = N /\ \A i, j \in 1..N : w[i] = w[j] => i = j
  BY <1>1, <1>6, Zenon DEF Rearranged
<1>8. ToSet(w) = ToSet(v)
  <2>1. ToSet(w) = {w[i] : i \in 1..N} /\ ToSet(v) = {v[i] : i \in 1..N}
    BY <1>1, <1>7, Elements
  <2>2. \A i \in 1..N : (\E j \in 1..N : w[j] = v[i]) /\ (\E j \in 1..N : w[i] = v[j])
    BY <1>6 DEF Rearranged
  <2>3. ASSUME NEW x \in ToSet(w) PROVE x \in ToSet(v)
    <3>1. PICK i \in 1..N : x = w[i]
      BY <2>1
    <3>2. PICK j \in 1..N : w[i] = v[j]
      BY <2>2
    <3> QED BY <2>1, <3>1, <3>2
  <2>4. ASSUME NEW x \in ToSet(v) PROVE x \in ToSet(w)
    <3>1. PICK i \in 1..N : x = v[i]
      BY <2>1
    <3>2. PICK j \in 1..N : w[j] = v[i]
      BY <2>2
    <3> QED BY <2>1, <3>1, <3>2
  <2> QED BY <2>3, <2>4
<1>9. InOrder(w, N)
  <2> SUFFICES ASSUME NEW i \in 1..Len(w), NEW j \in 1..Len(w), i < j PROVE Earlier(w[i], w[j])
    BY DEF InOrder
  <2>1. j <= N + 1
    BY <1>1, <1>7
  <2> QED BY <1>6, <2>1 DEF InOrder
<1> QED BY <1>7, <1>8, <1>9 DEF v, w

-----------------------------------------------------------------------------
(* A round.                                                                *)

\* Min finds the least element.
LEMMA LeastMember ==
    ASSUME NEW S \in SUBSET Nat, S # {}
    PROVE  Min(S) \in S /\ \A y \in S : Min(S) <= y
<1>1. \E x \in S : \A y \in S : x <= y
  BY LeastNumber
<1> QED BY <1>1, Zenon DEF Min

\* The loop of SelectBlockFromCandidates over what it reaches
BestOf(v, N, reached, m, t) ==
    LET Best[i \in 0..N] == IF i = 0 THEN t ELSE Better(v, reached, m, Best[i - 1], i)
    IN  Best[N]

\* The recursion has a solution, and BestOf is its last value.
LEMMA BestLoop ==
    ASSUME NEW v, NEW N \in Nat, NEW reached, NEW m, NEW t
    PROVE  \E F : IsLoop("best", t, <<v, reached, m>>, N, F) /\ BestOf(v, N, reached, m, t) = F[N]
<1> DEFINE Is(F) == F = [k \in 0..N |-> IF k = 0 THEN t ELSE Better(v, reached, m, F[k - 1], k)]
           G == CHOOSE F : Is(F)
<1>1. ASSUME NEW F PROVE Is(F) <=> IsLoop("best", t, <<v, reached, m>>, N, F)
  <2>1. \A k \in 0..N : LoopBody(F, "best", t, <<v, reached, m>>, k) =
           IF k = 0 THEN t ELSE Better(v, reached, m, F[k - 1], k)
    BY DEF LoopBody, StepOf
  <2> QED BY <2>1 DEF IsLoop
<1>2. \E F : Is(F)
  <2>1. \E F : IsLoop("best", t, <<v, reached, m>>, N, F)
    BY LoopExists
  <2> QED BY <1>1, <2>1
<1>3. Is(G)
  <2> HIDE DEF Is
  <2> QED BY <1>2, Zenon
<1>4. BestOf(v, N, reached, m, t) = G[N]
  BY Zenon DEF BestOf
<1> HIDE DEF Is, G
<1> QED BY <1>1, <1>3, <1>4

\* finds the first position with the least hash.
LEMMA BestIs ==
    ASSUME NEW v, NEW N \in Nat, NEW reached \in SUBSET (1..N), NEW m, NEW t \in reached,
           \A j \in reached : t <= j,
           \A j \in reached : HashOf(v[j], m) \in Int, NEW F, IsLoop("best", t, <<v, reached, m>>, N, F)
    PROVE  /\ F[N] \in reached
           /\ \A j \in reached : \/ HashOf(v[F[N]], m) < HashOf(v[j], m)
                                 \/ HashOf(v[F[N]], m) = HashOf(v[j], m) /\ F[N] <= j
<1> DEFINE a == <<v, reached, m>>
           H(j) == HashOf(v[j], m)
           Done(u, k) == /\ u \in reached /\ (u <= k \/ u = t)
                         /\ \A j \in reached : j <= k \/ j = t => H(u) < H(j) \/ (H(u) = H(j) /\ u <= j)
<1>0. \A j \in reached : H(j) \in Int /\ j \in Int /\ 1 <= j /\ j <= N /\ t <= j
  OBVIOUS
<1>1. \A u, k : Kept("best", t, a, u, k) <=> Done(u, k)
  BY DEF Kept
<1> HIDE DEF H
<1>2. Kept("best", t, a, t, 0)
  <2>1. Done(t, 0)
    BY <1>0
  <2> QED BY <1>1, <2>1
<1>3. ASSUME NEW u, NEW k \in 1..N, Kept("best", t, a, u, k - 1)
      PROVE  Kept("best", t, a, StepOf("best", a, u, k), k)
  <2>1. Done(u, k - 1)
    BY <1>1, <1>3
  <2>2. StepOf("best", a, u, k) = IF k \in reached /\ H(k) < H(u) THEN k ELSE u
    BY DEF StepOf, Better, H
  <2>3. CASE k \in reached /\ H(k) < H(u)
    <3>1. Done(k, k)
      <4>1. ASSUME NEW j \in reached, j <= k \/ j = t PROVE H(k) < H(j) \/ (H(k) = H(j) /\ k <= j)
        <5>1. CASE j = k
          BY <1>0, <2>3, <5>1
        <5>2. CASE j # k
          <6>1. j <= k - 1 \/ j = t
            BY <1>0, <4>1, <5>2
          <6>2. H(u) < H(j) \/ H(u) = H(j)
            BY <2>1, <6>1
          <6> QED BY <1>0, <2>1, <2>3, <6>2
        <5> QED BY <5>1, <5>2
      <4> QED BY <2>3, <4>1
    <3> QED BY <1>1, <2>2, <2>3, <3>1
  <2>4. CASE ~(k \in reached /\ H(k) < H(u))
    <3>1. Done(u, k)
      <4>1. u \in reached /\ (u <= k \/ u = t)
        BY <1>0, <2>1
      <4>2. ASSUME NEW j \in reached, j <= k \/ j = t PROVE H(u) < H(j) \/ (H(u) = H(j) /\ u <= j)
        <5>1. CASE j <= k - 1 \/ j = t
          BY <2>1, <5>1
        <5>2. CASE ~(j <= k - 1 \/ j = t)
          <6>1. j = k /\ ~(H(k) < H(u)) /\ u <= k
            BY <1>0, <2>4, <4>1, <4>2, <5>2
          <6> QED BY <1>0, <4>1, <6>1
        <5> QED BY <5>1, <5>2
      <4> QED BY <4>1, <4>2
    <3> QED BY <1>1, <2>2, <2>4, <3>1
  <2> QED BY <2>3, <2>4
<1>4. Kept("best", t, a, F[N], N)
  <2> HIDE DEF Done
  <2> QED BY <1>2, <1>3, LoopKeeps
<1>5. Done(F[N], N)
  BY <1>1, <1>4
<1>6. \A j \in reached : H(F[N]) < H(j) \/ (H(F[N]) = H(j) /\ F[N] <= j)
  BY <1>0, <1>5
<1> QED BY <1>5, <1>6 DEF H

\* The round selects the block that its comment defines.
LEMMA RoundIs ==
    ASSUME TimesOK, NEW v \in Seq(Block), InOrder(v, Len(v)), NEW sel, NEW stop \in Int,
           NEW m, \A b \in Block : HashOf(b, m) \in Int,
           NEW left, left = ToSet(v) \ sel, left # {}
    PROVE  IsBest(time, proofOfStake, SelectBlockFromCandidates(v, sel, stop, m), left, stop, m)
<1> DEFINE N == Len(v)
           open == {i \in 1..N : v[i] \notin sel}
           first == Min(open)
           beyond == {i \in open : i # first /\ time[v[i]] > stop}
           reached == {i \in open : \A j \in beyond : i < j}
           x == SelectBlockFromCandidates(v, sel, stop, m)
<1>1. N \in Nat /\ \A i \in 1..N : v[i] \in Block /\ time[v[i]] \in Int
  BY DEF TimesOK
<1>2. left = {v[i] : i \in open}
  <2>1. ToSet(v) = {v[i] : i \in 1..N}
    BY Elements
  <2> QED BY <2>1
<1>3. open \in SUBSET (1..N) /\ open \in SUBSET Nat /\ open # {}
  <2>1. open # {}
    <3> HIDE DEF open
    <3> QED BY <1>2
  <2> QED BY <1>1, <2>1
<1>4. first \in open /\ \A i \in open : first <= i
  <2> HIDE DEF open
  <2> QED BY <1>3, LeastMember
<1>5. \A i, j \in open : i <= j => Earlier(v[i], v[j]) /\ time[v[i]] <= time[v[j]]
  <2> SUFFICES ASSUME NEW i \in open, NEW j \in open, i <= j
               PROVE  Earlier(v[i], v[j]) /\ time[v[i]] <= time[v[j]]
    OBVIOUS
  <2>1. i \in 1..N /\ j \in 1..N /\ v[i] \in Block /\ v[j] \in Block
    BY <1>1
  <2>2. Earlier(v[i], v[j])
    <3>1. CASE i = j
      BY <2>1, <3>1, EarlierTotal
    <3>2. CASE i # j
      <4>1. i < j /\ j <= N
        BY <1>1, <2>1, <3>2
      <4> QED BY <2>1, <4>1 DEF InOrder
    <3> QED BY <3>1, <3>2
  <2> QED BY <2>1, <2>2, EarlierTotal
<1>6. PICK F : IsLoop("best", first, <<v, reached, m>>, N, F) /\ x = v[F[N]]
  <2>1. x = v[BestOf(v, N, reached, m, first)]
    BY Zenon DEF SelectBlockFromCandidates, BestOf
  <2>2. \E F : IsLoop("best", first, <<v, reached, m>>, N, F) /\ BestOf(v, N, reached, m, first) = F[N]
    <3> HIDE DEF reached, first, N
    <3> QED BY <1>1, BestLoop
  <2> HIDE DEF reached, first, x
  <2> QED BY <2>1, <2>2
<1>7. /\ reached \in SUBSET (1..N) /\ reached \in SUBSET open /\ first \in reached
      /\ \A i \in open : i \in reached <=> i = first \/ time[v[i]] <= stop
  <2>1. \A i \in open : i \in Int /\ time[v[i]] \in Int /\ first \in Int /\ first <= i
    <3> HIDE DEF open, first
    <3>1. \A i \in open : i \in 1..N
      BY <1>3
    <3>2. first \in 1..N
      BY <1>4, <3>1
    <3> QED BY <1>1, <1>4, <3>1, <3>2
  <2>2. \A i \in open : i \in beyond <=> i # first /\ ~(time[v[i]] <= stop)
    BY <2>1
  <2>3. beyond \in SUBSET open
    OBVIOUS
  <2>4. \A i \in open : i \in reached <=> \A j \in beyond : i < j
    OBVIOUS
  <2> HIDE DEF beyond
  <2>5. first \in reached
    BY <1>4, <2>1, <2>2, <2>3, <2>4
  <2>6. ASSUME NEW i \in open, i \in reached, i # first PROVE time[v[i]] <= stop
    <3>1. i \notin beyond
      BY <2>1, <2>4, <2>6
    <3> QED BY <2>2, <2>6, <3>1
  <2>7. ASSUME NEW i \in open, time[v[i]] <= stop PROVE i \in reached
    <3> SUFFICES ASSUME NEW j \in beyond PROVE i < j
      BY <2>4
    <3>1. j \in open /\ ~(time[v[j]] <= stop)
      BY <2>2, <2>3
    <3>2. ~(j <= i)
      <4> SUFFICES ASSUME j <= i PROVE FALSE
        OBVIOUS
      <4>1. time[v[j]] <= time[v[i]]
        BY <1>5, <3>1
      <4> HIDE DEF open
      <4> QED BY <2>1, <2>7, <3>1, <4>1
    <3> HIDE DEF open
    <3> QED BY <2>1, <3>1, <3>2
  <2>8. reached \in SUBSET open
    OBVIOUS
  <2> HIDE DEF open, reached, first
  <2> QED BY <1>3, <2>5, <2>6, <2>7, <2>8
<1> HIDE DEF open, first, beyond, reached, x
<1>8. \A j \in reached : v[j] \in Block /\ HashOf(v[j], m) \in Int /\ first <= j
  BY <1>1, <1>4, <1>7
<1>9. /\ F[N] \in reached
      /\ \A j \in reached : \/ HashOf(v[F[N]], m) < HashOf(v[j], m)
                            \/ HashOf(v[F[N]], m) = HashOf(v[j], m) /\ F[N] <= j
  <2> HIDE DEF N
  <2> QED BY <1>1, <1>6, <1>7, <1>8, BestIs
<1>10. PICK p : p = F[N]
  OBVIOUS
<1>11. p \in reached /\ p \in open /\ x = v[p] /\ x \in left
  BY <1>2, <1>6, <1>7, <1>9, <1>10
<1>12. ASSUME \E b \in left : time[b] <= stop
       PROVE  time[x] <= stop /\ \A a \in left : time[a] <= stop => WinsIn(time, proofOfStake, x, a, m)
  <2>1. PICK i \in open : time[v[i]] <= stop
    BY <1>2, <1>12
  <2>2. time[v[first]] <= stop
    <3>1. time[v[first]] <= time[v[i]]
      BY <1>4, <1>5
    <3>2. time[v[first]] \in Int /\ time[v[i]] \in Int
      BY <1>1, <1>3, <1>4
    <3> QED BY <2>1, <3>1, <3>2
  <2>3. time[x] <= stop
    BY <1>7, <1>11, <2>2
  <2>4. ASSUME NEW a \in left, time[a] <= stop PROVE WinsIn(time, proofOfStake, x, a, m)
    <3>1. PICK j \in open : a = v[j]
      BY <1>2
    <3>2. j \in reached
      BY <1>7, <2>4, <3>1
    <3>3. HashOf(x, m) < HashOf(a, m) \/ (HashOf(x, m) = HashOf(a, m) /\ Earlier(x, a))
      BY <1>5, <1>9, <1>10, <1>11, <3>1, <3>2
    <3> QED BY <3>3, Zenon DEF WinsIn, HashIn, HashOf, EarlierIn, Earlier
  <2> QED BY <2>3, <2>4
<1>13. ASSUME ~\E b \in left : time[b] <= stop
       PROVE  \A a \in left : EarlierIn(time, x, a)
  <2> TAKE a \in left
  <2>1. PICK j \in open : a = v[j]
    BY <1>2
  <2>2. p = first
    BY <1>2, <1>7, <1>11, <1>13
  <2>3. Earlier(x, a)
    BY <1>4, <1>5, <1>11, <2>1, <2>2
  <2> QED BY <2>3, Zenon DEF EarlierIn, Earlier
<1>14. IsBest(time, proofOfStake, x, left, stop, m)
  BY <1>11, <1>12, <1>13 DEF IsBest
<1> QED BY <1>14 DEF x

-----------------------------------------------------------------------------
(* The rounds.                                                             *)

\* The numbers up to n
LEMMA UpToFinite ==
    ASSUME NEW n \in Nat
    PROVE  IsFiniteSet(1..n) /\ Cardinality(1..n) = n
<1>1. 1 \in Int /\ n \in Int
  OBVIOUS
<1>2. IsFiniteSet(1..n) /\ Cardinality(1..n) = IF 1 > n THEN 0 ELSE n - 1 + 1
  BY <1>1, FS_Interval
<1> QED BY <1>2

\* Fewer blocks than there are candidates leave one.
LEMMA OneLeft ==
    ASSUME NEW v \in Seq(Block), \A i, j \in 1..Len(v) : v[i] = v[j] => i = j,
           NEW C, NEW u \in Seq(C), Len(u) < Len(v)
    PROVE  ToSet(v) \ ToSet(u) # {}
<1> DEFINE N == Len(v)
           K == Len(u)
<1>1. ToSet(v) = {v[i] : i \in 1..N} /\ ToSet(u) = {u[i] : i \in 1..K}
  BY Elements
<1>2. SUFFICES ASSUME \A i \in 1..N : \E j \in 1..K : u[j] = v[i] PROVE FALSE
  <2>1. SUFFICES ASSUME ToSet(v) \ ToSet(u) = {} PROVE \A i \in 1..N : \E j \in 1..K : u[j] = v[i]
    BY <1>2
  <2> TAKE i \in 1..N
  <2>2. v[i] \in ToSet(v)
    BY <1>1
  <2>3. v[i] \in ToSet(u)
    BY <2>1, <2>2
  <2> QED BY <1>1, <2>3
<1>3. N \in Nat /\ K \in Nat /\ K < N
  OBVIOUS
<1> DEFINE f == [i \in 1..N |-> CHOOSE j \in 1..K : u[j] = v[i]]
<1>4. \A i \in 1..N : f[i] \in 1..K /\ u[f[i]] = v[i]
  <2> TAKE i \in 1..N
  <2>1. \E j \in 1..K : u[j] = v[i]
    BY <1>2
  <2>2. f[i] = CHOOSE j \in 1..K : u[j] = v[i]
    OBVIOUS
  <2> HIDE DEF f
  <2> QED BY <2>1, <2>2, Zenon
<1>5. f \in [1..N -> 1..K]
  <2>1. f = [i \in 1..N |-> f[i]]
    OBVIOUS
  <2> HIDE DEF f
  <2> QED BY <1>4, <2>1
<1>6. IsFiniteSet(1..N) /\ IsFiniteSet(1..K) /\ Cardinality(1..N) = N /\ Cardinality(1..K) = K
  <2> HIDE DEF N, K
  <2> QED BY <1>3, UpToFinite
<1> HIDE DEF f
<1>7. \E i, j \in 1..N : i # j /\ f[i] = f[j]
  <2> HIDE DEF N, K
  <2> QED BY <1>3, <1>5, <1>6, FS_PigeonHole
<1> QED BY <1>4, <1>7

\* The number of candidates
LEMMA ElementsNumber ==
    ASSUME NEW v \in Seq(Block), \A i, j \in 1..Len(v) : v[i] = v[j] => i = j
    PROVE  Cardinality(ToSet(v)) = Len(v)
<1> DEFINE N == Len(v)
           D == 1..N
<1>1. N \in Nat /\ v \in [D -> ToSet(v)] /\ ToSet(v) = {v[i] : i \in D}
  <2>1. ToSet(v) = {v[i] : i \in D}
    BY Elements
  <2>2. N \in Nat /\ v \in [D -> Block]
    OBVIOUS
  <2> QED BY <2>1, <2>2
<1>2. IsFiniteSet(D) /\ Cardinality(D) = N
  <2> HIDE DEF N
  <2> QED BY <1>1, FS_Interval
<1>3. v \in Injection(D, ToSet(v))
  BY <1>1 DEF Injection, IsInjective
<1>4. v \in Surjection(D, ToSet(v))
  BY <1>1 DEF Surjection
<1>5. Cardinality(ToSet(v)) = Cardinality(D)
  <2> HIDE DEF D
  <2> QED BY <1>2, <1>3, <1>4, FS_Surjection
<1> QED BY <1>2, <1>5

\* v is strictly in order.
Ordered(v) ==
    v \in Seq(Block) /\ InOrder(v, Len(v)) /\ \A i, j \in 1..Len(v) : v[i] = v[j] => i = j

HashesInt(m) == \A b \in Block : HashOf(b, m) \in Int

\* The code's rounds satisfy the conditions.
LEMMA SelectedIs ==
    ASSUME TimesOK, NEW v, Ordered(v), NEW n \in 0..Rounds, n <= Len(v), NEW start \in Int,
           NEW m, HashesInt(m)
    PROVE  IsChoice(time, proofOfStake, Selected(v, n, start, m), ToSet(v), n, start, m)
<1> DEFINE a == <<v, start, m>>
           C == ToSet(v)
           OK(u, k) == IsChoice(time, proofOfStake, u, C, k, start, m)
<1>0. n \in Nat /\ Rounds \in Nat /\ n <= Rounds /\ v \in Seq(Block) /\ Len(v) \in Nat
  BY KernelAssumption DEF Ordered
<1>1. PICK F : IsLoop("rounds", <<>>, a, n, F) /\ Selected(v, n, start, m) = F[n]
  BY <1>0, RoundsLoop
<1>2. \A u, k : Kept("rounds", <<>>, a, u, k) <=> OK(u, k)
  BY DEF Kept
<1>3. OK(<<>>, 0)
  <2>1. <<>> \in Seq(C) /\ Len(<<>>) = 0 /\ 1..0 = {}
    OBVIOUS
  <2> QED BY <2>1 DEF IsChoice
<1>4. ASSUME NEW u, NEW k \in 1..n, OK(u, k - 1)
      PROVE  OK(StepOf("rounds", a, u, k), k)
  <2> DEFINE left == C \ ToSet(u)
             stop == start + Sections[k]
             x == SelectBlockFromCandidates(v, ToSet(u), stop, m)
             w == Append(u, x)
  <2>1. u \in Seq(C) /\ Len(u) = k - 1
        /\ \A i \in 1..(k - 1) : IsBest(time, proofOfStake, u[i], C \ {u[j] : j \in 1..(i - 1)}, start + Sections[i], m)
    BY <1>4 DEF IsChoice
  <2>2. left # {}
    <3>1. Len(u) < Len(v)
      BY <1>0, <2>1
    <3> QED BY <2>1, <3>1, OneLeft DEF Ordered
  <2>3. stop \in Int
    <3>1. k \in 0..Rounds
      BY <1>0
    <3>2. Sections[k] \in Int
      BY <3>1, SectionsInt
    <3> QED BY <3>2
  <2>4. IsBest(time, proofOfStake, x, left, stop, m)
    <3> HIDE DEF stop
    <3> QED BY <2>2, <2>3, RoundIs DEF Ordered, HashesInt
  <2>5. StepOf("rounds", a, u, k) = w
    BY DEF StepOf
  <2>6. x \in C
    BY <2>4 DEF IsBest
  <2> HIDE DEF x, C
  <2>7. /\ w \in Seq(C) /\ Len(w) = k /\ w[k] = x
        /\ \A i \in 1..(k - 1) : w[i] = u[i]
    BY <2>1, <2>6
  <2> HIDE DEF w
  <2>8. ToSet(u) = {w[j] : j \in 1..(k - 1)}
    <3>1. ToSet(u) = {u[j] : j \in 1..(k - 1)}
      BY <2>1, Elements
    <3> QED BY <2>7, <3>1
  <2>9. ASSUME NEW i \in 1..k
        PROVE  IsBest(time, proofOfStake, w[i], C \ {w[j] : j \in 1..(i - 1)}, start + Sections[i], m)
    <3>1. CASE i = k
      BY <2>4, <2>7, <2>8, <3>1
    <3>2. CASE i # k
      <4>1. i \in 1..(k - 1) /\ \A j \in 1..(i - 1) : j \in 1..(k - 1)
        BY <3>2
      <4>2. {w[j] : j \in 1..(i - 1)} = {u[j] : j \in 1..(i - 1)} /\ w[i] = u[i]
        BY <2>7, <4>1
      <4> QED BY <2>1, <4>1, <4>2
    <3> QED BY <3>1, <3>2
  <2>10. OK(w, k)
    BY <2>7, <2>9 DEF IsChoice
  <2> QED BY <2>5, <2>10
<1>5. Kept("rounds", <<>>, a, <<>>, 0)
  BY <1>2, <1>3
<1>6. \A u : \A k \in 1..n : Kept("rounds", <<>>, a, u, k - 1) =>
             Kept("rounds", <<>>, a, StepOf("rounds", a, u, k), k)
  <2> HIDE DEF OK, a
  <2> QED BY <1>2, <1>4
<1>7. Kept("rounds", <<>>, a, F[n], n)
  <2> HIDE DEF OK, a
  <2> QED BY <1>0, <1>1, <1>5, <1>6, LoopKeeps
<1> QED BY <1>1, <1>2, <1>7

\* The conditions determine the block of a round
LEMMA BestUnique ==
    ASSUME TimesOK, NEW m, HashesInt(m), NEW left \in SUBSET Block, NEW stop,
           NEW x, IsBest(time, proofOfStake, x, left, stop, m)
    PROVE  BlockOfRound(left, stop, m) = x
<1>1. x \in left
  BY DEF IsBest
<1>2. \A a, b \in left : EarlierIn(time, a, b) <=> Earlier(a, b)
  BY Zenon DEF EarlierIn, Earlier
<1>3. \A a, b \in left : WinsIn(time, proofOfStake, a, b, m) <=> Wins(a, b, m)
  BY Zenon DEF WinsIn, Wins, HashIn, HashOf, EarlierIn, Earlier
<1>4. CASE \E b \in left : time[b] <= stop
  <2> DEFINE P(b) == time[b] <= stop /\ \A a \in left : time[a] <= stop => Wins(b, a, m)
  <2>1. P(x)
    BY <1>1, <1>3, <1>4, Zenon DEF IsBest
  <2>2. ASSUME NEW y \in left, P(y) PROVE y = x
    <3>1. Wins(x, y, m) /\ Wins(y, x, m)
      BY <1>1, <2>1, <2>2
    <3>2. HashOf(x, m) \in Int /\ HashOf(y, m) \in Int
      BY <1>1 DEF HashesInt
    <3>3. Earlier(x, y) /\ Earlier(y, x)
      BY <3>1, <3>2 DEF Wins
    <3> QED BY <1>1, <3>3, EarlierTotal
  <2>3. BlockOfRound(left, stop, m) = CHOOSE b \in left : P(b)
    BY <1>4, Zenon DEF BlockOfRound
  <2> HIDE DEF P
  <2>4. (CHOOSE b \in left : P(b)) \in left /\ P(CHOOSE b \in left : P(b))
    BY <1>1, <2>1, Zenon
  <2> QED BY <2>2, <2>3, <2>4
<1>5. CASE ~\E b \in left : time[b] <= stop
  <2> DEFINE P(b) == \A a \in left : Earlier(b, a)
  <2>1. P(x)
    BY <1>1, <1>2, <1>5, Zenon DEF IsBest
  <2>2. ASSUME NEW y \in left, P(y) PROVE y = x
    <3>1. Earlier(x, y) /\ Earlier(y, x)
      BY <1>1, <2>1, <2>2
    <3> QED BY <1>1, <3>1, EarlierTotal
  <2>3. BlockOfRound(left, stop, m) = CHOOSE b \in left : P(b)
    BY <1>5, Zenon DEF BlockOfRound
  <2> HIDE DEF P
  <2>4. (CHOOSE b \in left : P(b)) \in left /\ P(CHOOSE b \in left : P(b))
    BY <1>1, <2>1, Zenon
  <2> QED BY <2>2, <2>3, <2>4
<1> QED BY <1>4, <1>5

\* and so the blocks of all rounds.
LEMMA ChoiceIs ==
    ASSUME TimesOK, NEW m, HashesInt(m), NEW C \in SUBSET Block,
           NEW n \in Nat, NEW start, NEW s, IsChoice(time, proofOfStake, s, C, n, start, m)
    PROVE  Choice(C, n, start, m) = s
<1> DEFINE a == <<C, start, m, s>>
           Agrees(u, k) == u \in Seq(C) /\ Len(u) = k /\ \A i \in 1..k : u[i] = s[i]
<1>0. s \in Seq(C) /\ Len(s) = n
      /\ \A k \in 1..n : IsBest(time, proofOfStake, s[k], C \ {s[j] : j \in 1..(k - 1)}, start + Sections[k], m)
  BY DEF IsChoice
<1>1. PICK F : IsLoop("choice", <<>>, a, n, F) /\ Choice(C, n, start, m) = F[n]
  BY ChoiceLoop
<1>2. \A u, k : Kept("choice", <<>>, a, u, k) <=> Agrees(u, k)
  BY DEF Kept
<1>3. Agrees(<<>>, 0)
  OBVIOUS
<1>4. ASSUME NEW u, NEW k \in 1..n, Agrees(u, k - 1)
      PROVE  Agrees(StepOf("choice", a, u, k), k)
  <2> DEFINE left == C \ {s[j] : j \in 1..(k - 1)}
             x == BlockOfRound(C \ ToSet(u), start + Sections[k], m)
  <2>1. u \in Seq(C) /\ Len(u) = k - 1 /\ \A i \in 1..(k - 1) : u[i] = s[i]
    BY <1>4
  <2>2. C \ ToSet(u) = left
    <3>1. ToSet(u) = {u[j] : j \in 1..(k - 1)}
      BY <2>1, Elements
    <3>2. {u[j] : j \in 1..(k - 1)} = {s[j] : j \in 1..(k - 1)}
      BY <2>1
    <3> QED BY <3>1, <3>2
  <2>3. left \in SUBSET Block /\ IsBest(time, proofOfStake, s[k], left, start + Sections[k], m)
    BY <1>0
  <2>4. x = s[k]
    <3> HIDE DEF left
    <3> QED BY <2>2, <2>3, BestUnique
  <2>5. StepOf("choice", a, u, k) = Append(u, s[k])
    BY <2>4 DEF StepOf
  <2>6. s[k] \in C
    BY <2>3 DEF IsBest
  <2> HIDE DEF left, x, a
  <2>7. Append(u, s[k]) \in Seq(C) /\ Len(Append(u, s[k])) = k /\ \A i \in 1..k : Append(u, s[k])[i] = s[i]
    BY <2>1, <2>6
  <2> QED BY <2>5, <2>7
<1>5. Kept("choice", <<>>, a, F[n], n)
  <2>1. Kept("choice", <<>>, a, <<>>, 0)
    BY <1>2, <1>3
  <2>2. \A u : \A k \in 1..n : Kept("choice", <<>>, a, u, k - 1) =>
             Kept("choice", <<>>, a, StepOf("choice", a, u, k), k)
    <3> HIDE DEF Agrees, a
    <3> QED BY <1>2, <1>4
  <2> HIDE DEF Agrees, a
  <2> QED BY <1>1, <2>1, <2>2, LoopKeeps
<1>6. Agrees(F[n], n)
  BY <1>2, <1>5
<1>7. F[n] = s
  BY <1>0, <1>6
<1> QED BY <1>1, <1>7

\* They are about the candidates alone.
LEMMA ChoiceStable ==
    ASSUME NEW tm, NEW ps, NEW tm2, NEW ps2, NEW C, \A b \in C : tm2[b] = tm[b] /\ ps2[b] = ps[b],
           NEW s, NEW n, NEW start, NEW m, IsChoice(tm, ps, s, C, n, start, m)
    PROVE  IsChoice(tm2, ps2, s, C, n, start, m)
<1>1. ASSUME NEW x, NEW left \in SUBSET C, NEW stop, IsBest(tm, ps, x, left, stop, m)
      PROVE  IsBest(tm2, ps2, x, left, stop, m)
  <2>1. x \in left
    BY <1>1 DEF IsBest
  <2>2. \A a \in left : EarlierIn(tm2, x, a) <=> EarlierIn(tm, x, a)
    BY <2>1 DEF EarlierIn
  <2>3. \A a \in left : HashIn(ps2, a, m) = HashIn(ps, a, m)
    BY DEF HashIn
  <2>4. \A a \in left : WinsIn(tm2, ps2, x, a, m) <=> WinsIn(tm, ps, x, a, m)
    BY <2>1, <2>2, <2>3 DEF WinsIn
  <2>5. \A a \in left : tm2[a] = tm[a]
    OBVIOUS
  <2> QED BY <1>1, <2>1, <2>2, <2>4, <2>5 DEF IsBest
<1>2. s \in Seq(C) /\ Len(s) = n
      /\ \A k \in 1..n : IsBest(tm, ps, s[k], C \ {s[j] : j \in 1..(k - 1)}, start + Sections[k], m)
  BY DEF IsChoice
<1>3. \A k \in 1..n : IsBest(tm2, ps2, s[k], C \ {s[j] : j \in 1..(k - 1)}, start + Sections[k], m)
  BY <1>1, <1>2
<1> QED BY <1>2, <1>3 DEF IsChoice

-----------------------------------------------------------------------------
(* The invariant of the modifiers: each was made of blocks that satisfy    *)
(* the conditions, and still do.                                           *)

Bits(s) == {r \in 0..(Len(s) - 1) : EntropyBit(s[r + 1]) = 1}

RoundsOf(b) == Lesser(Rounds, Len(Candidates(b - 1)))

ByRounds ==
    \A b \in Block \ {Genesis} : generated[b] =>
        \E s : /\ IsChoice(time, proofOfStake, s, ToSet(Candidates(b - 1)), RoundsOf(b), IntervalStart(b - 1),
                           modifier[GetLastStakeModifier(b - 1)])
               /\ modifier[b] = Bits(s)

ModifierInv ==
    /\ KernelInv
    /\ height <= MaxHeight
    /\ proofOfStake \in [Block -> BOOLEAN]
    /\ modifier \in [Block -> SUBSET (0..(Rounds - 1))]
    /\ ByRounds

\* Every block has a timestamp and a hash, and selection hashes are numbers.
LEMMA BlocksOK ==
    ASSUME ModifierInv
    PROVE  TimesOK /\ \A m \in SUBSET (0..(Rounds - 1)) : HashesInt(m)
<1>1. height \in Nat /\ MaxHeight \in Nat /\ height <= MaxHeight /\ BlockHash \in [0..MaxHeight -> Nat]
  BY KernelAssumption DEF ModifierInv, KernelInv
<1>2. \A b \in Block : b \in 0..MaxHeight /\ b \in DOMAIN BlockHash /\ BlockHash[b] \in Nat
  BY <1>1 DEF Block
<1>3. TimesOK
  <2>1. \A a, b \in Block : BlockHash[a] = BlockHash[b] => a = b
    BY <1>2, KernelAssumption
  <2> QED BY <1>2, <2>1 DEF TimesOK, ModifierInv, KernelInv
<1>4. ASSUME NEW m \in SUBSET (0..(Rounds - 1)), NEW b \in Block PROVE HashOf(b, m) \in Int
  <2>1. SelectionHash(b, m) \in Nat /\ PosShift \in Nat /\ PosShift > 0
    BY <1>2, KernelAssumption
  <2> DEFINE h == SelectionHash(b, m)
  <2>2. HashOf(b, m) = h \div PosShift \/ HashOf(b, m) = h
    BY DEF HashOf
  <2> HIDE DEF h
  <2>3. h \in Nat
    BY <2>1 DEF h
  <2>4. h \div PosShift \in Int
    BY <2>1, <2>3
  <2> QED BY <2>2, <2>3, <2>4
<1> QED BY <1>3, <1>4 DEF HashesInt

\* GetLastStakeModifier finds a block from any block on.
LEMMA LastModifierBelow ==
    ASSUME KernelInv, NEW prev \in Block
    PROVE  GetLastStakeModifier(prev) \in 0..prev /\ GetLastStakeModifier(prev) \in Block
<1> DEFINE S == {a \in 0..prev : generated[a]}
<1>1. S \in SUBSET (0..prev) /\ S # {} /\ prev \in Int /\ 0..prev \subseteq Block
  BY DEF KernelInv, Genesis, Block
<1>2. Max(S) \in S
  <2> HIDE DEF S
  <2> QED BY <1>1, HighestBlock
<1> QED BY <1>1, <1>2 DEF GetLastStakeModifier

\* The selection interval starts at a number.
LEMMA StartInt ==
    ASSUME KernelInv, NEW prev \in Block
    PROVE  IntervalStart(prev) \in Int
<1>1. IntervalOf(time[prev]) \in Int
  BY IntervalOrder DEF KernelInv
<1>2. Sections[Rounds] \in Int
  BY SectionsInt, KernelAssumption
<1>3. nStakeModifierInterval \in Int
  BY KernelAssumption
<1>4. IntervalOf(time[prev]) * nStakeModifierInterval \in Int
  BY <1>1, <1>3
<1> QED BY <1>2, <1>4 DEF IntervalStart, GetStakeModifierSelectionInterval

\* The blocks of a new modifier
LEMMA NewModifier ==
    ASSUME ModifierInv, NEW prev \in Block, NEW m \in SUBSET (0..(Rounds - 1))
    PROVE  LET v == Sorted(prev)
               s == Selected(v, Lesser(Rounds, Len(v)), IntervalStart(prev), m)
           IN  /\ IsChoice(time, proofOfStake, s, ToSet(Candidates(prev)), Lesser(Rounds, Len(Candidates(prev))),
                           IntervalStart(prev), m)
               /\ Bits(s) \in SUBSET (0..(Rounds - 1))
<1> DEFINE v == Sorted(prev)
           n == Lesser(Rounds, Len(v))
           s == Selected(v, n, IntervalStart(prev), m)
<1>1. TimesOK /\ HashesInt(m) /\ IntervalStart(prev) \in Int
  BY BlocksOK, StartInt DEF ModifierInv
<1>2. Ordered(v) /\ Len(v) = Len(Candidates(prev)) /\ ToSet(v) = ToSet(Candidates(prev)) /\ Len(v) \in Nat
  <2>1. v \in Seq(Block) /\ Len(v) = Len(Candidates(prev)) /\ ToSet(v) = ToSet(Candidates(prev))
        /\ (\A i, j \in 1..Len(v) : v[i] = v[j] => i = j) /\ InOrder(v, Len(v))
    BY <1>1, SortedIs
  <2> HIDE DEF v
  <2> QED BY <2>1 DEF Ordered
<1>3. n \in 0..Rounds /\ n <= Len(v)
  <2> HIDE DEF v
  <2> QED BY <1>2, KernelAssumption DEF Lesser
<1> HIDE DEF v
<1>4. IsChoice(time, proofOfStake, s, ToSet(v), n, IntervalStart(prev), m)
  <2> HIDE DEF n
  <2> QED BY <1>1, <1>2, <1>3, SelectedIs
<1>5. Len(s) = n
  BY <1>4 DEF IsChoice
<1>6. Bits(s) \in SUBSET (0..(Rounds - 1))
  <2> HIDE DEF s, n
  <2> QED BY <1>3, <1>5, KernelAssumption DEF Bits
<1> QED BY <1>2, <1>4, <1>6 DEF v

\* What a block reads of the blocks below does not change when one is added.
LEMMA BelowStable ==
    ASSUME KernelInv, \A b \in Block : time'[b] = time[b] /\ generated'[b] = generated[b], NEW prev \in Block
    PROVE  /\ Candidates(prev)' = Candidates(prev) /\ IntervalStart(prev)' = IntervalStart(prev)
           /\ GetLastStakeModifier(prev)' = GetLastStakeModifier(prev)
<1>1. \A b \in 0..prev : time'[b] = time[b] /\ generated'[b] = generated[b]
  BY DEF KernelInv, Block
<1>2. IntervalStart(prev)' = IntervalStart(prev)
  BY DEF IntervalStart, IntervalOf, GetStakeModifierSelectionInterval
<1>3. {b \in 0..prev : time'[b] < IntervalStart(prev)} = {b \in 0..prev : time[b] < IntervalStart(prev)}
  BY <1>1
<1>4. Candidates(prev)' = Candidates(prev)
  BY <1>2, <1>3, Zenon DEF Candidates
<1>5. {a \in 0..prev : generated'[a]} = {a \in 0..prev : generated[a]}
  BY <1>1
<1>6. GetLastStakeModifier(prev)' = GetLastStakeModifier(prev)
  BY <1>5, Zenon DEF GetLastStakeModifier
<1> QED BY <1>2, <1>4, <1>6

\* A block that enters the index.
LEMMA IndexKeepsModifiers ==
    ASSUME ModifierInv, height < MaxHeight, NEW at \in Int, NEW pos \in BOOLEAN, Index(at, pos)
    PROVE  ModifierInv'
<1> DEFINE new == ComputeNextStakeModifier(height, at)
           last == GetLastStakeModifier(height)
           v == Sorted(height)
           s == Selected(v, Lesser(Rounds, Len(v)), IntervalStart(height), modifier[last])
<1>0. /\ KernelInv /\ height \in Nat /\ height \in Block /\ Block = 0..height /\ TimesOK
      /\ last \in Block /\ modifier[last] \in SUBSET (0..(Rounds - 1))
  <2>1. KernelInv /\ height \in Nat /\ height \in Block /\ Block = 0..height
    BY DEF ModifierInv, KernelInv, Block
  <2> QED BY <2>1, LastModifierBelow, BlocksOK DEF ModifierInv
<1>1. KernelInv'
  BY <1>0, IndexKeepsInv
<1>2. /\ height' = height + 1 /\ Block' = 0..(height + 1)
      /\ time' = [b \in 0..(height + 1) |-> IF b \in Block THEN time[b] ELSE at]
      /\ proofOfStake' = [b \in 0..(height + 1) |-> IF b \in Block THEN proofOfStake[b] ELSE pos]
      /\ modifier' = [b \in 0..(height + 1) |-> IF b \in Block THEN modifier[b] ELSE new.value]
      /\ generated' = [b \in 0..(height + 1) |-> IF b \in Block THEN generated[b] ELSE new.new]
  <2> HIDE DEF new
  <2> QED BY DEF Index, Extended, Block, new
<1>3. /\ IsChoice(time, proofOfStake, s, ToSet(Candidates(height)), Lesser(Rounds, Len(Candidates(height))),
                  IntervalStart(height), modifier[last])
      /\ Bits(s) \in SUBSET (0..(Rounds - 1))
  <2> HIDE DEF last
  <2> QED BY <1>0, NewModifier
<1>4. \/ new.new = FALSE /\ new.value = modifier[last]
      \/ new.new = TRUE /\ new.value = Bits(s)
  BY Zenon DEF ComputeNextStakeModifier, Bits
<1> HIDE DEF new, last, s, v
<1>5. new.value \in SUBSET (0..(Rounds - 1))
  BY <1>0, <1>3, <1>4
<1>6. /\ \A b \in Block : /\ b \in Block' /\ time'[b] = time[b] /\ proofOfStake'[b] = proofOfStake[b]
                          /\ modifier'[b] = modifier[b] /\ generated'[b] = generated[b]
      /\ modifier'[height + 1] = new.value /\ generated'[height + 1] = new.new
  BY <1>0, <1>2
<1>7. height' <= MaxHeight /\ proofOfStake' \in [Block' -> BOOLEAN]
  <2>1. height' <= MaxHeight
    BY <1>0, <1>2, KernelAssumption
  <2> QED BY <1>2, <2>1 DEF ModifierInv
<1>8. modifier' \in [Block' -> SUBSET (0..(Rounds - 1))]
  BY <1>2, <1>5 DEF ModifierInv
<1>9. ASSUME NEW b \in Block' \ {Genesis}, generated'[b]
      PROVE  \E r : /\ IsChoice(time', proofOfStake', r, ToSet(Candidates(b - 1)'), Lesser(Rounds, Len(Candidates(b - 1)')),
                                IntervalStart(b - 1)', modifier'[GetLastStakeModifier(b - 1)'])
                    /\ modifier'[b] = Bits(r)
  <2>1. b - 1 \in Block
    BY <1>0, <1>2 DEF Genesis
  <2>2. /\ Candidates(b - 1)' = Candidates(b - 1) /\ IntervalStart(b - 1)' = IntervalStart(b - 1)
        /\ GetLastStakeModifier(b - 1)' = GetLastStakeModifier(b - 1)
    BY <1>0, <1>6, <2>1, BelowStable
  <2>3. modifier'[GetLastStakeModifier(b - 1)] = modifier[GetLastStakeModifier(b - 1)]
    BY <1>0, <1>6, <2>1, LastModifierBelow
  <2>4. PICK r : /\ IsChoice(time, proofOfStake, r, ToSet(Candidates(b - 1)), Lesser(Rounds, Len(Candidates(b - 1))),
                             IntervalStart(b - 1), modifier[GetLastStakeModifier(b - 1)])
                 /\ modifier'[b] = Bits(r)
    <3>1. CASE b \in Block
      <4>1. generated[b] /\ modifier'[b] = modifier[b]
        BY <1>6, <1>9, <3>1
      <4> QED BY <3>1, <4>1 DEF ModifierInv, ByRounds, RoundsOf
    <3>2. CASE b \notin Block
      <4>1. b = height + 1 /\ b - 1 = height
        BY <1>0, <1>2, <3>2
      <4>2. new.new = TRUE /\ modifier'[b] = Bits(s)
        BY <1>4, <1>6, <1>9, <4>1
      <4> QED BY <1>3, <4>1, <4>2 DEF last
    <3> QED BY <3>1, <3>2
  <2>5. \A x \in ToSet(Candidates(b - 1)) : time'[x] = time[x] /\ proofOfStake'[x] = proofOfStake[x]
    <3>1. Candidates(b - 1) \in Seq(Block)
      BY <1>0, <2>1, CandidatesOK
    <3>2. ToSet(Candidates(b - 1)) \subseteq Block
      BY <3>1 DEF ToSet
    <3> QED BY <1>6, <3>2
  <2>6. IsChoice(time', proofOfStake', r, ToSet(Candidates(b - 1)), Lesser(Rounds, Len(Candidates(b - 1))),
                 IntervalStart(b - 1), modifier[GetLastStakeModifier(b - 1)])
    BY <2>4, <2>5, ChoiceStable
  <2> QED BY <2>2, <2>3, <2>4, <2>6
<1>10. ByRounds'
  BY <1>9 DEF ByRounds, RoundsOf
<1> QED BY <1>1, <1>7, <1>8, <1>10 DEF ModifierInv

\* ModifierInv holds in every reachable state.
LEMMA ModifiersAlways == KernelSpec => []ModifierInv
<1>1. KernelInit => ModifierInv
  <2> SUFFICES ASSUME KernelInit PROVE ModifierInv
    OBVIOUS
  <2>1. /\ height = 0 /\ Block = {0} /\ time = [b \in {0} |-> 0] /\ generated = [b \in {0} |-> TRUE]
        /\ proofOfStake = [b \in {0} |-> FALSE] /\ modifier = [b \in {0} |-> {}]
    BY DEF KernelInit, Block
  <2>2. KernelInv
    BY <2>1 DEF KernelInv, OnePerInterval, Genesis
  <2>3. height <= MaxHeight
    BY <2>1, KernelAssumption
  <2>4. proofOfStake \in [Block -> BOOLEAN] /\ modifier \in [Block -> SUBSET (0..(Rounds - 1))]
    BY <2>1
  <2>5. ByRounds
    BY <2>1 DEF ByRounds, Genesis
  <2> QED BY <2>2, <2>3, <2>4, <2>5 DEF ModifierInv
<1>2. ModifierInv /\ [KernelNext]_kernelVars => ModifierInv'
  <2> SUFFICES ASSUME ModifierInv, [KernelNext]_kernelVars PROVE ModifierInv'
    OBVIOUS
  <2>1. CASE UNCHANGED kernelVars
    <3>1. KernelInv'
      BY <2>1 DEF kernelVars, ModifierInv, KernelInv, OnePerInterval, Block, IntervalOf
    <3>2. ByRounds'
      BY <2>1 DEF kernelVars, ModifierInv, ByRounds, Block, RoundsOf, Candidates, IntervalStart, IntervalOf,
                  GetLastStakeModifier
    <3> QED BY <2>1, <3>1, <3>2 DEF kernelVars, ModifierInv, Block
  <2>2. ASSUME NEW d \in Delays,
               \/ AcceptWork(time[height] + d)
               \/ \E from \in Block : AcceptStake(time[height] + d, from)
        PROVE  ModifierInv'
    <3>1. time[height] + d \in Int
      BY KernelAssumption DEF ModifierInv, KernelInv, Block
    <3>2. PICK pos \in BOOLEAN : Index(time[height] + d, pos) /\ height < MaxHeight
      BY <2>2, Zenon DEF AcceptWork, AcceptStake
    <3> QED BY <3>1, <3>2, IndexKeepsModifiers
  <2> QED BY <2>1, <2>2 DEF KernelNext
<1> QED BY <1>1, <1>2, PTL DEF KernelSpec

\* The sort and the rounds of ComputeNextStakeModifier compute what the comment on
\* SelectBlockFromCandidates defines: for chains of any length, timestamps that go back,
\* any number of rounds and any hash without collisions, the candidates end up in order,
\* and a new modifier has the entropy bits of the blocks with the smallest hash of each round.
THEOREM ModifiersByDefinition == KernelSpec => []ModifierByDefinition
<1>1. ModifierInv => ModifierByDefinition
  <2> SUFFICES ASSUME ModifierInv PROVE ModifierByDefinition
    OBVIOUS
  <2>0. TimesOK /\ KernelInv
    BY BlocksOK DEF ModifierInv
  <2>1. SortedByTimestamp
    <3>1. ASSUME NEW prev \in Block
          PROVE  /\ \A i, j \in 1..Len(Sorted(prev)) : i < j => Earlier(Sorted(prev)[i], Sorted(prev)[j])
                 /\ ToSet(Sorted(prev)) = ToSet(Candidates(prev)) /\ Len(Sorted(prev)) = Len(Candidates(prev))
      <4> DEFINE v == Sorted(prev)
      <4>1. /\ v \in Seq(Block) /\ Len(v) = Len(Candidates(prev)) /\ ToSet(v) = ToSet(Candidates(prev))
            /\ InOrder(v, Len(v))
        BY <2>0, SortedIs
      <4> HIDE DEF v
      <4>2. ASSUME NEW i \in 1..Len(v), NEW j \in 1..Len(v), i < j PROVE Earlier(v[i], v[j])
        <5>1. j <= Len(v)
          BY <4>1
        <5> QED BY <4>1, <4>2, <5>1 DEF InOrder
      <4> QED BY <4>1, <4>2 DEF v
    <3> QED BY <3>1, Zenon DEF SortedByTimestamp
  <2>2. ASSUME NEW b \in Block \ {Genesis}, generated[b]
        PROVE  LET C == ToSet(Candidates(b - 1))
                   s == Choice(C, Lesser(Rounds, Cardinality(C)), IntervalStart(b - 1),
                               modifier[GetLastStakeModifier(b - 1)])
               IN  modifier[b] = {r \in 0..(Len(s) - 1) : EntropyBit(s[r + 1]) = 1}
    <3> DEFINE v == Candidates(b - 1)
               C == ToSet(v)
               n == Lesser(Rounds, Len(v))
               start == IntervalStart(b - 1)
               m == modifier[GetLastStakeModifier(b - 1)]
    <3>1. b - 1 \in Block
      BY <2>0 DEF KernelInv, Block, Genesis
    <3>2. v \in Seq(Block) /\ Len(v) \in Nat /\ \A i, j \in 1..Len(v) : v[i] = v[j] => i = j
      <4>1. v \in Seq(Block) /\ \A i, j \in 1..Len(v) : v[i] = v[j] => i = j
        BY <2>0, <3>1, CandidatesOK
      <4> HIDE DEF v
      <4> QED BY <4>1
    <3>3. Cardinality(C) = Len(v) /\ C \in SUBSET Block /\ n \in Nat
      <4> HIDE DEF v
      <4>1. Cardinality(C) = Len(v)
        BY <3>2, ElementsNumber
      <4>2. C \in SUBSET Block
        BY <3>2 DEF ToSet
      <4>3. n \in Nat
        BY <3>2, KernelAssumption DEF Lesser
      <4> QED BY <4>1, <4>2, <4>3
    <3>4. HashesInt(m)
      <4>1. m \in SUBSET (0..(Rounds - 1))
        BY <2>0, <3>1, LastModifierBelow DEF ModifierInv
      <4> QED BY <4>1, BlocksOK
    <3>5. PICK s : IsChoice(time, proofOfStake, s, C, n, start, m) /\ modifier[b] = Bits(s)
      BY <2>2 DEF ModifierInv, ByRounds, RoundsOf
    <3>6. Choice(C, n, start, m) = s
      <4> HIDE DEF C, n, start, m
      <4> QED BY <2>0, <3>3, <3>4, <3>5, ChoiceIs
    <3>7. Choice(C, Lesser(Rounds, Cardinality(C)), start, m) = s
      BY <3>3, <3>6, Zenon
    <3>8. modifier[b] = {r \in 0..(Len(s) - 1) : EntropyBit(s[r + 1]) = 1}
      BY <3>5 DEF Bits
    <3> QED BY <3>7, <3>8, Zenon
  <2> QED BY <2>1, <2>2, Zenon DEF ModifierByDefinition
<1> QED BY <1>1, ModifiersAlways, PTL
=============================================================================
