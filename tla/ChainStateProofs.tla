--------------------------- MODULE ChainStateProofs ---------------------------
(* Theorems about the block index and ActivateBestChain, for every tree of  *)
(* blocks, every number of threads and every bound on commands, and, in the *)
(* last part, about the synchronised checkpoints kept over them, for every  *)
(* set of signed checkpoints and all depths.                                *)
EXTENDS SyncCheckpoint, FiniteSetTheorems, WellFoundedInduction, TLAPS

\* A set of naturals has a least element.
LEMMA LeastNatural ==
    ASSUME NEW T \in SUBSET Nat, T # {}
    PROVE  \E n \in T : \A m \in T : n <= m
<1>0. IsWellFoundedOn(OpToRel(<, Nat), Nat)
  BY NatLessThanWellFounded
<1>1. PICK n \in T : \A m \in T : ~(<<m, n>> \in OpToRel(<, Nat))
  BY <1>0, WFMin
<1>2. \A m \in T : ~(m < n)
  BY <1>1 DEF OpToRel
<1>3. ASSUME NEW m \in T PROVE n <= m
  <2>1. m \in Nat /\ n \in Nat /\ ~(m < n)
    BY <1>2
  <2> QED BY <2>1
<1> QED BY <1>3

\* A function to the naturals has a place where it is least.
LEMMA LeastBy ==
    ASSUME NEW S, S # {}, NEW f \in [S -> Nat]
    PROVE  \E b \in S : \A a \in S : f[b] <= f[a]
<1> DEFINE T == {f[s] : s \in S}
<1>1. T \in SUBSET Nat /\ T # {}
  OBVIOUS
<1>2. PICK n \in T : \A m \in T : n <= m
  <2> HIDE DEF T
  <2> QED BY <1>1, LeastNatural
<1>3. PICK b \in S : f[b] = n
  BY <1>2
<1> QED BY <1>2, <1>3

(***************************************************************************)
(* The tree of blocks.                                                     *)
(***************************************************************************)

\* A block is in its chain, and the chain is closed under pprev.
LEMMA ChainClosed ==
    ASSUME NEW b \in Block
    PROVE  /\ Chain[b] \subseteq Block
           /\ b \in Chain[b]
           /\ \A a \in Chain[b] \ {Genesis} : Parent[a] \in Chain[b]
BY TreeAssumption DEF Chain

\* The chain of b is the least such set.
LEMMA ChainLeast ==
    ASSUME NEW b \in Block, NEW S \in SUBSET Block,
           b \in S, \A x \in S \ {Genesis} : Parent[x] \in S
    PROVE  Chain[b] \subseteq S
BY DEF Chain

\* pprev pointers compose.
LEMMA ChainTransitive ==
    ASSUME NEW b \in Block, NEW a \in Chain[b]
    PROVE  Chain[a] \subseteq Chain[b]
<1>1. a \in Block /\ Chain[b] \in SUBSET Block /\ \A x \in Chain[b] \ {Genesis} : Parent[x] \in Chain[b]
  BY ChainClosed
<1> QED BY <1>1, ChainLeast

\* The chain of a block is the block and the chain of its parent.
LEMMA ChainStep ==
    ASSUME NEW b \in Block \ {Genesis}
    PROVE  Parent[b] \in Block /\ Chain[b] = {b} \cup Chain[Parent[b]]
<1>1. Parent[b] \in Block
  BY TreeAssumption
<1>2. {b} \cup Chain[Parent[b]] \subseteq Chain[b]
  <2>1. b \in Chain[b] /\ Parent[b] \in Chain[b]
    BY ChainClosed
  <2> QED BY <2>1, ChainTransitive
<1>3. Chain[b] \subseteq {b} \cup Chain[Parent[b]]
  <2> DEFINE S == {b} \cup Chain[Parent[b]]
  <2>1. S \in SUBSET Block /\ b \in S
    BY <1>1, ChainClosed
  <2>2. \A x \in S \ {Genesis} : Parent[x] \in S
    BY <1>1, ChainClosed
  <2> HIDE DEF S
  <2>3. Chain[b] \subseteq S
    BY <2>1, <2>2, ChainLeast
  <2> QED BY <2>3 DEF S
<1> QED BY <1>1, <1>2, <1>3

\* The blocks below b have less trust.
LEMMA ChainTrust ==
    ASSUME NEW b \in Block, NEW a \in Chain[b], a # b
    PROVE  a \in Block /\ Trust[a] < Trust[b] /\ b \notin Chain[a]
<1>0. Trust \in [Block -> Nat] /\ Parent \in [Block \ {Genesis} -> Block]
  BY TreeAssumption
<1>1. ASSUME NEW d \in Block, NEW e \in Chain[d], e # d
      PROVE  e \in Block /\ Trust[e] < Trust[d]
  <2> DEFINE S == {x \in Block : x = d \/ Trust[x] < Trust[d]}
  <2>1. S \in SUBSET Block /\ d \in S
    OBVIOUS
  <2>2. ASSUME NEW x \in S \ {Genesis}
        PROVE  Parent[x] \in S
    <3>1. Parent[x] \in Block /\ Trust[Parent[x]] < Trust[x]
      BY TreeAssumption
    <3> QED BY <1>0, <3>1
  <2> HIDE DEF S
  <2>3. e \in S
    BY <2>1, <2>2, ChainLeast
  <2> QED BY <2>3, <1>1 DEF S
<1>2. a \in Block /\ Trust[a] < Trust[b]
  BY <1>1
<1>3. b \notin Chain[a]
  <2>1. SUFFICES ASSUME b \in Chain[a] PROVE FALSE
    OBVIOUS
  <2>2. Trust[b] < Trust[a]
    BY <1>1, <1>2, <2>1
  <2> QED BY <1>0, <1>2, <2>2
<1> QED BY <1>2, <1>3

\* Of two blocks of a chain one is below the other.
LEMMA ChainLinear ==
    ASSUME NEW b \in Block, NEW a \in Chain[b], NEW c \in Chain[b]
    PROVE  a \in Chain[c] \/ c \in Chain[a]
<1> DEFINE S == {x \in Chain[b] : a \in Chain[x] \/ x \in Chain[a]}
<1>0. a \in Block /\ Chain[b] \subseteq Block
  BY ChainClosed
<1>1. S \in SUBSET Block /\ b \in S
  BY <1>0, ChainClosed
<1>2. ASSUME NEW x \in S \ {Genesis}
      PROVE  Parent[x] \in S
  <2>1. x \in Block /\ Parent[x] \in Chain[b]
    BY <1>0, ChainClosed
  <2>2. CASE x \in Chain[a]
    BY <1>0, <2>1, <2>2, ChainClosed
  <2>3. CASE x \notin Chain[a]
    <3>1. a \in Chain[x] /\ x # a
      BY <1>0, <2>3, ChainClosed
    <3>2. a \in Chain[Parent[x]]
      BY <2>1, <3>1, ChainStep
    <3> QED BY <2>1, <3>2
  <2> QED BY <2>2, <2>3
<1> HIDE DEF S
<1>3. c \in S
  BY <1>1, <1>2, ChainLeast
<1> QED BY <1>3 DEF S

\* A set of blocks of one chain has a lowest block.
LEMMA LowestOf ==
    ASSUME NEW b \in Block, NEW S \in SUBSET Chain[b], S # {}
    PROVE  \E k \in S : \A s \in S : k \in Chain[s]
<1>0. Chain[b] \subseteq Block /\ Trust \in [Block -> Nat]
  BY ChainClosed, TreeAssumption
<1>1. PICK k \in S : \A s \in S : [x \in S |-> Trust[x]][k] <= [x \in S |-> Trust[x]][s]
  <2> DEFINE f == [x \in S |-> Trust[x]]
  <2>1. f \in [S -> Nat]
    BY <1>0
  <2> HIDE DEF f
  <2>2. \E k \in S : \A s \in S : f[k] <= f[s]
    BY <2>1, LeastBy
  <2> QED BY <2>2 DEF f
<1>2. \A s \in S : Trust[k] <= Trust[s]
  BY <1>1
<1>4. ASSUME NEW s \in S
      PROVE  k \in Chain[s]
  <2>1. Trust[k] <= Trust[s]
    BY <1>2
  <2>2. k \in Chain[s] \/ s \in Chain[k]
    BY ChainLinear
  <2>3. k \in Block /\ s \in Block
    BY <1>0
  <2>4. CASE s = k
    BY <2>3, <2>4, ChainClosed
  <2>5. CASE s # k /\ s \in Chain[k]
    <3>1. Trust[s] < Trust[k]
      BY <2>3, <2>5, ChainTrust
    <3> QED BY <1>0, <2>1, <2>3, <3>1
  <2> QED BY <2>2, <2>4, <2>5
<1> QED BY <1>4

\* A set of blocks has a best block under any sequence ids that are bounded below.
LEMMA BestExists ==
    ASSUME NEW S \in SUBSET Block, S # {},
           NEW seq \in [Block -> Int], NEW n \in Nat, \A b \in Block : seq[b] >= 0 - n
    PROVE  \E b \in S : \A a \in S : a # b => Worse(a, b, seq)
<1>0. Trust \in [Block -> Nat] /\ Address \in [Block -> Nat]
      /\ \A a, b \in Block : Address[a] = Address[b] => a = b
  BY TreeAssumption
<1>1. PICK top \in Block : \A b \in Block : Trust[b] <= Trust[top]
  BY TreeAssumption
<1>2. PICK b1 \in S : \A a \in S : Trust[a] <= Trust[b1]
  <2> DEFINE f == [x \in S |-> Trust[top] - Trust[x]]
  <2>1. f \in [S -> Nat]
    BY <1>0, <1>1
  <2>2. \E b \in S : \A a \in S : f[b] <= f[a]
    <3> HIDE DEF f
    <3> QED BY <2>1, LeastBy
  <2>3. PICK b \in S : \A a \in S : Trust[top] - Trust[b] <= Trust[top] - Trust[a]
    BY <2>2
  <2> QED BY <1>0, <2>3
<1>3. PICK S1 \in SUBSET S : S1 = {b \in S : Trust[b] = Trust[b1]}
  OBVIOUS
<1>4. PICK b2 \in S1 : \A a \in S1 : seq[b2] <= seq[a]
  <2> DEFINE f == [x \in S1 |-> seq[x] + n]
  <2>1. f \in [S1 -> Nat] /\ S1 # {}
    BY <1>3
  <2>2. \E b \in S1 : \A a \in S1 : f[b] <= f[a]
    <3> HIDE DEF f
    <3> QED BY <2>1, LeastBy
  <2>3. PICK b \in S1 : \A a \in S1 : seq[b] + n <= seq[a] + n
    BY <2>2
  <2> QED BY <2>3
<1>5. PICK S2 \in SUBSET S1 : S2 = {b \in S1 : seq[b] = seq[b2]}
  OBVIOUS
<1>6. PICK b \in S2 : \A a \in S2 : Address[b] <= Address[a]
  <2> DEFINE f == [x \in S2 |-> Address[x]]
  <2>1. f \in [S2 -> Nat] /\ S2 # {}
    BY <1>0, <1>5
  <2>2. \E b \in S2 : \A a \in S2 : f[b] <= f[a]
    <3> HIDE DEF f
    <3> QED BY <2>1, LeastBy
  <2> QED BY <2>2
<1>7. ASSUME NEW a \in S, a # b
      PROVE  Worse(a, b, seq)
  <2>1. a \in Block /\ b \in Block /\ b \in S /\ b \in S1
    OBVIOUS
  <2>2. Trust[a] \in Nat /\ Trust[b] \in Nat /\ seq[a] \in Int /\ seq[b] \in Int
        /\ Address[a] \in Nat /\ Address[b] \in Nat /\ Address[a] # Address[b]
    BY <1>0, <1>7, <2>1
  <2>3. Trust[a] <= Trust[b]
    BY <1>2, <1>3, <2>1
  <2>4. Trust[a] = Trust[b] => a \in S1 /\ seq[b] <= seq[a]
    BY <1>3, <1>4, <1>5, <2>1
  <2>5. Trust[a] = Trust[b] /\ seq[a] = seq[b] => Address[b] <= Address[a]
    BY <1>3, <1>5, <1>6, <2>1, <2>4
  <2> QED BY <2>2, <2>3, <2>4, <2>5 DEF Worse
<1> QED BY <1>7

\* Every chain ends in the genesis block.
LEMMA GenesisBelow ==
    ASSUME NEW b \in Block
    PROVE  Genesis \in Chain[b]
<1>1. PICK k \in Chain[b] : \A s \in Chain[b] : k \in Chain[s]
  <2>1. Chain[b] \in SUBSET Chain[b] /\ Chain[b] # {}
    BY ChainClosed
  <2> QED BY <2>1, LowestOf
<1>2. k \in Block
  BY ChainClosed
<1>3. ASSUME k # Genesis PROVE FALSE
  <2>1. Parent[k] \in Chain[b] /\ Parent[k] \in Chain[k] /\ k \in Chain[Parent[k]]
    BY <1>1, <1>2, <1>3, ChainClosed
  <2>2. Trust[Parent[k]] < Trust[k] /\ Trust[k] \in Nat /\ Trust[Parent[k]] \in Nat
    BY <1>2, <1>3, TreeAssumption
  <2>3. Parent[k] # k
    BY <2>2
  <2> QED BY <1>2, <2>1, <2>3, ChainTrust
<1> QED BY <1>3

(***************************************************************************)
(* The base invariant: types, links and sequence ids.                      *)
(***************************************************************************)

\* Sequence ids stay above the negative ids that preciousblock has given.
SequenceBound ==
    /\ \A b \in Block : nSequenceId[b] >= 0 - commands
    /\ precious.nBlockReverseSequenceId >= -1 - commands

\* Tip, candidates and targets of the threads are blocks with transactions.
HaveTransactions ==
    /\ tip \in nTx
    /\ setBlockIndexCandidates \subseteq nTx
    /\ \A t \in Thread : pindexMostWork[t] \in nTx \cup {NoBlock, Idle}

BaseInv == ChainTypeOK /\ NothingUnlinked /\ SequenceBound /\ HaveTransactions

\* FindMostWorkChain returns a usable candidate.
LEMMA FindResult ==
    ASSUME BaseInv, FindMostWorkChain # NoBlock
    PROVE  /\ FindMostWorkChain \in setBlockIndexCandidates
           /\ Usable(FindMostWorkChain)
           /\ \A c \in setBlockIndexCandidates :
                Usable(c) /\ c # FindMostWorkChain => Worse(c, FindMostWorkChain, nSequenceId)
<1> DEFINE S == {c \in setBlockIndexCandidates : Usable(c)}
<1>1. S # {} /\ FindMostWorkChain = BestOf(S)
  BY DEF FindMostWorkChain
<1>2. \E b \in S : \A a \in S : a # b => Worse(a, b, nSequenceId)
  <2>1. S \in SUBSET Block /\ nSequenceId \in [Block -> Int] /\ commands \in Nat
        /\ \A b \in Block : nSequenceId[b] >= 0 - commands
    BY SetAssumption DEF BaseInv, ChainTypeOK, SequenceBound
  <2> HIDE DEF S
  <2> QED BY <1>1, <2>1, BestExists
<1>3. BestOf(S) \in S /\ \A a \in S : a # BestOf(S) => Worse(a, BestOf(S), nSequenceId)
  <2> HIDE DEF S
  <2> QED BY <1>2 DEF BestOf
<1> QED BY <1>1, <1>3

\* Where a step stops: in the chain of its target, at the lowest stop if there is
\* one.
LEMMA StopResult ==
    ASSUME NEW b \in Block, tip \in Block
    PROVE  /\ StopOf(b) \in Chain[b]
           /\ StopOf(b) # b => StopOf(b) \in Missing(b) /\ StopsAt(StopOf(b))
           /\ \A k \in Missing(b) : StopsAt(k) => StopOf(b) \in Chain[k]
           /\ StopOf(b) \in Missing(b) => StopOf(b) # Genesis
<1> DEFINE S == {k \in Missing(b) : StopsAt(k)}
<1>0. b \in Chain[b] /\ S \in SUBSET Chain[b] /\ Genesis \notin Missing(b)
  BY ChainClosed, GenesisBelow DEF Missing
<1>1. CASE S = {}
  <2>1. StopOf(b) = b
    BY <1>1 DEF StopOf
  <2> QED BY <1>0, <1>1, <2>1
<1>2. CASE S # {}
  <2>1. \E k \in S : \A s \in S : k \in Chain[s]
    <3> HIDE DEF S
    <3> QED BY <1>0, <1>2, LowestOf
  <2>2. StopOf(b) = CHOOSE k \in S : \A s \in S : k \in Chain[s]
    BY <1>2 DEF StopOf
  <2>3. StopOf(b) \in S /\ \A s \in S : StopOf(b) \in Chain[s]
    <3> HIDE DEF S
    <3> QED BY <2>1, <2>2
  <2> QED BY <1>0, <2>3
<1> QED BY <1>1, <1>2

\* What one step towards b does to tip, candidates, marks and target.
LEMMA StepEffect ==
    ASSUME BaseInv, NEW t \in Thread, NEW b \in nTx, NEW cand \in SUBSET nTx,
           ActivateBestChainStep(t, b, cand)
    PROVE  /\ tip' \in Chain[b]
           /\ setBlockIndexCandidates' \subseteq cand
           /\ failedValid \subseteq failedValid'
           /\ failedValid' \subseteq failedValid \cup (Bad \cap Missing(b))
           /\ (failedValid' \ failedValid) \cap Chain[tip'] = {}
           /\ Chain[tip'] \cap Bad \subseteq Chain[tip]
           /\ \A s \in Thread : pindexMostWork'[s] \in {pindexMostWork[s], b, NoBlock, Idle}
           /\ \A s \in Thread \ {t} : pindexMostWork'[s] = pindexMostWork[s]
           /\ pindexMostWork'[t] = b => failedValid' = failedValid
           /\ DOMAIN pindexMostWork' = Thread
           /\ asserted' \in BOOLEAN
<1> DEFINE stop == StopOf(b)
           invalid == stop \in Missing(b) /\ stop \in Bad
           connected == (Chain[stop] \ Chain[tip]) \ Bad
           left == Prune(cand, connected)
           newTip == IF invalid THEN Parent[stop] ELSE stop
<1>0. b \in Block /\ tip \in Block /\ pindexMostWork \in [Thread -> mapBlockIndex \cup {NoBlock, Idle}]
  BY DEF BaseInv, ChainTypeOK
<1>1. /\ tip' = newTip
      /\ asserted' = (connected # {} /\ left = {})
      /\ setBlockIndexCandidates' = IF invalid THEN left \ {stop} ELSE left
      /\ failedValid' = IF invalid THEN failedValid \cup {stop} ELSE failedValid
      /\ pindexMostWork' = [pindexMostWork EXCEPT ![t] = NextTarget(b, invalid, newTip)]
  BY DEF ActivateBestChainStep
<1>2. /\ stop \in Chain[b] /\ stop \in Block
      /\ stop # b => stop \in Missing(b) /\ StopsAt(stop)
      /\ \A k \in Missing(b) : StopsAt(k) => stop \in Chain[k]
      /\ stop \in Missing(b) => stop # Genesis
  BY <1>0, StopResult, ChainClosed
<1>3. left \subseteq cand
  BY DEF Prune, PruneBlockIndexCandidates
<1>4. NextTarget(b, invalid, newTip) \in {b, NoBlock, Idle}
      /\ (invalid => NextTarget(b, invalid, newTip) = NoBlock)
  BY DEF NextTarget
<1> HIDE DEF stop
<1>5. invalid => newTip \in Block /\ newTip \in Chain[b] /\ Chain[newTip] = Chain[stop] \ {stop}
  <2> SUFFICES ASSUME invalid PROVE newTip \in Block /\ newTip \in Chain[b] /\ Chain[newTip] = Chain[stop] \ {stop}
    OBVIOUS
  <2>1. stop \in Block \ {Genesis} /\ newTip = Parent[stop]
    BY <1>2
  <2>2. newTip \in Block /\ Chain[stop] = {stop} \cup Chain[newTip] /\ newTip \in Chain[newTip]
    BY <2>1, ChainStep, ChainClosed
  <2>3. newTip # stop
    BY <2>1, <2>2, TreeAssumption
  <2>4. stop \notin Chain[newTip]
    BY <2>1, <2>2, <2>3, ChainTrust
  <2>5. newTip \in Chain[b]
    BY <1>0, <1>2, <2>2, ChainTransitive
  <2> QED BY <2>2, <2>4, <2>5
<1>6. tip' \in Chain[b] /\ tip' \in Block
  BY <1>1, <1>2, <1>5
<1>7. Chain[tip'] \cap Bad \subseteq Chain[tip]
  <2> SUFFICES ASSUME NEW k \in Chain[tip'], k \in Bad, k \notin Chain[tip]
               PROVE  FALSE
    OBVIOUS
  <2>1. k \in Missing(b) /\ StopsAt(k) /\ k \in Block
    BY <1>0, <1>6, ChainTransitive, ChainClosed DEF Missing, StopsAt
  <2>2. stop \in Chain[k]
    BY <1>2, <2>1
  <2>3. CASE invalid
    <3>1. k \in Chain[stop] /\ k # stop
      BY <1>1, <1>5, <2>3
    <3> QED BY <1>2, <2>2, <3>1, ChainTrust
  <2>4. CASE ~invalid
    <3>1. k \in Chain[stop]
      BY <1>1, <2>4
    <3>2. k = stop
      BY <1>2, <2>2, <3>1, ChainTrust
    <3> QED BY <2>1, <2>4, <3>2
  <2> QED BY <2>3, <2>4
<1>8. (failedValid' \ failedValid) \cap Chain[tip'] = {}
  BY <1>1, <1>5
<1>9. failedValid \subseteq failedValid' /\ failedValid' \subseteq failedValid \cup (Bad \cap Missing(b))
  BY <1>1
<1>10. /\ \A s \in Thread : pindexMostWork'[s] \in {pindexMostWork[s], b, NoBlock, Idle}
       /\ \A s \in Thread \ {t} : pindexMostWork'[s] = pindexMostWork[s]
       /\ DOMAIN pindexMostWork' = Thread
  BY <1>0, <1>1, <1>4
<1>11. pindexMostWork'[t] = b => failedValid' = failedValid
  <2>1. b # NoBlock
    BY <1>0, TreeAssumption
  <2>2. pindexMostWork'[t] = NextTarget(b, invalid, newTip)
    BY <1>0, <1>1
  <2> QED BY <1>1, <1>4, <2>1, <2>2
<1>12. setBlockIndexCandidates' \subseteq cand /\ asserted' \in BOOLEAN
  BY <1>1, <1>3
<1> QED BY <1>6, <1>7, <1>8, <1>9, <1>10, <1>11, <1>12

\* The first state.
LEMMA BaseInit == ChainInit => BaseInv
<1> SUFFICES ASSUME ChainInit PROVE BaseInv
  OBVIOUS
<1> USE TreeAssumption, SetAssumption
<1>1. Chain[Genesis] = {Genesis}
  <2>1. {Genesis} \in SUBSET Block /\ \A x \in {Genesis} \ {Genesis} : Parent[x] \in {Genesis}
    OBVIOUS
  <2>2. Chain[Genesis] \subseteq {Genesis}
    BY <2>1, ChainLeast
  <2> QED BY <2>2, ChainClosed
<1>2. nSequenceId \in [Block -> Int] /\ \A b \in Block : nSequenceId[b] >= 0
  BY DEF ChainInit
<1>3. ChainTypeOK
  <2>1. pindexMostWork \in [Thread -> mapBlockIndex \cup {NoBlock, Idle}] /\ commands \in 0..MaxCommands
    BY DEF ChainInit
  <2>2. precious.nBlockReverseSequenceId \in Int /\ precious.nLastPreciousChainwork \in Nat
        /\ nBlockSequenceId \in Nat
    BY DEF ChainInit
  <2>3. mapBlockIndex \subseteq Block /\ \A b \in mapBlockIndex : Chain[b] \subseteq mapBlockIndex
    BY <1>1 DEF ChainInit
  <2> QED BY <1>2, <2>1, <2>2, <2>3 DEF ChainInit, ChainTypeOK
<1>4. NothingUnlinked
  BY <1>1 DEF ChainInit, NothingUnlinked
<1>5. SequenceBound
  BY <1>2 DEF ChainInit, SequenceBound
<1>6. HaveTransactions
  BY DEF ChainInit, HaveTransactions
<1> QED BY <1>3, <1>4, <1>5, <1>6 DEF BaseInv

\* A new header.
LEMMA BaseHeader ==
    ASSUME BaseInv, NEW t \in Thread, NEW b \in Block, AcceptBlockHeader(t, b)
    PROVE  BaseInv'
<1> USE DEF AcceptBlockHeader, orderVars
<1>1. b # Genesis /\ Parent[b] \in mapBlockIndex
  <2>1. Genesis \in mapBlockIndex
    BY GenesisBelow, ChainClosed DEF BaseInv, ChainTypeOK
  <2> QED BY <2>1 DEF HeaderAccepted
<1>2. Chain[b] \subseteq mapBlockIndex'
  BY <1>1, ChainStep DEF BaseInv, ChainTypeOK
<1>3. ChainTypeOK'
  BY <1>2 DEF BaseInv, ChainTypeOK
<1>4. NothingUnlinked' /\ SequenceBound' /\ HaveTransactions'
  BY DEF BaseInv, NothingUnlinked, SequenceBound, HaveTransactions
<1> QED BY <1>3, <1>4 DEF BaseInv

\* A block.
LEMMA BaseBlock ==
    ASSUME BaseInv, NEW t \in Thread, NEW b \in Block,
           NEW fRequested \in BOOLEAN, NEW fRefused \in BOOLEAN,
           AcceptBlock(t, b, fRequested, fRefused)
    PROVE  BaseInv'
<1>1. b # Genesis /\ HeaderAccepted(b) /\ mapBlockIndex' = mapBlockIndex \cup {b}
      /\ UNCHANGED <<failedChild, tip, asserted, commands>>
  BY DEF AcceptBlock
<1>2. Parent[b] \in mapBlockIndex /\ Chain[b] = {b} \cup Chain[Parent[b]]
  <2>1. Parent[b] \in Chain[b] /\ Chain[b] = {b} \cup Chain[Parent[b]]
    BY <1>1, ChainClosed, ChainStep
  <2> QED BY <1>1, <2>1 DEF HeaderAccepted, BaseInv, ChainTypeOK
<1>3. \A a \in mapBlockIndex' : Chain[a] \subseteq mapBlockIndex'
  BY <1>1, <1>2 DEF BaseInv, ChainTypeOK
<1>4. CASE /\ ParentReady(b) /\ ReceivedBlockTransactions(b)
           /\ pindexMostWork' = [pindexMostWork EXCEPT ![t] = NoBlock]
  <2>1. Parent[b] \in nTx /\ Parent[b] \in nChainTx
    BY <1>4 DEF ParentReady, BaseInv, NothingUnlinked
  <2>2. /\ nTx' = nTx \cup {b} /\ nChainTx' = nChainTx \cup {b}
        /\ nSequenceId' = [nSequenceId EXCEPT ![b] = nBlockSequenceId]
        /\ nBlockSequenceId' = nBlockSequenceId + 1
        /\ setBlockIndexCandidates' = ReceivedCandidates(b, nSequenceId')
        /\ UNCHANGED <<mapBlocksUnlinked, failedValid, precious>>
    BY <1>4, <2>1 DEF ReceivedBlockTransactions
  <2>3. setBlockIndexCandidates' \subseteq setBlockIndexCandidates \cup {b}
    BY <2>2 DEF ReceivedCandidates
  <2>4. ChainTypeOK'
    <3>1. nSequenceId' \in [Block -> Int] /\ nBlockSequenceId' \in Nat
      BY <2>2 DEF BaseInv, ChainTypeOK
    <3>2. pindexMostWork' \in [Thread -> mapBlockIndex' \cup {NoBlock, Idle}]
      BY <1>1, <1>4 DEF BaseInv, ChainTypeOK
    <3>3. mapBlockIndex' \subseteq Block /\ nTx' \subseteq mapBlockIndex' /\ nChainTx' \subseteq nTx'
          /\ mapBlocksUnlinked' \subseteq nTx' /\ setBlockIndexCandidates' \subseteq mapBlockIndex'
          /\ failedValid' \subseteq mapBlockIndex' /\ failedChild' \subseteq mapBlockIndex' /\ tip' \in mapBlockIndex'
      BY <1>1, <2>2, <2>3 DEF BaseInv, ChainTypeOK
    <3> QED BY <1>1, <1>3, <2>2, <3>1, <3>2, <3>3 DEF BaseInv, ChainTypeOK
  <2>5. NothingUnlinked'
    BY <1>2, <2>1, <2>2 DEF BaseInv, NothingUnlinked
  <2>6. SequenceBound'
    BY <1>1, <2>2, SetAssumption DEF BaseInv, ChainTypeOK, SequenceBound
  <2>7. HaveTransactions'
    BY <1>1, <1>4, <2>2, <2>3 DEF BaseInv, ChainTypeOK, HaveTransactions
  <2> QED BY <2>4, <2>5, <2>6, <2>7 DEF BaseInv
<1>5. CASE /\ failedValid' \subseteq failedValid \cup {b}
           /\ pindexMostWork' \in {pindexMostWork, [pindexMostWork EXCEPT ![t] = NoBlock],
                                   [pindexMostWork EXCEPT ![t] = Idle]}
           /\ UNCHANGED <<nTx, nChainTx, mapBlocksUnlinked, orderVars, setBlockIndexCandidates>>
  <2>1. ChainTypeOK'
    BY <1>1, <1>3, <1>5 DEF BaseInv, ChainTypeOK, orderVars
  <2>2. NothingUnlinked' /\ SequenceBound'
    BY <1>1, <1>5 DEF BaseInv, NothingUnlinked, SequenceBound, orderVars
  <2>3. HaveTransactions'
    BY <1>1, <1>5 DEF BaseInv, ChainTypeOK, HaveTransactions
  <2> QED BY <2>1, <2>2, <2>3 DEF BaseInv
<1>6. QED
  BY <1>4, <1>5 DEF AcceptBlock

\* A round of ActivateBestChain.
LEMMA BaseActivate ==
    ASSUME BaseInv, NEW t \in Thread, ActivateBestChain(t)
    PROVE  BaseInv'
<1>1. UNCHANGED <<indexVars, orderVars, commands>> /\ pindexMostWork[t] # Idle
  BY DEF ActivateBestChain
<1>2. GivenUp \subseteq mapBlockIndex
  <2> SUFFICES ASSUME NEW c \in Tried PROVE Given(c) \subseteq mapBlockIndex
    BY DEF GivenUp
  <2>1. c \in mapBlockIndex
    BY DEF Tried, BaseInv, ChainTypeOK
  <2> QED BY <2>1 DEF Given, Missing, BaseInv, ChainTypeOK
<1>3. LeftAfterFind(setBlockIndexCandidates) \subseteq setBlockIndexCandidates
  BY DEF LeftAfterFind
<1>4. ASSUME /\ failedChild' \subseteq mapBlockIndex
             /\ failedValid' \subseteq mapBlockIndex
             /\ setBlockIndexCandidates' \subseteq setBlockIndexCandidates
             /\ tip' \in nTx
             /\ DOMAIN pindexMostWork' = Thread
             /\ pindexMostWork' \in [Thread -> nTx \cup {NoBlock, Idle}]
             /\ asserted' \in BOOLEAN
      PROVE  BaseInv'
  <2>1. ChainTypeOK'
    BY <1>1, <1>4 DEF BaseInv, ChainTypeOK, indexVars, orderVars
  <2>2. NothingUnlinked' /\ SequenceBound'
    BY <1>1 DEF BaseInv, NothingUnlinked, SequenceBound, indexVars, orderVars
  <2>3. HaveTransactions'
    BY <1>1, <1>4 DEF BaseInv, HaveTransactions, indexVars
  <2> QED BY <2>1, <2>2, <2>3 DEF BaseInv
<1>5. ASSUME NEW b \in nTx, NEW cand \in SUBSET setBlockIndexCandidates,
             ActivateBestChainStep(t, b, cand), failedChild' \subseteq mapBlockIndex
      PROVE  BaseInv'
  <2>0. cand \in SUBSET nTx
    BY DEF BaseInv, HaveTransactions
  <2>1. /\ tip' \in Chain[b] /\ setBlockIndexCandidates' \subseteq cand
        /\ failedValid' \subseteq failedValid \cup (Bad \cap Missing(b))
        /\ \A s \in Thread : pindexMostWork'[s] \in {pindexMostWork[s], b, NoBlock, Idle}
        /\ DOMAIN pindexMostWork' = Thread
        /\ asserted' \in BOOLEAN
    BY <1>5, <2>0, StepEffect
  <2>2. Chain[b] \subseteq nTx /\ nTx \subseteq mapBlockIndex /\ failedValid \subseteq mapBlockIndex
    BY DEF BaseInv, ChainTypeOK, NothingUnlinked
  <2>3. failedValid' \subseteq mapBlockIndex
    BY <2>1, <2>2 DEF Missing
  <2>4. pindexMostWork' \in [Thread -> nTx \cup {NoBlock, Idle}]
    <3>1. \E v : pindexMostWork' = [pindexMostWork EXCEPT ![t] = v]
      BY <1>5 DEF ActivateBestChainStep
    <3>2. \A s \in Thread : pindexMostWork'[s] \in nTx \cup {NoBlock, Idle}
      BY <2>1 DEF BaseInv, HaveTransactions
    <3> QED BY <3>1, <3>2 DEF BaseInv, ChainTypeOK
  <2> QED BY <1>4, <1>5, <2>1, <2>2, <2>3, <2>4
<1>6. failedChild' = failedChild \/ failedChild' = failedChild \cup (GivenUp \ Failed)
  BY DEF ActivateBestChain
<1>7. failedChild' \subseteq mapBlockIndex
  BY <1>2, <1>6 DEF BaseInv, ChainTypeOK
<1>8. CASE FindMostWorkChain \notin {NoBlock, tip}
           /\ ActivateBestChainStep(t, FindMostWorkChain, LeftAfterFind(setBlockIndexCandidates))
  <2>1. FindMostWorkChain \in nTx
    BY <1>8, FindResult DEF BaseInv, HaveTransactions
  <2> QED BY <1>3, <1>5, <1>7, <1>8, <2>1
<1>9. CASE pindexMostWork[t] \notin {NoBlock, tip}
           /\ ActivateBestChainStep(t, pindexMostWork[t], setBlockIndexCandidates)
  <2>1. pindexMostWork[t] \in nTx
    BY <1>1, <1>9 DEF BaseInv, HaveTransactions
  <2> QED BY <1>5, <1>7, <1>9, <2>1
<1>10. CASE /\ setBlockIndexCandidates' \subseteq setBlockIndexCandidates
            /\ pindexMostWork' = [pindexMostWork EXCEPT ![t] = Idle]
            /\ UNCHANGED <<tip, asserted, failedValid>>
  <2>1. pindexMostWork' \in [Thread -> nTx \cup {NoBlock, Idle}]
    BY <1>10 DEF BaseInv, ChainTypeOK, HaveTransactions
  <2>2. tip' \in nTx /\ failedValid' \subseteq mapBlockIndex /\ asserted' \in BOOLEAN
    BY <1>10 DEF BaseInv, ChainTypeOK, HaveTransactions
  <2> QED BY <1>4, <1>7, <1>10, <2>1, <2>2
<1> QED BY <1>3, <1>8, <1>9, <1>10 DEF ActivateBestChain

\* What all commands have in common.
LEMMA CommandEffect ==
    ASSUME BaseInv, NEW t \in Thread, NEW c, NEW b \in Block, Command(t, c, b)
    PROVE  /\ ~asserted /\ pindexMostWork[t] = Idle /\ b \in mapBlockIndex /\ c \in Commands
           /\ commands' = commands + 1 /\ commands \in Nat /\ commands' \in 0..MaxCommands
           /\ pindexMostWork' = [pindexMostWork EXCEPT ![t] = NoBlock]
           /\ pindexMostWork' \in [Thread -> mapBlockIndex \cup {NoBlock, Idle}]
           /\ \A s \in Thread : pindexMostWork'[s] \in {pindexMostWork[s], NoBlock}
           /\ (\A r, s \in Thread : r = s) => \A s \in Thread : pindexMostWork'[s] = NoBlock
BY SetAssumption DEF Command, Free, BaseInv, ChainTypeOK

\* invalidateblock
LEMMA BaseInvalidate ==
    ASSUME BaseInv, NEW t \in Thread, NEW b \in Block, InvalidateBlock(t, b)
    PROVE  BaseInv'
<1> DEFINE gone == IF b \in Chain[tip] THEN Chain[tip] \ Chain[Parent[b]] ELSE {}
           newTip == IF gone = {} THEN tip ELSE Parent[b]
           failed == Failed \cup {b} \cup gone
<1>1. /\ b # Genesis /\ Command(t, "invalidateblock", b)
      /\ failedValid' = failedValid \cup {b} /\ failedChild' = failedChild \cup gone
      /\ tip' = newTip
      /\ setBlockIndexCandidates' =
            (setBlockIndexCandidates \ (gone \cup {b})) \cup CandidatesFrom(failed, newTip)
      /\ UNCHANGED <<indexVars, orderVars, asserted>>
  BY DEF InvalidateBlock
<1>2. /\ b \in mapBlockIndex /\ commands' = commands + 1 /\ commands \in Nat /\ commands' \in 0..MaxCommands
      /\ pindexMostWork' \in [Thread -> mapBlockIndex \cup {NoBlock, Idle}]
      /\ \A s \in Thread : pindexMostWork'[s] \in {pindexMostWork[s], NoBlock}
  BY <1>1, CommandEffect
<1>3. gone \subseteq mapBlockIndex /\ newTip \in nTx
  <2>1. tip \in nTx /\ Chain[tip] \subseteq nTx /\ nTx \subseteq mapBlockIndex /\ tip \in Block
    BY DEF BaseInv, HaveTransactions, NothingUnlinked, ChainTypeOK
  <2>2. b \in Chain[tip] => Parent[b] \in Chain[tip]
    BY <1>1, <2>1, ChainClosed
  <2> QED BY <2>1, <2>2
<1>4. setBlockIndexCandidates' \subseteq nTx
  <2>1. CandidatesFrom(failed, newTip) \subseteq nTx
    BY DEF CandidatesFrom, Eligible
  <2> QED BY <1>1, <2>1 DEF BaseInv, HaveTransactions
<1> HIDE DEF gone, newTip, failed
<1>5. ChainTypeOK'
  BY <1>1, <1>2, <1>3, <1>4 DEF BaseInv, ChainTypeOK, indexVars, orderVars
<1>6. NothingUnlinked'
  BY <1>1 DEF BaseInv, NothingUnlinked, indexVars
<1>7. SequenceBound'
  BY <1>1, <1>2 DEF BaseInv, ChainTypeOK, SequenceBound, orderVars
<1>8. HaveTransactions'
  BY <1>1, <1>2, <1>3, <1>4 DEF BaseInv, HaveTransactions, indexVars
<1> QED BY <1>5, <1>6, <1>7, <1>8 DEF BaseInv

\* What reconsiderblock does.
LEMMA ReconsiderEffect ==
    ASSUME NEW t \in Thread, NEW b \in Block, ReconsiderBlock(t, b)
    PROVE  /\ \E c : Command(t, c, b)
           /\ failedValid' \subseteq failedValid /\ failedChild' \subseteq failedChild
           /\ setBlockIndexCandidates \subseteq setBlockIndexCandidates'
           /\ \A k \in setBlockIndexCandidates' \ setBlockIndexCandidates :
                    k \in nTx /\ k \in nChainTx /\ Worse(tip, k, nSequenceId)
           /\ UNCHANGED <<indexVars, orderVars, tip, asserted>>
BY DEF ReconsiderBlock, Eligible

\* reconsiderblock
LEMMA BaseReconsider ==
    ASSUME BaseInv, NEW t \in Thread, NEW b \in Block, ReconsiderBlock(t, b)
    PROVE  BaseInv'
<1>1. /\ \E c : Command(t, c, b)
      /\ failedValid' \subseteq failedValid /\ failedChild' \subseteq failedChild
      /\ setBlockIndexCandidates' \subseteq setBlockIndexCandidates \cup nTx
      /\ UNCHANGED <<indexVars, orderVars, tip, asserted>>
  BY ReconsiderEffect
<1>2. /\ b \in mapBlockIndex /\ commands' = commands + 1 /\ commands \in Nat /\ commands' \in 0..MaxCommands
      /\ pindexMostWork' \in [Thread -> mapBlockIndex \cup {NoBlock, Idle}]
      /\ \A s \in Thread : pindexMostWork'[s] \in {pindexMostWork[s], NoBlock}
  BY <1>1, CommandEffect
<1>3. ChainTypeOK'
  BY <1>1, <1>2 DEF BaseInv, ChainTypeOK, indexVars, orderVars
<1>4. NothingUnlinked'
  BY <1>1 DEF BaseInv, NothingUnlinked, indexVars
<1>5. SequenceBound'
  BY <1>1, <1>2 DEF BaseInv, ChainTypeOK, SequenceBound, orderVars
<1>6. HaveTransactions'
  BY <1>1, <1>2 DEF BaseInv, HaveTransactions, indexVars
<1> QED BY <1>3, <1>4, <1>5, <1>6 DEF BaseInv

\* preciousblock
LEMMA BasePrecious ==
    ASSUME BaseInv, NEW t \in Thread, NEW b \in Block, PreciousBlock(t, b)
    PROVE  BaseInv'
<1>1. /\ Command(t, "preciousblock", b)
      /\ precious' = [nBlockReverseSequenceId |-> ReverseId - 1, nLastPreciousChainwork |-> Trust[tip]]
      /\ nSequenceId' = [nSequenceId EXCEPT ![b] = ReverseId]
      /\ setBlockIndexCandidates' \subseteq
            setBlockIndexCandidates \cup {k \in {b} : Eligible(k, Failed)}
      /\ asserted' \in BOOLEAN
      /\ UNCHANGED <<indexVars, failedValid, failedChild, nBlockSequenceId, tip>>
  BY DEF PreciousBlock, PruneBlockIndexCandidates
<1>2. /\ b \in mapBlockIndex /\ commands' = commands + 1 /\ commands \in Nat /\ commands' \in 0..MaxCommands
      /\ pindexMostWork' \in [Thread -> mapBlockIndex \cup {NoBlock, Idle}]
      /\ \A s \in Thread : pindexMostWork'[s] \in {pindexMostWork[s], NoBlock}
  BY <1>1, CommandEffect
<1>3. ReverseId \in Int /\ ReverseId >= -1 - commands /\ Trust[tip] \in Nat
  <2>1. precious.nBlockReverseSequenceId \in Int /\ precious.nBlockReverseSequenceId >= -1 - commands
        /\ tip \in Block
    BY DEF BaseInv, ChainTypeOK, SequenceBound
  <2> QED BY <1>2, <2>1, TreeAssumption DEF ReverseId
<1>4. setBlockIndexCandidates' \subseteq nTx
  BY <1>1 DEF Eligible, BaseInv, HaveTransactions
<1>5. ChainTypeOK'
  <2>1. nSequenceId' \in [Block -> Int] /\ precious'.nBlockReverseSequenceId \in Int
        /\ precious'.nLastPreciousChainwork \in Nat
    BY <1>1, <1>3 DEF BaseInv, ChainTypeOK
  <2> QED BY <1>1, <1>2, <1>4, <2>1 DEF BaseInv, ChainTypeOK, indexVars
<1>6. NothingUnlinked'
  BY <1>1 DEF BaseInv, NothingUnlinked, indexVars
<1>7. SequenceBound'
  <2>1. ReverseId - 1 >= -1 - commands'
    BY <1>2, <1>3
  <2>2. \A k \in Block : nSequenceId'[k] >= 0 - commands'
    BY <1>1, <1>2, <1>3 DEF BaseInv, ChainTypeOK, SequenceBound
  <2> QED BY <1>1, <2>1, <2>2 DEF SequenceBound
<1>8. HaveTransactions'
  BY <1>1, <1>2, <1>4 DEF BaseInv, HaveTransactions, indexVars
<1> QED BY <1>5, <1>6, <1>7, <1>8 DEF BaseInv

\* No step disturbs the base invariant.
LEMMA BaseNext == BaseInv /\ [ChainNext]_chainVars => BaseInv'
<1> SUFFICES ASSUME BaseInv, [ChainNext]_chainVars PROVE BaseInv'
  OBVIOUS
<1>1. CASE UNCHANGED chainVars
  BY <1>1 DEF chainVars, indexVars, orderVars, BaseInv, ChainTypeOK, NothingUnlinked, SequenceBound,
     HaveTransactions
<1>2. ASSUME NEW t \in Thread, ActivateBestChain(t) PROVE BaseInv'
  BY <1>2, BaseActivate
<1>3. ASSUME NEW t \in Thread, NEW b \in Block,
             \/ AcceptBlockHeader(t, b)
             \/ \E fRequested \in BOOLEAN : AcceptBlock(t, b, fRequested, FALSE)
             \/ \E fRequested \in BOOLEAN : b \in MayRefuse /\ AcceptBlock(t, b, fRequested, TRUE)
             \/ InvalidateBlock(t, b)
             \/ ReconsiderBlock(t, b)
             \/ PreciousBlock(t, b)
      PROVE  BaseInv'
  BY <1>3, BaseHeader, BaseBlock, BaseInvalidate, BaseReconsider, BasePrecious
<1> QED BY <1>1, <1>2, <1>3 DEF ChainNext

\* The base invariant holds in every reachable state.
LEMMA BaseAlways == ChainSpec => []BaseInv
BY BaseInit, BaseNext, PTL DEF ChainSpec

\* The block index keeps its types and stays a tree (mapBlockIndex,
\* setBlockIndexCandidates, chainActive), whatever threads and operator do.
THEOREM ChainTypeCorrect == ChainSpec => []ChainTypeOK
<1>1. BaseInv => ChainTypeOK
  BY DEF BaseInv
<1> QED BY <1>1, BaseAlways, PTL

\* A block with transactions has transactions all the way down to genesis: the
\* check of AcceptBlock makes mapBlocksUnlinked superfluous.
THEOREM LinkedInOrder == ChainSpec => []NothingUnlinked
<1>1. BaseInv => NothingUnlinked
  BY DEF BaseInv
<1> QED BY <1>1, BaseAlways, PTL

(***************************************************************************)
(* Marked blocks and the active chain.                                     *)
(***************************************************************************)

\* Only one thread of the node ever calls ActivateBestChain.
SingleThread == \A s, t \in Thread : s = t

\* With one thread nothing can be marked while the thread is between two steps:
\* the target it holds is still unmarked.
TargetUnmarked ==
    ~asserted => /\ Chain[tip] \cap Failed = {}
                 /\ \A t \in Thread : pindexMostWork[t] \in Block => Chain[pindexMostWork[t]] \cap Failed = {}

\* The operator does not use invalidateblock.
NoInvalidate == "invalidateblock" \notin Commands

\* Without invalidateblock a stored block is marked only because it, or a block
\* below it, is invalid; such a block cannot be connected by any thread.
MarkedForCause ==
    /\ Chain[tip] \cap Bad = {}
    /\ \A b \in Failed \cap nTx : Chain[b] \cap Bad # {}

\* A block that FindMostWorkChain gives up lies above a marked block outside the
\* active chain.
LEMMA GivenUpAbove ==
    ASSUME BaseInv, NEW k \in GivenUp
    PROVE  k \in Block /\ k \notin Chain[tip] /\ \E f \in Failed : f \in Chain[k] /\ f \in nTx
<1>1. PICK c \in Tried : k \in Given(c)
  BY DEF GivenUp
<1>2. c \in nTx /\ c \in Block /\ Missing(c) \cap Failed # {}
  BY DEF Tried, Usable, BaseInv, HaveTransactions, ChainTypeOK
<1>3. PICK f \in Failed : f \in Missing(c)
  BY <1>2
<1>4. k \in Missing(c) /\ f \in Chain[k]
  BY <1>1, <1>3 DEF Given, Missing
<1>5. Chain[c] \subseteq nTx /\ Chain[c] \subseteq Block
  BY <1>2, ChainClosed DEF BaseInv, NothingUnlinked
<1> QED BY <1>3, <1>4, <1>5 DEF Missing

\* A step towards an unmarked chain keeps the active chain unmarked.
LEMMA StepUnmarked ==
    ASSUME BaseInv, SingleThread, NEW t \in Thread, NEW b \in nTx, NEW cand \in SUBSET nTx,
           Chain[b] \cap Failed = {}, ActivateBestChainStep(t, b, cand),
           failedChild' \subseteq failedChild \cup GivenUp
    PROVE  TargetUnmarked'
<1>0. b \in Block /\ Chain[b] \subseteq Block
  BY ChainClosed DEF BaseInv, ChainTypeOK
<1>1. /\ tip' \in Chain[b]
      /\ failedValid \subseteq failedValid'
      /\ (failedValid' \ failedValid) \cap Chain[tip'] = {}
      /\ pindexMostWork'[t] \in {pindexMostWork[t], b, NoBlock, Idle}
      /\ pindexMostWork'[t] = b => failedValid' = failedValid
  BY StepEffect
<1>2. Chain[b] \cap GivenUp = {}
  <2> SUFFICES ASSUME NEW k \in GivenUp, k \in Chain[b] PROVE FALSE
    OBVIOUS
  <2>1. PICK f \in Failed : f \in Chain[k]
    BY GivenUpAbove
  <2> QED BY <1>0, <2>1, ChainTransitive
<1>3. Chain[b] \cap failedChild' = {}
  BY <1>2 DEF Failed
<1>4. Chain[tip'] \cap Failed' = {}
  <2>1. Chain[tip'] \subseteq Chain[b]
    BY <1>0, <1>1, ChainTransitive
  <2> QED BY <1>1, <1>3, <2>1 DEF Failed
<1>5. pindexMostWork'[t] \in {b, NoBlock, Idle}
  <2>1. \E x, y : pindexMostWork' = [pindexMostWork EXCEPT ![t] = NextTarget(b, x, y)]
    BY DEF ActivateBestChainStep
  <2> QED BY <2>1 DEF NextTarget, BaseInv, ChainTypeOK
<1>6. pindexMostWork'[t] \in Block => Chain[pindexMostWork'[t]] \cap Failed' = {}
  BY <1>1, <1>3, <1>5, TreeAssumption, SetAssumption DEF Failed
<1> QED BY <1>4, <1>6 DEF TargetUnmarked, SingleThread

\* A round of ActivateBestChain of the only thread.
LEMMA ActivateUnmarked ==
    ASSUME BaseInv, SingleThread, TargetUnmarked, NEW t \in Thread, ActivateBestChain(t)
    PROVE  TargetUnmarked'
<1>0. ~asserted /\ pindexMostWork[t] # Idle /\ Chain[tip] \cap Failed = {} /\ tip \in Block
  BY DEF ActivateBestChain, TargetUnmarked, BaseInv, ChainTypeOK
<1>1. setBlockIndexCandidates \in SUBSET nTx /\ LeftAfterFind(setBlockIndexCandidates) \in SUBSET nTx
  BY DEF LeftAfterFind, BaseInv, HaveTransactions
<1>2. failedChild' \subseteq failedChild \cup GivenUp
  BY DEF ActivateBestChain
<1>3. CASE FindMostWorkChain \notin {NoBlock, tip}
           /\ ActivateBestChainStep(t, FindMostWorkChain, LeftAfterFind(setBlockIndexCandidates))
  <2>1. FindMostWorkChain \in nTx /\ Usable(FindMostWorkChain)
    BY <1>1, <1>3, FindResult
  <2>2. Chain[FindMostWorkChain] \cap Failed = {}
    BY <1>0, <2>1 DEF Usable, Missing
  <2> QED BY <1>1, <1>2, <1>3, <2>1, <2>2, StepUnmarked
<1>4. CASE pindexMostWork[t] \notin {NoBlock, tip}
           /\ ActivateBestChainStep(t, pindexMostWork[t], setBlockIndexCandidates)
  <2>1. pindexMostWork[t] \in nTx /\ pindexMostWork[t] \in Block
    BY <1>0, <1>4 DEF BaseInv, HaveTransactions, ChainTypeOK
  <2>2. Chain[pindexMostWork[t]] \cap Failed = {}
    BY <1>0, <2>1 DEF TargetUnmarked
  <2> QED BY <1>1, <1>2, <1>4, <2>1, <2>2, StepUnmarked
<1>5. CASE pindexMostWork' = [pindexMostWork EXCEPT ![t] = Idle] /\ UNCHANGED <<tip, failedValid>>
  <2>1. Chain[tip'] \cap Failed' = {}
    BY <1>0, <1>2, <1>5, GivenUpAbove DEF Failed
  <2>2. pindexMostWork'[t] = Idle /\ Idle \notin Block
    BY <1>5, SetAssumption DEF BaseInv, ChainTypeOK
  <2> QED BY <2>1, <2>2 DEF TargetUnmarked, SingleThread
<1> QED BY <1>3, <1>4, <1>5 DEF ActivateBestChain

\* AcceptBlock marks only blocks without transactions, which are not in the
\* active chain, and never stores a marked block.
LEMMA BlockMarks ==
    ASSUME BaseInv, NEW t \in Thread, NEW b \in Block,
           NEW fRequested \in BOOLEAN, NEW fRefused \in BOOLEAN,
           AcceptBlock(t, b, fRequested, fRefused)
    PROVE  /\ ~asserted /\ UNCHANGED <<tip, failedChild, asserted>>
           /\ pindexMostWork'[t] \in {NoBlock, Idle}
           /\ nTx' \subseteq nTx \cup {b} /\ nTx \subseteq nTx'
           /\ failedValid' \subseteq failedValid \cup {b} /\ b \notin Failed
           /\ nTx' = nTx \/ failedValid' = failedValid
           /\ failedValid' = failedValid \/ b \notin nTx
<1>1. b \notin Failed
  <2>1. Failed \subseteq mapBlockIndex
    BY DEF BaseInv, ChainTypeOK, Failed
  <2> QED BY <2>1 DEF AcceptBlock, HeaderAccepted
<1> QED BY <1>1 DEF AcceptBlock, ReceivedBlockTransactions, Wanted, Free, BaseInv, ChainTypeOK

\* No step of a node with one thread disturbs TargetUnmarked.
LEMMA UnmarkedNext ==
    ASSUME BaseInv, SingleThread, TargetUnmarked, [ChainNext]_chainVars
    PROVE  TargetUnmarked'
<1>0. NoBlock \notin Block /\ Idle \notin Block
  BY TreeAssumption, SetAssumption
<1>1. CASE UNCHANGED chainVars
  BY <1>1 DEF chainVars, TargetUnmarked, Failed
<1>2. ASSUME NEW t \in Thread, ActivateBestChain(t) PROVE TargetUnmarked'
  BY <1>2, ActivateUnmarked
<1>3. ASSUME NEW t \in Thread, NEW b \in Block, AcceptBlockHeader(t, b) PROVE TargetUnmarked'
  BY <1>3 DEF AcceptBlockHeader, TargetUnmarked, Failed
<1>4. ASSUME NEW t \in Thread, NEW b \in Block, NEW r \in BOOLEAN, NEW f \in BOOLEAN,
             AcceptBlock(t, b, r, f)
      PROVE  TargetUnmarked'
  <2>1. /\ ~asserted /\ UNCHANGED <<tip, failedChild, asserted>>
        /\ pindexMostWork'[t] \in {NoBlock, Idle}
        /\ failedValid' \subseteq failedValid \cup {b}
        /\ failedValid' = failedValid \/ b \notin nTx
    BY <1>4, BlockMarks
  <2>2. Chain[tip] \subseteq nTx
    BY DEF BaseInv, HaveTransactions, NothingUnlinked
  <2>3. Chain[tip'] \cap Failed' = {}
    BY <2>1, <2>2 DEF TargetUnmarked, Failed
  <2> QED BY <1>0, <2>1, <2>3 DEF TargetUnmarked, SingleThread
<1>5. ASSUME NEW t \in Thread, NEW b \in Block, InvalidateBlock(t, b) PROVE TargetUnmarked'
  <2> DEFINE gone == IF b \in Chain[tip] THEN Chain[tip] \ Chain[Parent[b]] ELSE {}
             newTip == IF gone = {} THEN tip ELSE Parent[b]
  <2>1. /\ b # Genesis /\ Command(t, "invalidateblock", b)
        /\ failedValid' = failedValid \cup {b} /\ failedChild' = failedChild \cup gone
        /\ tip' = newTip
    BY <1>5 DEF InvalidateBlock
  <2>2. ~asserted /\ \A s \in Thread : pindexMostWork'[s] = NoBlock
    BY <2>1, CommandEffect DEF SingleThread
  <2>3. tip \in Block /\ Chain[tip] \cap Failed = {}
    BY <2>2 DEF TargetUnmarked, BaseInv, ChainTypeOK
  <2>4. b \in Chain[tip] => Parent[b] \in Block /\ b \in gone /\ Chain[Parent[b]] \subseteq Chain[tip]
                            /\ b \notin Chain[Parent[b]]
    <3> SUFFICES ASSUME b \in Chain[tip]
                 PROVE  Parent[b] \in Block /\ b \in gone /\ Chain[Parent[b]] \subseteq Chain[tip]
                        /\ b \notin Chain[Parent[b]]
      OBVIOUS
    <3>1. Parent[b] \in Block /\ Parent[b] \in Chain[b] /\ Parent[b] \in Chain[tip] /\ Parent[b] # b
      BY <2>1, <2>3, ChainClosed, ChainStep, TreeAssumption
    <3>2. b \notin Chain[Parent[b]] /\ Chain[Parent[b]] \subseteq Chain[tip]
      BY <2>3, <3>1, ChainTrust, ChainTransitive
    <3> QED BY <3>1, <3>2
  <2>5. Chain[tip'] \cap Failed' = {}
    BY <2>1, <2>3, <2>4 DEF Failed
  <2> QED BY <1>0, <2>2, <2>5 DEF TargetUnmarked
<1>6. ASSUME NEW t \in Thread, NEW b \in Block, ReconsiderBlock(t, b) PROVE TargetUnmarked'
  <2>1. /\ \E c : Command(t, c, b)
        /\ failedValid' \subseteq failedValid /\ failedChild' \subseteq failedChild /\ tip' = tip
    BY <1>6, ReconsiderEffect
  <2>2. ~asserted /\ \A s \in Thread : pindexMostWork'[s] = NoBlock
    BY <2>1, CommandEffect DEF SingleThread
  <2> QED BY <1>0, <2>1, <2>2 DEF TargetUnmarked, Failed
<1>7. ASSUME NEW t \in Thread, NEW b \in Block, PreciousBlock(t, b) PROVE TargetUnmarked'
  <2>1. Command(t, "preciousblock", b) /\ UNCHANGED <<failedValid, failedChild, tip>>
    BY <1>7 DEF PreciousBlock
  <2>2. ~asserted /\ \A s \in Thread : pindexMostWork'[s] = NoBlock
    BY <2>1, CommandEffect DEF SingleThread
  <2> QED BY <1>0, <2>1, <2>2 DEF TargetUnmarked, Failed
<1> QED BY <1>1, <1>2, <1>3, <1>4, <1>5, <1>6, <1>7 DEF ChainNext

\* No step disturbs MarkedForCause while invalidateblock is not used.
LEMMA CauseNext ==
    ASSUME BaseInv, NoInvalidate, MarkedForCause, [ChainNext]_chainVars
    PROVE  MarkedForCause'
<1>0. nTx \subseteq Block /\ tip \in Block /\ Failed \subseteq Block
  BY DEF BaseInv, ChainTypeOK, Failed
<1>1. CASE UNCHANGED chainVars
  BY <1>1 DEF chainVars, indexVars, MarkedForCause, Failed
<1>2. ASSUME NEW t \in Thread, ActivateBestChain(t) PROVE MarkedForCause'
  <2>1. nTx' = nTx /\ failedChild' \subseteq failedChild \cup GivenUp /\ pindexMostWork[t] # Idle
    BY <1>2 DEF ActivateBestChain, indexVars
  <2>2. \A k \in GivenUp : Chain[k] \cap Bad # {}
    <3> SUFFICES ASSUME NEW k \in GivenUp PROVE Chain[k] \cap Bad # {}
      OBVIOUS
    <3>1. PICK f \in Failed : k \in Block /\ f \in Chain[k] /\ f \in nTx
      BY GivenUpAbove
    <3>2. Chain[f] \cap Bad # {} /\ Chain[f] \subseteq Chain[k]
      BY <3>1, ChainTransitive DEF MarkedForCause
    <3> QED BY <3>2
  <2>3. /\ failedValid' \subseteq failedValid \cup Bad
        /\ Chain[tip'] \cap Bad \subseteq Chain[tip]
    <3>1. CASE FindMostWorkChain \notin {NoBlock, tip}
               /\ ActivateBestChainStep(t, FindMostWorkChain, LeftAfterFind(setBlockIndexCandidates))
      <4>1. FindMostWorkChain \in nTx /\ LeftAfterFind(setBlockIndexCandidates) \in SUBSET nTx
        BY <3>1, FindResult DEF LeftAfterFind, BaseInv, HaveTransactions
      <4> QED BY <3>1, <4>1, StepEffect
    <3>2. CASE pindexMostWork[t] \notin {NoBlock, tip}
               /\ ActivateBestChainStep(t, pindexMostWork[t], setBlockIndexCandidates)
      <4>1. pindexMostWork[t] \in nTx /\ setBlockIndexCandidates \in SUBSET nTx
        BY <2>1, <3>2 DEF BaseInv, HaveTransactions
      <4> QED BY <3>2, <4>1, StepEffect
    <3>3. CASE UNCHANGED <<tip, failedValid>>
      BY <3>3
    <3> QED BY <1>2, <3>1, <3>2, <3>3 DEF ActivateBestChain
  <2>4. \A b \in Block \cap Bad : b \in Chain[b]
    BY ChainClosed
  <2> QED BY <1>0, <2>1, <2>2, <2>3, <2>4 DEF MarkedForCause, Failed
<1>3. ASSUME NEW t \in Thread, NEW b \in Block, AcceptBlockHeader(t, b) PROVE MarkedForCause'
  BY <1>3 DEF AcceptBlockHeader, MarkedForCause, Failed
<1>4. ASSUME NEW t \in Thread, NEW b \in Block, NEW r \in BOOLEAN, NEW f \in BOOLEAN,
             AcceptBlock(t, b, r, f)
      PROVE  MarkedForCause'
  <2>1. /\ UNCHANGED <<tip, failedChild>>
        /\ nTx' \subseteq nTx \cup {b}
        /\ failedValid' \subseteq failedValid \cup {b} /\ b \notin Failed
        /\ nTx' = nTx \/ failedValid' = failedValid
        /\ failedValid' = failedValid \/ b \notin nTx
    BY <1>4, BlockMarks
  <2> QED BY <2>1 DEF MarkedForCause, Failed
<1>5. ASSUME NEW t \in Thread, NEW b \in Block, InvalidateBlock(t, b) PROVE FALSE
  BY <1>5 DEF InvalidateBlock, Command, NoInvalidate
<1>6. ASSUME NEW t \in Thread, NEW b \in Block, ReconsiderBlock(t, b) PROVE MarkedForCause'
  <2>1. failedValid' \subseteq failedValid /\ failedChild' \subseteq failedChild /\ tip' = tip /\ nTx' = nTx
    BY <1>6, ReconsiderEffect DEF indexVars
  <2> QED BY <2>1 DEF MarkedForCause, Failed
<1>7. ASSUME NEW t \in Thread, NEW b \in Block, PreciousBlock(t, b) PROVE MarkedForCause'
  BY <1>7 DEF PreciousBlock, indexVars, MarkedForCause, Failed
<1> QED BY <1>1, <1>2, <1>3, <1>4, <1>5, <1>6, <1>7 DEF ChainNext

\* The invariant of both cases.
MarkInv == (SingleThread => TargetUnmarked) /\ (NoInvalidate => MarkedForCause)

\* Both cases keep marked blocks out of the active chain.
LEMMA MarkInvUse ==
    ASSUME BaseInv, MarkInv, SingleThread \/ NoInvalidate
    PROVE  NoFailedActive
<1>1. CASE SingleThread
  BY <1>1 DEF MarkInv, TargetUnmarked, NoFailedActive
<1>2. CASE NoInvalidate
  <2> SUFFICES ASSUME NEW k \in Chain[tip], k \in Failed PROVE FALSE
    BY DEF NoFailedActive
  <2>1. tip \in Block /\ k \in nTx
    BY DEF BaseInv, ChainTypeOK, HaveTransactions, NothingUnlinked
  <2>2. Chain[k] \cap Bad # {} /\ Chain[k] \subseteq Chain[tip]
    BY <1>2, <2>1, ChainTransitive DEF MarkInv, MarkedForCause
  <2> QED BY <1>2, <2>2 DEF MarkInv, MarkedForCause
<1> QED BY <1>1, <1>2

\* The invariant of marked blocks holds in every reachable state.
LEMMA MarkAlways == ChainSpec => []MarkInv
<1>1. ChainInit => MarkInv
  <2> SUFFICES ASSUME ChainInit PROVE MarkInv
    OBVIOUS
  <2>1. Failed = {} /\ tip = Genesis /\ \A t \in Thread : pindexMostWork[t] = Idle
    BY DEF ChainInit, Failed
  <2>2. Chain[Genesis] \cap Bad = {}
    <3>1. {Genesis} \in SUBSET Block /\ \A x \in {Genesis} \ {Genesis} : Parent[x] \in {Genesis}
      BY TreeAssumption
    <3>2. Chain[Genesis] \subseteq {Genesis}
      BY <3>1, ChainLeast
    <3> QED BY <3>2, SetAssumption
  <2> QED BY <2>1, <2>2, SetAssumption DEF MarkInv, TargetUnmarked, MarkedForCause
<1>2. BaseInv /\ MarkInv /\ [ChainNext]_chainVars => MarkInv'
  BY UnmarkedNext, CauseNext DEF MarkInv, SingleThread, NoInvalidate
<1> QED BY <1>1, <1>2, BaseAlways, PTL DEF ChainSpec

\* No marked block is in the active chain, provided that one thread alone calls
\* ActivateBestChain or that the operator does not use invalidateblock.  (The
\* proviso is needed: between two steps of ActivateBestChain invalidateblock can
\* mark the target of another thread.)
THEOREM MarkedNotActive ==
    ChainSpec => [](SingleThread \/ NoInvalidate => NoFailedActive)
<1>1. BaseInv /\ MarkInv => (SingleThread \/ NoInvalidate => NoFailedActive)
  BY MarkInvUse
<1> QED BY <1>1, BaseAlways, MarkAlways, PTL

(***************************************************************************)
(* The candidates.                                                         *)
(***************************************************************************)

\* CBlockIndexWorkComparator is irreflexive and asymmetric, and follows trust.
LEMMA WorseFacts ==
    ASSUME NEW a \in Block, NEW b \in Block, NEW seq \in [Block -> Int]
    PROVE  /\ ~Worse(a, a, seq)
           /\ Worse(a, b, seq) => ~Worse(b, a, seq)
           /\ ~Worse(a, b, seq) => Trust[a] >= Trust[b]
           /\ Trust[a] > Trust[b] => ~Worse(a, b, seq)
<1>1. Trust[a] \in Nat /\ Trust[b] \in Nat /\ Address[a] \in Nat /\ Address[b] \in Nat
      /\ seq[a] \in Int /\ seq[b] \in Int
  BY TreeAssumption
<1> QED BY <1>1 DEF Worse

\* A candidate that is not worse than a tip is not worse than the blocks below it.
LEMMA NotWorseBelow ==
    ASSUME NEW c \in Block, NEW b \in Block, NEW a \in Chain[b], NEW seq \in [Block -> Int],
           ~Worse(c, b, seq)
    PROVE  ~Worse(c, a, seq)
<1>1. CASE a = b
  BY <1>1
<1>2. CASE a # b
  <2>1. a \in Block /\ Trust[a] < Trust[b]
    BY <1>2, ChainTrust
  <2>2. Trust[c] >= Trust[b]
    BY WorseFacts
  <2>3. Trust[c] > Trust[a]
    BY <2>1, <2>2, TreeAssumption
  <2> QED BY <2>1, <2>3, WorseFacts
<1> QED BY <1>1, <1>2

\* After a step the tip is in the old active chain, or no candidate is worse.
LEMMA StepCandidates ==
    ASSUME BaseInv, NEW t \in Thread, NEW b \in nTx, NEW cand \in SUBSET nTx,
           ActivateBestChainStep(t, b, cand)
    PROVE  \/ tip' \in Chain[tip]
           \/ \A c \in setBlockIndexCandidates' : ~Worse(c, tip', nSequenceId)
<1> SUFFICES ASSUME tip' \notin Chain[tip]
             PROVE  \A c \in setBlockIndexCandidates' : ~Worse(c, tip', nSequenceId)
  OBVIOUS
<1> DEFINE stop == StopOf(b)
           invalid == stop \in Missing(b) /\ stop \in Bad
           connected == (Chain[stop] \ Chain[tip]) \ Bad
           left == Prune(cand, connected)
<1>1. /\ tip' = IF invalid THEN Parent[stop] ELSE stop
      /\ setBlockIndexCandidates' \subseteq left
  BY DEF ActivateBestChainStep
<1>2. b \in Block /\ tip \in Block
  BY DEF BaseInv, ChainTypeOK
<1>3. stop \in Block /\ (stop \in Missing(b) => stop # Genesis)
  BY <1>2, StopResult, ChainClosed
<1>4. tip' \in Chain[b] /\ Chain[tip'] \cap Bad \subseteq Chain[tip]
  BY StepEffect
<1>5. tip' \in Chain[tip'] /\ tip' \notin Bad
  BY <1>2, <1>4, ChainClosed
<1>6. tip' \in Chain[stop]
  <2> HIDE DEF stop
  <2> QED BY <1>1, <1>3, ChainClosed
<1>7. tip' \in connected
  BY <1>5, <1>6
<1> QED BY <1>1, <1>7 DEF Prune, PruneBlockIndexCandidates

\* The operator does not use preciousblock.
NoPrecious == "preciousblock" \notin Commands

\* No step lets a candidate become worse than the tip.
LEMMA CandidatesNext ==
    ASSUME BaseInv, BaseInv', CandidatesNotWorse, [ChainNext]_chainVars,
           NoFailedActive \/ NoPrecious
    PROVE  CandidatesNotWorse'
<1>0. /\ setBlockIndexCandidates \subseteq nTx /\ nTx \subseteq Block /\ tip \in nTx
      /\ nSequenceId \in [Block -> Int] /\ nSequenceId' \in [Block -> Int]
      /\ setBlockIndexCandidates' \subseteq nChainTx'
      /\ tip' \in Block
  BY DEF BaseInv, ChainTypeOK, HaveTransactions, NothingUnlinked
<1>1. SUFFICES \A c \in setBlockIndexCandidates' : ~Worse(c, tip', nSequenceId')
  BY <1>0 DEF CandidatesNotWorse
<1>2. \A c \in setBlockIndexCandidates : ~Worse(c, tip, nSequenceId)
  BY DEF CandidatesNotWorse
<1>3. CASE UNCHANGED chainVars
  BY <1>2, <1>3 DEF chainVars, orderVars
<1>4. ASSUME NEW t \in Thread, ActivateBestChain(t)
      PROVE  \A c \in setBlockIndexCandidates' : ~Worse(c, tip', nSequenceId')
  <2>1. nSequenceId' = nSequenceId /\ pindexMostWork[t] # Idle
    BY <1>4 DEF ActivateBestChain, orderVars
  <2>2. LeftAfterFind(setBlockIndexCandidates) \subseteq setBlockIndexCandidates
    BY DEF LeftAfterFind
  <2>3. ASSUME NEW b \in nTx, NEW cand \in SUBSET setBlockIndexCandidates,
               ActivateBestChainStep(t, b, cand)
        PROVE  \A c \in setBlockIndexCandidates' : ~Worse(c, tip', nSequenceId')
    <3>1. cand \in SUBSET nTx
      BY <1>0
    <3>2. setBlockIndexCandidates' \subseteq cand
      BY <2>3, <3>1, StepEffect
    <3>3. CASE tip' \in Chain[tip]
      BY <1>0, <1>2, <2>1, <3>2, <3>3, NotWorseBelow
    <3>4. CASE tip' \notin Chain[tip]
      BY <2>1, <2>3, <3>1, <3>4, StepCandidates
    <3> QED BY <3>3, <3>4
  <2>4. CASE FindMostWorkChain \notin {NoBlock, tip}
             /\ ActivateBestChainStep(t, FindMostWorkChain, LeftAfterFind(setBlockIndexCandidates))
    <3>1. FindMostWorkChain \in nTx
      BY <1>0, <2>4, FindResult
    <3> QED BY <2>2, <2>3, <2>4, <3>1
  <2>5. CASE pindexMostWork[t] \notin {NoBlock, tip}
             /\ ActivateBestChainStep(t, pindexMostWork[t], setBlockIndexCandidates)
    <3>1. pindexMostWork[t] \in nTx
      BY <2>1, <2>5 DEF BaseInv, HaveTransactions
    <3> QED BY <2>3, <2>5, <3>1
  <2>6. CASE tip' = tip /\ setBlockIndexCandidates' \subseteq setBlockIndexCandidates
    BY <1>2, <2>1, <2>6
  <2> QED BY <1>4, <2>2, <2>4, <2>5, <2>6 DEF ActivateBestChain
<1>5. ASSUME NEW t \in Thread, NEW b \in Block, AcceptBlockHeader(t, b)
      PROVE  \A c \in setBlockIndexCandidates' : ~Worse(c, tip', nSequenceId')
  BY <1>2, <1>5 DEF AcceptBlockHeader, orderVars
<1>6. ASSUME NEW t \in Thread, NEW b \in Block, NEW r \in BOOLEAN, NEW f \in BOOLEAN,
             AcceptBlock(t, b, r, f)
      PROVE  \A c \in setBlockIndexCandidates' : ~Worse(c, tip', nSequenceId')
  <2>1. tip' = tip
    BY <1>6 DEF AcceptBlock
  <2>2. CASE UNCHANGED <<nSequenceId, setBlockIndexCandidates>>
    BY <1>2, <2>1, <2>2
  <2>3. CASE /\ b \notin nTx
             /\ nSequenceId' = [nSequenceId EXCEPT ![b] = nBlockSequenceId]
             /\ setBlockIndexCandidates' = ReceivedCandidates(b, nSequenceId')
    <3>1. \A c \in nTx : nSequenceId'[c] = nSequenceId[c]
      BY <1>0, <2>3
    <3>2. \A c \in setBlockIndexCandidates : ~Worse(c, tip, nSequenceId')
      BY <1>0, <1>2, <3>1 DEF Worse
    <3> QED BY <2>1, <2>3, <3>2 DEF ReceivedCandidates
  <2> QED BY <1>6, <2>2, <2>3 DEF AcceptBlock, ReceivedBlockTransactions, Wanted, orderVars
<1>7. ASSUME NEW t \in Thread, NEW b \in Block, InvalidateBlock(t, b)
      PROVE  \A c \in setBlockIndexCandidates' : ~Worse(c, tip', nSequenceId')
  <2> DEFINE gone == IF b \in Chain[tip] THEN Chain[tip] \ Chain[Parent[b]] ELSE {}
             newTip == IF gone = {} THEN tip ELSE Parent[b]
             failed == Failed \cup {b} \cup gone
  <2>1. /\ b # Genesis /\ tip' = newTip /\ nSequenceId' = nSequenceId
        /\ setBlockIndexCandidates' =
                (setBlockIndexCandidates \ (gone \cup {b})) \cup CandidatesFrom(failed, newTip)
    BY <1>7 DEF InvalidateBlock, orderVars
  <2>2. newTip \in Chain[tip]
    BY <1>0, <2>1, ChainClosed
  <2>3. \A c \in setBlockIndexCandidates : ~Worse(c, newTip, nSequenceId)
    <3> HIDE DEF newTip
    <3> QED BY <1>0, <1>2, <2>2, NotWorseBelow
  <2>4. \A c \in CandidatesFrom(failed, newTip) : ~Worse(c, newTip, nSequenceId)
    BY DEF CandidatesFrom
  <2> HIDE DEF newTip, gone, failed
  <2> QED BY <2>1, <2>3, <2>4
<1>8. ASSUME NEW t \in Thread, NEW b \in Block, ReconsiderBlock(t, b)
      PROVE  \A c \in setBlockIndexCandidates' : ~Worse(c, tip', nSequenceId')
  <2>1. /\ \A k \in setBlockIndexCandidates' \ setBlockIndexCandidates :
                k \in nTx /\ Worse(tip, k, nSequenceId)
        /\ tip' = tip /\ nSequenceId' = nSequenceId
    BY <1>8, ReconsiderEffect DEF orderVars
  <2> QED BY <1>0, <1>2, <2>1, WorseFacts
<1>9. ASSUME NEW t \in Thread, NEW b \in Block, PreciousBlock(t, b)
      PROVE  \A c \in setBlockIndexCandidates' : ~Worse(c, tip', nSequenceId')
  <2> DEFINE seq == [nSequenceId EXCEPT ![b] = ReverseId]
             cand == PruneBlockIndexCandidates(setBlockIndexCandidates \cup {b}, {tip}, seq)
  <2>1. /\ tip' = tip /\ nSequenceId' = seq /\ ~asserted /\ "preciousblock" \in Commands
        /\ setBlockIndexCandidates' = IF Eligible(b, Failed) THEN cand
                                      ELSE setBlockIndexCandidates \ {b}
    BY <1>9 DEF PreciousBlock, Command, Free
  <2>2. CASE Eligible(b, Failed)
    BY <2>1, <2>2 DEF PruneBlockIndexCandidates
  <2>3. CASE ~Eligible(b, Failed)
    <3>1. tip \notin Failed /\ tip \in nChainTx
      BY <1>0, <2>1, ChainClosed DEF NoFailedActive, NoPrecious, BaseInv, NothingUnlinked
    <3>2. b # tip
      BY <1>0, <2>3, <3>1 DEF Eligible
    <3>3. \A c \in nTx \ {b} : seq[c] = nSequenceId[c]
      BY <1>0
    <3> HIDE DEF seq
    <3>4. \A c \in setBlockIndexCandidates \ {b} : ~Worse(c, tip, seq)
      BY <1>0, <1>2, <3>2, <3>3 DEF Worse
    <3> QED BY <2>1, <2>3, <3>4
  <2> QED BY <2>2, <2>3
<1> QED BY <1>3, <1>4, <1>5, <1>6, <1>7, <1>8, <1>9 DEF ChainNext

\* "If this block sorts worse than the current tip or some ancestor's block has
\* never been seen, it cannot be in setBlockIndexCandidates" (CheckBlockIndex),
\* provided that no marked block can be active (see MarkedNotActive) or that the
\* operator does not use preciousblock, which moves a marked tip in the order
\* without removing the candidates it overtakes.
THEOREM CandidatesCorrect ==
    ChainSpec => [](SingleThread \/ NoInvalidate \/ NoPrecious => CandidatesNotWorse)
<1> DEFINE J == SingleThread \/ NoInvalidate \/ NoPrecious => CandidatesNotWorse
<1>1. ChainInit => J
  <2> SUFFICES ASSUME ChainInit PROVE CandidatesNotWorse
    OBVIOUS
  <2>1. /\ setBlockIndexCandidates = {Genesis} /\ tip = Genesis /\ nChainTx = {Genesis}
        /\ Genesis \in Block /\ nSequenceId \in [Block -> Int]
    BY TreeAssumption DEF ChainInit
  <2> QED BY <2>1, WorseFacts DEF CandidatesNotWorse
<1>2. BaseInv /\ BaseInv' /\ MarkInv /\ J /\ [ChainNext]_chainVars => J'
  <2> SUFFICES ASSUME BaseInv, BaseInv', MarkInv, J, [ChainNext]_chainVars,
                      SingleThread \/ NoInvalidate \/ NoPrecious
               PROVE  CandidatesNotWorse'
    BY DEF SingleThread, NoInvalidate, NoPrecious
  <2>1. NoFailedActive \/ NoPrecious
    BY MarkInvUse
  <2> QED BY <2>1, CandidatesNext
<1> QED BY <1>1, <1>2, BaseAlways, MarkAlways, PTL DEF ChainSpec

(***************************************************************************)
(* The assertion of PruneBlockIndexCandidates.                             *)
(***************************************************************************)

\* The operator uses reconsiderblock at most.
OnlyReconsider == Commands \subseteq {"reconsiderblock", "reconsider_root"}

\* The stored blocks whose chain is valid.
Good == {b \in nTx : Chain[b] \cap Bad = {}}

\* The best of them is a candidate, also in the middle of a reorganisation.
BestGoodIsCandidate ==
    \A m \in Good : (\A a \in Good : ~Worse(m, a, nSequenceId)) => m \in setBlockIndexCandidates

NeverEmptyInv == ~asserted /\ BestGoodIsCandidate

\* There is a best block with a valid chain.
LEMMA BestGoodExists ==
    ASSUME BaseInv, MarkedForCause
    PROVE  \E m \in Good : \A a \in Good : ~Worse(m, a, nSequenceId)
<1>1. tip \in Good /\ Good \in SUBSET Block
  BY DEF Good, MarkedForCause, BaseInv, HaveTransactions, ChainTypeOK
<1>2. nSequenceId \in [Block -> Int] /\ commands \in Nat /\ \A b \in Block : nSequenceId[b] >= 0 - commands
  BY SetAssumption DEF BaseInv, ChainTypeOK, SequenceBound
<1>3. PICK m \in Good : \A a \in Good : a # m => Worse(a, m, nSequenceId)
  BY <1>1, <1>2, BestExists
<1>4. \A a \in Good : ~Worse(m, a, nSequenceId)
  BY <1>1, <1>2, <1>3, WorseFacts
<1> QED BY <1>4

\* The best block with a valid chain survives a step, so the assertion holds.
LEMMA StepKeeps ==
    ASSUME BaseInv, MarkedForCause, NEW t \in Thread, NEW b \in nTx, NEW cand \in SUBSET nTx,
           ActivateBestChainStep(t, b, cand),
           NEW m \in Good, m \in cand, \A a \in Good : ~Worse(m, a, nSequenceId)
    PROVE  m \in setBlockIndexCandidates' /\ ~asserted'
<1> DEFINE stop == StopOf(b)
           invalid == stop \in Missing(b) /\ stop \in Bad
           connected == (Chain[stop] \ Chain[tip]) \ Bad
           left == Prune(cand, connected)
<1>1. /\ asserted' = (connected # {} /\ left = {})
      /\ setBlockIndexCandidates' = IF invalid THEN left \ {stop} ELSE left
  BY DEF ActivateBestChainStep
<1>2. b \in Block /\ tip \in Block /\ Chain[b] \subseteq nTx
  BY DEF BaseInv, ChainTypeOK, NothingUnlinked
<1>3. /\ stop \in Chain[b] /\ stop \in Block
      /\ \A k \in Missing(b) : StopsAt(k) => stop \in Chain[k]
  BY <1>2, StopResult, ChainClosed
<1> HIDE DEF stop
<1>4. connected \subseteq Good
  <2> SUFFICES ASSUME NEW k \in connected, NEW j \in Chain[k], j \in Bad
               PROVE  FALSE
    BY <1>2, <1>3, ChainTransitive DEF Good
  <2>1. k \in Block /\ k \in Chain[stop] /\ k \notin Bad /\ Chain[stop] \subseteq Chain[b]
    BY <1>2, <1>3, ChainClosed, ChainTransitive
  <2>2. j \in Block /\ j \in Chain[stop]
    BY <1>3, <2>1, ChainClosed, ChainTransitive
  <2>3. j \notin Chain[tip]
    BY DEF MarkedForCause
  <2>4. stop \in Chain[j]
    BY <1>3, <2>1, <2>2, <2>3 DEF Missing, StopsAt
  <2>5. j = stop
    BY <1>3, <2>2, <2>4, ChainTrust
  <2>6. k = stop
    BY <1>3, <2>1, <2>5, ChainTrust
  <2> QED BY <2>1, <2>5, <2>6
<1>5. m \in left
  BY <1>4 DEF Prune, PruneBlockIndexCandidates
<1>6. invalid => m # stop
  BY <1>3, ChainClosed DEF Good
<1> QED BY <1>1, <1>5, <1>6

\* No step disturbs the invariant.
LEMMA NeverEmptyNext ==
    ASSUME BaseInv, MarkedForCause, OnlyReconsider, NeverEmptyInv, [ChainNext]_chainVars
    PROVE  NeverEmptyInv'
<1>0. /\ Good \subseteq nTx /\ nTx \subseteq Block /\ tip \in Good
      /\ setBlockIndexCandidates \in SUBSET nTx
      /\ nSequenceId \in [Block -> Int]
  BY DEF Good, MarkedForCause, BaseInv, HaveTransactions, ChainTypeOK
<1>1. CASE UNCHANGED chainVars
  BY <1>1 DEF chainVars, indexVars, orderVars, NeverEmptyInv, BestGoodIsCandidate, Good
<1>2. ASSUME NEW t \in Thread, ActivateBestChain(t) PROVE NeverEmptyInv'
  <2>1. nTx' = nTx /\ nSequenceId' = nSequenceId /\ pindexMostWork[t] # Idle /\ Good' = Good
    BY <1>2 DEF ActivateBestChain, indexVars, orderVars, Good
  <2>2. ASSUME NEW m \in Good, \A a \in Good : ~Worse(m, a, nSequenceId)
        PROVE  m \in LeftAfterFind(setBlockIndexCandidates) /\ m \in setBlockIndexCandidates
    <3>1. m \in setBlockIndexCandidates
      BY <2>2 DEF NeverEmptyInv, BestGoodIsCandidate
    <3>2. ASSUME m \in GivenUp PROVE FALSE
      <4>1. PICK f \in Failed : m \in Block /\ f \in Chain[m] /\ f \in nTx
        BY <3>2, GivenUpAbove
      <4>2. Chain[f] \cap Bad # {} /\ Chain[f] \subseteq Chain[m]
        BY <4>1, ChainTransitive DEF MarkedForCause
      <4> QED BY <4>2 DEF Good
    <3> QED BY <3>1, <3>2 DEF LeftAfterFind
  <2>3. ASSUME NEW b \in nTx, NEW cand \in SUBSET nTx, ActivateBestChainStep(t, b, cand),
               \A m \in Good : (\A a \in Good : ~Worse(m, a, nSequenceId)) => m \in cand
        PROVE  NeverEmptyInv'
    <3>1. \A m \in Good : (\A a \in Good : ~Worse(m, a, nSequenceId))
                => m \in setBlockIndexCandidates' /\ ~asserted'
      BY <2>3, StepKeeps
    <3>2. PICK m \in Good : \A a \in Good : ~Worse(m, a, nSequenceId)
      BY BestGoodExists
    <3>3. ~asserted'
      BY <3>1, <3>2
    <3> QED BY <2>1, <3>1, <3>3 DEF NeverEmptyInv, BestGoodIsCandidate
  <2>4. CASE FindMostWorkChain \notin {NoBlock, tip}
             /\ ActivateBestChainStep(t, FindMostWorkChain, LeftAfterFind(setBlockIndexCandidates))
    <3>1. FindMostWorkChain \in nTx /\ LeftAfterFind(setBlockIndexCandidates) \in SUBSET nTx
      BY <1>0, <2>4, FindResult DEF LeftAfterFind
    <3> QED BY <2>2, <2>3, <2>4, <3>1
  <2>5. CASE pindexMostWork[t] \notin {NoBlock, tip}
             /\ ActivateBestChainStep(t, pindexMostWork[t], setBlockIndexCandidates)
    <3>1. pindexMostWork[t] \in nTx
      BY <2>1, <2>5 DEF BaseInv, HaveTransactions
    <3> QED BY <1>0, <2>2, <2>3, <2>5, <3>1
  <2>6. CASE /\ asserted' = asserted
             /\ setBlockIndexCandidates' \in {setBlockIndexCandidates, LeftAfterFind(setBlockIndexCandidates)}
    BY <2>1, <2>2, <2>6 DEF NeverEmptyInv, BestGoodIsCandidate
  <2> QED BY <1>2, <2>4, <2>5, <2>6 DEF ActivateBestChain
<1>3. ASSUME NEW t \in Thread, NEW b \in Block, AcceptBlockHeader(t, b) PROVE NeverEmptyInv'
  BY <1>3 DEF AcceptBlockHeader, orderVars, NeverEmptyInv, BestGoodIsCandidate, Good
<1>4. ASSUME NEW t \in Thread, NEW b \in Block, NEW r \in BOOLEAN, NEW f \in BOOLEAN,
             AcceptBlock(t, b, r, f)
      PROVE  NeverEmptyInv'
  <2>1. tip' = tip /\ asserted' = asserted
    BY <1>4 DEF AcceptBlock
  <2>2. CASE UNCHANGED <<nTx, nSequenceId, setBlockIndexCandidates>>
    BY <2>1, <2>2 DEF NeverEmptyInv, BestGoodIsCandidate, Good
  <2>3. CASE /\ b \notin nTx /\ nTx' = nTx \cup {b}
             /\ nSequenceId' = [nSequenceId EXCEPT ![b] = nBlockSequenceId]
             /\ setBlockIndexCandidates' = ReceivedCandidates(b, nSequenceId')
    <3>1. \A c, a \in nTx : Worse(c, a, nSequenceId') <=> Worse(c, a, nSequenceId)
      <4>1. \A c \in nTx : nSequenceId'[c] = nSequenceId[c]
        BY <1>0, <2>3
      <4> QED BY <1>0, <4>1 DEF Worse
    <3>2. Good \subseteq Good' /\ Good' \subseteq Good \cup {b}
      BY <2>3 DEF Good
    <3>3. ASSUME NEW m \in Good', \A a \in Good' : ~Worse(m, a, nSequenceId')
          PROVE  m \in setBlockIndexCandidates'
      <4>1. CASE m = b
        <5>1. ~Worse(b, tip, nSequenceId')
          BY <1>0, <3>2, <3>3, <4>1
        <5> QED BY <2>3, <4>1, <5>1 DEF ReceivedCandidates
      <4>2. CASE m # b
        <5>1. m \in Good /\ \A a \in Good : ~Worse(m, a, nSequenceId)
          BY <1>0, <3>1, <3>2, <3>3, <4>2
        <5>2. m \in setBlockIndexCandidates
          BY <5>1 DEF NeverEmptyInv, BestGoodIsCandidate
        <5> QED BY <2>3, <5>2 DEF ReceivedCandidates
      <4> QED BY <4>1, <4>2
    <3> QED BY <2>1, <3>3 DEF NeverEmptyInv, BestGoodIsCandidate
  <2>4. ASSUME Parent[b] \notin nChainTx, ParentReady(b) PROVE FALSE
    BY <2>4 DEF ParentReady, BaseInv, NothingUnlinked
  <2> QED BY <1>4, <2>2, <2>3, <2>4 DEF AcceptBlock, ReceivedBlockTransactions, Wanted, orderVars
<1>5. ASSUME NEW t \in Thread, NEW b \in Block, InvalidateBlock(t, b) \/ PreciousBlock(t, b) PROVE FALSE
  BY <1>5 DEF InvalidateBlock, PreciousBlock, Command, OnlyReconsider
<1>6. ASSUME NEW t \in Thread, NEW b \in Block, ReconsiderBlock(t, b) PROVE NeverEmptyInv'
  <2>1. /\ setBlockIndexCandidates \subseteq setBlockIndexCandidates'
        /\ nTx' = nTx /\ nSequenceId' = nSequenceId /\ asserted' = asserted
    BY <1>6, ReconsiderEffect DEF indexVars, orderVars
  <2> QED BY <2>1 DEF NeverEmptyInv, BestGoodIsCandidate, Good
<1> QED BY <1>1, <1>2, <1>3, <1>4, <1>5, <1>6 DEF ChainNext

\* "Either the current tip or a successor of it we're working towards is left in
\* setBlockIndexCandidates": with any number of threads the assertion of
\* PruneBlockIndexCandidates never fails, as long as the operator uses neither
\* invalidateblock nor preciousblock.
THEOREM CandidatesStay ==
    ChainSpec => [](OnlyReconsider => CandidatesNeverEmpty)
<1> DEFINE J == OnlyReconsider => NeverEmptyInv
<1>1. ChainInit => J
  <2> SUFFICES ASSUME ChainInit PROVE NeverEmptyInv
    OBVIOUS
  <2> QED BY DEF ChainInit, NeverEmptyInv, BestGoodIsCandidate, Good
<1>2. BaseInv /\ MarkInv /\ J /\ [ChainNext]_chainVars => J'
  <2> SUFFICES ASSUME BaseInv, MarkInv, NeverEmptyInv, [ChainNext]_chainVars, OnlyReconsider
               PROVE  NeverEmptyInv'
    BY DEF OnlyReconsider
  <2>1. MarkedForCause
    BY DEF MarkInv, NoInvalidate, OnlyReconsider
  <2> QED BY <2>1, NeverEmptyNext
<1>3. J => (OnlyReconsider => CandidatesNeverEmpty)
  BY DEF NeverEmptyInv, CandidatesNeverEmpty
<1> QED BY <1>1, <1>2, <1>3, BaseAlways, MarkAlways, PTL DEF ChainSpec

(***************************************************************************)
(* BLOCK_FAILED_CHILD and its cause.                                       *)
(***************************************************************************)

\* The operator reconsiders a marked block only when no block below it is marked.
Careful == "reconsiderblock" \notin Commands

\* No step of a careful operator's node leaves BLOCK_FAILED_CHILD without a block
\* with BLOCK_FAILED_VALID below it.
LEMMA BelowInvalidNext ==
    ASSUME BaseInv, Careful, FailedBelowInvalid, [ChainNext]_chainVars
    PROVE  FailedBelowInvalid'
<1>0. tip \in Block /\ failedChild \subseteq Block /\ mapBlockIndex \subseteq Block
  BY DEF BaseInv, ChainTypeOK
<1>1. ASSUME failedValid \subseteq failedValid', failedChild' \subseteq failedChild \cup GivenUp
      PROVE  FailedBelowInvalid'
  <2> SUFFICES ASSUME NEW k \in failedChild' PROVE Chain[k] \cap failedValid # {}
    BY <1>1 DEF FailedBelowInvalid
  <2>1. CASE k \in failedChild
    BY <2>1 DEF FailedBelowInvalid
  <2>2. CASE k \in GivenUp
    <3>1. PICK f \in Failed : k \in Block /\ f \in Chain[k]
      BY <2>2, GivenUpAbove
    <3>2. CASE f \in failedValid
      BY <3>1, <3>2
    <3>3. CASE f \in failedChild
      BY <3>1, <3>3, ChainTransitive DEF FailedBelowInvalid
    <3> QED BY <3>2, <3>3 DEF Failed
  <2> QED BY <1>1, <2>1, <2>2
<1>2. CASE UNCHANGED chainVars
  BY <1>1, <1>2 DEF chainVars
<1>3. ASSUME NEW t \in Thread, ActivateBestChain(t) PROVE FailedBelowInvalid'
  <2>1. failedValid \subseteq failedValid'
    BY <1>3 DEF ActivateBestChain, ActivateBestChainStep
  <2>2. failedChild' \subseteq failedChild \cup GivenUp
    BY <1>3 DEF ActivateBestChain
  <2> QED BY <1>1, <2>1, <2>2
<1>4. ASSUME NEW t \in Thread, NEW b \in Block, AcceptBlockHeader(t, b) PROVE FailedBelowInvalid'
  BY <1>1, <1>4 DEF AcceptBlockHeader
<1>5. ASSUME NEW t \in Thread, NEW b \in Block, NEW r \in BOOLEAN, NEW f \in BOOLEAN,
             AcceptBlock(t, b, r, f)
      PROVE  FailedBelowInvalid'
  <2>1. failedValid \subseteq failedValid' /\ failedChild' = failedChild
    BY <1>5 DEF AcceptBlock, ReceivedBlockTransactions
  <2> QED BY <1>1, <2>1
<1>6. ASSUME NEW t \in Thread, NEW b \in Block, InvalidateBlock(t, b) PROVE FailedBelowInvalid'
  <2> DEFINE gone == IF b \in Chain[tip] THEN Chain[tip] \ Chain[Parent[b]] ELSE {}
  <2>1. failedValid' = failedValid \cup {b} /\ failedChild' = failedChild \cup gone /\ b # Genesis
    BY <1>6 DEF InvalidateBlock
  <2>2. ASSUME NEW k \in gone PROVE b \in Chain[k]
    <3>1. b \in Chain[tip] /\ k \in Chain[tip] /\ k \notin Chain[Parent[b]]
      BY <2>2
    <3>2. k \in Chain[b] => k = b
      BY <2>1, <3>1, ChainStep
    <3>3. b \in Chain[b]
      BY ChainClosed
    <3> QED BY <1>0, <3>1, <3>2, <3>3, ChainLinear
  <2> HIDE DEF gone
  <2> QED BY <2>1, <2>2 DEF FailedBelowInvalid
<1>7. ASSUME NEW t \in Thread, NEW b \in Block, ReconsiderBlock(t, b) PROVE FailedBelowInvalid'
  <2>1. /\ Chain[b] \cap Failed = {b} /\ b \in mapBlockIndex
        /\ failedValid' = failedValid \ Cleared(b) /\ failedChild' = failedChild \ Cleared(b)
    BY <1>7 DEF ReconsiderBlock, Command, Careful
  <2> SUFFICES ASSUME NEW k \in failedChild, k \notin Cleared(b)
               PROVE  Chain[k] \cap failedValid' # {}
    BY <2>1 DEF FailedBelowInvalid
  <2>2. PICK f \in failedValid : f \in Chain[k]
    BY DEF FailedBelowInvalid
  <2>3. k \in mapBlockIndex /\ b \notin Chain[k]
    BY DEF BaseInv, ChainTypeOK, Cleared
  <2>4. b \notin Chain[f]
    BY <1>0, <2>2, <2>3, ChainTransitive
  <2>5. f \notin Chain[b]
    BY <2>1, <2>2, <2>3 DEF Failed
  <2> QED BY <2>1, <2>2, <2>4, <2>5 DEF Cleared
<1>8. ASSUME NEW t \in Thread, NEW b \in Block, PreciousBlock(t, b) PROVE FailedBelowInvalid'
  BY <1>1, <1>8 DEF PreciousBlock
<1> QED BY <1>2, <1>3, <1>4, <1>5, <1>6, <1>7, <1>8 DEF ChainNext

\* "The failed mask cannot be set for blocks without invalid parents"
\* (CheckBlockIndex), for any number of threads and commands, as long as the
\* operator reconsiders marked blocks from the lowest one on.  (reconsiderblock of
\* a block above a marked one clears the mark below it and leaves the marks of the
\* other branches.)
THEOREM MarkedBelowInvalid == ChainSpec => [](Careful => FailedBelowInvalid)
<1>1. ChainInit => (Careful => FailedBelowInvalid)
  BY DEF ChainInit, FailedBelowInvalid
<1>2. BaseInv /\ (Careful => FailedBelowInvalid) /\ [ChainNext]_chainVars
        => (Careful => FailedBelowInvalid)'
  BY BelowInvalidNext DEF Careful
<1> QED BY <1>1, <1>2, BaseAlways, PTL DEF ChainSpec

(***************************************************************************)
(* The best chain is activated.                                            *)
(***************************************************************************)

\* CBlockIndexWorkComparator is a total order.
LEMMA WorseTotal ==
    ASSUME NEW a \in Block, NEW b \in Block, NEW c \in Block, NEW seq \in [Block -> Int]
    PROVE  /\ a # b => Worse(a, b, seq) \/ Worse(b, a, seq)
           /\ ~Worse(a, b, seq) /\ ~Worse(b, c, seq) => ~Worse(a, c, seq)
<1>1. /\ Trust[a] \in Nat /\ Trust[b] \in Nat /\ Trust[c] \in Nat
      /\ Address[a] \in Nat /\ Address[b] \in Nat /\ Address[c] \in Nat
      /\ seq[a] \in Int /\ seq[b] \in Int /\ seq[c] \in Int
      /\ a # b => Address[a] # Address[b]
      /\ b # c => Address[b] # Address[c]
  BY TreeAssumption
<1> QED BY <1>1 DEF Worse

\* r is an unmarked candidate, and no unmarked block that is at least as good is
\* missing from the candidates.
At(r, cand, failed) ==
    /\ r \in cand /\ Chain[r] \cap failed = {}
    /\ \A x \in nTx : x \notin failed /\ ~Worse(x, r, nSequenceId) => x \in cand

\* No block with an unmarked chain is better than r.
Best(r, failed) ==
    \A x \in nTx : Chain[x] \cap failed = {} => ~Worse(r, x, nSequenceId)

\* The watermark: some block with a valid chain, the tip before the step or one
\* that was connected since, is a candidate together with all that is at least as
\* good.  A step that meets an invalid block leaves a tip that is worse than it.
WorkInv ==
    /\ ~asserted /\ Chain[tip] \cap Bad = {}
    /\ \E r \in nTx : At(r, setBlockIndexCandidates, Failed) /\ Chain[r] \cap Bad = {}
    /\ Quiet => At(tip, setBlockIndexCandidates, Failed) /\ Best(tip, Failed)
    /\ \A t \in Thread :
        pindexMostWork[t] \in Block => /\ At(pindexMostWork[t], setBlockIndexCandidates, Failed)
                                      /\ Best(pindexMostWork[t], Failed)

\* The blocks a step connects are unmarked with their chains, and valid.
LEMMA ConnectedGood ==
    ASSUME BaseInv, NEW b \in nTx, Chain[tip] \cap Bad = {}, NEW failed, Chain[b] \cap failed = {},
           NEW k \in (Chain[StopOf(b)] \ Chain[tip]) \ Bad
    PROVE  k \in nTx /\ k \in Chain[b] /\ Chain[k] \cap Bad = {} /\ Chain[k] \cap failed = {}
<1> DEFINE stop == StopOf(b)
<1>1. b \in Block /\ tip \in Block /\ Chain[b] \subseteq nTx
  BY DEF BaseInv, ChainTypeOK, NothingUnlinked
<1>2. /\ stop \in Chain[b] /\ stop \in Block
      /\ \A j \in Missing(b) : StopsAt(j) => stop \in Chain[j]
  BY <1>1, StopResult, ChainClosed
<1>3. k \in Chain[stop]
  OBVIOUS
<1> HIDE DEF stop
<1>4. k \in Block /\ k \in Chain[b] /\ Chain[k] \subseteq Chain[b] /\ Chain[k] \subseteq Chain[stop]
  BY <1>1, <1>2, <1>3, ChainClosed, ChainTransitive
<1>5. ASSUME NEW j \in Chain[k], j \in Bad PROVE FALSE
  <2>1. j \in Block /\ j \in Chain[stop] /\ j \in Missing(b)
    BY <1>4, <1>5, ChainClosed DEF Missing
  <2>2. stop \in Chain[j]
    BY <1>2, <1>5, <2>1 DEF StopsAt
  <2>3. j = stop
    BY <1>2, <2>1, <2>2, ChainTrust
  <2>4. k = stop
    BY <1>2, <1>3, <1>4, <1>5, <2>3, ChainTrust
  <2> QED BY <1>5, <2>3, <2>4
<1> QED BY <1>1, <1>4, <1>5

\* A step keeps a watermark, so the assertion holds and nothing that could be
\* activated is lost.
LEMMA StepWatermark ==
    ASSUME BaseInv, NEW t \in Thread, NEW b \in nTx, NEW cand \in SUBSET nTx,
           NEW failed, failedValid \subseteq failed,
           ActivateBestChainStep(t, b, cand), Chain[tip] \cap Bad = {}, Chain[b] \cap failed = {},
           NEW r \in nTx, At(r, cand, failed), Chain[r] \cap Bad = {},
           NEW failed2, failed2 = failed \cup (failedValid' \ failedValid)
    PROVE  /\ ~asserted' /\ Chain[tip'] \cap Bad = {}
           /\ \E m \in nTx : At(m, setBlockIndexCandidates', failed2) /\ Chain[m] \cap Bad = {}
<1> DEFINE stop == StopOf(b)
           invalid == stop \in Missing(b) /\ stop \in Bad
           connected == (Chain[stop] \ Chain[tip]) \ Bad
           left == Prune(cand, connected)
<1>0. /\ nTx \subseteq Block /\ nSequenceId \in [Block -> Int] /\ commands \in Nat
      /\ \A x \in Block : nSequenceId[x] >= 0 - commands
  BY SetAssumption DEF BaseInv, ChainTypeOK, SequenceBound
<1>1. /\ asserted' = (connected # {} /\ left = {})
      /\ setBlockIndexCandidates' = IF invalid THEN left \ {stop} ELSE left
      /\ failedValid' = IF invalid THEN failedValid \cup {stop} ELSE failedValid
  BY DEF ActivateBestChainStep
<1>2. \A k \in connected : k \in nTx /\ Chain[k] \cap Bad = {} /\ Chain[k] \cap failed = {}
  BY ConnectedGood
<1>3. failed2 \subseteq failed \cup Bad /\ failed \subseteq failed2 /\ (invalid => stop \in failed2)
  BY <1>1
<1>4. stop \in Block /\ Chain[tip'] \cap Bad = {}
  <2>1. stop \in Block
    BY <1>0, StopResult, ChainClosed DEF BaseInv, ChainTypeOK
  <2> QED BY <2>1, StepEffect
<1> HIDE DEF stop
<1> DEFINE S == {r} \cup connected
<1>5. PICK m \in S : \A a \in S : a # m => Worse(a, m, nSequenceId)
  <2>1. S \in SUBSET Block /\ S # {}
    BY <1>0, <1>2
  <2> HIDE DEF S
  <2> QED BY <1>0, <2>1, BestExists
<1>6. m \in nTx /\ m \in Block /\ r \in Block /\ Chain[m] \cap Bad = {} /\ Chain[m] \cap failed = {}
  BY <1>0, <1>2, <1>5 DEF At
<1>7. \A a \in S : a \in Block /\ ~Worse(m, a, nSequenceId)
  BY <1>0, <1>2, <1>5, <1>6, WorseFacts
<1>8. \A x \in nTx : x \notin failed /\ ~Worse(x, m, nSequenceId) => x \in left
  <2> SUFFICES ASSUME NEW x \in nTx, x \notin failed, ~Worse(x, m, nSequenceId)
               PROVE  x \in cand /\ \A k \in connected : ~Worse(x, k, nSequenceId)
    BY DEF Prune, PruneBlockIndexCandidates
  <2>1. \A a \in S : ~Worse(x, a, nSequenceId)
    BY <1>0, <1>6, <1>7, WorseTotal
  <2> QED BY <2>1 DEF At
<1>9. m \in left
  <2>1. m \notin failed /\ ~Worse(m, m, nSequenceId)
    BY <1>0, <1>6, WorseFacts, ChainClosed
  <2> QED BY <1>6, <1>8, <2>1
<1>10. Chain[m] \cap failed2 = {}
  BY <1>3, <1>6
<1>11. invalid => m # stop
  BY <1>6, ChainClosed
<1> HIDE DEF left, connected, S
<1>12. m \in setBlockIndexCandidates' /\ ~asserted'
  BY <1>1, <1>9, <1>11
<1>13. \A x \in nTx : x \notin failed2 /\ ~Worse(x, m, nSequenceId) => x \in setBlockIndexCandidates'
  BY <1>1, <1>3, <1>8
<1> QED BY <1>4, <1>6, <1>10, <1>12, <1>13 DEF At

\* A step towards b that meets no invalid block keeps b and all that is at least
\* as good.
LEMMA StepTarget ==
    ASSUME BaseInv, NEW t \in Thread, NEW b \in nTx, NEW cand \in SUBSET nTx, NEW failed,
           ActivateBestChainStep(t, b, cand), At(b, cand, failed)
    PROVE  \/ pindexMostWork'[t] = NoBlock
           \/ /\ failedValid' = failedValid /\ At(b, setBlockIndexCandidates', failed)
              /\ pindexMostWork'[t] = b \/ (pindexMostWork'[t] = Idle /\ tip' = b)
<1> DEFINE stop == StopOf(b)
           invalid == stop \in Missing(b) /\ stop \in Bad
           connected == (Chain[stop] \ Chain[tip]) \ Bad
           left == Prune(cand, connected)
           newTip == IF invalid THEN Parent[stop] ELSE stop
<1>0. /\ nTx \subseteq Block /\ nSequenceId \in [Block -> Int] /\ tip \in Block
      /\ pindexMostWork \in [Thread -> mapBlockIndex \cup {NoBlock, Idle}]
  BY DEF BaseInv, ChainTypeOK
<1>1. /\ tip' = newTip
      /\ setBlockIndexCandidates' = IF invalid THEN left \ {stop} ELSE left
      /\ failedValid' = IF invalid THEN failedValid \cup {stop} ELSE failedValid
      /\ pindexMostWork' = [pindexMostWork EXCEPT ![t] = NextTarget(b, invalid, newTip)]
  BY DEF ActivateBestChainStep
<1>2. pindexMostWork'[t] = NextTarget(b, invalid, newTip)
  BY <1>0, <1>1
<1>3. CASE invalid
  BY <1>2, <1>3 DEF NextTarget
<1>4. CASE ~invalid
  <2>1. pindexMostWork'[t] = b \/ (pindexMostWork'[t] = Idle /\ tip' = b)
    BY <1>1, <1>2, <1>4 DEF NextTarget
  <2>2. connected \subseteq Chain[b]
    BY <1>0, StopResult, ChainTransitive
  <2>3. failedValid' = failedValid /\ setBlockIndexCandidates' = left
    BY <1>1, <1>4
  <2>4. b \in Block /\ Chain[b] \subseteq Block /\ ~Worse(b, b, nSequenceId)
    BY <1>0, WorseFacts, ChainClosed
  <2> HIDE DEF connected, stop
  <2>5. ASSUME NEW x \in nTx, ~Worse(x, b, nSequenceId)
        PROVE  \A k \in connected : ~Worse(x, k, nSequenceId)
    BY <1>0, <2>2, <2>4, <2>5, NotWorseBelow
  <2>6. At(b, left, failed)
    BY <2>4, <2>5 DEF At, Prune, PruneBlockIndexCandidates
  <2> QED BY <2>1, <2>3, <2>6
<1> QED BY <1>3, <1>4

\* FindMostWorkChain: with a watermark the result is the best block with an
\* unmarked chain.
LEMMA FindBest ==
    ASSUME BaseInv, Chain[tip] \cap Failed = {},
           NEW r \in nTx, At(r, setBlockIndexCandidates, Failed)
    PROVE  LET m == FindMostWorkChain
               failed == Failed \cup GivenUp
               cand == LeftAfterFind(setBlockIndexCandidates)
           IN  /\ m \in nTx /\ At(m, cand, failed) /\ Best(m, failed)
               /\ At(r, cand, failed)
<1> DEFINE m == FindMostWorkChain
           failed == Failed \cup GivenUp
           cand == LeftAfterFind(setBlockIndexCandidates)
<1>0. /\ nTx \subseteq Block /\ nSequenceId \in [Block -> Int] /\ tip \in Block
      /\ setBlockIndexCandidates \subseteq nTx /\ NoBlock \notin Block
  BY TreeAssumption DEF BaseInv, ChainTypeOK, HaveTransactions
<1>1. r \in setBlockIndexCandidates /\ Usable(r)
  BY DEF At, Usable, Missing
<1>2. \A c \in nTx : Chain[c] \cap Failed = {} => Chain[c] \cap GivenUp = {}
  <2> SUFFICES ASSUME NEW c \in nTx, Chain[c] \cap Failed = {}, NEW k \in GivenUp, k \in Chain[c]
               PROVE  FALSE
    OBVIOUS
  <2>1. PICK f \in Failed : f \in Chain[k]
    BY GivenUpAbove
  <2> QED BY <1>0, <2>1, ChainTransitive
<1>3. m # NoBlock
  <2>1. {c \in setBlockIndexCandidates : Usable(c)} # {}
    BY <1>1
  <2>2. m = BestOf({c \in setBlockIndexCandidates : Usable(c)})
    BY <2>1 DEF FindMostWorkChain
  <2>3. \E b \in {c \in setBlockIndexCandidates : Usable(c)} :
           \A a \in {c \in setBlockIndexCandidates : Usable(c)} : a # b => Worse(a, b, nSequenceId)
    <3> DEFINE S == {c \in setBlockIndexCandidates : Usable(c)}
    <3>1. S \in SUBSET Block /\ S # {} /\ commands \in Nat /\ \A x \in Block : nSequenceId[x] >= 0 - commands
      BY <1>0, <2>1, SetAssumption DEF BaseInv, ChainTypeOK, SequenceBound
    <3> HIDE DEF S
    <3>2. \E b \in S : \A a \in S : a # b => Worse(a, b, nSequenceId)
      BY <1>0, <3>1, BestExists
    <3> QED BY <3>2 DEF S
  <2> DEFINE S == {c \in setBlockIndexCandidates : Usable(c)}
  <2>4. BestOf(S) \in S
    <3>1. \E b \in S : \A a \in S : a # b => Worse(a, b, nSequenceId)
      BY <2>3
    <3> HIDE DEF S
    <3> QED BY <3>1 DEF BestOf
  <2> QED BY <1>0, <2>2, <2>4
<1>4. /\ m \in setBlockIndexCandidates /\ Usable(m)
      /\ \A c \in setBlockIndexCandidates : Usable(c) /\ c # m => Worse(c, m, nSequenceId)
  BY <1>3, FindResult
<1> HIDE DEF m
<1>5. m \in nTx /\ m \in Block /\ r \in Block /\ Chain[m] \cap Failed = {} /\ Chain[r] \cap Failed = {}
  BY <1>0, <1>4 DEF Usable, Missing, At
<1>6. ~Worse(m, r, nSequenceId)
  BY <1>0, <1>1, <1>4, <1>5, WorseFacts
<1>7. \A x \in nTx : x \notin Failed /\ ~Worse(x, r, nSequenceId) => x \in setBlockIndexCandidates
  BY DEF At
<1>8. \A x \in nTx : ~Worse(x, m, nSequenceId) => ~Worse(x, r, nSequenceId)
  BY <1>0, <1>5, <1>6, WorseTotal
<1>9. \A c \in nTx : Chain[c] \cap Failed = {} => c \notin GivenUp /\ Chain[c] \cap failed = {}
  BY <1>0, <1>2, ChainClosed
<1>10. At(m, cand, failed) /\ At(r, cand, failed)
  BY <1>1, <1>4, <1>5, <1>7, <1>8, <1>9 DEF At, LeftAfterFind
<1>11. Best(m, failed)
  <2> SUFFICES ASSUME NEW x \in nTx, Chain[x] \cap Failed = {}, Worse(m, x, nSequenceId)
               PROVE  FALSE
    BY DEF Best
  <2>1. x \in Block /\ ~Worse(x, m, nSequenceId) /\ x # m
    BY <1>0, <1>5, WorseFacts
  <2>2. x \in setBlockIndexCandidates
    BY <1>0, <1>7, <1>8, <2>1, ChainClosed
  <2>3. Usable(x)
    BY DEF Usable, Missing
  <2> QED BY <1>4, <2>1, <2>2, <2>3
<1> QED BY <1>5, <1>10, <1>11 DEF m

\* A step of the only thread towards the best block.
LEMMA StepWork ==
    ASSUME BaseInv, SingleThread, NEW t \in Thread, NEW b \in nTx, NEW cand \in SUBSET nTx,
           NEW failed, failedValid \subseteq failed,
           ActivateBestChainStep(t, b, cand), Chain[tip] \cap Bad = {},
           At(b, cand, failed), Best(b, failed),
           NEW r \in nTx, At(r, cand, failed), Chain[r] \cap Bad = {},
           Failed' = failed \cup (failedValid' \ failedValid), UNCHANGED <<nTx, nSequenceId>>
    PROVE  WorkInv'
<1>1. Chain[b] \cap failed = {}
  BY DEF At
<1>2. /\ ~asserted' /\ Chain[tip'] \cap Bad = {}
      /\ \E m \in nTx : At(m, setBlockIndexCandidates', Failed') /\ Chain[m] \cap Bad = {}
  BY <1>1, StepWatermark
<1>3. \/ pindexMostWork'[t] = NoBlock
      \/ /\ failedValid' = failedValid /\ At(b, setBlockIndexCandidates', failed)
         /\ pindexMostWork'[t] = b \/ (pindexMostWork'[t] = Idle /\ tip' = b)
  BY StepTarget
<1>4. /\ b \in Block /\ NoBlock \notin Block \cup {Idle} /\ Idle \notin Block
      /\ \A s \in Thread : s = t
  BY TreeAssumption, SetAssumption DEF BaseInv, ChainTypeOK, SingleThread
<1>5. \/ pindexMostWork'[t] = NoBlock
      \/ /\ At(b, setBlockIndexCandidates', Failed') /\ Best(b, Failed')
         /\ pindexMostWork'[t] = b \/ (pindexMostWork'[t] = Idle /\ tip' = b)
  <2>1. failedValid' = failedValid => Failed' = failed
    OBVIOUS
  <2> QED BY <1>3, <2>1
<1>6. \A c, f : At(c, setBlockIndexCandidates', Failed') => At(c, setBlockIndexCandidates, Failed)'
  BY DEF At
<1>7. /\ Best(b, Failed') /\ pindexMostWork'[t] = b => Best(pindexMostWork[t], Failed)'
      /\ Best(b, Failed') /\ tip' = b => Best(tip, Failed)'
  BY DEF Best
<1>8. \A s \in Thread :
        /\ pindexMostWork'[s] = Idle => At(tip, setBlockIndexCandidates, Failed)' /\ Best(tip, Failed)'
        /\ pindexMostWork'[s] \in Block =>
                At(pindexMostWork[s], setBlockIndexCandidates, Failed)' /\ Best(pindexMostWork[s], Failed)'
  <2> SUFFICES
        /\ pindexMostWork'[t] = Idle => At(tip, setBlockIndexCandidates, Failed)' /\ Best(tip, Failed)'
        /\ pindexMostWork'[t] \in Block =>
                At(pindexMostWork[t], setBlockIndexCandidates, Failed)' /\ Best(pindexMostWork[t], Failed)'
    BY <1>4
  <2>1. CASE pindexMostWork'[t] = NoBlock
    BY <1>4, <2>1
  <2>2. CASE pindexMostWork'[t] = b /\ At(b, setBlockIndexCandidates', Failed') /\ Best(b, Failed')
    <3>1. At(pindexMostWork[t], setBlockIndexCandidates, Failed)'
      BY <2>2 DEF At
    <3> QED BY <1>4, <1>7, <2>2, <3>1
  <2>3. CASE /\ pindexMostWork'[t] = Idle /\ tip' = b
             /\ At(b, setBlockIndexCandidates', Failed') /\ Best(b, Failed')
    <3>1. At(tip, setBlockIndexCandidates, Failed)'
      BY <2>3 DEF At
    <3> QED BY <1>4, <1>7, <2>3, <3>1
  <2> QED BY <1>5, <2>1, <2>2, <2>3
<1>9. \E m \in nTx' : At(m, setBlockIndexCandidates, Failed)' /\ Chain[m] \cap Bad = {}
  BY <1>2 DEF At
<1> QED BY <1>2, <1>8, <1>9 DEF WorkInv, Quiet

\* A round of ActivateBestChain of the only thread.
LEMMA WorkActivate ==
    ASSUME BaseInv, SingleThread, TargetUnmarked, WorkInv, NEW t \in Thread, ActivateBestChain(t)
    PROVE  WorkInv'
<1> DEFINE cands == setBlockIndexCandidates
           cand == LeftAfterFind(cands)
           failed == Failed \cup GivenUp
           m == FindMostWorkChain
<1>0. /\ ~asserted /\ pindexMostWork[t] # Idle /\ Chain[tip] \cap Failed = {}
      /\ UNCHANGED <<nTx, nSequenceId>> /\ Chain[tip] \cap Bad = {}
      /\ tip \in nTx /\ nTx \subseteq Block /\ cands \in SUBSET nTx
      /\ pindexMostWork \in [Thread -> mapBlockIndex \cup {NoBlock, Idle}]
      /\ NoBlock \notin Block /\ Idle \notin Block /\ \A s \in Thread : s = t
      /\ failedValid \subseteq Failed
  BY TreeAssumption, SetAssumption
     DEF ActivateBestChain, TargetUnmarked, WorkInv, indexVars, orderVars, BaseInv, ChainTypeOK,
         HaveTransactions, SingleThread, Failed
<1>1. PICK r \in nTx : At(r, cands, Failed) /\ Chain[r] \cap Bad = {}
  BY DEF WorkInv
<1>2. m \in nTx /\ At(m, cand, failed) /\ Best(m, failed) /\ At(r, cand, failed)
  BY <1>0, <1>1, FindBest
<1>3. cand \in SUBSET nTx
  BY <1>0 DEF LeftAfterFind
<1> HIDE DEF m, cand, failed, cands
<1>4. CASE /\ pindexMostWork[t] = NoBlock /\ m \in {NoBlock, tip} /\ cands' = cand
           /\ failedChild' = failedChild \cup (GivenUp \ Failed)
           /\ pindexMostWork' = [pindexMostWork EXCEPT ![t] = Idle]
           /\ UNCHANGED <<tip, asserted, failedValid>>
  <2>1. m = tip
    BY <1>0, <1>2, <1>4
  <2>2. Failed' = failed
    BY <1>4 DEF Failed, failed
  <2>3. pindexMostWork'[t] = Idle
    BY <1>0, <1>4
  <2>4. At(tip, setBlockIndexCandidates, Failed)' /\ Best(tip, Failed)'
    BY <1>0, <1>2, <1>4, <2>1, <2>2 DEF At, Best, cands
  <2>5. Chain[tip'] \cap Bad = {} /\ ~asserted' /\ tip' \in nTx'
    BY <1>0, <1>4
  <2> QED BY <1>0, <2>3, <2>4, <2>5 DEF WorkInv, Quiet
<1>5. CASE /\ pindexMostWork[t] = NoBlock /\ m \notin {NoBlock, tip}
           /\ failedChild' = failedChild \cup (GivenUp \ Failed)
           /\ ActivateBestChainStep(t, m, cand)
  <2>1. failedValid \subseteq failedValid'
    BY <1>5 DEF ActivateBestChainStep
  <2>2. Failed' = failed \cup (failedValid' \ failedValid) /\ failedValid \subseteq failed
    BY <1>5, <2>1 DEF Failed, failed
  <2> QED BY <1>0, <1>1, <1>2, <1>3, <1>5, <2>2, StepWork
<1>6. CASE /\ pindexMostWork[t] = tip
           /\ pindexMostWork' = [pindexMostWork EXCEPT ![t] = Idle]
           /\ UNCHANGED <<tip, asserted, failedValid, failedChild, setBlockIndexCandidates>>
  <2>1. At(tip, setBlockIndexCandidates, Failed) /\ Best(tip, Failed)
    BY <1>0, <1>6 DEF WorkInv
  <2>2. At(tip, setBlockIndexCandidates, Failed)' /\ Best(tip, Failed)'
    BY <1>0, <1>6, <2>1 DEF At, Best, Failed
  <2>3. pindexMostWork'[t] = Idle
    BY <1>0, <1>6
  <2>4. Chain[tip'] \cap Bad = {} /\ ~asserted' /\ tip' \in nTx'
    BY <1>0, <1>6
  <2> QED BY <1>0, <2>2, <2>3, <2>4 DEF WorkInv, Quiet
<1>7. CASE /\ pindexMostWork[t] \notin {NoBlock, tip} /\ failedChild' = failedChild
           /\ ActivateBestChainStep(t, pindexMostWork[t], cands)
  <2> DEFINE b == pindexMostWork[t]
  <2>1. b \in nTx /\ b \in Block
    BY <1>0, <1>7 DEF BaseInv, HaveTransactions, ChainTypeOK
  <2>2. At(b, cands, Failed) /\ Best(b, Failed)
    BY <2>1 DEF WorkInv, cands
  <2>3. failedValid \subseteq failedValid'
    BY <1>7 DEF ActivateBestChainStep
  <2>4. Failed' = Failed \cup (failedValid' \ failedValid)
    BY <1>7, <2>3 DEF Failed
  <2> HIDE DEF b
  <2>5. ActivateBestChainStep(t, b, cands)
    BY <1>7 DEF b
  <2> QED BY <1>0, <1>1, <2>1, <2>2, <2>4, <2>5, StepWork
<1> QED BY <1>0, <1>4, <1>5, <1>6, <1>7 DEF ActivateBestChain, m, cand, cands

\* A node that has just left its idle state has a watermark and no target.
LEMMA WorkAway ==
    ASSUME NEW t \in Thread, \A s \in Thread : pindexMostWork'[s] = NoBlock,
           ~asserted', Chain[tip'] \cap Bad = {}, tip' \in nTx',
           At(tip, setBlockIndexCandidates, Failed)'
    PROVE  WorkInv'
<1>1. NoBlock \notin Block /\ NoBlock # Idle
  BY TreeAssumption, SetAssumption
<1> QED BY <1>1 DEF WorkInv, Quiet

\* AcceptBlock: a stored block that is at least as good as the tip is a candidate.
LEMMA WorkBlock ==
    ASSUME BaseInv, SingleThread, WorkInv, NEW t \in Thread, NEW b \in Block,
           NEW fRequested \in BOOLEAN, NEW fRefused \in BOOLEAN,
           AcceptBlock(t, b, fRequested, fRefused)
    PROVE  WorkInv'
<1>0. /\ tip \in nTx /\ nTx \subseteq Block /\ nSequenceId \in [Block -> Int]
      /\ nChainTx = nTx /\ \A x \in nTx : Chain[x] \subseteq nTx
      /\ pindexMostWork \in [Thread -> mapBlockIndex \cup {NoBlock, Idle}]
      /\ \A s \in Thread : s = t
      /\ NoBlock \notin Block /\ NoBlock # Idle /\ Idle \notin Block
  BY TreeAssumption, SetAssumption
     DEF BaseInv, ChainTypeOK, HaveTransactions, NothingUnlinked, SingleThread
<1>1. /\ ~asserted' /\ UNCHANGED <<tip, failedChild>> /\ Chain[tip] \cap Bad = {}
      /\ At(tip, setBlockIndexCandidates, Failed) /\ Best(tip, Failed)
  BY <1>0 DEF AcceptBlock, Free, WorkInv, Quiet
<1>2. CASE /\ ParentReady(b) /\ Wanted(b, fRequested) /\ ReceivedBlockTransactions(b)
           /\ pindexMostWork' = [pindexMostWork EXCEPT ![t] = NoBlock]
  <2>1. b \notin nTx /\ Parent[b] \in nChainTx /\ failedValid' = failedValid /\ nTx' = nTx \cup {b}
    BY <1>0, <1>2 DEF ParentReady, Wanted, ReceivedBlockTransactions
  <2>2. /\ nSequenceId' = [nSequenceId EXCEPT ![b] = nBlockSequenceId]
        /\ setBlockIndexCandidates' = ReceivedCandidates(b, nSequenceId')
    BY <1>2, <2>1 DEF ReceivedBlockTransactions
  <2>3. Failed' = Failed
    BY <1>1, <2>1 DEF Failed
  <2>4. \A x \in nTx : nSequenceId'[x] = nSequenceId[x]
    BY <1>0, <2>1, <2>2
  <2>5. \A x \in nTx : Worse(x, tip, nSequenceId') = Worse(x, tip, nSequenceId)
    BY <1>0, <2>4 DEF Worse
  <2>6. At(tip, setBlockIndexCandidates, Failed)'
    <3> SUFFICES ASSUME NEW x \in nTx \cup {b}, x \notin Failed, ~Worse(x, tip, nSequenceId')
                 PROVE  x \in setBlockIndexCandidates'
      BY <1>1, <2>1, <2>2, <2>3 DEF At, ReceivedCandidates
    <3>1. CASE x \in nTx
      BY <1>1, <2>2, <2>5, <3>1 DEF At, ReceivedCandidates
    <3>2. CASE x = b
      BY <2>2, <3>2 DEF ReceivedCandidates
    <3> QED BY <3>1, <3>2
  <2>7. \A s \in Thread : pindexMostWork'[s] = NoBlock
    BY <1>0, <1>2
  <2>8. Chain[tip'] \cap Bad = {} /\ tip' \in nTx'
    BY <1>0, <1>1, <2>1
  <2> QED BY <1>1, <2>6, <2>7, <2>8, WorkAway
<1>3. CASE /\ Wanted(b, fRequested) /\ failedValid' = failedValid \cup {b}
           /\ UNCHANGED <<nTx, nSequenceId, setBlockIndexCandidates, pindexMostWork>>
  <2>1. b \notin nTx /\ \A x \in nTx : x \in Failed' <=> x \in Failed
    BY <1>1, <1>3 DEF Wanted, Failed
  <2>2. \A x \in nTx : Chain[x] \cap Failed' = Chain[x] \cap Failed
    BY <1>0, <2>1
  <2>3. At(tip, setBlockIndexCandidates, Failed)' /\ Best(tip, Failed)'
    BY <1>0, <1>1, <1>3, <2>1, <2>2 DEF At, Best
  <2>4. \A s \in Thread : pindexMostWork'[s] \notin Block
    BY <1>0, <1>3 DEF AcceptBlock, Free
  <2>5. Chain[tip'] \cap Bad = {} /\ tip' \in nTx'
    BY <1>0, <1>1, <1>3
  <2> QED BY <1>1, <2>3, <2>4, <2>5 DEF WorkInv
<1>4. CASE /\ pindexMostWork' = [pindexMostWork EXCEPT ![t] = IF ParentReady(b) THEN NoBlock ELSE Idle]
           /\ UNCHANGED <<nTx, failedValid, nSequenceId, setBlockIndexCandidates>>
  <2>1. At(tip, setBlockIndexCandidates, Failed)' /\ Best(tip, Failed)'
    BY <1>1, <1>4 DEF At, Best, Failed
  <2>2. \A s \in Thread : pindexMostWork'[s] \notin Block
    BY <1>0, <1>4
  <2>3. Chain[tip'] \cap Bad = {} /\ tip' \in nTx'
    BY <1>0, <1>1, <1>4
  <2> QED BY <1>1, <2>1, <2>2, <2>3 DEF WorkInv
<1> QED BY <1>2, <1>3, <1>4 DEF AcceptBlock, orderVars

\* invalidateblock completes the candidates for the tip it leaves.
LEMMA WorkInvalidate ==
    ASSUME BaseInv, SingleThread, TargetUnmarked, TargetUnmarked', WorkInv,
           NEW t \in Thread, NEW b \in Block, InvalidateBlock(t, b)
    PROVE  WorkInv'
<1> DEFINE gone == IF b \in Chain[tip] THEN Chain[tip] \ Chain[Parent[b]] ELSE {}
           newTip == IF gone = {} THEN tip ELSE Parent[b]
           failed == Failed \cup {b} \cup gone
<1>1. /\ b # Genesis /\ Command(t, "invalidateblock", b)
      /\ failedValid' = failedValid \cup {b} /\ failedChild' = failedChild \cup gone
      /\ tip' = newTip
      /\ setBlockIndexCandidates' =
            (setBlockIndexCandidates \ (gone \cup {b})) \cup CandidatesFrom(failed, newTip)
      /\ UNCHANGED <<nTx, nSequenceId, asserted>>
  BY DEF InvalidateBlock, indexVars, orderVars
<1>2. /\ tip \in nTx /\ nTx \subseteq Block /\ nTx \subseteq mapBlockIndex
      /\ nSequenceId \in [Block -> Int] /\ nChainTx = nTx
  BY DEF BaseInv, ChainTypeOK, HaveTransactions, NothingUnlinked
<1>3. ~asserted /\ Chain[tip] \cap Bad = {} /\ \A s \in Thread : pindexMostWork'[s] = NoBlock
  BY <1>1, CommandEffect DEF SingleThread, WorkInv
<1>4. newTip \in nTx /\ Chain[newTip] \subseteq Chain[tip]
  <2>1. b \in Chain[tip] => Parent[b] \in Chain[tip]
    BY <1>1, <1>2, ChainClosed
  <2>2. b \in Chain[tip] => Chain[Parent[b]] \subseteq Chain[tip] /\ Chain[tip] \subseteq nTx
    BY <1>2, <2>1, ChainTransitive DEF BaseInv, NothingUnlinked
  <2> QED BY <1>2, <2>1, <2>2
<1>5. Failed' = failed
  BY <1>1 DEF Failed
<1>6. Chain[newTip] \cap failed = {}
  BY <1>1, <1>3, <1>5 DEF TargetUnmarked
<1> HIDE DEF gone, newTip, failed
<1>7. newTip \notin failed /\ ~Worse(newTip, newTip, nSequenceId)
  BY <1>2, <1>4, <1>6, ChainClosed, WorseFacts
<1>8. \A x \in nTx : x \notin failed /\ ~Worse(x, newTip, nSequenceId) => x \in setBlockIndexCandidates'
  BY <1>1, <1>2 DEF CandidatesFrom, Eligible
<1>9. At(tip, setBlockIndexCandidates, Failed)'
  BY <1>1, <1>4, <1>5, <1>6, <1>7, <1>8 DEF At
<1>10. ~asserted' /\ Chain[tip'] \cap Bad = {} /\ tip' \in nTx'
  BY <1>1, <1>3, <1>4
<1> QED BY <1>3, <1>9, <1>10, WorkAway

\* reconsiderblock of the lowest marked block makes candidates of all that it
\* clears and that is better than the tip.
LEMMA WorkReconsider ==
    ASSUME BaseInv, SingleThread, Careful, TargetUnmarked, WorkInv,
           NEW t \in Thread, NEW b \in Block, ReconsiderBlock(t, b)
    PROVE  WorkInv'
<1> DEFINE below == {k \in mapBlockIndex : b \in Chain[k] /\ k \in Failed}
<1>1. /\ Command(t, "reconsider_root", b) /\ Chain[b] \cap Failed = {b}
      /\ failedValid' = failedValid \ Cleared(b) /\ failedChild' = failedChild \ Cleared(b)
      /\ setBlockIndexCandidates' = setBlockIndexCandidates \cup
                {k \in below : Eligible(k, {}) /\ Worse(tip, k, nSequenceId)}
      /\ UNCHANGED <<nTx, nSequenceId, tip, asserted>>
  BY DEF ReconsiderBlock, Command, Careful, indexVars, orderVars
<1>2. /\ tip \in nTx /\ nTx \subseteq Block /\ nTx \subseteq mapBlockIndex
      /\ nSequenceId \in [Block -> Int] /\ nChainTx = nTx
  BY DEF BaseInv, ChainTypeOK, HaveTransactions, NothingUnlinked
<1>3. ~asserted /\ pindexMostWork[t] = Idle /\ \A s \in Thread : pindexMostWork'[s] = NoBlock
  BY <1>1, CommandEffect DEF SingleThread
<1>4. Chain[tip] \cap Bad = {} /\ At(tip, setBlockIndexCandidates, Failed)
  BY <1>3 DEF WorkInv, Quiet, SingleThread
<1>5. Failed' = Failed \ Cleared(b)
  BY <1>1 DEF Failed
<1>6. \A x \in nTx : x \notin Failed' /\ ~Worse(x, tip, nSequenceId) => x \in setBlockIndexCandidates'
  <2> SUFFICES ASSUME NEW x \in nTx, x \notin Failed', ~Worse(x, tip, nSequenceId)
               PROVE  x \in setBlockIndexCandidates'
    OBVIOUS
  <2>1. CASE x \notin Failed
    BY <1>1, <1>4, <2>1 DEF At
  <2>2. CASE x \in Failed
    <3>1. x \in Cleared(b)
      BY <1>5, <2>2
    <3>2. b \in Chain[x]
      BY <1>1, <2>2, <3>1, ChainClosed DEF Cleared
    <3>3. x # tip
      BY <1>2, <1>4, <2>2, ChainClosed DEF At
    <3>4. Worse(tip, x, nSequenceId)
      BY <1>2, <3>3, WorseTotal
    <3> QED BY <1>1, <1>2, <2>2, <3>2, <3>4 DEF Eligible
  <2> QED BY <2>1, <2>2
<1> HIDE DEF below
<1>7. At(tip, setBlockIndexCandidates, Failed)'
  <2>1. tip \in setBlockIndexCandidates' /\ Chain[tip] \cap Failed' = {}
    BY <1>1, <1>4, <1>5 DEF At
  <2> QED BY <1>1, <1>6, <2>1 DEF At
<1>8. ~asserted' /\ Chain[tip'] \cap Bad = {} /\ tip' \in nTx'
  BY <1>1, <1>2, <1>3, <1>4
<1> QED BY <1>3, <1>7, <1>8, WorkAway

\* No step of a node with one thread and a careful operator disturbs WorkInv.
LEMMA WorkNext ==
    ASSUME BaseInv, SingleThread, Careful, NoPrecious, TargetUnmarked, WorkInv, [ChainNext]_chainVars
    PROVE  WorkInv'
<1>1. CASE UNCHANGED chainVars
  BY <1>1 DEF chainVars, indexVars, orderVars, WorkInv, At, Best, Quiet, Failed
<1>2. ASSUME NEW t \in Thread, ActivateBestChain(t) PROVE WorkInv'
  BY <1>2, WorkActivate
<1>3. ASSUME NEW t \in Thread, NEW b \in Block, AcceptBlockHeader(t, b) PROVE WorkInv'
  BY <1>3 DEF AcceptBlockHeader, orderVars, WorkInv, At, Best, Quiet, Failed
<1>4. ASSUME NEW t \in Thread, NEW b \in Block, NEW r \in BOOLEAN, NEW f \in BOOLEAN,
             AcceptBlock(t, b, r, f)
      PROVE  WorkInv'
  BY <1>4, WorkBlock
<1>5. ASSUME NEW t \in Thread, NEW b \in Block, InvalidateBlock(t, b) PROVE WorkInv'
  BY <1>5, UnmarkedNext, WorkInvalidate
<1>6. ASSUME NEW t \in Thread, NEW b \in Block, ReconsiderBlock(t, b) PROVE WorkInv'
  BY <1>6, WorkReconsider
<1>7. ASSUME NEW t \in Thread, NEW b \in Block, PreciousBlock(t, b) PROVE FALSE
  BY <1>7 DEF PreciousBlock, Command, NoPrecious
<1> QED BY <1>1, <1>2, <1>3, <1>4, <1>5, <1>6, <1>7 DEF ChainNext

\* A node one thread of which activates blocks, with an operator who reconsiders
\* from the lowest marked block on and does not use preciousblock.
Orderly == SingleThread /\ Careful /\ NoPrecious

\* WorkInv holds in every reachable state of such a node.
LEMMA WorkAlways == ChainSpec => [](Orderly => WorkInv)
<1>1. ChainInit => WorkInv
  <2> SUFFICES ASSUME ChainInit PROVE WorkInv
    OBVIOUS
  <2>1. /\ Failed = {} /\ tip = Genesis /\ nTx = {Genesis} /\ setBlockIndexCandidates = {Genesis}
        /\ ~asserted /\ nSequenceId \in [Block -> Int]
        /\ \A t \in Thread : pindexMostWork[t] = Idle
    BY DEF ChainInit, Failed
  <2>2. Chain[Genesis] \cap Bad = {}
    <3>1. {Genesis} \in SUBSET Block /\ \A x \in {Genesis} \ {Genesis} : Parent[x] \in {Genesis}
      BY TreeAssumption
    <3>2. Chain[Genesis] \subseteq {Genesis}
      BY <3>1, ChainLeast
    <3> QED BY <3>2, SetAssumption
  <2>3. ~Worse(Genesis, Genesis, nSequenceId)
    BY <2>1, TreeAssumption, WorseFacts
  <2>4. At(tip, setBlockIndexCandidates, Failed) /\ Best(tip, Failed)
    BY <2>1, <2>3 DEF At, Best
  <2> QED BY <2>1, <2>2, <2>4, SetAssumption DEF WorkInv
<1>2. BaseInv /\ MarkInv /\ (Orderly => WorkInv) /\ [ChainNext]_chainVars => (Orderly => WorkInv)'
  BY WorkNext DEF MarkInv, Orderly, SingleThread, Careful, NoPrecious
<1> QED BY <1>1, <1>2, BaseAlways, MarkAlways, PTL DEF ChainSpec

\* CheckBlockIndex: whenever nothing is being activated, every block that is at
\* least as good as the tip, "is valid and we have all data for its parents" is in
\* setBlockIndexCandidates.  (With two threads it is not: a thread that still
\* holds an old pindexMostWork moves the tip back after the other has pruned.)
THEOREM CandidatesAreComplete == ChainSpec => [](Orderly => CandidatesCompleteWhenQuiet)
<1>1. BaseInv /\ FailedBelowInvalid /\ WorkInv => CandidatesCompleteWhenQuiet
  <2> SUFFICES ASSUME BaseInv, FailedBelowInvalid, WorkInv, Quiet,
                      NEW b \in nChainTx, ~Worse(b, tip, nSequenceId), Chain[b] \cap failedValid = {}
               PROVE  b \in setBlockIndexCandidates
    BY DEF CandidatesCompleteWhenQuiet, CandidatesComplete
  <2>1. b \in nTx /\ b \in Block
    BY DEF BaseInv, ChainTypeOK
  <2>2. b \notin Failed
    BY <2>1, ChainClosed DEF FailedBelowInvalid, Failed
  <2> QED BY <2>1, <2>2 DEF WorkInv, At
<1> QED BY <1>1, BaseAlways, WorkAlways, MarkedBelowInvalid, PTL DEF Orderly

\* "The result is either failure or an activated best chain": whenever nothing is
\* being activated, no stored block with a chain of unmarked blocks is better than
\* the tip.
THEOREM BestChainReached == ChainSpec => [](Orderly => BestChainActive)
<1>1. BaseInv /\ WorkInv => BestChainActive
  BY DEF BaseInv, ChainTypeOK, WorkInv, Best, BestChainActive
<1> QED BY <1>1, BaseAlways, WorkAlways, PTL

\* The assertion of PruneBlockIndexCandidates holds for such a node too, with
\* invalidateblock: the watermark is always left among the candidates.
THEOREM CandidatesStayOrderly == ChainSpec => [](Orderly => CandidatesNeverEmpty)
<1>1. WorkInv => CandidatesNeverEmpty
  BY DEF WorkInv, CandidatesNeverEmpty
<1> QED BY <1>1, WorkAlways, PTL

(***************************************************************************)
(* Synchronised checkpoints: heights.                                      *)
(***************************************************************************)

\* A chain is a finite set: otherwise one would be a block of least trust with
\* an infinite chain, and its parent would be another.
LEMMA ChainFinite ==
    ASSUME NEW b \in Block
    PROVE  IsFiniteSet(Chain[b])
<1> DEFINE S == {x \in Block : ~IsFiniteSet(Chain[x])}
<1>1. SUFFICES ASSUME S # {} PROVE FALSE
  OBVIOUS
<1>2. PICK x \in S : \A y \in S : Trust[x] <= Trust[y]
  <2> DEFINE f == [y \in S |-> Trust[y]]
  <2>1. f \in [S -> Nat]
    BY TreeAssumption
  <2>2. \E x \in S : \A y \in S : f[x] <= f[y]
    <3> HIDE DEF f, S
    <3> QED BY <1>1, <2>1, LeastBy
  <2> QED BY <2>2
<1>3. CASE x = Genesis
  <2>1. {Genesis} \in SUBSET Block
    BY TreeAssumption
  <2>2. Chain[Genesis] \subseteq {Genesis}
    BY <2>1, ChainLeast
  <2>3. Chain[Genesis] = {Genesis}
    BY <2>1, <2>2, ChainClosed
  <2> QED BY <1>3, <2>3, FS_Singleton
<1>4. CASE x # Genesis
  <2>1. Parent[x] \in Block /\ Chain[x] = Chain[Parent[x]] \cup {x}
    BY <1>4, ChainStep
  <2>2. Trust[Parent[x]] < Trust[x] /\ Trust[Parent[x]] \in Nat /\ Trust[x] \in Nat
    BY <1>4, <2>1, TreeAssumption
  <2>3. Parent[x] \notin S
    BY <1>2, <2>2
  <2>4. IsFiniteSet(Chain[Parent[x]])
    BY <2>1, <2>3
  <2> HIDE DEF S
  <2>5. IsFiniteSet(Chain[x])
    BY <2>1, <2>4, FS_AddElement
  <2> QED BY <2>5 DEF S
<1> QED BY <1>3, <1>4

\* Heights grow along a chain.
LEMMA HeightBelow ==
    ASSUME NEW b \in Block, NEW a \in Chain[b], a # b
    PROVE  Height(a) \in Int /\ Height(b) \in Int /\ Height(a) < Height(b)
<1>1. a \in Block /\ Chain[a] \in SUBSET Chain[b] /\ b \in Chain[b] /\ b \notin Chain[a]
  BY ChainClosed, ChainTransitive, ChainTrust
<1>2. IsFiniteSet(Chain[a]) /\ IsFiniteSet(Chain[b])
  BY <1>1, ChainFinite
<1>3. Cardinality(Chain[a]) <= Cardinality(Chain[b]) /\ Cardinality(Chain[a]) # Cardinality(Chain[b])
  BY <1>1, <1>2, FS_Subset
<1>4. Cardinality(Chain[a]) \in Nat /\ Cardinality(Chain[b]) \in Nat
  BY <1>2, FS_CardinalityType
<1> QED BY <1>3, <1>4 DEF Height

\* Of two blocks of one chain the lower is in the chain of the higher.
LEMMA HigherDescends ==
    ASSUME NEW b \in Block, NEW a \in Chain[b], NEW k \in Chain[b], Height(k) >= Height(a)
    PROVE  a \in Chain[k]
<1>1. a \in Block /\ k \in Block
  BY ChainClosed
<1>2. CASE a = k
  BY <1>1, <1>2, ChainClosed
<1>3. CASE a # k /\ k \in Chain[a]
  <2>1. Height(k) \in Int /\ Height(a) \in Int /\ Height(k) < Height(a)
    BY <1>1, <1>3, HeightBelow
  <2> QED BY <2>1
<1> QED BY <1>2, <1>3, ChainLinear

(***************************************************************************)
(* A node with checkpoints is a node of ChainState.                        *)
(***************************************************************************)

\* Every step is a step of ChainState, or leaves the block index and the active
\* chain alone.
LEMMA SyncStep == [SyncNext]_allVars => [ChainNext]_chainVars
<1> SUFFICES ASSUME [SyncNext]_allVars PROVE [ChainNext]_chainVars
  OBVIOUS
<1>1. CASE UNCHANGED allVars
  BY <1>1 DEF allVars
<1>2. ASSUME NEW t \in Thread, NEW b \in Block \ {Genesis}, NEW fRequested \in BOOLEAN,
             SyncAcceptBlock(t, b, fRequested)
      PROVE  [ChainNext]_chainVars
  <2>1. CASE UNCHANGED chainVars
    BY <2>1
  <2>2. CASE AcceptBlock(t, b, fRequested, Checked(b, fRequested) /\ ~CheckSync(b))
    <3> DEFINE refused == Checked(b, fRequested) /\ ~CheckSync(b)
    <3>1. CASE refused
      <4>1. refused = TRUE
        BY <3>1
      <4>2. AcceptBlock(t, b, fRequested, TRUE)
        <5> HIDE DEF refused
        <5> QED BY <2>2, <4>1 DEF refused
      <4> QED BY <4>2, RefusalAssumption DEF ChainNext
    <3>2. CASE ~refused
      <4>1. refused = FALSE
        BY <3>2
      <4>2. AcceptBlock(t, b, fRequested, FALSE)
        <5> HIDE DEF refused
        <5> QED BY <2>2, <4>1 DEF refused
      <4> QED BY <4>2 DEF ChainNext
    <3> QED BY <3>1, <3>2
  <2> QED BY <1>2, <2>1, <2>2 DEF SyncAcceptBlock
<1>3. ASSUME NEW t \in Thread, ActivateBestChain(t)
      PROVE  [ChainNext]_chainVars
  BY <1>3 DEF ChainNext
<1>4. ASSUME NEW t \in Thread, NEW b \in Block, AcceptBlockHeader(t, b)
      PROVE  [ChainNext]_chainVars
  BY <1>4 DEF ChainNext
<1>5. ASSUME NEW c \in Block, ProcessSyncCheckpoint(c)
      PROVE  [ChainNext]_chainVars
  BY <1>5 DEF ProcessSyncCheckpoint
<1>6. CASE LeaveInitialDownload
  BY <1>6 DEF LeaveInitialDownload
<1> QED BY <1>1, <1>2, <1>3, <1>4, <1>5, <1>6 DEF SyncNext

\* What is proved of ChainState holds of a node with synchronised checkpoints too.
LEMMA CheckpointsRefine == SyncSpec => ChainSpec
<1>1. SyncInit => ChainInit
  BY DEF SyncInit
<1> QED BY <1>1, SyncStep, PTL DEF SyncSpec, ChainSpec

(***************************************************************************)
(* What a checkpoint binds.                                                *)
(***************************************************************************)

\* The checkpoint is a block, and so is the pending one unless it is null.
SyncTypeOK == hashSyncCheckpoint \in Block /\ hashPendingCheckpoint \in Block \cup {NoBlock}

\* CheckSync lets a block pass only when the checkpoint is below it, although it
\* looks no further than the first active block: the assertion before it has found
\* the checkpoint active too, and of two active blocks the higher descends from
\* the lower.
LEMMA PassedDescends ==
    ASSUME BaseInv, SyncTypeOK, NEW b \in Block, b \notin nTx,
           CheckSync(b), ~CheckSyncAsserts, Height(tip) # 0
    PROVE  hashSyncCheckpoint \in Chain[b]
<1>1. tip \in Block /\ Chain[tip] \subseteq nTx /\ hashSyncCheckpoint \in Chain[tip]
  BY DEF BaseInv, ChainTypeOK, NothingUnlinked, HaveTransactions, CheckSyncAsserts, Active
<1>2. PICK k \in Chain[b] : k \in Chain[tip] /\ Height(k) >= Height(hashSyncCheckpoint)
  BY <1>1 DEF CheckSync, Active
<1>3. hashSyncCheckpoint \in Chain[k]
  BY <1>1, <1>2, HigherDescends
<1> QED BY <1>2, <1>3, ChainTransitive

\* What AcceptBlock does to the stored blocks.
LEMMA StoredBlock ==
    ASSUME NEW t \in Thread, NEW b \in Block, NEW fRequested \in BOOLEAN, NEW fRefused \in BOOLEAN,
           AcceptBlock(t, b, fRequested, fRefused)
    PROVE  \/ nTx' = nTx
           \/ /\ nTx' = nTx \cup {b} /\ b \notin nTx
              /\ ParentReady(b) /\ Wanted(b, fRequested) /\ b \notin Malformed /\ ~fRefused
BY DEF AcceptBlock, ReceivedBlockTransactions, Wanted

\* A block that is stored and not exempt descends from the checkpoint, before and
\* after AcceptPendingSyncCheckpoint.
LEMMA BindsBlock ==
    ASSUME BaseInv, SyncTypeOK, CheckpointBinds,
           NEW t \in Thread, NEW b \in Block \ {Genesis}, NEW fRequested \in BOOLEAN,
           SyncAcceptBlock(t, b, fRequested)
    PROVE  SyncTypeOK' /\ CheckpointBinds'
<1>1. CASE UNCHANGED <<chainVars, hashSyncCheckpoint, hashPendingCheckpoint, before>>
  BY <1>1 DEF chainVars, indexVars, SyncTypeOK, CheckpointBinds
<1> DEFINE refused == Checked(b, fRequested) /\ ~CheckSync(b)
<1>2. CASE /\ ~(Checked(b, fRequested) /\ Free(t) /\ HeaderAccepted(b) /\ CheckSyncAsserts)
           /\ AcceptBlock(t, b, fRequested, refused)
           /\ IF nTx' # nTx THEN AcceptPendingSyncCheckpoint(b)
              ELSE UNCHANGED <<hashSyncCheckpoint, hashPendingCheckpoint, before>>
  <2>0. refused \in BOOLEAN /\ Free(t) /\ HeaderAccepted(b)
    BY <1>2 DEF AcceptBlock
  <2>1. CASE nTx' = nTx
    BY <1>2, <2>1 DEF SyncTypeOK, CheckpointBinds
  <2>2. CASE nTx' # nTx
    <3>1. /\ nTx' = nTx \cup {b} /\ b \notin nTx
          /\ ParentReady(b) /\ Wanted(b, fRequested) /\ b \notin Malformed /\ ~refused
      <4> HIDE DEF refused
      <4> QED BY <1>2, <2>0, <2>2, StoredBlock
    <3>2. AcceptPendingSyncCheckpoint(b)
      BY <1>2, <2>2
    <3>3. SyncTypeOK'
      BY <3>2 DEF AcceptPendingSyncCheckpoint, PendingAccepted, SyncTypeOK
    <3>4. CASE PendingAccepted
      BY <3>1, <3>2, <3>3, <3>4 DEF AcceptPendingSyncCheckpoint, CheckpointBinds
    <3>5. CASE ~PendingAccepted /\ Unchecked
      BY <3>1, <3>2, <3>3, <3>5 DEF AcceptPendingSyncCheckpoint, CheckpointBinds
    <3>6. CASE ~PendingAccepted /\ ~Unchecked
      <4>1. Checked(b, fRequested) /\ CheckSync(b) /\ ~CheckSyncAsserts /\ Height(tip) # 0
        BY <1>2, <2>0, <3>1, <3>6 DEF Checked, Unchecked
      <4>2. hashSyncCheckpoint \in Chain[b]
        BY <3>1, <4>1, PassedDescends
      <4> QED BY <3>1, <3>2, <3>3, <3>6, <4>2 DEF AcceptPendingSyncCheckpoint, CheckpointBinds
    <3> QED BY <3>4, <3>5, <3>6
  <2> QED BY <2>1, <2>2
<1> HIDE DEF refused
<1> QED BY <1>1, <1>2 DEF SyncAcceptBlock, refused

\* No step disturbs what the checkpoint binds.
LEMMA BindsNext == BaseInv /\ SyncTypeOK /\ CheckpointBinds /\ [SyncNext]_allVars
                        => SyncTypeOK' /\ CheckpointBinds'
<1> SUFFICES ASSUME BaseInv, SyncTypeOK, CheckpointBinds, [SyncNext]_allVars
             PROVE  SyncTypeOK' /\ CheckpointBinds'
  OBVIOUS
<1>1. CASE UNCHANGED allVars
  BY <1>1 DEF allVars, chainVars, indexVars, syncVars, SyncTypeOK, CheckpointBinds
<1>2. ASSUME NEW t \in Thread, NEW b \in Block \ {Genesis}, NEW fRequested \in BOOLEAN,
             SyncAcceptBlock(t, b, fRequested)
      PROVE  SyncTypeOK' /\ CheckpointBinds'
  BY <1>2, BindsBlock
<1>3. ASSUME NEW t \in Thread, ActivateBestChain(t), UNCHANGED syncVars
      PROVE  SyncTypeOK' /\ CheckpointBinds'
  BY <1>3 DEF ActivateBestChain, indexVars, syncVars, SyncTypeOK, CheckpointBinds
<1>4. ASSUME NEW t \in Thread, NEW b \in Block, AcceptBlockHeader(t, b), UNCHANGED syncVars
      PROVE  SyncTypeOK' /\ CheckpointBinds'
  BY <1>4 DEF AcceptBlockHeader, syncVars, SyncTypeOK, CheckpointBinds
<1>5. ASSUME NEW c \in Block, ProcessSyncCheckpoint(c)
      PROVE  SyncTypeOK' /\ CheckpointBinds'
  BY <1>5 DEF ProcessSyncCheckpoint, chainVars, indexVars, SyncTypeOK, CheckpointBinds
<1>6. CASE LeaveInitialDownload
  BY <1>6 DEF LeaveInitialDownload, chainVars, indexVars, SyncTypeOK, CheckpointBinds
<1> QED BY <1>1, <1>2, <1>3, <1>4, <1>5, <1>6 DEF SyncNext

LEMMA BindsAlways == SyncSpec => [](SyncTypeOK /\ CheckpointBinds)
<1>1. SyncInit => SyncTypeOK /\ CheckpointBinds
  BY TreeAssumption DEF SyncInit, ChainInit, SyncTypeOK, CheckpointBinds
<1>2. SyncSpec => []BaseInv
  BY CheckpointsRefine, BaseAlways, PTL
<1> QED BY <1>1, <1>2, BindsNext, PTL DEF SyncSpec

\* A checkpoint binds what comes after it, whatever the active chain does: past
\* the initial download, every block stored since hashSyncCheckpoint was last set
\* descends from it, unless it was stored while a reorganisation had the active
\* chain back at genesis.
THEOREM CheckpointHolds == SyncSpec => []CheckpointBinds
BY BindsAlways, PTL

\* A step moves the checkpoint only up its own chain: neither a message nor a
\* pending checkpoint, however late it is taken, replaces it by one of another
\* branch or by one below it.
CheckpointAdvances == hashSyncCheckpoint \in Chain[hashSyncCheckpoint']

\* Checkpoints form a chain (ValidateSyncCheckpoint is asked again when a pending
\* checkpoint is taken).
THEOREM CheckpointsFormChain == SyncSpec => [][CheckpointAdvances]_allVars
<1>1. SyncTypeOK /\ [SyncNext]_allVars => [CheckpointAdvances]_allVars
  <2> SUFFICES ASSUME SyncTypeOK, SyncNext PROVE CheckpointAdvances
    OBVIOUS
  <2>1. CASE hashSyncCheckpoint' = hashSyncCheckpoint
    BY <2>1, ChainClosed DEF CheckpointAdvances, SyncTypeOK
  <2>2. CASE ValidateSyncCheckpoint(hashSyncCheckpoint')
    BY <2>2 DEF ValidateSyncCheckpoint, CheckpointAdvances
  <2>3. ASSUME NEW b \in Block, AcceptPendingSyncCheckpoint(b)
        PROVE  hashSyncCheckpoint' = hashSyncCheckpoint \/ ValidateSyncCheckpoint(hashSyncCheckpoint')
    BY <2>3 DEF AcceptPendingSyncCheckpoint, PendingAccepted
  <2>4. ASSUME NEW t \in Thread, NEW b \in Block \ {Genesis}, NEW r \in BOOLEAN, SyncAcceptBlock(t, b, r)
        PROVE  CheckpointAdvances
    BY <2>1, <2>2, <2>3, <2>4 DEF SyncAcceptBlock
  <2>5. ASSUME NEW c \in Block, ProcessSyncCheckpoint(c) PROVE CheckpointAdvances
    BY <2>1, <2>2, <2>5 DEF ProcessSyncCheckpoint
  <2>6. CASE LeaveInitialDownload \/ UNCHANGED syncVars
    BY <2>1, <2>6 DEF LeaveInitialDownload, syncVars
  <2> QED BY <2>4, <2>5, <2>6 DEF SyncNext
<1> QED BY <1>1, BindsAlways, PTL DEF SyncSpec
=============================================================================
