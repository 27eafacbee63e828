------------------------------ MODULE ChainState ------------------------------
(***************************************************************************)
(* The block index of an MFCoin node and the activation of the best chain  *)
(* (src/validation.cpp): headers and blocks arrive, several threads run    *)
(* ActivateBestChain, and the operator invalidates, reconsiders and        *)
(* prefers blocks.                                                         *)
(*                                                                         *)
(* Every action is one region under cs_main.  ActivateBestChain releases   *)
(* the lock between its steps and keeps pindexMostWork in a local          *)
(* variable; no other lock keeps the threads apart.                        *)
(*                                                                         *)
(* Block files are never pruned here (-prune=0, the default).  The fork    *)
(* warnings (pindexBestInvalid, pindexBestForkTip) and pindexBestHeader    *)
(* have no effect on the rest and are left out; so are disk errors, after  *)
(* which the node shuts down.                                              *)
(***************************************************************************)
EXTENDS Integers, FiniteSets

CONSTANTS
    Block,          \* the blocks of the network
    Genesis,        \* the genesis block
    NoBlock,        \* NULL
    Parent,         \* hashPrevBlock, a function on the other blocks
    Trust,          \* nChainTrust
    Address,        \* the address of the CBlockIndex, the last tie breaker
    Bad,            \* the blocks ConnectBlock finds invalid
    Malformed,      \* the blocks the contextual and proof-of-stake checks refuse
    MayRefuse,      \* the blocks a synchronised checkpoint may refuse
    Thread,         \* message handler, miner and RPC threads
    Idle,           \* a thread that is not in ActivateBestChain
    MinBlocksToKeep,\* 288 in the code
    Commands,       \* the commands the operator uses
    MaxCommands     \* bound: how many commands are given

\* b and the blocks below it: the smallest set with b that is closed under pprev.
Chain == [b \in Block |->
            {a \in Block : \A S \in SUBSET Block :
                (b \in S /\ \A x \in S \ {Genesis} : Parent[x] \in S) => a \in S}]

Height(b) == Cardinality(Chain[b]) - 1

ASSUME TreeAssumption ==
    /\ Genesis \in Block /\ NoBlock \notin Block
    /\ Parent \in [Block \ {Genesis} -> Block]
    /\ Trust \in [Block -> Nat] /\ Address \in [Block -> Nat]
    /\ \A b \in Block \ {Genesis} : Trust[Parent[b]] < Trust[b]
    /\ \E c \in Block : \A b \in Block : Trust[b] <= Trust[c]
    /\ \A a, b \in Block : Address[a] = Address[b] => a = b

ASSUME SetAssumption ==
    /\ Bad \subseteq Block \ {Genesis}
    /\ Malformed \subseteq Block \ {Genesis}
    /\ MayRefuse \subseteq Block
    /\ Idle \notin Block \cup {NoBlock}
    /\ MinBlocksToKeep \in Nat /\ MaxCommands \in Nat
    /\ Commands \subseteq {"invalidateblock", "reconsiderblock", "reconsider_root", "preciousblock"}

VARIABLES
    mapBlockIndex,              \* the blocks whose header is known
    nTx,                        \* those whose transactions are: nTx # 0, HAVE_DATA
    nChainTx,                   \* those with nChainTx # 0
    mapBlocksUnlinked,          \* blocks with data below which data is missing
    failedValid, failedChild,   \* BLOCK_FAILED_VALID, BLOCK_FAILED_CHILD
    nSequenceId,
    nBlockSequenceId,           \* the next positive sequence id
    precious,                   \* nBlockReverseSequenceId, nLastPreciousChainwork
    setBlockIndexCandidates,
    tip,                        \* chainActive.Tip(); chainActive is Chain[tip]
    pindexMostWork,             \* per thread, its variable in ActivateBestChain
    asserted,                   \* an assertion has failed: the process is gone
    commands                    \* commands given

indexVars == <<mapBlockIndex, nTx, nChainTx, mapBlocksUnlinked>>
orderVars == <<nSequenceId, nBlockSequenceId, precious>>
chainVars == <<indexVars, failedValid, failedChild, orderVars, setBlockIndexCandidates,
               tip, pindexMostWork, asserted, commands>>

Failed == failedValid \cup failedChild

-----------------------------------------------------------------------------
(* Order and sets of blocks.                                               *)

\* CBlockIndexWorkComparator
Worse(a, b, seq) ==
    \/ Trust[a] < Trust[b]
    \/ Trust[a] = Trust[b] /\ seq[a] > seq[b]
    \/ Trust[a] = Trust[b] /\ seq[a] = seq[b] /\ Address[a] > Address[b]

\* The last element of setBlockIndexCandidates.
BestOf(S) == CHOOSE b \in S : \A a \in S : a # b => Worse(a, b, nSequenceId)

\* IsValid(BLOCK_VALID_TRANSACTIONS) with nChainTx set, under the marks failed
Eligible(b, failed) == b \in nTx /\ b \in nChainTx /\ b \notin failed

\* Mutant: the tip itself is removed too.
PruneBlockIndexCandidates_Equal(cand, tips, seq) ==
    {c \in cand : \A k \in tips : Worse(k, c, seq)}

\* What is left of the candidates after PruneBlockIndexCandidates with each of
\* the blocks of tips as the tip.
PruneBlockIndexCandidates(cand, tips, seq) ==
    {c \in cand : \A k \in tips : ~Worse(c, k, seq)}

-----------------------------------------------------------------------------
(* Arrival of headers and blocks.                                          *)

ChainInit ==
    /\ mapBlockIndex = {Genesis} /\ nTx = {Genesis} /\ nChainTx = {Genesis}
    /\ mapBlocksUnlinked = {}
    /\ failedValid = {} /\ failedChild = {}
    /\ nSequenceId = [b \in Block |-> IF b = Genesis THEN 1 ELSE 0]
    /\ nBlockSequenceId = 2
    /\ precious = [nBlockReverseSequenceId |-> -1, nLastPreciousChainwork |-> 0]
    /\ setBlockIndexCandidates = {Genesis}
    /\ tip = Genesis
    /\ pindexMostWork = [t \in Thread |-> Idle]
    /\ asserted = FALSE
    /\ commands = 0

\* A thread of a running node that is not in ActivateBestChain.
Free(t) == ~asserted /\ pindexMostWork[t] = Idle

\* Mutant: a header is accepted without its parent.
HeaderAccepted_Orphan(b) == b \notin Failed

\* AcceptBlockHeader succeeds on b.
HeaderAccepted(b) ==
    IF b \in mapBlockIndex THEN b \notin Failed
    ELSE Parent[b] \in mapBlockIndex \ Failed

\* ProcessNewBlockHeaders, for one header that is new.
AcceptBlockHeader(t, b) ==
    /\ Free(t)
    /\ b \notin mapBlockIndex /\ HeaderAccepted(b)
    /\ mapBlockIndex' = mapBlockIndex \cup {b}
    /\ UNCHANGED <<nTx, nChainTx, mapBlocksUnlinked, failedValid, failedChild, orderVars,
                   setBlockIndexCandidates, tip, pindexMostWork, asserted, commands>>

\* Mutant: a block is accepted on a parent whose transactions are not known.
ParentReady_Header(b) == Parent[b] \notin Failed

\* AcceptBlock: "we should only accept blocks that can be connected to a prev
\* block with validated PoS"
ParentReady(b) == Parent[b] \in nTx \ Failed

\* AcceptBlock goes on to check and store b.
Wanted(b, fRequested) ==
    /\ b \notin nTx
    /\ fRequested \/ (Trust[b] > Trust[tip] /\ Height(b) <= Height(tip) + MinBlocksToKeep)

ReceivedCandidates(b, seq) ==
    IF ~Worse(b, tip, seq) THEN setBlockIndexCandidates \cup {b} ELSE setBlockIndexCandidates

\* ReceivedBlockTransactions.  (Blocks waiting in mapBlocksUnlinked for b would
\* follow; NothingUnlinked says that there are none.)
ReceivedBlockTransactions(b) ==
    /\ nTx' = nTx \cup {b}
    /\ \/ /\ Parent[b] \in nChainTx
          /\ nChainTx' = nChainTx \cup {b}
          /\ nSequenceId' = [nSequenceId EXCEPT ![b] = nBlockSequenceId]
          /\ nBlockSequenceId' = nBlockSequenceId + 1
          /\ setBlockIndexCandidates' = ReceivedCandidates(b, nSequenceId')
          /\ UNCHANGED mapBlocksUnlinked
       \/ /\ Parent[b] \notin nChainTx
          /\ mapBlocksUnlinked' = mapBlocksUnlinked \cup {b}
          /\ UNCHANGED <<nChainTx, nSequenceId, nBlockSequenceId, setBlockIndexCandidates>>
    /\ UNCHANGED <<failedValid, precious>>

\* ProcessNewBlock up to the call of ActivateBestChain: AcceptBlock of b.  The
\* first disjunct stores the block, the second finds it invalid, the third
\* returns early, with the header accepted at most.
AcceptBlock(t, b, fRequested, fRefused) ==
    /\ Free(t)
    /\ b # Genesis /\ HeaderAccepted(b)
    /\ mapBlockIndex' = mapBlockIndex \cup {b}
    /\ \/ /\ ParentReady(b) /\ Wanted(b, fRequested) /\ b \notin Malformed /\ ~fRefused
          /\ ReceivedBlockTransactions(b)
          /\ pindexMostWork' = [pindexMostWork EXCEPT ![t] = NoBlock]
       \/ /\ ParentReady(b) /\ Wanted(b, fRequested) /\ (b \in Malformed \/ fRefused)
          /\ failedValid' = failedValid \cup {b}
          /\ UNCHANGED <<nTx, nChainTx, mapBlocksUnlinked, orderVars, setBlockIndexCandidates,
                         pindexMostWork>>
       \/ /\ ~(ParentReady(b) /\ Wanted(b, fRequested))
          /\ ~fRefused
          /\ pindexMostWork' = [pindexMostWork EXCEPT ![t] =
                                    IF ParentReady(b) THEN NoBlock ELSE Idle]
          /\ UNCHANGED <<nTx, nChainTx, mapBlocksUnlinked, failedValid, orderVars,
                         setBlockIndexCandidates>>
    /\ UNCHANGED <<failedChild, tip, asserted, commands>>

-----------------------------------------------------------------------------
(* ActivateBestChain.                                                      *)

\* The blocks that would have to be connected to make b the tip.
Missing(b) == Chain[b] \ Chain[tip]

\* Mutant: only the candidate itself is looked at.
Usable_Candidate(c) == c \notin Failed

\* FindMostWorkChain: no block on the way to c is marked
Usable(c) == Missing(c) \cap Failed = {}

\* The candidates that are tried and found unusable, and the
\* blocks from them down to the failed block on their way.
Tried ==
    LET usable == {c \in setBlockIndexCandidates : Usable(c)}
    IN  {c \in setBlockIndexCandidates \ usable :
            \A u \in usable : Worse(u, c, nSequenceId)}

Given(c) == {k \in Missing(c) : (Chain[c] \ Chain[k]) \cap Failed = {}}
GivenUp == UNION {Given(c) : c \in Tried}

FindMostWorkChain ==
    LET usable == {c \in setBlockIndexCandidates : Usable(c)}
    IN  IF usable = {} THEN NoBlock ELSE BestOf(usable)

LeftAfterFind(cand) == cand \ GivenUp

\* ActivateBestChainStep stops at a block that is invalid or better than the old
\* tip.
StopsAt(k) == k \in Bad \/ Trust[k] > Trust[tip]

\* Where the step towards b stops (b itself when nothing stops it).
StopOf(b) ==
    LET stops == {k \in Missing(b) : StopsAt(k)}
    IN  IF stops = {} THEN b ELSE CHOOSE k \in stops : \A s \in stops : k \in Chain[s]

\* Mutant: the candidates are not pruned when the tip moves.
Prune_None(cand, tips) == cand

\* PruneBlockIndexCandidates after every block of the step that connects.
Prune(cand, tips) == PruneBlockIndexCandidates(cand, tips, nSequenceId)

\* Mutant: pindexMostWork is kept although a block on the way to it is invalid.
NextTarget_Kept(b, invalid, newTip) == IF newTip = b THEN Idle ELSE b
\* Mutant: the loop ends when the tip has improved.
NextTarget_OneStep(b, invalid, newTip) == IF invalid THEN NoBlock ELSE Idle

\* ActivateBestChain after a step towards b: "Wipe cache, we may need another
\* branch now" when an invalid block was met, leave the loop at b.
NextTarget(b, invalid, newTip) ==
    CASE invalid -> NoBlock
      [] ~invalid /\ newTip = b -> Idle
      [] OTHER -> b

\* ActivateBestChainStep towards b with the candidates cand: disconnect to the
\* fork, then connect until StopOf.  An invalid block is marked and erased
\* (InvalidBlockFound), and the thread forgets pindexMostWork.
ActivateBestChainStep(t, b, cand) ==
    LET stop == StopOf(b)
        invalid == stop \in Missing(b) /\ stop \in Bad
        connected == (Chain[stop] \ Chain[tip]) \ Bad
        left == Prune(cand, connected)
        newTip == IF invalid THEN Parent[stop] ELSE stop
    IN  /\ tip' = newTip
        /\ asserted' = (connected # {} /\ left = {})
        /\ setBlockIndexCandidates' = IF invalid THEN left \ {stop} ELSE left
        /\ failedValid' = IF invalid THEN failedValid \cup {stop} ELSE failedValid
        /\ pindexMostWork' = [pindexMostWork EXCEPT ![t] = NextTarget(b, invalid, newTip)]

\* One round of the loop of ActivateBestChain, from the lock to its release.
ActivateBestChain(t) ==
    /\ ~asserted /\ pindexMostWork[t] # Idle
    /\ \/ /\ pindexMostWork[t] = NoBlock
          /\ failedChild' = failedChild \cup (GivenUp \ Failed)
          /\ \/ /\ FindMostWorkChain \in {NoBlock, tip}
                /\ setBlockIndexCandidates' = LeftAfterFind(setBlockIndexCandidates)
                /\ pindexMostWork' = [pindexMostWork EXCEPT ![t] = Idle]
                /\ UNCHANGED <<tip, asserted, failedValid>>
             \/ /\ FindMostWorkChain \notin {NoBlock, tip}
                /\ ActivateBestChainStep(t, FindMostWorkChain, LeftAfterFind(setBlockIndexCandidates))
       \/ /\ pindexMostWork[t] = tip
          /\ pindexMostWork' = [pindexMostWork EXCEPT ![t] = Idle]
          /\ UNCHANGED <<tip, asserted, failedValid, failedChild, setBlockIndexCandidates>>
       \/ /\ pindexMostWork[t] \notin {NoBlock, tip}
          /\ ActivateBestChainStep(t, pindexMostWork[t], setBlockIndexCandidates)
          /\ UNCHANGED failedChild
    /\ UNCHANGED <<indexVars, orderVars, commands>>

-----------------------------------------------------------------------------
(* Commands of the operator.                                               *)

Command(t, c, b) ==
    /\ Free(t)
    /\ c \in Commands /\ commands < MaxCommands
    /\ b \in mapBlockIndex
    /\ commands' = commands + 1
    /\ pindexMostWork' = [pindexMostWork EXCEPT ![t] = NoBlock]

\* Mutant: the candidates are not completed for the new, worse tip.
CandidatesFrom_None(failed, newTip) == {}

\* InvalidateBlock: the blocks that are at least as good as the new tip
CandidatesFrom(failed, newTip) ==
    {k \in mapBlockIndex : Eligible(k, failed) /\ ~Worse(k, newTip, nSequenceId)}

\* invalidateblock: mark b, disconnect it with everything above it.  (The operator
\* does not invalidate the genesis block.)
InvalidateBlock(t, b) ==
    LET gone == IF b \in Chain[tip] THEN Chain[tip] \ Chain[Parent[b]] ELSE {}
        newTip == IF gone = {} THEN tip ELSE Parent[b]
        failed == Failed \cup {b} \cup gone
    IN  /\ b # Genesis
        /\ Command(t, "invalidateblock", b)
        /\ failedValid' = failedValid \cup {b}
        /\ failedChild' = failedChild \cup gone
        /\ tip' = newTip
        /\ setBlockIndexCandidates' =
                (setBlockIndexCandidates \ (gone \cup {b})) \cup CandidatesFrom(failed, newTip)
        /\ UNCHANGED <<indexVars, orderVars, asserted>>

\* Mutant: the marks of the descendants stay.
Cleared_NotBelow(b) == Chain[b]

\* ResetBlockFailureFlags: the block, its descendants and its ancestors
Cleared(b) == {k \in mapBlockIndex : b \in Chain[k]} \cup Chain[b]

\* reconsiderblock.  "reconsider_root" is the careful operator, who reconsiders a
\* marked block no block below which is marked.
ReconsiderBlock(t, b) ==
    LET below == {k \in mapBlockIndex : b \in Chain[k] /\ k \in Failed}
    IN  /\ \/ Command(t, "reconsiderblock", b)
           \/ Command(t, "reconsider_root", b) /\ Chain[b] \cap Failed = {b}
        /\ failedValid' = failedValid \ Cleared(b)
        /\ failedChild' = failedChild \ Cleared(b)
        /\ setBlockIndexCandidates' = setBlockIndexCandidates \cup
                {k \in below : Eligible(k, {}) /\ Worse(tip, k, nSequenceId)}
        /\ UNCHANGED <<indexVars, orderVars, tip, asserted>>

ReverseId == IF Trust[tip] > precious.nLastPreciousChainwork THEN -1
             ELSE precious.nBlockReverseSequenceId

\* preciousblock: b becomes the earliest received of its trust.
PreciousBlock(t, b) ==
    LET seq == [nSequenceId EXCEPT ![b] = ReverseId]
        cand == PruneBlockIndexCandidates(setBlockIndexCandidates \cup {b}, {tip}, seq)
    IN  /\ Command(t, "preciousblock", b)
        /\ Trust[b] >= Trust[tip]
        /\ precious' = [nBlockReverseSequenceId |-> ReverseId - 1,
                        nLastPreciousChainwork |-> Trust[tip]]
        /\ nSequenceId' = seq
        /\ setBlockIndexCandidates' = IF Eligible(b, Failed) THEN cand
                                      ELSE setBlockIndexCandidates \ {b}
        /\ asserted' = (Eligible(b, Failed) /\ cand = {})
        /\ UNCHANGED <<indexVars, failedValid, failedChild, nBlockSequenceId, tip>>

-----------------------------------------------------------------------------
ChainNext ==
    \E t \in Thread :
        \/ ActivateBestChain(t)
        \/ \E b \in Block :
            \/ AcceptBlockHeader(t, b)
            \/ \E fRequested \in BOOLEAN : AcceptBlock(t, b, fRequested, FALSE)
            \/ \E fRequested \in BOOLEAN : b \in MayRefuse /\ AcceptBlock(t, b, fRequested, TRUE)
            \/ InvalidateBlock(t, b)
            \/ ReconsiderBlock(t, b)
            \/ PreciousBlock(t, b)

ChainSpec == ChainInit /\ [][ChainNext]_chainVars

\* A thread that is in ActivateBestChain gets cs_main again and again.
FairChainSpec == ChainSpec /\ \A t \in Thread : WF_chainVars(ActivateBestChain(t))
-----------------------------------------------------------------------------
(* Properties.                                                             *)

Quiet == \A t \in Thread : pindexMostWork[t] = Idle

\* The variables hold values of their types, and the block index is a tree: the
\* parent of every block in it is in it.
ChainTypeOK ==
    /\ mapBlockIndex \subseteq Block
    /\ \A b \in mapBlockIndex : Chain[b] \subseteq mapBlockIndex
    /\ nTx \subseteq mapBlockIndex
    /\ nChainTx \subseteq nTx /\ mapBlocksUnlinked \subseteq nTx
    /\ failedValid \subseteq mapBlockIndex /\ failedChild \subseteq mapBlockIndex
    /\ nSequenceId \in [Block -> Int] /\ nBlockSequenceId \in Nat
    /\ precious.nBlockReverseSequenceId \in Int /\ precious.nLastPreciousChainwork \in Nat
    /\ setBlockIndexCandidates \subseteq mapBlockIndex
    /\ tip \in mapBlockIndex
    /\ pindexMostWork \in [Thread -> mapBlockIndex \cup {NoBlock, Idle}]
    /\ asserted \in BOOLEAN /\ commands \in 0..MaxCommands

\* Because AcceptBlock wants a parent with transactions, blocks are linked in the
\* order of the chain: a block with data has data all the way down to genesis,
\* and mapBlocksUnlinked is never used.
NothingUnlinked ==
    /\ mapBlocksUnlinked = {}
    /\ nChainTx = nTx
    /\ \A b \in nTx : Chain[b] \subseteq nTx

\* CheckBlockIndex: "If this block sorts worse than the current tip or some
\* ancestor's block has never been seen, it cannot be in setBlockIndexCandidates."
CandidatesNotWorse ==
    \A c \in setBlockIndexCandidates : c \in nChainTx /\ ~Worse(c, tip, nSequenceId)

\* CheckBlockIndex: a block "at least as good as the current tip" that "is valid
\* and we have all data for its parents" is a candidate; the tip always is.
CandidatesComplete ==
    \A b \in nChainTx :
        ~Worse(b, tip, nSequenceId) /\ Chain[b] \cap failedValid = {}
        => b \in setBlockIndexCandidates

\* The same whenever no thread is inside ActivateBestChain.
CandidatesCompleteWhenQuiet == Quiet => CandidatesComplete

\* CheckBlockIndex: "The failed mask cannot be set for blocks without invalid
\* parents."
FailedBelowInvalid == \A b \in failedChild : Chain[b] \cap failedValid # {}

\* Neither a block found invalid nor one the operator has invalidated is in the
\* active chain.
NoFailedActive == ~asserted => Chain[tip] \cap Failed = {}

\* "Either the current tip or a successor of it we're working towards is left in
\* setBlockIndexCandidates": the assertion of PruneBlockIndexCandidates.
CandidatesNeverEmpty == ~asserted

\* "The result is either failure or an activated best chain": when all threads
\* have left ActivateBestChain, no block with a chain of unmarked blocks is
\* better than the tip.
BestChainActive ==
    Quiet => \A b \in nChainTx :
                Chain[b] \cap Failed = {} => ~Worse(tip, b, nSequenceId)

\* Every call of ActivateBestChain returns, whatever the other threads do.
ActivationReturns ==
    \A t \in Thread : pindexMostWork[t] # Idle ~> pindexMostWork[t] = Idle

\* A stored block all of whose chain is valid is activated, or one at least as
\* good, unless the operator invalidates it or a block below it, or a checkpoint
\* has refused one.
BestBlockActivated ==
    \A b \in Block :
        (b \in nTx /\ Chain[b] \cap (Bad \cup Malformed) = {})
            ~> (Trust[tip] >= Trust[b] \/ Chain[b] \cap Failed # {})
=============================================================================
