---------------------------- MODULE SyncCheckpoint ----------------------------
(***************************************************************************)
(* Synchronised checkpoints (src/checkpoints.cpp) over the block index of  *)
(* ChainState: signed "checkpoint" messages arrive, blocks that do not     *)
(* descend from the checkpoint are refused, and a checkpoint the node is   *)
(* not ready for waits until a block is accepted.                          *)
(*                                                                         *)
(* ProcessSyncCheckpoint and AcceptBlock each hold cs_main throughout; the *)
(* lock is free between AcceptBlock and the rounds of ActivateBestChain.   *)
(* The node has a master key (it has by default) and the operator gives no *)
(* commands.  hashInvalidCheckpoint (a warning) and the messages kept for  *)
(* relay are left out.                                                     *)
(***************************************************************************)
EXTENDS ChainState

CONSTANTS
    Signed,             \* the blocks the master signs checkpoints of
    ProcessDepth,       \* 2 in the code
    PendingDepth        \* 32 in the code

ASSUME CheckpointAssumption ==
    /\ Signed \subseteq Block
    /\ ProcessDepth \in Nat /\ PendingDepth \in Nat

\* No block but genesis is exempt from the check.
ASSUME RefusalAssumption == Block \ {Genesis} \subseteq MayRefuse

VARIABLES
    hashSyncCheckpoint,
    hashPendingCheckpoint,  \* NoBlock: null
    fInitialDownload,       \* IsInitialBlockDownload(); once false, it stays so
    syncAsserted,           \* an assertion of CheckSync has failed
    before                  \* the blocks stored when the checkpoint was last set, or
                            \* unchecked after that (for CheckpointBinds)

syncVars == <<hashSyncCheckpoint, hashPendingCheckpoint, fInitialDownload, syncAsserted, before>>
allVars == <<chainVars, syncVars>>

SyncInit ==
    /\ ChainInit
    /\ hashSyncCheckpoint = Genesis /\ hashPendingCheckpoint = NoBlock
    /\ fInitialDownload = TRUE
    /\ syncAsserted = FALSE
    /\ before = {Genesis}

\* chainActive.Contains
Active(b) == b \in Chain[tip]

-----------------------------------------------------------------------------
\* ValidateSyncCheckpoint: above the checkpoint and a descendant of it
ValidateSyncCheckpoint(c) ==
    /\ Height(c) > Height(hashSyncCheckpoint)
    /\ hashSyncCheckpoint \in Chain[c]

\* Mutant: the trace goes on below the checkpoint's height, to the fork.
CheckSync_AnyFork(b) == TRUE

\* CheckSync, once its assertion holds: a block above the checkpoint has a block in
\* the active chain at or above the height of the checkpoint.  (A block at its
\* height or below is refused unless active.)
CheckSync(b) ==
    \/ Height(tip) = 0
    \/ /\ Height(b) > Height(hashSyncCheckpoint)
       /\ \E k \in Chain[b] : Active(k) /\ Height(k) >= Height(hashSyncCheckpoint)
    \/ Height(b) <= Height(hashSyncCheckpoint) /\ Active(b)

\* AcceptBlock reaches the checkpoint check of b.
Checked(b, fRequested) ==
    /\ ParentReady(b) /\ Wanted(b, fRequested) /\ b \notin Malformed
    /\ ~fInitialDownload

\* "sync-checkpoint should always be accepted block", and active
CheckSyncAsserts == Height(tip) # 0 /\ ~Active(hashSyncCheckpoint)

\* AcceptBlock stores a block without a check: "skip checks during reindex" also
\* skips them while a reorganisation has the active chain back at genesis.
Unchecked == fInitialDownload \/ Height(tip) = 0

\* AcceptPendingSyncCheckpoint takes the pending checkpoint.
PendingAccepted ==
    /\ hashPendingCheckpoint # NoBlock
    /\ ValidateSyncCheckpoint(hashPendingCheckpoint)
    /\ Active(hashPendingCheckpoint)
    /\ Height(hashPendingCheckpoint) <= Height(tip) - PendingDepth

\* AcceptPendingSyncCheckpoint, at the end of AcceptBlock of a block that is stored,
\* with the active chain that ActivateBestChain has not changed yet.
AcceptPendingSyncCheckpoint(b) ==
    \/ /\ PendingAccepted
       /\ hashSyncCheckpoint' = hashPendingCheckpoint
       /\ hashPendingCheckpoint' = NoBlock
       /\ before' = nTx \cup {b}
    \/ /\ ~PendingAccepted
       /\ hashPendingCheckpoint' =
            IF hashPendingCheckpoint # NoBlock /\ ~ValidateSyncCheckpoint(hashPendingCheckpoint)
            THEN NoBlock ELSE hashPendingCheckpoint
       /\ before' = IF Unchecked THEN before \cup {b} ELSE before
       /\ UNCHANGED hashSyncCheckpoint

\* ProcessNewBlock up to ActivateBestChain
SyncAcceptBlock(t, b, fRequested) ==
    LET reached == Checked(b, fRequested) /\ Free(t) /\ HeaderAccepted(b)
    IN  /\ ~syncAsserted
        /\ \/ /\ reached /\ CheckSyncAsserts
              /\ syncAsserted' = TRUE
              /\ UNCHANGED <<chainVars, hashSyncCheckpoint, hashPendingCheckpoint, before>>
           \/ /\ ~(reached /\ CheckSyncAsserts)
              /\ AcceptBlock(t, b, fRequested, Checked(b, fRequested) /\ ~CheckSync(b))
              /\ IF nTx' # nTx THEN AcceptPendingSyncCheckpoint(b)
                 ELSE UNCHANGED <<hashSyncCheckpoint, hashPendingCheckpoint, before>>
              /\ UNCHANGED syncAsserted
        /\ UNCHANGED fInitialDownload

\* ProcessSyncCheckpoint of a signed message for c
ProcessSyncCheckpoint(c) ==
    /\ ~asserted /\ ~syncAsserted
    /\ c \in Signed /\ c \in mapBlockIndex /\ ValidateSyncCheckpoint(c)
    /\ \/ /\ Active(c) /\ Height(c) <= Height(tip) - ProcessDepth
          /\ hashSyncCheckpoint' = c
          /\ hashPendingCheckpoint' = NoBlock
          /\ before' = nTx
       \/ /\ ~(Active(c) /\ Height(c) <= Height(tip) - ProcessDepth)
          /\ hashPendingCheckpoint' = c
          /\ UNCHANGED <<hashSyncCheckpoint, before>>
    /\ UNCHANGED <<chainVars, fInitialDownload, syncAsserted>>

\* IsInitialBlockDownload latches to false.
LeaveInitialDownload ==
    /\ fInitialDownload /\ ~syncAsserted
    /\ fInitialDownload' = FALSE
    /\ UNCHANGED <<chainVars, hashSyncCheckpoint, hashPendingCheckpoint, syncAsserted, before>>

SyncNext ==
    \/ \E t \in Thread :
        \/ \E b \in Block \ {Genesis}, fRequested \in BOOLEAN : SyncAcceptBlock(t, b, fRequested)
        \/ /\ ~syncAsserted /\ UNCHANGED syncVars
           /\ \/ ActivateBestChain(t)
              \/ \E b \in Block : AcceptBlockHeader(t, b)
    \/ \E c \in Block : ProcessSyncCheckpoint(c)
    \/ LeaveInitialDownload

SyncSpec == SyncInit /\ [][SyncNext]_allVars

-----------------------------------------------------------------------------
(* Properties.                                                             *)

\* A checkpoint binds what comes after it: past the initial download, every block
\* stored since the checkpoint was set descends from it, unless the active chain
\* was down to the genesis block at that moment, although CheckSync never
\* looks for the checkpoint itself in the chain of the block and the active chain
\* changes without regard to checkpoints.
CheckpointBinds == \A b \in nTx \ before : hashSyncCheckpoint \in Chain[b]

\* "assert(chainActive.Contains(pindexSync))" of CheckSync holds.
CheckpointStaysActive == ~syncAsserted
=============================================================================
