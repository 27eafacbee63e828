------------------------------ MODULE CoinsView ------------------------------
(***************************************************************************)
(* What CCoinsView promises (src/coins.h), without caches and flags: three *)
(* complete maps from transactions to unspent outputs.  The chainstate     *)
(* database keeps disk, pcoinsTip stands for tip, and the view that        *)
(* ConnectTip or DisconnectTip puts on top of it stands for view.  Each    *)
(* map has the block whose state it represents.                            *)
(*                                                                         *)
(* A write to the database that fails leaves pcoinsTip "undefined", as     *)
(* the comment on Flush has it; the database is as it was until the node   *)
(* writes again, and a restart reads it back.                              *)
(***************************************************************************)
CONSTANTS Txids, Outs, Hashes, NullHash, RandPay, RandPayCoins

VARIABLES
    view, tip, disk,                \* Txids -> unspent outputs
    viewBest, tipBest, diskBest,    \* hashBlock
    open,                           \* a view is stacked on pcoinsTip
    promise                         \* what a failed write has left undefined

absVars == <<view, tip, disk, viewBest, tipBest, diskBest, open, promise>>

Coins == [Txids -> SUBSET Outs]
HashOrNull == Hashes \cup {NullHash}

AbsInit ==
    /\ disk = [t \in Txids |-> {}]
    /\ tip = [disk EXCEPT ![RandPay] = RandPayCoins]
    /\ view = tip
    /\ viewBest = NullHash /\ tipBest = NullHash /\ diskBest = NullHash
    /\ open = FALSE
    /\ promise = "kept"

\* A new view shows what pcoinsTip shows, and the randpay output.
AbsOpen ==
    /\ promise # "undefined"
    /\ ~open
    /\ open' = TRUE
    /\ view' = [tip EXCEPT ![RandPay] = RandPayCoins]
    /\ viewBest' = tipBest
    /\ UNCHANGED <<tip, disk, tipBest, diskBest, promise>>

AbsChange ==
    /\ open
    /\ \E t \in Txids \ {RandPay}, c \in SUBSET Outs : view' = [view EXCEPT ![t] = c]
    /\ UNCHANGED <<tip, disk, viewBest, tipBest, diskBest, open, promise>>

AbsSetBest ==
    /\ open
    /\ viewBest' \in Hashes
    /\ UNCHANGED <<view, tip, disk, tipBest, diskBest, open, promise>>

\* Changes reach pcoinsTip all at once, or not at all.
AbsCommit ==
    /\ open
    /\ open' = FALSE
    /\ tip' = view /\ tipBest' = viewBest
    /\ UNCHANGED <<view, disk, viewBest, diskBest, promise>>

AbsDrop ==
    /\ open
    /\ open' = FALSE
    /\ view' = tip /\ viewBest' = tipBest
    /\ UNCHANGED <<tip, disk, tipBest, diskBest, promise>>

\* They reach the database all at once too.
AbsFlush ==
    /\ promise = "kept"
    /\ disk' = tip /\ diskBest' = tipBest
    /\ UNCHANGED <<view, tip, viewBest, tipBest, open, promise>>

\* A restart loses what was not written, and nothing else.
AbsRestart ==
    /\ promise # "undefined"
    /\ promise' = "kept"
    /\ open' = FALSE
    /\ tip' = [disk EXCEPT ![RandPay] = RandPayCoins] /\ tipBest' = diskBest
    /\ view' = tip' /\ viewBest' = tipBest'
    /\ UNCHANGED <<disk, diskBest>>

AbsFail ==
    /\ promise = "kept" /\ promise' = "disk"
    /\ tip' \in Coins /\ view' \in Coins
    /\ UNCHANGED <<disk, diskBest, open>>
    /\ viewBest' \in HashOrNull /\ tipBest' \in HashOrNull

\* With pcoinsTip undefined only the database is promised, until it is written.
AbsUndefined ==
    /\ promise \in {"disk", "undefined"}
    /\ \/ promise' = promise /\ promise = "disk" /\ UNCHANGED <<disk, diskBest>>
       \/ promise' = "undefined" /\ disk' \in Coins /\ diskBest' \in HashOrNull
    /\ tip' \in Coins /\ view' \in Coins
    /\ viewBest' \in HashOrNull /\ tipBest' \in HashOrNull
    /\ open' \in BOOLEAN

AbsNext ==
    \/ AbsOpen \/ AbsChange \/ AbsSetBest \/ AbsCommit \/ AbsDrop
    \/ AbsFlush \/ AbsRestart \/ AbsFail \/ AbsUndefined

AbsSpec == AbsInit /\ [][AbsNext]_absVars
=============================================================================
