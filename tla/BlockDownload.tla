---------------------------- MODULE BlockDownload ----------------------------
(***************************************************************************)
(* Block download (src/net_processing.cpp): what peers announce, which     *)
(* peer is asked for headers, which blocks are requested from whom,        *)
(* mapBlocksInFlight with the queues and counters of the peers,            *)
(* mapBlocksWait for blocks that arrive before their parent, stalling and  *)
(* timeouts, and peers that come and go.                                   *)
(*                                                                         *)
(* The message handler is one thread.  Handling a block takes several      *)
(* steps, one for each turn of its loop over mapBlocksWait.  Its pass      *)
(* holds references to peers, to the one that sent the block in any case,  *)
(* and FinalizeNode waits for those to be released.                        *)
(*                                                                         *)
(* A peer has the chain of one block.  All peers are outbound, have        *)
(* witnesses and are not banned; compact blocks are left out.  A block     *)
(* that is accepted is connected before the next turn: tip is the best of  *)
(* the accepted blocks (the properties of ChainState).                     *)
(***************************************************************************)
EXTENDS Integers, FiniteSets, FiniteSetsExt, SequencesExt

CONSTANTS
    Peer, NoPeer, Block, NoBlock, Genesis,
    Parent,             \* hashPrevBlock
    Trust,              \* nChainTrust
    Invalid,            \* the blocks AcceptBlock finds invalid
    Serves,             \* peer -> the tip of its chain
    Honest,             \* the peers that stay and answer in time
    Malleable,          \* bound: the blocks that others may send malformed
    MaxInTransit,       \* MAX_BLOCKS_IN_TRANSIT_PER_PEER
    Window,             \* BLOCK_DOWNLOAD_WINDOW
    MinBlocksToKeep     \* MIN_BLOCKS_TO_KEEP

\* A hash commits to the block below, so that no block is below itself.
ASSUME TreeAssumption ==
    /\ Genesis \in Block /\ NoBlock \notin Block
    /\ Parent \in [Block \ {Genesis} -> Block]
    /\ \A S \in SUBSET (Block \ {Genesis}) : S # {} => \E b \in S : Parent[b] \notin S

ASSUME PeerAssumption ==
    /\ IsFiniteSet(Peer) /\ NoPeer \notin Peer
    /\ Serves \in [Peer -> Block]
    /\ MaxInTransit \in Nat

VARIABLES
    mapBlockIndex,      \* blocks whose header is known
    have,               \* those with BLOCK_VALID_TRANSACTIONS and data
    failed,             \* BLOCK_FAILED_MASK
    tip,
    connected, fDisconnect, \* the peers, and those to be disconnected
    pindexBestKnownBlock, hashLastUnknownBlock, pindexLastCommonBlock,
    fSyncStarted, nSyncStarted, \* the peers that were asked for headers, and their number
    getheaders,         \* honest peers that are yet to answer a getheaders
    dl,                 \* the state of the downloads, see NoDownloads
    asked,              \* honest peer -> the blocks it is yet to send, in order
    mapBlocksWait,      \* parent -> the block that waits for it, or NoBlock
    malformed,          \* the parents for which one waits that CheckBlock refuses
    handling,           \* the block whose message is handled, or NoBlock
    pfrom,              \* the peer that sent it, or NoPeer
    pindexLastAccepted

indexVars == <<mapBlockIndex, have, failed, tip>>
peerVars == <<connected, fDisconnect>>
knownVars == <<pindexBestKnownBlock, hashLastUnknownBlock>>
syncVars == <<fSyncStarted, nSyncStarted, getheaders>>
waitVars == <<mapBlocksWait, malformed, handling, pfrom, pindexLastAccepted>>
downloadVars == <<indexVars, peerVars, knownVars, syncVars, pindexLastCommonBlock, dl, asked,
                  waitVars>>

\* The blocks of the chain of last that are in S, from genesis up
Selected(last, S) ==
    LET walk[b \in Block] ==
            LET below == IF b = Genesis THEN <<>> ELSE walk[Parent[b]]
            IN  IF b \in S THEN Append(below, b) ELSE below
    IN  walk[last]

\* b and the blocks below it
Path == [b \in Block |-> Selected(b, Block)]
Chain == [b \in Block |-> ToSet(Path[b])]
Height(b) == Len(Path[b]) - 1

\* Peers that the message handler serves
Served(p) == p \in connected \ fDisconnect /\ handling = NoBlock

-----------------------------------------------------------------------------
(* Requests.  mapBlocksInFlight gives the peer a block is requested from,  *)
(* vBlocksInFlight the queue of a peer, nBlocksInFlight its length,        *)
(* stalling whether nStallingSince is set.  Headers are always validated   *)
(* when a block is requested: nBlocksInFlightValidHeaders is               *)
(* nBlocksInFlight.                                                        *)

NoDownloads ==
    [mapBlocksInFlight |-> [b \in Block |-> NoPeer],
     vBlocksInFlight |-> [p \in Peer |-> <<>>],
     nBlocksInFlight |-> [p \in Peer |-> 0],
     stalling |-> [p \in Peer |-> FALSE],
     nPeersWithValidatedDownloads |-> 0]

\* Erase block b of a queue.
Erase(queue, b) == RemoveAt(queue, CHOOSE i \in DOMAIN queue : queue[i] = b)

\* Mutant: the peer is counted out with every block.
MarkBlockAsReceived_Always(d, b) ==
    LET p == d.mapBlocksInFlight[b]
    IN  IF p = NoPeer THEN d
        ELSE [mapBlocksInFlight |-> [d.mapBlocksInFlight EXCEPT ![b] = NoPeer],
              vBlocksInFlight |-> [d.vBlocksInFlight EXCEPT ![p] = Erase(@, b)],
              nBlocksInFlight |-> [d.nBlocksInFlight EXCEPT ![p] = @ - 1],
              stalling |-> [d.stalling EXCEPT ![p] = FALSE],
              nPeersWithValidatedDownloads |-> d.nPeersWithValidatedDownloads - 1]

MarkBlockAsReceived(d, b) ==
    LET p == d.mapBlocksInFlight[b]
    IN  IF p = NoPeer THEN d
        ELSE [mapBlocksInFlight |-> [d.mapBlocksInFlight EXCEPT ![b] = NoPeer],
              vBlocksInFlight |-> [d.vBlocksInFlight EXCEPT ![p] = Erase(@, b)],
              nBlocksInFlight |-> [d.nBlocksInFlight EXCEPT ![p] = @ - 1],
              stalling |-> [d.stalling EXCEPT ![p] = FALSE],
              nPeersWithValidatedDownloads |->
                IF d.nBlocksInFlight[p] = 1 THEN d.nPeersWithValidatedDownloads - 1
                ELSE d.nPeersWithValidatedDownloads]

\* MarkBlockAsInFlight for a block that is not in flight
Queued(d, p, b) ==
    [mapBlocksInFlight |-> [d.mapBlocksInFlight EXCEPT ![b] = p],
     vBlocksInFlight |-> [d.vBlocksInFlight EXCEPT ![p] = Append(@, b)],
     nBlocksInFlight |-> [d.nBlocksInFlight EXCEPT ![p] = @ + 1],
     stalling |-> d.stalling,
     nPeersWithValidatedDownloads |->
        IF d.nBlocksInFlight[p] = 0 THEN d.nPeersWithValidatedDownloads + 1
        ELSE d.nPeersWithValidatedDownloads]

MarkBlockAsInFlight(d, p, b) ==
    IF d.mapBlocksInFlight[b] = p THEN d ELSE Queued(MarkBlockAsReceived(d, b), p, b)

\* The blocks of a sequence are requested from p, one after the other.
MarkAll(d, p, blocks) ==
    LET after[k \in 0..Len(blocks)] ==
            IF k = 0 THEN d ELSE MarkBlockAsInFlight(after[k - 1], p, blocks[k])
    IN  after[Len(blocks)]

\* getdata for them.  Bound: a block that is asked again before the first answer is
\* answered once.
Request(d, p, blocks) ==
    /\ dl' = MarkAll(d, p, blocks)
    /\ asked' = [asked EXCEPT ![p] = IF p \in Honest
                    THEN @ \o SelectSeq(blocks, LAMBDA b : b \notin ToSet(asked[p])) ELSE @]

-----------------------------------------------------------------------------
(* Announcements.                                                          *)

\* pindexBestKnownBlock of p after b was announced, and known is b's header
BestKnown(best, b) == IF best = NoBlock \/ Trust[b] >= Trust[best] THEN b ELSE best

\* ProcessBlockAvailability with the headers of index
Announced(p, index) ==
    IF hashLastUnknownBlock[p] \in index
    THEN BestKnown(pindexBestKnownBlock[p], hashLastUnknownBlock[p])
    ELSE pindexBestKnownBlock[p]

StillUnknown(p, index) ==
    IF hashLastUnknownBlock[p] \in index THEN NoBlock ELSE hashLastUnknownBlock[p]

\* UpdateBlockAvailability of p for b
UpdateBlockAvailability(p, b, index) ==
    /\ pindexBestKnownBlock' = [pindexBestKnownBlock EXCEPT ![p] =
            IF b \in index THEN BestKnown(Announced(p, index), b) ELSE Announced(p, index)]
    /\ hashLastUnknownBlock' = [hashLastUnknownBlock EXCEPT ![p] =
            IF b \in index THEN StillUnknown(p, index) ELSE b]

\* pindexBestHeader, the header of most trust (the first of several)
BestHeaders == {h \in mapBlockIndex : \A b \in mapBlockIndex : Trust[b] <= Trust[h]}

\* getheaders with the locator of start.  The answer is empty, and nothing comes of
\* it, if the chain of p ends there or below.
AskHeaders(p, start) ==
    getheaders' = IF p \in Honest /\ Serves[p] \notin Chain[start] THEN getheaders \cup {p}
                  ELSE getheaders

\* An inv message with the tip of p.  Its headers are asked for if it is unknown.
InvMessage(p) ==
    /\ Served(p)
    /\ Serves[p] # pindexBestKnownBlock[p] /\ Serves[p] # hashLastUnknownBlock[p]
    /\ UpdateBlockAvailability(p, Serves[p], mapBlockIndex)
    /\ IF Serves[p] \notin mapBlockIndex /\ dl.mapBlocksInFlight[Serves[p]] = NoPeer
       THEN \E pindexBestHeader \in BestHeaders : AskHeaders(p, pindexBestHeader)
       ELSE UNCHANGED getheaders
    /\ UNCHANGED <<indexVars, peerVars, fSyncStarted, nSyncStarted, pindexLastCommonBlock, dl,
                   asked, waitVars>>

\* As many blocks of a sequence as p may have in flight in addition
UpToLimit(p, blocks) ==
    LET room == MaxInTransit - dl.nBlocksInFlight[p]
    IN  IF room <= 0 THEN <<>>
        ELSE SubSeq(blocks, 1, IF room < Len(blocks) THEN room ELSE Len(blocks))

\* Direct fetch: the blocks to switch to last, none if there are too many.
DirectFetch(p, last) ==
    LET above == Selected(last, Block \ Chain[tip])
        fetch == Selected(last, {b \in Block \ (Chain[tip] \cup have) :
                                    dl.mapBlocksInFlight[b] = NoPeer})
        reached == \/ Len(fetch) <= MaxInTransit
                   \/ Len(fetch) = MaxInTransit + 1 /\ Head(fetch) = Head(above)
    IN  IF Trust[tip] > Trust[last] \/ ~reached THEN <<>> ELSE UpToLimit(p, fetch)

\* The header of p's tip follows a known one.
Connects(p) == Chain[Serves[p]] \ {Serves[p]} \subseteq mapBlockIndex

\* A headers message with the tip of p, whose parent is unknown
UnconnectingHeaders(p) ==
    /\ Served(p) /\ ~Connects(p)
    /\ \E pindexBestHeader \in BestHeaders : AskHeaders(p, pindexBestHeader)
    /\ UpdateBlockAvailability(p, Serves[p], mapBlockIndex)
    /\ UNCHANGED <<indexVars, peerVars, fSyncStarted, nSyncStarted, pindexLastCommonBlock, dl,
                   asked, waitVars>>

\* The headers of p's chain.  An honest peer sends them when it is asked, or its tip
\* alone when that connects.  A header on a failed block is an error.
HeadersMessage(p, fCanDirectFetch) ==
    LET last == Serves[p]
        index == mapBlockIndex \cup {b \in Chain[last] : Chain[b] \cap failed = {}}
    IN  /\ Served(p)
        /\ \/ p \in getheaders
           \/ pindexBestKnownBlock[p] # last /\ (p \notin Honest \/ Connects(p))
        /\ getheaders' = getheaders \ {p}
        /\ mapBlockIndex' = index
        /\ IF Chain[last] \cap failed = {}
           THEN /\ UpdateBlockAvailability(p, last, index)
                /\ IF fCanDirectFetch THEN Request(dl, p, DirectFetch(p, last))
                   ELSE UNCHANGED <<dl, asked>>
           ELSE UNCHANGED <<knownVars, dl, asked>>
        /\ UNCHANGED <<have, failed, tip, peerVars, fSyncStarted, nSyncStarted,
                       pindexLastCommonBlock, waitVars>>

-----------------------------------------------------------------------------
(* FindNextBlocksToDownload and the end of SendMessages.                   *)

\* LastCommonAncestor
LastCommonAncestor(a, b) == CHOOSE c \in Chain[a] \cap Chain[b] :
                                \A x \in Chain[a] \cap Chain[b] : Height(x) <= Height(c)

\* The first guess is the active block at the height of the best block of p.
StartCommon(p, best) ==
    LET guess == IF pindexLastCommonBlock[p] # NoBlock THEN pindexLastCommonBlock[p]
                 ELSE Path[tip][1 + Min({Height(best), Height(tip)})]
    IN  LastCommonAncestor(guess, best)

\* The blocks that the walk from common towards best looks at and that are not
\* stored.  It ends at a failed block, and one block beyond the window.  (Stored
\* blocks have stored parents: what is missing lies above what is linked.)
Missing(best, common) ==
    {b \in Chain[best] \ have : /\ Chain[b] \cap failed = {}
                               /\ Height(b) <= Height(common) + Window + 1}
Free(best, common) == {b \in Missing(best, common) : dl.mapBlocksInFlight[b] = NoPeer}

\* FindNextBlocksToDownload for p: the first free blocks of the window
FindNextBlocksToDownload(p, best, common) ==
    UpToLimit(p, Selected(best, {b \in Free(best, common) :
                                    Height(b) <= Height(common) + Window}))

\* The linked block that pindexLastCommonBlock moves up to
Linked(best, common) ==
    Path[best][Max({i \in 1..Len(Path[best]) :
                        Path[best][i] \in have /\ i <= Height(common) + Window + 2})]

\* nodeStaller: nothing is free but the block beyond the window, and the first
\* block in flight is awaited from another peer
Stallers(p, best, common) ==
    {s \in Peer \ {p} :
        /\ Free(best, common) # {}
        /\ FindNextBlocksToDownload(p, best, common) = <<>>
        /\ \E b \in Missing(best, common) :
            /\ dl.mapBlocksInFlight[b] = s
            /\ \A x \in Missing(best, common) : Height(x) < Height(b) => x \in Free(best, common)}

\* nStallingSince of the stallers is set.
Stalled(d, stallers) ==
    [mapBlocksInFlight |-> d.mapBlocksInFlight,
     vBlocksInFlight |-> d.vBlocksInFlight,
     nBlocksInFlight |-> d.nBlocksInFlight,
     stalling |-> [s \in Peer |-> d.stalling[s] \/ s \in stallers],
     nPeersWithValidatedDownloads |-> d.nPeersWithValidatedDownloads]

\* The start of header sync, with one peer at a time unless the best header is
\* close to today.  The headers are asked for from its parent on.
StartFrom(h) == IF h = Genesis THEN h ELSE Parent[h]

StartSync(p, fRecent) ==
    IF p \notin fSyncStarted /\ (nSyncStarted = 0 \/ fRecent)
    THEN /\ fSyncStarted' = fSyncStarted \cup {p}
         /\ nSyncStarted' = nSyncStarted + 1
         /\ \E pindexBestHeader \in BestHeaders : AskHeaders(p, StartFrom(pindexBestHeader))
    ELSE UNCHANGED syncVars

\* Request blocks from p, if its chain is not worse than ours; a peer that holds up
\* the window for a peer without requests begins to stall.
RequestBlocks(p) ==
    LET best == Announced(p, mapBlockIndex)
    IN  IF dl.nBlocksInFlight[p] < MaxInTransit
        THEN /\ pindexBestKnownBlock' = [pindexBestKnownBlock EXCEPT ![p] = best]
             /\ hashLastUnknownBlock' =
                    [hashLastUnknownBlock EXCEPT ![p] = StillUnknown(p, mapBlockIndex)]
             /\ IF best # NoBlock /\ Trust[best] >= Trust[tip]
                THEN \E common \in {StartCommon(p, best)} :
                    /\ pindexLastCommonBlock' =
                            [pindexLastCommonBlock EXCEPT ![p] = Linked(best, common)]
                    /\ \E stallers \in {Stallers(p, best, common)} :
                        Request(Stalled(dl, IF dl.nBlocksInFlight[p] = 0 THEN stallers ELSE {}),
                                p, FindNextBlocksToDownload(p, best, common))
                ELSE UNCHANGED <<pindexLastCommonBlock, dl, asked>>
        ELSE UNCHANGED <<knownVars, pindexLastCommonBlock, dl, asked>>

SendMessages(p, fRecent) ==
    /\ Served(p)
    /\ StartSync(p, fRecent)
    /\ RequestBlocks(p)
    /\ UNCHANGED <<indexVars, peerVars, waitVars>>

\* An honest peer answers every request before its time runs out.
Overdue(p) == p \in Honest => asked[p] = <<>>

\* SendMessages disconnects a peer that stalls the download for two seconds, or
\* that has a request at the front of its queue for too long.
StallTimeout(p) ==
    /\ Served(p) /\ dl.stalling[p]
    /\ Overdue(p)
    /\ fDisconnect' = fDisconnect \cup {p}
    /\ UNCHANGED <<indexVars, connected, knownVars, syncVars, pindexLastCommonBlock, dl, asked,
                   waitVars>>

DownloadTimeout(p) ==
    /\ Served(p) /\ dl.vBlocksInFlight[p] # <<>>
    /\ Overdue(p)
    /\ fDisconnect' = fDisconnect \cup {p}
    /\ UNCHANGED <<indexVars, connected, knownVars, syncVars, pindexLastCommonBlock, dl, asked,
                   waitVars>>

-----------------------------------------------------------------------------
(* Peers.                                                                  *)

\* An honest peer connects again when it was disconnected.  (A peer that is not
\* honest does so under a new NodeId; the members of Peer bound those.)
InitializeNode(p) ==
    /\ p \in Honest \ connected
    /\ connected' = connected \cup {p}
    /\ UNCHANGED <<indexVars, fDisconnect, knownVars, syncVars, pindexLastCommonBlock, dl, asked,
                   waitVars>>

\* A peer that is not honest closes the connection, or is banned.
CloseConnection(p) ==
    /\ p \in connected \ (fDisconnect \cup Honest)
    /\ fDisconnect' = fDisconnect \cup {p}
    /\ UNCHANGED <<indexVars, connected, knownVars, syncVars, pindexLastCommonBlock, dl, asked,
                   waitVars>>

\* Mutant: the blocks in flight from the peer stay in mapBlocksInFlight and its queue.
Finalized_Kept(d, p) ==
    [mapBlocksInFlight |-> d.mapBlocksInFlight,
     vBlocksInFlight |-> d.vBlocksInFlight,
     nBlocksInFlight |-> [d.nBlocksInFlight EXCEPT ![p] = 0],
     stalling |-> [d.stalling EXCEPT ![p] = FALSE],
     nPeersWithValidatedDownloads |->
        IF d.nBlocksInFlight[p] = 0 THEN d.nPeersWithValidatedDownloads
        ELSE d.nPeersWithValidatedDownloads - 1]

\* FinalizeNode: the requests of the peer are forgotten with it.
Finalized(d, p) ==
    [mapBlocksInFlight |-> [b \in Block |-> IF b \in ToSet(d.vBlocksInFlight[p]) THEN NoPeer
                                            ELSE d.mapBlocksInFlight[b]],
     vBlocksInFlight |-> [d.vBlocksInFlight EXCEPT ![p] = <<>>],
     nBlocksInFlight |-> [d.nBlocksInFlight EXCEPT ![p] = 0],
     stalling |-> [d.stalling EXCEPT ![p] = FALSE],
     nPeersWithValidatedDownloads |->
        IF d.nBlocksInFlight[p] = 0 THEN d.nPeersWithValidatedDownloads
        ELSE d.nPeersWithValidatedDownloads - 1]

\* Mutant: the peer keeps its part of nSyncStarted.
SyncLeft_Kept(p) == nSyncStarted
SyncLeft(p) == IF p \in fSyncStarted THEN nSyncStarted - 1 ELSE nSyncStarted

\* Between two turns of a loop it runs for peers that are not in vNodesCopy.
FinalizeNode(p) ==
    /\ p \in fDisconnect /\ p # pfrom
    /\ connected' = connected \ {p} /\ fDisconnect' = fDisconnect \ {p}
    /\ fSyncStarted' = fSyncStarted \ {p} /\ nSyncStarted' = SyncLeft(p)
    /\ getheaders' = getheaders \ {p}
    /\ dl' = Finalized(dl, p)
    /\ asked' = [asked EXCEPT ![p] = <<>>]
    /\ pindexBestKnownBlock' = [pindexBestKnownBlock EXCEPT ![p] = NoBlock]
    /\ hashLastUnknownBlock' = [hashLastUnknownBlock EXCEPT ![p] = NoBlock]
    /\ pindexLastCommonBlock' = [pindexLastCommonBlock EXCEPT ![p] = NoBlock]
    /\ UNCHANGED <<indexVars, waitVars>>

-----------------------------------------------------------------------------
(* Block messages.                                                         *)

\* Blocks that p may send: an honest peer answers its requests in order, another
\* sends what it likes of its chain.
MaySend(p) == IF p \in Honest THEN {b \in Block : asked[p] # <<>> /\ b = Head(asked[p])}
              ELSE Chain[Serves[p]] \ {Genesis}

\* The block is put into mapBlocksWait under its parent, and the loop begins.  A
\* block that was not requested needs a parent that is accepted.
BlockMessage(p, b, fMalformed) ==
    /\ Served(p) /\ b \in MaySend(p) /\ (fMalformed => p \notin Honest /\ b \in Malleable)
    /\ asked' = [asked EXCEPT ![p] = SelectSeq(@, LAMBDA x : x # b)]
    /\ IF /\ Parent[b] \in mapBlockIndex
          /\ dl.mapBlocksInFlight[b] # NoPeer \/ Parent[b] \in have \ failed
       THEN /\ mapBlocksWait' = [mapBlocksWait EXCEPT ![Parent[b]] = b]
            /\ malformed' = IF fMalformed THEN malformed \cup {Parent[b]}
                            ELSE malformed \ {Parent[b]}
            /\ handling' = b /\ pfrom' = p
            /\ pindexLastAccepted' = IF pindexLastAccepted = NoBlock THEN tip
                                     ELSE pindexLastAccepted
       ELSE UNCHANGED waitVars
    /\ UNCHANGED <<indexVars, peerVars, knownVars, syncVars, pindexLastCommonBlock, dl>>

Waiting == {k \in Block : mapBlocksWait[k] # NoBlock}

\* A turn that removes a block: the parent has failed, or the block has waited for
\* 60 seconds.
DropWaiting(k) ==
    /\ handling # NoBlock
    /\ k \in Waiting /\ pindexLastAccepted \notin Waiting
    /\ mapBlocksWait[k] # handling \/ k \in failed
    /\ mapBlocksWait' = [mapBlocksWait EXCEPT ![k] = NoBlock]
    /\ malformed' = malformed \ {k}
    /\ dl' = MarkBlockAsReceived(dl, mapBlocksWait[k])
    /\ UNCHANGED <<indexVars, peerVars, knownVars, syncVars, pindexLastCommonBlock, asked,
                   handling, pfrom, pindexLastAccepted>>

\* The block that waits for k is selected: k was accepted last, or, found by the
\* scan, k is accepted.
Selects(k) == k = pindexLastAccepted \/ (pindexLastAccepted \notin Waiting /\ k \in have \ failed)

\* AcceptBlock looks at a block that was not requested if it has more trust than
\* the tip and is not too far ahead.
Wanted(b, force) ==
    force \/ (Trust[b] > Trust[tip] /\ Height(b) <= Height(tip) + MinBlocksToKeep)

\* AcceptBlock stores b, or finds it invalid.
Stored(b, force) ==
    Parent[b] \in have \ failed /\ b \notin have \cup failed \cup Invalid /\ Wanted(b, force)
Refused(b, force) ==
    Parent[b] \in have \ failed /\ b \in Invalid \ failed /\ Wanted(b, force)

\* A turn that takes a block out of mapBlocksWait and processes it.  CheckBlock
\* refuses a malformed block before AcceptBlock sees it.
ProcessWaiting(k) ==
    LET b == mapBlocksWait[k]
        force == dl.mapBlocksInFlight[b] # NoPeer
    IN  /\ handling # NoBlock
        /\ k \in Waiting /\ Selects(k)
        /\ mapBlocksWait' = [mapBlocksWait EXCEPT ![k] = NoBlock]
        /\ malformed' = malformed \ {k}
        /\ dl' = MarkBlockAsReceived(dl, b)
        /\ IF k \in malformed THEN UNCHANGED <<indexVars, pindexLastAccepted>>
           ELSE /\ mapBlockIndex' = IF k \in failed THEN mapBlockIndex ELSE mapBlockIndex \cup {b}
                /\ have' = IF Stored(b, force) THEN have \cup {b} ELSE have
                /\ failed' = IF Refused(b, force) THEN failed \cup {b} ELSE failed
                /\ tip' = IF Stored(b, force) /\ Trust[b] > Trust[tip] THEN b ELSE tip
                /\ pindexLastAccepted' =
                    IF k \notin have \/ k \in failed \/ b \in failed' THEN NoBlock ELSE b
        /\ UNCHANGED <<peerVars, knownVars, syncVars, pindexLastCommonBlock, asked, handling,
                       pfrom>>

\* Nothing is selected: the message is done.
EndLoop ==
    /\ handling # NoBlock
    /\ \A k \in Waiting : ~Selects(k) /\ k \notin failed
    /\ handling' = NoBlock /\ pfrom' = NoPeer
    /\ UNCHANGED <<indexVars, peerVars, knownVars, syncVars, pindexLastCommonBlock, dl, asked,
                   mapBlocksWait, malformed, pindexLastAccepted>>

-----------------------------------------------------------------------------
DownloadInit ==
    /\ mapBlockIndex = {Genesis} /\ have = {Genesis} /\ failed = {} /\ tip = Genesis
    /\ connected = Peer /\ fDisconnect = {}
    /\ pindexBestKnownBlock = [p \in Peer |-> NoBlock]
    /\ hashLastUnknownBlock = [p \in Peer |-> NoBlock]
    /\ pindexLastCommonBlock = [p \in Peer |-> NoBlock]
    /\ fSyncStarted = {} /\ nSyncStarted = 0 /\ getheaders = {}
    /\ dl = NoDownloads
    /\ asked = [p \in Peer |-> <<>>]
    /\ mapBlocksWait = [b \in Block |-> NoBlock]
    /\ malformed = {}
    /\ handling = NoBlock /\ pfrom = NoPeer /\ pindexLastAccepted = NoBlock

DownloadNext ==
    \/ \E p \in Peer :
        \/ InitializeNode(p) \/ CloseConnection(p) \/ FinalizeNode(p)
        \/ InvMessage(p) \/ UnconnectingHeaders(p)
        \/ \E fCanDirectFetch \in BOOLEAN : HeadersMessage(p, fCanDirectFetch)
        \/ \E fRecent \in BOOLEAN : SendMessages(p, fRecent)
        \/ StallTimeout(p) \/ DownloadTimeout(p)
        \/ \E b \in Block, fMalformed \in BOOLEAN : BlockMessage(p, b, fMalformed)
    \/ \E k \in Block : DropWaiting(k) \/ ProcessWaiting(k)
    \/ EndLoop

DownloadSpec == DownloadInit /\ [][DownloadNext]_downloadVars

(* Fairness.  The handler ends every loop; it serves every peer in every    *)
(* pass, so that what a pass could do again and again for a peer is done;   *)
(* and honest peers connect and answer what they are asked.  Nothing is     *)
(* assumed of headers nobody asked for, nor that the best header is recent. *)
LoopTurn ==
    \/ EndLoop
    \/ \E k \in Block : ProcessWaiting(k) \/ (k \in failed /\ DropWaiting(k))

AnswerHeaders(p) ==
    p \in getheaders /\ \E fCanDirectFetch \in BOOLEAN : HeadersMessage(p, fCanDirectFetch)

DownloadFairness ==
    /\ WF_downloadVars(LoopTurn)
    /\ \A p \in Peer : SF_downloadVars(FinalizeNode(p)) /\ SF_downloadVars(DownloadTimeout(p))
    /\ \A p \in Honest :
        /\ WF_downloadVars(InitializeNode(p))
        /\ SF_downloadVars(AnswerHeaders(p))
        /\ SF_downloadVars(SendMessages(p, FALSE))
        /\ SF_downloadVars(\E b \in Block : BlockMessage(p, b, FALSE))

FairDownloadSpec == DownloadSpec /\ DownloadFairness

-----------------------------------------------------------------------------
(* Properties.                                                             *)

\* mapBlocksInFlight, the queues of the peers and the two counters that the time
\* limit and the assertions of FinalizeNode rely on always tell the same story,
\* nSyncStarted counts the peers that headers are synced with, and a disconnected
\* peer has no part in either.
InFlightExact ==
    /\ \A p \in Peer :
        /\ ToSet(dl.vBlocksInFlight[p]) = {b \in Block : dl.mapBlocksInFlight[b] = p}
        /\ dl.nBlocksInFlight[p] = Len(dl.vBlocksInFlight[p])
        /\ dl.nBlocksInFlight[p] = Cardinality(ToSet(dl.vBlocksInFlight[p]))
        /\ dl.nBlocksInFlight[p] <= MaxInTransit
        /\ p \notin connected => dl.nBlocksInFlight[p] = 0
    /\ dl.nPeersWithValidatedDownloads =
            Cardinality({p \in Peer : dl.nBlocksInFlight[p] > 0})
    /\ fSyncStarted \subseteq connected
    /\ nSyncStarted = Cardinality(fSyncStarted)

\* The chain of p is downloaded and connected, or a better one.
CaughtUp(p) == <>(Trust[tip] >= Trust[Serves[p]])

\* Whatever the other peers do (hold the slot of header sync in silence, stay
\* silent with requests, close the connection, push blocks, announce an invalid
\* chain), a chain of valid blocks is downloaded and connected if an honest peer
\* that has it announces its tip.
CatchUp ==
    \A p \in Honest : Chain[Serves[p]] \cap Invalid = {} =>
        (SF_downloadVars(InvMessage(p)) => CaughtUp(p))

\* It is also when the peer announces nothing, if the peer is up-to-date ("as long as
\* the peer is up-to-date") and no other peer holds the slot of header sync for ever:
\* FinalizeNode frees the slot, and the getheaders of SendMessages has an answer.
HeadersSync ==
    \A p \in Honest :
        /\ Chain[Serves[p]] \cap Invalid = {}
        /\ \A b \in Block : Serves[p] \in Chain[b] => b = Serves[p]
        => (<>[](fSyncStarted \subseteq {p}) => CaughtUp(p))

\* A block in flight from an honest peer is on its way, or waits for its parent
\* ("store in memory until we can connect it to some chain").
InFlightAccounted ==
    \A b \in Block : dl.mapBlocksInFlight[b] \in Honest =>
        b \in ToSet(asked[dl.mapBlocksInFlight[b]]) \/ mapBlocksWait[Parent[b]] = b
=============================================================================
