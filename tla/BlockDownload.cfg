SPECIFICATION FairDownloadSpec
CONSTANTS
    Peer = {"p", "q"}
    NoPeer = "none"
    Block = {"g", "x1", "a2", "b2"}
    NoBlock = "null"
    Genesis = "g"
    Parent <- ForkParent
    Trust <- ForkTrust
    Invalid = {"b2"}
    Serves <- ForkServes
    Honest = {"p"}
    Malleable = {"x1"}
    MaxInTransit = 2
    Window = 1
    MinBlocksToKeep = 288
INVARIANTS InFlightExact
PROPERTIES CatchUp HeadersSync
