\* One connection to a peer that writes any three frames of MCPeerFrames
\* and may close; observers may acquire during an emission.
CONSTANTS
    Pipes = {p1}
    Names = {n1, n2}
    Proxies = {x1, x2, x3}
    Values <- MCValues
    Default <- MCDefault
    Unsupported = Unsupported
    Startup <- MCStartup
    LateNames = {n2}
    AcquireInObserver = TRUE
    MaxCalls = 1
    NoPipe = NoPipe
    NoName = NoName
    FirstFrames <- MCPeerFrames
    PeerFrames <- MCPeerFrames
    MaxSends = 3
    PeerMayClose = TRUE
    p1 = p1
    p2 = p2
    n1 = n1
    n2 = n2
    x1 = x1
    x2 = x2
    x3 = x3

SPECIFICATION FairSpec

INVARIANT TypeOK
INVARIANT HandshakeGate
PROPERTY ClosedPipesEndTheirLoop

\* Any task may die and stop the loop for good.
CHECK_DEADLOCK FALSE
