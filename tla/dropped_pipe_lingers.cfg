\* A peer whose later Handshake names an unknown version.
CONSTANTS
    Pipes = {p1}
    Names = {n1, n2}
    Proxies = {x1, x2, x3}
    Values <- MCValues
    Default <- MCDefault
    Unsupported = Unsupported
    Startup <- MCStartup
    LateNames = {}
    AcquireInObserver = FALSE
    MaxCalls = 0
    NoPipe = NoPipe
    NoName = NoName
    FirstFrames <- MCGoodFirst
    PeerFrames <- MCLateBadHandshake
    MaxSends = 3
    PeerMayClose = FALSE
    p1 = p1
    p2 = p2
    n1 = n1
    n2 = n2
    x1 = x1
    x2 = x2
    x3 = x3

SPECIFICATION Spec

INVARIANT DroppedPipesTornDown

\* Any task may die and stop the loop for good.
CHECK_DEADLOCK FALSE
