\* A host that remotes an object the application never acquired.
CONSTANTS
    Pipes = {p1}
    Names = {n1, n2}
    Proxies = {x1, x2, x3}
    Values <- MCValues
    Default <- MCDefault
    Unsupported = Unsupported
    Startup <- MCStartup
    LateNames = {n1}
    AcquireInObserver = FALSE
    MaxCalls = 2
    NoPipe = NoPipe
    NoName = NoName
    Hosted <- MCHostedTwo1
    HostInit <- MCHostInit
    Dialects = {"u32"}
    HostMayClose = FALSE
    p1 = p1
    p2 = p2
    n1 = n1
    n2 = n2
    x1 = x1
    x2 = x2
    x3 = x3

SPECIFICATION FairSpec

INVARIANT NodeRunning

\* The client waits forever on its sockets once the hosts have nothing more
\* to say, and stops for good after shutdown().
CHECK_DEADLOCK FALSE
