\* Two connections to well-behaved hosts that remote "DifferentName";
\* the application acquires it at startup and again later, drops proxies
\* and calls the slot and the setter.
CONSTANTS
    Pipes = {p1, p2}
    Names = {n1, n2}
    Proxies = {x1, x2, x3}
    Values <- MCValues
    Default <- MCDefault
    Unsupported = Unsupported
    Startup <- MCStartup
    LateNames = {n1, n2}
    AcquireInObserver = FALSE
    MaxCalls = 2
    NoPipe = NoPipe
    NoName = NoName
    Hosted <- MCHostedOne
    HostInit <- MCHostInit
    Dialects = {"u32", "u8"}
    HostMayClose = FALSE
    p1 = p1
    p2 = p2
    n1 = n1
    n2 = n2
    x1 = x1
    x2 = x2
    x3 = x3

SPECIFICATION FairSpec

INVARIANT TypeOKHost
INVARIANT NodeRunning
PROPERTY AcquiredObjectsInitialized

\* The client waits forever on its sockets once the hosts have nothing more
\* to say, and stops for good after shutdown().
CHECK_DEADLOCK FALSE
