\* A host closes its only connection: end of stream raises out of Pipe.run
\* and handle_exception shuts the whole client down.
CONSTANTS
    Pipes = {p1}
    Names = {n1, n2}
    Proxies = {x1, x2, x3}
    Values <- MCValues
    Default <- MCDefault
    Unsupported = Unsupported
    Startup <- MCStartup
    LateNames = {n2}
    AcquireInObserver = FALSE
    MaxCalls = 1
    NoPipe = NoPipe
    NoName = NoName
    Hosted <- MCHostedOne1
    HostInit <- MCHostInit
    Dialects = {"u32"}
    HostMayClose = TRUE
    p1 = p1
    p2 = p2
    n1 = n1
    n2 = n2
    x1 = x1
    x2 = x2
    x3 = x3

SPECIFICATION Spec

INVARIANT NodeRunning

\* The client waits forever on its sockets once the hosts have nothing more
\* to say, and stops for good after shutdown().
CHECK_DEADLOCK FALSE
