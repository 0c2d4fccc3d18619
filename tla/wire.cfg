\* One connection to a source of Simple under "DifferentName": it starts
\* with a handshake of either dialect, or a refused version, or a first
\* frame that is not a handshake, then writes up to two more packets; the
\* application calls pushI, reset and the f setter, and the heartbeat pings.
CONSTANTS
    FirstMessages <- MCFirst
    Messages <- MCLater
    Acquired <- MCAcquired
    IntArgs = {5}
    FloatArgs = {99}
    MaxWrites = 3
    MaxCalls = 2

SPECIFICATION Spec

INVARIANT InboundFaithful
INVARIANT OutboundFaithful
INVARIANT StopsOnlyOnForeignFrames

\* The client waits on its socket for ever once the source stops writing,
\* and every exception stops the event loop for good.
CHECK_DEADLOCK FALSE
