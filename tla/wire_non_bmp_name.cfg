\* The source of wire.cfg, serving Simple under a name whose last character
\* lies outside the Basic Multilingual Plane.
CONSTANTS
    FirstMessages <- MCHandshakes
    Messages <- MCLaterNonBmp
    Acquired <- MCAcquiredNonBmp
    IntArgs = {5}
    FloatArgs = {99}
    MaxWrites = 3
    MaxCalls = 2

SPECIFICATION Spec

INVARIANT OutboundFaithful

\* The client waits on its socket for ever once the source stops writing.
CHECK_DEADLOCK FALSE
