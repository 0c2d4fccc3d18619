\* One connection with a heartbeat: the first frame and three more.
CONSTANTS
    Tasks = {t1, t2, t3, t4, t5, t6}
    MaxFrames = 3
    NoTask = NoTask
    t1 = t1
    t2 = t2
    t3 = t3
    t4 = t4
    t5 = t5
    t6 = t6

SPECIFICATION FairSpec

INVARIANT TypeOK
PROPERTY HeartbeatPerpetual
PROPERTY PingAfterQuietInterval

\* After loop.stop() no callback runs: run_forever() returns and main ends.
\* Before it, a stall would stop the Pings and fail HeartbeatPerpetual.
CHECK_DEADLOCK FALSE
