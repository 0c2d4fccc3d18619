\* Shutdown requested while the read loop may be inside timer.restart().
CONSTANTS
    Tasks = {t1, t2, t3, t4, t5, t6}
    MaxFrames = 3
    NoTask = NoTask
    t1 = t1
    t2 = t2
    t3 = t3
    t4 = t4
    t5 = t5
    t6 = t6

SPECIFICATION FairSpec

PROPERTY ShutdownStopsLoop

\* After loop.stop() no callback runs: run_forever() returns and main ends.
CHECK_DEADLOCK FALSE
