\* main() against a source of Simple that may emit iChanged twice.
CONSTANTS
    Defaults = d0
    InitVal = v0
    F1 = f1
    F2 = f2
    IVals = {i1, i2}
    MaxEmits = 2
    NoPipe = NoPipe
    P = P
    d0 = d0
    v0 = v0
    f1 = f1
    f2 = f2
    i1 = i1
    i2 = i2

SPECIFICATION Spec

INVARIANT CallsReachSource
PROPERTY ScriptCompletes

\* The client waits on its socket for ever once the source is quiet.
CHECK_DEADLOCK FALSE
