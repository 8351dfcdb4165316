SPECIFICATION FairSpec
CONSTANTS
    Main = main
    Registry = registry
    Coroutines = {}
    Tables = {}
    WeakTables = {wtab}
    Closures = {}
    UpVals = {}
    Strings = {}
    Udata = {ud}
    Nil = nil
INVARIANT HeldWithUdata
PROPERTIES GlobalRefsReleased HeapSpec
CHECK_DEADLOCK FALSE
