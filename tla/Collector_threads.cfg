SPECIFICATION Spec
CONSTANTS
    Main = main
    Registry = registry
    Coroutines = {co}
    Tables = {}
    WeakTables = {}
    Closures = {cl}
    UpVals = {uv}
    Strings = {}
    Udata = {}
    Nil = nil
INVARIANTS TypeOK NoDangling BlackToWhite GrayLists
PROPERTY OnlyGarbageFreed
CHECK_DEADLOCK FALSE
