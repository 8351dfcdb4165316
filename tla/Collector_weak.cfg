SPECIFICATION Spec
CONSTANTS
    Main = main
    Registry = registry
    Coroutines = {}
    Tables = {}
    WeakTables = {wtab}
    Closures = {}
    UpVals = {}
    Strings = {str}
    Udata = {ud}
    Nil = nil
INVARIANTS NoDangling GrayLists
PROPERTY OnlyGarbageForgotten
CHECK_DEADLOCK FALSE
