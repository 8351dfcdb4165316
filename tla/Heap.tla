-------------------------------- MODULE Heap --------------------------------
(***************************************************************************)
(* What a program may rely on, whatever the collector does: an object is   *)
(* there as long as the program can get at it, and unchanged but for the   *)
(* entries of weak tables; what goes is out of its reach, and its global   *)
(* reference goes with it.  Nothing here says when.                        *)
(***************************************************************************)
EXTENDS Naturals, FiniteSets

CONSTANTS Obj, WeakTables, Strings, Udata

VARIABLES
    there,    \* the objects that exist
    edges,    \* what every object refers to
    held,     \* the userdata whose global reference exists
    rooted    \* the objects every path starts from

vars == <<there, edges, held, rooted>>

\* What paths of any length lead to, if they go on from members of through only:
\* the least set that holds rooted and what its members refer to.  An object is not in
\* it if rooted and some more, without that object, hold all that they refer to.
Paths(through) ==
    {o \in Obj : o \in rooted \/ \A S \in SUBSET (Obj \ (rooted \cup {o})) :
        \E x \in (rooted \cup S) \cap through : ~(edges[x] \subseteq rooted \cup S)}

\* what the program can reach whatever the weak tables lose
Reachable == Paths(Obj \ WeakTables)

\* what it can read its way to as long as they keep their entries
Obtainable == Paths(Obj)

Init == /\ there = rooted
        /\ edges = [o \in Obj |-> {}]
        /\ held = {}

\* The program changes what it can obtain and makes new objects; a string it makes
\* may be one that is there, interned.
Use ==
    LET obtainable == Obtainable
    IN  /\ there \subseteq there'
        /\ held' = held \cup ((there' \ there) \cap Udata)
        /\ Reachable' \subseteq obtainable \cup (Strings \cap there) \cup (there' \ there)
        /\ \A o \in there \ obtainable : edges'[o] = edges[o]

\* An object that cannot be obtained is freed.
Collect(o) ==
    /\ o \in there \ Obtainable
    /\ there' = there \ {o}
    /\ edges' = [edges EXCEPT ![o] = {}]
    /\ held' = held \ {o}
    /\ UNCHANGED rooted

\* Weak tables lose entries that nothing else reaches.
Forget ==
    /\ \A o \in Reachable : /\ o \in WeakTables => edges[o] \cap (Reachable \cup Strings) \subseteq edges'[o]
                            /\ o \in WeakTables => edges'[o] \subseteq edges[o]
                            /\ o \notin WeakTables => edges'[o] = edges[o]
    /\ UNCHANGED <<there, held, rooted>>

\* The VM is closed.
Shut == there' = {} /\ held' = {}

Next == Use \/ Forget \/ Shut \/ \E o \in Obj : Collect(o)
Spec == Init /\ [][Next]_vars
=============================================================================
