----------------------------- MODULE Traversal -----------------------------
(***************************************************************************)
(* A traversal of a table with next: it knows only the key that it is at,  *)
(* and looks it up again for each step, while the program changes fields   *)
(* and the collector removes entries.  An insertion, a clear, a shrink end *)
(* it: nothing is promised about it then.                                  *)
(***************************************************************************)
EXTENDS Tables

VARIABLE walk  \* the key it is at, and those it has seen

NoWalk == [on |-> FALSE, key |-> Nil, seen |-> {}]

(* luaH_next: where a key is, in the array or in its chain, alive or dead;   *)
(* 0 before the first, and -1 if it is nowhere.                              *)
FindIndex(tb, k) ==
  LET i == InChain(tb, k, {j \in DOMAIN tb.node : tb.node[j].key = k})
  IN  IF k = Nil THEN 0
      ELSE IF InArray(tb, k) THEN k
      ELSE IF i = 0 THEN -1 ELSE Len(tb.array) + i

(* The positions after p that hold a value, and the key at a position. *)
Ahead(tb, p) ==
  {i \in p + 1 .. Len(tb.array) + Len(tb.node) :
     IF i <= Len(tb.array) THEN tb.array[i] # Nil ELSE tb.node[i - Len(tb.array)].val # Nil}

KeyAt(tb, p) == IF p <= Len(tb.array) THEN p ELSE tb.node[p - Len(tb.array)].key

StartWalk ==
  /\ ~walk.on
  /\ walk' = [on |-> TRUE, key |-> Nil, seen |-> {}]
  /\ UNCHANGED vars

WalkStep ==
  LET p == FindIndex(t, walk.key)
      k == KeyAt(t, Min(Ahead(t, p)))
  IN  /\ walk.on /\ p # -1
      /\ walk' = IF Ahead(t, p) = {} THEN NoWalk
                 ELSE [on |-> TRUE, key |-> k, seen |-> walk.seen \cup {k}]
      /\ UNCHANGED vars

(* What a traversal lives through.  *)
Gentle ==
  \/ \E k \in LiveKeys(t), v \in Val \cup {Nil} : Set(k, v)
  \/ Length \/ Traverse
  \/ \E S \in SUBSET LiveKeys(t) : ClearWeak(S)

WalkInit == Init /\ walk = NoWalk

WalkNext ==
  \/ Gentle /\ UNCHANGED walk
  \/ Next /\ walk' = NoWalk
  \/ StartWalk
  \/ WalkStep

WalkSpec == WalkInit /\ [][WalkNext]_<<vars, walk>>
-----------------------------------------------------------------------------
(* A traversal finds its way however fields are changed and cleared, keys    *)
(* die and the length is taken in between: the keys ahead of it are those    *)
(* that are there and that it has not seen.                                  *)
TraversalExact ==
  walk.on =>
    LET p == FindIndex(t, walk.key)
    IN  p # -1 /\ {KeyAt(t, i) : i \in Ahead(t, p)} = LiveKeys(t) \ walk.seen
=============================================================================
