----------------------------- MODULE MCBoundary -----------------------------
(* Boundary on a small instance: Lua passes and returns at most one value.  *)
EXTENDS BoundaryViews

CONSTANT MaxList

ListsUpTo == BoundedSeq(Val, MaxList)
=============================================================================
