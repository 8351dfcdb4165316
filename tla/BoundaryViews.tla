--------------------------- MODULE BoundaryViews ---------------------------
(***************************************************************************)
(* Boundary implements KotlinStacks: the value stack, cut at the frames of *)
(* the Kotlin activations, is one private stack for each of them.          *)
(***************************************************************************)
EXTENDS Boundary

Callbacks == {k \in 1 .. Len(native) : native[k].kind = "callback"}

(* The native frame that the activation begins with; activation 1 is the   *)
(* program, which has none.                                                *)
EntryOf(a) == IF a = 1 THEN 0 ELSE 2 * (a - 1)

(* What the a-th activation sees: from the base of its call info to the    *)
(* request that it waits for (nativeCall's begins at the handler), or to   *)
(* the top if it runs.                                                     *)
ViewOf(a) ==
  LET entry   == EntryOf(a)
      request == native[entry + 1]
      base    == ci[IF entry = 0 THEN 1 ELSE native[entry].ci]
      end     == IF entry = Len(native) THEN Len(stack)
                 ELSE IF request.kind = "call" THEN request.func - 2
                 ELSE request.func - 1
  IN  SubSeq(stack, base + 1, end)

views == [a \in 1 .. Cardinality(Callbacks) + 1 |-> ViewOf(a)]

waits == [g \in 1 .. Cardinality(Guards) |->
            [pops |-> native[2 * g - 1].pops, nresults |-> native[2 * g - 1].nresults]]

Views == INSTANCE KotlinStacks

(* Seen through the stack indices of the bridge, every Kotlin activation has *)
(* a stack that nobody else changes, and a call or operation leaves there    *)
(* the results it was asked for, or throws and leaves nothing.               *)
ViewsSpec == Views!Spec
=============================================================================
