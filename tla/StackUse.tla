------------------------------ MODULE StackUse ------------------------------
(***************************************************************************)
(* The stack slots that the helpers of LuaState, LuaTable and LuaValue use *)
(* and leave behind.  A frame of Kotlin code has MinStack slots of its own;*)
(* nothing on the way from a helper to the VM asks for more of them (a     *)
(* push does so only under the flag LuauAutoStack, which is never set).    *)
(*                                                                         *)
(* The program here pushes nothing itself.  It calls helpers, catches what *)
(* they throw and goes on.                                                 *)
(***************************************************************************)
EXTENDS Naturals, SequencesExt

CONSTANTS
  MinStack,    \* LUA_MINSTACK
  Libraries,   \* libraries that nativeOpenLibs opens
  MaxArgs,     \* bounds of the model: arguments and results of a call,
  MaxResults,
  MaxDepth     \* and Kotlin activations inside each other

VARIABLES
  frames,  \* of Kotlin activations: the slots used and those the frame has
  peak     \* the slots that the helper that ran last has used of its frame

vars == <<frames, peak>>
-----------------------------------------------------------------------------
Frame == Last(frames)

(* A helper pushes up to reach slots and leaves some of them. *)
Uses(reach, left) ==
  /\ peak' = Frame.used + reach
  /\ frames' = [frames EXCEPT ![Len(frames)].used = @ + left]

(* Each luaopen function leaves its library on the stack of the main frame. *)
Init ==
  /\ frames = <<[used |-> Libraries, room |-> MinStack]>>
  /\ peak = Libraries

(* Table and key; a table, function or thread is copied to be referenced.   *)
(* A key that cannot be pushed leaves the table, an error of the access,     *)
(* whose message checkException pops, both.                                  *)
GetTableVal ==
  \/ Uses(2, 0) \/ Uses(3, 0)
  \/ Uses(1, 1)
  \/ Uses(2, 2)

SetTableVal ==
  \/ Uses(3, 0)
  \/ \E pushed \in 1 .. 3 : Uses(pushed, pushed)

(* The function, its arguments and, below them, nativeCall's handler. *)
CallFunctionFails(nargs) ==
  \/ \E pushed \in 1 .. nargs : Uses(pushed, pushed)
  \/ Uses(nargs + 2, 0)

(* With LUA_MULTRET the frame is extended to hold the results, handler       *)
(* included, if need be; each of them may be copied in its turn.             *)
CallFunction(nargs, nres) ==
  LET results == Frame.used + 1 + nres
  IN  /\ peak' = Frame.used + Max({nargs + 2, nres + 1})
      /\ frames' = [frames EXCEPT ![Len(frames)].room = Max({@, results})]

(* load and call: load throws and leaves the message. *)
Execute == Uses(2, 0) \/ Uses(1, 1)

(* The VM calls a Kotlin function, and returns from it with its frame. *)
EnterCallback(nargs) ==
  /\ Len(frames) < MaxDepth
  /\ frames' = Append(frames, [used |-> nargs, room |-> nargs + MinStack])
  /\ peak' = nargs

LeaveCallback ==
  /\ Len(frames) > 1
  /\ frames' = Front(frames)
  /\ peak' = Last(Front(frames)).used
-----------------------------------------------------------------------------
Next ==
  \/ GetTableVal \/ SetTableVal \/ Execute
  \/ \E nargs \in 0 .. MaxArgs :
       \/ CallFunctionFails(nargs)
       \/ \E nres \in 0 .. MaxResults : CallFunction(nargs, nres)
       \/ EnterCallback(nargs)
  \/ LeaveCallback

Spec == Init /\ [][Next]_vars
-----------------------------------------------------------------------------
(* No push goes beyond the slots of its frame (the assertion in              *)
(* api_incr_top; "the caller is expected to handle stack reservation").      *)
TopWithinFrame == peak <= Frame.room
=============================================================================
