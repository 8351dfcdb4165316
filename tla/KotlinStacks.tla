---------------------------- MODULE KotlinStacks ----------------------------
(***************************************************************************)
(* What the bridge promises Kotlin code that uses one LuaState.            *)
(*                                                                         *)
(* Every activation of Kotlin code (the program itself, and each callback  *)
(* that Lua is running) sees a stack of its own.  Only the innermost one   *)
(* runs, and only it changes its stack.  A request handed to the VM takes  *)
(* its operands off that stack, may run further activations meanwhile, and *)
(* ends in one of two ways: with exactly the results it was asked for, or  *)
(* with an exception and nothing added.                                    *)
(***************************************************************************)
EXTENDS Integers, Sequences

CONSTANTS
  Val,           \* what a slot of the stack may hold
  ResultCounts,  \* the numbers of results a request may ask for
  MULTRET        \* the one of them that stands for "all there are"

VARIABLES
  views,   \* views[i] is the stack that the i-th activation sees
  waits    \* waits[i] is the request the i-th activation is waiting for

vars == <<views, waits>>

Running   == Len(views) = Len(waits) + 1
Current   == views[Len(views)]
WithView(v) == [views EXCEPT ![Len(views)] = v]
Initial(s, n) == SubSeq(s, 1, n)
Dropped(s, n) == Initial(s, Len(s) - n)

Init ==
  /\ Len(views) = 1
  /\ waits = <<>>

(* The running activation rearranges its own stack as it likes. *)
Rearrange ==
  /\ Running
  /\ Len(views') = Len(views)
  /\ Dropped(views', 1) = Dropped(views, 1)
  /\ waits' = waits

(* It asks for something: `pops` operands are consumed when the request is *)
(* made (a call), `deferred` ones only once it succeeds (t[k] = v).        *)
Request(pops, deferred, nresults) ==
  /\ Running
  /\ Len(Current) >= pops + deferred
  /\ views' = WithView(Dropped(Current, pops))
  /\ waits' = Append(waits, [pops |-> deferred, nresults |-> nresults])

(* The VM runs a callback on a fresh stack that holds its arguments only, *)
(* and the callback returns.                                              *)
Enter ==
  /\ ~Running
  /\ Len(views') = Len(views) + 1
  /\ Dropped(views', 1) = views
  /\ views'[Len(views')] \in Seq(Val)
  /\ waits' = waits

Leave ==
  /\ Running
  /\ Len(views) > 1
  /\ views' = Dropped(views, 1)
  /\ waits' = waits

(* The request succeeds: the results are the only news on the stack. *)
Succeed ==
  LET wait == waits[Len(waits)]
      kept == Len(Current) - wait.pops
      now  == views'[Len(views)]
  IN  /\ ~Running
      /\ waits' = Dropped(waits, 1)
      /\ Len(views') = Len(views)
      /\ Dropped(views', 1) = Dropped(views, 1)
      /\ Initial(now, kept) = Initial(Current, kept)
      /\ wait.nresults # MULTRET => Len(now) = kept + wait.nresults
      /\ \A i \in kept + 1 .. Len(now) : now[i] \in Val

(* The request fails: an exception, and the stack as it was left. *)
Fail ==
  /\ ~Running
  /\ views' = views
  /\ waits' = Dropped(waits, 1)

Next ==
  \/ Rearrange
  \/ \E pops, deferred \in 0 .. Len(Current), n \in ResultCounts :
        Request(pops, deferred, n)
  \/ Enter
  \/ Leave
  \/ Succeed
  \/ Fail

Spec == Init /\ [][Next]_vars
=============================================================================
