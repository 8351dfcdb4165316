------------------------------ MODULE Registry ------------------------------
(***************************************************************************)
(* The references that Kotlin code holds to Lua values.  A LuaReference    *)
(* keeps the number of a slot of the VM's registry table; lua_ref hands    *)
(* out slots and lua_unref takes them back, on a free list that is         *)
(* threaded through the free slots.                                        *)
(*                                                                         *)
(* Two threads use it: the program's, and the JVM's finalizer thread,      *)
(* which closes every LuaReference that became unreachable.  Nothing locks *)
(* the registry, so every C statement that touches it is a step here.      *)
(***************************************************************************)
EXTENDS Integers, Sequences

CONSTANTS
  Object,    \* the LuaReference objects (bound of the model: reused)
  Val,       \* values other than nil
  Nil,
  Nothing,   \* not a value
  MaxSlots,  \* bound of the model: slots of the registry
  Faults     \* "overlap": the finalizer runs while the program is in the VM

ASSUME ConstantsAssumption ==
  /\ Nil \notin Val
  /\ Nothing \notin Val \cup {Nil}
  /\ MaxSlots \in Nat
  /\ Faults \subseteq {"overlap"}

VARIABLES
  slots,         \* the registry's slots, numbered from 1
  registryfree,  \* global->registryfree: the first free slot, or 0
  refs,          \* the LuaReference objects
  reachable,     \* those the program can still reach
  op,            \* what each thread is doing
  engine,        \* "open", "closed", or "corrupt" after a use of a closed one
  leftOpen       \* the references that were open when the engine was closed

vars == <<slots, registryfree, refs, reachable, op, engine, leftOpen>>

Thread == {"app", "finalizer"}

(* popReference of nil takes no slot: LUA_REFNIL, not LUA_NOREF. *)
NoRef  == -1
RefNil == 0

(* What a slot holds: a value, the number of the next free slot, or nil     *)
(* while lua_ref is filling it for the first time.                          *)
Held(v)   == [tag |-> "value", val |-> v, next |-> 0]
Link(n)   == [tag |-> "free", val |-> Nothing, next |-> n]
EmptySlot == [tag |-> "empty", val |-> Nothing, next |-> 0]

Idle == [pc |-> "idle", obj |-> Nothing, ref |-> 0, val |-> Nothing]
NewRef == [state |-> "none", id |-> 0, val |-> Nothing]

(* A thread may begin while the other is not in the VM, or at any time. *)
MayBegin(t) ==
  /\ op[t] = Idle
  /\ "overlap" \in Faults \/ \A other \in Thread : op[other] = Idle

Init ==
  /\ slots = <<>>
  /\ registryfree = 0
  /\ refs = [o \in Object |-> NewRef]
  /\ reachable = {}
  /\ op = [t \in Thread |-> Idle]
  /\ engine = "open"
  /\ leftOpen = {}
-----------------------------------------------------------------------------
Made(o, id, v) ==
  /\ refs' = [refs EXCEPT ![o] = [state |-> "open", id |-> id, val |-> v]]
  /\ reachable' = reachable \cup {o}

(* popReference: lua_ref chooses the slot, the first free one or a new one, *)
PopReference(o, v) ==
  /\ engine = "open"
  /\ MayBegin("app")
  /\ refs[o].state = "none"
  /\ registryfree # 0 \/ Len(slots) < MaxSlots
  /\ op' = [op EXCEPT !["app"] =
              [pc |-> "take", obj |-> o, val |-> v,
               ref |-> IF registryfree # 0 THEN registryfree ELSE Len(slots) + 1]]
  /\ UNCHANGED <<slots, registryfree, refs, reachable, engine, leftOpen>>

PopReferenceNil(o) ==
  /\ engine = "open"
  /\ MayBegin("app")
  /\ refs[o].state = "none"
  /\ Made(o, RefNil, Nil)
  /\ UNCHANGED <<slots, registryfree, op, engine, leftOpen>>

(* takes it off the free list, where the VM trusts that a slot it found      *)
(* there holds a link (the number read from anything else is arbitrary),     *)
(* (A bug: the list keeps its head.)                                         *)
Enter(ref) == IF ref > Len(slots) THEN Append(slots, EmptySlot) ELSE slots

RefTakeKeepsHead ==
  /\ op["app"].pc = "take"
  /\ slots' = Enter(op["app"].ref)
  /\ op' = [op EXCEPT !["app"].pc = "store"]
  /\ UNCHANGED <<registryfree, refs, reachable, engine, leftOpen>>

RefTake ==
  LET slot == Enter(op["app"].ref)[op["app"].ref]
  IN  /\ op["app"].pc = "take"
      /\ slots' = Enter(op["app"].ref)
      /\ IF registryfree = 0 THEN registryfree' = 0
         ELSE IF slot.tag = "free" THEN registryfree' = slot.next
         ELSE registryfree' \in 0 .. Len(slots)
      /\ op' = [op EXCEPT !["app"].pc = "store"]
      /\ UNCHANGED <<refs, reachable, engine, leftOpen>>

(* and fills it; the new LuaReference keeps its number. *)
RefStore ==
  LET me == op["app"]
  IN  /\ me.pc = "store"
      /\ slots' = [slots EXCEPT ![me.ref] = Held(me.val)]
      /\ Made(me.obj, me.ref, me.val)
      /\ op' = [op EXCEPT !["app"] = Idle]
      /\ UNCHANGED <<registryfree, engine, leftOpen>>

(* The program forgets a reference, closed or not. *)
Drop(o) ==
  /\ reachable' = reachable \ {o}
  /\ o \in reachable
  /\ op["app"] = Idle
  /\ UNCHANGED <<slots, registryfree, refs, op, engine, leftOpen>>
-----------------------------------------------------------------------------
(* close: only a reference that is not closed yet is given back.  (A bug:    *)
(* close does not look at isClosed.)                                         *)
BeginCloseTwice(t, o) ==
  /\ refs[o].state \in {"open", "closed"}
  /\ refs' = [refs EXCEPT ![o].state = "closing"]
  /\ op' = [op EXCEPT ![t] = [pc |-> "free", obj |-> o, ref |-> refs[o].id, val |-> Nothing]]
  /\ UNCHANGED <<slots, registryfree, reachable, engine, leftOpen>>

BeginClose(t, o) ==
  /\ refs[o].state = "open"
  /\ refs' = [refs EXCEPT ![o].state = "closing"]
  /\ op' = [op EXCEPT ![t] = [pc |-> "free", obj |-> o, ref |-> refs[o].id, val |-> Nothing]]
  /\ UNCHANGED <<slots, registryfree, reachable, engine, leftOpen>>

Close(o) ==
  /\ MayBegin("app")
  /\ o \in reachable
  /\ BeginClose("app", o)

(* finalize calls close on an object that is gone otherwise; the object's    *)
(* name is free for a new one once it has been collected.                    *)
FinalizeOpen(o) ==
  /\ MayBegin("finalizer")
  /\ o \notin reachable
  /\ BeginClose("finalizer", o)

FinalizeClosed(o) ==
  /\ MayBegin("finalizer")
  /\ o \notin reachable
  /\ refs[o].state = "closed"
  /\ refs' = [refs EXCEPT ![o] = NewRef]
  /\ UNCHANGED <<slots, registryfree, reachable, op, engine, leftOpen>>

(* lua_unref ignores a reference to nil.  Otherwise it makes the slot a      *)
(* link to the rest of the free list ...  It does so in the memory of a VM   *)
(* that lua_close has freed, too.  (A bug: the link is lost.)                *)
UnrefSlotTo(t, next) ==
  /\ op[t].pc = "free"
  /\ op[t].ref > RefNil
  /\ IF engine = "open"
     THEN slots' = [slots EXCEPT ![op[t].ref] = Link(next)] /\ UNCHANGED engine
     ELSE engine' = "corrupt" /\ UNCHANGED slots
  /\ op' = [op EXCEPT ![t].pc = "head"]
  /\ UNCHANGED <<registryfree, refs, reachable, leftOpen>>

UnrefSlotLosesList(t) == UnrefSlotTo(t, 0)
UnrefSlotAfterHead(t) == UnrefSlotTo(t, op[t].ref)
UnrefSlot(t) == UnrefSlotTo(t, registryfree)

(* ... and the head of the list.  (A bug: close forgets isClosed = true.)   *)
Closed(t, state) ==
  /\ op' = [op EXCEPT ![t] = Idle]
  /\ refs' = [refs EXCEPT ![op[t].obj].state = state]
  /\ UNCHANGED <<slots, reachable, engine, leftOpen>>

UnrefHeadForgetsFlag(t) ==
  /\ op[t].pc = "head"
  /\ registryfree' = op[t].ref
  /\ Closed(t, "open")

UnrefHead(t) ==
  /\ op[t].pc = "head"
  /\ registryfree' = op[t].ref
  /\ Closed(t, "closed")

UnrefNil(t) ==
  /\ op[t].pc = "free"
  /\ op[t].ref <= RefNil
  /\ Closed(t, "closed")
  /\ UNCHANGED registryfree

(* LuaEngine.close frees the VM.  References may be open: nothing counts     *)
(* them, and their finalizers run afterwards.                                *)
CloseEngine ==
  /\ engine = "open"
  /\ MayBegin("app")
  /\ engine' = "closed"
  /\ leftOpen' = {o \in Object : refs[o].state \in {"open", "closing"}}
  /\ UNCHANGED <<slots, registryfree, refs, reachable, op>>
-----------------------------------------------------------------------------
AppStep ==
  \/ \E o \in Object : \/ \E v \in Val : PopReference(o, v)
                       \/ PopReferenceNil(o)
                       \/ Drop(o)
                       \/ Close(o)
  \/ RefTake
  \/ RefStore
  \/ CloseEngine

Next ==
  \/ AppStep
  \/ \E o \in Object : FinalizeOpen(o) \/ FinalizeClosed(o)
  \/ \E t \in Thread : UnrefSlot(t) \/ UnrefHead(t) \/ UnrefNil(t)

Spec == Init /\ [][Next]_vars
-----------------------------------------------------------------------------
TypeOK ==
  /\ slots \in Seq([tag : {"value", "free", "empty"}, val : Val \cup {Nothing}, next : Nat])
  /\ registryfree \in Nat
  /\ refs \in [Object -> [state : {"none", "open", "closing", "closed"}, id : Nat,
                          val : Val \cup {Nil, Nothing}]]
  /\ reachable \subseteq Object
  /\ op \in [Thread -> [pc : {"idle", "take", "store", "free", "head"},
                        obj : Object \cup {Nothing}, ref : Nat, val : Val \cup {Nothing}]]
  /\ engine \in {"open", "closed", "corrupt"}
  /\ leftOpen \subseteq Object

(* What pushReference(o) pushes: whatever is in the slot. *)
Pushed(o) ==
  IF refs[o].id \notin 1 .. Len(slots) THEN Nil
  ELSE IF slots[refs[o].id].tag = "value" THEN slots[refs[o].id].val
  ELSE Nothing

Open(o) == refs[o].state = "open"

(* An open reference gives back the value that it was made for, however many *)
(* references were made, closed and finalized since.                         *)
RefsHoldTheirValue == \A o \in Object : Open(o) => Pushed(o) = refs[o].val

(* No two open references share a slot, or closing one would take the value  *)
(* from the other: no slot is on the free list twice, and none is given back *)
(* twice, by close and by finalize.                                          *)
NoAliasing ==
  \A o, p \in Object :
    Open(o) /\ Open(p) /\ o # p /\ refs[o].id # RefNil => refs[o].id # refs[p].id

FreeSlots == {k \in 1 .. Len(slots) : slots[k].tag = "free"}
Quiet == \A t \in Thread : op[t] = Idle

(* While no thread is inside lua_ref or lua_unref, the head of the free list *)
(* and every link in it names a free slot that nothing else names, so that   *)
(* lua_ref, which trusts them, hands out only free slots.                    *)
LinksSound ==
  Quiet /\ engine # "corrupt" =>
    /\ registryfree \in FreeSlots \cup {0}
    /\ \A k \in FreeSlots :
         /\ slots[k].next \in FreeSlots \cup {0}
         /\ slots[k].next = registryfree => registryfree = 0
         /\ \A j \in FreeSlots : slots[j].next = slots[k].next => j = k \/ slots[k].next = 0

(* Closing references does give their slots back: the registry grows only    *)
(* while every slot in it is in use.                                         *)
NoSlotWasted == [][Len(slots') > Len(slots) => FreeSlots = {}]_slots

(* The VM is touched after it has been closed only on account of a reference *)
(* that was open then.  Closing an engine does not look at its references,   *)
(* so closing them first is up to the program; that is enough, although the  *)
(* finalizer comes to each of them once more, after the engine is gone.      *)
NoUseAfterClose == engine = "corrupt" => leftOpen # {}
=============================================================================
