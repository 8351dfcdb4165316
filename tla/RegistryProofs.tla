--------------------------- MODULE RegistryProofs ---------------------------
(***************************************************************************)
(* Theorems about Registry, for any number of references, values and       *)
(* slots.  The types are kept whatever the faults; that references keep    *)
(* their values and the free list is sound needs that the finalizer does   *)
(* not run while the program is in the VM ("overlap").                     *)
(***************************************************************************)
EXTENDS Registry, SequenceTheorems, TLAPS

Used(t) == op[t].pc \in {"free", "head"}

(* Every slot number there is, in refs, op, links and head, is one. *)
InRange ==
  /\ registryfree \in 0 .. Len(slots)
  /\ \A k \in 1 .. Len(slots) : slots[k].next \in 0 .. Len(slots)
  /\ \A o \in Object : refs[o].id \in 0 .. Len(slots)

(* What each thread is in the middle of. *)
OpsTyped ==
  /\ op["finalizer"].pc \in {"idle", "free", "head"}
  /\ op["app"].pc \in {"take", "store"} => op["app"].obj \in Object /\ op["app"].val \in Val
  /\ op["app"].pc = "take" => op["app"].ref \in 1 .. Len(slots) + 1
  /\ op["app"].pc = "store" => op["app"].ref \in 1 .. Len(slots)
  /\ \A t \in Thread : Used(t) => op[t].ref \in 0 .. Len(slots) /\ op[t].obj \in Object
  /\ \A t \in Thread : op[t].pc = "head" => op[t].ref # 0

Types == TypeOK /\ InRange /\ OpsTyped

(* The slots that one of the threads has taken off the list, or not yet put there. *)
Taken == {op[t].ref : t \in {u \in Thread : op[u].pc \in {"store", "head"}}}
Listed == FreeSlots \ Taken

(* The free list is the chain s of length n. *)
IsChain(n, s) ==
  /\ \A i \in 1 .. n : s[i] \in Listed
  /\ \A k \in Listed : \E i \in 1 .. n : s[i] = k
  /\ \A i, j \in 1 .. n : s[i] = s[j] => i = j
  /\ registryfree = IF n = 0 THEN 0 ELSE s[1]
  /\ \A i \in 1 .. n : slots[s[i]].next = IF i = n THEN 0 ELSE s[i + 1]
Chained == \E n \in Nat : \E s \in [1 .. n -> Nat] : IsChain(n, s)

Counts(o) == refs[o].state \in {"open", "closing"}

(* lua_ref in the middle: the slot it has in hand is nobody's. *)
TakingRight ==
  op["app"].pc \in {"take", "store"} =>
    /\ engine = "open"
    /\ refs[op["app"].obj].state = "none"
    /\ op["app"].pc = "take" =>
         op["app"].ref = IF registryfree # 0 THEN registryfree ELSE Len(slots) + 1
    /\ op["app"].pc = "store" => slots[op["app"].ref].tag # "value"

(* lua_unref in the middle: it has the slot of the reference being closed. *)
FreeingRight ==
  \A t \in Thread : Used(t) =>
    /\ refs[op[t].obj].state = "closing"
    /\ refs[op[t].obj].id = op[t].ref
    /\ op[t].pc = "free" /\ op[t].ref # 0 => slots[op[t].ref].tag = "value"
    /\ op[t].pc = "head" /\ engine # "corrupt" => slots[op[t].ref] = Link(registryfree)

RefsRight ==
  /\ \A o \in Object : Open(o) =>
       IF refs[o].id = 0 THEN refs[o].val = Nil
       ELSE refs[o].val \in Val /\ slots[refs[o].id] = Held(refs[o].val)
  /\ \A o \in Object : refs[o].state = "closing" => \E t \in Thread : Used(t) /\ op[t].obj = o
  /\ \A o, p \in Object : Counts(o) /\ Counts(p) /\ o # p /\ refs[o].id # 0 => refs[o].id # refs[p].id

EngineRight ==
  leftOpen = {} /\ engine # "open" => engine = "closed" /\ \A o \in Object : ~Counts(o)

(* The inductive invariant without overlap. *)
Calm ==
  /\ op["app"] = Idle \/ op["finalizer"] = Idle
  /\ TakingRight /\ FreeingRight /\ RefsRight
  /\ engine # "corrupt" => Chained
  /\ EngineRight
-----------------------------------------------------------------------------
(* Types.                                                                   *)

SlotSet == [tag : {"value", "free", "empty"}, val : Val \cup {Nothing}, next : Nat]
OpSet == [pc : {"idle", "take", "store", "free", "head"},
          obj : Object \cup {Nothing}, ref : Nat, val : Val \cup {Nothing}]
RefSet == [state : {"none", "open", "closing", "closed"}, id : Nat, val : Val \cup {Nil, Nothing}]

(* Writing a slot: the length and the other slots stay. *)
LEMMA Written ==
  ASSUME slots \in Seq(SlotSet), NEW k \in 1 .. Len(slots), NEW x \in SlotSet
  PROVE  LET w == [slots EXCEPT ![k] = x]
         IN  /\ w \in Seq(SlotSet)
             /\ Len(w) = Len(slots)
             /\ w[k] = x
             /\ \A i \in 1 .. Len(slots) : i # k => w[i] = slots[i]
<1> DEFINE w == [slots EXCEPT ![k] = x]
<1>1. w \in Seq(SlotSet) /\ Len(w) = Len(slots)
  BY ExceptSeq, LenProperties
<1>2. w[k] = x /\ \A i \in 1 .. Len(slots) : i # k => w[i] = slots[i]
  BY LenProperties
<1> QED BY <1>1, <1>2

(* Entering a slot: lua_ref may append one. *)
LEMMA Entered ==
  ASSUME slots \in Seq(SlotSet), NEW k \in 1 .. Len(slots) + 1
  PROVE  /\ Enter(k) \in Seq(SlotSet)
         /\ Len(Enter(k)) = IF k = Len(slots) + 1 THEN k ELSE Len(slots)
         /\ k = Len(slots) + 1 => Enter(k)[k] = EmptySlot
         /\ \A i \in 1 .. Len(slots) : Enter(k)[i] = slots[i]
<1>1. EmptySlot \in SlotSet
  BY DEF EmptySlot, SlotSet
<1>2. Len(slots) \in Nat
  BY LenProperties
<1>3. CASE k = Len(slots) + 1
  <2>1. Enter(k) = Append(slots, EmptySlot)
    BY <1>3, <1>2 DEF Enter
  <2> QED BY <2>1, <1>1, <1>2, <1>3, AppendProperties
<1>4. CASE k # Len(slots) + 1
  BY <1>2, <1>4 DEF Enter
<1> QED BY <1>3, <1>4

LEMMA TypesInit == Init => Types
<1> SUFFICES ASSUME Init PROVE Types
  OBVIOUS
<1>1. slots \in Seq(SlotSet) /\ Len(slots) = 0
  BY EmptySeq DEF Init
<1>2. TypeOK
  BY <1>1 DEF Init, TypeOK, SlotSet, NewRef, Idle, Thread
<1> QED BY <1>1, <1>2 DEF Init, Types, InRange, OpsTyped, NewRef, Idle, Thread, Used

LEMMA TypesNext == Types /\ [Next]_vars => Types'
<1> SUFFICES ASSUME Types, [Next]_vars PROVE Types'
  OBVIOUS
<1> USE DEF Types
<1>0. /\ slots \in Seq(SlotSet) /\ Len(slots) \in Nat
      /\ refs \in [Object -> RefSet] /\ op \in [Thread -> OpSet]
      /\ \A i \in 1 .. Len(slots) : slots[i] \in SlotSet
  <2>1. slots \in Seq(SlotSet) /\ refs \in [Object -> RefSet] /\ op \in [Thread -> OpSet]
    BY DEF TypeOK, SlotSet, RefSet, OpSet
  <2> QED BY <2>1, LenProperties, ElementOfSeq
<1>id. Idle \in OpSet
  BY DEF Idle, OpSet
<1>keep. ASSUME slots' = slots PROVE slots' \in Seq(SlotSet) /\ Len(slots') = Len(slots)
  BY <1>keep, <1>0
<1>left. leftOpen' \subseteq Object
  BY DEF Next, AppStep, vars, PopReference, PopReferenceNil, Drop, Close, BeginClose, CloseEngine,
         RefTake, RefStore, FinalizeOpen, FinalizeClosed, UnrefSlot, UnrefSlotTo, UnrefHead,
         UnrefNil, Closed, Types, TypeOK
<1>join. ASSUME slots' \in Seq(SlotSet), refs' \in [Object -> RefSet], op' \in [Thread -> OpSet],
                registryfree' \in Nat, reachable' \subseteq Object, engine' \in {"open", "closed", "corrupt"}
         PROVE  TypeOK'
  BY <1>join, <1>left DEF TypeOK, SlotSet, RefSet, OpSet
<1>1. ASSUME NEW o \in Object, NEW v \in Val, PopReference(o, v) PROVE Types'
  <2>1. op' \in [Thread -> OpSet]
    BY <1>1, <1>0 DEF PopReference, OpSet, TypeOK, Thread
  <2>2. TypeOK'
    BY <1>1, <1>0, <2>1, <1>join DEF PopReference, TypeOK
  <2> QED BY <2>2, <1>1, <1>0 DEF PopReference, InRange, OpsTyped, Used, Thread, TypeOK
<1>2. ASSUME NEW o \in Object, PopReferenceNil(o) PROVE Types'
  <2>1. refs' \in [Object -> RefSet]
    BY <1>2, <1>0 DEF PopReferenceNil, Made, RefSet, RefNil
  <2>2. TypeOK'
    BY <1>2, <1>0, <2>1, <1>join DEF PopReferenceNil, Made, TypeOK
  <2> QED BY <2>2, <1>2, <1>0 DEF PopReferenceNil, Made, InRange, OpsTyped, Used, Thread, RefNil
<1>3. ASSUME NEW o \in Object, Drop(o) PROVE Types'
  BY <1>3 DEF Drop, TypeOK, InRange, OpsTyped, Used, Thread
<1>4. ASSUME NEW o \in Object, NEW t \in Thread, BeginClose(t, o) PROVE Types'
  <2>1. refs' \in [Object -> RefSet] /\ op' \in [Thread -> OpSet]
    BY <1>4, <1>0 DEF BeginClose, RefSet, OpSet
  <2>2. TypeOK'
    BY <1>4, <1>0, <2>1, <1>join DEF BeginClose, TypeOK
  <2>3. InRange'
    BY <1>4, <1>0 DEF BeginClose, InRange
  <2>4. op'["app"].pc \in {"take", "store"} => op'["app"] = op["app"]
    BY <1>4, <1>0 DEF BeginClose, Thread
  <2> QED BY <2>2, <2>3, <2>4, <1>4, <1>0 DEF BeginClose, InRange, OpsTyped, Used, Thread
<1>5. ASSUME RefTake PROVE Types'
  <2> DEFINE k == op["app"].ref
  <2>1. k \in 1 .. Len(slots) + 1
    BY <1>5 DEF RefTake, OpsTyped
  <2>2. slots' = Enter(k) /\ slots' \in Seq(SlotSet) /\ Len(slots') \in Nat /\ Len(slots) <= Len(slots')
        /\ k \in 1 .. Len(slots')
    BY <1>5, <1>0, <2>1, Entered DEF RefTake
  <2>3. \A i \in 1 .. Len(slots') : slots'[i].next \in 0 .. Len(slots)
    BY <1>5, <1>0, <2>1, <2>2, Entered DEF RefTake, InRange, EmptySlot
  <2>4. registryfree' \in 0 .. Len(slots')
    BY <1>5, <1>0, <2>2, <2>3 DEF RefTake
  <2>5. op' \in [Thread -> OpSet]
    BY <1>5, <1>0 DEF RefTake, OpSet
  <2>6. TypeOK'
    BY <1>5, <1>0, <2>2, <2>4, <2>5, <1>join DEF RefTake, TypeOK
  <2>7. InRange'
    BY <1>5, <1>0, <2>2, <2>3, <2>4 DEF RefTake, InRange
  <2> QED BY <2>2, <2>6, <2>7, <1>5, <1>0 DEF RefTake, OpsTyped, Used, Thread
<1>6. ASSUME RefStore PROVE Types'
  <2> DEFINE k == op["app"].ref  v == op["app"].val  o == op["app"].obj
  <2>1. k \in 1 .. Len(slots) /\ v \in Val /\ o \in Object
    BY <1>6 DEF RefStore, OpsTyped
  <2>2. Held(v) \in SlotSet /\ Held(v).next = 0
    BY <2>1 DEF Held, SlotSet
  <2>3. slots' \in Seq(SlotSet) /\ Len(slots') = Len(slots)
        /\ \A i \in 1 .. Len(slots) : slots'[i] = IF i = k THEN Held(v) ELSE slots[i]
    BY <1>6, <1>0, <2>1, <2>2, Written DEF RefStore
  <2>4. refs' \in [Object -> RefSet] /\ op' \in [Thread -> OpSet]
    <3>1. [state |-> "open", id |-> k, val |-> v] \in RefSet
      BY <2>1, <1>0 DEF RefSet
    <3> QED BY <3>1, <1>6, <1>0, <1>id, <2>1 DEF RefStore, Made
  <2>5. TypeOK'
    BY <1>6, <1>0, <2>1, <2>3, <2>4, <1>join DEF RefStore, Made, TypeOK
  <2>6. InRange'
    BY <1>6, <1>0, <2>1, <2>2, <2>3 DEF RefStore, Made, InRange
  <2> QED BY <2>3, <2>5, <2>6, <1>6, <1>0 DEF RefStore, OpsTyped, Used, Thread, Idle
<1>7. ASSUME CloseEngine PROVE Types'
  BY <1>7 DEF CloseEngine, TypeOK, InRange, OpsTyped, Used, Thread
<1>8. ASSUME NEW o \in Object, FinalizeClosed(o) PROVE Types'
  <2>1. refs' \in [Object -> RefSet]
    BY <1>8, <1>0 DEF FinalizeClosed, RefSet, NewRef
  <2>2. TypeOK'
    BY <1>8, <1>0, <2>1, <1>join DEF FinalizeClosed, TypeOK
  <2> QED BY <2>2, <1>8, <1>0 DEF FinalizeClosed, InRange, OpsTyped, Used, Thread, NewRef
<1>9. ASSUME NEW t \in Thread, UnrefSlot(t) PROVE Types'
  <2> DEFINE k == op[t].ref
  <2>1. k \in 1 .. Len(slots)
    BY <1>9, <1>0 DEF UnrefSlot, UnrefSlotTo, OpsTyped, Used, RefNil
  <2>2. Link(registryfree) \in SlotSet /\ Link(registryfree).next = registryfree
    BY DEF Link, SlotSet, TypeOK
  <2>3. slots' \in Seq(SlotSet) /\ Len(slots') = Len(slots)
        /\ \A i \in 1 .. Len(slots) : slots'[i] \in {Link(registryfree), slots[i]}
    <3>1. CASE engine = "open"
      <4>1. slots' = [slots EXCEPT ![k] = Link(registryfree)]
        BY <1>9, <3>1 DEF UnrefSlot, UnrefSlotTo
      <4> HIDE DEF k
      <4> QED BY <4>1, <1>0, <2>1, <2>2, Written
    <3>2. CASE engine # "open"
      BY <1>9, <3>2, <1>0 DEF UnrefSlot, UnrefSlotTo
    <3> QED BY <3>1, <3>2
  <2>4. op' \in [Thread -> OpSet]
    BY <1>9, <1>0 DEF UnrefSlot, UnrefSlotTo, OpSet
  <2>5. TypeOK'
    BY <1>9, <1>0, <2>3, <2>4, <1>join DEF UnrefSlot, UnrefSlotTo, TypeOK
  <2>6. InRange'
    BY <1>9, <1>0, <2>2, <2>3 DEF UnrefSlot, UnrefSlotTo, InRange
  <2> QED BY <2>1, <2>3, <2>5, <2>6, <1>9, <1>0 DEF UnrefSlot, UnrefSlotTo, OpsTyped, Used, Thread
<1>10. ASSUME NEW t \in Thread, UnrefHead(t) \/ UnrefNil(t) PROVE Types'
  <2>0. Closed(t, "closed") /\ Used(t) /\ op[t].obj \in Object /\ op[t].ref \in 0 .. Len(slots)
        /\ registryfree' \in {registryfree, op[t].ref}
    BY <1>10 DEF UnrefHead, UnrefNil, Used, OpsTyped
  <2>1. refs' \in [Object -> RefSet] /\ op' \in [Thread -> OpSet]
    BY <2>0, <1>0, <1>id DEF Closed, RefSet
  <2>2. TypeOK'
    BY <2>0, <1>0, <2>1, <1>join DEF Closed, TypeOK
  <2>3. InRange'
    BY <2>0, <1>0 DEF Closed, InRange
  <2> QED BY <2>0, <2>2, <2>3, <1>0 DEF Closed, OpsTyped, Used, Thread, Idle
<1>11. CASE UNCHANGED vars
  BY <1>11 DEF vars, TypeOK, InRange, OpsTyped, Used, Thread
<1> QED
  BY <1>1, <1>2, <1>3, <1>4, <1>5, <1>6, <1>7, <1>8, <1>9, <1>10, <1>11
  DEF Next, AppStep, Close, FinalizeOpen, Thread
-----------------------------------------------------------------------------
(* The free list.                                                           *)

(* A step that leaves the head and the listed slots alone leaves the chain. *)
LEMMA ChainKept ==
  ASSUME Chained, registryfree' = registryfree, Listed' = Listed,
         \A k \in Listed : slots'[k] = slots[k]
  PROVE  Chained'
<1>0. PICK n \in Nat : \E s \in [1 .. n -> Nat] : IsChain(n, s)
  BY DEF Chained
<1>1. PICK s \in [1 .. n -> Nat] : IsChain(n, s)
  BY <1>0
<1>2. IsChain(n, s)'
  BY <1>1 DEF IsChain
<1> QED BY <1>2 DEF Chained

(* The head is listed, or there is none and no slot is. *)
LEMMA ChainHead ==
  ASSUME Chained
  PROVE  /\ registryfree # 0 => registryfree \in Listed
         /\ registryfree = 0 => Listed = {}
<1>0. PICK n \in Nat : \E s \in [1 .. n -> Nat] : IsChain(n, s)
  BY DEF Chained
<1>1. PICK s \in [1 .. n -> Nat] : IsChain(n, s)
  BY <1>0
<1>2. 0 \notin Listed
  BY DEF Listed, FreeSlots
<1> QED BY <1>1, <1>2 DEF IsChain

(* lua_ref takes the head. *)
LEMMA ChainTail ==
  ASSUME Chained, registryfree # 0, registryfree' = slots[registryfree].next,
         Listed' = Listed \ {registryfree}, \A k \in Listed : slots'[k] = slots[k]
  PROVE  Chained'
<1>0. PICK n \in Nat : \E s \in [1 .. n -> Nat] : IsChain(n, s)
  BY DEF Chained
<1>1. PICK s \in [1 .. n -> Nat] : IsChain(n, s)
  BY <1>0
<1>2. n > 0 /\ s[1] = registryfree
  BY <1>1 DEF IsChain
<1> DEFINE u == [i \in 1 .. n - 1 |-> s[i + 1]]
<1>3. n - 1 \in Nat /\ u \in [1 .. n - 1 -> Nat]
  BY <1>2
<1>4. \A i \in 1 .. n - 1 : u[i] = s[i + 1] /\ i + 1 \in 1 .. n
  OBVIOUS
<1>5. \A i \in 1 .. n - 1 : u[i] \in Listed'
  BY <1>1, <1>2, <1>4 DEF IsChain
<1>6. ASSUME NEW k \in Listed' PROVE \E i \in 1 .. n - 1 : u[i] = k
  <2>1. PICK i \in 1 .. n : s[i] = k
    BY <1>1, <1>6 DEF IsChain
  <2>2. i # 1
    BY <2>1, <1>2, <1>6
  <2>3. i - 1 \in 1 .. n - 1 /\ u[i - 1] = k
    BY <2>1, <2>2
  <2> QED BY <2>3
<1>7. \A i, j \in 1 .. n - 1 : u[i] = u[j] => i = j
  BY <1>1, <1>4 DEF IsChain
<1>8. registryfree' = IF n - 1 = 0 THEN 0 ELSE u[1]
  BY <1>1, <1>2, <1>4 DEF IsChain
<1>9. ASSUME NEW i \in 1 .. n - 1
      PROVE slots'[u[i]].next = IF i = n - 1 THEN 0 ELSE u[i + 1]
  <2>1. slots'[u[i]] = slots[s[i + 1]]
    BY <1>1, <1>4 DEF IsChain
  <2>2. slots[s[i + 1]].next = IF i + 1 = n THEN 0 ELSE s[i + 2]
    BY <1>1, <1>4 DEF IsChain
  <2>3. i # n - 1 => u[i + 1] = s[i + 2]
    OBVIOUS
  <2> QED BY <2>1, <2>2, <2>3
<1>10. IsChain(n - 1, u)'
  BY <1>5, <1>6, <1>7, <1>8, <1>9 DEF IsChain
<1> QED BY <1>3, <1>10 DEF Chained

(* lua_unref makes the slot h the head. *)
LEMMA ChainCons ==
  ASSUME Chained, NEW h \in Nat, h \notin Listed, slots[h].next = registryfree,
         registryfree' = h, h # 0, Listed' = Listed \cup {h}, slots' = slots
  PROVE  Chained'
<1>0. PICK n \in Nat : \E s \in [1 .. n -> Nat] : IsChain(n, s)
  BY DEF Chained
<1>1. PICK s \in [1 .. n -> Nat] : IsChain(n, s)
  BY <1>0
<1> DEFINE u == [i \in 1 .. n + 1 |-> IF i = 1 THEN h ELSE s[i - 1]]
<1>2. n + 1 \in Nat /\ u \in [1 .. n + 1 -> Nat]
  OBVIOUS
<1>3. u[1] = h /\ \A i \in 1 .. n : u[i + 1] = s[i]
  OBVIOUS
<1>4. \A i \in 1 .. n + 1 : i # 1 => i - 1 \in 1 .. n /\ u[i] = s[i - 1]
  OBVIOUS
<1>5. \A i \in 1 .. n + 1 : u[i] \in Listed'
  BY <1>1, <1>3, <1>4 DEF IsChain
<1>6. ASSUME NEW k \in Listed' PROVE \E i \in 1 .. n + 1 : u[i] = k
  <2>1. CASE k = h
    BY <2>1, <1>3
  <2>2. CASE k # h
    <3>1. PICK i \in 1 .. n : s[i] = k
      BY <1>1, <1>6, <2>2 DEF IsChain
    <3>2. i + 1 \in 1 .. n + 1 /\ u[i + 1] = k
      BY <3>1, <1>3
    <3> HIDE DEF u
    <3> QED BY <3>2
  <2> QED BY <2>1, <2>2
<1>7. \A i, j \in 1 .. n + 1 : u[i] = u[j] => i = j
  <2> SUFFICES ASSUME NEW i \in 1 .. n + 1, NEW j \in 1 .. n + 1, u[i] = u[j] PROVE i = j
    OBVIOUS
  <2>1. CASE i = 1 /\ j = 1
    BY <2>1
  <2>2. CASE i = 1 /\ j # 1
    BY <2>2, <1>1, <1>3, <1>4 DEF IsChain
  <2>3. CASE i # 1 /\ j = 1
    BY <2>3, <1>1, <1>3, <1>4 DEF IsChain
  <2>4. CASE i # 1 /\ j # 1
    <3>1. i - 1 = j - 1
      BY <2>4, <1>1, <1>4 DEF IsChain
    <3> QED BY <3>1
  <2> QED BY <2>1, <2>2, <2>3, <2>4
<1>8. registryfree' = IF n + 1 = 0 THEN 0 ELSE u[1]
  BY <1>3
<1>9. ASSUME NEW i \in 1 .. n + 1
      PROVE slots'[u[i]].next = IF i = n + 1 THEN 0 ELSE u[i + 1]
  <2>1. CASE i = 1
    BY <2>1, <1>1, <1>3 DEF IsChain
  <2>2. CASE i # 1
    <3>1. slots[s[i - 1]].next = IF i - 1 = n THEN 0 ELSE s[i]
      BY <2>2, <1>1 DEF IsChain
    <3>2. i # n + 1 => u[i + 1] = s[i]
      BY <2>2, <1>3
    <3> QED BY <3>1, <3>2, <2>2, <1>4
  <2> QED BY <2>1, <2>2
<1>10. IsChain(n + 1, u)'
  BY <1>5, <1>6, <1>7, <1>8, <1>9 DEF IsChain
<1> QED BY <1>2, <1>10 DEF Chained
-----------------------------------------------------------------------------
(* The steps, without overlap.                                              *)

LEMMA CalmInit == Init => Calm
<1> SUFFICES ASSUME Init PROVE Calm
  OBVIOUS
<1>1. Len(slots) = 0
  BY EmptySeq DEF Init
<1>2. Listed = {}
  BY <1>1 DEF Listed, FreeSlots
<1>3. Chained
  <2> DEFINE s == [i \in 1 .. 0 |-> 0]
  <2>1. s \in [1 .. 0 -> Nat]
    OBVIOUS
  <2>2. IsChain(0, s)
    BY <1>2 DEF IsChain, Init
  <2> QED BY <2>1, <2>2 DEF Chained
<1> QED
  BY <1>3 DEF Init, Calm, Idle, Thread, Used, NewRef, TakingRight, FreeingRight, RefsRight, EngineRight, Counts, Open

(* What it means that a thread may begin: no thread is in the VM, and every *)
(* free slot is on the list.                                                *)
LEMMA Beginning ==
  ASSUME "overlap" \notin Faults, Types, Calm, NEW t \in Thread, MayBegin(t)
  PROVE  /\ \A u \in Thread : op[u] = Idle /\ op[u].pc = "idle" /\ ~Used(u)
         /\ Taken = {}
         /\ \A o \in Object : refs[o].state # "closing"
<1>1. \A u \in Thread : op[u] = Idle /\ op[u].pc = "idle" /\ ~Used(u)
  BY DEF MayBegin, Idle, Used
<1> QED BY <1>1 DEF Taken, Calm, RefsRight

(* While the program is inside lua_ref, the finalizer is not in the VM. *)
LEMMA AppAlone ==
  ASSUME Types, Calm, op["app"].pc \in {"take", "store"}
  PROVE  /\ op["finalizer"] = Idle /\ op["finalizer"].pc = "idle"
         /\ \A u \in Thread : ~Used(u)
         /\ Taken = IF op["app"].pc = "store" THEN {op["app"].ref} ELSE {}
         /\ \A o \in Object : refs[o].state # "closing"
         /\ engine = "open"
<1>1. op["finalizer"] = Idle /\ op["finalizer"].pc = "idle"
  BY DEF Calm, Idle
<1>2. \A u \in Thread : ~Used(u)
  BY <1>1 DEF Used, Thread
<1> QED BY <1>1, <1>2 DEF Taken, Thread, Calm, RefsRight, TakingRight

(* While a thread is inside lua_unref, the other is not in the VM. *)
LEMMA FreerAlone ==
  ASSUME Types, Calm, NEW t \in Thread, Used(t)
  PROVE  /\ \A u \in Thread : u # t => op[u] = Idle /\ op[u].pc = "idle" /\ ~Used(u)
         /\ Taken = IF op[t].pc = "head" THEN {op[t].ref} ELSE {}
<1>1. \A u \in Thread : u # t => op[u] = Idle
  BY DEF Calm, Used, Idle, Thread
<1>2. \A u \in Thread : u # t => op[u].pc = "idle"
  BY <1>1 DEF Idle
<1> QED BY <1>1, <1>2 DEF Taken, Used

LEMMA CalmPopReference ==
  ASSUME "overlap" \notin Faults, Types, Calm, NEW o \in Object, NEW v \in Val, PopReference(o, v)
  PROVE  Calm'
<1>1. /\ \A u \in Thread : op[u] = Idle /\ op[u].pc = "idle" /\ ~Used(u)
      /\ Taken = {}
      /\ \A p \in Object : refs[p].state # "closing"
  BY Beginning DEF PopReference, Thread
<1>2. /\ op'["app"].pc = "take" /\ op'["finalizer"] = Idle /\ op'["finalizer"].pc = "idle"
      /\ op'["app"].obj = o /\ op'["app"].ref = IF registryfree # 0 THEN registryfree ELSE Len(slots) + 1
  BY <1>1 DEF PopReference, Types, TypeOK, Thread
<1>3. \A u \in Thread : ~Used(u)'
  BY <1>2 DEF Used, Thread
<1>4. Taken' = {}
  BY <1>2 DEF Taken, Thread
<1>5. engine' # "corrupt" => Chained'
  BY <1>1, <1>4, ChainKept DEF PopReference, Calm, Listed, FreeSlots
<1>6. TakingRight'
  BY <1>2 DEF PopReference, TakingRight
<1>7. FreeingRight'
  BY <1>3 DEF FreeingRight
<1>8. RefsRight'
  BY <1>1 DEF PopReference, Calm, RefsRight, Open, Counts
<1> QED BY <1>2, <1>5, <1>6, <1>7, <1>8 DEF PopReference, Calm, EngineRight, Counts

LEMMA CalmPopReferenceNil ==
  ASSUME "overlap" \notin Faults, Types, Calm, NEW o \in Object, PopReferenceNil(o)
  PROVE  Calm'
<1>1. /\ \A u \in Thread : op[u] = Idle /\ op[u].pc = "idle" /\ ~Used(u)
      /\ \A p \in Object : refs[p].state # "closing"
  BY Beginning DEF PopReferenceNil, Thread
<1>2. \A u \in Thread : op'[u] = op[u] /\ ~Used(u)'
  BY <1>1 DEF PopReferenceNil, Used
<1>3. refs' \in [Object -> RefSet] /\ \A p \in Object : refs'[p] =
         IF p = o THEN [state |-> "open", id |-> 0, val |-> Nil] ELSE refs[p]
  BY DEF PopReferenceNil, Made, RefNil, Types, TypeOK, RefSet
<1>4. engine' # "corrupt" => Chained'
  BY ChainKept DEF PopReferenceNil, Calm, Listed, FreeSlots, Taken
<1>5. TakingRight' /\ FreeingRight'
  BY <1>1, <1>2 DEF TakingRight, FreeingRight, Thread
<1>6. RefsRight'
  BY <1>1, <1>3 DEF PopReferenceNil, Calm, RefsRight, Open, Counts
<1> QED BY <1>1, <1>2, <1>3, <1>4, <1>5, <1>6 DEF PopReferenceNil, Calm, EngineRight, Counts, Thread

LEMMA CalmDrop ==
  ASSUME Types, Calm, NEW o \in Object, Drop(o)
  PROVE  Calm'
<1>1. /\ slots' = slots /\ registryfree' = registryfree /\ refs' = refs /\ op' = op /\ engine' = engine
      /\ leftOpen' = leftOpen
  BY DEF Drop
<1>2. Listed' = Listed
  BY <1>1 DEF Listed, FreeSlots, Taken
<1>3. engine' # "corrupt" => Chained'
  BY <1>1, <1>2, ChainKept DEF Calm
<1>4. TakingRight' /\ FreeingRight' /\ EngineRight'
  BY <1>1 DEF Calm, TakingRight, FreeingRight, EngineRight, Counts, Used
<1>5. RefsRight'
  BY <1>1 DEF Calm, RefsRight, Open, Counts, Used
<1> QED BY <1>1, <1>3, <1>4, <1>5 DEF Calm

LEMMA CalmBeginClose ==
  ASSUME "overlap" \notin Faults, Types, Calm, NEW o \in Object, NEW t \in Thread,
         MayBegin(t), BeginClose(t, o)
  PROVE  Calm'
<1>1. /\ \A u \in Thread : op[u] = Idle /\ op[u].pc = "idle" /\ ~Used(u)
      /\ Taken = {}
      /\ \A p \in Object : refs[p].state # "closing"
  BY Beginning
<1>2. /\ op'[t].pc = "free" /\ op'[t].obj = o /\ op'[t].ref = refs[o].id
      /\ \A u \in Thread : u # t => op'[u] = Idle /\ op'[u].pc = "idle" /\ ~Used(u)'
  BY <1>1 DEF BeginClose, Types, TypeOK, Used
<1>3. \A p \in Object : /\ refs'[p].id = refs[p].id /\ refs'[p].val = refs[p].val
                        /\ refs'[p].state = IF p = o THEN "closing" ELSE refs[p].state
  BY DEF BeginClose, Types, TypeOK
<1>4. Taken' = {}
  BY <1>2 DEF Taken
<1>5. engine' # "corrupt" => Chained'
  BY <1>1, <1>4, ChainKept DEF BeginClose, Calm, Listed, FreeSlots
<1>6. TakingRight'
  BY <1>2 DEF TakingRight, Thread
<1>7. FreeingRight'
  <2>1. Open(o)
    BY DEF BeginClose, Open
  <2>2. refs[o].id # 0 => slots[refs[o].id] = Held(refs[o].val)
    BY <2>1 DEF Calm, RefsRight
  <2>3. refs[o].id # 0 => slots[refs[o].id].tag = "value"
    BY <2>2 DEF Held
  <2>4. slots' = slots
    BY DEF BeginClose
  <2>5. op'[t].pc # "head"
    BY <1>2
  <2> QED BY <1>2, <1>3, <2>3, <2>4, <2>5 DEF FreeingRight
<1>8. RefsRight'
  <2>1. Used(t)'
    BY <1>2 DEF Used
  <2>2. Counts(o) /\ \A p \in Object : Counts(p)' <=> Counts(p)
    BY <1>3 DEF Counts, BeginClose
  <2>3. \A p \in Object : Open(p)' => Open(p)
    BY <1>3 DEF Open
  <2> QED BY <1>1, <1>2, <1>3, <2>1, <2>2, <2>3 DEF BeginClose, Calm, RefsRight
<1>9. EngineRight'
  BY <1>3 DEF BeginClose, Calm, EngineRight, Counts
<1> QED BY <1>2, <1>5, <1>6, <1>7, <1>8, <1>9 DEF Calm, Thread

LEMMA CalmRefTake ==
  ASSUME Types, Calm, RefTake
  PROVE  Calm'
<1> DEFINE k == op["app"].ref
<1>0. /\ op["app"].pc = "take" /\ k \in 1 .. Len(slots) + 1
      /\ k = IF registryfree # 0 THEN registryfree ELSE Len(slots) + 1
      /\ slots \in Seq(SlotSet) /\ Len(slots) \in Nat /\ registryfree \in 0 .. Len(slots)
  BY LenProperties DEF RefTake, Types, TypeOK, SlotSet, InRange, OpsTyped, Calm, TakingRight
<1>1. /\ op["finalizer"] = Idle /\ op["finalizer"].pc = "idle"
      /\ \A u \in Thread : ~Used(u)
      /\ Taken = {} /\ engine = "open"
      /\ \A o \in Object : refs[o].state # "closing"
  BY <1>0, AppAlone
<1>2. /\ op'["app"].pc = "store" /\ op'["app"].ref = k /\ op'["app"].obj = op["app"].obj
      /\ op'["finalizer"] = Idle /\ op'["finalizer"].pc = "idle"
  BY <1>1 DEF RefTake, Types, TypeOK, Thread
<1>3. \A u \in Thread : ~Used(u)'
  BY <1>2 DEF Used, Thread
<1>4. Taken' = {k}
  BY <1>2 DEF Taken, Thread
<1>5. /\ Len(slots') = IF k = Len(slots) + 1 THEN k ELSE Len(slots)
      /\ k = Len(slots) + 1 => slots'[k] = EmptySlot
      /\ \A i \in 1 .. Len(slots) : slots'[i] = slots[i]
  BY <1>0, Entered DEF RefTake
<1>6. Chained /\ (registryfree # 0 => registryfree \in Listed) /\ Listed = FreeSlots
  BY <1>1, ChainHead DEF Calm, Listed
<1>7. Chained' /\ slots'[k].tag # "value"
  <2>1. CASE registryfree = 0
    <3>1. FreeSlots' = FreeSlots /\ k \notin FreeSlots
      BY <1>0, <1>5, <2>1 DEF FreeSlots, EmptySlot
    <3>2. Listed' = Listed /\ \A i \in Listed : slots'[i] = slots[i]
      BY <1>4, <1>5, <1>6, <3>1 DEF Listed, FreeSlots
    <3>3. registryfree' = registryfree
      BY <2>1 DEF RefTake
    <3> QED BY <1>0, <1>5, <1>6, <2>1, <3>2, <3>3, ChainKept DEF EmptySlot
  <2>2. CASE registryfree # 0
    <3>1. k = registryfree /\ k \in Listed /\ slots[k].tag = "free" /\ k \in 1 .. Len(slots)
      BY <1>0, <1>6, <2>2 DEF FreeSlots
    <3>2. FreeSlots' = FreeSlots
      BY <1>0, <1>5, <3>1 DEF FreeSlots
    <3>3. Listed' = Listed \ {registryfree} /\ \A i \in Listed : slots'[i] = slots[i]
      BY <1>4, <1>5, <1>6, <3>1, <3>2 DEF Listed, FreeSlots
    <3>4. registryfree' = slots[registryfree].next
      BY <1>5, <2>2, <3>1 DEF RefTake
    <3> QED BY <1>5, <1>6, <2>2, <3>1, <3>3, <3>4, ChainTail
  <2> QED BY <2>1, <2>2
<1>8. TakingRight'
  BY <1>0, <1>1, <1>2, <1>7 DEF RefTake, Calm, TakingRight
<1>9. FreeingRight'
  BY <1>3 DEF FreeingRight
<1>10. RefsRight'
  BY <1>1, <1>5 DEF RefTake, Calm, RefsRight, Open, Counts, Types, InRange
<1>11. EngineRight'
  BY <1>1 DEF RefTake, EngineRight
<1> QED BY <1>2, <1>7, <1>8, <1>9, <1>10, <1>11 DEF Calm

LEMMA CalmRefStore ==
  ASSUME Types, Calm, RefStore
  PROVE  Calm'
<1> DEFINE k == op["app"].ref  v == op["app"].val  o == op["app"].obj
<1>0. /\ op["app"].pc = "store" /\ k \in 1 .. Len(slots) /\ v \in Val /\ o \in Object
      /\ slots \in Seq(SlotSet) /\ Len(slots) \in Nat
      /\ refs[o].state = "none" /\ slots[k].tag # "value"
  BY LenProperties DEF RefStore, Types, TypeOK, SlotSet, OpsTyped, Calm, TakingRight
<1>1. /\ op["finalizer"] = Idle
      /\ Taken = {k} /\ engine = "open"
      /\ \A p \in Object : refs[p].state # "closing"
  BY <1>0, AppAlone
<1>2. \A u \in Thread : op'[u] = Idle /\ op'[u].pc = "idle" /\ ~Used(u)'
  BY <1>1 DEF RefStore, Types, TypeOK, Thread, Idle, Used
<1>3. Taken' = {}
  BY <1>2 DEF Taken
<1>4. /\ Len(slots') = Len(slots)
      /\ slots'[k] = Held(v) /\ slots'[k].tag = "value"
      /\ \A i \in 1 .. Len(slots) : i # k => slots'[i] = slots[i]
  BY <1>0, Written DEF RefStore, Held, SlotSet
<1>5. Chained'
  <2>1. FreeSlots' = FreeSlots \ {k}
    BY <1>0, <1>4 DEF FreeSlots
  <2>2. Listed' = Listed /\ \A i \in Listed : slots'[i] = slots[i]
    BY <1>1, <1>3, <1>4, <2>1 DEF Listed, FreeSlots
  <2> QED BY <1>1, <2>2, ChainKept DEF Calm, RefStore
<1>6. \A p \in Object : refs'[p] = IF p = o THEN [state |-> "open", id |-> k, val |-> v] ELSE refs[p]
  BY <1>0 DEF RefStore, Made, Types, TypeOK
<1>7. \A p \in Object : p # o /\ Counts(p) => Open(p) /\ refs[p].id # k
  <2> SUFFICES ASSUME NEW p \in Object, p # o, Counts(p) PROVE Open(p) /\ refs[p].id # k
    OBVIOUS
  <2>1. Open(p)
    BY <1>1 DEF Counts, Open
  <2>2. refs[p].id # 0 => slots[refs[p].id] = Held(refs[p].val)
    BY <2>1 DEF Calm, RefsRight
  <2>3. refs[p].id # 0 => slots[refs[p].id].tag = "value"
    BY <2>2 DEF Held
  <2> QED BY <1>0, <2>1, <2>3
<1>8. RefsRight'
  <2>1. \A p \in Object : Open(p)' => IF refs'[p].id = 0 THEN refs'[p].val = Nil
             ELSE refs'[p].val \in Val /\ slots'[refs'[p].id] = Held(refs'[p].val)
    <3> SUFFICES ASSUME NEW p \in Object, Open(p)'
                 PROVE  IF refs'[p].id = 0 THEN refs'[p].val = Nil
                        ELSE refs'[p].val \in Val /\ slots'[refs'[p].id] = Held(refs'[p].val)
      OBVIOUS
    <3>1. CASE p = o
      BY <3>1, <1>0, <1>4, <1>6
    <3>2. CASE p # o
      <4>1. refs'[p] = refs[p] /\ Open(p) /\ refs[p].id # k /\ refs[p].id \in 0 .. Len(slots)
        BY <3>2, <1>6, <1>7 DEF Open, Counts, Types, InRange
      <4> QED BY <4>1, <1>4 DEF Calm, RefsRight
    <3> QED BY <3>1, <3>2
  <2>2. \A p \in Object : refs'[p].state # "closing"
    BY <1>1, <1>6
  <2>3. \A p, q \in Object : Counts(p)' /\ Counts(q)' /\ p # q /\ refs'[p].id # 0 => refs'[p].id # refs'[q].id
    BY <1>6, <1>7 DEF Counts, Calm, RefsRight
  <2> QED BY <2>1, <2>2, <2>3 DEF RefsRight
<1>9. TakingRight' /\ FreeingRight'
  BY <1>2 DEF TakingRight, FreeingRight, Thread
<1> QED BY <1>1, <1>2, <1>5, <1>8, <1>9 DEF RefStore, Calm, EngineRight, Thread

LEMMA CalmCloseEngine ==
  ASSUME "overlap" \notin Faults, Types, Calm, CloseEngine
  PROVE  Calm'
<1>1. /\ \A u \in Thread : op[u] = Idle /\ op[u].pc = "idle" /\ ~Used(u)
      /\ \A p \in Object : refs[p].state # "closing"
  BY Beginning DEF CloseEngine, Thread
<1>2. /\ slots' = slots /\ registryfree' = registryfree /\ refs' = refs /\ op' = op
      /\ engine = "open" /\ engine' = "closed"
      /\ leftOpen' = {o \in Object : Counts(o)}
  BY DEF CloseEngine, Counts
<1>3. Listed' = Listed
  BY <1>2 DEF Listed, FreeSlots, Taken
<1>4. Chained'
  BY <1>2, <1>3, ChainKept DEF Calm
<1>5. TakingRight' /\ FreeingRight'
  BY <1>1, <1>2 DEF TakingRight, FreeingRight, Used, Thread
<1>6. RefsRight'
  BY <1>2 DEF Calm, RefsRight, Open, Counts, Used
<1>7. EngineRight'
  BY <1>1, <1>2 DEF CloseEngine, EngineRight, Counts
<1> QED BY <1>2, <1>4, <1>5, <1>6, <1>7 DEF Calm

LEMMA CalmFinalizeClosed ==
  ASSUME "overlap" \notin Faults, Types, Calm, NEW o \in Object, FinalizeClosed(o)
  PROVE  Calm'
<1>1. /\ \A u \in Thread : op[u] = Idle /\ op[u].pc = "idle" /\ ~Used(u)
      /\ \A p \in Object : refs[p].state # "closing"
  BY Beginning DEF FinalizeClosed, Thread
<1>2. /\ slots' = slots /\ registryfree' = registryfree /\ op' = op /\ engine' = engine
      /\ leftOpen' = leftOpen
  BY DEF FinalizeClosed
<1>3. \A p \in Object : refs'[p] = IF p = o THEN NewRef ELSE refs[p]
  BY DEF FinalizeClosed, Types, TypeOK
<1>4. Listed' = Listed
  BY <1>2 DEF Listed, FreeSlots, Taken
<1>5. engine' # "corrupt" => Chained'
  BY <1>2, <1>4, ChainKept DEF Calm
<1>6. TakingRight' /\ FreeingRight'
  BY <1>1, <1>2 DEF TakingRight, FreeingRight, Used, Thread
<1>7. \A p \in Object : Counts(p)' => p # o /\ Counts(p) /\ refs'[p] = refs[p] /\ (Open(p)' => Open(p))
  BY <1>3 DEF Counts, Open, NewRef
<1>8. RefsRight'
  <2>1. \A p \in Object : Open(p)' => Counts(p)'
    BY DEF Open, Counts
  <2>2. \A p \in Object : refs'[p].state # "closing"
    BY <1>1, <1>3 DEF NewRef
  <2>3. \A p \in Object : Open(p)' => IF refs'[p].id = 0 THEN refs'[p].val = Nil
             ELSE refs'[p].val \in Val /\ slots'[refs'[p].id] = Held(refs'[p].val)
    BY <1>2, <1>7, <2>1 DEF Calm, RefsRight
  <2>4. \A p, q \in Object : Counts(p)' /\ Counts(q)' /\ p # q /\ refs'[p].id # 0 => refs'[p].id # refs'[q].id
    BY <1>7 DEF Calm, RefsRight
  <2> QED BY <2>2, <2>3, <2>4 DEF RefsRight
<1>9. EngineRight'
  BY <1>2, <1>7 DEF Calm, EngineRight
<1> QED BY <1>2, <1>5, <1>6, <1>8, <1>9 DEF Calm

LEMMA CalmUnrefSlot ==
  ASSUME Types, Calm, NEW t \in Thread, UnrefSlot(t)
  PROVE  Calm'
<1> DEFINE k == op[t].ref  o == op[t].obj
<1>0. /\ op[t].pc = "free" /\ Used(t) /\ k \in 1 .. Len(slots) /\ o \in Object
      /\ slots \in Seq(SlotSet) /\ Len(slots) \in Nat /\ registryfree \in Nat
      /\ refs[o].state = "closing" /\ refs[o].id = k /\ slots[k].tag = "value"
  <2>1. op[t].pc = "free" /\ k > 0 /\ Used(t)
    BY DEF UnrefSlot, UnrefSlotTo, RefNil, Used
  <2>2. slots \in Seq(SlotSet) /\ Len(slots) \in Nat /\ registryfree \in Nat
    BY LenProperties DEF Types, TypeOK, SlotSet
  <2>3. k \in 1 .. Len(slots) /\ o \in Object
    BY <2>1, <2>2 DEF Types, OpsTyped
  <2> QED BY <2>1, <2>2, <2>3 DEF Calm, FreeingRight
<1>1. /\ \A u \in Thread : u # t => op[u] = Idle /\ op[u].pc = "idle" /\ ~Used(u)
      /\ Taken = {}
  BY <1>0, FreerAlone
<1>2. /\ op'[t].pc = "head" /\ op'[t].obj = o /\ op'[t].ref = k /\ Used(t)'
      /\ \A u \in Thread : u # t => op'[u] = op[u] /\ ~Used(u)' /\ op'[u].pc = "idle"
  BY <1>1 DEF UnrefSlot, UnrefSlotTo, Types, TypeOK, Used
<1>3. Taken' = {k}
  BY <1>2 DEF Taken
<1>4. refs' = refs /\ registryfree' = registryfree
  BY DEF UnrefSlot, UnrefSlotTo
<1>5. CASE engine = "open"
  <2>1. /\ Len(slots') = Len(slots) /\ slots'[k] = Link(registryfree)
        /\ \A i \in 1 .. Len(slots) : i # k => slots'[i] = slots[i]
    <3>1. Link(registryfree) \in SlotSet
      BY <1>0 DEF Link, SlotSet
    <3>2. slots' = [slots EXCEPT ![k] = Link(registryfree)]
      BY <1>5 DEF UnrefSlot, UnrefSlotTo
    <3> HIDE DEF k
    <3> QED BY <1>0, <3>1, <3>2, Written
  <2>2. slots'[k].tag = "free" /\ k \notin FreeSlots
    BY <1>0, <2>1 DEF Link, FreeSlots
  <2>3. FreeSlots' = FreeSlots \cup {k}
    BY <1>0, <2>1, <2>2 DEF FreeSlots
  <2>4. Listed' = Listed /\ \A i \in Listed : slots'[i] = slots[i]
    BY <1>1, <1>3, <2>1, <2>2, <2>3 DEF Listed, FreeSlots
  <2>5. Chained' /\ engine' = engine
    BY <1>4, <1>5, <2>4, ChainKept DEF Calm, UnrefSlot, UnrefSlotTo
  <2>6. TakingRight'
    BY <1>2 DEF TakingRight, Thread
  <2>7. FreeingRight'
    BY <1>0, <1>2, <1>4, <2>1 DEF FreeingRight
  <2>8. RefsRight'
    <3>1. \A p \in Object : Open(p) => refs[p].id # k
      <4> SUFFICES ASSUME NEW p \in Object, Open(p) PROVE refs[p].id # k
        OBVIOUS
      <4>1. p # o /\ Counts(p) /\ Counts(o) /\ refs[o].id # 0
        BY <1>0 DEF Open, Counts
      <4> QED BY <1>0, <4>1 DEF Calm, RefsRight
    <3>2. \A p \in Object : Open(p)' => IF refs'[p].id = 0 THEN refs'[p].val = Nil
             ELSE refs'[p].val \in Val /\ slots'[refs'[p].id] = Held(refs'[p].val)
      <4> SUFFICES ASSUME NEW p \in Object, Open(p)
                   PROVE IF refs[p].id = 0 THEN refs[p].val = Nil
                         ELSE refs[p].val \in Val /\ slots'[refs[p].id] = Held(refs[p].val)
        BY <1>4 DEF Open
      <4>1. refs[p].id \in 0 .. Len(slots)
        BY DEF Types, InRange
      <4> QED BY <1>0, <2>1, <3>1, <4>1 DEF Calm, RefsRight
    <3>3. \A p \in Object : refs'[p].state = "closing" => \E u \in Thread : Used(u)' /\ op'[u].obj = p
      BY <1>1, <1>2, <1>4 DEF Calm, RefsRight
    <3> QED BY <1>4, <3>2, <3>3 DEF Calm, RefsRight, Counts
  <2> QED BY <1>1, <1>2, <1>4, <2>5, <2>6, <2>7, <2>8, <1>5 DEF Calm, EngineRight, Thread
<1>6. CASE engine # "open"
  <2>1. engine' = "corrupt" /\ slots' = slots
    BY <1>6 DEF UnrefSlot, UnrefSlotTo
  <2>2. leftOpen # {} /\ leftOpen' = leftOpen
    BY <1>0, <1>6 DEF Calm, EngineRight, Counts, UnrefSlot, UnrefSlotTo
  <2>3. TakingRight'
    BY <1>2 DEF TakingRight, Thread
  <2>4. FreeingRight'
    BY <1>0, <1>2, <1>4, <2>1 DEF FreeingRight
  <2>5. RefsRight'
    <3>1. \A p \in Object : refs'[p].state = "closing" => \E u \in Thread : Used(u)' /\ op'[u].obj = p
      BY <1>1, <1>2, <1>4 DEF Calm, RefsRight
    <3> QED BY <1>4, <2>1, <3>1 DEF Calm, RefsRight, Counts, Open
  <2> QED BY <1>1, <1>2, <2>1, <2>2, <2>3, <2>4, <2>5 DEF Calm, EngineRight, Thread
<1> QED BY <1>5, <1>6

LEMMA CalmUnrefHead ==
  ASSUME Types, Calm, NEW t \in Thread, UnrefHead(t) \/ UnrefNil(t)
  PROVE  Calm'
<1> DEFINE k == op[t].ref  o == op[t].obj
<1>0. /\ Used(t) /\ k \in 0 .. Len(slots) /\ o \in Object /\ Len(slots) \in Nat
      /\ refs[o].state = "closing" /\ refs[o].id = k
  <2>1. Used(t) /\ Len(slots) \in Nat
    BY LenProperties DEF UnrefHead, UnrefNil, Used, Types, TypeOK, SlotSet
  <2> QED BY <2>1 DEF Types, OpsTyped, Calm, FreeingRight
<1>1. /\ \A u \in Thread : u # t => op[u] = Idle /\ op[u].pc = "idle" /\ ~Used(u)
      /\ Taken = IF op[t].pc = "head" THEN {op[t].ref} ELSE {}
  BY <1>0, FreerAlone
<1>2. Closed(t, "closed") /\ slots' = slots /\ engine' = engine /\ leftOpen' = leftOpen
  BY DEF UnrefHead, UnrefNil, Closed
<1>3. \A u \in Thread : op'[u] = Idle /\ op'[u].pc = "idle" /\ ~Used(u)'
  BY <1>1, <1>2 DEF Closed, Types, TypeOK, Used, Idle
<1>4. \A p \in Object : /\ refs'[p].id = refs[p].id /\ refs'[p].val = refs[p].val
                        /\ refs'[p].state = IF p = o THEN "closed" ELSE refs[p].state
  BY <1>2 DEF Closed, Types, TypeOK
<1>5. Taken' = {}
  BY <1>3 DEF Taken
<1>6. ASSUME engine # "corrupt" PROVE Chained'
  <2>1. CASE UnrefNil(t)
    <3>1. op[t].pc # "head" /\ registryfree' = registryfree
      BY <2>1 DEF UnrefNil
    <3>2. Listed' = Listed
      BY <1>1, <1>2, <1>5, <3>1 DEF Listed, FreeSlots
    <3> QED BY <1>2, <1>6, <3>1, <3>2, ChainKept DEF Calm
  <2>2. CASE UnrefHead(t)
    <3>1. op[t].pc = "head" /\ registryfree' = k /\ k # 0
      BY <2>2 DEF UnrefHead, Types, OpsTyped
    <3>2. slots[k] = Link(registryfree)
      BY <1>0, <1>6, <3>1 DEF Calm, FreeingRight
    <3>3. slots[k].tag = "free" /\ slots[k].next = registryfree /\ k \in FreeSlots
      BY <1>0, <3>1, <3>2 DEF Link, FreeSlots
    <3>4. k \notin Listed /\ Listed' = Listed \cup {k}
      BY <1>1, <1>2, <1>5, <3>1, <3>3 DEF Listed, FreeSlots
    <3> HIDE DEF k
    <3> QED BY <1>0, <1>2, <1>6, <3>1, <3>3, <3>4, ChainCons DEF Calm
  <2> QED BY <2>1, <2>2
<1>7. TakingRight' /\ FreeingRight'
  BY <1>3 DEF TakingRight, FreeingRight, Thread
<1>8. \A p \in Object : Counts(p)' => p # o /\ Counts(p)
  BY <1>4 DEF Counts
<1>9. RefsRight'
  <2>1. \A p \in Object : Open(p)' => Open(p)
    BY <1>4 DEF Open
  <2>2. \A p \in Object : Open(p)' => IF refs'[p].id = 0 THEN refs'[p].val = Nil
             ELSE refs'[p].val \in Val /\ slots'[refs'[p].id] = Held(refs'[p].val)
    BY <1>2, <1>4, <2>1 DEF Calm, RefsRight
  <2>3. \A p \in Object : refs'[p].state # "closing"
    <3> SUFFICES ASSUME NEW p \in Object, refs'[p].state = "closing" PROVE FALSE
      OBVIOUS
    <3>1. p # o /\ refs[p].state = "closing"
      BY <1>4
    <3>2. PICK u \in Thread : Used(u) /\ op[u].obj = p
      BY <3>1 DEF Calm, RefsRight
    <3> QED BY <1>1, <3>1, <3>2
  <2>4. \A p, q \in Object : Counts(p)' /\ Counts(q)' /\ p # q /\ refs'[p].id # 0 => refs'[p].id # refs'[q].id
    BY <1>4, <1>8 DEF Calm, RefsRight
  <2> QED BY <2>2, <2>3, <2>4 DEF RefsRight
<1>10. EngineRight'
  BY <1>2, <1>8 DEF Calm, EngineRight
<1> QED BY <1>2, <1>3, <1>6, <1>7, <1>9, <1>10 DEF Calm, Thread

LEMMA CalmStutter ==
  ASSUME Calm, UNCHANGED vars
  PROVE  Calm'
<1>1. /\ slots' = slots /\ registryfree' = registryfree /\ refs' = refs /\ op' = op /\ engine' = engine
      /\ leftOpen' = leftOpen
  BY DEF vars
<1>2. Listed' = Listed
  BY <1>1 DEF Listed, FreeSlots, Taken
<1>3. engine' # "corrupt" => Chained'
  BY <1>1, <1>2, ChainKept DEF Calm
<1>4. TakingRight' /\ FreeingRight' /\ EngineRight'
  BY <1>1 DEF Calm, TakingRight, FreeingRight, EngineRight, Counts, Used
<1>5. RefsRight'
  BY <1>1 DEF Calm, RefsRight, Open, Counts, Used
<1> QED BY <1>1, <1>3, <1>4, <1>5 DEF Calm

LEMMA CalmNext ==
  ASSUME "overlap" \notin Faults, Types, Calm, [Next]_vars
  PROVE  Calm'
<1>1. CASE AppStep
  BY <1>1, CalmPopReference, CalmPopReferenceNil, CalmDrop, CalmBeginClose, CalmRefTake, CalmRefStore,
     CalmCloseEngine
  DEF AppStep, Close, Thread
<1>2. CASE \E o \in Object : FinalizeOpen(o) \/ FinalizeClosed(o)
  BY <1>2, CalmBeginClose, CalmFinalizeClosed DEF FinalizeOpen, Thread
<1>3. CASE \E t \in Thread : UnrefSlot(t) \/ UnrefHead(t) \/ UnrefNil(t)
  BY <1>3, CalmUnrefSlot, CalmUnrefHead
<1>4. CASE UNCHANGED vars
  BY <1>4, CalmStutter
<1> QED BY <1>1, <1>2, <1>3, <1>4 DEF Next

(* What an open reference pushes, where the invariant holds. *)
LEMMA PushedIsVal ==
  ASSUME Types, Calm, NEW o \in Object, Open(o)
  PROVE  Pushed(o) = refs[o].val
<1>1. CASE refs[o].id = 0
  BY <1>1 DEF Calm, RefsRight, Pushed
<1>2. CASE refs[o].id # 0
  <2>1. slots[refs[o].id] = Held(refs[o].val) /\ refs[o].id \in 1 .. Len(slots)
    BY <1>2 DEF Calm, RefsRight, Types, InRange
  <2>2. slots[refs[o].id].tag = "value" /\ slots[refs[o].id].val = refs[o].val
    BY <2>1 DEF Held
  <2> QED BY <2>1, <2>2 DEF Pushed
<1> QED BY <1>1, <1>2

(* Only lua_ref that found an empty free list makes the registry longer. *)
LEMMA Grows ==
  ASSUME Types, Calm, [Next]_vars, Len(slots') > Len(slots)
  PROVE  FreeSlots = {}
<1>0. slots \in Seq(SlotSet) /\ Len(slots) \in Nat /\ registryfree \in Nat
  BY LenProperties DEF Types, TypeOK, SlotSet
<1>1. CASE RefTake
  <2> DEFINE k == op["app"].ref
  <2>1. op["app"].pc = "take" /\ slots' = Enter(k)
    BY <1>1 DEF RefTake
  <2>2. k > Len(slots)
    BY <2>1 DEF Enter
  <2>3. k = IF registryfree # 0 THEN registryfree ELSE Len(slots) + 1
    BY <2>1 DEF Calm, TakingRight
  <2>4. registryfree = 0
    BY <1>0, <2>2, <2>3 DEF Types, InRange
  <2>5. Taken = {} /\ engine = "open"
    BY <2>1, AppAlone
  <2> QED BY <2>4, <2>5, ChainHead DEF Calm, Listed
<1>2. CASE RefStore
  <2>1. Len(slots') = Len(slots)
    <3> DEFINE k == op["app"].ref
    <3>1. k \in 1 .. Len(slots) /\ Held(op["app"].val) \in SlotSet
      BY <1>2 DEF RefStore, Types, OpsTyped, Held, SlotSet
    <3>2. slots' = [slots EXCEPT ![k] = Held(op["app"].val)]
      BY <1>2 DEF RefStore
    <3> HIDE DEF k
    <3> QED BY <1>0, <3>1, <3>2, Written
  <2> QED BY <1>0, <2>1
<1>3. CASE \E t \in Thread : UnrefSlot(t)
  <2> PICK t \in Thread : UnrefSlot(t)
    BY <1>3
  <2>1. CASE engine = "open"
    <3> DEFINE k == op[t].ref
    <3>1. k \in 1 .. Len(slots) /\ Link(registryfree) \in SlotSet
      BY <1>0 DEF UnrefSlot, UnrefSlotTo, RefNil, Used, Types, OpsTyped, Link, SlotSet
    <3>2. slots' = [slots EXCEPT ![k] = Link(registryfree)]
      BY <2>1 DEF UnrefSlot, UnrefSlotTo
    <3> HIDE DEF k
    <3>3. Len(slots') = Len(slots)
      BY <1>0, <3>1, <3>2, Written
    <3> QED BY <1>0, <3>3
  <2>2. CASE engine # "open"
    BY <1>0, <2>2 DEF UnrefSlot, UnrefSlotTo
  <2> QED BY <2>1, <2>2
<1>4. CASE slots' = slots
  BY <1>0, <1>4
<1> QED
  BY <1>1, <1>2, <1>3, <1>4
  DEF Next, AppStep, vars, PopReference, PopReferenceNil, Drop, Close, BeginClose, CloseEngine,
      FinalizeOpen, FinalizeClosed, UnrefHead, UnrefNil, Closed

(* A chain that no thread has a part of is what LinksSound says. *)
LEMMA ChainIsSound ==
  ASSUME Types, Calm, engine # "corrupt"
  PROVE  LinksSound
<1> SUFFICES ASSUME Quiet
             PROVE  /\ registryfree \in FreeSlots \cup {0}
                    /\ \A k \in FreeSlots :
                         /\ slots[k].next \in FreeSlots \cup {0}
                         /\ slots[k].next = registryfree => registryfree = 0
                         /\ \A j \in FreeSlots : slots[j].next = slots[k].next => j = k \/ slots[k].next = 0
  BY DEF LinksSound
<1>1. Taken = {}
  BY DEF Quiet, Taken, Idle
<1>2. Listed = FreeSlots /\ 0 \notin FreeSlots
  BY <1>1 DEF Listed, FreeSlots
<1>3. PICK n \in Nat : \E s \in [1 .. n -> Nat] : IsChain(n, s)
  BY DEF Calm, Chained
<1>4. PICK s \in [1 .. n -> Nat] : IsChain(n, s)
  BY <1>3
<1>5. registryfree \in FreeSlots \cup {0}
  BY <1>2, <1>4 DEF IsChain
<1>6. ASSUME NEW k \in FreeSlots
      PROVE /\ slots[k].next \in FreeSlots \cup {0}
            /\ slots[k].next = registryfree => registryfree = 0
            /\ \A j \in FreeSlots : slots[j].next = slots[k].next => j = k \/ slots[k].next = 0
  <2>1. PICK i \in 1 .. n : s[i] = k
    BY <1>2, <1>4 DEF IsChain
  <2>2. slots[k].next = IF i = n THEN 0 ELSE s[i + 1]
    BY <1>4, <2>1 DEF IsChain
  <2>3. i # n => i + 1 \in 1 .. n /\ s[i + 1] \in FreeSlots /\ i + 1 # 1
    BY <1>2, <1>4 DEF IsChain
  <2>4. slots[k].next \in FreeSlots \cup {0}
    BY <2>2, <2>3
  <2>5. slots[k].next = registryfree => registryfree = 0
    BY <1>2, <1>4, <2>2, <2>3 DEF IsChain
  <2>6. ASSUME NEW j \in FreeSlots, slots[j].next = slots[k].next PROVE j = k \/ slots[k].next = 0
    <3>1. PICK m \in 1 .. n : s[m] = j
      BY <1>2, <1>4 DEF IsChain
    <3>2. slots[j].next = IF m = n THEN 0 ELSE s[m + 1]
      BY <1>4, <3>1 DEF IsChain
    <3>3. CASE i = n \/ m = n
      BY <2>2, <2>6, <3>2, <3>3
    <3>4. CASE i # n /\ m # n
      <4>1. s[i + 1] = s[m + 1] /\ i + 1 \in 1 .. n /\ m + 1 \in 1 .. n
        BY <2>2, <2>6, <3>2, <3>4
      <4>2. i + 1 = m + 1
        BY <1>4, <4>1 DEF IsChain
      <4> QED BY <2>1, <3>1, <4>2
    <3> QED BY <3>3, <3>4
  <2> QED BY <2>4, <2>5, <2>6
<1> QED BY <1>5, <1>6
-----------------------------------------------------------------------------
(* The theorems.                                                            *)

(* Whatever the faults, the registry, the objects and the threads keep their *)
(* types: every index that lua_ref and lua_unref use is one of a slot.       *)
THEOREM RegistryTypes == Spec => []TypeOK
<1>1. Types => TypeOK
  BY DEF Types
<1> QED BY <1>1, TypesInit, TypesNext, PTL DEF Spec

(* While the finalizer stays out of the program's way, the invariant holds. *)
THEOREM CalmKept == ASSUME "overlap" \notin Faults PROVE Spec => [](Types /\ Calm)
<1>1. Init => Types /\ Calm
  BY TypesInit, CalmInit
<1>2. Types /\ Calm /\ [Next]_vars => (Types /\ Calm)'
  BY TypesNext, CalmNext
<1> QED BY <1>1, <1>2, PTL DEF Spec

(* An open reference gives back the value it was made for, for any number of *)
(* references, values and slots, closed too late or not.                     *)
THEOREM ReferencesKept == ASSUME "overlap" \notin Faults PROVE Spec => []RefsHoldTheirValue
<1>1. Types /\ Calm => RefsHoldTheirValue
  BY PushedIsVal DEF RefsHoldTheirValue
<1> QED BY <1>1, CalmKept, PTL

(* No two open references share a slot. *)
THEOREM SlotsDistinct == ASSUME "overlap" \notin Faults PROVE Spec => []NoAliasing
<1>1. Calm => NoAliasing
  BY DEF Calm, RefsRight, NoAliasing, Open, Counts, RefNil
<1> QED BY <1>1, CalmKept, PTL

(* The registry grows only while every slot in it is in use. *)
THEOREM SlotsReused == ASSUME "overlap" \notin Faults PROVE Spec => NoSlotWasted
<1>1. Types /\ Calm /\ [Next]_vars => [Len(slots') > Len(slots) => FreeSlots = {}]_slots
  BY Grows
<1> QED BY <1>1, CalmKept, PTL DEF Spec, NoSlotWasted

(* If every reference is closed before the engine, the freed VM is not used. *)
THEOREM ClosedLast == ASSUME "overlap" \notin Faults PROVE Spec => []NoUseAfterClose
<1>1. Calm => NoUseAfterClose
  BY DEF Calm, EngineRight, NoUseAfterClose
<1> QED BY <1>1, CalmKept, PTL

(* The free list is one chain, through exactly the free slots. *)
THEOREM FreeListSound == ASSUME "overlap" \notin Faults PROVE Spec => []LinksSound
<1>1. Types /\ Calm => LinksSound
  BY ChainIsSound DEF LinksSound
<1> QED BY <1>1, CalmKept, PTL
=============================================================================
