--------------------------- MODULE BoundaryProofs ---------------------------
(***************************************************************************)
(* Boundary keeps its types, its jump buffers and its frames in order, for *)
(* every depth of nesting and every size of the stack: one lemma for each  *)
(* action, the invariance of IInv, and the properties that follow from it. *)
(*                                                                         *)
(* Then what a request tells Kotlin: as long as no exception escapes, no   *)
(* metamethod raises, every status is read and barriers have the memory    *)
(* they need, a request throws exactly if it failed, what it pops is the   *)
(* message, and nothing reads a frame or a slot that is not its own.       *)
(*                                                                         *)
(* Last, the error handlers: each one on the value stack is that of an     *)
(* open nativeCall and lies right below the function of that call, for     *)
(* every depth of nesting, as long as no exception escapes from a callback. *)
(***************************************************************************)
EXTENDS BoundaryLemmas

(* What mode may hold. *)
Modes == {"run", "undefined", "jumped", "aborted"}

(* The base of the running Kotlin code, and its place among the frames. *)
LEMMA KotlinFacts ==
  ASSUME IInv, KotlinRuns
  PROVE  /\ Ordered(native, ci, nCcalls, stack)
         /\ Linked(native, errorjmp)
         /\ InKotlin(native)
         /\ stack \in Seq(Slot) /\ ci \in Seq(Nat) /\ native \in Seq(Frame)
         /\ Len(stack) \in Nat /\ Len(ci) \in Nat /\ Len(native) \in Nat
         /\ Len(ci) \in 1 .. Len(ci)
         /\ Base \in Nat /\ Base = ci[Len(ci)]
         /\ GetTop \in Int /\ Len(stack) = Base + GetTop
<1>1. /\ Ordered(native, ci, nCcalls, stack)
      /\ Linked(native, errorjmp)
      /\ stack \in Seq(Slot) /\ ci \in Seq(Nat) /\ native \in Seq(Frame)
  BY DEF IInv, TypeOK, KotlinRuns
<1>2. InKotlin(native)
  BY DEF KotlinRuns, AtKotlin, InKotlin, IsCallback, Top
<1>3. Len(stack) \in Nat /\ Len(ci) \in Nat /\ Len(native) \in Nat
  BY <1>1, LenProperties
<1>4. Len(ci) \in 1 .. Len(ci)
  BY <1>1, <1>3 DEF Ordered, Rising
<1>5. Base \in Nat /\ Base = ci[Len(ci)]
  BY <1>1, <1>4, ElementOfSeq DEF Base, Last
<1>6. GetTop \in Int /\ Len(stack) = Base + GetTop
  BY ONLY <1>3, <1>5 DEF GetTop
<1> QED  BY <1>1, <1>2, <1>3, <1>4, <1>5, <1>6

(* Kotlin code changes nothing but its own stack and the two cells. *)
LEMMA LocalOk ==
  ASSUME IInv, KotlinRuns,
         stack' \in Seq(Slot), lastStatus' \in Statuses, pending' \in BOOLEAN,
         outcome' \in Outcome, mode' \in Modes,
         mode' = "run" => Len(stack') >= Len(stack) \/ Len(stack') >= Base,
         UNCHANGED <<ci, nCcalls, native, errorjmp>>
  PROVE  IInv'
<1>1. TypeOK'
  BY DEF IInv, TypeOK, Modes
<1>2. Linked(native', errorjmp')
  BY DEF IInv
<1>3. mode' = "run" => Ordered(native', ci', nCcalls', stack')
  BY KotlinFacts, OrderedLocal
<1> QED  BY <1>1, <1>2, <1>3 DEF IInv

(* A list of results that is cut or filled up is still one. *)
LEMMA AdjustOk ==
  ASSUME NEW vals \in Seq(Slot), NEW n \in Int, n >= -1
  PROVE  /\ Adjust(vals, n) \in Seq(Slot)
         /\ n # -1 => Len(Adjust(vals, n)) = n
<1>1. CASE n = -1
  BY <1>1 DEF Adjust, MULTRET
<1>2. CASE n # -1
  <2>1. n \in Nat
    BY <1>2
  <2>2. \A i \in 1 .. n : (IF i <= Len(vals) THEN vals[i] ELSE Plain) \in Slot
    BY <2>1, ElementOfSeq, LenProperties DEF Slot, Val
  <2>3. Adjust(vals, n) = [i \in 1 .. n |-> IF i <= Len(vals) THEN vals[i] ELSE Plain]
    BY <1>2 DEF Adjust, MULTRET
  <2> QED  BY <2>1, <2>2, <2>3
<1> QED  BY <1>1, <1>2

(* A request that ends gives Kotlin a typed outcome, and takes nothing from  *)
(* below the base.                                                           *)
LEMMA ConcludeOk ==
  ASSUME NEW s \in Seq(Slot), NEW last \in Statuses, NEW res \in Statuses,
         NEW status \in Statuses, Base \in Nat,
         Conclude(s, last, res, status)
  PROVE  /\ stack' \in Seq(Slot) /\ lastStatus' \in Statuses /\ pending' \in BOOLEAN
         /\ outcome' \in Outcome /\ mode' \in Modes
         /\ mode' = "run" => Len(stack') >= Len(s) \/ Len(stack') >= Base
<1> DEFINE thrown == Thrown(last, res)
<1>1. thrown \in {"none", "lua", "kotlin"}
  BY DEF Thrown
<1>2. Popped(s, thrown) \in {"nothing", "message", "value"}
  BY DEF Popped
<1>3. /\ pending' = FALSE
      /\ outcome' = [thrown |-> thrown, status |-> status, popped |-> Popped(s, thrown)]
      /\ stack' = IF thrown = "lua" THEN Front(s) ELSE s
      /\ lastStatus' = IF thrown = "lua" THEN OK ELSE last
      /\ mode' = IF thrown = "lua" /\ Len(s) <= Base THEN "undefined" ELSE "run"
  BY DEF Conclude, ConcludeWith
<1> HIDE DEF thrown
<1>4. Front(s) \in Seq(Slot) /\ Len(s) \in Nat /\ Len(Front(s)) = IF s = <<>> THEN 0 ELSE Len(s) - 1
  BY FrontOk, LenProperties
<1>5. outcome' \in Outcome
  BY <1>1, <1>2, <1>3 DEF Outcome
<1>6. mode' = "run" => Len(stack') >= Len(s) \/ Len(stack') >= Base
  <2>1. CASE thrown = "lua"
    <3> SUFFICES ASSUME mode' = "run"
                 PROVE  Len(stack') >= Base
      OBVIOUS
    <3>1. ~(Len(s) <= Base)
      BY <1>3, <2>1
    <3>2. Len(s) # 0
      BY <1>4, <3>1
    <3>3. s # <<>>
      BY <3>2, EmptySeq
    <3> QED  BY <1>3, <1>4, <2>1, <3>1, <3>3
  <2>2. CASE thrown # "lua"
    BY <1>3, <1>4, <2>2
  <2> QED  BY <2>1, <2>2
<1>7. lastStatus' \in Statuses
  BY <1>3 DEF Statuses
<1> QED  BY <1>3, <1>4, <1>5, <1>6, <1>7 DEF Modes

(* The operations on Kotlin's own stack keep the invariant. *)
LEMMA LocalStep ==
  ASSUME IInv, NEW s \in Seq(Slot), Local(s), Len(s) >= Len(stack) \/ Len(s) >= Base
  PROVE  IInv'
<1>1. /\ lastStatus' \in Statuses /\ pending' \in BOOLEAN
      /\ outcome' \in Outcome /\ mode' \in Modes
  BY DEF IInv, TypeOK, Local, Modes
<1>2. /\ KotlinRuns /\ stack' = s
      /\ UNCHANGED <<ci, nCcalls, native, errorjmp>>
  BY DEF Local
<1> QED  BY <1>1, <1>2, LocalOk

(* So do the two operations whose status Kotlin does not read. *)
LEMMA StackStep ==
  ASSUME IInv,
         \/ \E v \in Val : Push(v) \/ UncheckedPush(v)
         \/ PushFunction
         \/ \E i \in 1 .. GetTop : PushValue(i) \/ RemoveSlot(i) \/ InsertSlot(i) \/ ReplaceSlot(i)
         \/ \E n \in 0 .. MaxStack : SetTop(n)
         \/ \E status \in {OK, ERRRUN} : SetMetaTable(status)
  PROVE  IInv'
<1>1. KotlinRuns
  BY DEF Push, UncheckedPush, PushFunction, PushValue, RemoveSlot, InsertSlot, ReplaceSlot,
         SetTop, SetMetaTable, Local
<1>2. /\ stack \in Seq(Slot) /\ Len(stack) \in Nat
      /\ Base \in Nat /\ GetTop \in Int /\ Len(stack) = Base + GetTop
  BY <1>1, KotlinFacts
<1>3. \A v \in Slot : Append(stack, v) \in Seq(Slot) /\ Len(Append(stack, v)) = Len(stack) + 1
  BY <1>2, AppendProperties
<1>4. \A i \in 1 .. GetTop : Base + i \in 1 .. Len(stack)
  BY <1>2
<1>5. \A i \in 1 .. Len(stack) : stack[i] \in Slot
  BY <1>2, ElementOfSeq
<1>6. ASSUME GetTop >= 1
      PROVE  /\ Last(stack) \in Slot
             /\ Front(stack) \in Seq(Slot)
             /\ Len(Front(stack)) = Len(stack) - 1
  <2>1. Len(stack) \in 1 .. Len(stack)
    BY <1>2, <1>6
  <2>2. Last(stack) \in Slot
    BY <1>5, <2>1 DEF Last
  <2>3. stack # <<>>
    BY <2>1
  <2> QED  BY <1>2, <2>2, <2>3, FrontOk
<1>0. ASSUME NEW v \in Slot, Local(Append(stack, v))
      PROVE  IInv'
  <2> DEFINE s == Append(stack, v)
  <2>1. s \in Seq(Slot) /\ Len(s) >= Len(stack)
    BY <1>2, <1>3
  <2>2. Local(s)
    BY <1>0
  <2> HIDE DEF s
  <2> QED  BY <2>1, <2>2, LocalStep
<1>7. ASSUME NEW v \in Val, Push(v)
      PROVE  IInv'
  BY <1>0, <1>7 DEF Push, Slot
<1>8. ASSUME NEW v \in Val, UncheckedPush(v)
      PROVE  IInv'
  <2>1. stack' \in Seq(Slot) /\ (Len(stack') = Len(stack) + 1 \/ stack' = stack)
    BY <1>2, <1>3, <1>8 DEF UncheckedPush, Slot
  <2>3. Len(stack') >= Len(stack)
    BY <1>2, <2>1
  <2>4. UNCHANGED <<ci, nCcalls, native, errorjmp>>
    BY <1>8 DEF UncheckedPush
  <2>2. /\ lastStatus' \in Statuses /\ pending' \in BOOLEAN
        /\ outcome' \in Outcome /\ mode' \in Modes
    BY <1>8 DEF UncheckedPush, IInv, TypeOK, Modes, Statuses
  <2> QED  BY <1>1, <1>2, <2>1, <2>2, <2>3, <2>4, LocalOk
<1>9. CASE PushFunction
  <2>1. Fn \in Slot
    BY DEF Slot, Val
  <2> QED  BY <1>0, <1>9, <2>1 DEF PushFunction
<1>10. ASSUME NEW i \in 1 .. GetTop, PushValue(i)
       PROVE  IInv'
  <2>1. stack[Base + i] \in Slot
    BY <1>4, <1>5
  <2> QED  BY <1>0, <1>10, <2>1 DEF PushValue
<1>11. ASSUME NEW i \in 1 .. GetTop, RemoveSlot(i)
       PROVE  IInv'
  <2>1. /\ RemoveAt(stack, Base + i) \in Seq(Slot)
        /\ Len(RemoveAt(stack, Base + i)) = Len(stack) - 1
    BY <1>2, <1>4, RemoveAtOk
  <2>2. Len(RemoveAt(stack, Base + i)) >= Base
    BY <1>2, <2>1
  <2> QED  BY <1>11, <2>1, <2>2, LocalStep DEF RemoveSlot
<1>12. ASSUME NEW i \in 1 .. GetTop, InsertSlot(i)
       PROVE  IInv'
  <2> DEFINE s == InsertAt(Front(stack), Base + i, Last(stack))
  <2>1. GetTop >= 1
    BY <1>2
  <2>2. Base + i \in 1 .. Len(Front(stack)) + 1
    BY <1>2, <1>4, <1>6, <2>1
  <2>3. s \in Seq(Slot) /\ Len(s) = Len(Front(stack)) + 1
    BY <1>6, <2>1, <2>2, InsertAtOk
  <2>4. Local(s)
    BY <1>12 DEF InsertSlot
  <2> HIDE DEF s
  <2>5. Len(s) >= Base
    BY <1>2, <1>6, <2>1, <2>3
  <2> QED  BY <2>3, <2>4, <2>5, LocalStep
<1>13. ASSUME NEW i \in 1 .. GetTop, ReplaceSlot(i)
       PROVE  IInv'
  <2> DEFINE r == ReplaceAt(stack, Base + i, Last(stack))
  <2>1. GetTop >= 1
    BY <1>2
  <2>2. r \in Seq(Slot) /\ Len(r) = Len(stack)
    <3>1. Base + i \in 1 .. Len(stack) /\ Last(stack) \in Slot
      BY <1>4, <1>6, <2>1
    <3>2. \A j \in 1 .. Len(stack), e \in Slot :
            ReplaceAt(stack, j, e) \in Seq(Slot) /\ Len(ReplaceAt(stack, j, e)) = Len(stack)
      <4>1. \A t \in Seq(Slot) : \A j \in 1 .. Len(t), e \in Slot :
              ReplaceAt(t, j, e) \in Seq(Slot) /\ Len(ReplaceAt(t, j, e)) = Len(t)
        BY ONLY ReplaceAtOk
      <4> QED  BY <1>2, <4>1
    <3> QED  BY <3>1, <3>2
  <2>3. Local(Front(r))
    BY <1>13 DEF ReplaceSlot
  <2> HIDE DEF r
  <2>4. Front(r) \in Seq(Slot) /\ Len(Front(r)) = IF r = <<>> THEN 0 ELSE Len(r) - 1
    BY <2>2, FrontOk
  <2>5. r # <<>>
    BY <1>2, <2>1, <2>2
  <2>6. Len(Front(r)) >= Base
    BY <1>2, <2>1, <2>2, <2>4, <2>5
  <2> QED  BY <2>3, <2>4, <2>6, LocalStep
<1>14. ASSUME NEW n \in 0 .. MaxStack, SetTop(n)
       PROVE  IInv'
  <2>1. Base + n \in Nat
    BY <1>2
  <2>2. Adjust(stack, Base + n) \in Seq(Slot) /\ Len(Adjust(stack, Base + n)) = Base + n
    <3> DEFINE m == Base + n
    <3>1. m \in Int /\ m >= -1 /\ m # -1
      BY <2>1
    <3> HIDE DEF m
    <3>2. Adjust(stack, m) \in Seq(Slot) /\ Len(Adjust(stack, m)) = m
      BY <1>2, <3>1, AdjustOk
    <3> QED  BY <3>2 DEF m
  <2>3. Len(Adjust(stack, Base + n)) >= Base
    BY <1>2, <2>2
  <2> QED  BY <1>14, <2>2, <2>3, LocalStep DEF SetTop
<1>15. ASSUME NEW status \in {OK, ERRRUN}, SetMetaTable(status)
       PROVE  IInv'
  <2>1. /\ GetTop >= 1
        /\ stack' = Front(stack) \/ stack' = Append(stack, Message)
        /\ UNCHANGED <<ci, nCcalls, native, errorjmp>>
    BY <1>15 DEF SetMetaTable
  <2>2. Message \in Slot
    BY DEF Slot
  <2>3. stack' \in Seq(Slot) /\ Len(stack') >= Base
    BY <1>2, <1>3, <1>6, <2>1, <2>2
  <2>4. /\ lastStatus' \in Statuses /\ pending' \in BOOLEAN
        /\ outcome' \in Outcome /\ mode' \in Modes
    BY <1>15 DEF SetMetaTable, IInv, TypeOK, Modes, Statuses
  <2> QED  BY <1>1, <2>1, <2>3, <2>4, LocalOk
<1> QED  BY <1>7, <1>8, <1>9, <1>10, <1>11, <1>12, <1>13, <1>14, <1>15

(* An operation behind a barrier that ends within its native call. *)
LEMMA CheckedStep ==
  ASSUME IInv, NEW op \in CheckedOps, NEW v \in Val, NEW status \in Statuses,
         CheckedOp(op, v, status)
  PROVE  IInv'
<1>1. KotlinRuns /\ GetTop >= op.pops /\ UNCHANGED <<ci, nCcalls, native, errorjmp>>
  BY DEF CheckedOp
<1>2. /\ stack \in Seq(Slot) /\ Len(stack) \in Nat
      /\ Base \in Nat /\ GetTop \in Int /\ Len(stack) = Base + GetTop
  BY <1>1, KotlinFacts
<1>3. op.pops \in 0 .. 2 /\ op.pushes \in 0 .. 1
  BY DEF CheckedOps
<1>4. PICK s \in Seq(Slot), last \in Statuses :
        (Len(s) >= Base \/ Len(s) >= Len(stack)) /\ Conclude(s, last, OK, status)
  <2>1. OK \in Statuses /\ ERRRUN \in Statuses /\ ERRMEM \in Statuses
    BY DEF Statuses
  <2>2. CASE status = OK
    <3> DEFINE rest    == SubSeq(stack, 1, Len(stack) - op.pops)
               results == Adjust(<<v>>, op.pushes)
    <3>1. rest \in Seq(Slot) /\ Len(rest) = Len(stack) - op.pops
      <4> DEFINE k == Len(stack) - op.pops
      <4>1. k \in Int /\ k <= Len(stack) /\ k >= 0
        BY <1>1, <1>2, <1>3
      <4> HIDE DEF k
      <4>2. SubSeq(stack, 1, k) \in Seq(Slot) /\ Len(SubSeq(stack, 1, k)) = IF 1 <= k THEN k - 1 + 1 ELSE 0
        BY <1>2, <4>1, SubSeqOk
      <4>3. Len(SubSeq(stack, 1, k)) = k
        BY <4>1, <4>2
      <4> QED  BY <4>2, <4>3 DEF k
    <3>2. results \in Seq(Slot)
      <4>1. <<v>> \in Seq(Slot)
        BY DEF Slot
      <4>2. op.pushes \in Int /\ op.pushes >= -1
        BY <1>3
      <4> QED  BY <4>1, <4>2, AdjustOk
    <3>3. Conclude(rest \o results, OK, OK, OK)
      BY <2>2 DEF CheckedOp, OK, ERRRUN, ERRMEM
    <3> HIDE DEF rest, results
    <3>4. rest \o results \in Seq(Slot) /\ Len(rest \o results) = Len(rest) + Len(results)
      BY <3>1, <3>2, ConcatProperties
    <3>5. Len(rest \o results) >= Base
      <4>1. Len(results) \in Nat
        BY <3>2, LenProperties
      <4> QED  BY <1>1, <1>2, <1>3, <3>1, <3>4, <4>1
    <3> QED  BY <2>1, <2>2, <3>3, <3>4, <3>5
  <2>3. CASE status = ERRRUN
    <3>1. Append(stack, Message) \in Seq(Slot) /\ Len(Append(stack, Message)) = Len(stack) + 1
      BY <1>2, AppendProperties DEF Slot
    <3>2. Conclude(Append(stack, Message), ERRRUN, OK, ERRRUN)
      BY <2>3 DEF CheckedOp, OK, ERRRUN, ERRMEM
    <3>3. Len(Append(stack, Message)) >= Len(stack)
      BY <1>2, <3>1
    <3> QED  BY <2>1, <2>3, <3>1, <3>2, <3>3
  <2>4. CASE status = ERRMEM
    <3>1. Conclude(stack, ERRMEM, OK, ERRMEM)
      BY <2>4 DEF CheckedOp, OK, ERRRUN, ERRMEM
    <3>2. Len(stack) >= Len(stack)
      BY <1>2
    <3> QED  BY <1>2, <2>1, <2>4, <3>1, <3>2
  <2>5. status = OK \/ status = ERRRUN \/ status = ERRMEM
    BY DEF CheckedOp
  <2> QED  BY <2>2, <2>3, <2>4, <2>5
<1>5. OK \in Statuses
  BY DEF Statuses
<1>6. /\ stack' \in Seq(Slot) /\ lastStatus' \in Statuses /\ pending' \in BOOLEAN
      /\ outcome' \in Outcome /\ mode' \in Modes
      /\ mode' = "run" => Len(stack') >= Len(s) \/ Len(stack') >= Base
  BY <1>2, <1>4, <1>5, ConcludeOk
<1>7. mode' = "run" => Len(stack') >= Len(stack) \/ Len(stack') >= Base
  <2>1. Len(s) \in Nat /\ Len(stack') \in Nat
    BY <1>4, <1>6, LenProperties
  <2> QED  BY <1>2, <1>4, <1>6, <2>1
<1> QED  BY <1>1, <1>6, <1>7, LocalOk

(* A request of Kotlin enters the VM through a new guard. *)
LEMMA RequestOk ==
  ASSUME IInv, KotlinRuns,
         NEW f \in Frame, ~IsCallback(f), f.prev = errorjmp,
         f.ci = Len(ci), f.nCcalls = nCcalls, f.phase = "enter",
         f.func > Base + f.pops,
         f.kind = "call" => f.errfunc >= 1 /\ f.func = Base + f.errfunc + 1,
         f.kind = "barrier" => nCcalls + 1 < MaxCCalls /\ stack'[f.func] = Fn,
         stack' \in Seq(Slot), f.func <= Len(stack'),
         native' = Append(native, f), errorjmp' = Len(native) + 1, nCcalls' = nCcalls + 1,
         UNCHANGED <<ci, lastStatus, pending, outcome, mode>>
  PROVE  IInv'
<1>1. /\ Ordered(native, ci, nCcalls, stack)
      /\ Linked(native, errorjmp)
      /\ InKotlin(native)
      /\ native \in Seq(Frame) /\ Len(native) \in Nat
      /\ Base = ci[Len(ci)]
  BY KotlinFacts
<1>2. nCcalls \in Nat
  BY DEF IInv, TypeOK
<1>3. Linked(native', errorjmp')
  <2>1. IsCallback(f) <=> native # <<>> /\ ~IsCallback(native[Len(native)])
    BY <1>1 DEF InKotlin
  <2> QED  BY <1>1, <2>1, LinkedPush
<1>4. Ordered(native', ci', nCcalls', stack')
  <2>1. Ordered(Append(native, f), ci, nCcalls + 1, stack')
    BY <1>1, <1>2, OrderedRequest
  <2> QED  BY <2>1
<1>5. TypeOK'
  <2>1. native' \in Seq(Frame)
    BY <1>1, AppendProperties
  <2>2. errorjmp' \in Nat /\ nCcalls' \in Nat
    BY <1>1, <1>2
  <2> QED  BY <2>1, <2>2 DEF IInv, TypeOK
<1> QED  BY <1>3, <1>4, <1>5 DEF IInv

(* A checked operation that calls a metamethod keeps the invariant. *)
LEMMA MetamethodStep ==
  ASSUME IInv, NEW op \in CheckedOps, OpCallsMetamethod(op)
  PROVE  IInv'
<1>1. /\ KotlinRuns /\ GetTop >= op.pops /\ nCcalls + 1 < MaxCCalls
      /\ stack' = Append(stack, Fn) \o [i \in 1 .. op.operands |-> Plain]
      /\ native' = Append(native, NativeFrame("barrier", Len(stack) + 1, op.pops, op.pushes, 0))
      /\ errorjmp' = Len(native) + 1
      /\ nCcalls' = nCcalls + 1
      /\ UNCHANGED <<ci, lastStatus, pending, outcome, mode>>
  BY DEF OpCallsMetamethod
<1>2. /\ stack \in Seq(Slot) /\ Len(stack) \in Nat /\ Len(ci) \in Nat
      /\ Base \in Nat /\ GetTop \in Int /\ Len(stack) = Base + GetTop
  BY <1>1, KotlinFacts
<1>3. op.pops \in 0 .. 2 /\ op.pushes \in 0 .. 1 /\ op.operands \in {2, 3}
  BY DEF CheckedOps
<1> DEFINE f    == NativeFrame("barrier", Len(stack) + 1, op.pops, op.pushes, 0)
           most == Append(stack, Fn)
           args == [i \in 1 .. op.operands |-> Plain]
<1>4. /\ f.kind = "barrier" /\ f.prev = errorjmp /\ f.ci = Len(ci) /\ f.nCcalls = nCcalls
      /\ f.phase = "enter" /\ f.func = Len(stack) + 1 /\ f.pops = op.pops
  BY DEF NativeFrame, NativeFrameFor
<1>5. f \in Frame
  <2>1. nCcalls \in Nat /\ errorjmp \in Nat
    BY DEF IInv, TypeOK
  <2>2. op.pushes \in ResultCounts /\ OK \in Statuses
    BY <1>3 DEF ResultCounts, Statuses
  <2>3. Len(stack) + 1 \in Nat
    BY <1>2
  <2> QED  BY <1>2, <1>3, <2>1, <2>2, <2>3 DEF NativeFrame, NativeFrameFor, Frame
<1>6. most \in Seq(Slot) /\ Len(most) = Len(stack) + 1 /\ most[Len(stack) + 1] = Fn
  BY <1>2, AppendProperties DEF Slot, Val
<1>7. args \in Seq(Slot) /\ Len(args) = op.operands
  BY <1>3 DEF Slot, Val
<1>8. /\ stack' \in Seq(Slot)
      /\ Len(stack') = Len(stack) + 1 + op.operands
      /\ stack'[Len(stack) + 1] = Fn
  <2>1. stack' = most \o args
    BY <1>1
  <2> HIDE DEF most, args
  <2>2. /\ most \o args \in Seq(Slot)
        /\ Len(most \o args) = Len(most) + Len(args)
        /\ \A i \in 1 .. Len(most) + Len(args) :
             (most \o args)[i] = IF i <= Len(most) THEN most[i] ELSE args[i - Len(most)]
    BY <1>6, <1>7, ConcatProperties
  <2>3. Len(stack) + 1 \in 1 .. Len(most) + Len(args) /\ Len(stack) + 1 <= Len(most)
    BY <1>2, <1>3, <1>6, <1>7
  <2> QED  BY <1>6, <1>7, <2>1, <2>2, <2>3
<1> HIDE DEF f, most, args
<1>9. native' = Append(native, f)
  BY <1>1 DEF f
<1>10. f.func > Base + f.pops /\ f.func <= Len(stack') /\ stack'[f.func] = Fn
  <2>1. GetTop >= op.pops
    BY <1>1
  <2>2. Len(stack) + 1 > Base + op.pops
    BY <1>2, <1>3, <2>1
  <2>3. Len(stack) + 1 <= Len(stack')
    BY <1>2, <1>3, <1>8
  <2> QED  BY <1>4, <1>8, <2>2, <2>3
<1> QED  BY <1>1, <1>4, <1>5, <1>8, <1>9, <1>10, RequestOk DEF IsCallback

(* nativeCall keeps it. *)
LEMMA CallStep ==
  ASSUME IInv, NEW nargs \in 0 .. GetTop - 1, NEW nresults \in ResultCounts,
         NativeCall(nargs, nresults)
  PROVE  IInv'
<1> DEFINE errfunc == GetTop + 1 - nargs - 1
           handler == Base + errfunc
           f == NativeFrame("call", handler + 1, 0, nresults, errfunc)
<1>1. /\ KotlinRuns /\ GetTop >= nargs + 1
      /\ stack' = InsertAt(stack, handler, Handler)
      /\ native' = Append(native, f)
      /\ errorjmp' = Len(native) + 1
      /\ nCcalls' = nCcalls + 1
      /\ UNCHANGED <<ci, lastStatus, pending, outcome, mode>>
  BY DEF NativeCall, NativeCallTo
<1>2. /\ stack \in Seq(Slot) /\ Len(stack) \in Nat /\ Len(ci) \in Nat
      /\ Base \in Nat /\ GetTop \in Int /\ Len(stack) = Base + GetTop
  BY <1>1, KotlinFacts
<1>3. /\ errfunc \in Nat /\ errfunc >= 1
      /\ handler \in 1 .. Len(stack) + 1 /\ handler \in Nat /\ handler + 1 <= Len(stack) + 1
      /\ handler + 1 = Base + errfunc + 1 /\ handler + 1 > Base + 0
  <2>1. nargs \in Nat /\ GetTop >= nargs + 1
    BY <1>1, <1>2
  <2>2. errfunc = GetTop - nargs
    BY <1>2, <2>1
  <2> HIDE DEF errfunc
  <2> QED  BY <1>2, <2>1, <2>2
<1>4. /\ f.kind = "call" /\ f.prev = errorjmp /\ f.ci = Len(ci) /\ f.nCcalls = nCcalls
      /\ f.phase = "enter" /\ f.func = handler + 1 /\ f.pops = 0 /\ f.errfunc = errfunc
  BY DEF NativeFrame, NativeFrameFor
<1>5. f \in Frame
  <2>1. nCcalls \in Nat /\ errorjmp \in Nat
    BY DEF IInv, TypeOK
  <2>2. OK \in Statuses
    BY DEF Statuses
  <2>3. errfunc \in Int /\ handler + 1 \in Nat /\ 0 \in 0 .. 2
    BY <1>3
  <2> HIDE DEF errfunc, handler
  <2> QED  BY <1>2, <2>1, <2>2, <2>3 DEF NativeFrame, NativeFrameFor, Frame
<1> HIDE DEF errfunc, handler, f
<1>6. stack' \in Seq(Slot) /\ Len(stack') = Len(stack) + 1
  <2>1. Handler \in Slot
    BY DEF Slot
  <2> QED  BY <1>1, <1>2, <1>3, <2>1, InsertAtOk
<1>7. /\ f.func > Base + f.pops /\ f.func = Base + f.errfunc + 1 /\ f.errfunc >= 1
      /\ f.func <= Len(stack')
  BY <1>3, <1>4, <1>6
<1>8. ~IsCallback(f) /\ f.kind # "barrier"
  BY <1>4 DEF IsCallback
<1> QED  BY <1>1, <1>4, <1>5, <1>6, <1>7, <1>8, RequestOk
-----------------------------------------------------------------------------
(* The innermost guard while the VM runs. *)
LEMMA VmFacts ==
  ASSUME IInv, NEW phase, VmRuns(phase)
  PROVE  /\ Ordered(native, ci, nCcalls, stack)
         /\ Linked(native, errorjmp)
         /\ native # <<>> /\ native \in Seq(Frame)
         /\ Len(native) \in Nat /\ Len(native) >= 1 /\ Len(native) \in 1 .. Len(native)
         /\ Top = native[Len(native)] /\ Top \in Frame
         /\ ~IsCallback(Top) /\ Top.phase = phase
         /\ errorjmp = Len(native)
         /\ GuardAt(native, ci, Len(native)) /\ AtGuard(native, ci, nCcalls, stack)
         /\ stack \in Seq(Slot) /\ Len(stack) \in Nat
         /\ ci \in Seq(Nat) /\ Len(ci) \in Nat
         /\ nCcalls \in Nat
<1>1. /\ Ordered(native, ci, nCcalls, stack)
      /\ Linked(native, errorjmp)
      /\ native \in Seq(Frame) /\ stack \in Seq(Slot) /\ ci \in Seq(Nat) /\ nCcalls \in Nat
  BY DEF IInv, TypeOK, VmRuns
<1>2. native # <<>> /\ ~IsCallback(Top) /\ Top.phase = phase
  BY DEF VmRuns, AtKotlin, IsCallback
<1>3. /\ Len(native) \in Nat /\ Len(native) >= 1 /\ Len(native) \in 1 .. Len(native)
      /\ Len(stack) \in Nat /\ Len(ci) \in Nat
  BY <1>1, <1>2, LenProperties, EmptySeq
<1>4. Top = native[Len(native)]
  BY DEF Top
<1>5. Top \in Frame
  BY <1>1, <1>3, <1>4, ElementOfSeq
<1>6. errorjmp = Len(native)
  BY <1>1, <1>2, <1>4 DEF Linked
<1>7. GuardAt(native, ci, Len(native)) /\ AtGuard(native, ci, nCcalls, stack)
  BY <1>1, <1>2, <1>3, <1>4 DEF Ordered, Nested
<1> QED  BY <1>1, <1>2, <1>3, <1>4, <1>5, <1>6, <1>7

(* Another phase of a frame. *)
LEMMA RephasedOk ==
  ASSUME NEW g \in Frame, NEW p \in {"enter", "body", "direct", "done"}
  PROVE  [g EXCEPT !.phase = p] \in Frame /\ Rephased([g EXCEPT !.phase = p], g, p)
BY DEF Frame, Rephased

(* The VM enters the Lua function that a guard calls. *)
LEMMA PrecallLuaStep ==
  ASSUME IInv, PrecallLua
  PROVE  IInv'
<1> DEFINE f == [Top EXCEPT !.phase = "body"]
           new == ReplaceAt(native, Len(native), f)
<1>1. /\ VmRuns("enter")
      /\ ci' = Append(ci, Top.func)
      /\ native' = new
      /\ UNCHANGED <<stack, nCcalls, errorjmp, lastStatus, pending, outcome, mode>>
  BY DEF PrecallLua, InPhase
<1>2. /\ Ordered(native, ci, nCcalls, stack)
      /\ Linked(native, errorjmp)
      /\ native # <<>> /\ native \in Seq(Frame)
      /\ Top = native[Len(native)] /\ Top \in Frame
      /\ ~IsCallback(Top) /\ Top.phase = "enter"
      /\ stack \in Seq(Slot) /\ ci \in Seq(Nat)
  BY <1>1, VmFacts
<1>3. f \in Frame /\ Rephased(f, Top, "body")
  BY <1>2, RephasedOk
<1> HIDE DEF f
<1>4. f.kind = Top.kind /\ f.prev = Top.prev /\ f.func = Top.func /\ f.func \in Nat
  <2>1. f.func \in Nat
    BY <1>3 DEF Frame
  <2> QED  BY <1>3, <2>1 DEF Rephased
<1>5. Linked(new, errorjmp)
  BY <1>2, <1>3, <1>4, LinkedTouch
<1>6. Ordered(new, Append(ci, f.func), nCcalls, stack)
  BY <1>2, <1>3, OrderedEnterLua
<1>7. new \in Seq(Frame)
  BY <1>5 DEF Linked
<1>8. Append(ci, f.func) \in Seq(Nat)
  BY <1>2, <1>4, AppendProperties
<1> HIDE DEF new
<1>9. TypeOK'
  BY <1>1, <1>4, <1>7, <1>8 DEF IInv, TypeOK
<1> QED  BY <1>1, <1>4, <1>5, <1>6, <1>9 DEF IInv

(* The VM enters a callback of a guard that is now in phase p. *)
LEMMA CallbackOk ==
  ASSUME IInv, NEW p \in {"direct", "body"},
         VmRuns(IF p = "direct" THEN "enter" ELSE "body"),
         NEW f \in Frame, Rephased(f, Top, p),
         NEW k \in Nat, IF p = "direct" THEN k = f.func ELSE k = Len(stack) + 1,
         stack' \in Seq(Slot), k <= Len(stack'),
         ci' = Append(ci, k),
         native' = Append(ReplaceAt(native, Len(native), f), CallbackFrame),
         UNCHANGED <<nCcalls, errorjmp, lastStatus, pending, outcome, mode>>
  PROVE  IInv'
<1> DEFINE mid == ReplaceAt(native, Len(native), f)
           g   == CallbackFrame
<1>1. /\ Ordered(native, ci, nCcalls, stack)
      /\ Linked(native, errorjmp)
      /\ native # <<>> /\ native \in Seq(Frame)
      /\ Top = native[Len(native)] /\ Top \in Frame
      /\ ~IsCallback(Top) /\ Top.phase = IF p = "direct" THEN "enter" ELSE "body"
      /\ stack \in Seq(Slot) /\ ci \in Seq(Nat) /\ Len(ci) \in Nat
      /\ nCcalls \in Nat /\ errorjmp \in Nat
      /\ Len(native) \in 1 .. Len(native)
  <2>1. errorjmp \in Nat
    BY DEF IInv, TypeOK
  <2> QED  BY <2>1, VmFacts
<1>2. g \in Frame /\ IsCallback(g) /\ g.ci = Len(ci) + 1
  <2>1. 0 \in ResultCounts /\ OK \in Statuses /\ 0 \in 0 .. 2 /\ Len(ci) + 1 \in Nat
    BY <1>1 DEF ResultCounts, Statuses
  <2> QED  BY <1>1, <2>1 DEF CallbackFrame, Frame, IsCallback
<1>3. f.kind = Top.kind /\ f.prev = Top.prev
  BY DEF Rephased
<1>4. Linked(mid, errorjmp)
  BY <1>1, <1>3, LinkedTouch
<1>5. mid \in Seq(Frame) /\ Len(mid) = Len(native) /\ mid[Len(native)] = f
  BY <1>1, <1>3, GuardsTouch
<1>6. Ordered(Append(mid, g), Append(ci, k), nCcalls, stack')
  BY <1>1, <1>2, OrderedCallback
<1> HIDE DEF mid, g
<1>7. Linked(Append(mid, g), errorjmp)
  <2>1. mid # <<>> /\ ~IsCallback(mid[Len(mid)])
    BY <1>1, <1>3, <1>5 DEF IsCallback
  <2> QED  BY <1>2, <1>4, <2>1, LinkedPush
<1>8. Append(mid, g) \in Seq(Frame) /\ Append(ci, k) \in Seq(Nat)
  BY <1>1, <1>2, <1>5, AppendProperties
<1>9. native' = Append(mid, g)
  BY DEF mid, g
<1>10. TypeOK'
  BY <1>8, <1>9 DEF IInv, TypeOK
<1> QED  BY <1>6, <1>7, <1>9, <1>10 DEF IInv

(* The VM enters the callback that a guard calls. *)
LEMMA PrecallKotlinStep ==
  ASSUME IInv, PrecallKotlin
  PROVE  IInv'
<1> DEFINE f == [Top EXCEPT !.phase = "direct"]
<1>1. /\ VmRuns("enter")
      /\ ci' = Append(ci, Top.func)
      /\ native' = Append(ReplaceAt(native, Len(native), f), CallbackFrame)
      /\ UNCHANGED <<stack, nCcalls, errorjmp, lastStatus, pending, outcome, mode>>
  BY DEF PrecallKotlin, InPhase
<1>2. /\ Top = native[Len(native)] /\ Top \in Frame /\ Top.phase = "enter" /\ ~IsCallback(Top)
      /\ native # <<>> /\ AtGuard(native, ci, nCcalls, stack)
      /\ stack \in Seq(Slot)
  BY <1>1, VmFacts
<1>3. f \in Frame /\ Rephased(f, Top, "direct")
  BY <1>2, RephasedOk
<1> HIDE DEF f
<1>4. f.func = Top.func /\ f.func \in Nat
  <2>1. f.func \in Nat
    BY <1>3 DEF Frame
  <2> QED  BY <1>3, <2>1 DEF Rephased
<1>5. f.func <= Len(stack)
  BY <1>2, <1>4 DEF AtGuard
<1> QED  BY <1>1, <1>2, <1>3, <1>4, <1>5, CallbackOk

(* Lua code calls a Kotlin callback. *)
LEMMA LuaCallsStep ==
  ASSUME IInv, NEW args \in Seq(Val), LuaCallsKotlin(args)
  PROVE  IInv'
<1>1. /\ VmRuns("body")
      /\ stack' = Append(stack, Fn) \o args
      /\ ci' = Append(ci, Len(stack) + 1)
      /\ native' = Append(native, CallbackFrame)
      /\ UNCHANGED <<nCcalls, errorjmp, lastStatus, pending, outcome, mode>>
  BY DEF LuaCallsKotlin
<1>2. /\ native # <<>> /\ native \in Seq(Frame) /\ Len(native) \in 1 .. Len(native)
      /\ Top = native[Len(native)] /\ Top \in Frame /\ Top.phase = "body"
      /\ stack \in Seq(Slot) /\ Len(stack) \in Nat
  BY <1>1, VmFacts
<1>3. ReplaceAt(native, Len(native), Top) = native
  <2>1. native = [i \in 1 .. Len(native) |-> native[i]]
    BY <1>2, LenProperties, SeqDef
  <2> QED  BY <1>2, <2>1 DEF ReplaceAt
<1>4. stack' \in Seq(Slot) /\ Len(stack) + 1 <= Len(stack')
  <2>1. Append(stack, Fn) \in Seq(Slot) /\ Len(Append(stack, Fn)) = Len(stack) + 1
    BY <1>2, AppendProperties DEF Slot, Val
  <2>2. args \in Seq(Slot) /\ Len(args) \in Nat
    BY LenProperties DEF Slot
  <2>3. /\ Append(stack, Fn) \o args \in Seq(Slot)
        /\ Len(Append(stack, Fn) \o args) = Len(Append(stack, Fn)) + Len(args)
    BY <2>1, <2>2, ConcatProperties
  <2> QED  BY <1>1, <1>2, <2>1, <2>2, <2>3
<1>5. Rephased(Top, Top, "body")
  BY <1>2 DEF Rephased
<1>6. native' = Append(ReplaceAt(native, Len(native), Top), CallbackFrame)
  BY <1>1, <1>3
<1> DEFINE k == Len(stack) + 1
           f == Top
<1>7. k \in Nat /\ k <= Len(stack') /\ ci' = Append(ci, k) /\ k = Len(stack) + 1
  BY <1>1, <1>2, <1>4
<1>8. /\ f \in Frame /\ Rephased(f, Top, "body")
      /\ native' = Append(ReplaceAt(native, Len(native), f), CallbackFrame)
  BY <1>2, <1>5, <1>6
<1> HIDE DEF k, f
<1> QED  BY <1>1, <1>4, <1>7, <1>8, CallbackOk

-----------------------------------------------------------------------------
(* The stack below a slot. *)
LEMMA BelowOk ==
  ASSUME stack \in Seq(Slot), NEW slot \in Nat, slot >= 1, slot <= Len(stack) + 1
  PROVE  Below(slot) \in Seq(Slot) /\ Len(Below(slot)) = slot - 1
<1>1. Len(stack) \in Nat
  BY LenProperties
<1> DEFINE k == slot - 1
<1>2. k \in Int /\ k <= Len(stack) /\ k >= 0
  BY <1>1
<1> HIDE DEF k
<1>3. SubSeq(stack, 1, k) \in Seq(Slot) /\ Len(SubSeq(stack, 1, k)) = IF 1 <= k THEN k - 1 + 1 ELSE 0
  BY <1>2, SubSeqOk
<1>4. Len(SubSeq(stack, 1, k)) = k
  BY <1>2, <1>3
<1> QED  BY <1>3, <1>4 DEF k, Below

(* A call ends at the guard on top of the frames that remain. *)
LEMMA DoneOk ==
  ASSUME IInv, mode = "run",
         NEW frames \in Seq(Frame), frames # <<>>, Linked(frames, errorjmp),
         NEW m \in Nat, m = Len(frames), m <= Len(native),
         \A i \in 1 .. m : frames[i] = native[i],
         ~IsCallback(native[m]),
         NEW status \in Statuses, native' = Completed(frames, status),
         NEW h, Lowered(ci, ci', h), AtLeast(h, native[m].ci),
         AtLeast(nCcalls', Cardinality(GuardsBelow(native, m))), nCcalls' \in Nat,
         stack' \in Seq(Slot), native[m].func <= Len(stack') + 1,
         pending' \in BOOLEAN, mode' \in Modes,
         UNCHANGED <<errorjmp, lastStatus, outcome>>
  PROVE  IInv'
<1> DEFINE g == native[m]
           f == [g EXCEPT !.phase = "done", !.status = status]
           new == Completed(frames, status)
<1>1. m >= 1 /\ m \in 1 .. m /\ frames[m] = g
  <2>1. m >= 1
    BY EmptySeq
  <2> QED  BY <2>1
<1>2. g \in Frame
  BY <1>1, ElementOfSeq
<1>3. f \in Frame /\ Rephased(f, g, "done")
  BY <1>2 DEF Frame, Rephased
<1>4. new = ReplaceAt(frames, m, f)
  BY <1>1 DEF Completed
<1> HIDE DEF g, f, new
<1>5. f.kind = g.kind /\ f.prev = g.prev /\ f.ci = g.ci /\ f.func = g.func
  BY <1>3 DEF Rephased
<1>6. Linked(new, errorjmp)
  BY <1>1, <1>3, <1>4, <1>5, LinkedTouch
<1>7. /\ new \in Seq(Frame)
      /\ Len(new) = m
      /\ \A i \in 1 .. m : new[i] = IF i = m THEN f ELSE frames[i]
  BY <1>1, <1>3, <1>4, <1>5, GuardsTouch
<1>8. Unwound(native, new, m, f)
  <2>1. \A i \in 1 .. m - 1 : i \in 1 .. m /\ i # m
    OBVIOUS
  <2> QED  BY <1>1, <1>7, <2>1 DEF Unwound
<1>9. /\ Ordered(native, ci, nCcalls, stack) /\ Linked(native, errorjmp)
      /\ native \in Seq(Frame)
  BY DEF IInv, TypeOK
<1>10. ~IsCallback(native[m]) /\ Rephased(f, native[m], "done")
  BY <1>3 DEF g
<1>11. AtLeast(h, f.ci) /\ f.func <= Len(stack') + 1
  BY <1>5 DEF g
<1>12. Ordered(new, ci', nCcalls', stack')
  BY <1>1, <1>3, <1>8, <1>9, <1>10, <1>11, OrderedDone
<1>13. TypeOK'
  <2>1. native' \in Seq(Frame) /\ ci' \in Seq(Nat)
    BY <1>7 DEF new, Lowered
  <2> QED  BY <2>1 DEF IInv, TypeOK, Modes
<1> QED  BY <1>6, <1>12, <1>13 DEF new, IInv

(* A raise in the VM lands in its innermost guard. *)
LEMMA RaiseStep ==
  ASSUME IInv, NEW phase \in {"enter", "body"}, VmRuns(phase),
         NEW code \in {ERRRUN, ERRMEM}, Raise(code),
         Top.kind = "call" \/ (~Tight /\ phase = "body"),
         UNCHANGED <<lastStatus, pending, outcome>>
  PROVE  IInv'
<1> DEFINE n == Len(native)
<1>1. /\ Ordered(native, ci, nCcalls, stack)
      /\ Linked(native, errorjmp)
      /\ native # <<>> /\ native \in Seq(Frame)
      /\ n \in Nat /\ n >= 1 /\ n \in 1 .. n
      /\ Top = native[n] /\ Top \in Frame
      /\ ~IsCallback(Top) /\ Top.phase = phase
      /\ errorjmp = n
      /\ GuardAt(native, ci, n) /\ AtGuard(native, ci, nCcalls, stack)
      /\ stack \in Seq(Slot) /\ Len(stack) \in Nat
      /\ ci \in Seq(Nat) /\ Len(ci) \in Nat
      /\ nCcalls \in Nat
  BY VmFacts
<1>2. SubSeq(native, 1, n) = native
  BY <1>1, SubSeqFull
<1>3. errorjmp # 0 /\ ~\E k \in errorjmp + 1 .. n : native[k].kind = "callback"
  BY <1>1
<1>4. Top.ci \in Nat /\ Top.func \in Nat /\ Top.nCcalls \in Nat
  BY <1>1 DEF Frame
<1>5. Top.ci \in 1 .. Len(ci)
  BY <1>1, Heights, Grounded
<1>6. Top.func >= 1 /\ Top.func <= Len(stack)
  <2>1. Top.func > ci[Top.ci] + Top.pops
    BY <1>1 DEF GuardAt
  <2>2. ci[Top.ci] \in Nat
    BY <1>1, <1>5, ElementOfSeq
  <2>3. Top.pops \in 0 .. 2
    BY <1>1 DEF Frame
  <2>4. Top.func <= Len(stack)
    BY <1>1 DEF AtGuard
  <2> QED  BY <1>4, <2>1, <2>2, <2>3, <2>4
<1>7. Cardinality(GuardsBelow(native, n)) \in Nat
  BY <1>1, GuardsFinite
<1>8. mode = "run" /\ mode' = "run" /\ UNCHANGED errorjmp
  BY <1>3, <1>1 DEF Raise, VmRuns
<1>9. Message \in Slot /\ OK \in Statuses /\ code \in Statuses /\ ERRERR \in Statuses
  BY DEF Slot, Statuses
<1>10. CASE Top.kind = "call"
  <2> DEFINE status == IF CStackOverflows(nCcalls + 1) THEN ERRERR ELSE code
  <2>1. /\ stack' = Append(Below(Top.func), Message)
        /\ ci' = SubSeq(ci, 1, Top.ci)
        /\ nCcalls' = Top.nCcalls
        /\ native' = Completed(native, status)
    BY <1>1, <1>2, <1>3, <1>10 DEF Raise
  <2>2. status \in Statuses
    BY <1>9
  <2> HIDE DEF status
  <2>3. Below(Top.func) \in Seq(Slot) /\ Len(Below(Top.func)) = Top.func - 1
    <3> DEFINE slot == Top.func
    <3>1. slot \in Nat /\ slot >= 1 /\ slot <= Len(stack) + 1
      BY <1>1, <1>4, <1>6
    <3> HIDE DEF slot
    <3>2. Below(slot) \in Seq(Slot) /\ Len(Below(slot)) = slot - 1
      BY <1>1, <3>1, BelowOk
    <3> QED  BY <3>2 DEF slot
  <2>4. stack' \in Seq(Slot) /\ Len(stack') = Top.func
    BY <1>4, <1>9, <2>1, <2>3, AppendProperties
  <2>5. Lowered(ci, ci', Top.ci)
    <3>1. /\ SubSeq(ci, 1, Top.ci) \in Seq(Nat)
          /\ Len(SubSeq(ci, 1, Top.ci)) = Top.ci
          /\ \A i \in 1 .. Top.ci : SubSeq(ci, 1, Top.ci)[i] = ci[i]
      BY <1>1, <1>5, SubSeqOk
    <3> QED  BY <1>4, <1>5, <2>1, <3>1 DEF Lowered
  <2>6. AtLeast(Top.ci, native[n].ci)
    BY <1>1, <1>4 DEF AtLeast
  <2>7. AtLeast(nCcalls', Cardinality(GuardsBelow(native, n)))
    BY <1>1, <2>1 DEF GuardAt
  <2>8. native[n].func <= Len(stack') + 1 /\ nCcalls' \in Nat
    BY <1>1, <1>4, <2>1, <2>4
  <2>9. pending' \in BOOLEAN /\ mode' \in Modes
    BY <1>8 DEF IInv, TypeOK, Modes
  <2>10. \A i \in 1 .. n : native[i] = native[i]
    OBVIOUS
  <2> DEFINE h == Top.ci
  <2>11. Lowered(ci, ci', h) /\ AtLeast(h, native[n].ci)
    BY <2>5, <2>6
  <2>12. n <= Len(native) /\ ~IsCallback(native[n])
    BY <1>1
  <2> HIDE DEF h, n
  <2>13. n = Len(native)
    BY DEF n
  <2> QED  BY <1>1, <1>8, <2>1, <2>2, <2>4, <2>7, <2>8, <2>9, <2>11, <2>12, <2>13, DoneOk
<1>11. CASE Top.kind # "call"
  <2>1. /\ stack' = IF code = ERRMEM THEN stack ELSE Append(stack, Message)
        /\ native' = Completed(native, code)
        /\ UNCHANGED <<ci, nCcalls>>
    BY <1>1, <1>2, <1>3, <1>11 DEF Raise
  <2>2. ~Tight /\ Top.phase = "body"
    BY <1>1, <1>11
  <2>3. stack' \in Seq(Slot) /\ (Len(stack') = Len(stack) + 1 \/ Len(stack') = Len(stack))
    BY <1>1, <1>9, <2>1, AppendProperties
  <2> DEFINE h == Len(ci)
  <2>4. Lowered(ci, ci', h)
    BY <1>1, <2>1 DEF Lowered
  <2>5. AtLeast(h, native[n].ci)
    BY <1>1, <1>5, <2>2 DEF AtLeast
  <2>6. AtLeast(nCcalls', Cardinality(GuardsBelow(native, n)))
    <3>1. AtLeast(nCcalls, Cardinality(GuardsOf(native)))
      BY <1>1, <2>2 DEF AtGuard
    <3>2. Cardinality(GuardsOf(native)) = Cardinality(GuardsBelow(native, n)) + 1
      BY <1>1, GuardsTop
    <3> QED  BY <1>1, <1>7, <2>1, <2>2, <3>1, <3>2 DEF AtLeast
  <2>7. native[n].func <= Len(stack') + 1 /\ nCcalls' \in Nat
    BY <1>1, <1>4, <1>6, <2>1, <2>3
  <2>8. pending' \in BOOLEAN /\ mode' \in Modes
    BY <1>8 DEF IInv, TypeOK, Modes
  <2>9. n <= Len(native) /\ ~IsCallback(native[n])
    BY <1>1
  <2> HIDE DEF h, n
  <2>10. n = Len(native) /\ \A i \in 1 .. n : native[i] = native[i]
    BY DEF n
  <2> QED  BY <1>1, <1>8, <1>9, <2>1, <2>3, <2>4, <2>5, <2>6, <2>7, <2>8, <2>9, <2>10, DoneOk
<1> QED  BY <1>10, <1>11

(* A call that ends takes one from both sides. *)
LEMMA AtLeastLess ==
  ASSUME NEW a \in Nat, NEW b \in Nat, NEW d, d = b + 1, AtLeast(a, d)
  PROVE  AtLeast(a - 1, b) /\ a - 1 \in Nat
BY DEF AtLeast

(* The results of a call take the place of its function. *)
LEMMA FinishOk ==
  ASSUME NEW frames \in Seq(Frame), frames # <<>>, NEW vals \in Seq(Slot),
         stack \in Seq(Slot), nCcalls \in Nat,
         frames[Len(frames)].func >= 1, frames[Len(frames)].func <= Len(stack) + 1,
         Finish(frames, vals)
  PROVE  /\ stack' \in Seq(Slot)
         /\ frames[Len(frames)].func <= Len(stack') + 1
         /\ nCcalls' = nCcalls - 1
         /\ native' = Completed(frames, OK)
<1> DEFINE f == frames[Len(frames)]
           results == Adjust(vals, f.nresults)
<1>1. f \in Frame
  BY ElementOfSeq, EmptySeq, LenProperties
<1>2. f.func \in Nat /\ f.nresults \in Int /\ f.nresults >= -1
  <2>1. f.func \in Nat /\ f.nresults \in ResultCounts
    BY <1>1 DEF Frame
  <2> QED  BY ONLY <2>1 DEF ResultCounts, MULTRET
<1>3. results \in Seq(Slot)
  <2> DEFINE n == f.nresults
  <2>1. n \in Int /\ n >= -1
    BY <1>2
  <2> HIDE DEF n
  <2>2. Adjust(vals, n) \in Seq(Slot)
    BY <2>1, AdjustOk
  <2> QED  BY <2>2 DEF n
<1>4. Below(f.func) \in Seq(Slot) /\ Len(Below(f.func)) = f.func - 1
  <2> DEFINE slot == f.func
  <2>1. slot \in Nat /\ slot >= 1 /\ slot <= Len(stack) + 1
    BY <1>2
  <2> HIDE DEF slot
  <2>2. Below(slot) \in Seq(Slot) /\ Len(Below(slot)) = slot - 1
    BY <2>1, BelowOk
  <2> QED  BY <2>2 DEF slot
<1>5. /\ stack' = Below(f.func) \o results
      /\ nCcalls' = nCcalls - 1
      /\ native' = Completed(frames, OK)
  BY DEF Finish
<1> HIDE DEF results
<1>6. stack' \in Seq(Slot) /\ Len(stack') = Len(Below(f.func)) + Len(results) /\ Len(results) \in Nat
  BY <1>3, <1>4, <1>5, ConcatProperties, LenProperties
<1> QED  BY <1>2, <1>4, <1>5, <1>6

(* The Lua function that a guard called returns. *)
LEMMA LuaReturnsStep ==
  ASSUME IInv, NEW vals \in Seq(Val), LuaReturns(vals)
  PROVE  IInv'
<1> DEFINE n == Len(native)
<1>1. /\ VmRuns("body") /\ ci' = Front(ci) /\ Finish(native, vals)
      /\ UNCHANGED <<errorjmp, lastStatus, pending, outcome, mode>>
  BY DEF LuaReturns, LuaReturnsTo
<1>2. /\ Ordered(native, ci, nCcalls, stack)
      /\ Linked(native, errorjmp)
      /\ native # <<>> /\ native \in Seq(Frame)
      /\ n \in Nat /\ n >= 1 /\ n \in 1 .. n
      /\ Top = native[n] /\ Top \in Frame
      /\ ~IsCallback(Top) /\ Top.phase = "body"
      /\ GuardAt(native, ci, n) /\ AtGuard(native, ci, nCcalls, stack)
      /\ stack \in Seq(Slot) /\ Len(stack) \in Nat
      /\ ci \in Seq(Nat) /\ Len(ci) \in Nat
      /\ nCcalls \in Nat
  BY <1>1, VmFacts
<1>3. Top.ci \in Nat /\ Top.func \in Nat
  BY <1>2 DEF Frame
<1>4. /\ Within(Len(ci), Top.ci + 1)
      /\ AtLeast(nCcalls, Cardinality(GuardsOf(native)))
      /\ Top.func <= Len(stack)
  BY <1>2 DEF AtGuard
<1>5. Top.func >= 1
  <2>1. Top.ci \in 1 .. Len(ci)
    BY <1>2, Heights, Grounded
  <2>2. ci[Top.ci] \in Nat
    BY <1>2, <2>1, ElementOfSeq
  <2>3. Top.pops \in 0 .. 2 /\ Top.func > ci[Top.ci] + Top.pops
    BY <1>2 DEF GuardAt, Frame
  <2> QED  BY <1>3, <2>2, <2>3
<1>6. vals \in Seq(Slot)
  BY DEF Slot
<1>7. /\ stack' \in Seq(Slot)
      /\ native[n].func <= Len(stack') + 1
      /\ nCcalls' = nCcalls - 1
      /\ native' = Completed(native, OK)
  BY <1>1, <1>2, <1>3, <1>4, <1>5, <1>6, FinishOk
<1> DEFINE h == Len(ci) - 1
<1>8. Lowered(ci, ci', h) /\ AtLeast(h, native[n].ci)
  <2>1. ci # <<>>
    BY <1>2, <1>3, <1>4 DEF Within
  <2>2. ci' \in Seq(Nat) /\ Len(ci') = Len(ci) - 1 /\ \A i \in 1 .. Len(ci) - 1 : ci'[i] = ci[i]
    BY <1>1, <1>2, <2>1, FrontOk
  <2>3. h \in Nat /\ Len(ci) = h + 1 /\ AtLeast(h, Top.ci)
    <3>1. AtLeast(Len(ci), Top.ci + 1)
      BY <1>4, WithinAtLeast
    <3> QED  BY <1>2, <1>3, <3>1 DEF AtLeast
  <2> HIDE DEF h
  <2>5. Lowered(ci, ci', h)
    BY <1>2, <2>2, <2>3, LoweredToFront
  <2>6. AtLeast(h, native[n].ci)
    BY <1>2, <2>3
  <2> QED  BY <2>5, <2>6
<1>9. nCcalls' \in Nat /\ AtLeast(nCcalls', Cardinality(GuardsBelow(native, n)))
  <2>1. Cardinality(GuardsOf(native)) = Cardinality(GuardsBelow(native, n)) + 1
    BY <1>2, GuardsTop
  <2>2. Cardinality(GuardsBelow(native, n)) \in Nat
    BY <1>2, GuardsFinite
  <2>3. AtLeast(nCcalls - 1, Cardinality(GuardsBelow(native, n))) /\ nCcalls - 1 \in Nat
    BY <1>2, <1>4, <2>1, <2>2, AtLeastLess
  <2> QED  BY <1>7, <2>3
<1>10. OK \in Statuses /\ pending' \in BOOLEAN /\ mode' \in Modes /\ mode = "run"
  BY <1>1 DEF Statuses, IInv, TypeOK, Modes, VmRuns
<1>11. n <= Len(native) /\ ~IsCallback(native[n])
  BY <1>2
<1> HIDE DEF h, n
<1>12. n = Len(native) /\ \A i \in 1 .. n : native[i] = native[i]
  BY DEF n
<1> QED  BY <1>1, <1>2, <1>7, <1>8, <1>9, <1>10, <1>11, <1>12, DoneOk

(* A running callback, and the guard that it was called from. *)
LEMMA CallbackFacts ==
  ASSUME IInv, KotlinRuns, native # <<>>, NEW m, m = Len(native) - 1
  PROVE  /\ Len(native) \in Nat /\ m \in Nat /\ m >= 1 /\ m \in 1 .. Len(native)
         /\ IsCallback(native[Len(native)])
         /\ Caller = native[m] /\ Caller \in Frame /\ ~IsCallback(Caller)
         /\ Caller.ci \in Nat /\ Caller.func \in Nat
         /\ Caller.func >= 1 /\ Caller.func <= Len(stack)
         /\ Caller.phase = "direct" => Within(native[Len(native)].ci, Caller.ci + 1)
         /\ Caller.phase # "direct" =>
              Caller.phase = "body" /\ Within(native[Len(native)].ci, Caller.ci + 2)
         /\ AtLeast(Len(ci), native[Len(native)].ci)
         /\ ci[native[Len(native)].ci] <= Len(stack)
         /\ native[Len(native)].ci \in 1 .. Len(ci)
         /\ Front(native) \in Seq(Frame) /\ Len(Front(native)) = m /\ Front(native) # <<>>
         /\ \A i \in 1 .. m : Front(native)[i] = native[i]
         /\ Linked(Front(native), errorjmp)
         /\ Cardinality(GuardsBelow(native, m)) \in Nat
         /\ AtLeast(nCcalls, Cardinality(GuardsBelow(native, m)) + 1)
<1> DEFINE n == Len(native)
<1>1. /\ Ordered(native, ci, nCcalls, stack)
      /\ Linked(native, errorjmp)
      /\ InKotlin(native)
      /\ stack \in Seq(Slot) /\ ci \in Seq(Nat) /\ native \in Seq(Frame)
      /\ Len(stack) \in Nat /\ Len(ci) \in Nat /\ Len(native) \in Nat
  BY KotlinFacts
<1>2. n >= 1 /\ n \in 1 .. n
  BY <1>1, EmptySeq
<1>3. IsCallback(native[n])
  BY <1>1 DEF InKotlin
<1>4. n > 1 /\ ~IsCallback(native[n - 1])
  BY <1>1, <1>2, <1>3 DEF Linked
<1>5. m \in Nat /\ m >= 1 /\ m \in 1 .. n /\ m < n
  BY <1>1, <1>4
<1>6. Caller = native[m] /\ Caller \in Frame /\ ~IsCallback(Caller)
  <2>1. native[m] \in Frame
    BY <1>1, <1>5, ElementOfSeq
  <2> QED  BY <1>4, <2>1 DEF Caller
<1>7. Caller.ci \in Nat /\ Caller.func \in Nat /\ Caller.pops \in 0 .. 2
  BY <1>6 DEF Frame
<1>8. CallbackAt(native, ci, n) /\ GuardAt(native, ci, m)
  BY <1>1, <1>2, <1>3, <1>5, <1>6 DEF Ordered, Nested
<1>9. Caller.phase \in {"direct", "body"}
  BY <1>5, <1>6, <1>8 DEF GuardAt
<1>10. /\ Caller.phase = "direct" => Within(native[n].ci, Caller.ci + 1)
       /\ Caller.phase # "direct" => Caller.phase = "body" /\ Within(native[n].ci, Caller.ci + 2)
       /\ Caller.phase = "direct" => ci[native[n].ci] >= Caller.func + 1 - 1
       /\ Caller.phase # "direct" => ci[native[n].ci] >= Caller.func + 2 - 1
  BY <1>6, <1>8, <1>9 DEF CallbackAt
<1>11. /\ AtLeast(Len(ci), native[n].ci)
       /\ AtLeast(nCcalls, Cardinality(GuardsOf(native)))
       /\ ci[native[n].ci] <= Len(stack)
  BY <1>1, <1>3 DEF Ordered, AtCallback
<1>12. native[n].ci \in 1 .. Len(ci) /\ Caller.ci \in 1 .. Len(ci)
  <2>1. \A i \in 1 .. n : native[i].ci \in 1 .. Len(ci)
    BY <1>1, Heights, Grounded
  <2> QED  BY ONLY <1>2, <1>5, <1>6, <2>1
<1>13. ci[native[n].ci] \in Nat /\ ci[Caller.ci] \in Nat
  BY <1>1, <1>12, ElementOfSeq
<1>14. Caller.func >= 1 /\ Caller.func <= Len(stack)
  <2>1. Caller.func > ci[Caller.ci] + Caller.pops
    BY <1>6, <1>8 DEF GuardAt
  <2>2. Caller.func >= 1
    BY <1>7, <1>13, <2>1
  <2>3. ci[native[n].ci] >= Caller.func
    BY <1>7, <1>10, <1>13
  <2> QED  BY <1>1, <1>7, <1>11, <1>13, <2>2, <2>3
<1>15. /\ Front(native) \in Seq(Frame) /\ Len(Front(native)) = m
       /\ \A i \in 1 .. m : Front(native)[i] = native[i]
       /\ Cardinality(GuardsOf(Front(native))) = Cardinality(GuardsOf(native))
       /\ \A i \in 1 .. n : GuardsBelow(Front(native), i) = GuardsBelow(native, i)
  BY <1>1, <1>3, GuardsPop
<1>16. Linked(Front(native), errorjmp)
  BY <1>1, <1>3, LinkedPop
<1>17. Front(native) # <<>>
  BY <1>5, <1>15
<1>18. Cardinality(GuardsOf(native)) = Cardinality(GuardsBelow(native, m)) + 1
  <2> DEFINE front == Front(native)
  <2>1. /\ front \in Seq(Frame) /\ front # <<>> /\ Len(front) = m
        /\ ~IsCallback(front[m]) /\ GuardsBelow(front, m) = GuardsBelow(native, m)
        /\ Cardinality(GuardsOf(front)) = Cardinality(GuardsOf(native))
    BY <1>5, <1>6, <1>15, <1>17
  <2> HIDE DEF front
  <2>2. Cardinality(GuardsOf(front)) = Cardinality(GuardsBelow(front, m)) + 1
    BY <2>1, GuardsTop
  <2> QED  BY <2>1, <2>2
<1>19. Cardinality(GuardsBelow(native, m)) \in Nat
  BY <1>1, GuardsFinite
<1> QED  BY <1>1, <1>3, <1>5, <1>6, <1>7, <1>10, <1>11, <1>12, <1>14, <1>15, <1>16, <1>17,
            <1>18, <1>19

(* The results of a callback that a guard called directly end its call. *)
LEMMA DirectReturnOk ==
  ASSUME IInv, KotlinRuns, native # <<>>, NEW vals \in Seq(Slot),
         Finish(Front(native), vals),
         NEW h, Lowered(ci, ci', h), AtLeast(h, Caller.ci),
         pending' \in BOOLEAN, mode' \in Modes,
         UNCHANGED <<errorjmp, lastStatus, outcome>>
  PROVE  IInv'
<1> DEFINE m == Len(native) - 1
           frames == Front(native)
<1>1. m = Len(native) - 1
  OBVIOUS
<1> HIDE DEF m
<1>2. /\ m \in Nat /\ m >= 1 /\ m \in 1 .. Len(native)
      /\ Caller = native[m] /\ Caller \in Frame /\ ~IsCallback(Caller)
      /\ Caller.func >= 1 /\ Caller.func <= Len(stack) /\ Caller.func \in Nat
      /\ frames \in Seq(Frame) /\ Len(frames) = m /\ frames # <<>>
      /\ \A i \in 1 .. m : frames[i] = native[i]
      /\ Linked(frames, errorjmp)
      /\ Cardinality(GuardsBelow(native, m)) \in Nat
      /\ AtLeast(nCcalls, Cardinality(GuardsBelow(native, m)) + 1)
  BY <1>1, CallbackFacts
<1> HIDE DEF frames
<1>3. stack \in Seq(Slot) /\ nCcalls \in Nat /\ Len(stack) \in Nat /\ Len(native) \in Nat
  BY LenProperties DEF IInv, TypeOK
<1>4. frames[Len(frames)] = Caller
  <2>1. m \in 1 .. m
    BY <1>2
  <2> QED  BY <1>2, <2>1
<1>5. /\ stack' \in Seq(Slot)
      /\ frames[Len(frames)].func <= Len(stack') + 1
      /\ nCcalls' = nCcalls - 1
      /\ native' = Completed(frames, OK)
  <2>1. Finish(frames, vals)
    BY DEF frames
  <2>2. frames[Len(frames)].func >= 1 /\ frames[Len(frames)].func <= Len(stack) + 1
    BY <1>2, <1>3, <1>4
  <2> QED  BY <1>2, <1>3, <2>1, <2>2, FinishOk
<1>6. nCcalls' \in Nat /\ AtLeast(nCcalls', Cardinality(GuardsBelow(native, m)))
  <2>1. AtLeast(nCcalls - 1, Cardinality(GuardsBelow(native, m))) /\ nCcalls - 1 \in Nat
    BY <1>2, <1>3, AtLeastLess
  <2> QED  BY <1>5, <2>1
<1>7. OK \in Statuses /\ mode = "run"
  BY DEF Statuses, KotlinRuns
<1>8. AtLeast(h, native[m].ci) /\ ~IsCallback(native[m]) /\ native[m].func <= Len(stack') + 1
  BY <1>2, <1>4, <1>5
<1>9. m <= Len(native)
  BY <1>2, <1>3
<1> QED  BY <1>2, <1>5, <1>6, <1>7, <1>8, <1>9, DoneOk

(* A callback returns, to the guard or to Lua code, or pops a frame that is *)
(* not its own and leaves defined behaviour.                                *)
LEMMA CallbackReturnsStep ==
  ASSUME IInv, NEW n \in 0 .. GetTop, CallbackReturns(n)
  PROVE  IInv'
<1> DEFINE top == native[Len(native)]
           m == Len(native) - 1
<1>1. KotlinRuns /\ native # <<>> /\ UNCHANGED <<errorjmp, lastStatus, pending, outcome>>
  BY DEF CallbackReturns
<1>2. /\ Ordered(native, ci, nCcalls, stack) /\ Linked(native, errorjmp)
      /\ stack \in Seq(Slot) /\ ci \in Seq(Nat) /\ native \in Seq(Frame)
      /\ Len(stack) \in Nat /\ Len(ci) \in Nat /\ Len(native) \in Nat
      /\ Base \in Nat /\ Base = ci[Len(ci)]
      /\ GetTop \in Int /\ Len(stack) = Base + GetTop
  BY <1>1, KotlinFacts
<1>3. m = Len(native) - 1 /\ Top = top
  BY DEF Top
<1> HIDE DEF m
<1>4. /\ m \in Nat /\ IsCallback(top)
      /\ Caller = native[m] /\ Caller.ci \in Nat /\ Caller.func >= 1
      /\ Caller.phase = "direct" => Within(top.ci, Caller.ci + 1)
      /\ Caller.phase # "direct" => Caller.phase = "body"
      /\ AtLeast(Len(ci), top.ci)
      /\ ci[top.ci] <= Len(stack)
      /\ top.ci \in 1 .. Len(ci)
      /\ Front(native) \in Seq(Frame)
      /\ Linked(Front(native), errorjmp)
  BY <1>1, <1>3, CallbackFacts
<1> HIDE DEF top
<1>5. CASE Len(ci) # Top.ci
  <2>1. mode' = "undefined" /\ UNCHANGED <<stack, ci, nCcalls, native>>
    BY <1>5 DEF CallbackReturns
  <2>2. TypeOK' /\ Linked(native', errorjmp')
    BY <1>1, <2>1 DEF IInv, TypeOK
  <2> QED  BY <2>1, <2>2 DEF IInv
<1>6. CASE Len(ci) = Top.ci /\ Caller.phase = "direct"
  <2>1. /\ mode' = "run" /\ ci' = Front(ci)
        /\ Finish(Front(native), SubSeq(stack, Len(stack) - n + 1, Len(stack)))
    BY <1>6 DEF CallbackReturns
  <2> DEFINE k == Len(stack) - n + 1
             vals == SubSeq(stack, k, Len(stack))
  <2>2. vals \in Seq(Slot)
    <3>1. k \in Int /\ k >= 1
      <4>1. Len(stack) \in Nat /\ Base \in Nat /\ GetTop \in Int /\ Len(stack) = Base + GetTop
        BY <1>2
      <4> QED  BY ONLY <4>1, n \in 0 .. GetTop
    <3> HIDE DEF k
    <3> QED  BY <1>2, <3>1, SubSeqOk
  <2> DEFINE h == Len(ci) - 1
  <2>3. Lowered(ci, ci', h)
    <3>1. ci # <<>>
      BY <1>2, <1>4
    <3>2. ci' \in Seq(Nat) /\ Len(ci') = Len(ci) - 1 /\ \A i \in 1 .. Len(ci) - 1 : ci'[i] = ci[i]
      BY <1>2, <2>1, <3>1, FrontOk
    <3>3. h \in Nat /\ h + 1 = Len(ci)
      BY <1>2, <1>4
    <3> HIDE DEF h
    <3> QED  BY <1>2, <3>2, <3>3, LoweredToFront
  <2>4. AtLeast(h, Caller.ci)
    <3>1. AtLeast(Len(ci), Caller.ci + 1)
      BY <1>3, <1>4, <1>6, WithinAtLeast
    <3>2. Caller.ci \in Nat /\ Len(ci) \in Nat
      BY <1>2, <1>4
    <3> QED  BY <3>1, <3>2 DEF AtLeast
  <2>5. pending' \in BOOLEAN /\ mode' \in Modes
    BY <1>1, <2>1 DEF IInv, TypeOK, Modes
  <2>6. Finish(Front(native), vals)
    BY <2>1
  <2> HIDE DEF vals, h
  <2> QED  BY <1>1, <2>2, <2>3, <2>4, <2>5, <2>6, DirectReturnOk
<1>7. CASE Len(ci) = Top.ci /\ Caller.phase # "direct"
  <2>1. /\ mode' = "run" /\ ci' = Front(ci)
        /\ stack' = Below(Base) /\ native' = Front(native) /\ UNCHANGED nCcalls
    BY <1>7 DEF CallbackReturns
  <2>2. Base >= 1 /\ Base <= Len(stack) + 1
    <3>1. GuardAt(native, ci, m) /\ CallbackAt(native, ci, Len(native))
      <4>1. m \in 1 .. Len(native) /\ ~IsCallback(native[m])
        BY <1>1, <1>3, <1>4, CallbackFacts
      <4>2. Len(native) \in 1 .. Len(native) /\ IsCallback(native[Len(native)])
        BY <1>2, <1>4, <4>1 DEF top
      <4> QED  BY <1>2, <4>1, <4>2 DEF Ordered, Nested
    <3>2. ci[top.ci] >= Caller.func + 2 - 1
      BY <1>3, <1>4, <1>7, <3>1 DEF CallbackAt, top
    <3>3. Caller.func \in Nat
      BY <1>1, <1>3, CallbackFacts
    <3>4. Base = ci[top.ci]
      BY <1>2, <1>3, <1>7
    <3>5. Base <= Len(stack)
      BY <1>4, <3>4
    <3>6. Base >= Caller.func + 2 - 1
      BY <3>2, <3>4
    <3>7. \A b, f, l \in Nat : b <= l /\ b >= f + 2 - 1 => b >= 1 /\ b <= l + 1
      OBVIOUS
    <3> QED  BY ONLY <1>2, <3>3, <3>5, <3>6, <3>7
  <2>3. stack' \in Seq(Slot) /\ Len(stack') = ci[Len(ci)] - 1
    <3>1. Below(Base) \in Seq(Slot) /\ Len(Below(Base)) = Base - 1
      BY <1>2, <2>2, BelowOk
    <3> QED  BY <1>2, <2>1, <3>1
  <2>4. native[Len(native) - 1].phase = "body" /\ Len(ci) = native[Len(native)].ci
    BY <1>3, <1>4, <1>7 DEF top
  <2>5. Ordered(Front(native), Front(ci), nCcalls, stack')
    <3>1. IsCallback(native[Len(native)])
      BY <1>4 DEF top
    <3> QED  BY <1>1, <1>2, <2>3, <2>4, <3>1, OrderedBack
  <2>6. TypeOK'
    <3>1. ci' \in Seq(Nat)
      BY <1>2, <2>1, FrontOk
    <3> QED  BY <1>1, <1>4, <2>1, <2>3, <3>1 DEF IInv, TypeOK
  <2> QED  BY <1>1, <1>4, <2>1, <2>5, <2>6 DEF IInv
<1> QED  BY <1>5, <1>6, <1>7

(* An exception that escapes leaves the call infos where they are. *)
LEMMA CallbackThrowsStep ==
  ASSUME IInv, CallbackThrows
  PROVE  IInv'
<1> DEFINE vals == SubSeq(stack, Caller.func, Len(stack))
           h == Len(ci)
           m == Len(native) - 1
<1>1. /\ KotlinRuns /\ native # <<>> /\ "escape" \in Faults /\ pending' = TRUE
      /\ Finish(Front(native), vals)
      /\ UNCHANGED <<ci, errorjmp, lastStatus, outcome, mode>>
  BY DEF CallbackThrows
<1>2. m = Len(native) - 1
  OBVIOUS
<1> HIDE DEF m
<1>3. /\ Caller.func \in Nat /\ Caller.func >= 1 /\ Caller.ci \in Nat
      /\ native[Len(native)].ci >= Caller.ci
      /\ native[Len(native)].ci \in 1 .. Len(ci)
  <2>1. /\ Caller.func \in Nat /\ Caller.func >= 1 /\ Caller.ci \in Nat
        /\ Caller.phase = "direct" => Within(native[Len(native)].ci, Caller.ci + 1)
        /\ Caller.phase # "direct" => Within(native[Len(native)].ci, Caller.ci + 2)
        /\ native[Len(native)].ci \in 1 .. Len(ci)
    BY <1>1, <1>2, CallbackFacts
  <2> QED  BY <2>1 DEF Within
<1>4. stack \in Seq(Slot) /\ ci \in Seq(Nat) /\ Len(ci) \in Nat /\ Len(stack) \in Nat
  BY LenProperties DEF IInv, TypeOK
<1>5. vals \in Seq(Slot)
  <2> DEFINE k == Caller.func
  <2>1. k \in Int /\ k >= 1
    BY <1>3
  <2> HIDE DEF k
  <2>2. SubSeq(stack, k, Len(stack)) \in Seq(Slot)
    BY <1>4, <2>1, SubSeqOk
  <2> QED  BY <2>2 DEF k
<1>6. Lowered(ci, ci', h)
  BY <1>1, <1>4 DEF Lowered
<1>7. AtLeast(h, Caller.ci)
  <2>1. ~Tight
    BY <1>1 DEF Tight
  <2>2. h >= Caller.ci
    BY <1>3, <1>4
  <2> QED  BY <2>1, <2>2 DEF AtLeast
<1>8. pending' \in BOOLEAN /\ mode' \in Modes
  BY <1>1 DEF IInv, TypeOK, Modes
<1> HIDE DEF vals, h
<1> QED  BY <1>1, <1>5, <1>6, <1>7, <1>8, DirectReturnOk

(* A raise where Kotlin code runs meets no guard above it. *)
LEMMA RawRaiseLands ==
  ASSUME IInv, KotlinRuns, NEW code, Raise(code)
  PROVE  mode' \in {"aborted", "jumped"} /\ UNCHANGED <<stack, ci, nCcalls, native, errorjmp>>
<1>1. /\ Linked(native, errorjmp) /\ InKotlin(native) /\ native \in Seq(Frame)
      /\ Len(native) \in Nat
  BY KotlinFacts
<1>2. CASE native = <<>>
  <2>1. errorjmp = 0
    BY <1>1, <1>2 DEF Linked
  <2> QED  BY <2>1 DEF Raise
<1>3. CASE native # <<>>
  <2>1. IsCallback(native[Len(native)]) /\ Len(native) >= 1
    BY <1>1, <1>3, EmptySeq DEF InKotlin
  <2>2. errorjmp = Len(native) - 1
    BY <1>1, <1>3, <2>1 DEF Linked
  <2>3. \E k \in errorjmp + 1 .. Len(native) : native[k].kind = "callback"
    <3>1. Len(native) \in errorjmp + 1 .. Len(native)
      BY <1>1, <2>1, <2>2
    <3> QED  BY <2>1, <3>1 DEF IsCallback
  <2> QED  BY <2>3 DEF Raise
<1> QED  BY <1>2, <1>3

(* Running out of memory without a barrier ends the program or jumps. *)
LEMMA RawAllocStep ==
  ASSUME IInv, RawAllocFails
  PROVE  IInv'
<1>1. KotlinRuns /\ Raise(ERRMEM) /\ UNCHANGED <<lastStatus, pending, outcome>>
  BY DEF RawAllocFails
<1>2. mode' \in {"aborted", "jumped"} /\ UNCHANGED <<stack, ci, nCcalls, native, errorjmp>>
  BY <1>1, RawRaiseLands
<1>3. TypeOK' /\ Linked(native', errorjmp')
  BY <1>1, <1>2 DEF IInv, TypeOK
<1> QED  BY <1>2, <1>3 DEF IInv

(* One that escapes through a function of the VM, into the Lua code. *)
LEMMA CallbackThrowsThroughStep ==
  ASSUME IInv, CallbackThrowsThrough
  PROVE  IInv'
<1>1. /\ KotlinRuns /\ native # <<>> /\ Caller.phase = "body"
      /\ {"escape", "through"} \subseteq Faults
      /\ pending' = TRUE /\ native' = Front(native) /\ stack' = Adjust(stack, Base)
      /\ UNCHANGED <<ci, nCcalls, errorjmp, lastStatus, outcome, mode>>
  BY DEF CallbackThrowsThrough
<1>2. /\ Ordered(native, ci, nCcalls, stack) /\ Linked(native, errorjmp)
      /\ InKotlin(native)
      /\ stack \in Seq(Slot) /\ native \in Seq(Frame)
      /\ Base \in Nat /\ Base = ci[Len(ci)]
  BY <1>1, KotlinFacts
<1>3. IsCallback(native[Len(native)]) /\ native[Len(native) - 1].phase = "body"
  BY <1>1, <1>2 DEF InKotlin, Caller
<1>4. stack' \in Seq(Slot) /\ Len(stack') = ci[Len(ci)]
  <2> DEFINE n == Base
  <2>1. n \in Int /\ n >= -1 /\ n # -1
    BY <1>2
  <2> HIDE DEF n
  <2>2. Adjust(stack, n) \in Seq(Slot) /\ Len(Adjust(stack, n)) = n
    BY <1>2, <2>1, AdjustOk
  <2> QED  BY <1>1, <1>2, <2>2 DEF n
<1>5. Through
  BY <1>1 DEF Through
<1>6. Ordered(native', ci', nCcalls', stack')
  <2>1. native # <<>> /\ Ordered(Front(native), ci, nCcalls, stack')
    BY <1>1, <1>2, <1>3, <1>4, <1>5, OrderedThrough
  <2> QED  BY <1>1, <2>1
<1>7. Linked(native', errorjmp')
  BY <1>1, <1>2, <1>3, LinkedPop
<1>8. TypeOK'
  BY <1>1, <1>2, <1>4, FrontOk DEF IInv, TypeOK
<1> QED  BY <1>6, <1>7, <1>8 DEF IInv

(* The Lua code that goes on where its own frame was saved. *)
LEMMA LuaRunsOnStep ==
  ASSUME IInv, LuaRunsOn
  PROVE  IInv'
<1>1. /\ VmRuns("body") /\ Len(ci) > Top.ci + 1 /\ ci' = Front(ci)
      /\ UNCHANGED <<stack, nCcalls, native, errorjmp, lastStatus, pending, outcome, mode>>
  BY DEF LuaRunsOn
<1>2. /\ Ordered(native, ci, nCcalls, stack) /\ Linked(native, errorjmp)
      /\ native # <<>> /\ native \in Seq(Frame)
      /\ Top = native[Len(native)] /\ ~IsCallback(Top) /\ Top.phase = "body"
      /\ ci \in Seq(Nat) /\ Len(ci) \in Nat
  BY <1>1, VmFacts
<1>3. Ordered(native, Front(ci), nCcalls, stack)
  <2>1. stack \in Seq(Slot)
    BY DEF IInv, TypeOK
  <2> QED  BY <1>1, <1>2, <2>1, OrderedRunsOn
<1>4. TypeOK'
  <2>1. ci' \in Seq(Nat)
    BY <1>1, <1>2, FrontOk
  <2> QED  BY <1>1, <2>1 DEF IInv, TypeOK
<1> QED  BY <1>1, <1>2, <1>3, <1>4 DEF IInv

-----------------------------------------------------------------------------
(* The native call on top of the C stack returns to Kotlin. *)
LEMMA ReturnOk ==
  ASSUME IInv, VmRuns("done"),
         stack' \in Seq(Slot), lastStatus' \in Statuses, pending' \in BOOLEAN,
         outcome' \in Outcome, mode' \in Modes,
         mode' = "run" => Len(stack') >= ci[Top.ci],
         native' = Front(native), errorjmp' = Top.prev,
         UNCHANGED <<ci, nCcalls>>
  PROVE  IInv'
<1>1. /\ Ordered(native, ci, nCcalls, stack)
      /\ Linked(native, errorjmp)
      /\ native # <<>> /\ native \in Seq(Frame)
      /\ Top = native[Len(native)] /\ Top \in Frame
      /\ ~IsCallback(Top) /\ Top.phase = "done"
      /\ nCcalls \in Nat
  BY VmFacts
<1>2. Linked(native', errorjmp')
  BY <1>1, LinkedPop
<1>3. mode' = "run" => Ordered(native', ci', nCcalls', stack')
  <2> SUFFICES ASSUME mode' = "run"
               PROVE  Ordered(Front(native), ci, nCcalls, stack')
    OBVIOUS
  <2>1. Len(stack') >= ci[native[Len(native)].ci]
    BY <1>1
  <2> QED  BY <1>1, <2>1, OrderedReturn
<1>4. TypeOK'
  <2>1. native' \in Seq(Frame)
    BY <1>1, FrontOk
  <2>2. errorjmp' \in Nat
    BY <1>1 DEF Frame
  <2> QED  BY <2>1, <2>2 DEF IInv, TypeOK, Modes
<1> QED  BY <1>2, <1>3, <1>4 DEF IInv

(* Where the guard that returns stands. *)
LEMMA DoneFacts ==
  ASSUME IInv, VmRuns("done")
  PROVE  /\ Top \in Frame /\ Top.kind # "callback"
         /\ stack \in Seq(Slot) /\ Len(stack) \in Nat
         /\ Base \in Nat /\ ci[Top.ci] \in Nat /\ ci[Top.ci] <= Base
         /\ Top.func \in Nat /\ Top.pops \in 0 .. 2
         /\ Top.func > ci[Top.ci] + Top.pops
         /\ Top.kind = "call" => Top.errfunc \in Int /\ Top.errfunc >= 1
         /\ Top.func <= Len(stack) + 1
         /\ Top.status \in Statuses
<1>1. /\ Ordered(native, ci, nCcalls, stack)
      /\ Linked(native, errorjmp)
      /\ native # <<>> /\ native \in Seq(Frame)
      /\ Len(native) \in 1 .. Len(native)
      /\ Top = native[Len(native)] /\ Top \in Frame
      /\ ~IsCallback(Top) /\ Top.phase = "done"
      /\ GuardAt(native, ci, Len(native)) /\ AtGuard(native, ci, nCcalls, stack)
      /\ stack \in Seq(Slot) /\ Len(stack) \in Nat
      /\ ci \in Seq(Nat) /\ Len(ci) \in Nat
  BY VmFacts
<1>2. Top.func \in Nat /\ Top.pops \in 0 .. 2 /\ Top.status \in Statuses /\ Top.errfunc \in Int
  BY <1>1 DEF Frame
<1>3. Top.ci \in 1 .. Len(ci)
  BY <1>1, Heights, Grounded
<1>4. Len(ci) \in 1 .. Len(ci)
  BY <1>1, <1>3
<1>5. Base = ci[Len(ci)]
  BY DEF Base, Last
<1>6. Base \in Nat /\ ci[Top.ci] \in Nat
  BY <1>1, <1>3, <1>4, <1>5, ElementOfSeq
<1>7. ci[Top.ci] <= Base
  <2>1. Top.ci <= Len(ci)
    BY <1>1, <1>3
  <2> QED  BY <1>1, <1>3, <1>4, <1>5, <2>1 DEF Ordered, Rising
<1>8. /\ Top.func > ci[Top.ci] + Top.pops
      /\ Top.kind = "call" => Top.errfunc >= 1
  BY <1>1 DEF GuardAt
<1>9. Top.func <= Len(stack) + 1
  BY <1>1 DEF AtGuard
<1> QED  BY <1>1, <1>2, <1>6, <1>7, <1>8, <1>9 DEF IsCallback

(* nativeCall takes the handler out and LuaState.call reports. *)
LEMMA CallReturnsStep ==
  ASSUME IInv, CallReturns
  PROVE  IInv'
<1> DEFINE handler == Base + Top.errfunc
<1>1. /\ VmRuns("done") /\ Top.kind = "call"
      /\ errorjmp' = Top.prev /\ native' = Front(native)
      /\ UNCHANGED <<ci, nCcalls>>
  BY DEF CallReturns
<1>2. /\ stack \in Seq(Slot) /\ Len(stack) \in Nat
      /\ Base \in Nat /\ ci[Top.ci] \in Nat /\ ci[Top.ci] <= Base
      /\ Top.errfunc \in Int /\ Top.errfunc >= 1
      /\ Top.status \in Statuses
  BY <1>1, DoneFacts
<1>3. lastStatus \in Statuses
  BY DEF IInv, TypeOK
<1>4. CASE handler \in 1 .. Len(stack)
  <2> DEFINE s == RemoveAt(stack, handler)
  <2>1. s \in Seq(Slot) /\ Len(s) = Len(stack) - 1
    BY <1>2, <1>4, RemoveAtOk
  <2>2. Conclude(s, lastStatus, Top.status, Top.status)
    BY <1>4 DEF CallReturns
  <2> HIDE DEF s
  <2>3. Len(s) >= Base
    <3>1. Len(stack) >= Base + Top.errfunc
      BY <1>2, <1>4
    <3> QED  BY <1>2, <2>1, <3>1
  <2>4. /\ stack' \in Seq(Slot) /\ lastStatus' \in Statuses /\ pending' \in BOOLEAN
        /\ outcome' \in Outcome /\ mode' \in Modes
        /\ mode' = "run" => Len(stack') >= Len(s) \/ Len(stack') >= Base
    BY <1>2, <1>3, <2>1, <2>2, ConcludeOk
  <2>5. mode' = "run" => Len(stack') >= ci[Top.ci]
    <3>1. Len(stack') \in Nat /\ Len(s) \in Nat
      BY <2>1, <2>4, LenProperties
    <3> QED  BY <1>2, <2>3, <2>4, <3>1
  <2> QED  BY <1>1, <2>4, <2>5, ReturnOk
<1>5. CASE handler \notin 1 .. Len(stack)
  <2>1. mode' = "undefined" /\ UNCHANGED <<stack, lastStatus, pending, outcome>>
    BY <1>5 DEF CallReturns
  <2>2. /\ stack' \in Seq(Slot) /\ lastStatus' \in Statuses /\ pending' \in BOOLEAN
        /\ outcome' \in Outcome /\ mode' \in Modes
    BY <2>1 DEF IInv, TypeOK, Modes
  <2> QED  BY <1>1, <2>1, <2>2, ReturnOk
<1> QED  BY <1>4, <1>5

(* A barrier stores the metamethod's result and checkException reports. *)
LEMMA BarrierReturnsStep ==
  ASSUME IInv, BarrierReturns
  PROVE  IInv'
<1> DEFINE results == SubSeq(stack, Top.func, Len(stack))
           below   == Below(Top.func - Top.pops)
           s       == IF Top.status = OK THEN below \o results ELSE stack
<1>1. /\ VmRuns("done") /\ Top.kind = "barrier"
      /\ errorjmp' = Top.prev /\ native' = Front(native)
      /\ Conclude(s, Top.status, OK, Top.status)
      /\ UNCHANGED <<ci, nCcalls>>
  BY DEF BarrierReturns
<1>2. /\ stack \in Seq(Slot) /\ Len(stack) \in Nat
      /\ Base \in Nat /\ ci[Top.ci] \in Nat /\ ci[Top.ci] <= Base
      /\ Top.func \in Nat /\ Top.pops \in 0 .. 2
      /\ Top.func > ci[Top.ci] + Top.pops
      /\ Top.func <= Len(stack) + 1
      /\ Top.status \in Statuses
  BY <1>1, DoneFacts
<1>3. results \in Seq(Slot) /\ Len(results) \in Nat
  <2> DEFINE k == Top.func
  <2>1. k \in Int /\ k >= 1
    BY <1>2
  <2> HIDE DEF k
  <2>2. SubSeq(stack, k, Len(stack)) \in Seq(Slot)
    BY <1>2, <2>1, SubSeqOk
  <2>3. Len(SubSeq(stack, k, Len(stack))) \in Nat
    BY <2>2, LenProperties
  <2> QED  BY <2>2, <2>3 DEF k
<1>4. below \in Seq(Slot) /\ Len(below) >= ci[Top.ci]
  <2> DEFINE slot == Top.func - Top.pops
  <2>1. slot \in Nat /\ slot >= ci[Top.ci] + 1 /\ slot >= 1 /\ slot <= Len(stack) + 1
    <3>1. \A f, p, c, n : f \in Nat /\ p \in 0 .. 2 /\ c \in Nat /\ n \in Nat
                         /\ f > c + p /\ f <= n + 1
                         => f - p \in Nat /\ f - p >= c + 1 /\ f - p >= 1 /\ f - p <= n + 1
      OBVIOUS
    <3>2. /\ Top.func \in Nat /\ Top.pops \in 0 .. 2 /\ ci[Top.ci] \in Nat
          /\ Len(stack) \in Nat
          /\ Top.func > ci[Top.ci] + Top.pops /\ Top.func <= Len(stack) + 1
      BY ONLY <1>2
    <3> QED  BY ONLY <3>1, <3>2
  <2> HIDE DEF slot
  <2>2. Below(slot) \in Seq(Slot) /\ Len(Below(slot)) = slot - 1
    BY <1>2, <2>1, BelowOk
  <2>3. Len(Below(slot)) >= ci[Top.ci]
    BY <1>2, <2>1, <2>2
  <2> QED  BY <2>2, <2>3 DEF slot
<1>5. s \in Seq(Slot) /\ Len(s) >= ci[Top.ci] /\ Len(s) \in Nat
  <2> HIDE DEF below, results
  <2>1. CASE Top.status = OK
    <3>1. below \o results \in Seq(Slot) /\ Len(below \o results) = Len(below) + Len(results)
      BY <1>3, <1>4, ConcatProperties
    <3>2. Len(below) \in Nat
      BY <1>4, LenProperties
    <3> QED  BY <1>2, <1>3, <1>4, <2>1, <3>1, <3>2
  <2>2. CASE Top.status # OK
    BY <1>2, <2>2
  <2> QED  BY <2>1, <2>2
<1> HIDE DEF s
<1>6. OK \in Statuses
  BY DEF Statuses
<1>7. /\ stack' \in Seq(Slot) /\ lastStatus' \in Statuses /\ pending' \in BOOLEAN
      /\ outcome' \in Outcome /\ mode' \in Modes
      /\ mode' = "run" => Len(stack') >= Len(s) \/ Len(stack') >= Base
  BY <1>1, <1>2, <1>5, <1>6, ConcludeOk
<1>8. mode' = "run" => Len(stack') >= ci[Top.ci]
  <2>1. Len(stack') \in Nat
    BY <1>7, LenProperties
  <2> QED  BY <1>2, <1>5, <1>7, <2>1
<1> QED  BY <1>1, <1>7, <1>8, ReturnOk

(* Below LUAI_MAXCCALLS there is room for another C call. *)
LEMMA RoomForCalls ==
  ASSUME NEW calls \in Nat, calls < MaxCCalls
  PROVE  ~CStackOverflows(calls)
<1>1. MaxCCalls \in Nat
  BY ConstantsAssumption
<1>2. MaxCCalls \div 8 \in Nat
  BY <1>1
<1> QED  BY <1>1, <1>2 DEF CStackOverflows, HardLimit

(* A barrier calls a function that can be called. *)
LEMMA BarrierCallable ==
  ASSUME IInv, VmRuns("enter"), ~Callable
  PROVE  Top.kind = "call"
<1>1. /\ Top \in Frame /\ ~IsCallback(Top) /\ Top.phase = "enter" /\ native # <<>>
      /\ Top = native[Len(native)] /\ AtGuard(native, ci, nCcalls, stack) /\ nCcalls \in Nat
  BY VmFacts
<1>2. Top.kind = "barrier" => nCcalls < MaxCCalls /\ stack[Top.func] = Fn
  BY <1>1 DEF AtGuard
<1>3. Top.kind # "barrier"
  BY <1>1, <1>2, RoomForCalls DEF Callable
<1>4. Top.kind \in {"call", "barrier", "callback"}
  BY <1>1 DEF Frame
<1> QED  BY <1>1, <1>3, <1>4 DEF IsCallback

(* Raising at the call itself or in Lua code keeps the invariant. *)
LEMMA VmRaiseStep ==
  ASSUME IInv, PrecallRaises \/ LuaRaises
  PROVE  IInv'
<1>1. CASE PrecallRaises
  <2>1. /\ VmRuns("enter") /\ ~Callable /\ Raise(ERRRUN)
        /\ UNCHANGED <<lastStatus, pending, outcome>>
    BY <1>1 DEF PrecallRaises
  <2>2. Top.kind = "call" \/ (~Tight /\ "enter" = "body")
    BY <2>1, BarrierCallable
  <2> QED  BY <2>1, <2>2, RaiseStep
<1>2. CASE LuaRaises
  <2>1. PICK code \in {ERRRUN, ERRMEM} :
          /\ VmRuns("body") /\ Raise(code)
          /\ Top.kind = "call" \/ "metamethod" \in Faults
          /\ UNCHANGED <<lastStatus, pending, outcome>>
    BY <1>2 DEF LuaRaises
  <2>2. "metamethod" \in Faults => ~Tight
    BY DEF Tight
  <2>3. Top.kind = "call" \/ (~Tight /\ "body" = "body")
    BY <2>1, <2>2
  <2> QED  BY <2>1, <2>3, RaiseStep
<1> QED  BY <1>1, <1>2

(* The invariant holds when the program starts. *)
LEMMA InitOk == Init => IInv
<1> SUFFICES ASSUME Init PROVE IInv
  OBVIOUS
<1>1. /\ stack = [i \in 1 .. LibSlots |-> Plain] /\ ci = <<0>> /\ nCcalls = 0
      /\ native = <<>> /\ errorjmp = 0 /\ lastStatus = OK /\ pending = FALSE
      /\ outcome = [thrown |-> "none", status |-> OK, popped |-> "nothing"]
      /\ mode = "run"
  BY DEF Init
<1>2. TypeOK
  <2>1. stack \in Seq(Slot)
    <3>1. LibSlots \in Nat
      BY ConstantsAssumption
    <3>2. Plain \in Slot
      BY DEF Slot, Val
    <3> QED  BY <1>1, <3>1, <3>2
  <2>2. outcome \in Outcome
    BY <1>1 DEF Outcome, Statuses
  <2>3. ci \in Seq(Nat) /\ native \in Seq(Frame) /\ nCcalls \in Nat /\ errorjmp \in Nat
    BY <1>1
  <2>4. lastStatus \in Statuses /\ pending \in BOOLEAN
    BY <1>1 DEF Statuses
  <2> QED  BY <1>1, <2>1, <2>2, <2>3, <2>4 DEF TypeOK
<1>3. Len(native) = 0 /\ native \in Seq(Frame)
  BY <1>1
<1>4. Linked(native, errorjmp)
  BY <1>1, <1>3 DEF Linked, GuardsOf
<1>5. Ordered(native, ci, nCcalls, stack)
  <2>1. Rising(ci)
    BY <1>1 DEF Rising
  <2>2. Nested(native, ci)
    BY <1>3 DEF Nested
  <2>3. AtProgram(native, ci, nCcalls)
    <3>1. GuardsOf(native) = {}
      BY <1>3 DEF GuardsOf
    <3>2. Cardinality(GuardsOf(native)) = 0
      BY <3>1, FS_EmptySet
    <3> QED  BY <1>1, <3>2 DEF AtProgram, AtLeast
  <2>4. AtCallback(native, ci, nCcalls, stack) /\ AtGuard(native, ci, nCcalls, stack)
    BY <1>1 DEF AtCallback, AtGuard
  <2> QED  BY <2>1, <2>2, <2>3, <2>4 DEF Ordered
<1> QED  BY <1>2, <1>4, <1>5 DEF IInv

(* Every step keeps it. *)
LEMMA NextOk == IInv /\ [Next]_vars => IInv'
<1> SUFFICES ASSUME IInv, [Next]_vars
             PROVE  IInv'
  OBVIOUS
<1>1. CASE KotlinStep
  <2>1. CASE \/ \E v \in Val : Push(v) \/ UncheckedPush(v)
             \/ PushFunction
             \/ \E i \in 1 .. GetTop : PushValue(i) \/ RemoveSlot(i) \/ InsertSlot(i) \/ ReplaceSlot(i)
             \/ \E n \in 0 .. MaxStack : SetTop(n)
             \/ \E status \in {OK, ERRRUN} : SetMetaTable(status)
    BY <2>1, StackStep
  <2>2. ASSUME NEW op \in CheckedOps, NEW v \in Val, NEW status \in {OK, ERRRUN, ERRMEM},
               CheckedOp(op, v, status)
        PROVE  IInv'
    <3>1. status \in Statuses
      BY DEF Statuses
    <3> QED  BY <2>2, <3>1, CheckedStep
  <2>3. ASSUME NEW op \in CheckedOps, OpCallsMetamethod(op)
        PROVE  IInv'
    BY <2>3, MetamethodStep
  <2>4. ASSUME NEW nargs \in 0 .. GetTop - 1, NEW nresults \in ResultCounts,
               NativeCall(nargs, nresults)
        PROVE  IInv'
    BY <2>4, CallStep
  <2>5. ASSUME NEW n \in 0 .. GetTop, CallbackReturns(n)
        PROVE  IInv'
    BY <2>5, CallbackReturnsStep
  <2>6. CASE CallbackThrows \/ CallbackThrowsThrough
    BY <2>6, CallbackThrowsStep, CallbackThrowsThroughStep
  <2>7. CASE RawAllocFails
    BY <2>7, RawAllocStep
  <2> QED  BY <1>1, <2>1, <2>2, <2>3, <2>4, <2>5, <2>6, <2>7 DEF KotlinStep
<1>2. CASE VmStep
  <2>1. CASE PrecallLua
    BY <2>1, PrecallLuaStep
  <2>2. CASE PrecallKotlin
    BY <2>2, PrecallKotlinStep
  <2>3. CASE PrecallRaises \/ LuaRaises \/ LuaRunsOn
    BY <2>3, VmRaiseStep, LuaRunsOnStep
  <2>4. ASSUME NEW vals \in Lists, LuaCallsKotlin(vals) \/ LuaReturns(vals)
        PROVE  IInv'
    <3>1. vals \in Seq(Val)
      BY ConstantsAssumption
    <3> QED  BY <2>4, <3>1, LuaCallsStep, LuaReturnsStep
  <2>5. CASE CallReturns
    BY <2>5, CallReturnsStep
  <2>6. CASE BarrierReturns
    BY <2>6, BarrierReturnsStep
  <2> QED  BY <1>2, <2>1, <2>2, <2>3, <2>4, <2>5, <2>6 DEF VmStep
<1>3. CASE UNCHANGED vars
  BY <1>3 DEF vars, IInv, TypeOK
<1> QED  BY <1>1, <1>2, <1>3 DEF Next

(* The inductive invariant: the types, the chain of jump buffers, and the    *)
(* order of the frames as long as the program runs.                          *)
THEOREM Invariant == Spec => []IInv
<1> QED  BY InitOk, NextOk, PTL DEF Spec

(* The state stays within its types, whatever goes wrong. *)
THEOREM TypesKept == Spec => []TypeOK
<1>1. IInv => TypeOK
  BY DEF IInv
<1> QED  BY <1>1, Invariant, PTL

(* A raise lands in the innermost lua_pcall or barrier, and there is one     *)
(* whenever the VM runs: luaD_throw, nativeCall, luaW_enter and luaW_exit    *)
(* agree on global->errorjmp in spite of every fault.                        *)
THEOREM RaisesLand == Spec => []JumpTarget
<1>1. IInv => JumpTarget
  <2> SUFFICES ASSUME IInv PROVE JumpTarget
    OBVIOUS
  <2>1. Linked(native, errorjmp) /\ native \in Seq(Frame) /\ Len(native) \in Nat
    BY LenProperties DEF IInv, TypeOK
  <2>2. Guards = GuardsOf(native)
    BY DEF Guards, GuardsOf, IsCallback
  <2>3. CASE native = <<>>
    <3>1. errorjmp = 0 /\ Len(native) = 0
      BY <2>1, <2>3 DEF Linked
    <3>2. Guards = {}
      BY <2>2, <3>1 DEF GuardsOf
    <3> QED  BY <3>1, <3>2 DEF JumpTarget
  <2>4. CASE native # <<>> /\ IsCallback(native[Len(native)])
    <3>1. errorjmp = Len(native) - 1 /\ Len(native) >= 1
      BY <2>1, <2>4, EmptySeq DEF Linked
    <3>2. Len(native) > 1 /\ ~IsCallback(native[Len(native) - 1])
      BY <2>1, <2>4, <3>1 DEF Linked
    <3>3. errorjmp \in GuardsOf(native)
      BY <2>1, <3>1, <3>2 DEF GuardsOf
    <3>4. ASSUME NEW k \in GuardsOf(native)
          PROVE  k <= errorjmp
      <4>1. k \in 1 .. Len(native) /\ k # Len(native)
        BY <2>4 DEF GuardsOf
      <4> QED  BY <2>1, <3>1, <4>1
    <3> QED  BY <2>2, <3>3, <3>4 DEF JumpTarget
  <2>5. CASE native # <<>> /\ ~IsCallback(native[Len(native)])
    <3>1. errorjmp = Len(native) /\ Len(native) >= 1
      BY <2>1, <2>5, EmptySeq DEF Linked
    <3>2. errorjmp \in GuardsOf(native)
      BY <2>1, <2>5, <3>1 DEF GuardsOf
    <3>3. \A k \in GuardsOf(native) : k <= errorjmp
      BY <2>1, <3>1 DEF GuardsOf
    <3> QED  BY <2>2, <3>2, <3>3 DEF JumpTarget
  <2> QED  BY <2>3, <2>4, <2>5
<1> QED  BY <1>1, Invariant, PTL

(* Kotlin code runs in its own frame and under its own count of C calls, if  *)
(* no exception escapes from a callback and no metamethod raises below a     *)
(* barrier: every return of the VM and every raise unwinds to where its call *)
(* began.                                                                    *)
THEOREM FramesInOrder ==
  ASSUME Tight
  PROVE  Spec => []FrameDiscipline
<1>1. IInv => FrameDiscipline
  <2> SUFFICES ASSUME IInv, KotlinRuns
               PROVE  /\ Len(ci) = IF native = <<>> THEN 1 ELSE Top.ci
                      /\ nCcalls = Cardinality(Guards)
    BY DEF FrameDiscipline
  <2>1. /\ Ordered(native, ci, nCcalls, stack)
        /\ InKotlin(native)
    BY KotlinFacts
  <2>2. Guards = GuardsOf(native)
    BY DEF Guards, GuardsOf, IsCallback
  <2>3. CASE native = <<>>
    BY Tight, <2>1, <2>2, <2>3 DEF Ordered, AtProgram, AtLeast
  <2>4. CASE native # <<>>
    <3>1. IsCallback(native[Len(native)])
      BY <2>1, <2>4 DEF InKotlin
    <3>2. AtLeast(Len(ci), Top.ci) /\ AtLeast(nCcalls, Cardinality(Guards))
      BY <2>1, <2>2, <2>4, <3>1 DEF Ordered, AtCallback, Top
    <3> QED  BY Tight, <2>4, <3>2 DEF AtLeast
  <2> QED  BY <2>3, <2>4
<1> QED  BY <1>1, Invariant, PTL

-----------------------------------------------------------------------------
(* A raise in the VM meets no callback on its way. *)
LEMMA VmRaiseLands ==
  ASSUME IInv, NEW phase, VmRuns(phase), NEW code, Raise(code)
  PROVE  mode' = "run"
<1>1. errorjmp = Len(native) /\ Len(native) \in Nat /\ Len(native) >= 1
  BY VmFacts
<1>2. errorjmp # 0 /\ ~\E k \in errorjmp + 1 .. Len(native) : native[k].kind = "callback"
  BY <1>1
<1>3. UNCHANGED mode
  BY <1>2 DEF Raise
<1> QED  BY <1>3 DEF VmRuns

(* No raise unwinds across a running callback, if the operations that have   *)
(* no barrier do not run out of memory: nothing else that Kotlin does can    *)
(* raise without a barrier above the trampoline's frame.                     *)
THEOREM BarriersSuffice ==
  ASSUME "rawmem" \notin Faults
  PROVE  Spec => []NoJumpOverKotlin
<1>1. Init => NoJumpOverKotlin
  BY DEF Init, NoJumpOverKotlin
<1>2. IInv /\ NoJumpOverKotlin /\ [Next]_vars => NoJumpOverKotlin'
  <2> SUFFICES ASSUME IInv, NoJumpOverKotlin, [Next]_vars, mode' # mode
               PROVE  mode' # "jumped"
    BY DEF NoJumpOverKotlin
  <2>1. ~RawAllocFails
    BY DEF RawAllocFails
  <2>2. CASE KotlinStep
    <3>1. CASE \E op \in CheckedOps, v \in Val, status \in {OK, ERRRUN, ERRMEM} : CheckedOp(op, v, status)
      BY <3>1 DEF CheckedOp, Conclude, ConcludeWith
    <3>2. CASE \E n \in 0 .. GetTop : CallbackReturns(n)
      BY <3>2 DEF CallbackReturns
    <3>3. CASE \E op \in CheckedOps : OpCallsMetamethod(op)
      BY <3>3 DEF OpCallsMetamethod
    <3>4. CASE \E nargs \in 0 .. GetTop - 1, nresults \in ResultCounts : NativeCall(nargs, nresults)
      BY <3>4 DEF NativeCall, NativeCallTo
    <3>5. CASE \/ \E v \in Val : Push(v) \/ UncheckedPush(v)
               \/ PushFunction
               \/ \E i \in 1 .. GetTop : PushValue(i) \/ RemoveSlot(i) \/ InsertSlot(i) \/ ReplaceSlot(i)
               \/ \E n \in 0 .. MaxStack : SetTop(n)
               \/ \E status \in {OK, ERRRUN} : SetMetaTable(status)
      BY <3>5 DEF Push, UncheckedPush, PushFunction, PushValue, RemoveSlot, InsertSlot,
                  ReplaceSlot, SetTop, SetMetaTable, Local
    <3>6. CASE CallbackThrows \/ CallbackThrowsThrough
      BY <3>6 DEF CallbackThrows, CallbackThrowsThrough
    <3> QED  BY <2>1, <2>2, <3>1, <3>2, <3>3, <3>4, <3>5, <3>6 DEF KotlinStep
  <2>3. CASE VmStep
    <3>1. CASE PrecallRaises \/ LuaRaises
      BY <3>1, VmRaiseLands DEF PrecallRaises, LuaRaises
    <3>2. CASE CallReturns
      BY <3>2 DEF CallReturns, Conclude, ConcludeWith
    <3>3. CASE BarrierReturns
      BY <3>3 DEF BarrierReturns, Conclude, ConcludeWith
    <3>4. CASE PrecallLua \/ PrecallKotlin \/ LuaRunsOn
      BY <3>4 DEF PrecallLua, PrecallKotlin, LuaRunsOn
    <3>5. CASE \E vals \in Lists : LuaCallsKotlin(vals) \/ LuaReturns(vals)
      BY <3>5 DEF LuaCallsKotlin, LuaReturns, LuaReturnsTo
    <3> QED  BY <2>3, <3>1, <3>2, <3>3, <3>4, <3>5 DEF VmStep
  <2> QED  BY <2>2, <2>3 DEF Next, vars
<1> QED  BY <1>1, <1>2, Invariant, PTL DEF Spec

(* While an exception is pending, the VM is on its way back to the request   *)
(* that ran the callback.                                                    *)
Underway == pending /\ mode = "run" => ~AtKotlin /\ Top.phase = "done"

(* The frames that CallbackThrows leaves end with a guard that is done. *)
LEMMA ThrowUnderway ==
  ASSUME IInv, CallbackThrows
  PROVE  Underway'
<1> DEFINE frames == Front(native)
           m == Len(native) - 1
           new == Completed(frames, OK)
<1>1. KotlinRuns /\ native # <<>> /\ native' = new
  BY DEF CallbackThrows, Finish
<1>2. m = Len(native) - 1
  OBVIOUS
<1> HIDE DEF m
<1>3. /\ m \in Nat /\ m \in 1 .. Len(native)
      /\ Caller = native[m] /\ Caller \in Frame /\ ~IsCallback(Caller) /\ m >= 1
      /\ frames \in Seq(Frame) /\ Len(frames) = m /\ frames # <<>>
      /\ \A i \in 1 .. m : frames[i] = native[i]
  BY <1>1, <1>2, CallbackFacts
<1> HIDE DEF frames
<1> DEFINE f == [frames[m] EXCEPT !.phase = "done", !.status = OK]
<1>4. m \in 1 .. m /\ frames[m] = Caller
  BY <1>3
<1>5. f \in Frame /\ f.kind = Caller.kind /\ f.phase = "done"
  BY <1>3, <1>4 DEF Frame, Statuses
<1>6. new = ReplaceAt(frames, m, f)
  BY <1>3 DEF Completed
<1> HIDE DEF f, new
<1>7. /\ new \in Seq(Frame) /\ Len(new) = m
      /\ \A i \in 1 .. m : new[i] = IF i = m THEN f ELSE frames[i]
  BY <1>3, <1>4, <1>5, <1>6, GuardsTouch
<1>8. new # <<>> /\ new[Len(new)] = f
  BY <1>3, <1>4, <1>7
<1> QED  BY <1>1, <1>3, <1>5, <1>8 DEF Underway, AtKotlin, Top, IsCallback

(* Only an escaping exception becomes pending. *)
LEMMA PendingKept ==
  ASSUME Next
  PROVE  CallbackThrows \/ CallbackThrowsThrough \/ pending' = pending \/ pending' = FALSE
<1>1. CASE KotlinStep
  <2>1. CASE \E op \in CheckedOps, v \in Val, status \in {OK, ERRRUN, ERRMEM} : CheckedOp(op, v, status)
    BY <2>1 DEF CheckedOp, Conclude, ConcludeWith
  <2>2. CASE \E op \in CheckedOps : OpCallsMetamethod(op)
    BY <2>2 DEF OpCallsMetamethod
  <2>3. CASE \E nargs \in 0 .. GetTop - 1, nresults \in ResultCounts : NativeCall(nargs, nresults)
    BY <2>3 DEF NativeCall, NativeCallTo
  <2>4. CASE (\E n \in 0 .. GetTop : CallbackReturns(n)) \/ RawAllocFails
    BY <2>4 DEF CallbackReturns, RawAllocFails
  <2>5. CASE \/ \E v \in Val : Push(v) \/ UncheckedPush(v)
             \/ PushFunction
             \/ \E i \in 1 .. GetTop : PushValue(i) \/ RemoveSlot(i) \/ InsertSlot(i) \/ ReplaceSlot(i)
             \/ \E n \in 0 .. MaxStack : SetTop(n)
             \/ \E status \in {OK, ERRRUN} : SetMetaTable(status)
    BY <2>5 DEF Push, UncheckedPush, PushFunction, PushValue, RemoveSlot, InsertSlot,
                ReplaceSlot, SetTop, SetMetaTable, Local
  <2> QED  BY <1>1, <2>1, <2>2, <2>3, <2>4, <2>5 DEF KotlinStep
<1>2. CASE VmStep
  <2>1. CASE CallReturns
    BY <2>1 DEF CallReturns, Conclude, ConcludeWith
  <2>2. CASE BarrierReturns
    BY <2>2 DEF BarrierReturns, Conclude, ConcludeWith
  <2>3. CASE PrecallLua \/ PrecallKotlin \/ PrecallRaises \/ LuaRaises \/ LuaRunsOn
    BY <2>3 DEF PrecallLua, PrecallKotlin, PrecallRaises, LuaRaises, LuaRunsOn
  <2>4. CASE \E vals \in Lists : LuaCallsKotlin(vals) \/ LuaReturns(vals)
    BY <2>4 DEF LuaCallsKotlin, LuaReturns, LuaReturnsTo
  <2> QED  BY <1>2, <2>1, <2>2, <2>3, <2>4 DEF VmStep
<1> QED  BY <1>1, <1>2 DEF Next

(* Who may take a step. *)
LEMMA Turns ==
  ASSUME Next
  PROVE  KotlinRuns \/ VmRuns("enter") \/ VmRuns("body") \/ CallReturns \/ BarrierReturns
<1>1. CASE KotlinStep
  BY <1>1 DEF KotlinStep, CheckedOp, OpCallsMetamethod, NativeCall, NativeCallTo,
     CallbackReturns, CallbackThrows, CallbackThrowsThrough, RawAllocFails, Push, UncheckedPush, PushFunction, PushValue,
     RemoveSlot, InsertSlot, ReplaceSlot, SetTop, SetMetaTable, Local
<1>2. CASE VmStep
  BY <1>2 DEF VmStep, PrecallLua, PrecallKotlin, PrecallRaises, LuaRaises, LuaRunsOn,
     LuaCallsKotlin, LuaReturns, LuaReturnsTo
<1> QED  BY <1>1, <1>2 DEF Next

(* An exception that escaped from a callback reaches the request that ran    *)
(* the callback before any Kotlin code runs again, as long as Lua code calls *)
(* the callbacks that throw itself, and not through a function of the VM:    *)
(* the other faults do not come in between.                                  *)
THEOREM EscapesDelivered ==
  ASSUME "through" \notin Faults
  PROVE  Spec => []PendingDelivered
<1>1. Init => Underway
  BY DEF Init, Underway
<1>2. IInv /\ Underway /\ [Next]_vars => Underway'
  <2> SUFFICES ASSUME IInv, Underway, [Next]_vars
               PROVE  Underway'
    OBVIOUS
  <2>1. CASE UNCHANGED vars
    BY <2>1 DEF vars, Underway, AtKotlin, Top
  <2>2. CASE Next /\ ~pending
    <3>1. pending = FALSE
      BY <2>2 DEF IInv, TypeOK
    <3>2. CallbackThrows \/ pending' = FALSE
      BY <2>2, <3>1, PendingKept DEF CallbackThrowsThrough
    <3> QED  BY <3>2, ThrowUnderway DEF Underway
  <2>3. CASE Next /\ pending
    <3>1. CallReturns \/ BarrierReturns
      BY <2>3, Turns DEF Underway, KotlinRuns, VmRuns
    <3>2. pending' = FALSE \/ mode' = "undefined"
      BY <3>1 DEF CallReturns, BarrierReturns, Conclude, ConcludeWith
    <3> QED  BY <3>2 DEF Underway
  <2> QED  BY <2>1, <2>2, <2>3
<1>3. Underway => PendingDelivered
  BY DEF Underway, PendingDelivered, KotlinRuns
<1> QED  BY <1>1, <1>2, <1>3, Invariant, PTL DEF Spec

(* Only a native call that begins or returns moves the jump buffer. *)
LEMMA JumpKept ==
  ASSUME Next
  PROVE  \/ errorjmp' = errorjmp
         \/ errorjmp' = Len(native) + 1
         \/ CallReturns
         \/ BarrierReturns
<1>1. CASE KotlinStep
  <2>1. CASE \E op \in CheckedOps, v \in Val, status \in {OK, ERRRUN, ERRMEM} : CheckedOp(op, v, status)
    BY <2>1 DEF CheckedOp
  <2>2. CASE \/ \E op \in CheckedOps : OpCallsMetamethod(op)
             \/ \E nargs \in 0 .. GetTop - 1, nresults \in ResultCounts : NativeCall(nargs, nresults)
    BY <2>2 DEF OpCallsMetamethod, NativeCall, NativeCallTo
  <2>3. CASE (\E n \in 0 .. GetTop : CallbackReturns(n)) \/ CallbackThrows \/ CallbackThrowsThrough
    BY <2>3 DEF CallbackReturns, CallbackThrows, CallbackThrowsThrough
  <2>4. CASE RawAllocFails
    BY <2>4 DEF RawAllocFails, Raise
  <2>5. CASE \/ \E v \in Val : Push(v) \/ UncheckedPush(v)
             \/ PushFunction
             \/ \E i \in 1 .. GetTop : PushValue(i) \/ RemoveSlot(i) \/ InsertSlot(i) \/ ReplaceSlot(i)
             \/ \E n \in 0 .. MaxStack : SetTop(n)
             \/ \E status \in {OK, ERRRUN} : SetMetaTable(status)
    BY <2>5 DEF Push, UncheckedPush, PushFunction, PushValue, RemoveSlot, InsertSlot,
                ReplaceSlot, SetTop, SetMetaTable, Local
  <2> QED  BY <1>1, <2>1, <2>2, <2>3, <2>4, <2>5 DEF KotlinStep
<1>2. CASE VmStep
  <2>1. CASE PrecallRaises \/ LuaRaises
    BY <2>1 DEF PrecallRaises, LuaRaises, Raise
  <2>2. CASE PrecallLua \/ PrecallKotlin \/ LuaRunsOn
    BY <2>2 DEF PrecallLua, PrecallKotlin, LuaRunsOn
  <2>3. CASE \E vals \in Lists : LuaCallsKotlin(vals) \/ LuaReturns(vals)
    BY <2>3 DEF LuaCallsKotlin, LuaReturns, LuaReturnsTo
  <2> QED  BY <1>2, <2>1, <2>2, <2>3 DEF VmStep
<1> QED  BY <1>1, <1>2 DEF Next

(* The outermost request returns by its own native call, which throws what  *)
(* is pending.                                                              *)
LEMMA Emptied ==
  ASSUME IInv, Next, native # <<>>, native' = <<>>, mode' = "run"
  PROVE  pending' = FALSE
<1>1. Linked(native, errorjmp) /\ Linked(native', errorjmp')
  BY NextOk DEF IInv
<1>2. native \in Seq(Frame) /\ Len(native) \in Nat /\ Len(native) >= 1
  BY LenProperties, EmptySeq DEF IInv, TypeOK
<1>3. errorjmp' = 0
  BY <1>1 DEF Linked
<1>4. errorjmp # 0
  BY <1>1, <1>2 DEF Linked
<1>5. CallReturns \/ BarrierReturns
  BY <1>2, <1>3, <1>4, JumpKept
<1> QED  BY <1>5 DEF CallReturns, BarrierReturns, Conclude, ConcludeWith

(* Even through the functions of the VM, and with every other fault: once    *)
(* the outermost request has returned, no exception is pending that it did   *)
(* not throw.                                                                *)
THEOREM NoneLeftBehind == Spec => []NonePendingAtReturn
<1>1. Init => NonePendingAtReturn
  BY DEF Init, NonePendingAtReturn
<1>2. IInv /\ NonePendingAtReturn /\ [Next]_vars => NonePendingAtReturn'
  <2> SUFFICES ASSUME IInv, NonePendingAtReturn, [Next]_vars, mode' = "run", native' = <<>>
               PROVE  pending' = FALSE
    BY DEF NonePendingAtReturn
  <2>1. CASE UNCHANGED vars
    BY <2>1 DEF vars, NonePendingAtReturn, IInv, TypeOK
  <2>2. CASE Next /\ mode = "run" /\ native = <<>>
    <3>1. pending = FALSE
      BY <2>2 DEF NonePendingAtReturn, IInv, TypeOK
    <3>2. ~CallbackThrows /\ ~CallbackThrowsThrough
      BY <2>2 DEF CallbackThrows, CallbackThrowsThrough
    <3> QED  BY <2>2, <3>1, <3>2, PendingKept
  <2>3. CASE Next /\ mode = "run" /\ native # <<>>
    BY <2>3, Emptied
  <2>4. CASE Next /\ mode # "run"
    BY <2>4, Turns DEF KotlinRuns, VmRuns, CallReturns, BarrierReturns
  <2> QED  BY <2>1, <2>2, <2>3, <2>4
<1> QED  BY <1>1, <1>2, Invariant, PTL DEF Spec
-----------------------------------------------------------------------------
(* No fault that Kotlin is not told of, or told of without a message. *)
Reported == Faults \cap {"escape", "metamethod", "unchecked", "barmem"} = {}

(* A call that failed has left its message where its function was.  The two *)
(* cells are clear whenever nobody is about to read them.                   *)
MessageLeft ==
  VmRuns("done") /\ Top.status # OK =>
    /\ Top.kind = "call"
    /\ Len(stack) = Top.func
    /\ Last(stack) = Message

Answered(o) == (o.thrown = "lua" <=> o.status # OK) /\ o.popped # "value"

Told ==
  /\ pending = FALSE
  /\ lastStatus = OK
  /\ mode # "undefined"
  /\ Answered(outcome)
  /\ MessageLeft

(* A message on top of what Kotlin had is popped; no failure, nothing is. *)
LEMMA ConcludeTold ==
  ASSUME pending = FALSE, Base \in Nat,
         NEW s \in Seq(Slot), NEW last, NEW res, NEW status,
         (last # OK \/ res # OK) <=> status # OK,
         status # OK => Len(s) > Base /\ Last(s) = Message,
         Conclude(s, last, res, status)
  PROVE  /\ pending' = FALSE
         /\ lastStatus' = OK
         /\ mode' = "run"
         /\ Answered(outcome')
<1> DEFINE thrown == Thrown(last, res)
<1>1. thrown = IF status # OK THEN "lua" ELSE "none"
  BY DEF Thrown
<1>2. /\ pending' = FALSE
      /\ outcome' = [thrown |-> thrown, status |-> status, popped |-> Popped(s, thrown)]
      /\ lastStatus' = IF thrown = "lua" THEN OK ELSE last
      /\ mode' = IF thrown = "lua" /\ Len(s) <= Base THEN "undefined" ELSE "run"
  BY DEF Conclude, ConcludeWith
<1> HIDE DEF thrown
<1>3. Len(s) \in Nat
  BY LenProperties
<1>4. CASE status # OK
  <2>1. s # <<>> /\ Last(s) = Message /\ ~(Len(s) <= Base)
    BY <1>3, <1>4
  <2>2. Popped(s, thrown) = "message"
    BY <1>1, <1>4, <2>1 DEF Popped
  <2> QED  BY <1>1, <1>2, <1>4, <2>1, <2>2 DEF Answered
<1>5. CASE status = OK
  <2>1. Popped(s, thrown) = "nothing"
    BY <1>1, <1>5 DEF Popped
  <2> QED  BY <1>1, <1>2, <1>5, <2>1 DEF Answered
<1> QED  BY <1>4, <1>5

(* A step that answers nothing: the cells stay, and no call failed by it. *)
LEMMA QuietStep ==
  ASSUME Told, pending' = pending, lastStatus' = OK, outcome' = outcome,
         mode' # "undefined",
         AtKotlin' \/ Top'.phase # "done" \/ Top'.status = OK
  PROVE  Told'
BY DEF Told, MessageLeft, VmRuns

(* What is removed below the top leaves the top alone. *)
LEMMA LastKept ==
  ASSUME NEW s \in Seq(Slot), NEW i \in 1 .. Len(s), i < Len(s)
  PROVE  Last(RemoveAt(s, i)) = Last(s)
<1>1. Len(s) \in Nat /\ Len(RemoveAt(s, i)) = Len(s) - 1
  BY LenProperties, RemoveAtOk
<1>2. Len(s) - 1 \in 1 .. Len(s) - 1 /\ ~(Len(s) - 1 < i) /\ Len(s) - 1 + 1 = Len(s)
  BY <1>1
<1>3. RemoveAt(s, i)[Len(s) - 1] = s[Len(s) - 1 + 1]
  BY <1>2, RemoveAtElements
<1> QED  BY <1>1, <1>2, <1>3 DEF Last

(* The last frame of a C stack that grew. *)
LEMMA TopPushed ==
  ASSUME NEW nat \in Seq(Frame), NEW f, native' = Append(nat, f)
  PROVE  Top' = f /\ native' # <<>>
<1>1. Len(nat) \in Nat
  BY LenProperties
<1>2. Len(Append(nat, f)) = Len(nat) + 1 /\ Append(nat, f)[Len(nat) + 1] = f
  BY <1>1
<1>3. Append(nat, f) # <<>>
  BY <1>1, <1>2
<1> QED  BY <1>2, <1>3 DEF Top

(* The last frame of one whose call ended. *)
LEMMA TopCompleted ==
  ASSUME NEW frames \in Seq(Frame), frames # <<>>, NEW status \in Statuses,
         native' = Completed(frames, status)
  PROVE  /\ Top'.status = status /\ Top'.kind = frames[Len(frames)].kind
         /\ Top'.func = frames[Len(frames)].func /\ Top'.ci = frames[Len(frames)].ci
<1> DEFINE g == frames[Len(frames)]
           f == [g EXCEPT !.phase = "done", !.status = status]
           new == Completed(frames, status)
<1>1. Len(frames) \in 1 .. Len(frames) /\ g \in Frame
  BY LenProperties, EmptySeq, ElementOfSeq
<1>2. f \in Frame /\ f.kind = g.kind /\ f.func = g.func /\ f.ci = g.ci /\ f.status = status
  BY <1>1 DEF Frame
<1>3. new = ReplaceAt(frames, Len(frames), f)
  BY DEF Completed
<1> HIDE DEF f, new
<1>4. Len(new) = Len(frames) /\ new[Len(frames)] = f
  BY <1>1, <1>2, <1>3, GuardsTouch
<1>5. Top' = f
  BY <1>4 DEF Top, new
<1> QED  BY <1>2, <1>5

-----------------------------------------------------------------------------
(* Kotlin's own work on its stack answers nothing. *)
LEMMA StackTold ==
  ASSUME Reported, Told,
         \/ \E v \in Val : Push(v) \/ UncheckedPush(v)
         \/ PushFunction
         \/ \E i \in 1 .. GetTop : PushValue(i) \/ RemoveSlot(i) \/ InsertSlot(i) \/ ReplaceSlot(i)
         \/ \E n \in 0 .. MaxStack : SetTop(n)
         \/ \E status \in {OK, ERRRUN} : SetMetaTable(status)
  PROVE  Told'
<1>1. "unchecked" \notin Faults /\ "barmem" \notin Faults
  BY DEF Reported
<1>2. /\ KotlinRuns
      /\ UNCHANGED <<native, pending, outcome, mode>>
  BY DEF Push, UncheckedPush, PushFunction, PushValue, RemoveSlot, InsertSlot, ReplaceSlot,
         SetTop, SetMetaTable, Local
<1>3. lastStatus' = OK
  BY <1>1 DEF Push, UncheckedPush, PushFunction, PushValue, RemoveSlot, InsertSlot, ReplaceSlot,
              SetTop, SetMetaTable, Local, Told
<1>4. AtKotlin' /\ mode' # "undefined"
  BY <1>2 DEF KotlinRuns, AtKotlin, Top
<1> QED  BY <1>2, <1>3, <1>4, QuietStep

(* An operation behind a barrier that ends within its native call. *)
LEMMA CheckedTold ==
  ASSUME Reported, IInv, Told, NEW op \in CheckedOps, NEW v \in Val, NEW status,
         CheckedOp(op, v, status)
  PROVE  Told'
<1>1. KotlinRuns /\ GetTop >= op.pops /\ UNCHANGED native /\ "barmem" \notin Faults
  BY DEF CheckedOp, Reported
<1>2. /\ stack \in Seq(Slot) /\ Len(stack) \in Nat
      /\ Base \in Nat /\ GetTop \in Int /\ Len(stack) = Base + GetTop
  BY <1>1, KotlinFacts
<1>3. op.pops \in 0 .. 2 /\ op.pushes \in 0 .. 1
  BY DEF CheckedOps
<1>4. pending = FALSE
  BY DEF Told
<1>5. /\ pending' = FALSE /\ lastStatus' = OK /\ mode' = "run" /\ Answered(outcome')
  <2>1. CASE status = OK
    <3> DEFINE rest    == SubSeq(stack, 1, Len(stack) - op.pops)
               results == Adjust(<<v>>, op.pushes)
               s       == rest \o results
    <3>1. Conclude(s, OK, OK, status)
      BY <1>1, <2>1 DEF CheckedOp, OK, ERRRUN
    <3>2. rest \in Seq(Slot)
      <4> DEFINE k == Len(stack) - op.pops
      <4>1. k \in Int /\ k <= Len(stack)
        BY <1>2, <1>3
      <4> HIDE DEF k
      <4> QED  BY <1>2, <4>1, SubSeqOk DEF k
    <3>3. results \in Seq(Slot)
      <4>1. <<v>> \in Seq(Slot)
        BY DEF Slot
      <4>2. op.pushes \in Int /\ op.pushes >= -1
        BY <1>3
      <4> QED  BY <4>1, <4>2, AdjustOk
    <3> HIDE DEF rest, results
    <3>4. s \in Seq(Slot)
      BY <3>2, <3>3, ConcatProperties
    <3> HIDE DEF s
    <3> QED  BY <1>2, <1>4, <2>1, <3>1, <3>4, ConcludeTold
  <2>2. CASE status # OK
    <3> DEFINE s == Append(stack, Message)
    <3>1. status = ERRRUN /\ Conclude(s, ERRRUN, OK, status)
      BY <1>1, <2>2 DEF CheckedOp
    <3>2. s \in Seq(Slot) /\ Len(s) = Len(stack) + 1 /\ Last(s) = Message
      BY <1>2, AppendProperties DEF Slot, Last
    <3> HIDE DEF s
    <3>3. Len(s) > Base
      BY <1>1, <1>2, <1>3, <3>2
    <3> QED  BY <1>2, <1>4, <2>2, <3>1, <3>2, <3>3, ConcludeTold
  <2> QED  BY <2>1, <2>2
<1>6. AtKotlin'
  BY <1>1 DEF KotlinRuns, AtKotlin, Top
<1> QED  BY <1>5, <1>6 DEF Told, MessageLeft, VmRuns

(* A request that begins has not ended. *)
LEMMA RequestTold ==
  ASSUME IInv, Told,
         \/ \E op \in CheckedOps : OpCallsMetamethod(op)
         \/ \E nargs \in 0 .. GetTop - 1, nresults \in ResultCounts : NativeCall(nargs, nresults)
  PROVE  Told'
<1>1. /\ UNCHANGED <<lastStatus, pending, outcome, mode>>
      /\ \E f : f.phase = "enter" /\ native' = Append(native, f)
  BY DEF OpCallsMetamethod, NativeCall, NativeCallTo, NativeFrame, NativeFrameFor
<1>2. PICK f : f.phase = "enter" /\ native' = Append(native, f)
  BY <1>1
<1>3. native \in Seq(Frame)
  BY DEF IInv, TypeOK
<1>4. Top' = f
  BY <1>2, <1>3, TopPushed
<1>5. lastStatus' = OK /\ mode' # "undefined"
  BY <1>1 DEF Told
<1> QED  BY <1>1, <1>2, <1>4, <1>5, QuietStep

(* Nor has one whose function is entered, ... *)
LEMMA EnterTold ==
  ASSUME IInv, Told,
         PrecallLua \/ PrecallKotlin \/ \E args \in Lists : LuaCallsKotlin(args)
  PROVE  Told'
<1>1. UNCHANGED <<lastStatus, pending, outcome, mode>> /\ \E phase : VmRuns(phase)
  BY DEF PrecallLua, PrecallKotlin, LuaCallsKotlin
<1>2. native # <<>> /\ native \in Seq(Frame) /\ Top \in Frame /\ Top = native[Len(native)]
  BY <1>1, VmFacts
<1>3. CASE PrecallLua
  <2> DEFINE f == [Top EXCEPT !.phase = "body"]
             new == ReplaceAt(native, Len(native), f)
  <2>1. f \in Frame /\ f.kind = Top.kind /\ f.phase = "body"
    BY <1>2 DEF Frame
  <2>2. native' = new
    BY <1>3 DEF PrecallLua, InPhase
  <2> HIDE DEF f
  <2>3. Len(new) = Len(native) /\ new[Len(native)] = f
    <3>1. Len(native) \in 1 .. Len(native)
      BY <1>2, LenProperties, EmptySeq
    <3> QED  BY <1>2, <2>1, <3>1, GuardsTouch
  <2>4. Top'.phase = "body"
    BY <2>1, <2>2, <2>3 DEF Top
  <2> QED  BY <1>1, <2>4, QuietStep DEF Told
<1>4. CASE PrecallKotlin \/ \E args \in Lists : LuaCallsKotlin(args)
  <2>1. \E nat \in {InPhase("direct"), native} : native' = Append(nat, CallbackFrame)
    BY <1>4 DEF PrecallKotlin, LuaCallsKotlin
  <2>2. InPhase("direct") \in Seq(Frame)
    <3> DEFINE f == [Top EXCEPT !.phase = "direct"]
    <3>1. f \in Frame /\ f.kind = Top.kind
      BY <1>2 DEF Frame
    <3> HIDE DEF f
    <3>2. ReplaceAt(native, Len(native), f) \in Seq(Frame)
      BY <1>2, <3>1, GuardsTouch
    <3> QED  BY <3>2 DEF InPhase, f
  <2>3. PICK nat \in Seq(Frame) : native' = Append(nat, CallbackFrame)
    BY <1>2, <2>1, <2>2
  <2>4. Top' = CallbackFrame
    BY <2>3, TopPushed
  <2>5. AtKotlin'
    BY <2>4 DEF AtKotlin, CallbackFrame
  <2> QED  BY <1>1, <2>5, QuietStep DEF Told
<1> QED  BY <1>3, <1>4

(* ... and one whose function returns has succeeded. *)
LEMMA FinishTold ==
  ASSUME Told, NEW frames \in Seq(Frame), frames # <<>>, native' = Completed(frames, OK),
         mode' = "run", UNCHANGED <<lastStatus, pending, outcome>>
  PROVE  Told'
<1>1. Top'.status = OK
  BY TopCompleted DEF Statuses
<1> QED  BY <1>1, QuietStep DEF Told

(* A callback pops its own call info, and its results end the call or go on *)
(* to the Lua code that called it.                                          *)
LEMMA CallbackReturnsTold ==
  ASSUME Reported, IInv, Told, NEW n \in 0 .. GetTop, CallbackReturns(n)
  PROVE  Told'
<1> DEFINE m == Len(native) - 1
<1>1. KotlinRuns /\ native # <<>> /\ UNCHANGED <<lastStatus, pending, outcome>>
  BY DEF CallbackReturns
<1>2. m = Len(native) - 1
  OBVIOUS
<1> HIDE DEF m
<1>3. /\ Caller = native[m] /\ Len(native) \in Nat /\ m >= 1
      /\ Caller.phase # "direct" => Caller.phase = "body"
      /\ AtLeast(Len(ci), native[Len(native)].ci)
      /\ Front(native) \in Seq(Frame) /\ Len(Front(native)) = m /\ Front(native) # <<>>
      /\ \A i \in 1 .. m : Front(native)[i] = native[i]
  BY <1>1, <1>2, CallbackFacts
<1>4. Len(ci) = Top.ci
  <2>1. Tight
    BY DEF Reported, Tight
  <2> QED  BY <1>3, <2>1 DEF AtLeast, Top
<1>5. mode' = "run"
  BY <1>4 DEF CallbackReturns
<1>6. CASE Caller.phase = "direct"
  <2>1. native' = Completed(Front(native), OK)
    BY <1>4, <1>6 DEF CallbackReturns, Finish
  <2> QED  BY <1>1, <1>3, <1>5, <2>1, FinishTold
<1>7. CASE Caller.phase # "direct"
  <2>1. native' = Front(native)
    BY <1>4, <1>7 DEF CallbackReturns
  <2>2. Top' = Caller
    <3>1. m \in 1 .. m
      BY <1>2, <1>3
    <3> QED  BY <1>3, <2>1, <3>1 DEF Top
  <2>3. Top'.phase # "done"
    BY <1>3, <1>7, <2>2
  <2> QED  BY <1>1, <1>5, <2>3, QuietStep DEF Told
<1> QED  BY <1>6, <1>7

(* A raise of the VM fails a call, and leaves the message in its place. *)
LEMMA RaiseTold ==
  ASSUME Reported, IInv, Told, PrecallRaises \/ LuaRaises
  PROVE  Told'
<1> DEFINE n == Len(native)
<1>1. PICK phase \in {"enter", "body"}, code \in {ERRRUN, ERRMEM} :
        /\ VmRuns(phase) /\ Raise(code) /\ UNCHANGED <<lastStatus, pending, outcome>>
        /\ phase = "enter" => ~Callable
        /\ phase = "body" => Top.kind = "call"
  BY DEF PrecallRaises, LuaRaises, Reported
<1> DEFINE status == IF CStackOverflows(nCcalls + 1) THEN ERRERR ELSE code
<1>2. /\ native # <<>> /\ native \in Seq(Frame)
      /\ n \in Nat /\ n >= 1 /\ n \in 1 .. n
      /\ Top = native[n] /\ Top \in Frame
      /\ ~IsCallback(Top) /\ Top.phase = phase
      /\ errorjmp = n
      /\ GuardAt(native, ci, n) /\ AtGuard(native, ci, nCcalls, stack)
      /\ stack \in Seq(Slot) /\ Len(stack) \in Nat
      /\ Top.ci \in 1 .. Len(ci) /\ ci \in Seq(Nat)
  <2>1. /\ Linked(native, errorjmp) /\ Ordered(native, ci, nCcalls, stack)
        /\ native \in Seq(Frame) /\ n \in 1 .. n /\ Top = native[n] /\ ci \in Seq(Nat)
    BY <1>1, VmFacts
  <2>2. Top.ci \in 1 .. Len(ci)
    BY <2>1, Heights, Grounded, LenProperties
  <2> QED  BY <1>1, <2>1, <2>2, VmFacts
<1>3. Top.kind = "call"
  <2>1. phase = "enter" => Top.kind = "call"
    BY <1>1, BarrierCallable
  <2> QED  BY <1>1, <2>1
<1>4. errorjmp # 0 /\ ~\E k \in errorjmp + 1 .. n : native[k].kind = "callback"
  BY <1>2
<1>5. SubSeq(native, 1, n) = native
  BY <1>2, SubSeqFull
<1>6. /\ stack' = Append(Below(Top.func), Message)
      /\ native' = Completed(native, status)
      /\ UNCHANGED mode
  <2>1. native[errorjmp] = Top /\ SubSeq(native, 1, errorjmp) = native
    BY <1>2, <1>5
  <2> HIDE DEF n
  <2>2. ~\E k \in errorjmp + 1 .. Len(native) : native[k].kind = "callback"
    BY <1>4 DEF n
  <2>3. Raise(code) /\ errorjmp # 0
    BY <1>1, <1>4
  <2> QED  BY <1>3, <2>1, <2>2, <2>3 DEF Raise
<1>7. status \in Statuses
  BY DEF Statuses
<1> HIDE DEF status, n
<1>8. Top.func \in Nat /\ Top.func >= 1 /\ Top.func <= Len(stack) + 1
  <2>2. ci[Top.ci] \in Nat
    BY <1>2, ElementOfSeq
  <2>3. Top.pops \in 0 .. 2 /\ Top.func \in Nat /\ Top.func > ci[Top.ci] + Top.pops
    BY <1>2 DEF GuardAt, Frame
  <2>4. Top.func <= Len(stack) + 1
    BY <1>2, <2>3 DEF AtGuard, n
  <2> QED  BY <2>2, <2>3, <2>4
<1>9. Below(Top.func) \in Seq(Slot) /\ Len(Below(Top.func)) = Top.func - 1
  <2> DEFINE slot == Top.func
  <2> HIDE DEF slot
  <2>1. slot \in Nat /\ slot >= 1 /\ slot <= Len(stack) + 1
    BY <1>8 DEF slot
  <2>2. Below(slot) \in Seq(Slot) /\ Len(Below(slot)) = slot - 1
    BY <1>2, <2>1, BelowOk
  <2> QED  BY <2>2 DEF slot
<1>10. Len(stack') = Top.func /\ Last(stack') = Message
  BY <1>6, <1>8, <1>9, AppendProperties DEF Last, Slot
<1>11. Top'.kind = "call" /\ Top'.func = Top.func
  BY <1>2, <1>3, <1>6, <1>7, TopCompleted DEF n
<1>12. MessageLeft'
  BY <1>10, <1>11 DEF MessageLeft
<1> QED  BY <1>1, <1>6, <1>12 DEF Told

-----------------------------------------------------------------------------
(* Where Kotlin code resumes. *)
LEMMA BackInKotlin ==
  ASSUME IInv, VmRuns("done"), native' = Front(native)
  PROVE  AtKotlin'
<1>1. /\ Linked(native, errorjmp) /\ native \in Seq(Frame) /\ native # <<>>
      /\ Len(native) \in Nat /\ Len(native) >= 1 /\ Len(native) \in 1 .. Len(native)
      /\ Top = native[Len(native)] /\ ~IsCallback(Top)
  BY VmFacts
<1> DEFINE n == Len(native)
           front == Front(native)
<1>2. /\ front \in Seq(Frame) /\ Len(front) = n - 1
      /\ \A i \in 1 .. n - 1 : front[i] = native[i]
  BY <1>1, FrontOk
<1>3. n \in Nat /\ n >= 1 /\ (n = 1 \/ IsCallback(native[n - 1]))
  BY <1>1 DEF Linked
<1> HIDE DEF front, n
<1>4. CASE n = 1
  <2>1. front = <<>>
    BY <1>2, <1>4, EmptySeq
  <2> QED  BY <2>1 DEF AtKotlin, front
<1>5. CASE n # 1
  <2>1. n - 1 \in 1 .. n - 1
    BY <1>3, <1>5
  <2>2. front[Len(front)].kind = "callback"
    BY <1>2, <1>3, <1>5, <2>1 DEF IsCallback
  <2> QED  BY <2>2 DEF AtKotlin, Top, front
<1> QED  BY <1>4, <1>5

(* The handler is where nativeCall computed it to be, below the results or  *)
(* the message of the call.                                                 *)
LEMMA CallReturnsTold ==
  ASSUME Reported, IInv, Told, CallReturns
  PROVE  Told'
<1> DEFINE handler == Base + Top.errfunc
<1>1. VmRuns("done") /\ Top.kind = "call" /\ native' = Front(native)
  BY DEF CallReturns
<1>2. /\ stack \in Seq(Slot) /\ Len(stack) \in Nat /\ Base \in Nat
      /\ Top.func \in Nat /\ Top.func <= Len(stack) + 1
      /\ Top.errfunc \in Int /\ Top.errfunc >= 1
  BY <1>1, DoneFacts
<1>3. Top.func > Base + Top.errfunc
  <2>1. /\ Top = native[Len(native)] /\ Len(ci) \in Nat /\ Top.ci \in Nat
        /\ GuardAt(native, ci, Len(native)) /\ AtGuard(native, ci, nCcalls, stack)
        /\ native # <<>> /\ ~IsCallback(Top) /\ Top.phase = "done"
    BY <1>1, VmFacts DEF Frame
  <2>2. Tight
    BY DEF Reported, Tight
  <2>3. Len(ci) = Top.ci
    BY <2>1, <2>2 DEF AtGuard, AtLeast
  <2>4. Base = ci[Top.ci]
    BY <2>3 DEF Base, Last
  <2>5. Top.func = ci[Top.ci] + Top.errfunc + 1
    BY <1>1, <2>1 DEF GuardAt
  <2> QED  BY <1>2, <2>4, <2>5
<1>4. /\ handler \in 1 .. Len(stack) /\ handler < Top.func
      /\ handler > Base
  BY <1>2, <1>3
<1> DEFINE s == RemoveAt(stack, handler)
<1>5. s \in Seq(Slot) /\ Len(s) = Len(stack) - 1
  BY <1>2, <1>4, RemoveAtOk
<1>6. Conclude(s, OK, Top.status, Top.status)
  BY <1>4 DEF CallReturns, Told
<1>7. Top.status # OK => Len(s) > Base /\ Last(s) = Message
  <2> SUFFICES ASSUME Top.status # OK
               PROVE  Len(s) > Base /\ Last(s) = Message
    OBVIOUS
  <2>1. Len(stack) = Top.func /\ Last(stack) = Message
    BY <1>1 DEF Told, MessageLeft
  <2>2. handler < Len(stack)
    BY <1>4, <2>1
  <2>3. Last(s) = Last(stack)
    BY <1>2, <1>4, <2>2, LastKept
  <2> QED  BY <1>2, <1>4, <1>5, <2>1, <2>2, <2>3
<1> HIDE DEF s, handler
<1>8. /\ pending' = FALSE /\ lastStatus' = OK /\ mode' = "run" /\ Answered(outcome')
  BY <1>2, <1>5, <1>6, <1>7, ConcludeTold DEF Told
<1>9. AtKotlin'
  BY <1>1, BackInKotlin
<1> QED  BY <1>8, <1>9 DEF Told, MessageLeft, VmRuns

(* No metamethod raises, so a barrier that ran one succeeds. *)
LEMMA BarrierReturnsTold ==
  ASSUME Reported, IInv, Told, BarrierReturns
  PROVE  Told'
<1> DEFINE results == SubSeq(stack, Top.func, Len(stack))
           below   == Below(Top.func - Top.pops)
           s       == below \o results
<1>1. VmRuns("done") /\ Top.kind = "barrier" /\ native' = Front(native)
  BY DEF BarrierReturns
<1>2. Top.status = OK
  BY <1>1 DEF Told, MessageLeft
<1>3. Conclude(s, OK, OK, OK)
  BY <1>2 DEF BarrierReturns
<1>4. /\ stack \in Seq(Slot) /\ Len(stack) \in Nat
      /\ Base \in Nat /\ ci[Top.ci] \in Nat
      /\ Top.func \in Nat /\ Top.pops \in 0 .. 2
      /\ Top.func > ci[Top.ci] + Top.pops
      /\ Top.func <= Len(stack) + 1
  BY <1>1, DoneFacts
<1>5. results \in Seq(Slot)
  <2> DEFINE k == Top.func
  <2>1. k \in Int /\ k >= 1
    BY <1>4
  <2> HIDE DEF k
  <2> QED  BY <1>4, <2>1, SubSeqOk DEF k
<1>6. below \in Seq(Slot)
  <2> DEFINE slot == Top.func - Top.pops
  <2>1. slot \in Nat /\ slot >= 1 /\ slot <= Len(stack) + 1
    BY <1>4
  <2> HIDE DEF slot
  <2> QED  BY <1>4, <2>1, BelowOk DEF slot
<1> HIDE DEF below, results
<1>7. s \in Seq(Slot)
  BY <1>5, <1>6, ConcatProperties
<1> HIDE DEF s
<1>8. /\ pending' = FALSE /\ lastStatus' = OK /\ mode' = "run" /\ Answered(outcome')
  BY <1>3, <1>4, <1>7, ConcludeTold DEF Told
<1>9. AtKotlin'
  BY <1>1, BackInKotlin
<1> QED  BY <1>8, <1>9 DEF Told, MessageLeft, VmRuns

-----------------------------------------------------------------------------
(* Told is inductive, given IInv. *)
LEMMA ToldInit == Init => Told
BY DEF Init, Told, Answered, MessageLeft, VmRuns, AtKotlin

(* Every step keeps it. *)
LEMMA ToldNext ==
  ASSUME Reported
  PROVE  IInv /\ Told /\ [Next]_vars => Told'
<1> SUFFICES ASSUME IInv, Told, [Next]_vars
             PROVE  Told'
  OBVIOUS
<1>1. CASE KotlinStep
  <2>1. CASE \/ \E v \in Val : Push(v) \/ UncheckedPush(v)
             \/ PushFunction
             \/ \E i \in 1 .. GetTop : PushValue(i) \/ RemoveSlot(i) \/ InsertSlot(i) \/ ReplaceSlot(i)
             \/ \E n \in 0 .. MaxStack : SetTop(n)
             \/ \E status \in {OK, ERRRUN} : SetMetaTable(status)
    BY Reported, <2>1, StackTold
  <2>2. CASE \E op \in CheckedOps, v \in Val, status \in {OK, ERRRUN, ERRMEM} : CheckedOp(op, v, status)
    BY Reported, <2>2, CheckedTold
  <2>3. CASE \/ \E op \in CheckedOps : OpCallsMetamethod(op)
             \/ \E nargs \in 0 .. GetTop - 1, nresults \in ResultCounts : NativeCall(nargs, nresults)
    BY <2>3, RequestTold
  <2>4. CASE \E n \in 0 .. GetTop : CallbackReturns(n)
    BY Reported, <2>4, CallbackReturnsTold
  <2>5. ~CallbackThrows /\ ~CallbackThrowsThrough
    BY Reported DEF CallbackThrows, CallbackThrowsThrough, Reported
  <2>6. CASE RawAllocFails
    <3>1. mode' \in {"aborted", "jumped"} /\ UNCHANGED <<lastStatus, pending, outcome>>
      BY <2>6, RawRaiseLands DEF RawAllocFails
    <3> QED  BY <3>1 DEF Told, MessageLeft, VmRuns
  <2> QED  BY <1>1, <2>1, <2>2, <2>3, <2>4, <2>5, <2>6 DEF KotlinStep
<1>2. CASE VmStep
  <2>1. CASE PrecallLua \/ PrecallKotlin \/ \E vals \in Lists : LuaCallsKotlin(vals)
    BY <2>1, EnterTold
  <2>2. CASE \E vals \in Lists : LuaReturns(vals)
    <3>1. /\ VmRuns("body") /\ native' = Completed(native, OK)
          /\ UNCHANGED <<lastStatus, pending, outcome, mode>>
      BY <2>2 DEF LuaReturns, LuaReturnsTo, Finish
    <3>2. native \in Seq(Frame) /\ native # <<>> /\ mode' = "run"
      BY <3>1, VmFacts DEF VmRuns
    <3> QED  BY <3>1, <3>2, FinishTold
  <2>3. CASE PrecallRaises \/ LuaRaises
    BY Reported, <2>3, RaiseTold
  <2>4. CASE CallReturns
    BY Reported, <2>4, CallReturnsTold
  <2>5. CASE BarrierReturns
    BY Reported, <2>5, BarrierReturnsTold
  <2>6. CASE LuaRunsOn
    <3>1. /\ UNCHANGED <<native, lastStatus, pending, outcome, mode>>
          /\ Top.phase = "body"
      BY <2>6 DEF LuaRunsOn, VmRuns
    <3>2. Top'.phase # "done"
      BY <3>1 DEF Top
    <3> QED  BY <3>1, <3>2, QuietStep DEF Told
  <2> QED  BY <1>2, <2>1, <2>2, <2>3, <2>4, <2>5, <2>6 DEF VmStep
<1>3. CASE UNCHANGED vars
  BY <1>3 DEF vars, Told, MessageLeft, VmRuns, AtKotlin, Top
<1> QED  BY <1>1, <1>2, <1>3 DEF Next

(* Nothing in the VM or the bridge reads a frame or a slot that is not its   *)
(* own: the callback that returns finds its own call info on top, nativeCall *)
(* its handler in the slot it computed before the call, and a LuaException   *)
(* takes its message from above the base.                                    *)
THEOREM NothingForeign ==
  ASSUME Reported
  PROVE  Spec => []OwnFramesOnly
<1>1. IInv /\ Told /\ [Next]_vars => Told'
  BY Reported, ToldNext
<1>2. Told => OwnFramesOnly
  BY DEF Told, OwnFramesOnly
<1> QED  BY <1>1, <1>2, ToldInit, Invariant, PTL DEF Spec

(* LuaState.call and the checked operations throw a LuaException exactly if  *)
(* they failed, and pop the message of that failure and nothing else.        *)
THEOREM FailuresReported ==
  ASSUME Reported
  PROVE  Spec => []OutcomeFaithful
<1>1. IInv /\ Told /\ [Next]_vars => Told'
  BY Reported, ToldNext
<1>2. Told => OutcomeFaithful
  BY DEF Told, Answered, OutcomeFaithful
<1> QED  BY <1>1, <1>2, ToldInit, Invariant, PTL DEF Spec

-----------------------------------------------------------------------------
(* The error handlers. *)

(* The slots that hold a handler, and those right below an open call. *)
HandlersOf(s) == {i \in 1 .. Len(s) : s[i] = Handler}
CallsOf(nat)  == {k \in 1 .. Len(nat) : nat[k].kind = "call"}
Spots(nat)    == {nat[k].func - 1 : k \in CallsOf(nat)}

(* The handlers are in place, and a call that is done has given back every *)
(* call info above the one that it began in.                               *)
HandlersRight == HandlersOf(stack) = Spots(native)

GivenBack ==
  native # <<>> /\ Top.kind = "call" /\ Top.phase = "done" => Len(ci) = Top.ci

Placed == mode = "run" => HandlersRight /\ GivenBack

(* The stack t is s up to slot b, and has no handler above. *)
Keeps(s, t, b) ==
  /\ b \in Nat /\ b <= Len(s) /\ b <= Len(t)
  /\ \A i \in 1 .. b : t[i] = s[i]
  /\ \A i \in b + 1 .. Len(t) : t[i] # Handler
-----------------------------------------------------------------------------
(* The handler is a value of its own. *)
LEMMA HandlerDistinct == Handler \notin {Plain, Fn, Message}
<1> SUFFICES ASSUME Handler \in {Plain, Fn, Message}
             PROVE  FALSE
  OBVIOUS
<1> DEFINE one == {} \cup {Plain}
           two == one \cup {Fn}
           three == two \cup {Message}
<1>1. IsFiniteSet({}) /\ Cardinality({}) = 0
  BY FS_EmptySet
<1>2. IsFiniteSet(one) /\ Cardinality(one) \in 0 .. 1
  BY <1>1, FS_AddElement
<1> HIDE DEF one
<1>3. IsFiniteSet(two) /\ Cardinality(two) \in 0 .. 2
  BY <1>2, FS_AddElement
<1> HIDE DEF two
<1>4. Cardinality(three) \in 0 .. 3
  BY <1>3, FS_AddElement
<1>5. three = {Plain, Fn, Handler, Message}
  BY DEF one, two
<1> HIDE DEF three
<1> QED  BY <1>4, <1>5, ConstantsAssumption

(* Nothing that is kept up to b loses or gains a handler. *)
LEMMA KeepsHandlers ==
  ASSUME NEW s \in Seq(Slot), NEW t \in Seq(Slot), NEW b, Keeps(s, t, b),
         HandlersOf(s) \subseteq 1 .. b
  PROVE  HandlersOf(t) = HandlersOf(s)
<1>1. Len(s) \in Nat /\ Len(t) \in Nat
  BY LenProperties
<1>2. \A i : i \in HandlersOf(s) => i \in 1 .. b
  OBVIOUS
<1>3. \A i : i \in HandlersOf(t) => i \in 1 .. b
  BY <1>1 DEF HandlersOf, Keeps
<1>4. \A i \in 1 .. b : i \in HandlersOf(t) <=> i \in HandlersOf(s)
  BY <1>1 DEF HandlersOf, Keeps
<1> QED  BY <1>2, <1>3, <1>4

(* What is kept and then lowered, not below b, is kept. *)
LEMMA KeepsFront ==
  ASSUME NEW s, NEW t \in Seq(Slot), NEW b, Keeps(s, t, b), Len(t) > b
  PROVE  Keeps(s, Front(t), b)
<1>1. /\ Len(t) \in Nat /\ t # <<>>
      /\ Len(Front(t)) = Len(t) - 1
      /\ \A i \in 1 .. Len(t) - 1 : Front(t)[i] = t[i]
  <2>1. Len(t) \in Nat /\ t # <<>>
    BY LenProperties, EmptySeq DEF Keeps
  <2> QED  BY <2>1, FrontOk
<1> QED  BY <1>1 DEF Keeps

(* What is kept and then raised by values is kept. *)
LEMMA KeepsJoined ==
  ASSUME NEW s, NEW t \in Seq(Slot), NEW b, Keeps(s, t, b),
         NEW vals \in Seq(Slot), \A i \in 1 .. Len(vals) : vals[i] # Handler
  PROVE  Keeps(s, t \o vals, b)
<1>1. /\ Len(t) \in Nat /\ Len(vals) \in Nat
      /\ Len(t \o vals) = Len(t) + Len(vals)
      /\ \A i \in 1 .. Len(t) + Len(vals) :
           (t \o vals)[i] = IF i <= Len(t) THEN t[i] ELSE vals[i - Len(t)]
  BY ConcatProperties, LenProperties
<1>2. ASSUME NEW i \in b + 1 .. Len(t \o vals)
      PROVE  (t \o vals)[i] # Handler
  <2>1. b \in Nat /\ b <= Len(t) /\ \A j \in b + 1 .. Len(t) : t[j] # Handler
    BY DEF Keeps
  <2>2. CASE i <= Len(t)
    BY <1>1, <2>1, <2>2
  <2>3. CASE ~(i <= Len(t))
    <3>1. i - Len(t) \in 1 .. Len(vals) /\ i \in 1 .. Len(t) + Len(vals)
      BY <1>1, <2>1, <2>3
    <3> QED  BY <1>1, <2>3, <3>1
  <2> QED  BY <2>2, <2>3
<1>3. ASSUME NEW i \in 1 .. b
      PROVE  (t \o vals)[i] = s[i]
  <2>1. b \in Nat /\ b <= Len(t) /\ t[i] = s[i]
    BY DEF Keeps
  <2>2. i \in 1 .. Len(t) + Len(vals) /\ i <= Len(t)
    BY <1>1, <2>1
  <2> QED  BY <1>1, <2>1, <2>2
<1>4. b \in Nat /\ b <= Len(s) /\ b <= Len(t \o vals)
  BY <1>1 DEF Keeps
<1> QED  BY <1>2, <1>3, <1>4 DEF Keeps

(* So is what one value is pushed on. *)
LEMMA KeepsPushed ==
  ASSUME NEW s, NEW t \in Seq(Slot), NEW b, Keeps(s, t, b), NEW v \in Slot, v # Handler
  PROVE  Keeps(s, Append(t, v), b)
<1>1. <<v>> \in Seq(Slot) /\ \A i \in 1 .. Len(<<v>>) : <<v>>[i] # Handler
  OBVIOUS
<1>2. Append(t, v) = t \o <<v>>
  BY AppendIsConcat
<1> QED  BY <1>1, <1>2, KeepsJoined

(* The stack below a slot is kept up to any slot below. *)
LEMMA KeepsBelow ==
  ASSUME stack \in Seq(Slot), NEW slot \in Nat, slot <= Len(stack) + 1,
         NEW b \in Nat, b < slot, HandlersOf(stack) \subseteq 1 .. b
  PROVE  Keeps(stack, Below(slot), b)
<1> DEFINE k == slot - 1
<1>1. k \in Nat /\ k <= Len(stack) /\ b <= k /\ Len(stack) \in Nat
  BY LenProperties
<1> HIDE DEF k
<1>2. /\ Len(SubSeq(stack, 1, k)) = k
      /\ \A i \in 1 .. k : SubSeq(stack, 1, k)[i] = stack[i]
  <2>1. \A i \in 1 .. k : i \in 1 .. k - 1 + 1 /\ stack[1 + i - 1] = stack[i]
    BY <1>1
  <2>2. Len(SubSeq(stack, 1, k)) = IF 1 <= k THEN k - 1 + 1 ELSE 0
    BY <1>1, SubSeqOk
  <2> QED  BY <1>1, <2>1, <2>2, SubSeqOk
<1>3. \A i \in b + 1 .. k : stack[i] # Handler
  BY <1>1 DEF HandlersOf
<1> QED  BY <1>1, <1>2, <1>3 DEF Keeps, Below, k

(* Results that hold no handler hold none when they are cut or filled up. *)
LEMMA AdjustedFree ==
  ASSUME NEW vals \in Seq(Slot), \A i \in 1 .. Len(vals) : vals[i] # Handler,
         NEW n \in Int, n >= -1
  PROVE  /\ Adjust(vals, n) \in Seq(Slot)
         /\ \A i \in 1 .. Len(Adjust(vals, n)) : Adjust(vals, n)[i] # Handler
<1>1. Adjust(vals, n) \in Seq(Slot) /\ (n # -1 => Len(Adjust(vals, n)) = n)
  BY AdjustOk
<1>2. CASE n = -1
  BY <1>1, <1>2 DEF Adjust, MULTRET
<1>3. CASE n # -1
  <2>1. Adjust(vals, n) = [i \in 1 .. n |-> IF i <= Len(vals) THEN vals[i] ELSE Plain]
    BY <1>3 DEF Adjust, MULTRET
  <2>2. Len(vals) \in Nat /\ Plain # Handler
    BY LenProperties, HandlerDistinct
  <2> QED  BY <1>1, <1>3, <2>1, <2>2
<1> QED  BY <1>2, <1>3

(* Results taken from above b. *)
LEMMA TakenFree ==
  ASSUME stack \in Seq(Slot), NEW b \in Nat, HandlersOf(stack) \subseteq 1 .. b,
         NEW k \in Int, k > b
  PROVE  /\ SubSeq(stack, k, Len(stack)) \in Seq(Slot)
         /\ \A i \in 1 .. Len(SubSeq(stack, k, Len(stack))) :
              SubSeq(stack, k, Len(stack))[i] # Handler
<1> DEFINE n == Len(stack)
           vals == SubSeq(stack, k, n)
<1>1. n \in Nat /\ k >= 1
  BY LenProperties
<1>2. /\ vals \in Seq(Slot)
      /\ Len(vals) = IF k <= n THEN n - k + 1 ELSE 0
      /\ \A i \in 1 .. n - k + 1 : vals[i] = stack[k + i - 1]
  BY <1>1, SubSeqOk
<1>3. ASSUME NEW i \in 1 .. Len(vals)
      PROVE  vals[i] # Handler
  <2>1. i \in 1 .. n - k + 1 /\ k + i - 1 \in 1 .. n /\ k + i - 1 \notin 1 .. b
    BY <1>1, <1>2, <1>3
  <2>2. stack[k + i - 1] # Handler
    BY <2>1 DEF HandlersOf
  <2> QED  BY <1>2, <2>1, <2>2
<1> QED  BY <1>2, <1>3
-----------------------------------------------------------------------------
(* The slots below the open calls change with the C stack. *)
LEMMA SpotsPush ==
  ASSUME NEW nat \in Seq(Frame), NEW f
  PROVE  Spots(Append(nat, f)) = IF f.kind = "call" THEN Spots(nat) \cup {f.func - 1}
                                 ELSE Spots(nat)
<1> DEFINE n == Len(nat)
           new == Append(nat, f)
<1>1. n \in Nat
  BY LenProperties
<1>2. Len(new) = n + 1 /\ new[n + 1] = f /\ \A i \in 1 .. n : new[i] = nat[i]
  BY <1>1
<1> HIDE DEF new
<1>3. CallsOf(new) = IF f.kind = "call" THEN CallsOf(nat) \cup {n + 1} ELSE CallsOf(nat)
  BY <1>1, <1>2 DEF CallsOf
<1>4. \A k \in CallsOf(nat) : new[k] = nat[k]
  BY <1>2 DEF CallsOf
<1> QED  BY <1>2, <1>3, <1>4 DEF Spots, new

(* A frame that keeps its function changes none. *)
LEMMA SpotsTouch ==
  ASSUME NEW nat \in Seq(Frame), nat # <<>>, NEW f \in Frame,
         f.kind = nat[Len(nat)].kind, f.func = nat[Len(nat)].func
  PROVE  Spots(ReplaceAt(nat, Len(nat), f)) = Spots(nat)
<1> DEFINE new == ReplaceAt(nat, Len(nat), f)
<1>1. Len(new) = Len(nat) /\ \A i \in 1 .. Len(nat) : new[i] = IF i = Len(nat) THEN f ELSE nat[i]
  BY GuardsTouch
<1> HIDE DEF new
<1>2. \A i \in 1 .. Len(nat) : new[i].kind = nat[i].kind /\ new[i].func = nat[i].func
  BY <1>1
<1>3. CallsOf(new) = CallsOf(nat)
  BY <1>1, <1>2 DEF CallsOf
<1>4. \A k \in CallsOf(nat) : new[k].func = nat[k].func
  BY <1>2 DEF CallsOf
<1> QED  BY <1>3, <1>4 DEF Spots, new

(* Nor does one that completes its call. *)
LEMMA SpotsCompleted ==
  ASSUME NEW nat \in Seq(Frame), nat # <<>>, NEW status \in Statuses
  PROVE  Spots(Completed(nat, status)) = Spots(nat)
<1> DEFINE g == nat[Len(nat)]
           f == [g EXCEPT !.phase = "done", !.status = status]
<1>1. g \in Frame
  BY ElementOfSeq, EmptySeq, LenProperties
<1>2. f \in Frame /\ f.kind = g.kind /\ f.func = g.func
  BY <1>1 DEF Frame
<1>3. Completed(nat, status) = ReplaceAt(nat, Len(nat), f)
  BY DEF Completed
<1> HIDE DEF f
<1> QED  BY <1>2, <1>3, SpotsTouch

(* One that returns takes its own away. *)
LEMMA SpotsPop ==
  ASSUME NEW nat \in Seq(Frame), nat # <<>>
  PROVE  LET top == nat[Len(nat)]
         IN  Spots(nat) = IF top.kind = "call" THEN Spots(Front(nat)) \cup {top.func - 1}
                          ELSE Spots(Front(nat))
<1> DEFINE n == Len(nat)
           new == Front(nat)
<1>1. n \in Nat /\ n >= 1
  BY LenProperties, EmptySeq
<1>2. Len(new) = n - 1 /\ \A i \in 1 .. n - 1 : new[i] = nat[i]
  BY FrontOk
<1> HIDE DEF new
<1>3. CallsOf(nat) = IF nat[n].kind = "call" THEN CallsOf(new) \cup {n} ELSE CallsOf(new)
  BY <1>1, <1>2 DEF CallsOf
<1>4. \A k \in CallsOf(new) : new[k] = nat[k]
  BY <1>2 DEF CallsOf
<1> QED  BY <1>3, <1>4 DEF Spots, new
-----------------------------------------------------------------------------
(* A guard's function lies at or below the base of every later frame. *)
LEMMA FuncsRise ==
  ASSUME IInv, mode = "run", NEW k \in GuardsOf(native), NEW j \in 1 .. Len(native), k < j
  PROVE  /\ native[k].func \in Nat
         /\ native[j].ci \in 1 .. Len(ci)
         /\ native[k].func <= ci[native[j].ci]
<1>1. /\ Ordered(native, ci, nCcalls, stack) /\ Linked(native, errorjmp)
      /\ native \in Seq(Frame) /\ ci \in Seq(Nat)
      /\ Len(native) \in Nat /\ Len(ci) \in Nat
      /\ k \in 1 .. Len(native) /\ ~IsCallback(native[k])
  BY LenProperties DEF IInv, TypeOK, GuardsOf
<1>2. k + 1 \in 1 .. Len(native) /\ k + 1 <= j /\ k < Len(native)
  BY <1>1
<1>3. IsCallback(native[k + 1])
  <2>1. k + 1 > 1 /\ k + 1 - 1 = k
    BY <1>1
  <2> QED  BY <1>1, <1>2, <2>1 DEF Linked
<1>4. GuardAt(native, ci, k) /\ CallbackAt(native, ci, k + 1)
  BY <1>1, <1>2, <1>3 DEF Ordered, Nested
<1>5. native[k].ci \in Nat /\ native[k].func \in Nat /\ \A i \in 1 .. Len(native) : native[i].ci \in 1 .. Len(ci)
  <2>1. native[k] \in Frame
    BY <1>1, ElementOfSeq
  <2>2. \A i \in 1 .. Len(native) : native[i].ci \in Nat /\ native[i].ci <= Len(ci)
    BY <1>1, Heights
  <2>3. \A i \in 1 .. Len(native) : native[i].ci >= 1
    BY <1>1, Grounded
  <2>4. native[k].ci \in Nat /\ native[k].func \in Nat
    BY <2>1 DEF Frame
  <2>5. \A i \in 1 .. Len(native) : native[i].ci \in 1 .. Len(ci)
    BY <1>1, <2>2, <2>3
  <2> QED  BY <2>4, <2>5
<1>6. ci[native[k].ci + 1] = native[k].func
  BY <1>1, <1>2, <1>4 DEF GuardAt
<1>7. native[k].ci + 1 <= native[k + 1].ci
  <2>1. native[k + 1 - 1] = native[k]
    BY <1>1
  <2>2. native[k + 1].ci >= native[k].ci + 1 \/ native[k + 1].ci >= native[k].ci + 2
    BY <1>1, <1>4, <2>1 DEF CallbackAt, Within
  <2>3. native[k + 1].ci \in Int
    BY <1>2, <1>5
  <2> QED  BY <1>5, <2>2, <2>3
<1>8. native[k + 1].ci <= native[j].ci
  <2>1. Nested(native, ci)
    BY ONLY <1>1 DEF Ordered
  <2>2. \A a, b \in 1 .. Len(native) : a <= b => native[a].ci <= native[b].ci
    BY ONLY <2>1 DEF Nested
  <2>3. k + 1 \in 1 .. Len(native) /\ j \in 1 .. Len(native) /\ k + 1 <= j
    BY ONLY <1>1, <1>2, j \in 1 .. Len(native), k < j
  <2> QED  BY ONLY <2>2, <2>3
<1>9. native[k].ci + 1 \in 1 .. Len(ci) /\ native[k].ci + 1 <= native[j].ci
  <2>1. /\ native[k].ci \in Nat /\ Len(ci) \in Nat
        /\ native[k + 1].ci \in 1 .. Len(ci) /\ native[j].ci \in 1 .. Len(ci)
    BY ONLY <1>1, <1>2, <1>5, j \in 1 .. Len(native)
  <2> DEFINE a == native[k].ci
             b == native[k + 1].ci
             e == native[j].ci
             l == Len(ci)
  <2>2. a \in Nat /\ l \in Nat /\ b \in 1 .. l /\ e \in 1 .. l /\ a + 1 <= b /\ b <= e
    BY ONLY <1>7, <1>8, <2>1
  <2> HIDE DEF a, b, e, l
  <2>3. a + 1 \in 1 .. l /\ a + 1 <= e
    BY ONLY <2>2
  <2> QED  BY ONLY <2>3 DEF a, e, l
<1>10. ci[native[k].ci + 1] <= ci[native[j].ci]
  BY <1>1, <1>5, <1>9 DEF Ordered, Rising
<1> QED  BY <1>5, <1>6, <1>10

(* When Kotlin code runs, all handlers lie below its base. *)
LEMMA KotlinAbove ==
  ASSUME IInv, KotlinRuns, HandlersRight
  PROVE  /\ Base >= 1 => HandlersOf(stack) \subseteq 1 .. Base - 1
         /\ HandlersOf(stack) \subseteq 1 .. Base
         /\ native = <<>> \/ ~(Top.kind = "call")
<1>1. /\ Ordered(native, ci, nCcalls, stack) /\ Linked(native, errorjmp) /\ InKotlin(native)
      /\ stack \in Seq(Slot) /\ ci \in Seq(Nat) /\ native \in Seq(Frame)
      /\ Len(stack) \in Nat /\ Len(ci) \in Nat /\ Len(native) \in Nat
      /\ Len(ci) \in 1 .. Len(ci) /\ Base \in Nat /\ Base = ci[Len(ci)]
  BY KotlinFacts
<1>2. native = <<>> \/ ~(Top.kind = "call")
  BY <1>1 DEF InKotlin, IsCallback, Top
<1>3. ASSUME NEW h \in HandlersOf(stack)
      PROVE  h <= Base - 1
  <2>1. PICK k \in CallsOf(native) : h = native[k].func - 1
    BY DEF HandlersRight, Spots
  <2>2. k \in GuardsOf(native) /\ k \in 1 .. Len(native)
    BY <2>1 DEF CallsOf, GuardsOf, IsCallback
  <2>3. native # <<>> /\ Len(native) \in 1 .. Len(native)
    BY <1>1, <2>2, EmptySeq
  <2>4. k < Len(native)
    <3>1. k # Len(native)
      BY <1>2, <2>1, <2>3 DEF CallsOf, Top
    <3> QED  BY <1>1, <2>2, <3>1
  <2>5. /\ native[k].func \in Nat /\ native[Len(native)].ci \in 1 .. Len(ci)
        /\ native[k].func <= ci[native[Len(native)].ci]
    BY <2>2, <2>3, <2>4, FuncsRise DEF KotlinRuns
  <2>6. ci[native[Len(native)].ci] <= Base
    <3>1. native[Len(native)].ci <= Len(ci)
      BY <1>1, <2>5
    <3> QED  BY <1>1, <2>5, <3>1 DEF Ordered, Rising
  <2>7. ci[native[Len(native)].ci] \in Nat
    BY <1>1, <2>5, ElementOfSeq
  <2>8. \A f, c, b \in Nat : f <= c /\ c <= b => f - 1 <= b - 1
    OBVIOUS
  <2>9. native[k].func - 1 <= Base - 1
    BY <1>1, <2>5, <2>6, <2>7, <2>8
  <2> QED  BY <2>1, <2>9
<1>4. HandlersOf(stack) \subseteq 1 .. Len(stack)
  BY DEF HandlersOf
<1>5. HandlersOf(stack) \subseteq 1 .. Base
  BY <1>1, <1>3, <1>4
<1>6. Base >= 1 => HandlersOf(stack) \subseteq 1 .. Base - 1
  BY <1>1, <1>3, <1>4
<1> QED  BY <1>2, <1>5, <1>6

(* While the VM runs, those of the other calls lie below the base of the    *)
(* innermost guard, and so does its own, if it is a call, below its function. *)
LEMMA VmAbove ==
  ASSUME IInv, NEW phase, VmRuns(phase), HandlersRight
  PROVE  /\ Top.ci \in 1 .. Len(ci) /\ ci[Top.ci] \in Nat
         /\ Top.func \in Nat /\ Top.func > ci[Top.ci]
         /\ HandlersOf(stack) \subseteq 1 .. Top.func - 1
         /\ Top.kind # "call" => HandlersOf(stack) \subseteq 1 .. ci[Top.ci]
         /\ Top.kind = "call" =>
              /\ Top.func = ci[Top.ci] + Top.errfunc + 1 /\ Top.errfunc \in Nat /\ Top.errfunc >= 1
              /\ HandlersOf(stack) \ {Top.func - 1} \subseteq 1 .. ci[Top.ci]
              /\ Spots(Front(native)) = HandlersOf(stack) \ {Top.func - 1}
<1> DEFINE n == Len(native)
<1>1. /\ Ordered(native, ci, nCcalls, stack) /\ Linked(native, errorjmp)
      /\ native # <<>> /\ native \in Seq(Frame)
      /\ n \in Nat /\ n \in 1 .. n
      /\ Top = native[n] /\ Top \in Frame /\ GuardAt(native, ci, n)
      /\ ci \in Seq(Nat) /\ Len(ci) \in Nat
  BY VmFacts
<1>2. Top.ci \in 1 .. Len(ci)
  BY <1>1, Heights, Grounded
<1>3. ci[Top.ci] \in Nat
  BY <1>1, <1>2, ElementOfSeq
<1>4. /\ Top.func \in Nat /\ Top.func > ci[Top.ci]
      /\ Top.kind = "call" =>
           Top.func = ci[Top.ci] + Top.errfunc + 1 /\ Top.errfunc \in Nat /\ Top.errfunc >= 1
  <2>1. Top.func \in Nat /\ Top.pops \in 0 .. 2 /\ Top.errfunc \in Int
    BY <1>1 DEF Frame
  <2>2. /\ Top.func > ci[Top.ci] + Top.pops
        /\ Top.kind = "call" => Top.errfunc >= 1 /\ Top.func = ci[Top.ci] + Top.errfunc + 1
    BY <1>1 DEF GuardAt
  <2> QED  BY <1>3, <2>1, <2>2
<1>5. ASSUME NEW k \in CallsOf(native), k # n
      PROVE  native[k].func \in Nat /\ native[k].func <= ci[Top.ci]
  <2>1. k \in GuardsOf(native) /\ k < n
    BY <1>1, <1>5 DEF CallsOf, GuardsOf, IsCallback
  <2> HIDE DEF n
  <2>2. n \in 1 .. Len(native)
    BY <1>1 DEF n
  <2>3. native[k].func \in Nat /\ native[k].func <= ci[native[n].ci]
    BY <2>1, <2>2, FuncsRise DEF VmRuns
  <2> QED  BY <1>1, <2>3
<1>6. \A h \in HandlersOf(stack) : h \in 1 .. Len(stack) /\ Len(stack) \in Nat
  BY LenProperties DEF HandlersOf, IInv, TypeOK
<1>7. ASSUME NEW h \in HandlersOf(stack)
      PROVE  \/ h <= ci[Top.ci] - 1
             \/ Top.kind = "call" /\ h = Top.func - 1
  <2>1. PICK k \in CallsOf(native) : h = native[k].func - 1
    BY DEF HandlersRight, Spots
  <2>2. CASE k = n
    BY <1>1, <2>1, <2>2 DEF CallsOf
  <2>3. CASE k # n
    BY <1>3, <1>5, <2>1, <2>3
  <2> QED  BY <2>2, <2>3
<1>8. HandlersOf(stack) \subseteq 1 .. Top.func - 1
  BY <1>3, <1>4, <1>6, <1>7
<1>9. Top.kind # "call" => HandlersOf(stack) \subseteq 1 .. ci[Top.ci]
  BY <1>3, <1>6, <1>7
<1>10. ASSUME Top.kind = "call"
       PROVE  /\ HandlersOf(stack) \ {Top.func - 1} \subseteq 1 .. ci[Top.ci]
              /\ Spots(Front(native)) = HandlersOf(stack) \ {Top.func - 1}
  <2>1. HandlersOf(stack) \ {Top.func - 1} \subseteq 1 .. ci[Top.ci]
    BY <1>3, <1>6, <1>7
  <2>2. Spots(native) = Spots(Front(native)) \cup {Top.func - 1}
    BY <1>1, <1>10, SpotsPop
  <2>3. Top.func - 1 \notin Spots(Front(native))
    <3>1. /\ Len(Front(native)) = n - 1
          /\ \A i \in 1 .. n - 1 : Front(native)[i] = native[i]
      BY <1>1, FrontOk
    <3>2. \A k \in CallsOf(Front(native)) : k \in CallsOf(native) /\ k # n /\ Front(native)[k] = native[k]
      BY <1>1, <3>1 DEF CallsOf
    <3>3. \A k \in CallsOf(Front(native)) : Front(native)[k].func - 1 # Top.func - 1
      BY <1>3, <1>4, <1>5, <3>2
    <3> QED  BY <3>3 DEF Spots
  <2> QED  BY <2>1, <2>2, <2>3 DEF HandlersRight
<1> QED  BY <1>2, <1>3, <1>4, <1>8, <1>9, <1>10
-----------------------------------------------------------------------------
(* Kotlin code keeps the handlers where they are. *)
LEMMA LocalPlaced ==
  ASSUME IInv, Placed, KotlinRuns, UNCHANGED native,
         stack' \in Seq(Slot),
         mode' = "run" => \E b : Keeps(stack, stack', b) /\ HandlersOf(stack) \subseteq 1 .. b
  PROVE  Placed'
<1> SUFFICES ASSUME mode' = "run"
             PROVE  HandlersRight' /\ GivenBack'
  BY DEF Placed
<1>1. HandlersRight /\ stack \in Seq(Slot)
  BY KotlinFacts DEF Placed, KotlinRuns
<1>2. PICK b : Keeps(stack, stack', b) /\ HandlersOf(stack) \subseteq 1 .. b
  OBVIOUS
<1>3. HandlersOf(stack') = HandlersOf(stack)
  BY <1>1, <1>2, KeepsHandlers
<1>4. HandlersRight'
  BY <1>1, <1>3 DEF HandlersRight
<1>5. native = <<>> \/ ~(Top.kind = "call")
  BY <1>1, KotlinAbove
<1> QED  BY <1>4, <1>5 DEF GivenBack, Top

(* The stack, as Kotlin code finds it, is kept up to its base or to its top. *)
LEMMA StackKept ==
  ASSUME IInv, Placed, KotlinRuns, NEW b \in Nat, b = Len(stack) \/ b = Base, b <= Len(stack)
  PROVE  /\ HandlersOf(stack) \subseteq 1 .. b
         /\ Keeps(stack, stack, b)
<1>1. HandlersRight /\ stack \in Seq(Slot) /\ Len(stack) \in Nat
  BY KotlinFacts DEF Placed, KotlinRuns
<1>2. HandlersOf(stack) \subseteq 1 .. Len(stack)
  BY DEF HandlersOf
<1>3. HandlersOf(stack) \subseteq 1 .. Base
  BY <1>1, KotlinAbove
<1>4. HandlersOf(stack) \subseteq 1 .. b
  BY <1>2, <1>3
<1>5. \A i \in b + 1 .. Len(stack) : stack[i] # Handler
  <2>1. \A i \in b + 1 .. Len(stack) : i \in 1 .. Len(stack) /\ i \notin 1 .. b
    BY <1>1
  <2> QED  BY <1>4, <2>1 DEF HandlersOf
<1> QED  BY <1>1, <1>4, <1>5 DEF Keeps

(* The operations on Kotlin's own stack. *)
LEMMA StackPlaced ==
  ASSUME IInv, Placed,
         \/ \E v \in Val : Push(v) \/ UncheckedPush(v)
         \/ PushFunction
         \/ \E i \in 1 .. GetTop : PushValue(i) \/ RemoveSlot(i) \/ InsertSlot(i) \/ ReplaceSlot(i)
         \/ \E n \in 0 .. MaxStack : SetTop(n)
         \/ \E status \in {OK, ERRRUN} : SetMetaTable(status)
  PROVE  Placed'
<1>1. KotlinRuns /\ UNCHANGED native
  BY DEF Push, UncheckedPush, PushFunction, PushValue, RemoveSlot, InsertSlot, ReplaceSlot,
         SetTop, SetMetaTable, Local
<1>2. /\ stack \in Seq(Slot) /\ Len(stack) \in Nat
      /\ Base \in Nat /\ GetTop \in Int /\ Len(stack) = Base + GetTop
      /\ stack' \in Seq(Slot)
  <2>1. stack' \in Seq(Slot)
    BY StackStep DEF IInv, TypeOK
  <2> QED  BY <1>1, <2>1, KotlinFacts
<1>3. \A v \in Val \cup {Message} : v \in Slot /\ v # Handler
  BY HandlerDistinct DEF Slot, Val
<1>4. ASSUME GetTop >= 0
      PROVE  /\ Base <= Len(stack)
             /\ HandlersOf(stack) \subseteq 1 .. Base
             /\ Keeps(stack, stack, Base)
  BY <1>1, <1>2, <1>4, StackKept
<1>5. \A v \in Val \cup {Message} : stack' = Append(stack, v) => Placed'
  <2> SUFFICES ASSUME NEW v \in Val \cup {Message}, stack' = Append(stack, v)
               PROVE  Placed'
    OBVIOUS
  <2>1. HandlersOf(stack) \subseteq 1 .. Len(stack) /\ Keeps(stack, stack, Len(stack))
    BY <1>1, <1>2, StackKept
  <2>2. Keeps(stack, stack', Len(stack))
    BY <1>2, <1>3, <2>1, KeepsPushed
  <2> QED  BY <1>1, <1>2, <2>1, <2>2, LocalPlaced
<1>6. ASSUME GetTop >= 1, stack' = Front(stack)
      PROVE  Placed'
  <2>1. Keeps(stack, stack, Base) /\ HandlersOf(stack) \subseteq 1 .. Base /\ Len(stack) > Base
    BY <1>2, <1>4, <1>6
  <2>2. Keeps(stack, stack', Base)
    BY <1>2, <1>6, <2>1, KeepsFront
  <2> QED  BY <1>1, <1>2, <2>1, <2>2, LocalPlaced
<1>7. ASSUME NEW i \in 1 .. GetTop
      PROVE  /\ GetTop >= 1 /\ Base + i \in 1 .. Len(stack) /\ Base + i > Base
             /\ Keeps(stack, stack, Base) /\ HandlersOf(stack) \subseteq 1 .. Base
             /\ Base <= Len(stack) - 1
             /\ stack[Base + i] \in Slot /\ stack[Base + i] # Handler
             /\ Last(stack) \in Slot /\ Last(stack) # Handler
  <2>1. /\ GetTop >= 1 /\ Base + i \in 1 .. Len(stack) /\ Base + i > Base
        /\ Base <= Len(stack) - 1 /\ Len(stack) \in 1 .. Len(stack) /\ Len(stack) > Base
    BY <1>2
  <2>2. Keeps(stack, stack, Base) /\ HandlersOf(stack) \subseteq 1 .. Base
    BY <1>2, <1>4, <2>1
  <2>3. \A j \in 1 .. Len(stack) : j > Base => stack[j] \in Slot /\ stack[j] # Handler
    <3>1. \A j \in 1 .. Len(stack) : stack[j] \in Slot
      BY <1>2, ElementOfSeq
    <3> QED  BY <1>2, <2>2, <3>1 DEF HandlersOf
  <2> QED  BY <2>1, <2>2, <2>3 DEF Last
<1>8. CASE \/ \E v \in Val : Push(v) \/ UncheckedPush(v)
           \/ PushFunction
  <2>1. (\E v \in Val : stack' = Append(stack, v)) \/ UNCHANGED stack
    BY <1>8 DEF Push, UncheckedPush, PushFunction, Local, Val
  <2>2. CASE UNCHANGED stack
    <3>1. HandlersRight /\ mode = "run"
      BY <1>1 DEF Placed, KotlinRuns
    <3>2. HandlersRight' /\ GivenBack'
      BY <1>1, <2>2, <3>1 DEF HandlersRight, GivenBack, KotlinRuns, AtKotlin, Top
    <3> QED  BY <3>2 DEF Placed
  <2> QED  BY <1>5, <2>1, <2>2
<1>9. ASSUME NEW i \in 1 .. GetTop, PushValue(i)
      PROVE  Placed'
  <2>1. stack' = Append(stack, stack[Base + i])
    BY <1>9 DEF PushValue, Local
  <2> DEFINE v == stack[Base + i]
  <2>2. v \in Slot /\ v # Handler /\ Keeps(stack, stack, Base) /\ HandlersOf(stack) \subseteq 1 .. Base
    BY <1>7
  <2> HIDE DEF v
  <2>3. Keeps(stack, Append(stack, v), Base)
    BY <1>2, <2>2, KeepsPushed
  <2> QED  BY <1>1, <1>2, <2>1, <2>2, <2>3, LocalPlaced DEF v
<1>10. ASSUME NEW i \in 1 .. GetTop, RemoveSlot(i)
       PROVE  Placed'
  <2> DEFINE k == Base + i
  <2>1. k \in 1 .. Len(stack) /\ k > Base /\ Base <= Len(stack) - 1
        /\ Keeps(stack, stack, Base) /\ HandlersOf(stack) \subseteq 1 .. Base
    BY <1>7
  <2>2. stack' = RemoveAt(stack, k)
    BY <1>10 DEF RemoveSlot, Local
  <2> HIDE DEF k
  <2>3. /\ Len(stack') = Len(stack) - 1
        /\ \A j \in 1 .. Len(stack) - 1 : stack'[j] = IF j < k THEN stack[j] ELSE stack[j + 1]
    BY <1>2, <2>1, <2>2, RemoveAtOk, RemoveAtElements
  <2>4. Keeps(stack, stack', Base)
    <3>1. ASSUME NEW j \in 1 .. Base
          PROVE  stack'[j] = stack[j]
      BY <1>2, <2>1, <2>3
    <3>2. ASSUME NEW j \in Base + 1 .. Len(stack')
          PROVE  stack'[j] # Handler
      <4>1. j \in Base + 1 .. Len(stack) /\ j + 1 \in Base + 1 .. Len(stack)
        BY <1>2, <2>3
      <4>2. stack[j] # Handler /\ stack[j + 1] # Handler
        BY <2>1, <4>1 DEF Keeps
      <4> QED  BY <1>2, <2>3, <4>2
    <3> QED  BY <1>2, <2>1, <2>3, <3>1, <3>2 DEF Keeps
  <2> QED  BY <1>1, <1>2, <2>1, <2>4, LocalPlaced
<1>11. ASSUME NEW i \in 1 .. GetTop, InsertSlot(i)
       PROVE  Placed'
  <2> DEFINE k == Base + i
             front == Front(stack)
             v == Last(stack)
  <2>1. k \in 1 .. Len(stack) /\ k > Base /\ Base <= Len(stack) - 1
        /\ Keeps(stack, stack, Base) /\ HandlersOf(stack) \subseteq 1 .. Base
        /\ v \in Slot /\ v # Handler
    BY <1>7
  <2>2. stack' = InsertAt(front, k, v)
    BY <1>11 DEF InsertSlot, Local
  <2>3. /\ front \in Seq(Slot) /\ Len(front) = Len(stack) - 1
        /\ \A j \in 1 .. Len(stack) - 1 : front[j] = stack[j]
    <3>1. stack # <<>>
      BY <1>2, <2>1
    <3> QED  BY <1>2, <3>1, FrontOk
  <2> HIDE DEF k, front, v
  <2>4. k \in 1 .. Len(front) + 1
    BY <1>2, <2>1, <2>3
  <2>5. /\ Len(stack') = Len(stack)
        /\ \A j \in 1 .. Len(stack) :
             stack'[j] = IF j < k THEN front[j] ELSE IF j = k THEN v ELSE front[j - 1]
    <3>1. Len(front) + 1 = Len(stack)
      BY <1>2, <2>3
    <3> QED  BY <2>1, <2>2, <2>3, <2>4, <3>1, InsertAtOk, InsertAtElements
  <2>6. Keeps(stack, stack', Base)
    <3>1. ASSUME NEW j \in 1 .. Base
          PROVE  stack'[j] = stack[j]
      BY <1>2, <2>1, <2>3, <2>5
    <3>2. ASSUME NEW j \in Base + 1 .. Len(stack')
          PROVE  stack'[j] # Handler
      <4>1. CASE j < k
        <5>1. stack'[j] = stack[j]
          BY <1>2, <2>1, <2>3, <2>5, <4>1
        <5> QED  BY <1>2, <2>1, <2>5, <5>1 DEF Keeps
      <4>2. CASE j = k
        BY <1>2, <2>1, <2>5, <4>2
      <4>3. CASE j > k
        <5>1. stack'[j] = stack[j - 1] /\ j - 1 \in Base + 1 .. Len(stack)
          BY <1>2, <2>1, <2>3, <2>5, <4>3
        <5> QED  BY <2>1, <5>1 DEF Keeps
      <4> QED  BY <1>2, <2>1, <2>5, <4>1, <4>2, <4>3
    <3> QED  BY <1>2, <2>1, <2>5, <3>1, <3>2 DEF Keeps
  <2> QED  BY <1>1, <1>2, <2>1, <2>6, LocalPlaced
<1>12. ASSUME NEW i \in 1 .. GetTop, ReplaceSlot(i)
       PROVE  Placed'
  <2> DEFINE k == Base + i
             v == Last(stack)
             r == ReplaceAt(stack, k, v)
  <2>1. k \in 1 .. Len(stack) /\ k > Base /\ Base <= Len(stack) - 1
        /\ Keeps(stack, stack, Base) /\ HandlersOf(stack) \subseteq 1 .. Base
        /\ v \in Slot /\ v # Handler
    BY <1>7
  <2>2. stack' = Front(r)
    BY <1>12 DEF ReplaceSlot, Local
  <2> HIDE DEF k, v
  <2>3. /\ r \in Seq(Slot) /\ Len(r) = Len(stack)
        /\ \A j \in 1 .. Len(stack) : r[j] = IF j = k THEN v ELSE stack[j]
    <3>1. stack \in Seq(Slot) /\ v \in Slot /\ k \in 1 .. Len(stack)
      BY <1>2, <2>1
    <3> QED  BY ONLY <3>1, ExceptSeq DEF ReplaceAt, r
  <2> HIDE DEF r
  <2>4. Keeps(stack, r, Base)
    BY <1>2, <2>1, <2>3 DEF Keeps
  <2>5. Len(r) > Base
    BY <1>2, <2>1, <2>3
  <2>6. Keeps(stack, stack', Base)
    BY <2>2, <2>3, <2>4, <2>5, KeepsFront
  <2> QED  BY <1>1, <1>2, <2>1, <2>6, LocalPlaced
<1>13. ASSUME NEW n \in 0 .. MaxStack, SetTop(n)
       PROVE  Placed'
  <2> DEFINE m == Base + n
             b == IF Base <= Len(stack) THEN Base ELSE Len(stack)
  <2>1. m \in Nat /\ m # -1 /\ m >= Base
    BY <1>2
  <2>2. stack' = Adjust(stack, m)
    BY <1>13 DEF SetTop, Local
  <2>3. b \in Nat /\ b <= Len(stack) /\ (b = Len(stack) \/ b = Base) /\ b <= Base
    BY <1>2
  <2> HIDE DEF m, b
  <2>4. HandlersOf(stack) \subseteq 1 .. b /\ Keeps(stack, stack, b)
    BY <1>1, <2>3, StackKept
  <2>5. stack' = [i \in 1 .. m |-> IF i <= Len(stack) THEN stack[i] ELSE Plain]
    BY <2>1, <2>2 DEF Adjust, MULTRET
  <2>6. Len(stack') = m
    BY <2>1, <2>5
  <2>7. Plain # Handler
    BY HandlerDistinct
  <2>8. Keeps(stack, stack', b)
    <3>1. b <= m
      BY <1>2, <2>1, <2>3
    <3>2. ASSUME NEW i \in 1 .. b
          PROVE  stack'[i] = stack[i]
      BY <1>2, <2>1, <2>3, <2>5, <3>1
    <3>3. ASSUME NEW i \in b + 1 .. Len(stack')
          PROVE  stack'[i] # Handler
      <4>1. i \in 1 .. m
        BY <2>3, <2>6
      <4>2. i <= Len(stack) => stack[i] # Handler
        BY <1>2, <2>3, <2>4 DEF Keeps
      <4> QED  BY <2>5, <2>7, <4>1, <4>2
    <3> QED  BY <2>3, <2>6, <3>1, <3>2, <3>3 DEF Keeps
  <2> QED  BY <1>1, <1>2, <2>4, <2>8, LocalPlaced
<1>14. ASSUME NEW status \in {OK, ERRRUN}, SetMetaTable(status)
       PROVE  Placed'
  <2>1. GetTop >= 1 /\ (stack' = Front(stack) \/ stack' = Append(stack, Message))
    BY <1>14 DEF SetMetaTable
  <2> QED  BY <1>5, <1>6, <2>1
<1> QED  BY <1>8, <1>9, <1>10, <1>11, <1>12, <1>13, <1>14

(* A message that is popped from above b was no handler's. *)
LEMMA ConcludeKeeps ==
  ASSUME NEW s, NEW t \in Seq(Slot), NEW b, Keeps(s, t, b), Base \in Nat, b <= Base,
         NEW last, NEW res, NEW status, Conclude(t, last, res, status), mode' = "run"
  PROVE  Keeps(s, stack', b)
<1>1. \/ stack' = t
      \/ stack' = Front(t) /\ ~(Len(t) <= Base)
  BY DEF Conclude, ConcludeWith
<1>2. ASSUME ~(Len(t) <= Base)
      PROVE  Keeps(s, Front(t), b)
  <2>1. Len(t) > b
    BY <1>2, LenProperties DEF Keeps
  <2> QED  BY <2>1, KeepsFront
<1> QED  BY <1>1, <1>2

(* An operation behind a barrier that ends within its native call. *)
LEMMA CheckedPlaced ==
  ASSUME IInv, Placed, NEW op \in CheckedOps, NEW v \in Val, NEW status \in Statuses,
         CheckedOp(op, v, status)
  PROVE  Placed'
<1>1. KotlinRuns /\ GetTop >= op.pops /\ UNCHANGED native
  BY DEF CheckedOp
<1>2. /\ stack \in Seq(Slot) /\ Len(stack) \in Nat
      /\ Base \in Nat /\ GetTop \in Int /\ Len(stack) = Base + GetTop
      /\ stack' \in Seq(Slot)
  <2>1. stack' \in Seq(Slot)
    BY CheckedStep DEF IInv, TypeOK
  <2> QED  BY <1>1, <2>1, KotlinFacts
<1>3. op.pops \in 0 .. 2 /\ op.pushes \in 0 .. 1
  BY DEF CheckedOps
<1>4. Base <= Len(stack) - op.pops /\ Base <= Len(stack)
  BY <1>1, <1>2, <1>3
<1>5. HandlersOf(stack) \subseteq 1 .. Base /\ Keeps(stack, stack, Base)
  BY <1>1, <1>2, <1>4, StackKept
<1>6. PICK s \in Seq(Slot), last \in Statuses, res \in Statuses : Keeps(stack, s, Base) /\ Conclude(s, last, res, status)
  <2>1. CASE status = OK
    <3> DEFINE k       == Len(stack) - op.pops
               rest    == SubSeq(stack, 1, k)
               results == Adjust(<<v>>, op.pushes)
               s       == rest \o results
    <3>1. Conclude(s, OK, OK, status)
      BY <2>1 DEF CheckedOp, OK, ERRRUN, ERRMEM
    <3>2. k \in Int /\ k <= Len(stack) /\ Base <= k /\ k \in Nat
      BY <1>2, <1>3, <1>4
    <3> HIDE DEF k
    <3>3. rest \in Seq(Slot) /\ Keeps(stack, rest, Base)
      <4>1. /\ rest \in Seq(Slot) /\ Len(rest) = IF 1 <= k THEN k - 1 + 1 ELSE 0
            /\ \A i \in 1 .. k - 1 + 1 : rest[i] = stack[1 + i - 1]
        BY <1>2, <3>2, SubSeqOk
      <4> HIDE DEF rest
      <4>2. Len(rest) = k /\ \A i \in 1 .. k : rest[i] = stack[i]
        BY <3>2, <4>1
      <4> QED  BY <1>2, <1>5, <3>2, <4>1, <4>2 DEF Keeps
    <3>4. results \in Seq(Slot) /\ \A i \in 1 .. Len(results) : results[i] # Handler
      <4>1. <<v>> \in Seq(Slot) /\ \A i \in 1 .. Len(<<v>>) : <<v>>[i] # Handler
        BY HandlerDistinct DEF Slot, Val
      <4>2. op.pushes \in Int /\ op.pushes >= -1
        BY <1>3
      <4> QED  BY <4>1, <4>2, AdjustedFree
    <3> HIDE DEF rest, results
    <3>5. s \in Seq(Slot) /\ Keeps(stack, s, Base)
      BY <3>3, <3>4, KeepsJoined, ConcatProperties
    <3>6. OK \in Statuses
      BY DEF Statuses
    <3> QED  BY <3>1, <3>5, <3>6
  <2>2. CASE status = ERRRUN
    <3> DEFINE s == Append(stack, Message)
    <3>1. Conclude(s, ERRRUN, OK, status)
      BY <2>2 DEF CheckedOp, OK, ERRRUN, ERRMEM
    <3>2. Message \in Slot /\ Message # Handler
      BY HandlerDistinct DEF Slot
    <3>3. s \in Seq(Slot) /\ Keeps(stack, s, Base)
      BY <1>2, <1>5, <3>2, KeepsPushed, AppendProperties
    <3>4. OK \in Statuses /\ ERRRUN \in Statuses
      BY DEF Statuses
    <3> QED  BY <3>1, <3>3, <3>4
  <2>3. CASE status # OK /\ status # ERRRUN
    <3>1. Conclude(stack, ERRMEM, OK, status)
      BY <2>3 DEF CheckedOp
    <3>2. OK \in Statuses /\ ERRMEM \in Statuses
      BY DEF Statuses
    <3> QED  BY <1>2, <1>5, <3>1, <3>2
  <2> QED  BY <2>1, <2>2, <2>3
<1>7. mode' = "run" => Keeps(stack, stack', Base)
  BY <1>2, <1>6, ConcludeKeeps
<1> QED  BY <1>1, <1>2, <1>5, <1>7, LocalPlaced

(* A metamethod is called above everything that Kotlin has. *)
LEMMA MetamethodPlaced ==
  ASSUME IInv, Placed, NEW op \in CheckedOps, OpCallsMetamethod(op)
  PROVE  Placed'
<1> DEFINE f    == NativeFrame("barrier", Len(stack) + 1, op.pops, op.pushes, 0)
           most == Append(stack, Fn)
           args == [i \in 1 .. op.operands |-> Plain]
<1>1. KotlinRuns /\ stack' = most \o args /\ native' = Append(native, f) /\ mode' = "run"
  BY DEF OpCallsMetamethod, KotlinRuns
<1>2. f.kind = "barrier" /\ f.phase = "enter"
  BY DEF NativeFrame, NativeFrameFor
<1>3. stack \in Seq(Slot) /\ Len(stack) \in Nat /\ native \in Seq(Frame) /\ HandlersRight
  BY <1>1, KotlinFacts DEF Placed, KotlinRuns
<1>4. HandlersOf(stack) \subseteq 1 .. Len(stack) /\ Keeps(stack, stack, Len(stack))
  BY <1>1, <1>3, StackKept
<1>5. most \in Seq(Slot) /\ Keeps(stack, most, Len(stack))
  <2>1. Fn \in Slot /\ Fn # Handler
    BY HandlerDistinct DEF Slot, Val
  <2> QED  BY <1>3, <1>4, <2>1, KeepsPushed, AppendProperties
<1>6. args \in Seq(Slot) /\ \A i \in 1 .. Len(args) : args[i] # Handler
  <2>1. op.operands \in {2, 3} /\ Plain \in Slot /\ Plain # Handler
    BY HandlerDistinct DEF CheckedOps, Slot, Val
  <2> QED  BY <2>1
<1> HIDE DEF f, most, args
<1>7. stack' \in Seq(Slot) /\ Keeps(stack, stack', Len(stack))
  BY <1>1, <1>5, <1>6, KeepsJoined, ConcatProperties
<1>8. HandlersOf(stack') = HandlersOf(stack)
  BY <1>3, <1>4, <1>7, KeepsHandlers
<1>9. Spots(native') = Spots(native)
  BY <1>1, <1>2, <1>3, SpotsPush
<1>10. Top' = f
  BY <1>1, <1>3, TopPushed
<1> QED  BY <1>2, <1>3, <1>8, <1>9, <1>10 DEF Placed, HandlersRight, GivenBack

(* nativeCall puts one handler more into place, above those that there are. *)
LEMMA CallPlaced ==
  ASSUME IInv, Placed, NEW nargs \in 0 .. GetTop - 1, NEW nresults \in ResultCounts,
         NativeCall(nargs, nresults)
  PROVE  Placed'
<1> DEFINE errfunc == GetTop + 1 - nargs - 1
           handler == Base + errfunc
           f == NativeFrame("call", handler + 1, 0, nresults, errfunc)
<1>1. /\ KotlinRuns /\ mode' = "run"
      /\ stack' = InsertAt(stack, handler, Handler) /\ native' = Append(native, f)
  BY DEF NativeCall, NativeCallTo, KotlinRuns
<1>2. /\ stack \in Seq(Slot) /\ Len(stack) \in Nat /\ native \in Seq(Frame) /\ HandlersRight
      /\ Base \in Nat /\ GetTop \in Int /\ Len(stack) = Base + GetTop
  BY <1>1, KotlinFacts DEF Placed, KotlinRuns
<1>3. handler \in 1 .. Len(stack) + 1 /\ handler > Base /\ Base <= Len(stack)
  BY <1>2
<1>4. f.kind = "call" /\ f.phase = "enter" /\ f.func = handler + 1
  BY DEF NativeFrame, NativeFrameFor
<1> HIDE DEF handler, f
<1>5. HandlersOf(stack) \subseteq 1 .. Base
  BY <1>1, <1>2, <1>3, StackKept
<1>6. /\ Len(stack') = Len(stack) + 1
      /\ \A j \in 1 .. Len(stack) + 1 :
           stack'[j] = IF j < handler THEN stack[j] ELSE IF j = handler THEN Handler ELSE stack[j - 1]
  <2>1. Handler \in Slot
    BY DEF Slot
  <2>2. stack \in Seq(Slot) /\ handler \in 1 .. Len(stack) + 1
    BY <1>2, <1>3
  <2>3. Len(InsertAt(stack, handler, Handler)) = Len(stack) + 1
    BY ONLY <2>1, <2>2, InsertAtOk
  <2>4. ASSUME NEW j \in 1 .. Len(stack) + 1
        PROVE  InsertAt(stack, handler, Handler)[j] =
                 IF j < handler THEN stack[j] ELSE IF j = handler THEN Handler ELSE stack[j - 1]
    BY ONLY <2>1, <2>2, j \in 1 .. Len(stack) + 1, InsertAtElements
  <2> QED  BY <1>1, <2>3, <2>4
<1>7. HandlersOf(stack') = HandlersOf(stack) \cup {handler}
  <2>1. ASSUME NEW j \in 1 .. Len(stack) + 1
        PROVE  stack'[j] = Handler <=> j \in HandlersOf(stack) \cup {handler}
    <3>1. CASE j < handler
      BY <1>2, <1>3, <1>6, <3>1 DEF HandlersOf
    <3>2. CASE j = handler
      BY <1>6, <3>2
    <3>3. CASE j > handler
      <4>1. j - 1 \in 1 .. Len(stack) /\ j - 1 \notin 1 .. Base /\ j \notin 1 .. Base
        BY <1>2, <1>3, <3>3
      <4>2. stack'[j] = stack[j - 1]
        BY <1>3, <1>6, <3>3
      <4>3. stack[j - 1] # Handler
        BY <1>5, <4>1 DEF HandlersOf
      <4> QED  BY <1>3, <1>5, <3>3, <4>1, <4>2, <4>3
    <3> QED  BY <1>3, <3>1, <3>2, <3>3
  <2>2. HandlersOf(stack) \subseteq 1 .. Len(stack) + 1 /\ handler \in 1 .. Len(stack) + 1
    BY <1>2, <1>3 DEF HandlersOf
  <2> QED  BY <1>6, <2>1, <2>2 DEF HandlersOf
<1>8. Spots(native') = Spots(native) \cup {handler}
  <2>1. Spots(native') = Spots(native) \cup {f.func - 1}
    BY <1>1, <1>2, <1>4, SpotsPush
  <2>2. f.func - 1 = handler
    BY <1>3, <1>4
  <2> QED  BY <2>1, <2>2
<1>9. Top' = f
  BY <1>1, <1>2, TopPushed
<1> QED  BY <1>2, <1>4, <1>7, <1>8, <1>9 DEF Placed, HandlersRight, GivenBack
-----------------------------------------------------------------------------
(* The VM enters a function, or Lua code calls a callback. *)
LEMMA EnterPlaced ==
  ASSUME IInv, Placed,
         PrecallLua \/ PrecallKotlin \/ \E args \in Lists : LuaCallsKotlin(args)
  PROVE  Placed'
<1>1. mode' = "run" /\ \E phase : VmRuns(phase)
  BY DEF PrecallLua, PrecallKotlin, LuaCallsKotlin, VmRuns
<1>2. /\ native # <<>> /\ native \in Seq(Frame) /\ Len(native) \in 1 .. Len(native)
      /\ Top \in Frame /\ Top = native[Len(native)]
      /\ stack \in Seq(Slot) /\ Len(stack) \in Nat
  BY <1>1, VmFacts
<1>3. HandlersRight
  BY <1>1 DEF Placed, VmRuns
<1>4. ASSUME NEW p \in {"body", "direct"}
      PROVE  /\ InPhase(p) \in Seq(Frame) /\ Len(InPhase(p)) = Len(native)
             /\ InPhase(p)[Len(native)].phase = p
             /\ Spots(InPhase(p)) = Spots(native)
  <2> DEFINE f == [Top EXCEPT !.phase = p]
             new == ReplaceAt(native, Len(native), f)
  <2>1. f \in Frame /\ f.kind = Top.kind /\ f.func = Top.func /\ f.phase = p
    BY <1>2 DEF Frame
  <2> HIDE DEF f
  <2>2. new \in Seq(Frame) /\ Len(new) = Len(native) /\ new[Len(native)] = f
    BY <1>2, <2>1, GuardsTouch
  <2>3. Spots(new) = Spots(native)
    BY <1>2, <2>1, SpotsTouch
  <2>4. InPhase(p) = new
    BY DEF InPhase, f
  <2> QED  BY <2>1, <2>2, <2>3, <2>4
<1>5. HandlersOf(stack') = HandlersOf(stack)
  <2>1. CASE PrecallLua \/ PrecallKotlin
    BY <2>1 DEF PrecallLua, PrecallKotlin
  <2>2. CASE \E args \in Lists : LuaCallsKotlin(args)
    <3>1. PICK args \in Lists : stack' = Append(stack, Fn) \o args
      BY <2>2 DEF LuaCallsKotlin
    <3>2. args \in Seq(Val)
      BY ConstantsAssumption
    <3>3. args \in Seq(Slot) /\ \A i \in 1 .. Len(args) : args[i] # Handler
      <4>1. \A i \in 1 .. Len(args) : args[i] \in Val
        BY <3>2, ElementOfSeq
      <4> QED  BY <3>2, <4>1, HandlerDistinct DEF Slot, Val
    <3>4. HandlersOf(stack) \subseteq 1 .. Len(stack) /\ Keeps(stack, stack, Len(stack))
      BY <1>2 DEF HandlersOf, Keeps
    <3>5. Append(stack, Fn) \in Seq(Slot) /\ Keeps(stack, Append(stack, Fn), Len(stack))
      <4>1. Fn \in Slot /\ Fn # Handler
        BY HandlerDistinct DEF Slot, Val
      <4> QED  BY <1>2, <3>4, <4>1, KeepsPushed, AppendProperties
    <3>6. stack' \in Seq(Slot) /\ Keeps(stack, stack', Len(stack))
      BY <3>1, <3>3, <3>5, KeepsJoined, ConcatProperties
    <3> QED  BY <1>2, <3>4, <3>6, KeepsHandlers
  <2> QED  BY <2>1, <2>2
<1>6. CASE PrecallLua
  <2>1. native' = InPhase("body")
    BY <1>6 DEF PrecallLua
  <2>2. Top'.phase = "body" /\ Spots(native') = Spots(native)
    BY <1>4, <2>1 DEF Top
  <2> QED  BY <1>3, <1>5, <2>2 DEF Placed, HandlersRight, GivenBack
<1>7. CASE PrecallKotlin \/ \E args \in Lists : LuaCallsKotlin(args)
  <2>1. PICK nat \in {InPhase("direct"), native} : native' = Append(nat, CallbackFrame)
    BY <1>7 DEF PrecallKotlin, LuaCallsKotlin
  <2>2. nat \in Seq(Frame) /\ Spots(nat) = Spots(native)
    BY <1>2, <1>4, <2>1
  <2>3. CallbackFrame.kind = "callback"
    BY DEF CallbackFrame
  <2>4. Spots(native') = Spots(native)
    BY <2>1, <2>2, <2>3, SpotsPush
  <2>5. Top' = CallbackFrame
    BY <2>1, <2>2, TopPushed
  <2> QED  BY <1>3, <1>5, <2>3, <2>4, <2>5 DEF Placed, HandlersRight, GivenBack
<1> QED  BY <1>6, <1>7

(* A call ends at a guard whose function is above all handlers. *)
LEMMA FinishPlaced ==
  ASSUME HandlersRight, stack \in Seq(Slot),
         NEW frames \in Seq(Frame), frames # <<>>, Spots(frames) = Spots(native),
         NEW vals \in Seq(Slot), \A i \in 1 .. Len(vals) : vals[i] # Handler,
         NEW func \in Nat, func = frames[Len(frames)].func, func >= 1, func <= Len(stack) + 1,
         HandlersOf(stack) \subseteq 1 .. func - 1,
         Finish(frames, vals), Len(ci') = frames[Len(frames)].ci
  PROVE  HandlersRight' /\ GivenBack'
<1> DEFINE g == frames[Len(frames)]
           n == g.nresults
           results == Adjust(vals, n)
<1>1. g \in Frame
  BY ElementOfSeq, EmptySeq, LenProperties
<1>2. n \in Int /\ n >= -1
  <2>1. n \in ResultCounts
    BY <1>1 DEF Frame
  <2> QED  BY ONLY <2>1 DEF ResultCounts, MULTRET
<1>3. stack' = Below(func) \o results /\ native' = Completed(frames, OK)
  BY DEF Finish
<1> HIDE DEF n
<1>4. results \in Seq(Slot) /\ \A i \in 1 .. Len(results) : results[i] # Handler
  BY <1>2, AdjustedFree
<1> HIDE DEF results
<1> DEFINE b == func - 1
<1>5. b \in Nat /\ b < func
  OBVIOUS
<1> HIDE DEF b
<1>6. Below(func) \in Seq(Slot) /\ Keeps(stack, Below(func), b)
  <2>1. HandlersOf(stack) \subseteq 1 .. b
    BY DEF b
  <2> QED  BY <1>5, <2>1, BelowOk, KeepsBelow
<1>7. stack' \in Seq(Slot) /\ Keeps(stack, stack', b)
  BY <1>3, <1>4, <1>6, KeepsJoined, ConcatProperties
<1>8. HandlersOf(stack') = HandlersOf(stack)
  BY <1>7, KeepsHandlers DEF b
<1>9. Spots(native') = Spots(native)
  BY <1>3, SpotsCompleted DEF Statuses
<1>10. Top'.ci = g.ci
  BY <1>3, TopCompleted DEF Statuses
<1> QED  BY <1>8, <1>9, <1>10 DEF HandlersRight, GivenBack

(* The Lua function that a guard called returns. *)
LEMMA LuaReturnsPlaced ==
  ASSUME "escape" \notin Faults, IInv, Placed, NEW vals \in Seq(Val), LuaReturns(vals)
  PROVE  Placed'
<1>1. VmRuns("body") /\ ci' = Front(ci) /\ Finish(native, vals)
  BY DEF LuaReturns, LuaReturnsTo
<1>2. /\ native # <<>> /\ native \in Seq(Frame) /\ Top = native[Len(native)] /\ Top \in Frame
      /\ ~IsCallback(Top) /\ Top.phase = "body" /\ AtGuard(native, ci, nCcalls, stack)
      /\ stack \in Seq(Slot) /\ Len(stack) \in Nat /\ ci \in Seq(Nat) /\ Len(ci) \in Nat
  BY <1>1, VmFacts
<1>3. HandlersRight
  BY <1>1 DEF Placed, VmRuns
<1>4. /\ Top.func \in Nat /\ Top.func > ci[Top.ci] /\ ci[Top.ci] \in Nat
      /\ HandlersOf(stack) \subseteq 1 .. Top.func - 1
  BY <1>1, <1>3, VmAbove
<1>5. Len(ci) = Top.ci + 1 /\ Top.func <= Len(stack)
  BY <1>2 DEF AtGuard, Within, Through
<1>6. vals \in Seq(Slot) /\ \A i \in 1 .. Len(vals) : vals[i] # Handler
  <2>1. \A i \in 1 .. Len(vals) : vals[i] \in Val
    BY ElementOfSeq
  <2> QED  BY <2>1, HandlerDistinct DEF Slot, Val
<1>7. Len(ci') = Top.ci
  <2>1. Top.ci \in Nat /\ ci # <<>>
    BY <1>2, <1>5 DEF Frame
  <2> QED  BY <1>1, <1>2, <1>5, <2>1, FrontOk
<1> DEFINE func == Top.func
<1>8. func \in Nat /\ func = native[Len(native)].func /\ func >= 1 /\ func <= Len(stack) + 1
      /\ HandlersOf(stack) \subseteq 1 .. func - 1
  BY <1>2, <1>4, <1>5
<1> HIDE DEF func
<1>9. HandlersRight' /\ GivenBack'
  BY <1>1, <1>2, <1>3, <1>6, <1>7, <1>8, FinishPlaced
<1> QED  BY <1>9 DEF Placed

(* A callback returns to the guard that called it, or to Lua code. *)
LEMMA CallbackReturnsPlaced ==
  ASSUME "escape" \notin Faults, IInv, Placed, NEW n \in 0 .. GetTop, CallbackReturns(n)
  PROVE  Placed'
<1> SUFFICES ASSUME mode' = "run"
             PROVE  HandlersRight' /\ GivenBack'
  BY DEF Placed
<1> DEFINE m == Len(native) - 1
<1>1. KotlinRuns /\ native # <<>> /\ Len(ci) = Top.ci /\ ci' = Front(ci)
  BY DEF CallbackReturns
<1>2. m = Len(native) - 1
  OBVIOUS
<1> HIDE DEF m
<1>3. /\ Caller = native[m] /\ Len(native) \in Nat /\ m >= 1 /\ m \in 1 .. Len(native)
      /\ Caller \in Frame /\ ~IsCallback(Caller) /\ Caller.ci \in Nat
      /\ Caller.func \in Nat /\ Caller.func >= 1 /\ Caller.func <= Len(stack)
      /\ Caller.phase = "direct" => Within(native[Len(native)].ci, Caller.ci + 1)
      /\ Caller.phase # "direct" => Caller.phase = "body"
      /\ IsCallback(native[Len(native)])
      /\ Front(native) \in Seq(Frame) /\ Len(Front(native)) = m /\ Front(native) # <<>>
      /\ \A i \in 1 .. m : Front(native)[i] = native[i]
  BY <1>1, <1>2, CallbackFacts
<1>4. /\ stack \in Seq(Slot) /\ Len(stack) \in Nat /\ Base \in Nat /\ GetTop \in Int
      /\ Len(stack) = Base + GetTop /\ ci \in Seq(Nat) /\ Len(ci) \in Nat
      /\ native \in Seq(Frame)
  BY <1>1, KotlinFacts
<1>5. HandlersRight
  BY <1>1 DEF Placed, KotlinRuns
<1>6. HandlersOf(stack) \subseteq 1 .. Base /\ (Base >= 1 => HandlersOf(stack) \subseteq 1 .. Base - 1)
  BY <1>1, <1>5, KotlinAbove
<1>7. Front(native)[Len(Front(native))] = Caller
  <2>1. m \in 1 .. m
    BY <1>2, <1>3
  <2> QED  BY <1>3, <2>1
<1>8. Spots(Front(native)) = Spots(native)
  <2>1. native[Len(native)].kind # "call"
    BY <1>3 DEF IsCallback
  <2> QED  BY <1>1, <1>4, <2>1, SpotsPop
<1>9. CASE Caller.phase = "direct"
  <2> DEFINE k == Len(stack) - n + 1
             vals == SubSeq(stack, k, Len(stack))
             func == Caller.func
             frames == Front(native)
  <2>1. Finish(frames, vals)
    BY <1>1, <1>9 DEF CallbackReturns
  <2>2. vals \in Seq(Slot) /\ \A i \in 1 .. Len(vals) : vals[i] # Handler
    <3>1. k \in Int /\ k > Base
      BY <1>4
    <3> HIDE DEF k
    <3> QED  BY <1>4, <1>6, <3>1, TakenFree
  <2>3. HandlersOf(stack) \subseteq 1 .. func - 1
    <3>1. ASSUME NEW h \in HandlersOf(stack)
          PROVE  h \in 1 .. func - 1
      <4>1. PICK l \in CallsOf(native) : h = native[l].func - 1
        BY <1>5 DEF HandlersRight, Spots
      <4>2. l \in GuardsOf(native) /\ l # Len(native)
        BY <1>3, <4>1 DEF CallsOf, GuardsOf, IsCallback
      <4>3. h >= 1 /\ h \in Nat
        BY <1>4 DEF HandlersOf
      <4>4. CASE l = m
        BY <1>3, <4>1, <4>3, <4>4
      <4>5. CASE l # m
        <5>1. l < m /\ m \in 1 .. Len(native)
          BY <1>2, <1>3, <4>2, <4>5 DEF GuardsOf
        <5>2. native[l].func \in Nat /\ native[l].func <= ci[native[m].ci]
              /\ native[m].ci \in 1 .. Len(ci)
          BY <1>1, <4>2, <5>1, FuncsRise DEF KotlinRuns
        <5>3. ci[native[m].ci] < func
          <6>1. GuardAt(native, ci, m)
            BY <1>1, <1>3, KotlinFacts DEF Ordered, Nested
          <6>2. func > ci[Caller.ci] + Caller.pops /\ Caller.pops \in 0 .. 2
            BY <1>3, <6>1 DEF GuardAt, Frame
          <6>3. ci[Caller.ci] \in Nat
            BY <1>3, <1>4, <5>2, ElementOfSeq
          <6> QED  BY <1>3, <6>2, <6>3
        <5>4. ci[native[m].ci] \in Nat
          BY <1>4, <5>2, ElementOfSeq
        <5>5. native[l].func <= func - 1
          BY <1>3, <5>2, <5>3, <5>4
        <5> QED  BY <1>3, <4>1, <4>3, <5>2, <5>5
      <4> QED  BY <4>4, <4>5
    <3> QED  BY <3>1
  <2>4. Len(ci') = Caller.ci
    <3>1. Len(ci) = Caller.ci + 1 /\ ci # <<>>
      BY <1>1, <1>3, <1>4, <1>9 DEF Top, Within, Through
    <3> QED  BY <1>1, <1>3, <1>4, <3>1, FrontOk
  <2>5. func \in Nat /\ func >= 1 /\ func <= Len(stack) + 1 /\ func = frames[Len(frames)].func
    BY <1>3, <1>4, <1>7
  <2>6. frames \in Seq(Frame) /\ frames # <<>> /\ Spots(frames) = Spots(native)
        /\ Len(ci') = frames[Len(frames)].ci
    BY <1>3, <1>7, <1>8, <2>4
  <2> HIDE DEF vals, func, frames
  <2> QED  BY <1>4, <1>5, <2>1, <2>2, <2>3, <2>5, <2>6, FinishPlaced
<1>10. CASE Caller.phase # "direct"
  <2>1. stack' = Below(Base) /\ native' = Front(native)
    BY <1>1, <1>10 DEF CallbackReturns
  <2>2. Top' = Caller
    BY <1>7, <2>1 DEF Top
  <2>3. GivenBack'
    BY <1>3, <1>10, <2>2 DEF GivenBack
  <2>4. Base >= 1 /\ Base <= Len(stack)
    <3>1. CallbackAt(native, ci, Len(native))
      <4>1. Len(native) \in 1 .. Len(native)
        BY <1>2, <1>3
      <4> QED  BY <1>1, <1>3, <4>1, KotlinFacts DEF Ordered, Nested
    <3>2. ci[native[Len(native)].ci] >= Caller.func + 2 - 1
      BY <1>2, <1>3, <1>10, <3>1 DEF CallbackAt
    <3>3. Base = ci[native[Len(native)].ci]
      BY <1>1 DEF Base, Last, Top
    <3>4. GetTop >= 0
      BY <1>4
    <3>5. Base >= Caller.func + 2 - 1
      BY ONLY <3>2, <3>3
    <3>6. \A b, f, t, l \in Int : b >= f + 2 - 1 /\ f >= 1 /\ t >= 0 /\ l = b + t
            => b >= 1 /\ b <= l
      OBVIOUS
    <3> QED  BY <1>3, <1>4, <3>4, <3>5, <3>6
  <2> DEFINE b == Base - 1
             slot == Base
  <2>5. b \in Nat /\ slot \in Nat /\ slot >= 1 /\ slot <= Len(stack) + 1 /\ b < slot
        /\ HandlersOf(stack) \subseteq 1 .. b
    BY <1>4, <1>6, <2>4
  <2>6. stack' = Below(slot)
    BY <2>1
  <2> HIDE DEF b, slot
  <2>7. stack' \in Seq(Slot) /\ Keeps(stack, stack', b)
    BY <1>4, <2>5, <2>6, BelowOk, KeepsBelow
  <2>8. HandlersOf(stack') = HandlersOf(stack)
    BY <1>4, <2>5, <2>7, KeepsHandlers
  <2> QED  BY <1>5, <1>8, <2>1, <2>3, <2>8 DEF HandlersRight
<1> QED  BY <1>9, <1>10

(* A raise takes away what the callee had, above all handlers. *)
LEMMA RaisePlaced ==
  ASSUME IInv, Placed, PrecallRaises \/ LuaRaises
  PROVE  Placed'
<1> DEFINE n == Len(native)
<1>1. PICK phase \in {"enter", "body"}, code \in {ERRRUN, ERRMEM} :
        VmRuns(phase) /\ Raise(code)
  BY DEF PrecallRaises, LuaRaises
<1> DEFINE status == IF CStackOverflows(nCcalls + 1) THEN ERRERR ELSE code
<1>2. /\ native # <<>> /\ native \in Seq(Frame)
      /\ n \in Nat /\ n >= 1 /\ n \in 1 .. n
      /\ Top = native[n] /\ Top \in Frame /\ ~IsCallback(Top)
      /\ errorjmp = n
      /\ stack \in Seq(Slot) /\ Len(stack) \in Nat
      /\ ci \in Seq(Nat) /\ Len(ci) \in Nat
  BY <1>1, VmFacts
<1>3. HandlersRight
  BY <1>1 DEF Placed, VmRuns
<1>4. native[errorjmp] = Top /\ SubSeq(native, 1, errorjmp) = native /\ errorjmp # 0
  BY <1>2, SubSeqFull
<1>5. ~\E k \in errorjmp + 1 .. Len(native) : native[k].kind = "callback"
  BY <1>2
<1>6. code \in Statuses /\ status \in Statuses /\ Message \in Slot /\ Message # Handler
  BY HandlerDistinct DEF Statuses, Slot
<1> HIDE DEF n, status
<1>7. CASE Top.kind = "call"
  <2>1. /\ stack' = Append(Below(Top.func), Message)
        /\ ci' = SubSeq(ci, 1, Top.ci)
        /\ native' = Completed(native, status)
    BY <1>1, <1>4, <1>5, <1>7 DEF Raise, status
  <2> DEFINE slot == Top.func
             b == slot - 1
  <2>2. /\ Top.ci \in 1 .. Len(ci)
        /\ slot \in Nat /\ slot > ci[Top.ci] /\ ci[Top.ci] \in Nat
        /\ HandlersOf(stack) \subseteq 1 .. slot - 1
    BY <1>1, <1>3, VmAbove
  <2>3. slot <= Len(stack) + 1
    <3>1. AtGuard(native, ci, nCcalls, stack) /\ Top = native[Len(native)]
      BY <1>1, VmFacts
    <3> QED  BY <1>2, <2>2, <3>1 DEF AtGuard
  <2>4. b \in Nat /\ b < slot /\ slot >= 1 /\ HandlersOf(stack) \subseteq 1 .. b
    BY <2>2
  <2>5. stack' = Append(Below(slot), Message)
    BY <2>1
  <2> HIDE DEF b, slot
  <2>6. Below(slot) \in Seq(Slot) /\ Keeps(stack, Below(slot), b)
    BY <1>2, <2>2, <2>3, <2>4, BelowOk, KeepsBelow
  <2>7. stack' \in Seq(Slot) /\ Keeps(stack, stack', b)
    BY <1>6, <2>5, <2>6, KeepsPushed, AppendProperties
  <2>8. HandlersOf(stack') = HandlersOf(stack)
    BY <1>2, <2>4, <2>7, KeepsHandlers
  <2>9. Spots(native') = Spots(native)
    BY <1>2, <1>6, <2>1, SpotsCompleted
  <2>10. Top'.ci = Top.ci
    BY <1>2, <1>6, <2>1, TopCompleted DEF n
  <2>11. Len(ci') = Top.ci
    BY <1>2, <2>1, <2>2, SubSeqOk
  <2> QED  BY <1>3, <2>8, <2>9, <2>10, <2>11 DEF Placed, HandlersRight, GivenBack
<1>8. CASE Top.kind # "call"
  <2>1. /\ stack' = stack \/ stack' = Append(stack, Message)
        /\ native' = Completed(native, code)
    BY <1>1, <1>4, <1>5, <1>8 DEF Raise
  <2>2. HandlersOf(stack) \subseteq 1 .. Len(stack) /\ Keeps(stack, stack, Len(stack))
    BY <1>2 DEF HandlersOf, Keeps
  <2>3. stack' \in Seq(Slot) /\ Keeps(stack, stack', Len(stack))
    <3>1. CASE stack' = stack
      BY <1>2, <2>2, <3>1
    <3>2. CASE stack' = Append(stack, Message)
      BY <1>2, <1>6, <2>2, <3>2, KeepsPushed, AppendProperties
    <3> QED  BY <2>1, <3>1, <3>2
  <2>4. HandlersOf(stack') = HandlersOf(stack)
    BY <1>2, <2>2, <2>3, KeepsHandlers
  <2>5. Spots(native') = Spots(native)
    BY <1>2, <1>6, <2>1, SpotsCompleted
  <2>6. Top'.kind # "call"
    BY <1>2, <1>6, <1>8, <2>1, TopCompleted DEF n
  <2> QED  BY <1>3, <2>4, <2>5, <2>6 DEF Placed, HandlersRight, GivenBack
<1> QED  BY <1>7, <1>8

(* nativeCall takes its own handler out, and leaves the others. *)
LEMMA CallReturnsPlaced ==
  ASSUME IInv, Placed, CallReturns
  PROVE  Placed'
<1> SUFFICES ASSUME mode' = "run"
             PROVE  HandlersRight' /\ GivenBack'
  BY DEF Placed
<1> DEFINE handler == Base + Top.errfunc
           s == RemoveAt(stack, handler)
           b == ci[Top.ci]
<1>1. /\ VmRuns("done") /\ Top.kind = "call" /\ native' = Front(native)
      /\ handler \in 1 .. Len(stack)
      /\ Conclude(s, lastStatus, Top.status, Top.status)
  BY DEF CallReturns
<1>2. native # <<>> /\ stack \in Seq(Slot) /\ Len(stack) \in Nat
  BY <1>1, VmFacts
<1>3. HandlersRight /\ GivenBack
  BY <1>1 DEF Placed, VmRuns
<1>4. Base = b
  <2>1. Len(ci) = Top.ci
    BY <1>1, <1>2, <1>3 DEF GivenBack, VmRuns
  <2> QED  BY <2>1 DEF Base, Last
<1>5. /\ b \in Nat /\ Top.func \in Nat
      /\ HandlersOf(stack) \subseteq 1 .. Top.func - 1
      /\ Top.func = b + Top.errfunc + 1 /\ Top.errfunc \in Nat /\ Top.errfunc >= 1
      /\ HandlersOf(stack) \ {Top.func - 1} \subseteq 1 .. b
      /\ Spots(Front(native)) = HandlersOf(stack) \ {Top.func - 1}
  BY <1>1, <1>3, VmAbove
<1>6. Top.func <= Len(stack) + 1
  BY <1>1, DoneFacts
<1>7. /\ handler = Top.func - 1 /\ handler > b /\ b <= Len(stack) - 1
      /\ Base \in Nat /\ b <= Base
  BY <1>2, <1>4, <1>5, <1>6
<1>8. /\ HandlersOf(stack) \subseteq 1 .. handler
      /\ HandlersOf(stack) \ {handler} \subseteq 1 .. b
      /\ Spots(Front(native)) = HandlersOf(stack) \ {handler}
      /\ b \in Nat
  BY <1>5, <1>7
<1> HIDE DEF handler, b
<1>9. /\ s \in Seq(Slot) /\ Len(s) = Len(stack) - 1
      /\ \A j \in 1 .. Len(stack) - 1 : s[j] = IF j < handler THEN stack[j] ELSE stack[j + 1]
  BY <1>1, <1>2, RemoveAtOk, RemoveAtElements
<1> HIDE DEF s
<1>10. HandlersOf(s) = HandlersOf(stack) \ {handler}
  <2>1. ASSUME NEW j \in 1 .. Len(stack) - 1
        PROVE  s[j] = Handler <=> j \in HandlersOf(stack) \ {handler}
    <3>1. CASE j < handler
      BY <1>2, <1>9, <3>1 DEF HandlersOf
    <3>2. CASE ~(j < handler)
      <4>1. j + 1 \in 1 .. Len(stack) /\ j + 1 \notin 1 .. handler /\ (j = handler \/ j \notin 1 .. handler)
        BY <1>1, <1>2, <3>2
      <4>2. stack[j + 1] # Handler /\ j \notin HandlersOf(stack) \ {handler}
        BY <1>8, <4>1 DEF HandlersOf
      <4> QED  BY <1>9, <3>2, <4>2
    <3> QED  BY <3>1, <3>2
  <2>2. HandlersOf(stack) \ {handler} \subseteq 1 .. Len(stack) - 1
    BY <1>2, <1>7, <1>8
  <2> QED  BY <1>9, <2>1, <2>2 DEF HandlersOf
<1>11. HandlersOf(s) \subseteq 1 .. b
  BY <1>8, <1>10
<1>12. Keeps(s, s, b)
  <2>1. \A i \in b + 1 .. Len(s) : i \in 1 .. Len(s) /\ i \notin 1 .. b
    BY <1>2, <1>8, <1>9
  <2> QED  BY <1>2, <1>7, <1>8, <1>9, <1>11, <2>1 DEF Keeps, HandlersOf
<1>13. Keeps(s, stack', b)
  BY <1>1, <1>7, <1>9, <1>12, ConcludeKeeps
<1>14. stack' \in Seq(Slot)
  BY CallReturnsStep DEF IInv, TypeOK
<1>15. HandlersOf(stack') = Spots(native')
  BY <1>1, <1>8, <1>9, <1>10, <1>11, <1>13, <1>14, KeepsHandlers
<1>16. AtKotlin'
  BY <1>1, BackInKotlin
<1> QED  BY <1>15, <1>16 DEF HandlersRight, GivenBack, AtKotlin

(* A barrier stores its result above all handlers. *)
LEMMA BarrierReturnsPlaced ==
  ASSUME IInv, Placed, BarrierReturns
  PROVE  Placed'
<1> SUFFICES ASSUME mode' = "run"
             PROVE  HandlersRight' /\ GivenBack'
  BY DEF Placed
<1> DEFINE func == Top.func
           slot == func - Top.pops
           results == SubSeq(stack, func, Len(stack))
           below == Below(slot)
           s == IF Top.status = OK THEN below \o results ELSE stack
           b == ci[Top.ci]
<1>1. /\ VmRuns("done") /\ Top.kind = "barrier" /\ native' = Front(native)
      /\ Conclude(s, Top.status, OK, Top.status)
  BY DEF BarrierReturns
<1>2. native # <<>> /\ native \in Seq(Frame) /\ Top = native[Len(native)]
      /\ stack \in Seq(Slot) /\ Len(stack) \in Nat
  BY <1>1, VmFacts
<1>3. HandlersRight
  BY <1>1 DEF Placed, VmRuns
<1>4. HandlersOf(stack) \subseteq 1 .. b /\ b \in Nat
  BY <1>1, <1>3, VmAbove
<1>5. /\ Base \in Nat /\ b <= Base
      /\ func \in Nat /\ Top.pops \in 0 .. 2 /\ func > b + Top.pops /\ func <= Len(stack) + 1
  BY <1>1, DoneFacts
<1> HIDE DEF func, b
<1>6. slot \in Nat /\ slot > b /\ slot >= 1 /\ slot <= Len(stack) + 1 /\ func > b /\ b <= Len(stack)
  BY <1>2, <1>4, <1>5
<1> HIDE DEF slot
<1>7. s \in Seq(Slot) /\ Keeps(stack, s, b)
  <2>1. below \in Seq(Slot) /\ Keeps(stack, below, b)
    BY <1>2, <1>4, <1>6, BelowOk, KeepsBelow
  <2>2. results \in Seq(Slot) /\ \A i \in 1 .. Len(results) : results[i] # Handler
    <3>1. func \in Int /\ func > b /\ b \in Nat /\ stack \in Seq(Slot) /\ HandlersOf(stack) \subseteq 1 .. b
      BY <1>2, <1>4, <1>5, <1>6
    <3> QED  BY <3>1, TakenFree
  <2>3. Keeps(stack, stack, b)
    <3>1. \A i \in b + 1 .. Len(stack) : i \in 1 .. Len(stack) /\ i \notin 1 .. b
      BY <1>2, <1>4
    <3> QED  BY <1>2, <1>4, <1>6, <3>1 DEF Keeps, HandlersOf
  <2> HIDE DEF below, results
  <2>4. below \o results \in Seq(Slot) /\ Keeps(stack, below \o results, b)
    BY <2>1, <2>2, KeepsJoined, ConcatProperties
  <2> QED  BY <1>2, <2>3, <2>4
<1> HIDE DEF s
<1>8. Keeps(stack, stack', b)
  BY <1>1, <1>5, <1>7, ConcludeKeeps
<1>9. stack' \in Seq(Slot)
  BY BarrierReturnsStep DEF IInv, TypeOK
<1>10. HandlersOf(stack') = HandlersOf(stack)
  BY <1>2, <1>4, <1>8, <1>9, KeepsHandlers
<1>11. Spots(Front(native)) = Spots(native)
  BY <1>1, <1>2, SpotsPop
<1>12. AtKotlin'
  BY <1>1, BackInKotlin
<1> QED  BY <1>1, <1>3, <1>10, <1>11, <1>12 DEF HandlersRight, GivenBack, AtKotlin
-----------------------------------------------------------------------------
(* When the program starts there is no handler and no call. *)
LEMMA PlacedInit == Init => Placed
<1> SUFFICES ASSUME Init
             PROVE  HandlersRight /\ GivenBack
  BY DEF Placed
<1>1. native = <<>> /\ stack = [i \in 1 .. LibSlots |-> Plain] /\ LibSlots \in Nat
  BY ConstantsAssumption DEF Init
<1>2. HandlersOf(stack) = {}
  BY <1>1, HandlerDistinct DEF HandlersOf
<1>3. Spots(native) = {}
  BY <1>1 DEF Spots, CallsOf
<1> QED  BY <1>1, <1>2, <1>3 DEF HandlersRight, GivenBack

(* Every step keeps them in place, but an exception that escapes. *)
LEMMA PlacedNext ==
  ASSUME "escape" \notin Faults
  PROVE  IInv /\ Placed /\ [Next]_vars => Placed'
<1> SUFFICES ASSUME IInv, Placed, [Next]_vars
             PROVE  Placed'
  OBVIOUS
<1>1. CASE KotlinStep
  <2>1. CASE \/ \E v \in Val : Push(v) \/ UncheckedPush(v)
             \/ PushFunction
             \/ \E i \in 1 .. GetTop : PushValue(i) \/ RemoveSlot(i) \/ InsertSlot(i) \/ ReplaceSlot(i)
             \/ \E n \in 0 .. MaxStack : SetTop(n)
             \/ \E status \in {OK, ERRRUN} : SetMetaTable(status)
    BY <2>1, StackPlaced
  <2>2. ASSUME NEW op \in CheckedOps, NEW v \in Val, NEW status \in {OK, ERRRUN, ERRMEM},
               CheckedOp(op, v, status)
        PROVE  Placed'
    <3>1. status \in Statuses
      BY DEF Statuses
    <3> QED  BY <2>2, <3>1, CheckedPlaced
  <2>3. ASSUME NEW op \in CheckedOps, OpCallsMetamethod(op)
        PROVE  Placed'
    BY <2>3, MetamethodPlaced
  <2>4. ASSUME NEW nargs \in 0 .. GetTop - 1, NEW nresults \in ResultCounts,
               NativeCall(nargs, nresults)
        PROVE  Placed'
    BY <2>4, CallPlaced
  <2>5. ASSUME NEW n \in 0 .. GetTop, CallbackReturns(n)
        PROVE  Placed'
    BY "escape" \notin Faults, <2>5, CallbackReturnsPlaced
  <2>6. ~CallbackThrows /\ ~CallbackThrowsThrough
    BY DEF CallbackThrows, CallbackThrowsThrough
  <2>7. CASE RawAllocFails
    <3>1. mode' \in {"aborted", "jumped"}
      BY <2>7, RawRaiseLands DEF RawAllocFails
    <3> QED  BY <3>1 DEF Placed
  <2> QED  BY <1>1, <2>1, <2>2, <2>3, <2>4, <2>5, <2>6, <2>7 DEF KotlinStep
<1>2. CASE VmStep
  <2>1. CASE PrecallLua \/ PrecallKotlin \/ \E vals \in Lists : LuaCallsKotlin(vals)
    BY <2>1, EnterPlaced
  <2>2. ASSUME NEW vals \in Lists, LuaReturns(vals)
        PROVE  Placed'
    <3>1. vals \in Seq(Val)
      BY ConstantsAssumption
    <3> QED  BY "escape" \notin Faults, <2>2, <3>1, LuaReturnsPlaced
  <2>3. CASE PrecallRaises \/ LuaRaises
    BY <2>3, RaisePlaced
  <2>4. CASE CallReturns
    BY <2>4, CallReturnsPlaced
  <2>5. CASE BarrierReturns
    BY <2>5, BarrierReturnsPlaced
  <2>6. CASE LuaRunsOn
    <3>1. /\ VmRuns("body") /\ UNCHANGED <<stack, native, mode>>
      BY <2>6 DEF LuaRunsOn
    <3>2. HandlersRight' /\ GivenBack'
      BY <3>1 DEF Placed, HandlersRight, GivenBack, VmRuns, Top
    <3> QED  BY <3>2 DEF Placed
  <2> QED  BY <1>2, <2>1, <2>2, <2>3, <2>4, <2>5, <2>6 DEF VmStep
<1>3. CASE UNCHANGED vars
  BY <1>3 DEF vars, Placed, HandlersRight, GivenBack, Top
<1> QED  BY <1>1, <1>2, <1>3 DEF Next

(* The slot below a call is the one that nativeCall computed. *)
LEMMA PlacedAsComputed == IInv /\ Placed => HandlersInPlace
<1> SUFFICES ASSUME IInv, Placed, mode = "run"
             PROVE  HandlersOf(stack)
                      = {ci[native[k].ci] + native[k].errfunc : k \in {g \in Guards : native[g].kind = "call"}}
  BY DEF HandlersInPlace, HandlersOf
<1>1. HandlersOf(stack) = Spots(native)
  BY DEF Placed, HandlersRight
<1>2. {g \in Guards : native[g].kind = "call"} = CallsOf(native)
  BY DEF Guards, CallsOf
<1>3. ASSUME NEW k \in CallsOf(native)
      PROVE  native[k].func - 1 = ci[native[k].ci] + native[k].errfunc
  <2>1. /\ Ordered(native, ci, nCcalls, stack) /\ Linked(native, errorjmp)
        /\ native \in Seq(Frame) /\ ci \in Seq(Nat)
        /\ k \in 1 .. Len(native) /\ native[k].kind = "call"
    BY DEF IInv, TypeOK, CallsOf
  <2>2. GuardAt(native, ci, k)
    BY <2>1 DEF Ordered, Nested, IsCallback
  <2>3. native[k].func = ci[native[k].ci] + native[k].errfunc + 1
    BY <2>1, <2>2 DEF GuardAt
  <2>4. native[k].errfunc \in Int
    <3>1. native[k] \in Frame
      BY <2>1, ElementOfSeq
    <3> QED  BY <3>1 DEF Frame
  <2>5. native[k].ci \in 1 .. Len(ci)
    BY <2>1, Heights, Grounded, LenProperties
  <2>6. ci[native[k].ci] \in Nat
    BY <2>1, <2>5, ElementOfSeq
  <2> QED  BY <2>3, <2>4, <2>6
<1> QED  BY <1>1, <1>2, <1>3 DEF Spots

(* The error handlers on the value stack are those of the open calls, each   *)
(* at the slot from which nativeCall will remove it: whatever the callee and *)
(* the callbacks it runs push, pop, raise or call in turn, nativeCall's      *)
(* lua_remove takes its own handler.  An exception that escapes from a       *)
(* callback breaks this: its call leaves call infos behind.                  *)
THEOREM HandlersKept ==
  ASSUME "escape" \notin Faults
  PROVE  Spec => []HandlersInPlace
<1>1. IInv /\ Placed /\ [Next]_vars => Placed'
  BY "escape" \notin Faults, PlacedNext
<1> QED  BY <1>1, PlacedInit, PlacedAsComputed, Invariant, PTL DEF Spec
=============================================================================
