------------------------------ MODULE Boundary ------------------------------
(***************************************************************************)
(* The Kotlin/Lua boundary of one lua_State used by one thread: the value  *)
(* stack and the call infos of the VM, the C stack on which nativeCall,    *)
(* the luaW_ barriers and the callback trampolines are nested, the chain   *)
(* of jump buffers that a raise unwinds to, and the two thread-local cells *)
(* that carry a failure back to Kotlin.                                    *)
(*                                                                         *)
(* Lua code is abstracted to what it does at the boundary: it may call a   *)
(* Kotlin function, itself or through a function of the VM (its pcall, a   *)
(* metamethod, table.foreach ...), return values, or raise.  Its registers *)
(* and its calls of other Lua functions are left out, and so is what it    *)
(* catches itself: an error in its own pcall is a step that shows nothing. *)
(***************************************************************************)
EXTENDS Integers, SequencesExt

CONSTANTS
  Plain,      \* a value that cannot be called: nil, a number, a table ...
  Fn,         \* a function value
  Handler,    \* the error_handler closure that nativeCall pushes
  Message,    \* an error message that a raise left on the stack
  Lists,      \* the lists of values that Lua passes and returns
  LibSlots,   \* the slots that LuaEngine() leaves on the main stack (7)
  MaxCCalls,  \* LUAI_MAXCCALLS, the limit of nested C calls (200)
  MaxStack,   \* bound of the model: slots of the value stack
  MaxNative,  \* bound of the model: nested frames of the C stack
  MaxCI,      \* bound of the model: call infos
  Faults      \* what may go wrong besides an error in a called function

Val  == {Plain, Fn}
Slot == Val \cup {Handler, Message}

FaultNames ==
  {"escape",     \* an exception escapes from a Kotlin callback
   "through",    \* ... that Lua code called through a function of the VM
   "metamethod", \* a metamethod that a luaW_ operation runs raises
   "unchecked",  \* an operation whose status Kotlin never reads raises
   "barmem",     \* a luaW_ operation runs out of memory
   "rawmem"}     \* an operation without a barrier runs out of memory

ASSUME ConstantsAssumption ==
  /\ Cardinality({Plain, Fn, Handler, Message}) = 4
  /\ Lists \subseteq Seq(Val)
  /\ {LibSlots, MaxCCalls, MaxStack, MaxNative, MaxCI} \subseteq Nat
  /\ Faults \subseteq FaultNames

VARIABLES
  stack,      \* the value stack, from the bottom to L->top
  ci,         \* for each call info from base_ci to L->ci, its func slot
  nCcalls,    \* L->nCcalls
  native,     \* the frames of the C stack, outermost first
  errorjmp,   \* the native frame that holds global->errorjmp, 0 for NULL
  lastStatus, \* luaW_lastStatus
  pending,    \* whether g_pendingException holds an exception
  outcome,    \* how the last request of Kotlin ended
  mode        \* "run", or how the process left defined behaviour

vars == <<stack, ci, nCcalls, native, errorjmp, lastStatus, pending, outcome, mode>>

(* The values of enum lua_Status that are used here, and LUA_MULTRET. *)
OK      == 0
ERRRUN  == 2
ERRMEM  == 4
ERRERR  == 5
MULTRET == -1

ResultCounts == {MULTRET, 0, 1}
Statuses == {OK, ERRRUN, ERRMEM, ERRERR}
-----------------------------------------------------------------------------
(* Lua's view of the stack: slots are numbered from L->base, the slot above *)
(* the running function.                                                    *)
Base   == Last(ci)
GetTop == Len(stack) - Base
Room(n) == Len(stack) + n <= MaxStack
Nests == Len(native) < MaxNative /\ Len(ci) + 2 <= MaxCI
BelowAndOneMore(slot) == SubSeq(stack, 1, slot - 2)  \* a bug: off by one
Below(slot) == SubSeq(stack, 1, slot - 1)

(* The first n values of a list of results, filled up with nil.             *)
(* (A bug: the number of results that was asked for is ignored.)            *)
AdjustKeepsAll(vals, n) == vals
Adjust(vals, n) ==
  IF n = MULTRET THEN vals
  ELSE [i \in 1 .. n |-> IF i <= Len(vals) THEN vals[i] ELSE Plain]

Top == native[Len(native)]
Caller == native[Len(native) - 1]

(* luaD_checkCstack: past LUAI_MAXCCALLS an error handler has room for an    *)
(* eighth more, so the check fails at that limit and from the hard one on.   *)
HardLimit == MaxCCalls + MaxCCalls \div 8
CStackOverflows(calls) == calls = MaxCCalls \/ calls >= HardLimit

AtKotlin == native # <<>> => Top.kind = "callback"
KotlinRuns == mode = "run" /\ AtKotlin
VmRuns(phase) == mode = "run" /\ ~AtKotlin /\ Top.phase = phase

NativeFrameFor(kind, func, pops, nresults, errfunc, calls, prev) ==
  [kind |-> kind, ci |-> Len(ci), nCcalls |-> calls, prev |-> prev,
   func |-> func, pops |-> pops, nresults |-> nresults, errfunc |-> errfunc,
   phase |-> "enter", status |-> OK]

(* Bugs: the frame saves the count of C calls after it counted itself, or   *)
(* none at all; its jump buffer is not chained to the one before it.        *)
NativeFrameCountsItself(kind, func, pops, nresults, errfunc) ==
  NativeFrameFor(kind, func, pops, nresults, errfunc, nCcalls + 1, errorjmp)
NativeFrameForgetsCalls(kind, func, pops, nresults, errfunc) ==
  NativeFrameFor(kind, func, pops, nresults, errfunc, 0, errorjmp)
NativeFrameUnchained(kind, func, pops, nresults, errfunc) ==
  NativeFrameFor(kind, func, pops, nresults, errfunc, nCcalls, 0)

NativeFrame(kind, func, pops, nresults, errfunc) ==
  NativeFrameFor(kind, func, pops, nresults, errfunc, nCcalls, errorjmp)

CallbackFrame ==
  [kind |-> "callback", ci |-> Len(ci) + 1, nCcalls |-> nCcalls, prev |-> errorjmp,
   func |-> 0, pops |-> 0, nresults |-> 0, errfunc |-> 0,
   phase |-> "body", status |-> OK]

InPhase(phase) == ReplaceAt(native, Len(native), [Top EXCEPT !.phase = phase])

Completed(frames, status) ==
  ReplaceAt(frames, Len(frames),
            [frames[Len(frames)] EXCEPT !.phase = "done", !.status = status])
-----------------------------------------------------------------------------
Init ==
  /\ stack = [i \in 1 .. LibSlots |-> Plain]
  /\ ci = <<0>>
  /\ nCcalls = 0
  /\ native = <<>>
  /\ errorjmp = 0
  /\ lastStatus = OK
  /\ pending = FALSE
  /\ outcome = [thrown |-> "none", status |-> OK, popped |-> "nothing"]
  /\ mode = "run"

(* What a request throws in Kotlin: nativeGetStatus rethrows a pending        *)
(* exception; otherwise propagateExceptionInner throws a LuaException if the *)
(* status that nativeGetStatus read, or the result of nativeCall, is not     *)
(* LUA_OK.  (A bug: LuaState.call forgets the result of nativeCall.)         *)
ThrownByStatusCell(last, res) ==
  CASE pending -> "kotlin" [] last # OK -> "lua" [] OTHER -> "none"
Thrown(last, res) ==
  IF pending THEN "kotlin" ELSE IF last # OK \/ res # OK THEN "lua" ELSE "none"

Popped(s, thrown) ==
  IF thrown # "lua" THEN "nothing"
  ELSE IF s # <<>> /\ Last(s) = Message THEN "message" ELSE "value"

(* How a request ends in Kotlin, when it really ended with `status`.  The     *)
(* message of a LuaException is fetched through a barrier, which resets      *)
(* luaW_lastStatus, and popped.  (A bug: the exception stays pending.)       *)
ConcludeWith(s, last, res, status, stillPending) ==
  LET thrown == Thrown(last, res)
  IN  /\ pending' = stillPending
      /\ outcome' = [thrown |-> thrown, status |-> status, popped |-> Popped(s, thrown)]
      /\ stack' = IF thrown = "lua" THEN Front(s) ELSE s
      /\ lastStatus' = IF thrown = "lua" THEN OK ELSE last
      /\ mode' = IF thrown = "lua" /\ Len(s) <= Base THEN "undefined" ELSE "run"

ConcludeKeepsPending(s, last, res, status) == ConcludeWith(s, last, res, status, pending)
Conclude(s, last, res, status) == ConcludeWith(s, last, res, status, FALSE)
-----------------------------------------------------------------------------
(* What Kotlin does with its own stack, without a barrier. *)
Local(s) ==
  /\ KotlinRuns
  /\ Len(s) <= MaxStack
  /\ stack' = s
  /\ UNCHANGED <<ci, nCcalls, native, errorjmp, lastStatus, pending, outcome, mode>>

Push(v) == Local(Append(stack, v))

PushValue(i) == i \in 1 .. GetTop /\ Local(Append(stack, stack[Base + i]))

SetTop(n) == Local(Adjust(stack, Base + n))

RemoveSlot(i) == i \in 1 .. GetTop /\ Local(RemoveAt(stack, Base + i))

InsertSlot(i) == i \in 1 .. GetTop /\ Local(InsertAt(Front(stack), Base + i, Last(stack)))

ReplaceSlot(i) ==
  /\ i \in 1 .. GetTop
  /\ Local(Front(ReplaceAt(stack, Base + i, Last(stack))))

(* nativePushFunction: the callback object is put in a new userdata, which *)
(* becomes the upvalue of a closure; neither allocation has a barrier.     *)
PushFunction == Local(Append(stack, Fn))
-----------------------------------------------------------------------------
(* The operations behind a luaW_ barrier: the operands they pop once they    *)
(* succeed, the values they push, and the operands of their metamethod.      *)
CheckedOps ==
  {[pops |-> 0, pushes |-> 1, operands |-> 2],  \* getField
   [pops |-> 1, pushes |-> 1, operands |-> 2],  \* getTable
   [pops |-> 1, pushes |-> 0, operands |-> 3],  \* setField, rawSetI
   [pops |-> 2, pushes |-> 0, operands |-> 3],  \* setTable, rawSet
   [pops |-> 0, pushes |-> 0, operands |-> 2]}  \* equal, lessThan

(* A checked operation that runs no metamethod ends within the native call. *)
CheckedOp(op, v, status) ==
  /\ KotlinRuns
  /\ GetTop >= op.pops
  /\ Room(1)
  /\ \/ /\ status = OK
        /\ Conclude(SubSeq(stack, 1, Len(stack) - op.pops) \o Adjust(<<v>>, op.pushes),
                    OK, OK, OK)
     \/ /\ status = ERRRUN
        /\ Conclude(Append(stack, Message), ERRRUN, OK, ERRRUN)
     \/ /\ status = ERRMEM
        /\ "barmem" \in Faults
        /\ Conclude(stack, ERRMEM, OK, ERRMEM)
  /\ UNCHANGED <<ci, nCcalls, native, errorjmp>>

(* pushString and toString: a barrier whose status Kotlin does not read. *)
UncheckedPush(v) ==
  /\ KotlinRuns
  /\ Room(1)
  /\ \/ /\ stack' = Append(stack, v)
        /\ lastStatus' = OK
     \/ /\ "barmem" \in Faults
        /\ lastStatus' = ERRMEM
        /\ UNCHANGED stack
  /\ UNCHANGED <<ci, nCcalls, native, errorjmp, pending, outcome, mode>>

(* setMetaTable raises on a read-only table, and Kotlin does not read the   *)
(* status: message and metatable stay on the stack, the status in its cell. *)
SetMetaTable(status) ==
  /\ KotlinRuns
  /\ GetTop >= 1
  /\ \/ /\ status = OK
        /\ stack' = Front(stack)
     \/ /\ status = ERRRUN
        /\ "unchecked" \in Faults
        /\ Room(1)
        /\ stack' = Append(stack, Message)
  /\ lastStatus' = status
  /\ UNCHANGED <<ci, nCcalls, native, errorjmp, pending, outcome, mode>>

(* The metamethod of a checked operation is a function: luaV_gettable and   *)
(* its like push it with its operands and call it, under the same barrier.  *)
(* (Bound of the model: not with the last C call that MaxCCalls allows.)    *)
OpCallsMetamethod(op) ==
  /\ KotlinRuns
  /\ GetTop >= op.pops
  /\ Room(1 + op.operands)
  /\ Nests
  /\ nCcalls + 1 < MaxCCalls
  /\ stack' = Append(stack, Fn) \o [i \in 1 .. op.operands |-> Plain]
  /\ native' = Append(native, NativeFrame("barrier", Len(stack) + 1, op.pops, op.pushes, 0))
  /\ errorjmp' = Len(native) + 1
  /\ nCcalls' = nCcalls + 1
  /\ UNCHANGED <<ci, lastStatus, pending, outcome, mode>>

(* nativeCall: the handler is pushed and inserted below the function, then  *)
(* lua_pcall installs a jump buffer and counts a nested C call.             *)
(* (A bug: lua_call instead of lua_pcall, which installs none.)             *)
NativeCallTo(nargs, nresults, jump) ==
  LET errfunc == GetTop + 1 - nargs - 1
      handler == Base + errfunc
  IN  /\ KotlinRuns
      /\ GetTop >= nargs + 1
      /\ Room(1)
      /\ Nests
      /\ stack' = InsertAt(stack, handler, Handler)
      /\ native' = Append(native, NativeFrame("call", handler + 1, 0, nresults, errfunc))
      /\ errorjmp' = jump
      /\ nCcalls' = nCcalls + 1
      /\ UNCHANGED <<ci, lastStatus, pending, outcome, mode>>

NativeCallUnprotected(nargs, nresults) == NativeCallTo(nargs, nresults, errorjmp)
NativeCall(nargs, nresults) == NativeCallTo(nargs, nresults, Len(native) + 1)
-----------------------------------------------------------------------------
(* luaD_throw: the raise lands in the frame that errorjmp names, whatever    *)
(* lies above it.  A lua_pcall restores the thread and leaves the message    *)
(* (its own, the handler's, or "error in error handling") where the function *)
(* was; a barrier only leaves, with the message that an error other than a   *)
(* failed allocation had pushed.                                             *)
Raise(code) ==
  LET target == native[errorjmp]
      handlerFails == CStackOverflows(nCcalls + 1)
  IN  IF errorjmp = 0
      THEN /\ mode' = "aborted"
           /\ UNCHANGED <<stack, ci, nCcalls, native, errorjmp>>
      ELSE IF \E k \in errorjmp + 1 .. Len(native) : native[k].kind = "callback"
      THEN /\ mode' = "jumped"
           /\ UNCHANGED <<stack, ci, nCcalls, native, errorjmp>>
      ELSE IF target.kind = "call"
      THEN /\ stack' = Append(Below(target.func), Message)
           /\ ci' = SubSeq(ci, 1, target.ci)
           /\ nCcalls' = target.nCcalls
           /\ native' = Completed(SubSeq(native, 1, errorjmp),
                                  IF handlerFails THEN ERRERR ELSE code)
           /\ UNCHANGED <<errorjmp, mode>>
      ELSE /\ stack' = IF code = ERRMEM THEN stack ELSE Append(stack, Message)
           /\ native' = Completed(SubSeq(native, 1, errorjmp), code)
           /\ UNCHANGED <<ci, nCcalls, errorjmp, mode>>

(* luaD_callint returns: the results replace the function and its arguments. *)
Finish(frames, vals) ==
  LET f == frames[Len(frames)]
      s == Below(f.func) \o Adjust(vals, f.nresults)
  IN  /\ Len(s) <= MaxStack
      /\ stack' = s
      /\ nCcalls' = nCcalls - 1
      /\ native' = Completed(frames, OK)

Callable == ~CStackOverflows(nCcalls) /\ stack[Top.func] = Fn

(* luau_precall: the function is a Lua function, ... *)
PrecallLua ==
  /\ VmRuns("enter")
  /\ Callable
  /\ ci' = Append(ci, Top.func)
  /\ native' = InPhase("body")
  /\ UNCHANGED <<stack, nCcalls, errorjmp, lastStatus, pending, outcome, mode>>

(* ... or a Kotlin callback, ... *)
PrecallKotlin ==
  /\ VmRuns("enter")
  /\ Callable
  /\ Len(native) < MaxNative
  /\ ci' = Append(ci, Top.func)
  /\ native' = Append(InPhase("direct"), CallbackFrame)
  /\ UNCHANGED <<stack, nCcalls, errorjmp, lastStatus, pending, outcome, mode>>

(* ... or there is nothing to call, or no C stack left for it. *)
PrecallRaises ==
  /\ VmRuns("enter")
  /\ ~Callable
  /\ Raise(ERRRUN)
  /\ UNCHANGED <<lastStatus, pending, outcome>>

LuaCallsKotlin(args) ==
  /\ VmRuns("body")
  /\ Room(1 + Len(args))
  /\ Len(native) < MaxNative
  /\ stack' = Append(stack, Fn) \o args
  /\ ci' = Append(ci, Len(stack) + 1)
  /\ native' = Append(native, CallbackFrame)
  /\ UNCHANGED <<nCcalls, errorjmp, lastStatus, pending, outcome, mode>>

(* (A bug: OP_RETURN does not pop the call info.)                            *)
LuaReturnsTo(vals, frames) ==
  /\ VmRuns("body")
  /\ ci' = frames
  /\ Finish(native, vals)
  /\ UNCHANGED <<errorjmp, lastStatus, pending, outcome, mode>>

LuaReturnsInPlace(vals) == LuaReturnsTo(vals, ci)
LuaReturns(vals) == LuaReturnsTo(vals, Front(ci))

(* Lua code raises an error that it does not catch, or runs out of memory.   *)
LuaRaises ==
  /\ VmRuns("body")
  /\ Top.kind = "call" \/ "metamethod" \in Faults
  /\ \/ Raise(ERRRUN)
     \/ /\ Top.kind = "call" \/ "barmem" \in Faults
        /\ Raise(ERRMEM)
  /\ UNCHANGED <<lastStatus, pending, outcome>>
-----------------------------------------------------------------------------
(* The callback returns its n topmost values.  The VM pops the frame that    *)
(* L->ci names, and takes it for the callback's own.                         *)
CallbackReturns(n) ==
  /\ KotlinRuns
  /\ native # <<>>
  /\ n \in 0 .. GetTop
  /\ IF Len(ci) # Top.ci
     THEN /\ mode' = "undefined"
          /\ UNCHANGED <<stack, ci, nCcalls, native>>
     ELSE /\ mode' = "run"
          /\ ci' = Front(ci)
          /\ IF Caller.phase = "direct"
             THEN Finish(Front(native), SubSeq(stack, Len(stack) - n + 1, Len(stack)))
             ELSE /\ stack' = Below(Base)
                  /\ native' = Front(native)
                  /\ UNCHANGED nCcalls
  /\ UNCHANGED <<errorjmp, lastStatus, pending, outcome>>

(* An exception escapes from the callback: the trampoline keeps it in        *)
(* g_pendingException and returns -103, which the VM takes for a yield.  It  *)
(* leaves the call without popping any frame, and without raising.           *)
CallbackThrows ==
  /\ KotlinRuns
  /\ native # <<>>
  /\ "escape" \in Faults
  /\ pending' = TRUE
  /\ Finish(Front(native), SubSeq(stack, Caller.func, Len(stack)))
  /\ UNCHANGED <<ci, errorjmp, lastStatus, outcome, mode>>

(* ... or, if Lua code called it through a function of the VM, that function *)
(* takes the call for one that returned, as luaL_pcallyieldable does when    *)
(* luaD_pcall catches nothing.  It returns to the Lua code, and LOP_CALL     *)
(* pops one frame where two were pushed: the code goes on one frame too      *)
(* high, its registers right above that frame, with the exception pending.   *)
CallbackThrowsThrough ==
  /\ KotlinRuns
  /\ native # <<>>
  /\ Caller.phase = "body"
  /\ {"escape", "through"} \subseteq Faults
  /\ pending' = TRUE
  /\ native' = Front(native)
  /\ stack' = Adjust(stack, Base)
  /\ UNCHANGED <<ci, nCcalls, errorjmp, lastStatus, outcome, mode>>

(* The Lua code's LOP_RETURN then pops the frame that was left above its own *)
(* and, as that one does not end the execution, goes on where its own frame  *)
(* was saved.  (LuaReturns is the other case: the frame left on top belongs  *)
(* to a Lua function that a function of the VM had called, and ends it.)     *)
LuaRunsOn ==
  /\ VmRuns("body")
  /\ Len(ci) > Top.ci + 1
  /\ ci' = Front(ci)
  /\ UNCHANGED <<stack, nCcalls, native, errorjmp, lastStatus, pending, outcome, mode>>

(* An operation that allocates without a barrier runs out of memory. *)
RawAllocFails ==
  /\ KotlinRuns
  /\ "rawmem" \in Faults
  /\ Raise(ERRMEM)
  /\ UNCHANGED <<lastStatus, pending, outcome>>

(* nativeCall removes the handler, at an index that it computed relative to  *)
(* L->base before the call, and LuaState.call reads how the call ended.      *)
CallReturns ==
  LET handler == Base + Top.errfunc
  IN  /\ VmRuns("done")
      /\ Top.kind = "call"
      /\ errorjmp' = Top.prev
      /\ native' = Front(native)
      /\ IF handler \in 1 .. Len(stack)
         THEN Conclude(RemoveAt(stack, handler), lastStatus, Top.status, Top.status)
         ELSE mode' = "undefined" /\ UNCHANGED <<stack, lastStatus, pending, outcome>>
      /\ UNCHANGED <<ci, nCcalls>>

(* The operation stores the metamethod's result in place of the operands     *)
(* that it pops; then luaW_exit and checkException.                          *)
BarrierReturns ==
  LET results == SubSeq(stack, Top.func, Len(stack))
  IN  /\ VmRuns("done")
      /\ Top.kind = "barrier"
      /\ errorjmp' = Top.prev
      /\ native' = Front(native)
      /\ Conclude(IF Top.status = OK THEN Below(Top.func - Top.pops) \o results ELSE stack,
                  Top.status, OK, Top.status)
      /\ UNCHANGED <<ci, nCcalls>>
-----------------------------------------------------------------------------
KotlinStep ==
  \/ \E v \in Val : Push(v) \/ UncheckedPush(v)
  \/ PushFunction
  \/ \E i \in 1 .. GetTop : PushValue(i) \/ RemoveSlot(i) \/ InsertSlot(i) \/ ReplaceSlot(i)
  \/ \E n \in 0 .. MaxStack : SetTop(n)
  \/ \E op \in CheckedOps, v \in Val, status \in {OK, ERRRUN, ERRMEM} : CheckedOp(op, v, status)
  \/ \E status \in {OK, ERRRUN} : SetMetaTable(status)
  \/ \E op \in CheckedOps : OpCallsMetamethod(op)
  \/ \E nargs \in 0 .. GetTop - 1, nresults \in ResultCounts : NativeCall(nargs, nresults)
  \/ \E n \in 0 .. GetTop : CallbackReturns(n)
  \/ CallbackThrows
  \/ CallbackThrowsThrough
  \/ RawAllocFails

VmStep ==
  \/ PrecallLua
  \/ PrecallKotlin
  \/ PrecallRaises
  \/ \E vals \in Lists : LuaCallsKotlin(vals) \/ LuaReturns(vals)
  \/ LuaRaises
  \/ LuaRunsOn
  \/ CallReturns
  \/ BarrierReturns

Next == KotlinStep \/ VmStep

Spec == Init /\ [][Next]_vars
-----------------------------------------------------------------------------
Frame ==
  [kind : {"call", "barrier", "callback"}, ci : Nat, nCcalls : Nat, prev : Nat,
   func : Nat, pops : 0 .. 2, nresults : ResultCounts, errfunc : Int,
   phase : {"enter", "body", "direct", "done"}, status : Statuses]

Outcome ==
  [thrown : {"none", "lua", "kotlin"}, status : Statuses,
   popped : {"nothing", "message", "value"}]

TypeOK ==
  /\ stack \in Seq(Slot)
  /\ ci \in Seq(Nat)
  /\ nCcalls \in Nat
  /\ native \in Seq(Frame)
  /\ errorjmp \in Nat
  /\ lastStatus \in Statuses
  /\ pending \in BOOLEAN
  /\ outcome \in Outcome
  /\ mode \in {"run", "undefined", "jumped", "aborted"}

Guards == {k \in 1 .. Len(native) : native[k].kind # "callback"}

(* Whenever Kotlin code runs, the VM is in that code's own frame: L->ci is   *)
(* the call info its trampoline was entered with (base_ci for the program),  *)
(* so that every stack index means what it meant before a call, and nCcalls  *)
(* counts exactly the native calls that are open.  The bridge never checks   *)
(* this; it relies on every call unwinding to where it began.                *)
FrameDiscipline ==
  KotlinRuns => /\ Len(ci) = IF native = <<>> THEN 1 ELSE Top.ci
                /\ nCcalls = Cardinality(Guards)

(* A raise lands in the innermost lua_pcall or barrier, and there always is  *)
(* one when the VM can raise: errorjmp is never NULL there, and never names  *)
(* a jump buffer whose native frame has returned.                            *)
JumpTarget ==
  /\ errorjmp \in Guards \cup {0}
  /\ \A k \in Guards : k <= errorjmp

(* No raise unwinds the C stack across a running Kotlin callback: that is    *)
(* what the barriers exist for (luaujava.h:4).                               *)
NoJumpOverKotlin == mode # "jumped"

(* The VM pops the frame of the callback that returns, the handler is taken  *)
(* from its own slot and a popped message from above the base: nothing in    *)
(* the VM or the bridge reads a frame or a slot that is not its own.         *)
OwnFramesOnly == mode # "undefined"

(* The error handlers on the value stack are those of the open calls, each   *)
(* at the slot from which nativeCall will remove it, below everything that   *)
(* the callee can reach.                                                     *)
HandlersInPlace ==
  mode = "run" =>
    {k \in 1 .. Len(stack) : stack[k] = Handler}
      = {ci[native[k].ci] + native[k].errfunc : k \in {g \in Guards : native[g].kind = "call"}}

(* LuaState.call and the checked operations throw a LuaException exactly if  *)
(* what they were asked for failed, whatever barriers ran since the status   *)
(* cell was last written, and what they pop is the error message.            *)
OutcomeFaithful ==
  outcome.thrown # "kotlin" =>
    /\ outcome.thrown = "lua" <=> outcome.status # OK
    /\ outcome.popped # "value"

(* An exception that escaped from a callback is thrown again by the request  *)
(* that ran the callback: no Kotlin code runs while one is pending, even if  *)
(* the VM's own frames are in disorder.  (Not so once Lua code can call the  *)
(* callback through a function of the VM: that code goes on, and may call    *)
(* the next callback.)                                                       *)
PendingDelivered == KotlinRuns => ~pending

(* Whatever goes wrong, and however many callbacks ran on meanwhile, an      *)
(* exception is thrown by the time the outermost request returns: the        *)
(* program never runs with one pending that its next, unrelated, request     *)
(* would throw.                                                              *)
NonePendingAtReturn == mode = "run" /\ native = <<>> => ~pending
=============================================================================
