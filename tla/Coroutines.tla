----------------------------- MODULE Coroutines -----------------------------
(***************************************************************************)
(* Coroutines whose frames are Lua functions and Kotlin callbacks: how     *)
(* lua_resume, lua_yield and pcall keep the frames of each thread and the  *)
(* C stack in step (ldo.cpp, laux.cpp), with the two trampolines of        *)
(* novelua_jni.cpp on top.                                                 *)
(*                                                                         *)
(* A yield unwinds the C stack to the resume and leaves the frames of the  *)
(* thread; the next resume goes on from those frames alone.  So whatever   *)
(* had a C activation must be able to go on without it: a C function does  *)
(* it by its continuation.  A frame here is the name of what it runs;      *)
(* arguments, results and the stack slots are left out.                    *)
(***************************************************************************)
EXTENDS Naturals, Sequences, FiniteSets

CONSTANTS
    Main, Co,      \* the main thread; the others
    Nil,           \* no thread
    MaxCCalls,     \* LUAI_MAXCCALLS (200)
    HardLimit,     \* the limit for error handlers, an eighth more (225)
    MaxFrames,     \* bound of the model on the frames of all threads
    MaxNative,     \* bound of the model on the C stack
    Faults         \* what Kotlin code does against the bridge's expectations:
                   \* "throws"  exceptions leave callbacks
                   \* "nested"  a yieldable callback calls where a yield may happen

Threads == {Main} \cup Co

ASSUME CoroutinesAssumption ==
    /\ Main \notin Co /\ Nil \notin Threads
    /\ MaxCCalls \in Nat \ {0} /\ HardLimit \in Nat /\ MaxCCalls <= HardLimit
    /\ MaxFrames \in Nat /\ MaxNative \in Nat
    /\ Faults \subseteq {"throws", "nested"}

VARIABLES
    status,    \* L->status; "REENTRY" is SCHEDULED_REENTRY
    ci,        \* the frames above L->base_ci of every thread
    nCcalls, baseCcalls,
    native     \* the C stack: calls, pcalls and resumes (each with a jump buffer)
               \* and callbacks, all of whatever thread

vars == <<status, ci, nCcalls, baseCcalls, native>>

\* "entry" is a Lua function with LUA_CALLINFO_RETURN, which ends luau_execute; "lua"
\* was called by Lua code.  The other frames are C functions.
LuaFrames    == {"lua", "entry"}
KotlinFrames == {"plain", "yieldable"}
WithCont     == {"yieldable", "pcall", "coresume"}
Frames       == LuaFrames \cup KotlinFrames \cup WithCont \cup {"coyield"}

Front(s) == SubSeq(s, 1, Len(s) - 1)
Last(s)  == s[Len(s)]
Top(th)  == IF ci[th] = <<>> THEN "none" ELSE Last(ci[th])

Innermost   == IF native = <<>> THEN [kind |-> "program", th |-> Main, at |-> 0] ELSE Last(native)
Running     == Innermost.th
KotlinRuns  == Innermost.kind \in {"program", "callback"}
VmRuns(th)  == ~KotlinRuns /\ Running = th
LuaRuns(th) == VmRuns(th) /\ status[th] = "OK" /\ Top(th) \in LuaFrames

\* luaD_checkCstack.  A coroutine that was resumed at the limit is past it, and calls on.
CStackOverflows(calls) == calls = MaxCCalls \/ calls >= HardLimit

lua_isyieldable(th) == nCcalls[th] <= baseCcalls[th]

\* luaD_callint was called from a C function with a continuation: the frame at
FromCont(th, at) == IF at > 0 /\ ci[th][at] \in WithCont THEN 1 ELSE 0

Guard(kind, th, at) == [kind |-> kind, th |-> th, at |-> at,
                        nC |-> nCcalls[th], base |-> baseCcalls[th]]

\* The C stack with the trampoline on it if the new frame is that of a Kotlin function.
\* entry says what the trampoline returns to: luau_precall in resume ("start"), a call
\* ("invoke"), or resume_continue ("cont")
WithTrampoline(stack, th, frames, entry) ==
    IF Last(frames) \in KotlinFrames
    THEN Append(stack, [kind |-> "callback", th |-> th, at |-> Len(frames), entry |-> entry])
    ELSE stack

InBounds == /\ Len(native') <= MaxNative
            /\ Cardinality(UNION {{th} \X DOMAIN ci'[th] : th \in Threads}) <= MaxFrames

----------------------------------------------------------------------------
(* Calls.                                                                  *)

\* LuaState.call: nativeCall and lua_pcall up to the function f.  (At the limit of
\* C calls it fails at once and leaves everything as it was.)
KotlinCalls(th, f) ==
    /\ KotlinRuns /\ Running = th
    /\ ~CStackOverflows(nCcalls[th] + 1)
    /\ LET at     == Len(ci[th])
           frames == Append(ci[th], f)
           cont   == FromCont(th, at)
       IN  /\ cont = 1 /\ lua_isyieldable(th) => "nested" \in Faults
           /\ ci' = [ci EXCEPT ![th] = frames]
           /\ native' = WithTrampoline(Append(native, Guard("call", th, at)), th, frames, "invoke")
           /\ nCcalls' = [nCcalls EXCEPT ![th] = @ + 1]
           /\ baseCcalls' = [baseCcalls EXCEPT ![th] = @ + cont]
    /\ UNCHANGED status
    /\ InBounds

\* LOP_CALL
LuaCalls(th, f) ==
    /\ LuaRuns(th)
    /\ LET frames == Append(ci[th], f)
       IN  /\ ci' = [ci EXCEPT ![th] = frames]
           /\ native' = WithTrampoline(native, th, frames, "invoke")
    /\ UNCHANGED <<status, nCcalls, baseCcalls>>
    /\ InBounds

\* pcall(f): in a yieldable context a Lua function is left to the loop of lua_resume,
\* and pcall gives its C activation up at once.  (At the limit of C calls luaD_callint
\* raises before it does anything; pcall catches that and returns false, which leaves
\* every frame and count as it was: no step of this model.)
LuaPcalls(th, f) ==
    /\ LuaRuns(th)
    /\ ~CStackOverflows(nCcalls[th] + 1)
    /\ LET frames  == ci[th] \o <<"pcall", f>>
           at      == Len(ci[th]) + 1
       IN  /\ ci' = [ci EXCEPT ![th] = frames]
           /\ IF f \in LuaFrames /\ lua_isyieldable(th)
              THEN /\ status' = [status EXCEPT ![th] = "REENTRY"]
                   /\ UNCHANGED <<nCcalls, baseCcalls, native>>
              ELSE /\ native' = WithTrampoline(Append(native, Guard("pcall", th, at)), th, frames, "invoke")
                   /\ nCcalls' = [nCcalls EXCEPT ![th] = @ + 1]
                   /\ baseCcalls' = [baseCcalls EXCEPT ![th] = @ + 1]
                   /\ UNCHANGED status
    /\ InBounds

\* LOP_RETURN.  After the return of an "entry" the native frame goes on.
LuaReturns(th) ==
    /\ LuaRuns(th)
    /\ ci' = [ci EXCEPT ![th] = Front(@)]
    /\ UNCHANGED <<status, nCcalls, baseCcalls, native>>

\* Who resumed the thread at the end of stack: Kotlin code or coroutine.resume, which
\* then has a frame of its own to return from.
Resumer(stack) == IF Len(stack) = 1 THEN Main ELSE stack[Len(stack) - 1].th
BackIn(frames, th) == IF frames[th] # <<>> /\ Last(frames[th]) = "coresume"
                      THEN [frames EXCEPT ![th] = Front(@)] ELSE frames

\* A slip for the mutation tests: the count of the resume itself is taken back twice.
ResumedLowersTwice(th, stack, frames) ==
    /\ native' = Front(stack)
    /\ ci' = BackIn(frames, Resumer(stack))
    /\ nCcalls' = [nCcalls EXCEPT ![th] = Last(stack).nC - 2]
    /\ baseCcalls' = [baseCcalls EXCEPT ![th] = Last(stack).nC - 2]

\* the end of resume_finish, with stack ending in the lua_resume of th
Resumed(th, stack, frames) ==
    /\ native' = Front(stack)
    /\ ci' = BackIn(frames, Resumer(stack))
    /\ nCcalls' = [nCcalls EXCEPT ![th] = Last(stack).nC - 1]
    /\ baseCcalls' = [baseCcalls EXCEPT ![th] = Last(stack).nC - 1]

\* A callback returns to its trampoline, and luau_precall, LOP_CALL or resume_continue
\* pops the frame.
CallbackReturns(th) ==
    /\ native' = Front(native)
    /\ ci' = [ci EXCEPT ![th] = Front(@)]
    /\ UNCHANGED <<nCcalls, baseCcalls>>

\* An exception leaves it.  The VM takes the trampoline's -103 for a yield and pops
\* nothing, but resume_continue takes it for a number of results.
CallbackThrows(th) ==
    IF Innermost.entry = "start" THEN Resumed(th, Front(native), ci)
    ELSE /\ native' = Front(native)
         /\ ci' = IF Innermost.entry = "cont" THEN [ci EXCEPT ![th] = Front(@)] ELSE ci
         /\ UNCHANGED <<nCcalls, baseCcalls>>

CallbackEnds(th) ==
    /\ KotlinRuns /\ Running = th /\ native # <<>>
    /\ \E throws \in IF "throws" \in Faults THEN BOOLEAN ELSE {FALSE} :
          IF throws THEN CallbackThrows(th) ELSE CallbackReturns(th)
    /\ UNCHANGED status

----------------------------------------------------------------------------
(* Yields.                                                                 *)

\* A slip for the mutation tests: a Kotlin function yields whatever called it.
KotlinYieldsAnywhere(th) ==
    /\ KotlinRuns /\ Running = th /\ native # <<>>
    /\ status' = [status EXCEPT ![th] = "YIELD"]
    /\ native' = Front(native)
    /\ UNCHANGED <<ci, nCcalls, baseCcalls>>

\* return state.yield(n) in a callback, first called or continued.  Where the thread
\* cannot yield, LuaState.yield throws and nothing has changed.
KotlinYields(th) ==
    /\ KotlinRuns /\ Running = th /\ native # <<>>
    /\ lua_isyieldable(th)
    /\ status' = [status EXCEPT ![th] = "YIELD"]
    /\ native' = Front(native)
    /\ UNCHANGED <<ci, nCcalls, baseCcalls>>

\* coroutine.yield
LuaYields(th) ==
    /\ LuaRuns(th) /\ lua_isyieldable(th)
    /\ ci' = [ci EXCEPT ![th] = Append(@, "coyield")]
    /\ status' = [status EXCEPT ![th] = "YIELD"]
    /\ UNCHANGED <<nCcalls, baseCcalls, native>>
    /\ InBounds

isyielded(th) == status[th] \in {"YIELD", "REENTRY"}

\* The VM is back in luaD_callint with the call of Innermost completed or yielded.
CallOver(th) == \/ isyielded(th)
                \/ status[th] = "OK" /\ Len(ci[th]) = Innermost.at

\* A slip for the mutation tests: baseCcalls stays raised.
CalledKeepsBase(th) ==
    /\ nCcalls' = [nCcalls EXCEPT ![th] = @ - 1]
    /\ baseCcalls' = baseCcalls

\* the end of luaD_callint
Called(th) ==
    /\ nCcalls' = [nCcalls EXCEPT ![th] = @ - 1]
    /\ baseCcalls' = [baseCcalls EXCEPT ![th] = @ - FromCont(th, Innermost.at)]

\* the end of lua_pcall and nativeCall; Kotlin is not told of a yield
CallReturns(th) ==
    /\ VmRuns(th) /\ Innermost.kind = "call" /\ CallOver(th)
    /\ Called(th)
    /\ native' = Front(native)
    /\ UNCHANGED <<status, ci>>

\* the end of luaL_pcallyieldable: the continuation returns the results, or pcall
\* gives up its C activation
PcallReturns(th) ==
    /\ VmRuns(th) /\ Innermost.kind = "pcall" /\ CallOver(th)
    /\ Called(th)
    /\ native' = Front(native)
    /\ ci' = IF isyielded(th) THEN ci ELSE [ci EXCEPT ![th] = Front(@)]
    /\ UNCHANGED status

----------------------------------------------------------------------------
(* lua_resume.                                                             *)

\* resume_start: co may start or go on; otherwise lua_resume only returns an error
MayResume(co) == status[co] = "YIELD" \/ (status[co] = "OK" /\ ci[co] = <<>>)

CountOf(from) == IF from = Nil THEN 0 ELSE nCcalls[from]

\* A slip for the mutation tests: the frame of a function without continuation stays.
BegunKeepsFrame(co, f) == IF ci[co] = <<>> THEN <<f>> ELSE ci[co]

\* A slip for the mutation tests: continuations are forgotten.
BegunWithoutContinuation(co, f) == IF ci[co] = <<>> THEN <<f>> ELSE Front(ci[co])

\* resume as far as the first function, or what is left of the last yield: a C function
\* without a continuation is over.
Begun(co, f) == IF ci[co] = <<>> THEN <<f>>
                ELSE IF Last(ci[co]) \in WithCont THEN ci[co] ELSE Front(ci[co])

\* lua_resume(co, from, nargs) by the running thread, whose frames held shows; f is
\* what co starts with if it has not begun
Resume(co, from, f, held) ==
    /\ MayResume(co) /\ CountOf(from) < MaxCCalls
    /\ LET frames == Begun(co, f)
           count  == CountOf(from) + 1
           jump   == [kind |-> "resume", th |-> co, at |-> 0, nC |-> count, base |-> count]
       IN  /\ ci' = [held EXCEPT ![co] = frames]
           /\ native' = IF ci[co] = <<>>
                        THEN WithTrampoline(Append(native, jump), co, frames, "start")
                        ELSE Append(native, jump)
           /\ nCcalls' = [nCcalls EXCEPT ![co] = count]
           /\ baseCcalls' = [baseCcalls EXCEPT ![co] = count]
    /\ status' = [status EXCEPT ![co] = "OK"]
    /\ InBounds

\* what co may start with; if it has begun there is nothing to choose
Starts(co) == IF ci[co] = <<>> THEN KotlinFrames \cup {"entry"} ELSE {"none"}

\* LuaState.resume; from may be null
KotlinResumes(th, co, from) ==
    /\ KotlinRuns /\ Running = th
    /\ \E f \in Starts(co) : Resume(co, from, f, ci)

\* LuaState.resume of a thread without a function to start
KotlinResumesDead(th, co) ==
    /\ KotlinRuns /\ Running = th
    /\ status[co] = "OK" /\ ci[co] = <<>>
    /\ status' = [status EXCEPT ![co] = "ERRRUN"]
    /\ nCcalls' = [nCcalls EXCEPT ![co] = nCcalls[th]]
    /\ baseCcalls' = [baseCcalls EXCEPT ![co] = nCcalls[th]]
    /\ UNCHANGED <<ci, native>>

\* coroutine.resume
LuaResumes(th, co) ==
    /\ LuaRuns(th)
    /\ \E f \in Starts(co) : Resume(co, th, f, [ci EXCEPT ![th] = Append(@, "coresume")])

\* coroutine.close
LuaCloses(th, co) ==
    /\ LuaRuns(th)
    /\ MayResume(co) \/ status[co] = "ERRRUN"
    /\ ci' = [ci EXCEPT ![co] = <<>>]
    /\ status' = [status EXCEPT ![co] = "OK"]
    /\ nCcalls' = [nCcalls EXCEPT ![co] = 0]
    /\ baseCcalls' = [baseCcalls EXCEPT ![co] = 0]
    /\ UNCHANGED native

\* resume_continue after a scheduled reentry
Reenter(th) ==
    /\ VmRuns(th) /\ Innermost.kind = "resume" /\ status[th] = "REENTRY"
    /\ status' = [status EXCEPT ![th] = "OK"]
    /\ UNCHANGED <<ci, nCcalls, baseCcalls, native>>

\* resume_continue when the last frame is that of a C function
InCFrame(th) == /\ VmRuns(th) /\ Innermost.kind = "resume" /\ status[th] = "OK"
                /\ Top(th) \notin LuaFrames \cup {"none"}

\* luaB_pcallcont, or resume of the LuaYieldableFunction by its trampoline
Continue(th) ==
    /\ InCFrame(th)
    /\ native' = WithTrampoline(native, th, ci[th], "cont")
    /\ ci' = IF Top(th) = "pcall" THEN [ci EXCEPT ![th] = Front(@)] ELSE ci
    /\ UNCHANGED <<status, nCcalls, baseCcalls>>
    /\ InBounds

\* the thread has yielded or come to its end: resume_finish
ResumeReturns(th) ==
    /\ VmRuns(th) /\ Innermost.kind = "resume"
    /\ MayResume(th)
    /\ Resumed(th, native, ci)
    /\ UNCHANGED status

----------------------------------------------------------------------------
(* Errors of Lua code.                                                     *)

\* A slip for the mutation tests: the count of C calls stays as the error found it.
RaiseToCallKeepsCount(th) ==
    /\ native' = Front(native)
    /\ ci' = [ci EXCEPT ![th] = SubSeq(@, 1, IF Innermost.kind = "pcall" THEN Innermost.at - 1
                                                                        ELSE Innermost.at)]
    /\ UNCHANGED <<status, nCcalls, baseCcalls>>

\* luaD_pcall restores what lua_pcall or pcall saved; pcall returns false
RaiseToCall(th) ==
    /\ native' = Front(native)
    /\ ci' = [ci EXCEPT ![th] = SubSeq(@, 1, IF Innermost.kind = "pcall" THEN Innermost.at - 1
                                                                        ELSE Innermost.at)]
    /\ nCcalls' = [nCcalls EXCEPT ![th] = Innermost.nC]
    /\ baseCcalls' = [baseCcalls EXCEPT ![th] = Innermost.base]
    /\ UNCHANGED status

\* resume_findhandler: the frames with LUA_CALLINFO_HANDLE
Handlers(th) == {i \in DOMAIN ci[th] : ci[th][i] = "pcall"}
Highest(S)   == CHOOSE i \in S : \A j \in S : j <= i

\* A slip for the mutation tests: the outermost pcall handles.
RaiseToResumeOutermost(th) ==
    IF Handlers(th) = {}
    THEN /\ status' = [status EXCEPT ![th] = "ERRRUN"]
         /\ Resumed(th, native, ci)
    ELSE /\ ci' = [ci EXCEPT ![th] = SubSeq(@, 1, (CHOOSE i \in Handlers(th) : \A j \in Handlers(th) : i <= j) - 1)]
         /\ nCcalls' = [nCcalls EXCEPT ![th] = Innermost.nC]
         /\ baseCcalls' = [baseCcalls EXCEPT ![th] = Innermost.nC]
         /\ UNCHANGED <<status, native>>

\* A slip for the mutation tests: the failed coroutine's status is not set.
RaiseToResumeUnrecorded(th) ==
    IF Handlers(th) = {}
    THEN /\ UNCHANGED status
         /\ Resumed(th, native, ci)
    ELSE /\ ci' = [ci EXCEPT ![th] = SubSeq(@, 1, Highest(Handlers(th)) - 1)]
         /\ nCcalls' = [nCcalls EXCEPT ![th] = Innermost.nC]
         /\ baseCcalls' = [baseCcalls EXCEPT ![th] = Innermost.nC]
         /\ UNCHANGED <<status, native>>

\* resume_finish and resume_handle: the last pcall, whose C activation is gone,
\* returns false; without one the coroutine fails and keeps its frames
RaiseToResume(th) ==
    IF Handlers(th) = {}
    THEN /\ status' = [status EXCEPT ![th] = "ERRRUN"]
         /\ Resumed(th, native, ci)
    ELSE /\ ci' = [ci EXCEPT ![th] = SubSeq(@, 1, Highest(Handlers(th)) - 1)]
         /\ nCcalls' = [nCcalls EXCEPT ![th] = Innermost.nC]
         /\ baseCcalls' = [baseCcalls EXCEPT ![th] = Innermost.nC]
         /\ UNCHANGED <<status, native>>

Raise(th) ==
    /\ LuaRuns(th)
    /\ IF Innermost.kind = "resume" THEN RaiseToResume(th) ELSE RaiseToCall(th)

----------------------------------------------------------------------------
Init ==
    /\ status = [th \in Threads |-> "OK"]
    /\ ci = [th \in Threads |-> <<>>]
    /\ nCcalls = [th \in Threads |-> 0]
    /\ baseCcalls = [th \in Threads |-> 0]
    /\ native = <<>>

Next == \E th \in Threads :
    \/ \E f \in KotlinFrames \cup {"entry"} : KotlinCalls(th, f) \/ LuaPcalls(th, f)
    \/ \E f \in KotlinFrames \cup {"lua"} : LuaCalls(th, f)
    \/ \E co \in Co : \/ \E from \in {th, Nil} : KotlinResumes(th, co, from)
                     \/ KotlinResumesDead(th, co)
                     \/ LuaResumes(th, co) \/ LuaCloses(th, co)
    \/ LuaReturns(th) \/ LuaYields(th) \/ Raise(th)
    \/ CallbackEnds(th) \/ KotlinYields(th)
    \/ CallReturns(th) \/ PcallReturns(th) \/ ResumeReturns(th)
    \/ Reenter(th) \/ Continue(th)

Spec == Init /\ [][Next]_vars

----------------------------------------------------------------------------
(* Properties.                                                             *)

NativeFrame ==
    [kind : {"call", "pcall", "resume"}, th : Threads, at : Nat,
     nC : 0 .. HardLimit, base : 0 .. HardLimit]
    \cup [kind : {"callback"}, th : Threads, at : Nat \ {0},
          entry : {"start", "invoke", "cont"}]

TypeOK ==
    /\ status \in [Threads -> {"OK", "YIELD", "REENTRY", "ERRRUN"}]
    /\ ci \in [Threads -> Seq(Frames)]
    /\ nCcalls \in [Threads -> 0 .. HardLimit]
    /\ baseCcalls \in [Threads -> 0 .. HardLimit]
    /\ native \in Seq(NativeFrame)

\* The C activations of th, and the frames whose Kotlin functions are executing.
Above(th)     == {k \in DOMAIN native : native[k].th = th}
Executing(th) == {native[k].at : k \in {n \in Above(th) : native[n].kind = "callback"}}

\* While Kotlin code runs, the last frame of its thread is its own: what it called or
\* resumed has left nothing behind, neither by returning nor by a yield or an error.
\* And a Kotlin function that is executing still has its frame.
KotlinOwnsFrame ==
    /\ \A th \in Threads : \A i \in Executing(th) : i \in DOMAIN ci[th] /\ ci[th][i] \in KotlinFrames
    /\ KotlinRuns => Len(ci[Running]) = Innermost.at

\* What resume_continue relies on (its assertion): a C frame that is left without a C
\* activation has a continuation, but for the one that yielded.
ContinuationThere ==
    /\ \A th \in Threads : InCFrame(th) => Top(th) \in WithCont
    /\ \A co \in Co : status[co] = "YIELD" /\ Above(co) = {} =>
          \A i \in 1 .. Len(ci[co]) - 1 : ci[co][i] \in LuaFrames \cup {"yieldable", "pcall"}

\* The guards of native that count for the running thread: those from the last
\* lua_resume that began counting anew.
Counted == {k \in DOMAIN native :
              /\ native[k].kind # "callback"
              /\ \A j \in k + 1 .. Len(native) : ~(native[j].kind = "resume" /\ native[j].nC = 1)}

\* nCcalls, by which the C stack is limited, is exact through yields and errors: of
\* the running thread, and of a waiting one as its resumer left it.
CallsCounted == nCcalls[Running] = Cardinality(Counted)

\* lua_isyieldable is true exactly where a yield finds its way back to lua_resume:
\* no Kotlin code and no call of Kotlin is in between that could not go on.
YieldableIfUnwindable ==
    native # <<>> =>
      (lua_isyieldable(Running) <=>
         \E r \in DOMAIN native :
            /\ native[r].kind = "resume"
            /\ \A k \in r + 1 .. Len(native) :
                  native[k].kind = "pcall" \/ (native[k].kind = "callback" /\ k = Len(native)))

\* An error goes to the innermost pcall of the thread, whether its C activation is
\* there or a yield has unwound it; or to the Kotlin code that called, if that is
\* further in.
ErrorsGoInnermost ==
    [][\A th \in Threads : Raise(th) =>
         LET calls == {native[k].at : k \in {n \in Above(th) : native[n].kind = "call"}}
             pcalls == {i \in Handlers(th) : \A at \in calls : i > at}
         IN  IF pcalls # {} THEN ci'[th] = SubSeq(ci[th], 1, Highest(pcalls) - 1) /\ status'[th] = "OK"
             ELSE IF calls # {}
             THEN ci'[th] = SubSeq(ci[th], 1, Highest(calls)) /\ status'[th] = "OK"
             ELSE status'[th] = "ERRRUN" /\ Len(native') < Len(native)]_vars

\* lua_status tells: a thread that is not on the C stack is finished or has not begun,
\* is suspended with frames to go on from, or has failed.
StatusTells == \A co \in Co : Above(co) = {} =>
    \/ status[co] = "OK" /\ ci[co] = <<>>
    \/ status[co] = "YIELD" /\ ci[co] # <<>>
    \/ status[co] = "ERRRUN"

\* The Kotlin functions of th that execute or wait to be continued, by frame.
ActivationsOf(th) ==
    [i \in {j \in DOMAIN ci[th] : j \in Executing(th) \/ ci[th][j] = "yieldable"} |->
       IF i \in Executing(th) THEN "executing" ELSE "waiting"]

Acts == [th \in Threads |-> ActivationsOf(th)]

\* The threads that execute, by the C frame of their lua_resume.
Resumes == [k \in {0} \cup {j \in DOMAIN native : native[j].kind = "resume"} |->
              IF k = 0 THEN Main ELSE native[k].th]

Yielding == status[Running] = "YIELD"

AsActivations == INSTANCE Activations WITH
    First <- Main, Others <- Co, acts <- Acts, chain <- Resumes, leaving <- Yielding

\* Kotlin functions nest properly through calls, yields and errors: an executing one
\* is never given up, and one that yielded is continued once, when its thread was
\* resumed (module Activations).
ActivationsSpec == AsActivations!Spec
=============================================================================
