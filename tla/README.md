# A TLA+ model of NoveLua

NoveLua binds Kotlin to the Luau VM through JNI. Its own code is small: a Kotlin API
(`src/main/kotlin/io/github/novela/luau`), a JNI bridge (`src/main/cpp/novelua_jni.cpp`)
and a layer of barriers around the VM's C API (`src/main/cpp/luaujava.cpp`). What is
hard about it is not any function but how they nest: Kotlin calls Lua, which calls
Kotlin, which calls Lua again, on one value stack and one C stack, with errors that
`longjmp` and exceptions that must not be jumped over. This directory models that,
checks it with TLC on small instances, and proves part of it with TLAPS for all.

Paths below are relative to the repository; `luau/` is `src/main/cpp/luau`.

## 1. Inventory

| component | state | operations | what makes it correct |
|---|---|---|---|
| Call and callback boundary: `novelua_jni.cpp` (`nativeCall`, trampoline, stack natives), `luaujava.cpp` (barriers), `LuaState.kt` | the value stack and call infos of the `lua_State`, `global->errorjmp`, `nCcalls`, `luaW_lastStatus`, `g_pendingException` | `call`, checked operations, pushes, callbacks in and out, raises | every call unwinds to where it began; a raise lands in a live frame and never crosses Kotlin; Kotlin throws exactly when its request failed |
| Registry references: `LuaReference.kt`, `LuaState.popReference/pushReference/unref`, `lua_ref`/`lua_unref` | registry slots, `registryfree`, `isClosed` of each object | make, push, close, finalize | an open reference keeps its value; slots are not shared, lost, or used after close |
| `LuaEngine`: compile, execute, close | the owned `lua_State` | compile, execute, close (idempotent) | the bytecode is freed once; nothing uses a closed VM |
| Coroutines: `yield`, `resume`, the two trampolines, the VM's `lua_resume`/`lua_yield`/`pcall` | `L->status`, call infos, `nCcalls`, `baseCcalls` of each thread; the C stack | call, pcall, yield, resume, continue, raise, close | a yieldable callback continues once per resume; an executing one is never lost; errors reach the innermost handler; a yield is allowed exactly where it can unwind |
| Userdata, callbacks and global references, on the VM's collector: `nativeNewUserData`, `nativePushFunction`, `udata_dtor_*`, `lgc.cpp` | colours, gray lists, open upvalues, the sweep; a JNI global reference in each userdata | create, read, write, capture, resume; a step of the collector; full collection; close | nothing reachable is freed, nothing dangles, a global reference is deleted exactly once and some time |
| Thread handles: `newThread`, a callback's `LuaState`, `LuaThread` | `nativeHandle`, `isMainThread`, `isClosed`; the stack slot that anchors the thread | create, use, close | a handle in use is anchored; only the main thread's `close` frees |
| Value mapping: `push`, `toValue`, `LuaValue`, `LuaTable` | none beyond the stack and references | push, read, get, set, `callFunction` | values survive a round trip; the stack is balanced however it ends |
| Stack space | `L->top` against `ci->top` | every push | never beyond what the frame reserved |
| Error propagation and traceback: `error_handler`, `propagateExceptionInner` | the message on the stack | format, parse, throw | the message that is popped is the one reported |
| Tables of the VM: `ltable.cpp`, and what the collector does to them | array, nodes, `lastfree`/`aboundary` | get, set, rehash, length, `next`, clear, clone | a key has the value assigned last, wherever it is kept; `#` is a boundary; `next` visits every key once |
| Sandbox, GC control, enumerations | none | forwarding calls; `LUA_GCCOLLECT` | - |
| Luau VM, compiler, analysis (vendored), unused luau-java helpers, demo, build | - | - | only what the bridge drives is modelled |

The components interact by direct calls on one thread, with three exceptions: the VM
calls back into Kotlin (the trampoline), the JVM's finalizer thread calls
`LuaReference.finalize`, and the two thread-local cells carry a failure from the native
frame where it happened to the Kotlin code that reads it, with arbitrary code in between.
`PROJECT.json` lists the hazards of each at its line.

## 2. The modules

| module | role |
|---|---|
| `Boundary` | the boundary of one `lua_State` used by one thread |
| `KotlinStacks` | abstract: every Kotlin activation has a private stack, a request ends with its results or an exception |
| `BoundaryViews` | refinement mapping from `Boundary` to `KotlinStacks` |
| `MCBoundary` | instance of `Boundary` for TLC |
| `BoundaryLemmas`, `BoundaryProofs` | the inductive invariants of `Boundary` and the theorems about frames, answers and error handlers |
| `BoundaryRefinement` | the proof that `Boundary` implements `KotlinStacks` |
| `Registry` | references, the registry's free list, two threads, engine close |
| `MCRegistry` | instance of `Registry` for TLC |
| `RegistryProofs` | the inductive invariant of `Registry` and the theorems |
| `Collector` | the incremental garbage collector under a program that runs beside it |
| `Heap` | abstract: what the program can get at stays, what goes was out of its reach |
| `MCCollector` | instance of `Collector` for TLC |
| `CollectorProofs` | the inductive invariant of `Collector`, its safety theorems, the refinement of `Heap` |
| `Coroutines` | frames, C stack and C-call counts of a main thread and coroutines |
| `Activations` | abstract: Kotlin functions nest, wait and are continued once per resume |
| `MCCoroutines` | instance of `Coroutines` for TLC, with its symmetry |
| `CoroutineLemmas`, `CoroutineProofs` | the inductive invariant of `Coroutines` and the theorems, those about errors last |
| `Tables` | a table: array part, chained nodes, rehash, length, clearing |
| `Traversal` | `next` over a table that changes meanwhile |
| `MCTables` | instance of both for TLC, with hash functions |
| `TableProofs` | the inductive invariants of `Tables` and `Traversal` and the theorems |
| `StackUse` | slots that the bridge's helpers use and leave in their frame |

### Boundary

State. `stack` is the value stack up to `L->top`, bottom first; `ci` has the `func` slot of
every call info from `base_ci` to `L->ci`, so `Last(ci)` is where Kotlin's indices are
counted from (`L->base` is the slot above). `native` is the C stack as a sequence of
frames: a *call* (`nativeCall` with its `lua_pcall`), a *barrier* (a `luaW_` wrapper that
is running a metamethod) or a *callback* (the trampoline with the Kotlin code it runs). A
frame holds what the C code saved in locals: the call info and `nCcalls` to restore, the
previous jump buffer (`prev`), the function's slot, the handler's index relative to the
base (`errfunc`). `errorjmp` is `global->errorjmp` as an index into `native`, 0 for NULL.
`lastStatus` is `luaW_lastStatus`, `pending` says whether `g_pendingException` is set.
`outcome` records how the last request really ended and what Kotlin was told. `mode`
leaves `"run"` when the process leaves defined behaviour: `"jumped"` (a `longjmp` over a
Kotlin frame), `"undefined"` (the VM or the bridge uses a frame or slot that is not its
own), `"aborted"` (a raise with no jump buffer). These are terminal.

Actions. Kotlin code runs when the innermost native frame is a callback, or there is
none; otherwise the VM runs, in the phase its frame is in (`enter`: about to call;
`body`: Lua code runs; `direct`: a Kotlin callback was called directly by it; `done`).
- Stack operations without a barrier (`Push`, `SetTop`, `RemoveSlot` ...) are `Local`.
- `NativeCall` is `nativeCall` to the point where the VM enters the function, `CallReturns`
  the rest of it with `nativeGetStatus` and `LuaState.call`; between them anything may run.
- A checked operation is one step (`CheckedOp`) if no metamethod function runs; otherwise
  `OpCallsMetamethod` and `BarrierReturns` enclose whatever the metamethod does. Both end
  with `checkException` as part of the same step. `UncheckedPush` (which may run out of
  memory) and `SetMetaTable` go through a barrier whose status Kotlin does not read.
- `PrecallLua`, `PrecallKotlin`, `PrecallRaises` are `luau_precall` for the function of a
  call or metamethod; `LuaCallsKotlin`, `LuaReturns`, `LuaRaises` are what Lua code does at
  the boundary; `CallbackReturns`, `CallbackThrows` end a callback.
- `CallbackThrowsThrough` ends a callback that Lua code had called through a function of the
  VM: `pcall`, `xpcall`, a metamethod, `lua_call` in a library. The trampoline's -103 raises
  nothing, so `luaD_pcall` catches nothing; the function of the VM takes the call for one
  that returned, and Lua code goes on one frame too high with the exception pending.
  `LuaRunsOn` is what its `LOP_RETURN` does then.
- `Raise` is `luaD_throw` with what `luaD_pcall` (or a barrier) does where it lands,
  including the handler, which fails when one more C call overflows. `LuaRaises` raises
  `LUA_ERRRUN` or `LUA_ERRMEM`. `CStackOverflows` is the check of the C-call count: it fails
  at the limit and from an eighth above it on (`HardLimit`), and leaves what is between to
  error handlers.

`Faults` selects what may go wrong besides an ordinary error under a call: an exception
escaping from a callback (`escape`), also through a function of the VM (`through`), a
metamethod raising under a barrier (`metamethod`), an unread failure (`unchecked`), memory
running out under a barrier (`barmem`) or without one (`rawmem`). With `Faults = {}` functions and Lua code may still raise at any time,
calls may have nothing to call, checked operations may fail, and the C-call limit is hit.

Abstractions. A value is `Plain` (not callable), `Fn` (a function: which one is decided
when it is called), `Handler` or `Message`. Lua code is what it does at the boundary:
its registers, its calls of other Lua functions and the errors that it catches itself
(after which it goes on as if nothing had been) are left out, as are yields and
continuations, `load`, `__call` metamethods, and running out of memory in the handler. The message that `LuaException` carries is not kept,
only whether the slot that was popped was one.

### Registry

State. `slots` is the registry's array part; a slot holds a value, a link of the free
list, or nil while it is filled. `registryfree` is the head. `refs` are the
`LuaReference` objects with `nativeRef` and the state of `isClosed`; `reachable` those the
program can still reach. `op` is where each of the two threads (program, finalizer) is
inside `lua_ref` or `lua_unref`: since nothing locks the registry, every C statement that
touches it is a step. `engine` is `"corrupt"` once a freed VM has been written to.

The engine can be closed at any time the program is not inside the VM, as the code has no
check; `leftOpen` is not in the code and records the references that were open then.
`Faults` selects `overlap` (the finalizer may run while the program is inside the VM);
without it the threads alternate. The number a link is read from when the slot does not hold one is
arbitrary. Object names are reused after collection. The model assumes that the registry
has no other integer keys, so that `luaH_getn` is the number of slots. `pushReference` of a
closed reference and the public `LuaState.unref` are left out.

### Collector

State. `mark` is the colour of every object (`dead` is the other white, `free` a block that
is not allocated), `refs` what it refers to, as a set. A captured stack slot is kept in its
upvalue, whose `home` is the thread it is open on. `gray`, `grayagain` and `weak` are the
lists of these names, `unswept` the blocks the sweep has still to visit, `markedopen` the
bit of that name. `held` are the userdata whose global reference exists.

Actions. `Program` is everything Lua code and the bridge can do to the heap with what they
have in hand: push a value that one read finds, pop, store and erase table entries, set the
metatable of a userdata or a strong table, create tables, threads, userdata, closures and strings (an interned
string is found again, even a dead one), capture, assign and close upvalues (those of the running
thread, and those of a suspended one by `coroutine.close` or `lua_resetthread`), resume and
leave coroutines. Each contains the write barrier of the code. `GCStep` is one traversal
(`PropagateStep`), one stage of `atomic()`, or one swept block (`SweepStep`, with the
destructor); the program may act between any two, but not inside `atomic()` or
`luaC_fullgc`. `FullGC` and `FullCycle` are `luaC_fullgc`, which drops a cycle that is
marking. `Close` is `lua_close`.

Abstractions. Sets instead of slots, keys and array positions; prototypes, classes, buffers
and vectors are left out. A weak table (`WeakTables`) has the mode `kv` for all its life:
`lgc.cpp` reads the mode from the metatable at each traversal, so tables that are weak in
keys or values only (the other part is marked), a mode that changes, and the weak table's
reference to its metatable are left out. Only pages order the sweep; here the blocks come in any order. When a step runs
(the pacing, `GCSTOP`, `GCRESTART`) is left open. The roots are never values, a resumed
coroutine stays an argument on the stack of the one that resumed it.

### Coroutines

State. `ci` is the frames of each thread, by what they run: Lua code (`entry` ends
`luau_execute`, `lua` does not), a plain or yieldable Kotlin function, `pcall`,
`coroutine.resume`, `coroutine.yield`. `native` is the C stack: calls, pcalls and resumes,
each with what it saved to restore, and the Kotlin functions that execute. `status` with
`SCHEDULED_REENTRY`, `nCcalls` and `baseCcalls` are the VM's.

Actions. Kotlin code calls (`KotlinCalls`, which includes `nativeCall`), resumes
(`KotlinResumes`, with or without `from`; `KotlinResumesDead`), yields or ends. Lua code
calls, pcalls (`LuaPcalls`: in a yieldable context pcall gives its C activation up at once),
yields, resumes, closes a coroutine, returns or raises (`Raise`, to the innermost guard or,
after a yield, to the frame that `resume_findhandler` finds). `CallReturns`, `PcallReturns`,
`Continue`, `Reenter` and `ResumeReturns` are what the VM does then. `Faults` lets a
callback throw (`throws`, whose -103 the VM takes for a yield or, in a continuation, for a
number of results) or call a function that may yield from a yieldable callback (`nested`).
The count is checked as in `Boundary` (`CStackOverflows`): a call at the limit raises, while
a coroutine resumed at the limit starts above it. A `pcall` whose own call overflows catches
that error and returns false: the step changes nothing, so `LuaPcalls` leaves it out.

Abstractions. Arguments, results and stack slots are left out; so are `lua_break`, xpcall
handlers, `coroutine.wrap`'s rethrow, and yields out of metamethods and iterators. The main
thread is never resumed. Kotlin acts on a thread through the thread itself, not through a
handle of a suspended one.

### Tables and Traversal

State. `t` is a table: `array`, `node` (key, dead or not, value, `next` as the distance to
the next node of the chain), `lastfree`, whose field also holds the negative `aboundary`
hint, and whether a rehash ran inside a rehash. The dummy node is the empty sequence.
`hash` is chosen once from `Hashes`, and so is from `Rooms` the
number of array slots and nodes that `luaH_new` makes room for. `map` is not in the code: it records what was
assigned, and the properties compare the table with it. `walk` is a traversal, of which the
code has only the key; the keys seen are recorded for the property.

Actions. `Set` is an assignment by any of the `luaH_set` kin with all that it may cause:
taking the key's main position, Brent's move of a colliding node (`GiveWay`), the rehash
that counts the indices, chooses the sizes, moves the array's end past present keys
(`AdjustASize`) and reinserts every entry. `SetList` is a list constructor or `table.move`,
which resize the array and write into it. `Length` keeps the hint that `luaH_getn` finds;
`Clear` and `Clone` are the library's. `Traverse`, `ClearWeak`, `ShrinkWeak` are what the
collector does to a table: keys without a value die, weak entries go, a sparse hash part is
rebuilt. `WalkStep` is `next`, between any other steps that leave the traversal alive.

Abstractions. Keys are positive integers and objects; other numbers and strings behave like
objects that are not collectable. Values are one or none; metatables and barriers are the
business of `Collector`. `pairs` walks by position, without `findindex`, and is not
modelled apart. A resize that runs out of memory half way is left out, and so is a table
overflow: `MaxSize` is the code's `MAXSIZE` (2^26), and all keys together fit into a hash
part of that size. The binary search of `luaH_getn` is rounds of halving (`Halved`), as many
as the array has slots: once one position is left a round changes nothing. An insertion, a
clear and a shrink end a traversal: the code promises nothing then.

### StackUse

`frames` has, for each Kotlin activation, the slots it uses above its base and those it may
use (`ci->top`); `peak` is how far the helper that ran last has pushed. Each helper is one
action with its normal end and every place where it can throw. The program pushes nothing of
its own. `lua_pcall`'s extension of the frame for the results of `LUA_MULTRET` is there: it
makes room for any number of results, and for the copy that `toValue` makes of one.

## 3. What the runs show

| run | bounds | result |
|---|---|---|
| `Boundary_contract` | no faults; 7 slots, 5 native frames, 7 call infos, C-call limit 3, lists of up to 1 value, 1 library slot | 285,000 states, passes |
| `Boundary_faults` | all faults; 5 slots, 4 native frames, 6 call infos | 1,260,000 states, passes |
| `Registry_contract` | 3 references, 2 values, 4 slots | 612,000 states, passes |
| `Collector_threads` | one coroutine, closure, upvalue | 1,550,000 states, passes |
| `Collector_weak` | one weak table, string, userdata | 387,000 states, passes |
| `Collector_release` | one weak table, userdata; fairness | 19,900 states, passes |
| `Coroutines_contract` | no faults; two coroutines, 7 frames, 7 native frames, C-call limit 3, hard limit 5 | 261,000 states, passes |
| `Tables_map` | indices 1 to 5, one object, three hash functions, three ways to be made | 385,000 states, passes |
| `Boundary_escape` | one fault; 6 slots, 4 native frames | a counterexample |
| `Coroutines_nested` | one fault; one coroutine | a counterexample |
| `Registry_overlap` | one fault | a counterexample |
| `StackUse_retry` | `LUA_MINSTACK` 20 and 7 libraries as in the code; 2 arguments, 20 results, 2 activations | a counterexample |

`Boundary_contract` checks, over every interleaving of calls, callbacks and metamethods:
`FrameDiscipline` (Kotlin code runs in its own VM frame, `nCcalls` is exact), `JumpTarget`
(`errorjmp` is the innermost open guard), `NoJumpOverKotlin`, `OwnFramesOnly`,
`HandlersInPlace` (the handlers on the stack are exactly those of the open calls, where
`nativeCall` will remove them), `OutcomeFaithful` (Kotlin throws exactly when its request
failed, and pops a message), and that `Boundary` implements
`KotlinStacks` (`ViewsSpec`): no activation's stack is changed by anything that runs while
it waits, except for the operands and results of its own request.

`Boundary_faults` checks what survives all faults together: `JumpTarget`, and
`NonePendingAtReturn` (an exception is thrown by the time the outermost request returns, so
that the next request does not throw one that is not its own). The terminal modes are
deadlocks, hence `CHECK_DEADLOCK FALSE`. The stronger `PendingDelivered` (no Kotlin code at
all runs between the escape of an exception and its rethrow) is no property of the code: with
`Faults = {"escape", "through"}` and seven slots TLC finds a checked operation whose metamethod
is Lua code that calls a throwing Kotlin function through `pcall`, goes on, and calls another
Kotlin function, which runs while the first exception is pending. It holds, and is proved
(`EscapesDelivered`), where Lua code calls throwing functions only directly. What remains
true in every case is `NonePendingAtReturn`.

`Registry_contract` checks `RefsHoldTheirValue`, `NoAliasing`, `LinksSound` (the free list
is one chain through exactly the right slots), the action property `NoSlotWasted` (the
registry grows only when no slot is free), and `NoUseAfterClose`: if the freed VM is
touched, some reference was open when the engine was closed. A program that has closed its
engine may stop (`CHECK_DEADLOCK FALSE`).

`Collector_threads`, and in part `_weak`: `NoDangling` (no object that the sweep will spare refers to
one that is freed or dead), `BlackToWhite` and `GrayLists` (the marking invariant and the
lists chained through one field, as `lgcdebug.cpp` validates them), `OnlyGarbageFreed` (at
the moment a block is freed no path from the roots leads to it), `OnlyGarbageForgotten`
(the collector changes nothing that is reachable but for entries of weak tables). They take
different objects since all together are too many states; each is the smallest set with the
hazard: a closure that outlives the thread of its upvalue, a dead string that is found
again, an entry read back from a weak table. `Collector_release`: `HeldWithUdata`,
`GlobalRefsReleased` (liveness) and the refinement of `Heap`. The system stops after
`Close`, hence `CHECK_DEADLOCK FALSE`.

`Coroutines_contract`: `KotlinOwnsFrame` (while Kotlin code runs the last frame is its
own), `ContinuationThere` (the assertion of `resume_continue`), `CallsCounted` and
`YieldableIfUnwindable` (`nCcalls` and `baseCcalls` say what the C stack says),
`StatusTells`, `ErrorsGoInnermost`, and the refinement of `Activations`. A program may have
used up its bounds and stop (`CHECK_DEADLOCK FALSE`).

`Tables_map`: `MapKept` (every key has the value assigned last, or none),
`NoRehashInRehash` (the assertion at the end of `resize`), `BoundaryRight` (`#` returns an
index that is there while the next is not, in the array or in the nodes),
`TraversalExact` (what is ahead of a traversal is exactly the keys it has not seen) and
`TypeOK`, in which `lastfree` never leaves the nodes. Five indices and an object fill four
nodes and an array of four, and let the array grow past keys it takes over from the nodes
(the `aextra` branch of `rehash`), which needs the fifth. The hash functions put all keys
into one chain, into pairs, and nearly apart. `MaxSize` is 64 in the run.

The violation runs each show one disagreement between the code and what the repository
says of it; `PROJECT.json` quotes the lines under `findings`:
- `escape`: a checked operation runs a metamethod that is a Kotlin function, which throws.
  When the operation has rethrown the exception, `L->ci` is still the callback's frame. The
  documentation has Luau's stack cleaned up first.
- `nested`: a yieldable callback in a coroutine calls a Lua function that uses `pcall`;
  `nativeCall` returns 0 although the callee has not finished, and its frames are on top.
- `overlap`: the finalizer thread's `lua_unref` interleaves with the program's `lua_ref`.
- `retry`: a program that only calls `LuaTable.get`, `set`, `LuaValue.Function.call` and
  `LuaEngine.execute`, and catches what they throw, runs out of its frame's slots.

Why the bounds are enough. Five native frames admit call - callback - call (or barrier) -
callback - call: two complete levels of re-entry, with a barrier within a call and a call
within a barrier, which is what an index or a saved field that belongs to the wrong level
needs to show. The C-call limit of 3 is below what five frames can open, so the limit and
the failing handler are reached. Seven slots hold the library slot, two handlers, two
functions and operands. In `Registry` three references and four slots give a free list of
three slots while another reference is made, and every order of freeing them.
`MaxStack`, `MaxNative`, `MaxCI`, `MaxSlots` and `MaxList` are bounds of the model and
appear in guards; `LibSlots` (7 in the code) and `MaxCCalls` (200) are smaller in the runs
than in the code, and arbitrary in the proofs. `OpCallsMetamethod` is bounded so that the
metamethod itself does not exceed the C-call limit: that raise under a barrier belongs to
the `metamethod` fault, and a called function still meets the limit.

The fault `metamethod` given alone breaks `OwnFramesOnly`: `luaW_exit` restores only the
jump buffer, so a raise under a metamethod leaves `L->ci` and `nCcalls` as they were, and
the next callback to return pops a frame that is not its own, against the comment of
`luau_precall` ("ci is our callinfo, cip is our parent").

The faults `unchecked` (a failure of `setMetaTable` surfaces in a later call that
succeeded), `barmem` (under a barrier LUA_ERRMEM pushes no message, so a value is popped
instead) and `rawmem` (`nativePushFunction` and `nativeCall` allocate without a barrier)
break `OutcomeFaithful` and `NoJumpOverKotlin` in the same way when they are given to
`Faults` alone; `Boundary_faults` explores them. In `Coroutines`, `Faults = {"throws"}`
breaks `ContinuationThere`: a plain callback that throws inside a coroutine leaves a frame
without continuation, and the next `resume` calls a null pointer.

In `Registry`, a reference that is open when `LuaEngine.close` comes is finalized later, and
that writes to the freed VM: the run reaches it (`engine = "corrupt"`), and `NoUseAfterClose`
says that nothing else does.

Two coroutines and seven frames admit a coroutine that resumes the other from within a pcall
or a callback; with a C-call limit of 3 and a hard limit of 5 both are reached, through
resumes too. `Rooms` gives a table that begins empty, one with three array slots, and one
with two array slots and eight nodes, more than its keys need.

Fairness. Only `Collector_release` assumes any: weak fairness of `GCStep`. In the code
`luaC_checkGC` runs a step whenever enough was allocated and every step does a bounded
amount of work, so a program that goes on allocating makes the collector go on; one that
stops allocating keeps its garbage, which the property excludes by the fairness. Nothing
else is fair: the JVM does not promise that a finalizer runs, nothing obliges Lua code to
return, and full collections are not relied on.

Every property of a passing run is also checked against a mutant: a plausible bug in a
mapped definition (defined beside it and marked as one, such as `BelowAndOneMore`, with
which a failed call cuts one slot too many) that the property must detect.

## 4. What is proved

`BoundaryProofs` and `BoundaryRefinement` prove for all constants that
satisfy `ConstantsAssumption` (any sizes, any bounds, any set of lists):

| theorem | states | for |
|---|---|---|
| `TypesKept` | `Spec => []TypeOK` | all `Faults` |
| `RaisesLand` | `Spec => []JumpTarget` | all `Faults` |
| `NoneLeftBehind` | `Spec => []NonePendingAtReturn` | all `Faults` |
| `EscapesDelivered` | `Spec => []PendingDelivered` | `"through"` not in `Faults` |
| `BarriersSuffice` | `Spec => []NoJumpOverKotlin` | `"rawmem"` not in `Faults` |
| `FramesInOrder` | `Spec => []FrameDiscipline` | neither `"escape"` nor `"metamethod"` in `Faults` |
| `HandlersKept` | `Spec => []HandlersInPlace` | `"escape"` not in `Faults` |
| `FailuresReported` | `Spec => []OutcomeFaithful` | no fault but `"rawmem"` |
| `NothingForeign` | `Spec => []OwnFramesOnly` | no fault but `"rawmem"` |
| `ImplementsViews` | `Spec => ViewsSpec`, the refinement | no fault but `"rawmem"` |
| `Invariant` | `Spec => []IInv` | all `Faults` |

None of the properties is inductive. `IInv` (in `BoundaryLemmas`) adds what makes them so:
- `Linked`: the C stack alternates guards (calls and barriers) and callbacks, beginning
  with a guard; each guard's `prev` is the guard before the callback below it, and
  `errorjmp` is the last guard. This alone gives `JumpTarget`, and with the alternation
  that a raise by the VM never has a callback above its target.
- `Ordered`, while the process is in defined behaviour: the call infos' functions rise on
  the stack; each guard began in the call info of its callback; its function lies above
  what it has to keep; and the number of call infos and of C calls is *at least* what the
  open frames account for. Under `Tight` (neither `escape` nor `metamethod`) it is
  *exactly* that, which is `FrameDiscipline`. The inequality is what stays true when the
  VM leaves frames behind, and it is needed for type correctness (`nCcalls` never goes
  below zero, `ci` is never emptied).

`BoundaryLemmas` has lemmas about sequences, the stack and the frames; `BoundaryProofs`
has one lemma per action (`IInv` is preserved), and the theorems. `IInv` was checked by
TLC on both passing instances before it was proved.

Two more invariants stand on `IInv`, each checked by TLC first:
- `Told` (in `BoundaryProofs`): whenever Kotlin code can read the status cells they are
  clear, and a guard whose call failed is a call with its message on top of the stack, in
  its function's place. So what Kotlin reads is the answer to what it asked last, and what
  it pops is the message. The assumption `Reported` excludes the four faults of which each
  breaks it.
- `Placed` (in `BoundaryProofs`): the slots that hold a handler are those right below the
  functions of the open calls, and a call that is done has given back every call info above
  its own, so that `L->base` is again what it was when `nativeCall` computed the index. The
  steps are argued with `Keeps(s, t, b)`: `t` is `s` up to slot `b` and has no handler
  above; every step that does not open or close a call keeps the stack up to a slot above
  all handlers, since functions of guards rise with the frames (`FuncsRise`).

The refinement (`ImplementsViews`) needs both and one invariant more, `Tidy`, checked by TLC
like the others: a message lies on the stack only on top of a call that failed, a call or
operation that is done has left as many results as it was asked for, and only guarded
operations keep their operands until they succeed. `Views` numbers the activations by
counting the callbacks on the C stack, so the proof begins with the alternation of guards and
callbacks (`TakeTurns`, `Halves`), from which the views are functions of the C stack, the
call infos and the value stack (`Seen`, `Awaited`, lemma `Shape`). Then there is for each
action the step of `KotlinStacks` that it is (`CleanSeen`, `CallSeen`, `MetamethodSeen`,
`PrecallKotlinSeen`, `CallbackReturnsSeen`, ...) and that it keeps `Tidy`. The heart is the
return of a request: what the activation saw before is untouched below its operands, and what
lies above is its results and nothing else, since the handler is removed from the slot that
`Placed` knows and the message popped is the one that `Tidy` knows. The assumption is the one
of `Told`: any of the other four faults gives an activation a result or a message that it did
not ask for.

`RegistryProofs` proves, for any number of objects, values and slots:

| theorem | states | for |
|---|---|---|
| `RegistryTypes` | `Spec => []TypeOK` | all `Faults` |
| `ReferencesKept` | `Spec => []RefsHoldTheirValue` | `"overlap"` not in `Faults` |
| `SlotsDistinct` | `Spec => []NoAliasing` | `"overlap"` not in `Faults` |
| `SlotsReused` | `Spec => NoSlotWasted` | `"overlap"` not in `Faults` |
| `FreeListSound` | `Spec => []LinksSound` | `"overlap"` not in `Faults` |
| `ClosedLast` | `Spec => []NoUseAfterClose` | `"overlap"` not in `Faults` |

The invariant `Calm` (theorem `CalmKept`) has the free list as a chain (`Chained`: some
sequence of all the free slots that no thread has in hand, each once, from the head along
the links), since no local statement about links excludes a cycle of free slots that the head
does not reach, and lua_ref would lose such slots. It has what each thread knows in the middle
of `lua_ref` and `lua_unref`, and that references that are open or being closed have slots of
their own. One lemma per action says that the chain is kept, loses its head (`ChainTail`) or
gets a new one (`ChainCons`).

`CoroutineProofs` proves, for any set of coroutines, any limits of C calls, and frames and
C stacks of any length, with `Faults = {}` (no exception leaves a callback, and a yieldable
callback does not call where a yield may happen):

| theorem | states |
|---|---|
| `TypesKept` | `Spec => []TypeOK` |
| `FrameKept` | `Spec => []KotlinOwnsFrame` |
| `ContinuationKept` | `Spec => []ContinuationThere` |
| `CountsKept` | `Spec => []CallsCounted` |
| `YieldableKept` | `Spec => []YieldableIfUnwindable` |
| `StatusKept` | `Spec => []StatusTells` |
| `ErrorsKept` | `Spec => ErrorsGoInnermost` |
| `ImplementsActivations` | `Spec => ActivationsSpec`, the refinement |

The invariant `IInv` (in `CoroutineLemmas`) describes the C stack and the frames at once:
- `Stacked`: how each activation stands on the one below it (`Linked`: a resume enters a
  thread that is not below, all others belong to the thread below; what each one's frame
  is), that what it saved are the counts below it and that the counts above it are exact
  and say whether a yield can unwind (`Levelled`); and that the activations of one thread
  lie together in the order of its frames (`Together`). `Levelled` holds at every height,
  not only at the top, since every return and every error goes back to a lower one.
- `Inside`, `Exact`, `Runs`, `Waits`: every activation has its frame; the counts of the
  running thread are those of the top of the C stack; what a thread that yielded or is to be
  re-entered looks like; and that whoever resumed still has the counts and the frame with
  which the resume will leave it.
- `Held`: below its last frame a thread has only frames that can go on without their C
  activation, and plain Kotlin functions that are calling at that moment. With `Landed`
  this is what `resume_continue` asserts.
- `Busy`, `Idles`: a thread on the C stack cannot be mistaken for one to resume or close.

One lemma per action says that it keeps `IInv`. They rest on a few lemmas about what
actions do to the C stack: stay (`SoundStay`), push (`SoundPush`), pop (`Pops`), resume
(`SoundResume`), return from a resume (`SoundReturn`), change a thread that is not there
(`SoundIdle`). TLC checked `IInv` on the instance of `Coroutines_contract` first.

`ErrorsKept` needs `Caught` besides, also checked with TLC first. The code sends an error to
the innermost jump buffer, or, when that is the one of `lua_resume`, to the last frame with a
handler; the property speaks of the innermost `pcall` frame. They agree because above Kotlin
code that calls, each `pcall` frame has its C activation (`Bared`), and because a `pcall`
that a yield could unwind keeps its C activation only while the C function runs that it
called, so that no Lua code can fail above it and above frames of `pcall`s that have given
theirs up (`Short`, `Done`). The rest is order: the activations of a thread lie in the order
of its frames (`Together`), and below a `pcall` that no yield can unwind there is the call of
Kotlin code from which `Bared` counts (`Caller`).

The mapping of `ImplementsActivations` reads the Kotlin functions of a thread off the frames
and the C stack: one executes while a callback of its frame is on the C stack, and waits
while only its frame is there (`ActivationsOf`); the chain of threads are the `lua_resume`s.
The stacks of `Activations` are functions on the heights in use, and a height is the index
of a frame, or of a C frame: nothing has to be counted or renumbered when what is in between
changes, so that what a step does to the abstract stack is one lemma each (`ShownPush`,
`ShownPop`, `ShownYield`, `ShownDrop`; `ChainPush`, `ChainPop`). `IInv` gives the rest. An
error or `coroutine.close` gives up only functions that wait, since every one that executes
has its frame at or below what the innermost call keeps (`Inside`); a thread that leaves the
chain has none that executes, since nothing of it is below its `lua_resume`
(`FreshResume`, from `Linked`); and where a yield can unwind, the C stack above the
`lua_resume` holds no callback but the one on top (`Alone`, from `Levelled`), so that a
function is continued or given up but never lost.

`CollectorProofs` proves, for any number of objects of each kind, with no other assumption
than that the kinds are disjoint (`KindsAssumption`):

| theorem | states |
|---|---|
| `TypeCorrect` | `Spec => []TypeOK` |
| `Memory` | `Spec => []NoDangling` |
| `Invariant` | `Spec => []BlackToWhite` |
| `Lists` | `Spec => []GrayLists` |
| `References` | `Spec => []HeldWithUdata` |
| `FreesOnlyGarbage` | `Spec => OnlyGarbageFreed` |
| `ForgetsOnlyGarbage` | `Spec => OnlyGarbageForgotten` |
| `ImplementsHeap` | `Spec => HeapSpec`, the refinement |

TLC found no object that the collector freed too early on instances of seven or eight
objects; these theorems say that no number of them helps. The invariant `IInv` has, besides
the types:
- `Kinds`: what refers to what. `reallymarkobject` descends through upvalues and userdata
  without a list, which is right only because neither can be nested in its own kind.
- `Chain`: the active threads lead from the running one back to the main thread, each on
  the stack of its resumer. Without it a resumed coroutine could be garbage, and closing the
  VM or suspending could lose a thread that the barriers take for active. That the chain has
  no cycle is said with sets (every set of active coroutines has one whose resumer is not in
  it), since induction is out of reach.
- `Sound`: `NoDangling`, object by object. `Freed`: free blocks refer to nothing, and no
  upvalue that is dead or free is open.
- `Swept`: between two cycles everything is white; while the sweep runs, other colours are
  only left in what it has not visited, and no `markedopen` bit of a dropped cycle survives
  to the next.
- `BlackDone`, `OpenDone`, `GrayIn` while marking: the tri-colour invariant with the two
  exceptions of the code. A suspended thread is black although its captured slots may be
  written without a barrier, and then its open upvalues are gray and have the bit; an open
  upvalue that is gray belongs to a thread that is marked. `UpvalColours`: an upvalue is
  gray exactly while it is marked and open.
- `UpvalsDone` and `AgainDone` in the atomic step: the values of gray upvalues are marked
  from `remarkupvals` on, and what is traversed last can mark nothing new. So when the last
  list is empty, what is not white is closed under references (`MarkedIsClosed`), and
  everything the flip makes dead is out of reach (`WhiteIsGarbage`). What is dead stays
  unreachable until the sweep gets there, because the program finds dead objects in one
  place only, the string table, and revives them there (`DeadIsGarbage`).

There is one lemma per action. They rest on what marking a set does (`MarkOfFacts`,
`MarkingKeeps`), what a traversal does (`PropagatedKeeps`) and what the program has in hand
(`HandFacts`).

The refinement was false at first, which no run had shown: the proof of the step lemmas
failed, and a larger instance confirmed it. The abstract heap let the program change
only what it reaches by strong references. But it can read a value out of a weak table and
go on from there, and it can assign to an upvalue of a thread that is otherwise out of
reach. `Heap` now has two notions: `Reachable` (what survives whatever the weak tables lose)
and `Obtainable` (what the program can read its way to, weak entries included), and the
mapping gives a thread its open upvalues, and their values through them. What the collector
promises has become stronger with it: a freed object was not even obtainable.

`TableProofs` proves, for any set of indices and objects, any values, any set of hash
functions, and arrays and chains of any length, with no other assumption than
`TablesAssumption` (`Nil` is neither key nor value, objects are no numbers, there are
finitely many, all keys fit into a hash part of at most `MaxSize` nodes, and so do the rooms
that `luaH_new` is asked for):

| theorem | states |
|---|---|
| `TablesTyped` | `Spec => []TypeOK` |
| `RehashesOnce` | `Spec => []NoRehashInRehash` |
| `LengthIsBoundary` | `Spec => []BoundaryRight` |
| `TablesKeepMap` | `Spec => []MapKept` |
| `TraversalsExact` | `WalkSpec => []TraversalExact` |
| `TraversalReads` | `WalkSpec => Spec`: what is proved of `Spec` holds in the run too |
| `TablesInvariant` | `Spec => []TableInv` |

`TableInv` says of the table, besides that no rehash has met another and that it agrees with
`map`:
- `Framed`: every node above `lastfree` has a key, so that `getfreepos` overlooks none, and
  `lastfree` as a hint does not leave the array; no index that is a key of a node, dead or
  not, is in the array or next to its end. So a key cannot be in both parts, and `#` may
  end with the array.
- `Linked`: every link leads to a node, no two to the same one, and along links some rank
  falls. The last excludes circles, in which a lookup would never end.
- `Keyed`: what is linked to has a key, a node without a key is as new, the dead have no
  value, and a key has one node that is not dead, ahead of its dead ones. (An object that was
  collected may come back at the same address: the model lets a dead key be set again, and
  `findindex` accepts either.)
- `Homed`: the main position of a key in a node is held by a key that is at home there and
  leads to it. This is what Brent's variation is for, and what makes a lookup find its key.

No induction over chains is needed: that links lead from one node to another is said with
sets (`Leads`: every set of nodes that holds the one and is closed under links holds the
other), the search along a chain (`Chase`) finds the node that leads to all others that are
sought (`First`, lemma `ChaseFirst`, by a least rank), and what a node that gives way or is
added does to `Leads` is one lemma each (`GivenWayLeads`, `ChainedLeads`). Repetitions
(`Inserting`, `Halving`) are functions on `0 .. n`; what holds of them is shown by the least
n at which it would fail. Then there is a lemma for each operator, up to `Assign`, `Resize`
and `GetN`, and for each action. That a migration never lacks a node is a count
(`NoRehashInRehash`): the nodes that are taken are at most the keys that were moved, which
are at most the nodes there are (`Roomy`), however the array's end was shifted (`Counting`,
`RehashOk`).

A traversal needs one thing more (`WalkInv`): the key that it holds is found, dead or not, and
the keys it has seen are those that hold a value up to there. The steps it lives through
leave every key where it is found (`GentlyFinds`). TLC checked both invariants on the instance
of `Tables_map` before they were proved.

So every safety invariant that a run checks is proved as well. Only model-checked: liveness
under fairness (`GlobalRefsReleased`), which is out of the prover's reach, as is `ENABLED`.
What a recursive definition computes is proved here only where the least counterexample can
be excluded as above. The four violation runs are counterexamples and have no theorem.

## 5. Plan

1. *(done)* `Boundary` with `KotlinStacks`, all its safety properties and the refinement proved.
2. *(done)* `Registry`, its invariant proved.
3. *(done)* `Collector` with `Heap`: userdata, global references, liveness.
4. *(done)* `Coroutines` with `Activations`.
5. *(done)* `Tables` with `Traversal`.
6. *(done)* `StackUse`: the balance of the helpers, the slots of a frame.
7. *(done)* The safety properties of `Coroutines` proved for any number of coroutines, and
   that it implements `Activations`.
8. *(done)* The safety properties of `Collector` proved for any number of objects, and that it
   implements `Heap`.
9. *(done)* The safety properties of `Tables` and `Traversal` proved for any keys, values and
   hash functions.
10. Left: the status cell composed with `Coroutines` (what `LuaState.resume` throws), and
    tables that are weak in keys or values only, or change their mode.

### Not modelled, and why

- The compiler, the parser, the type checker and analysis, the bytecode and native code
  generators: vendored, and by far most of the repository's C++ (some 200,000 of its
  224,000 lines). The bridge calls `luau_compile` once and uses the bytes; nothing of what
  makes the bridge correct depends on how they are made. The map therefore covers a small
  share of all lines, and most of the bridge's own.
- The interpreter's instructions other than calls, returns, upvalues and list
  construction, and the standard libraries other than `pcall`, `coroutine` and what tables
  need: sequential computations on values.
- The text of tracebacks and its parser (a regular expression over messages), and the
  enumerations: wording and constants.
- The sandbox calls and the collector's pacing: forwarding calls and single assignments.
- Misuse the API does not check and a correct program avoids: the public `unref`,
  `pushReference` of a closed reference, a `LuaState` kept beyond its thread or engine.
- What one native call does with memory of its own (the debug name, the result of a failed
  allocation, a jobject read from a foreign userdata): no state outlives the call that a
  model could follow. `PROJECT.json` lists them as hazards.
- The demo application and the build.
