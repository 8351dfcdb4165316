----------------------------- MODULE Collector -----------------------------
(***************************************************************************)
(* The incremental collector of the VM (lgc.cpp, lfunc.cpp, lstring.cpp,   *)
(* ludata.cpp) under the program that runs beside it: Lua code and the     *)
(* Kotlin side change the heap between any two steps of a collection, and  *)
(* the collector must neither free what they can still reach nor keep a    *)
(* JNI global reference whose userdata nobody can reach.                   *)
(*                                                                         *)
(* What an object refers to is a set (slots, keys and array positions are  *)
(* left out): the stack of a thread, the entries of a table, the upvalues  *)
(* of a closure, the metatable of a userdata, the value of an upvalue.  A  *)
(* stack slot that an upvalue has captured is kept in the upvalue, and     *)
(* home says whose stack it is in while the upvalue is open.               *)
(*                                                                         *)
(* A table is weak in both its keys and its values, or in neither, for as  *)
(* long as it lives: the code reads the mode from the metatable at every   *)
(* traversal, and knows tables that are weak in one of the two only.  The  *)
(* metatable of a weak table is left out with its strong part.             *)
(***************************************************************************)
EXTENDS Naturals, FiniteSets

CONSTANTS
    Main,          \* the main thread, the only object that is always there
    Registry,      \* the registry (and the globals): the other root
    Coroutines,    \* the other threads
    Tables,        \* tables other than Registry whose entries are strong
    WeakTables,    \* tables with mode "kv": their entries do not hold
    Closures, UpVals, Strings, Udata,
    Nil            \* no thread, no upvalue

Threads  == {Main} \cup Coroutines
AllTables == {Registry} \cup Tables \cup WeakTables
Obj      == Threads \cup AllTables \cup Closures \cup UpVals \cup Strings \cup Udata

\* The kinds reallymarkobject puts in a list; the others have no list link.
Listed == Threads \cup AllTables \cup Closures

ASSUME KindsAssumption ==
    /\ Main \notin Coroutines /\ Registry \notin Tables \cup WeakTables
    /\ Tables \cap WeakTables = {}
    /\ Threads \cap (AllTables \cup Closures \cup UpVals \cup Strings \cup Udata) = {}
    /\ AllTables \cap (Closures \cup UpVals \cup Strings \cup Udata) = {}
    /\ Closures \cap (UpVals \cup Strings \cup Udata) = {}
    /\ UpVals \cap (Strings \cup Udata) = {}
    /\ Strings \cap Udata = {}
    /\ Nil \notin Obj

VARIABLES
    mark,          \* gch.marked of every object: "white" is g->currentwhite, "dead"
                   \* is the other white, and "free" stands for a freed block
    refs,          \* what every object refers to
    home,          \* the thread whose stack an open upvalue points into
    markedopen,    \* the upvalues whose thread was traversed in this cycle
    held,          \* the userdata whose JNI global reference exists
    isactive,      \* the threads that are executing or resumed another one
    running,       \* the thread that executes
    resumer,       \* who resumed an active coroutine
    gcstate,       \* g->gcstate; "closed" after lua_close
    phase,         \* how far atomic() has come; "idle" outside of it
    full,          \* how far luaC_fullgc has come; "no" outside of it
    gray, grayagain, weak,   \* the lists of the same names
    unswept        \* the objects in pages the sweep has still to visit

heap    == <<refs, home, held>>
threads == <<isactive, running, resumer>>
cycle   == <<gcstate, phase, full, unswept>>
lists   == <<gray, grayagain, weak>>
vars    == <<mark, heap, markedopen, threads, cycle, lists>>

----------------------------------------------------------------------------
(* Colours.                                                                *)

White     == {o \in Obj : mark[o] \in {"white", "dead"}}
Allocated == {o \in Obj : mark[o] # "free"}
Live      == {o \in Allocated : mark[o] # "dead"}

keepinvariant == gcstate \in {"propagate", "propagateagain", "atomic"}

IsOpen(u) == home[u] # Nil
Open(th)  == {u \in UpVals : home[u] = th}
ValuesOf(us) == UNION {refs[u] : u \in us}

----------------------------------------------------------------------------
(* Marking.  reallymarkobject descends at once through an upvalue to its   *)
(* value and through a userdata to its metatable, which is as far as it    *)
(* goes: no upvalue holds an upvalue, no metatable is a userdata.          *)

Marked(S) ==
    LET objs  == S \cap White
        vals  == objs \cup (ValuesOf(objs \cap UpVals) \cap White)
    IN  vals \cup (ValuesOf(vals \cap Udata) \cap White)

BlackAtOnce(o) == \/ o \in Strings \cup Udata
                  \/ o \in UpVals /\ ~IsOpen(o)

\* mark after markobject on every member of S
MarkOf(S) ==
    LET marked == Marked(S)
    IN  [o \in Obj |-> IF o \notin marked THEN mark[o]
                       ELSE IF BlackAtOnce(o) THEN "black" ELSE "gray"]

MarkObjects(S) == /\ mark' = MarkOf(S)
                  /\ gray' = gray \cup (Marked(S) \cap Listed)

\* What propagatemark visits in o.  The stack of a thread has the captured
\* slots in it too.  A weak table is put aside without a look at its entries.
Children(o) ==
    IF o \in WeakTables THEN {}
    ELSE IF o \in Threads THEN refs[o] \cup Open(o) \cup ValuesOf(Open(o))
    ELSE refs[o]

\* The threads propagatemark leaves gray, for the stack writes to come.
StaysActive(th) == th \in isactive \cup {Main}

\* propagatemark(g) on the member o of the gray list: mark' of all objects, and
\* what the three lists and markedopen get
Propagated(o) ==
    LET marked == MarkOf(Children(o))
    IN  [mark      |-> [marked EXCEPT ![o] = IF o \in WeakTables \cup {th \in Threads : StaysActive(th)}
                                             THEN "gray" ELSE "black"],
         gray      |-> (gray \ {o}) \cup (Marked(Children(o)) \cap Listed),
         grayagain |-> grayagain \cup (IF o \in Threads /\ StaysActive(o) THEN {o} ELSE {}),
         weak      |-> weak \cup (IF o \in WeakTables THEN {o} ELSE {}),
         open      |-> markedopen \cup (IF o \in Threads THEN Open(o) ELSE {})]

----------------------------------------------------------------------------
(* The write barriers.                                                     *)

\* luaC_barrier and luaC_objbarrier: o now refers to v
ForwardBarrier(o, v) ==
    IF mark[o] = "black" /\ v \in White
    THEN IF keepinvariant
         THEN MarkObjects({v})
         ELSE /\ mark' = [mark EXCEPT ![o] = "white"]
              /\ gray' = gray
    ELSE UNCHANGED <<mark, gray>>

\* luaC_barrierback: o will be traversed again in the atomic step
BackBarrier(o) ==
    /\ mark' = [mark EXCEPT ![o] = "gray"]
    /\ grayagain' = grayagain \cup {o}

\* A slip for the mutation tests: the back barrier of the first pass also in the
\* second, but with the table left black.
TableBarrierListsOnly(t, v) ==
    IF mark[t] = "black" /\ v \in White
    THEN grayagain' = grayagain \cup {t} /\ UNCHANGED <<mark, gray>>
    ELSE UNCHANGED <<mark, gray, grayagain>>

\* luaC_barriert: the table t now refers to v
TableBarrier(t, v) ==
    IF mark[t] = "black" /\ v \in White
    THEN IF gcstate = "propagateagain"
         THEN MarkObjects({v}) /\ UNCHANGED grayagain
         ELSE BackBarrier(t) /\ UNCHANGED gray
    ELSE UNCHANGED <<mark, gray, grayagain>>

\* A slip for the mutation tests: a push without luaC_threadbarrier.
NoThreadBarrier(th) == UNCHANGED <<mark, grayagain>>

\* luaC_threadbarrier
ThreadBarrier(th) ==
    IF mark[th] = "black" THEN BackBarrier(th) ELSE UNCHANGED <<mark, grayagain>>

----------------------------------------------------------------------------
(* The program.  It acts between two steps of the collector only.          *)

Mutator == /\ gcstate # "closed" /\ phase = "idle" /\ full = "no"
           /\ UNCHANGED <<cycle, weak>>

\* The threads whose stacks the program can change: the one that runs, and by
\* the API the suspended ones that it has in hand.
Handles == {running} \cup ((refs[running] \cap Threads) \ isactive)

\* and the values and tables there that it can use.  (The two roots are never
\* values here: nothing is freed or kept on their account.)
InHand   == refs[running] \cup ValuesOf(Open(running))
TablesInHand == {Registry} \cup (InHand \cap AllTables)

\* What one read finds in o: entries, the values of upvalues, stack slots.
Contents(o) == (refs[o] \ UpVals) \cup ValuesOf(refs[o] \cap UpVals)
               \cup (IF o \in Threads THEN ValuesOf(Open(o)) ELSE {})
Readable    == InHand \cup UNION {Contents(o) : o \in {Registry} \cup InHand}

\* The upvalues that running code can assign to or share with a new closure.
Upvalues == Open(running) \cup (ValuesOf(InHand \cap Closures) \cap UpVals)

\* lua_pushvalue, lua_rawget, lua_getref, lua_xpush, LOP_GETTABLE ...: any read
Push(th, v) ==
    /\ Mutator
    /\ refs' = [refs EXCEPT ![th] = @ \cup {v}]
    /\ ThreadBarrier(th)
    /\ UNCHANGED <<home, held, markedopen, threads, gray>>

\* lua_settop, lua_xmove's source, the end of a block
Pop(th, v) ==
    /\ Mutator
    /\ v \in refs[th]
    /\ refs' = [refs EXCEPT ![th] = @ \ {v}]
    /\ UNCHANGED <<mark, home, held, markedopen, threads, gray, grayagain>>

\* lua_rawset, lua_settable, lua_ref, LOP_SETTABLE ...: t[k] = v
Store(t, v) ==
    /\ Mutator
    /\ refs' = [refs EXCEPT ![t] = @ \cup {v}]
    /\ TableBarrier(t, v)
    /\ UNCHANGED <<home, held, markedopen, threads>>

\* t[k] = nil, lua_unref
Erase(t, v) ==
    /\ Mutator
    /\ v \in refs[t]
    /\ refs' = [refs EXCEPT ![t] = @ \ {v}]
    /\ UNCHANGED <<mark, home, held, markedopen, threads, gray, grayagain>>

\* lua_setmetatable on a userdata
SetMetatable(u, mt) ==
    /\ Mutator
    /\ refs' = [refs EXCEPT ![u] = {mt}]
    /\ ForwardBarrier(u, mt)
    /\ UNCHANGED <<home, held, markedopen, threads, grayagain>>

\* lua_setmetatable on a table, which goes on holding its entries.  (The
\* metatable it had, if any, goes by Erase.)
SetTableMetatable(t, mt) ==
    /\ Mutator
    /\ refs' = [refs EXCEPT ![t] = @ \cup {mt}]
    /\ ForwardBarrier(t, mt)
    /\ UNCHANGED <<home, held, markedopen, threads, grayagain>>

\* The objects news, new or revived, are white; the thread that one of them is
\* pushed to is made gray first.
Pushed(th, news) ==
    /\ mark' = [x \in Obj |-> IF x \in news THEN "white"
                              ELSE IF x = th /\ mark[th] = "black" THEN "gray"
                              ELSE mark[x]]
    /\ grayagain' = IF mark[th] = "black" THEN grayagain \cup {th} ELSE grayagain

Created(th, o) == mark[o] = "free" /\ Pushed(th, {o})

\* lua_newtable, lua_newthread
NewObject(th, o) ==
    /\ Mutator
    /\ o \in Tables \cup WeakTables \cup Coroutines
    /\ Created(th, o)
    /\ refs' = [refs EXCEPT ![th] = @ \cup {o}]
    /\ UNCHANGED <<home, held, markedopen, threads, gray>>

\* lua_newuserdatatagged or lua_newuserdatadtor, then NewGlobalRef
NewUserData(th, u) ==
    /\ Mutator
    /\ Created(th, u)
    /\ refs' = [refs EXCEPT ![th] = @ \cup {u}]
    /\ held' = held \cup {u}
    /\ UNCHANGED <<home, markedopen, threads, gray>>

\* A slip for the mutation tests: a dead interned string is not revived.
PushStringKeepsDead(th, s) ==
    /\ Mutator
    /\ refs' = [refs EXCEPT ![th] = @ \cup {s}]
    /\ \/ Created(th, s)
       \/ mark[s] # "free" /\ ThreadBarrier(th)
    /\ UNCHANGED <<home, held, markedopen, threads, gray>>

\* luaS_newlstr: the interned string if there is one, even a dead one
PushString(th, s) ==
    /\ Mutator
    /\ refs' = [refs EXCEPT ![th] = @ \cup {s}]
    /\ \/ Created(th, s)
       \/ mark[s] = "dead" /\ Pushed(th, {s})
       \/ mark[s] \notin {"dead", "free"} /\ ThreadBarrier(th)
    /\ UNCHANGED <<home, held, markedopen, threads, gray>>

\* lua_pushcclosurek and by-value captures: the closure gets the values cap
NewClosure(th, c, cap) ==
    /\ Mutator
    /\ Created(th, c)
    /\ refs' = [refs EXCEPT ![c] = cap, ![th] = @ \cup {c}]
    /\ UNCHANGED <<home, held, markedopen, threads, gray>>

\* LOP_NEWCLOSURE with LCT_REF: luaF_findupval makes an upvalue of a local of
\* the running thread, whose value is val (nothing for nil)
CaptureLocal(c, u, val) ==
    /\ Mutator
    /\ mark[c] = "free" /\ mark[u] = "free"
    /\ Pushed(running, {c, u})
    /\ refs' = [refs EXCEPT ![c] = {u}, ![u] = val, ![running] = @ \cup {c}]
    /\ home' = [home EXCEPT ![u] = running]
    /\ markedopen' = markedopen \ {u}
    /\ UNCHANGED <<held, threads, gray>>

\* LOP_SETUPVAL, or an assignment to a local that is captured
SetUpvalue(u, val) ==
    /\ Mutator
    /\ refs' = [refs EXCEPT ![u] = val]
    /\ IF val = {} THEN UNCHANGED <<mark, gray>>
                   ELSE \E v \in val : ForwardBarrier(u, v)
    /\ UNCHANGED <<home, held, markedopen, threads, grayagain>>

\* A slip for the mutation tests: the closed upvalue turns black without a barrier.
CloseUpvalueNoBarrier(u) ==
    /\ Mutator
    /\ home' = [home EXCEPT ![u] = Nil]
    /\ mark' = [mark EXCEPT ![u] = IF @ # "gray" THEN @ ELSE IF keepinvariant THEN "black" ELSE "white"]
    /\ UNCHANGED <<refs, held, markedopen, threads, gray, grayagain>>

\* luaF_close and luaF_closeupval on one upvalue, then luaC_upvalclosed: at the
\* end of a block, or of a suspended coroutine that lua_resetthread clears
CloseUpvalue(u) ==
    /\ Mutator
    /\ home' = [home EXCEPT ![u] = Nil]
    /\ IF mark[u] = "gray"
       THEN IF keepinvariant
            THEN /\ mark' = [MarkOf(refs[u]) EXCEPT ![u] = "black"]
                 /\ gray' = gray \cup (Marked(refs[u]) \cap Listed)
            ELSE mark' = [mark EXCEPT ![u] = "white"] /\ UNCHANGED gray
       ELSE UNCHANGED <<mark, gray>>
    /\ UNCHANGED <<refs, held, markedopen, threads, grayagain>>

\* A slip for the mutation tests: L->isactive is not set.
ResumeInactive(co) ==
    /\ Mutator
    /\ co \notin isactive
    /\ running' = co
    /\ resumer' = [resumer EXCEPT ![co] = running]
    /\ ThreadBarrier(co)
    /\ UNCHANGED <<heap, markedopen, isactive, gray>>

\* lua_resume: resume_start makes the coroutine active and gray; it stays an
\* argument on the stack of the thread that resumed it
Resume(co) ==
    /\ Mutator
    /\ co \notin isactive
    /\ isactive' = isactive \cup {co}
    /\ running' = co
    /\ resumer' = [resumer EXCEPT ![co] = running]
    /\ ThreadBarrier(co)
    /\ UNCHANGED <<heap, markedopen, gray>>

\* the coroutine yields or ends: resume_finish
Suspend ==
    /\ Mutator
    /\ running # Main
    /\ isactive' = isactive \ {running}
    /\ running' = resumer[running]
    /\ resumer' = [resumer EXCEPT ![running] = Nil]
    /\ UNCHANGED <<mark, heap, markedopen, gray, grayagain>>

Program ==
    \/ \E th \in Handles : \/ \E v \in Readable : Push(th, v)
                           \/ \E v \in refs[th] : Pop(th, v)
                           \/ \E o \in Obj : NewObject(th, o)
                           \/ \E u \in Udata : NewUserData(th, u)
                           \/ \E s \in Strings : PushString(th, s)
                           \/ \E c \in Closures : \/ NewClosure(th, c, {})
                                                  \/ \E v \in InHand : NewClosure(th, c, {v})
    \/ \E t \in TablesInHand : \/ \E v \in InHand : Store(t, v)
                               \/ \E v \in refs[t] : Erase(t, v)
    \/ \E mt \in InHand \cap AllTables :
          \/ \E u \in InHand \cap Udata : SetMetatable(u, mt)
          \/ \E t \in TablesInHand \ WeakTables : SetTableMetatable(t, mt)
    \/ \E c \in Closures, u \in UpVals : \/ CaptureLocal(c, u, {})
                                         \/ \E v \in InHand : CaptureLocal(c, u, {v})
    \/ \E u \in Upvalues : \/ \E c \in Closures : NewClosure(running, c, {u})
                          \/ SetUpvalue(u, {})
                          \/ \E v \in InHand : SetUpvalue(u, {v})
    \/ \E th \in Handles : \E u \in Open(th) : CloseUpvalue(u)
    \/ \E co \in refs[running] \cap Coroutines : Resume(co)
    \/ Suspend

----------------------------------------------------------------------------
(* The collector.  gcstep does some of these in a row; here the program    *)
(* may act after each of them, except inside atomic() and luaC_fullgc.     *)

\* the traversal of o by propagatemark
Propagate(o) ==
    LET p == Propagated(o)
    IN  /\ mark' = p.mark
        /\ weak' = p.weak
        /\ markedopen' = p.open

\* A slip for the mutation tests: markroot does not reset grayagain.
MarkRootKeepsLists ==
    /\ mark' = MarkOf({Main, Registry})
    /\ gray' = Marked({Main, Registry}) \cap Listed
    /\ weak' = {}
    /\ gcstate' = "propagate"
    /\ UNCHANGED <<grayagain, phase, unswept>>

\* markroot
MarkRoot ==
    /\ mark' = MarkOf({Main, Registry})
    /\ gray' = Marked({Main, Registry}) \cap Listed
    /\ grayagain' = {}
    /\ weak' = {}
    /\ gcstate' = "propagate"
    /\ UNCHANGED <<phase, unswept>>

\* GCSpause: a new cycle
StartCycle ==
    /\ gcstate = "pause" /\ full = "no"
    /\ MarkRoot
    /\ UNCHANGED <<heap, markedopen, threads, full>>

\* GCSpropagate and GCSpropagateagain: one traversal, and with the last gray
\* object the next state.  The list is never empty here: the main thread is in
\* one of the two lists from markroot to the atomic step.
PropagateStep ==
    /\ gcstate \in {"propagate", "propagateagain"}
    /\ \E o \in gray :
          LET p == Propagated(o)
          IN  /\ Propagate(o)
              /\ IF p.gray # {}
                 THEN gray' = p.gray /\ grayagain' = p.grayagain /\ UNCHANGED gcstate
                 ELSE IF gcstate = "propagate"
                 THEN gray' = p.grayagain /\ grayagain' = {} /\ gcstate' = "propagateagain"
                 ELSE gray' = {} /\ grayagain' = p.grayagain /\ gcstate' = "atomic"
    /\ UNCHANGED <<heap, threads, phase, full, unswept>>

\* A slip for the mutation tests: the upvalues are not looked at again.
RemarkNoUpvals ==
    /\ gcstate = "atomic" /\ phase = "idle"
    /\ phase' = "upvals"
    /\ UNCHANGED <<mark, heap, markedopen, threads, gcstate, full, unswept, lists>>

\* atomic(): remarkupvals, for upvalues whose thread may be black or dead
RemarkUpvals ==
    /\ gcstate = "atomic" /\ phase = "idle"
    /\ MarkObjects(ValuesOf({u \in UpVals : IsOpen(u) /\ mark[u] = "gray"}))
    /\ phase' = "upvals"
    /\ UNCHANGED <<heap, markedopen, threads, gcstate, full, unswept, grayagain, weak>>

\* atomic(): propagateall
PropagateAll ==
    /\ phase # "idle"
    /\ \E o \in gray : /\ Propagate(o)
                       /\ gray' = Propagated(o).gray
                       /\ grayagain' = Propagated(o).grayagain
    /\ UNCHANGED <<heap, threads, cycle>>

\* atomic(): the weak tables and the thread that runs the collector, L
RemarkWeak ==
    /\ phase = "upvals" /\ gray = {}
    /\ \E L \in Handles : /\ mark' = MarkOf({L})
                          /\ gray' = weak \cup (Marked({L}) \cap Listed)
    /\ weak' = {}
    /\ phase' = "weak"
    /\ UNCHANGED <<heap, markedopen, threads, gcstate, full, unswept, grayagain>>

\* atomic(): what the back barriers and the active threads left
RemarkGray ==
    /\ phase = "weak" /\ gray = {}
    /\ gray' = grayagain
    /\ grayagain' = {}
    /\ phase' = "gray"
    /\ UNCHANGED <<mark, heap, markedopen, threads, gcstate, full, unswept, weak>>

\* A slip for the mutation tests: strings that nothing else marked go as well.
ClearTablesStrings ==
    /\ refs' = [o \in Obj |-> IF o \in weak THEN refs[o] \ White ELSE refs[o]]
    /\ weak' = {}

\* cleartable: strings in weak tables are marked, other white entries go
ClearTables ==
    LET kept == Strings \cup (Obj \ White)
    IN  /\ refs' = [o \in Obj |-> IF o \in weak THEN refs[o] \cap kept ELSE refs[o]]
        /\ weak' = {}

\* clearupvals: what no live thread has open is unlinked, and closed if alive
Orphans == {u \in UpVals : IsOpen(u) /\ u \notin markedopen}
ClearUpvals == /\ home' = [u \in UpVals |-> IF u \in Orphans THEN Nil ELSE home[u]]
               /\ markedopen' = markedopen \ {u \in UpVals : IsOpen(u)}

\* atomic(): the end.  The values of orphans were marked with them.  The flip of
\* g->currentwhite makes dead what is still white.
FinishAtomic ==
    /\ phase = "gray" /\ gray = {}
    /\ ClearTables
    /\ ClearUpvals
    /\ mark' = [o \in Obj |-> IF o \in Strings \cap White \cap ValuesOf(weak) THEN "black"
                              ELSE IF o \in Orphans \ White THEN "black"
                              ELSE IF o \in White THEN "dead"
                              ELSE mark[o]]
    /\ unswept' = Allocated \ {Main}
    /\ gcstate' = "sweep"
    /\ phase' = "idle"
    /\ UNCHANGED <<held, threads, full, gray, grayagain>>

\* A slip for the mutation tests: a block is freed without its destructor.
SweepStepNoDestructor ==
    /\ gcstate = "sweep"
    /\ \E o \in unswept :
          LET swept == [mark EXCEPT ![o] = IF @ \in {"dead", "free"} THEN "free" ELSE "white"]
          IN  /\ refs' = IF mark[o] = "dead" THEN [refs EXCEPT ![o] = {}] ELSE refs
              /\ unswept' = unswept \ {o}
              /\ IF unswept # {o}
                 THEN mark' = swept /\ UNCHANGED <<gcstate, full>>
                 ELSE /\ mark' = [swept EXCEPT ![Main] = "white"]
                      /\ gcstate' = "pause"
                      /\ full' = IF full = "cycle" THEN "no" ELSE full
    /\ UNCHANGED <<home, held, markedopen, threads, phase, lists>>

\* sweepgcopage on one block.  freeobj runs the destructor of a userdata, which
\* deletes the global reference.  The last block ends the cycle.
SweepStep ==
    /\ gcstate = "sweep"
    /\ \E o \in unswept :
          LET swept == [mark EXCEPT ![o] = IF @ \in {"dead", "free"} THEN "free" ELSE "white"]
          IN  /\ refs' = IF mark[o] = "dead" THEN [refs EXCEPT ![o] = {}] ELSE refs
              /\ held' = IF mark[o] = "dead" THEN held \ {o} ELSE held
              /\ unswept' = unswept \ {o}
              /\ IF unswept # {o}
                 THEN mark' = swept /\ UNCHANGED <<gcstate, full>>
                 ELSE /\ mark' = [swept EXCEPT ![Main] = "white"]
                      /\ gcstate' = "pause"
                      /\ full' = IF full = "cycle" THEN "no" ELSE full
    /\ UNCHANGED <<home, markedopen, threads, phase, lists>>

\* luaC_fullgc, from lua_gc(LUA_GCCOLLECT): a cycle that is marking is dropped
\* and everything swept back to white, with no flip of the white
FullGC ==
    /\ gcstate # "closed" /\ phase = "idle" /\ full = "no"
    /\ full' = "sweep"
    /\ IF keepinvariant
       THEN /\ gcstate' = "sweep"
            /\ unswept' = Allocated \ {Main}
            /\ gray' = {} /\ grayagain' = {} /\ weak' = {}
       ELSE UNCHANGED <<gcstate, unswept, lists>>
    /\ UNCHANGED <<mark, heap, markedopen, threads, phase>>

\* A slip for the mutation tests: the bits of the dropped cycle stay.
FullCycleKeepsBits ==
    /\ gcstate = "pause" /\ full = "sweep"
    /\ full' = "cycle"
    /\ MarkRoot
    /\ UNCHANGED <<heap, markedopen, threads>>

\* luaC_fullgc, when the pending sweep is over: then a whole cycle
FullCycle ==
    /\ gcstate = "pause" /\ full = "sweep"
    /\ full' = "cycle"
    /\ markedopen' = markedopen \ {u \in UpVals : IsOpen(u)}
    /\ MarkRoot
    /\ UNCHANGED <<heap, threads>>

\* one step of the collector
GCStep == \/ StartCycle \/ PropagateStep
          \/ RemarkUpvals \/ PropagateAll \/ RemarkWeak \/ RemarkGray \/ FinishAtomic
          \/ SweepStep \/ FullCycle

\* A slip for the mutation tests: no destructors at lua_close.
CloseWithoutDestructors ==
    /\ gcstate # "closed" /\ phase = "idle" /\ full = "no"
    /\ running = Main
    /\ gcstate' = "closed"
    /\ mark' = [o \in Obj |-> "free"]
    /\ refs' = [o \in Obj |-> {}]
    /\ home' = [u \in UpVals |-> Nil]
    /\ unswept' = {}
    /\ UNCHANGED <<held, markedopen, threads, phase, full, lists>>

\* LuaEngine.close: lua_close frees every object, whatever the cycle was doing
Close ==
    /\ gcstate # "closed" /\ phase = "idle" /\ full = "no"
    /\ running = Main
    /\ gcstate' = "closed"
    /\ mark' = [o \in Obj |-> "free"]
    /\ refs' = [o \in Obj |-> {}]
    /\ home' = [u \in UpVals |-> Nil]
    /\ held' = {}
    /\ unswept' = {}
    /\ UNCHANGED <<markedopen, threads, phase, full, lists>>

----------------------------------------------------------------------------
Init ==
    /\ mark = [o \in Obj |-> IF o \in {Main, Registry} THEN "white" ELSE "free"]
    /\ refs = [o \in Obj |-> {}]
    /\ home = [u \in UpVals |-> Nil]
    /\ markedopen = {} /\ held = {}
    /\ isactive = {Main} /\ running = Main
    /\ resumer = [th \in Threads |-> Nil]
    /\ gcstate = "pause" /\ phase = "idle" /\ full = "no"
    /\ gray = {} /\ grayagain = {} /\ weak = {} /\ unswept = {}

Next == Program \/ GCStep \/ FullGC \/ Close

\* Allocation drives the collector (luaC_checkGC), so a program that goes on
\* allocating makes it go on; while it may still do so a cycle that was begun ends.
Spec == Init /\ [][Next]_vars
FairSpec == Spec /\ WF_vars(GCStep)

----------------------------------------------------------------------------
(* Properties.                                                             *)

TypeOK ==
    /\ mark \in [Obj -> {"white", "gray", "black", "dead", "free"}]
    /\ refs \in [Obj -> SUBSET Obj]
    /\ home \in [UpVals -> Threads \cup {Nil}]
    /\ markedopen \subseteq UpVals
    /\ held \subseteq Udata
    /\ isactive \subseteq Threads /\ running \in isactive
    /\ resumer \in [Threads -> Threads \cup {Nil}]
    /\ gcstate \in {"pause", "propagate", "propagateagain", "atomic", "sweep", "closed"}
    /\ phase \in {"idle", "upvals", "weak", "gray"}
    /\ full \in {"no", "sweep", "cycle"}
    /\ gray \subseteq Listed /\ grayagain \subseteq Listed /\ weak \subseteq WeakTables
    /\ unswept \subseteq Obj \ {Main}

\* What has to be there for o to be used: what it refers to, and for an open
\* upvalue the stack of its thread, which it points into.
Needs(o) == refs[o] \cup (IF o \in UpVals THEN {home[o]} \ {Nil} ELSE {})
                    \cup (IF o \in Threads THEN Open(o) ELSE {})

\* Nothing refers to freed or dying memory: the roots, the executing threads and
\* all that an object that the sweep will spare needs were not freed and will not
\* be by the sweep (validateobjref and checkliveness, lgcdebug.cpp).
NoDangling == gcstate # "closed" =>
    /\ {Main, Registry} \cup isactive \subseteq Live
    /\ \A o \in Live : Needs(o) \subseteq Live

\* While marking, a black object refers to no white one (validateobjref), but for
\* the captured slots of a suspended thread, whose upvalues are then gray.
BlackToWhite == keepinvariant =>
    \A o \in Obj : mark[o] = "black" =>
        /\ Children(o) \cap White \subseteq (IF o \in Threads THEN ValuesOf(Open(o)) ELSE {})
        /\ o \in Threads => \A u \in Open(o) : mark[u] = "gray" /\ u \in markedopen

\* The gray lists are chained through one field: while marking, a gray object
\* other than an open upvalue is in exactly one of them, and they hold nothing
\* else (validategraylist).
GrayLists == keepinvariant =>
    /\ gray \cap grayagain = {} /\ gray \cap weak = {} /\ grayagain \cap weak = {}
    /\ gray \cup grayagain \cup weak = {o \in Obj \ UpVals : mark[o] = "gray"}

\* Everything in S, and all it refers to, and so on, is in S.
Closed(S) == \A o \in S : Children(o) \subseteq S

\* No path from the roots leads to o: some set without o holds the roots and is
\* closed.  The chain of threads that are executing counts as rooted.
Garbage(o) == \E S \in SUBSET (Obj \ {o}) :
    {Main, Registry} \cup isactive \subseteq S /\ Closed(S)

\* The sweep frees only what no path from the roots reaches at that moment,
\* whatever the program did since the marking began.
OnlyGarbageFreed ==
    [][\A o \in Obj : mark[o] # "free" /\ mark'[o] = "free" /\ gcstate' # "closed" => Garbage(o)]_vars

\* A step of the collector changes nothing the program can reach, but that weak
\* tables lose entries, other than strings, which no path leads to.
OnlyGarbageForgotten ==
    [][GCStep => \A o \in Obj : refs'[o] # refs[o] =>
          \/ Garbage(o)
          \/ /\ o \in WeakTables /\ refs'[o] \subseteq refs[o]
             /\ \A v \in refs[o] \ refs'[o] : v \notin Strings /\ Garbage(v)]_vars

\* A JNI global reference lives as long as its userdata: it is there while the
\* block is, and when the VM is closed none is left.
HeldWithUdata == held = {u \in Udata : mark[u] # "free"}

\* A userdata that nobody can reach any more loses its global reference, unless a
\* weak table gives it back to the program first.
GlobalRefsReleased ==
    \A u \in Udata : (u \in held /\ Garbage(u)) ~> (u \notin held \/ ~Garbage(u))

\* The collector, with all its marking, is a heap that loses only what the program
\* cannot reach, and the program cannot tell that it runs (module Heap).
AsHeap == INSTANCE Heap WITH
    there  <- Allocated,
    edges  <- [o \in Obj |-> IF o \in Threads THEN refs[o] \cup Open(o) ELSE refs[o]],
    rooted <- {o \in {Main, Registry} \cup isactive : mark[o] # "free"}
HeapSpec == AsHeap!Spec
=============================================================================
