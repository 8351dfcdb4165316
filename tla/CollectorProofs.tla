--------------------------- MODULE CollectorProofs ---------------------------
(***************************************************************************)
(* The collector never frees what the program can reach, for any number of *)
(* objects of each kind: the inductive invariant behind NoDangling, and    *)
(* the theorems that follow from it.                                       *)
(*                                                                         *)
(* The parts of the invariant speak of a marking m, references r and homes *)
(* h of upvalues, so that a lemma can speak of the state after a step, or  *)
(* in the middle of one.                                                   *)
(***************************************************************************)
EXTENDS Collector, TLAPS

Colours == {"white", "gray", "black", "dead", "free"}
Pale    == {"white", "dead"}
Gone    == {"dead", "free"}

(* What refers to what: only closures refer to upvalues, the metatable of a *)
(* userdata is a table, a string refers to nothing.                         *)
Kinds(r) ==
  /\ \A o \in Obj \ Closures : r[o] \cap UpVals = {}
  /\ \A u \in Udata : r[u] \subseteq AllTables
  /\ \A s \in Strings : r[s] = {}

(* The active threads are a chain from the main thread to the running one, *)
(* each on the stack of its resumer; no set of coroutines among them keeps *)
(* itself active.                                                          *)
Chain(r, act, run, res) ==
  /\ Main \in act
  /\ \A c \in act \ {Main} : res[c] \in act /\ res[c] # run /\ c \in r[res[c]]
  /\ \A c, d \in act \ {Main} : res[c] = res[d] => c = d
  /\ \A X \in SUBSET (act \ {Main}) : X # {} => \E c \in X : res[c] \notin X

(* Freed memory refers to nothing, and no dying upvalue is open. *)
Freed(m, r, h) ==
  /\ \A o \in Obj : m[o] = "free" => r[o] = {}
  /\ \A u \in UpVals : m[u] \in Gone => h[u] = Nil

(* An upvalue that was marked is gray while it is open and black when it is *)
(* closed.                                                                  *)
UpvalColours(m, h) ==
  \A u \in UpVals : (m[u] = "gray" => h[u] # Nil) /\ (m[u] = "black" => h[u] = Nil)

(* NoDangling, object by object. *)
Sound(m, r, h, act) ==
  /\ \A o \in {Main, Registry} \cup act : m[o] \notin Gone
  /\ \A o \in Obj : m[o] \notin Gone =>
        /\ \A v \in r[o] : m[v] \notin Gone
        /\ o \in UpVals /\ h[o] # Nil => m[h[o]] \notin Gone

(* Between two markings everything is white; a sweep leaves other colours  *)
(* only where it has not been.                                             *)
Swept(m, h, open, gcs, ph, fl, left) ==
  /\ \A o \in Obj : m[o] = "dead" => gcs = "sweep" /\ o \in left
  /\ gcs = "pause" => \A o \in Obj : m[o] \in {"white", "free"}
  /\ gcs = "sweep" => \A o \in Obj : m[o] \in {"gray", "black"} => o \in left \cup {Main}
  /\ ph # "idle" => gcs = "atomic"
  /\ gcs \in {"pause", "sweep"} /\ fl # "sweep" => \A u \in open : h[u] = Nil

(* The tri-colour invariant: a black object refers to no white one, and the *)
(* open upvalues of a black thread are marked.                              *)
BlackDone(m, r, h, open) ==
  \A o \in Obj : m[o] = "black" =>
    /\ o \notin WeakTables
    /\ \A v \in r[o] : m[v] \notin Pale
    /\ \A u \in UpVals : h[u] = o => m[u] = "gray" /\ u \in open

OpenDone(m, h, open) ==
  \A u \in open : h[u] # Nil => m[u] = "gray" /\ m[h[u]] \notin Pale

GrayIn(m, g, again, w) ==
  /\ g \cap again = {} /\ g \cap w = {} /\ again \cap w = {}
  /\ g \cup again \cup w = {o \in Obj \ UpVals : m[o] = "gray"}

TriColour(m, r, h, open, g, again, w) ==
  /\ BlackDone(m, r, h, open)
  /\ OpenDone(m, h, open)
  /\ GrayIn(m, g, again, w)
  /\ m[Main] \notin Pale /\ m[Registry] \notin Pale

(* In the atomic step the values of gray upvalues are marked, and when the *)
(* threads that stayed gray are traversed again nothing white is left there. *)
UpvalsDone(m, r) ==
  \A u \in UpVals : m[u] = "gray" => \A v \in r[u] : m[v] \notin Pale

AgainDone(m, r, h, open, again) ==
  \A o \in again :
    /\ o \in Threads
    /\ \A v \in r[o] : m[v] \notin Pale
    /\ \A u \in UpVals : h[u] = o => m[u] \notin Pale /\ u \in open

Painted ==
  /\ Freed(mark, refs, home)
  /\ UpvalColours(mark, home)
  /\ gcstate # "closed" => Sound(mark, refs, home, isactive)
  /\ Swept(mark, home, markedopen, gcstate, phase, full, unswept)
  /\ keepinvariant => TriColour(mark, refs, home, markedopen, gray, grayagain, weak)
  /\ phase # "idle" => UpvalsDone(mark, refs)
  /\ phase = "gray" => AgainDone(mark, refs, home, markedopen, grayagain)

IInv ==
  /\ TypeOK
  /\ Kinds(refs)
  /\ Chain(refs, isactive, running, resumer)
  /\ HeldWithUdata
  /\ Painted
-----------------------------------------------------------------------------
LEMMA Disjoint ==
  /\ Main \in Obj /\ Registry \in Obj /\ Main \in Threads /\ Registry \in AllTables
  /\ \A o \in UpVals : o \in Obj /\ o \notin Listed \cup Strings \cup Udata
  /\ \A o \in Udata : o \in Obj /\ o \notin Listed \cup Strings
  /\ \A o \in Strings : o \in Obj /\ o \notin Listed
  /\ \A o \in Threads : o \in Obj /\ o \notin AllTables \cup Closures
  /\ \A o \in AllTables : o \in Obj /\ o \notin Closures
  /\ \A o \in Closures : o \in Obj
  /\ Listed \subseteq Obj \ UpVals /\ WeakTables \subseteq AllTables /\ AllTables \subseteq Listed
  /\ Obj = Listed \cup UpVals \cup Strings \cup Udata
  /\ Nil \notin Obj /\ Main \notin Coroutines
  BY KindsAssumption DEF Obj, Listed, Threads, AllTables

LEMMA ValuesIn ==
  ASSUME NEW us, NEW v
  PROVE  v \in ValuesOf(us) <=> \E u \in us : v \in refs[u]
  BY DEF ValuesOf

(* What markobject does to the members of S and to what it descends to. *)
MarksUp(m, S) ==
  /\ m \in [Obj -> Colours]
  /\ \A o \in Obj : m[o] # mark[o] => mark[o] \in Pale /\ m[o] \in {"gray", "black"}
  /\ \A o \in S : m[o] \notin Pale
  /\ \A u \in UpVals : m[u] # mark[u] => m[u] = (IF home[u] # Nil THEN "gray" ELSE "black")
  /\ \A o \in Obj : m[o] # mark[o] /\ m[o] = "black" => o \in UpVals \cup Strings \cup Udata
  /\ \A o \in UpVals \cup Strings \cup Udata : m[o] # mark[o] => \A v \in refs[o] : m[v] \notin Pale
  /\ Marked(S) \cap Listed = {o \in Obj \ UpVals : m[o] = "gray" /\ mark[o] # "gray"}

LEMMA MarkOfFacts ==
  ASSUME TypeOK, Kinds(refs), NEW S \in SUBSET Obj
  PROVE  MarksUp(MarkOf(S), S)
<1> DEFINE objs == S \cap White
           vals == objs \cup (ValuesOf(objs \cap UpVals) \cap White)
           M    == Marked(S)
           m    == MarkOf(S)
<1>1. /\ M = vals \cup (ValuesOf(vals \cap Udata) \cap White)
      /\ m = [o \in Obj |-> IF o \notin M THEN mark[o] ELSE IF BlackAtOnce(o) THEN "black" ELSE "gray"]
  BY DEF Marked, MarkOf
<1>2. /\ M \subseteq White /\ S \cap White \subseteq M /\ White \subseteq Obj
      /\ \A o \in Obj : o \in White <=> mark[o] \in Pale
  BY <1>1 DEF White, Pale
<1>3. \A u \in M \cap UpVals : u \in objs
  <2>1. \A v \in ValuesOf(objs \cap UpVals) : v \notin UpVals
    <3>1. \A u \in UpVals : refs[u] \cap UpVals = {}
      BY Disjoint DEF Kinds, Listed
    <3> HIDE DEF objs
    <3> QED  BY ONLY <3>1, ValuesIn
  <2>2. \A v \in ValuesOf(vals \cap Udata) : v \notin UpVals
    <3>1. \A u \in Udata : refs[u] \cap UpVals = {}
      BY Disjoint DEF Kinds
    <3> HIDE DEF vals
    <3> QED  BY ONLY <3>1, ValuesIn
  <2> QED  BY <1>1, <2>1, <2>2
<1>4. \A u \in M \cap Udata : u \in vals
  <2>1. \A v \in ValuesOf(vals \cap Udata) : v \notin Udata
    <3>1. \A u \in Udata : refs[u] \cap Udata = {}
      BY Disjoint DEF Kinds
    <3> HIDE DEF vals
    <3> QED  BY ONLY <3>1, ValuesIn
  <2> QED  BY <1>1, <2>1
<1>5. \A o \in M \cap UpVals : refs[o] \cap White \subseteq M
  BY <1>1, <1>3 DEF ValuesOf
<1>6. \A o \in M \cap Udata : refs[o] \cap White \subseteq M
  BY <1>1, <1>4 DEF ValuesOf
<1> HIDE DEF objs, vals, M
<1>7. /\ \A o \in Obj : m[o] = IF o \notin M THEN mark[o] ELSE IF BlackAtOnce(o) THEN "black" ELSE "gray"
      /\ m \in [Obj -> Colours]
  BY <1>1 DEF TypeOK, Colours
<1> HIDE DEF m
<1>8. \A o \in Obj : m[o] # mark[o] => o \in M /\ mark[o] \in Pale /\ m[o] \in {"gray", "black"}
  BY <1>2, <1>7
<1>9. \A o \in Obj : o \in M \/ o \notin White => m[o] \notin Pale
  BY <1>2, <1>7 DEF Pale
<1>10. \A o \in M : m[o] = IF BlackAtOnce(o) THEN "black" ELSE "gray"
  BY <1>2, <1>7
<1>11. \A o \in Obj : BlackAtOnce(o) <=> (o \in Strings \cup Udata \/ (o \in UpVals /\ home[o] = Nil))
  BY Disjoint DEF BlackAtOnce, IsOpen
<1>12. \A o \in S : m[o] \notin Pale
  BY <1>2, <1>9
<1>13. \A u \in UpVals : m[u] # mark[u] => m[u] = (IF home[u] # Nil THEN "gray" ELSE "black")
  BY <1>8, <1>10, <1>11, Disjoint
<1>14. \A o \in Obj : m[o] # mark[o] /\ m[o] = "black" => o \in UpVals \cup Strings \cup Udata
  BY <1>8, <1>10, <1>11
<1>15. \A o \in UpVals \cup Strings \cup Udata : m[o] # mark[o] => \A v \in refs[o] : m[v] \notin Pale
  <2>1. \A o \in Obj : refs[o] \subseteq Obj
    BY DEF TypeOK
  <2>2. \A o \in UpVals \cup Strings \cup Udata : o \in M => refs[o] \cap White \subseteq M
    BY <1>5, <1>6 DEF Kinds
  <2> QED  BY <1>8, <1>9, <2>1, <2>2, Disjoint
<1>16. M \cap Listed = {o \in Obj \ UpVals : m[o] = "gray" /\ mark[o] # "gray"}
  <2>1. \A o \in M : mark[o] # "gray" /\ o \in Obj
    BY <1>2 DEF Pale
  <2>2. \A o \in M \cap Listed : m[o] = "gray" /\ o \notin UpVals
    BY <1>10, <1>11, <2>1, Disjoint
  <2>3. \A o \in Obj \ UpVals : m[o] = "gray" /\ mark[o] # "gray" => o \in M /\ o \in Listed
    BY <1>8, <1>10, <1>11, Disjoint
  <2> QED  BY <2>1, <2>2, <2>3
<1> QED  BY <1>7, <1>8, <1>12, <1>13, <1>14, <1>15, <1>16 DEF MarksUp, M, m
-----------------------------------------------------------------------------
(* What the program does to the colours when it marks nothing: objects in   *)
(* news, which were free or dying, become white, black ones in X gray.      *)
Recoloured(X, news) ==
  /\ X \subseteq Listed /\ \A o \in X : mark[o] = "black"
  /\ news \subseteq Obj /\ \A o \in news : mark[o] = "free" \/ (mark[o] = "dead" /\ o \in Strings)
  /\ mark' = [o \in Obj |-> IF o \in news THEN "white" ELSE IF o \in X THEN "gray" ELSE mark[o]]
  /\ grayagain' = grayagain \cup X

(* What it may do to the heap then: a black object gets no new reference to *)
(* a white one, a new upvalue is in no black thread, and nothing dead is     *)
(* picked up.  A white upvalue may be closed.                                *)
HeapChanged(news) ==
  /\ \A o \in Obj : \A v \in refs'[o] : 
        v \in refs[o] \/ (mark'[v] \notin Gone /\ (mark'[o] = "black" => mark'[v] \notin Pale))
  /\ \A o \in Obj : mark'[o] = "free" => refs'[o] = refs[o]
  /\ \A u \in UpVals : home'[u] # home[u] =>
        \/ home'[u] = Nil /\ mark'[u] = "white"
        \/ /\ u \in news /\ u \notin markedopen'
           /\ home'[u] \in Obj /\ mark'[home'[u]] \notin Gone \cup {"black"}
  /\ markedopen' = markedopen \ news \/ (markedopen' = markedopen /\ news \cap UpVals = {})
  /\ \A o \in isactive' : mark'[o] \notin Gone

LEMMA RecolourKeeps ==
  ASSUME IInv, TypeOK', Mutator, gray' = gray, NEW X, NEW news, Recoloured(X, news), HeapChanged(news)
  PROVE  Painted'
<1>1. /\ TypeOK /\ Freed(mark, refs, home) /\ UpvalColours(mark, home)
      /\ Sound(mark, refs, home, isactive)
      /\ Swept(mark, home, markedopen, gcstate, phase, full, unswept)
      /\ keepinvariant => TriColour(mark, refs, home, markedopen, gray, grayagain, weak)
  BY DEF IInv, Painted, Mutator
<1>2. /\ gcstate' = gcstate /\ phase' = "idle" /\ full' = full /\ unswept' = unswept /\ weak' = weak
      /\ gcstate # "closed" /\ (keepinvariant' <=> keepinvariant)
  BY DEF Mutator, cycle, keepinvariant
<1>3. /\ \A o \in Obj : mark'[o] = IF o \in news THEN "white" ELSE IF o \in X THEN "gray" ELSE mark[o]
      /\ X \subseteq Listed /\ \A o \in X : mark[o] = "black"
      /\ news \subseteq Obj /\ \A o \in news : mark[o] = "free" \/ (mark[o] = "dead" /\ o \in Strings)
      /\ grayagain' = grayagain \cup X
  BY DEF Recoloured
<1>4. /\ \A o \in Obj : refs[o] \subseteq Obj /\ refs'[o] \subseteq Obj
      /\ \A u \in UpVals : home[u] \in Threads \cup {Nil}
      /\ markedopen \subseteq UpVals /\ markedopen' \subseteq UpVals
      /\ isactive \subseteq Threads
  BY <1>1 DEF TypeOK
<1>5. \A o \in Obj : /\ mark[o] \notin Gone => mark'[o] \notin Gone
                     /\ mark'[o] \in Gone => mark'[o] = mark[o]
                     /\ mark'[o] = "black" => mark[o] = "black" /\ o \notin X
                     /\ mark[o] \in {"gray", "black"} => mark'[o] \in {"gray", "black"}
  BY <1>3 DEF Gone
<1>6. Freed(mark', refs', home')
  BY <1>1, <1>3, <1>5, Disjoint DEF Freed, HeapChanged, Gone
<1>7. UpvalColours(mark', home')
  <2> SUFFICES ASSUME NEW u \in UpVals
               PROVE  (mark'[u] = "gray" => home'[u] # Nil) /\ (mark'[u] = "black" => home'[u] = Nil)
    BY DEF UpvalColours
  <2>1. u \in Obj /\ u \notin X
    BY <1>3, Disjoint
  <2>2. home'[u] # home[u] => u \in news \/ mark'[u] = "white"
    BY DEF HeapChanged
  <2> QED  BY <1>1, <1>3, <2>1, <2>2 DEF UpvalColours
<1>8. Sound(mark', refs', home', isactive')
  <2>1. \A o \in {Main, Registry} \cup isactive' : mark'[o] \notin Gone
    BY <1>1, <1>5, Disjoint DEF Sound, HeapChanged
  <2>2. ASSUME NEW o \in Obj, mark'[o] \notin Gone, NEW v \in refs'[o]
        PROVE  mark'[v] \notin Gone
    <3>1. CASE v \in refs[o]
      <4>1. mark[o] # "free"
        BY <1>1, <3>1 DEF Freed
      <4>2. CASE mark[o] = "dead"
        <5>1. o \in news
          BY <1>3, <2>2, <4>2 DEF Gone
        <5>2. refs[o] = {}
          BY <1>3, <4>2, <5>1 DEF IInv, Kinds
        <5> QED  BY <3>1, <5>2
      <4>3. CASE mark[o] # "dead"
        BY <1>1, <1>4, <1>5, <3>1, <4>1, <4>3 DEF Sound, Gone
      <4> QED  BY <4>2, <4>3
    <3> QED  BY <2>2, <3>1 DEF HeapChanged
  <2>3. ASSUME NEW u \in UpVals, mark'[u] \notin Gone, home'[u] # Nil
        PROVE  mark'[home'[u]] \notin Gone
    <3>1. CASE home'[u] = home[u]
      <4>1. mark[u] \notin Gone
        BY <1>1, <2>3, <3>1 DEF Freed
      <4> QED  BY <1>1, <1>4, <1>5, <2>3, <3>1, <4>1, Disjoint DEF Sound
    <3> QED  BY <2>3, <3>1 DEF HeapChanged
  <2> QED  BY <2>1, <2>2, <2>3 DEF Sound
<1>9. Swept(mark', home', markedopen', gcstate', phase', full', unswept')
  <2>1. \A o \in Obj : /\ mark'[o] = "dead" => mark[o] = "dead"
                       /\ mark'[o] \in {"gray", "black"} => mark[o] \in {"gray", "black"}
                       /\ mark[o] \in {"white", "free"} => mark'[o] \in {"white", "free"}
    BY <1>3
  <2>2. \A u \in markedopen' : u \in markedopen /\ (home'[u] = home[u] \/ home'[u] = Nil)
    BY <1>4 DEF HeapChanged
  <2> QED  BY <1>1, <1>2, <2>1, <2>2 DEF Swept
<1>10. ASSUME keepinvariant
       PROVE  TriColour(mark', refs', home', markedopen', gray', grayagain', weak')
  <2>1. TriColour(mark, refs, home, markedopen, gray, grayagain, weak) /\ \A o \in Obj : mark[o] # "dead"
    BY <1>1, <1>10 DEF Swept, keepinvariant
  <2>2. \A o \in Obj : /\ mark[o] \in {"gray", "black"} => mark'[o] \in {"gray", "black"}
                       /\ mark[o] \notin Gone \cup Pale => mark'[o] \notin Pale
    BY <1>3, <2>1 DEF TypeOK, Pale, Gone
  <2>3. BlackDone(mark', refs', home', markedopen')
    <3> SUFFICES ASSUME NEW o \in Obj, mark'[o] = "black"
                 PROVE  /\ o \notin WeakTables
                        /\ \A v \in refs'[o] : mark'[v] \notin Pale
                        /\ \A u \in UpVals : home'[u] = o => mark'[u] = "gray" /\ u \in markedopen'
      BY DEF BlackDone
    <3>1. mark[o] = "black" /\ o \notin X
      BY <1>5
    <3>2. /\ o \notin WeakTables
          /\ \A v \in refs[o] : mark[v] \notin Pale
          /\ \A u \in UpVals : home[u] = o => mark[u] = "gray" /\ u \in markedopen
      BY <2>1, <3>1 DEF TriColour, BlackDone
    <3>3. \A v \in refs'[o] : v \in Obj /\ (mark'[v] \notin Pale \/ (v \in refs[o] /\ mark[v] \notin Gone))
      BY <1>1, <1>4, <3>1 DEF HeapChanged, Sound, Gone
    <3>4. ASSUME NEW u \in UpVals, home'[u] = o
          PROVE  mark'[u] = "gray" /\ u \in markedopen'
      <4>1. home[u] = o
        BY <3>4, Disjoint DEF HeapChanged
      <4>2. mark[u] = "gray" /\ u \in markedopen /\ u \in Obj /\ u \notin X
        BY <1>3, <3>2, <4>1, Disjoint
      <4>3. u \notin news
        BY <1>3, <4>2
      <4> QED  BY <1>3, <4>2, <4>3 DEF HeapChanged
    <3> QED  BY <2>2, <3>2, <3>3, <3>4
  <2>4. OpenDone(mark', home', markedopen')
    <3> SUFFICES ASSUME NEW u \in markedopen', home'[u] # Nil
                 PROVE  mark'[u] = "gray" /\ mark'[home'[u]] \notin Pale
      BY DEF OpenDone
    <3>1. u \in markedopen /\ home'[u] = home[u] /\ u \in UpVals /\ u \in Obj
      BY <1>4, Disjoint DEF HeapChanged
    <3>2. mark[u] = "gray" /\ mark[home[u]] \notin Pale
      BY <2>1, <3>1 DEF TriColour, OpenDone
    <3>3. home[u] \in Obj /\ mark[home[u]] \notin Gone
      BY <1>1, <1>4, <3>1, <3>2, Disjoint DEF Sound, Gone
    <3>4. u \notin news /\ u \notin X
      BY <1>3, <3>1, <3>2, Disjoint
    <3> QED  BY <1>3, <2>2, <3>1, <3>2, <3>3, <3>4
  <2>5. GrayIn(mark', gray', grayagain', weak')
    <3>1. {o \in Obj \ UpVals : mark'[o] = "gray"} = {o \in Obj \ UpVals : mark[o] = "gray"} \cup X
      BY <1>3, Disjoint
    <3>2. \A o \in X : o \notin gray \cup weak
      BY <1>3, <2>1 DEF TriColour, GrayIn
    <3> QED  BY <1>2, <1>3, <2>1, <3>1, <3>2 DEF TriColour, GrayIn
  <2>6. mark'[Main] \notin Pale /\ mark'[Registry] \notin Pale
    BY <1>1, <2>1, <2>2, Disjoint DEF TriColour, Sound
  <2> QED  BY <2>3, <2>4, <2>5, <2>6 DEF TriColour
<1> QED  BY <1>2, <1>6, <1>7, <1>8, <1>9, <1>10 DEF Painted
-----------------------------------------------------------------------------
(* Marking keeps what has been said of the colours. *)
LEMMA MarkingKeeps ==
  ASSUME IInv, keepinvariant, NEW S, NEW m, MarksUp(m, S)
  PROVE  /\ Freed(m, refs, home) /\ UpvalColours(m, home) /\ Sound(m, refs, home, isactive)
         /\ Swept(m, home, markedopen, gcstate, phase, full, unswept)
         /\ TriColour(m, refs, home, markedopen, gray \cup (Marked(S) \cap Listed), grayagain, weak)
         /\ phase # "idle" => UpvalsDone(m, refs)
         /\ phase = "gray" => AgainDone(m, refs, home, markedopen, grayagain)
<1>1. /\ TypeOK /\ Freed(mark, refs, home) /\ UpvalColours(mark, home)
      /\ Sound(mark, refs, home, isactive)
      /\ Swept(mark, home, markedopen, gcstate, phase, full, unswept)
      /\ TriColour(mark, refs, home, markedopen, gray, grayagain, weak)
      /\ phase # "idle" => UpvalsDone(mark, refs)
      /\ phase = "gray" => AgainDone(mark, refs, home, markedopen, grayagain)
      /\ gcstate \notin {"pause", "sweep"}
  BY DEF IInv, Painted, keepinvariant
<1>2. /\ \A o \in Obj : m[o] # mark[o] => mark[o] = "white" /\ m[o] \in {"gray", "black"}
      /\ \A u \in UpVals : m[u] # mark[u] => m[u] = (IF home[u] # Nil THEN "gray" ELSE "black")
      /\ \A o \in Obj : m[o] # mark[o] /\ m[o] = "black" => o \in UpVals \cup Strings \cup Udata
      /\ \A o \in UpVals \cup Strings \cup Udata : m[o] # mark[o] => \A v \in refs[o] : m[v] \notin Pale
      /\ Marked(S) \cap Listed = {o \in Obj \ UpVals : m[o] = "gray" /\ mark[o] # "gray"}
  BY <1>1 DEF MarksUp, Swept, Pale
<1>3. /\ \A o \in Obj : refs[o] \subseteq Obj
      /\ \A u \in UpVals : home[u] \in Threads \cup {Nil}
      /\ markedopen \subseteq UpVals /\ isactive \subseteq Threads
      /\ grayagain \subseteq Obj
  BY <1>1, Disjoint DEF TypeOK
<1>4. \A o \in Obj : /\ mark[o] \notin Pale => m[o] = mark[o]
                     /\ m[o] \in Gone <=> mark[o] \in Gone
                     /\ m[o] = "free" <=> mark[o] = "free"
                     /\ m[o] = "dead" <=> mark[o] = "dead"
  BY <1>2 DEF Pale, Gone
<1>5. Freed(m, refs, home)
  BY <1>1, <1>4, Disjoint DEF Freed
<1>6. UpvalColours(m, home)
  BY <1>1, <1>2, Disjoint DEF UpvalColours
<1>7. Sound(m, refs, home, isactive)
  BY <1>1, <1>3, <1>4, Disjoint DEF Sound
<1>8. Swept(m, home, markedopen, gcstate, phase, full, unswept)
  BY <1>1, <1>4 DEF Swept
<1>9. BlackDone(m, refs, home, markedopen)
  <2> SUFFICES ASSUME NEW o \in Obj, m[o] = "black"
               PROVE  /\ o \notin WeakTables
                      /\ \A v \in refs[o] : m[v] \notin Pale
                      /\ \A u \in UpVals : home[u] = o => m[u] = "gray" /\ u \in markedopen
    BY DEF BlackDone
  <2>1. CASE mark[o] = "black"
    BY <1>1, <1>3, <1>4, <2>1, Disjoint DEF TriColour, BlackDone, Pale
  <2>2. CASE mark[o] # "black"
    <3>1. o \in UpVals \cup Strings \cup Udata /\ m[o] # mark[o]
      BY <1>2, <2>2
    <3>2. o \notin WeakTables /\ o \notin Threads /\ o # Nil
      BY <3>1, Disjoint DEF Listed
    <3> QED  BY <1>2, <1>3, <3>1, <3>2
  <2> QED  BY <2>1, <2>2
<1>10. OpenDone(m, home, markedopen)
  BY <1>1, <1>3, <1>4, Disjoint DEF TriColour, OpenDone, Pale
<1>11. GrayIn(m, gray \cup (Marked(S) \cap Listed), grayagain, weak)
  <2>1. {o \in Obj \ UpVals : m[o] = "gray"}
        = {o \in Obj \ UpVals : mark[o] = "gray"} \cup (Marked(S) \cap Listed)
    BY <1>2, <1>4
  <2>2. GrayIn(mark, gray, grayagain, weak)
    BY <1>1 DEF TriColour
  <2>3. \A o \in Marked(S) \cap Listed : o \notin {p \in Obj \ UpVals : mark[p] = "gray"}
    BY <1>2
  <2> QED  BY <2>1, <2>2, <2>3 DEF GrayIn
<1>12. m[Main] \notin Pale /\ m[Registry] \notin Pale
  BY <1>1, <1>4, Disjoint DEF TriColour
<1>13. ASSUME phase # "idle"
       PROVE  UpvalsDone(m, refs)
  <2> SUFFICES ASSUME NEW u \in UpVals, m[u] = "gray", NEW v \in refs[u]
               PROVE  m[v] \notin Pale
    BY DEF UpvalsDone
  <2>1. v \in Obj /\ u \in Obj
    BY <1>3, Disjoint
  <2>2. CASE mark[u] = "gray"
    BY <1>1, <1>4, <1>13, <2>1, <2>2 DEF UpvalsDone
  <2>3. CASE mark[u] # "gray"
    BY <1>2, <2>3
  <2> QED  BY <2>2, <2>3
<1>14. ASSUME phase = "gray"
       PROVE  AgainDone(m, refs, home, markedopen, grayagain)
  BY <1>1, <1>3, <1>4, <1>14, Disjoint DEF AgainDone
<1> QED  BY <1>5, <1>6, <1>7, <1>8, <1>9, <1>10, <1>11, <1>12, <1>13, <1>14 DEF TriColour

(* The program refers to something from t, which is there, and marks it. *)
LEMMA ForwardKeeps ==
  ASSUME IInv, TypeOK', Mutator, keepinvariant, NEW S, S \subseteq Obj, MarkObjects(S),
         UNCHANGED <<home, markedopen, threads, grayagain>>,
         NEW t \in Obj, mark[t] \notin Gone, NEW R, R \subseteq refs[t] \cup S,
         refs' = [refs EXCEPT ![t] = R], \A v \in S : mark[v] \notin Gone
  PROVE  Painted'
<1> DEFINE m == MarkOf(S)
<1>1. MarksUp(m, S) /\ mark' = m
  BY MarkOfFacts DEF IInv, MarkObjects
<1> HIDE DEF m
<1>2. /\ Freed(m, refs, home) /\ UpvalColours(m, home) /\ Sound(m, refs, home, isactive)
      /\ Swept(m, home, markedopen, gcstate, phase, full, unswept)
      /\ TriColour(m, refs, home, markedopen, gray \cup (Marked(S) \cap Listed), grayagain, weak)
  BY <1>1, MarkingKeeps
<1>3. /\ gcstate' = gcstate /\ phase' = "idle" /\ full' = full /\ unswept' = unswept /\ weak' = weak
      /\ home' = home /\ markedopen' = markedopen /\ isactive' = isactive /\ grayagain' = grayagain
      /\ gray' = gray \cup (Marked(S) \cap Listed) /\ phase = "idle"
  BY DEF Mutator, cycle, threads, MarkObjects
<1>4. /\ \A o \in Obj : \A v \in refs'[o] : v \in refs[o] \/ (o = t /\ v \in S)
      /\ \A o \in Obj : o # t => refs'[o] = refs[o]
  BY DEF IInv, TypeOK
<1>5. /\ \A v \in S : m[v] \notin Pale /\ m[v] \notin Gone
      /\ m[t] \notin Gone
  BY <1>1 DEF MarksUp, Gone
<1>6. Freed(m, refs', home)
  BY <1>2, <1>4, <1>5 DEF Freed, Gone
<1>7. Sound(m, refs', home, isactive)
  BY <1>2, <1>4, <1>5 DEF Sound
<1>8. BlackDone(m, refs', home, markedopen)
  BY <1>2, <1>4, <1>5 DEF TriColour, BlackDone
<1>9. TriColour(m, refs', home, markedopen, gray', grayagain, weak)
  BY <1>2, <1>3, <1>8 DEF TriColour
<1> QED  BY <1>1, <1>2, <1>3, <1>6, <1>7, <1>9 DEF Painted
-----------------------------------------------------------------------------
(* What the program has in hand is there, and is not an upvalue. *)
LEMMA HandFacts ==
  ASSUME IInv, gcstate # "closed"
  PROVE  /\ running \in Threads /\ mark[running] \notin Gone
         /\ \A th \in Handles : /\ th \in Threads /\ mark[th] \notin Gone
                                /\ th = running \/ th \notin isactive
         /\ \A v \in InHand : v \in Obj \ UpVals /\ mark[v] \notin Gone
         /\ \A v \in Readable : v \in Obj \ UpVals /\ mark[v] \notin Gone
         /\ \A u \in Upvalues : u \in UpVals /\ mark[u] \notin Gone
         /\ \A t \in TablesInHand : t \in AllTables /\ mark[t] \notin Gone
<1>1. /\ TypeOK /\ Sound(mark, refs, home, isactive) /\ Freed(mark, refs, home) /\ Kinds(refs)
  BY DEF IInv, Painted
<1>2. /\ running \in isactive /\ isactive \subseteq Threads
      /\ \A o \in Obj : refs[o] \subseteq Obj
      /\ \A o \in Obj \ Closures : \A v \in refs[o] : v \notin UpVals
  BY <1>1 DEF TypeOK, Kinds
<1>3. running \in Threads /\ mark[running] \notin Gone /\ running \in Obj /\ running \notin Closures
  BY <1>1, <1>2, Disjoint DEF Sound
<1>4. \A o \in Obj : mark[o] \notin Gone => \A v \in refs[o] : v \in Obj /\ mark[v] \notin Gone
  BY <1>1, <1>2 DEF Sound
<1>5. \A th : \A u \in Open(th) : u \in UpVals /\ u \in Obj /\ home[u] = th
  BY Disjoint DEF Open
<1>6. \A u \in UpVals : home[u] # Nil => mark[u] \notin Gone
  BY <1>1 DEF Freed
<1>7. \A th \in Threads : \A v \in ValuesOf(Open(th)) : v \in Obj \ UpVals /\ mark[v] \notin Gone
  <2> SUFFICES ASSUME NEW th \in Threads, NEW u \in Open(th), NEW v \in refs[u]
               PROVE  v \in Obj \ UpVals /\ mark[v] \notin Gone
    BY ValuesIn
  <2>1. u \in UpVals /\ u \in Obj /\ home[u] # Nil /\ u \notin Closures
    BY <1>5, Disjoint DEF Listed
  <2> QED  BY <1>2, <1>4, <1>6, <2>1
<1>8. \A v \in InHand : v \in Obj \ UpVals /\ mark[v] \notin Gone
  BY <1>2, <1>3, <1>4, <1>7 DEF InHand
<1>9. \A o \in Obj : mark[o] \notin Gone => \A v \in Contents(o) : v \in Obj \ UpVals /\ mark[v] \notin Gone
  <2> SUFFICES ASSUME NEW o \in Obj, mark[o] \notin Gone, NEW v \in Contents(o)
               PROVE  v \in Obj \ UpVals /\ mark[v] \notin Gone
    OBVIOUS
  <2>1. CASE v \in refs[o] \ UpVals
    BY <1>4, <2>1
  <2>2. CASE v \in ValuesOf(refs[o] \cap UpVals)
    <3>1. PICK u \in refs[o] \cap UpVals : v \in refs[u]
      BY <2>2, ValuesIn
    <3>2. u \in Obj /\ u \notin Closures /\ mark[u] \notin Gone
      BY <1>4, <3>1, Disjoint DEF Listed
    <3> QED  BY <1>2, <1>4, <3>1, <3>2
  <2>3. CASE o \in Threads /\ v \in ValuesOf(Open(o))
    BY <1>7, <2>3
  <2> QED  BY <2>1, <2>2, <2>3 DEF Contents
<1>10. \A v \in Readable : v \in Obj \ UpVals /\ mark[v] \notin Gone
  <2>1. Registry \in Obj /\ mark[Registry] \notin Gone
    BY <1>1, Disjoint DEF Sound
  <2> QED  BY <1>8, <1>9, <2>1 DEF Readable
<1>11. \A u \in Upvalues : u \in UpVals /\ mark[u] \notin Gone
  <2>1. \A u \in Open(running) : u \in UpVals /\ mark[u] \notin Gone
    BY <1>3, <1>5, <1>6, Disjoint
  <2>2. ASSUME NEW u \in UpVals, u \in ValuesOf(InHand \cap Closures)
        PROVE  mark[u] \notin Gone
    <3>1. PICK c \in InHand : u \in refs[c]
      BY <2>2, ValuesIn
    <3> QED  BY <1>4, <1>8, <3>1
  <2> QED  BY <2>1, <2>2 DEF Upvalues
<1>12. \A t \in TablesInHand : t \in AllTables /\ mark[t] \notin Gone
  BY <1>1, <1>8, Disjoint DEF TablesInHand, Sound
<1>13. \A th \in Handles : /\ th \in Threads /\ mark[th] \notin Gone
                           /\ th = running \/ th \notin isactive
  BY <1>3, <1>4 DEF Handles
<1> QED  BY <1>3, <1>8, <1>10, <1>11, <1>12, <1>13

LEMMA ChainKept ==
  ASSUME Chain(refs, isactive, running, resumer), UNCHANGED threads,
         \A o \in isactive \ {running} : refs[o] \subseteq refs'[o]
  PROVE  Chain(refs', isactive', running', resumer')
  BY DEF Chain, threads

(* A step of the program in which nothing is marked. *)
LEMMA RecolourStep ==
  ASSUME IInv, Mutator, gray' = gray, NEW X, NEW news, Recoloured(X, news), HeapChanged(news),
         refs' \in [Obj -> SUBSET Obj], home' \in [UpVals -> Threads \cup {Nil}],
         isactive' \subseteq Threads, running' \in isactive', resumer' \in [Threads -> Threads \cup {Nil}],
         held' = held \cup (news \cap Udata), Kinds(refs'), Chain(refs', isactive', running', resumer')
  PROVE  IInv'
<1>1. /\ mark' = [o \in Obj |-> IF o \in news THEN "white" ELSE IF o \in X THEN "gray" ELSE mark[o]]
      /\ grayagain' = grayagain \cup X /\ X \subseteq Listed
      /\ news \subseteq Obj /\ \A o \in news : mark[o] = "free" \/ (mark[o] = "dead" /\ o \in Strings)
      /\ \A o \in X : mark[o] = "black"
  BY DEF Recoloured
<1>2. TypeOK'
  <2>1. TypeOK /\ UNCHANGED <<cycle, weak>> /\ markedopen' \subseteq UpVals
    BY DEF IInv, TypeOK, Mutator, HeapChanged
  <2>2. held' \subseteq Udata /\ grayagain' \subseteq Listed
    BY <1>1, <2>1 DEF TypeOK
  <2>3. mark' \in [Obj -> {"white", "gray", "black", "dead", "free"}]
    BY <1>1, <2>1 DEF TypeOK
  <2> QED  BY <2>1, <2>2, <2>3 DEF TypeOK, cycle
<1>3. HeldWithUdata'
  <2>1. held = {u \in Udata : mark[u] # "free"}
    BY DEF IInv, HeldWithUdata
  <2>2. \A u \in Udata : mark'[u] # "free" <=> mark[u] # "free" \/ u \in news
    BY <1>1, Disjoint
  <2> QED  BY <2>1, <2>2 DEF HeldWithUdata
<1>4. Painted'
  BY <1>2, RecolourKeeps
<1> QED  BY <1>2, <1>3, <1>4 DEF IInv
-----------------------------------------------------------------------------
(* The barriers as changes of colours. *)
Blackened(o) == {x \in {o} : mark[x] = "black"}

LEMMA PushedRecolours ==
  ASSUME IInv, NEW th \in Threads, NEW news, news \subseteq Obj, th \notin news,
         \A o \in news : mark[o] = "free" \/ (mark[o] = "dead" /\ o \in Strings),
         Pushed(th, news)
  PROVE  /\ Recoloured(Blackened(th), news)
         /\ mark'[th] # "black" /\ \A o \in news : mark'[o] = "white"
         /\ \A o \in Obj : mark[o] \notin Gone => mark'[o] \notin Gone
<1>1. /\ mark' = [x \in Obj |-> IF x \in news THEN "white"
                                ELSE IF x = th /\ mark[th] = "black" THEN "gray" ELSE mark[x]]
      /\ grayagain' = IF mark[th] = "black" THEN grayagain \cup {th} ELSE grayagain
  BY DEF Pushed
<1>2. th \in Listed /\ th \in Obj
  BY Disjoint DEF Listed
<1>3. mark' = [o \in Obj |-> IF o \in news THEN "white" ELSE IF o \in Blackened(th) THEN "gray" ELSE mark[o]]
  BY <1>1 DEF Blackened
<1> QED  BY <1>1, <1>2, <1>3 DEF Recoloured, Blackened, Gone

LEMMA BarrierRecolours ==
  ASSUME IInv, NEW th \in Threads, ThreadBarrier(th)
  PROVE  /\ Recoloured(Blackened(th), {})
         /\ mark'[th] # "black"
         /\ \A o \in Obj : mark[o] \notin Gone => mark'[o] \notin Gone
<1>1. mark \in [Obj -> Colours] /\ th \in Listed /\ th \in Obj
  BY Disjoint DEF IInv, TypeOK, Colours, Listed
<1>2. mark' = [x \in Obj |-> IF x = th /\ mark[th] = "black" THEN "gray" ELSE mark[x]]
  BY <1>1 DEF ThreadBarrier, BackBarrier
<1>3. grayagain' = IF mark[th] = "black" THEN grayagain \cup {th} ELSE grayagain
  BY DEF ThreadBarrier, BackBarrier
<1>4. Pushed(th, {})
  BY <1>2, <1>3 DEF Pushed
<1> QED  BY <1>4, PushedRecolours

LEMMA NothingRecoloured ==
  ASSUME IInv, UNCHANGED <<mark, grayagain>>
  PROVE  Recoloured({}, {}) /\ \A o \in Obj : mark[o] \notin Gone => mark'[o] \notin Gone
  BY DEF IInv, TypeOK, Recoloured

(* What stays when the program changes the references of one object. *)
LEMMA OneChanged ==
  ASSUME IInv, gcstate # "closed", NEW t \in Obj, NEW R \in SUBSET Obj, refs' = [refs EXCEPT ![t] = R],
         UNCHANGED <<home, threads>>,
         \A o \in Obj : mark[o] \notin Gone => mark'[o] \notin Gone,
         t \notin Closures => R \cap UpVals = {},
         t \in Udata => R \subseteq AllTables,
         t \notin Strings,
         t \in isactive \ {running} => refs[t] \subseteq R
  PROVE  /\ refs' \in [Obj -> SUBSET Obj] /\ home' \in [UpVals -> Threads \cup {Nil}]
         /\ Kinds(refs') /\ Chain(refs', isactive', running', resumer')
         /\ isactive' \subseteq Threads /\ running' \in isactive' /\ resumer' \in [Threads -> Threads \cup {Nil}]
         /\ \A o \in Obj : refs'[o] = IF o = t THEN R ELSE refs[o]
         /\ \A o \in isactive' : mark'[o] \notin Gone
<1>1. TypeOK /\ Kinds(refs) /\ Chain(refs, isactive, running, resumer) /\ Sound(mark, refs, home, isactive)
  BY DEF IInv, Painted
<1>2. \A o \in Obj : refs'[o] = IF o = t THEN R ELSE refs[o]
  BY <1>1 DEF TypeOK
<1>3. refs' \in [Obj -> SUBSET Obj] /\ home' \in [UpVals -> Threads \cup {Nil}]
  BY <1>1 DEF TypeOK
<1>4. Kinds(refs')
  BY <1>1, <1>2, Disjoint DEF Kinds
<1>5. isactive' = isactive /\ running' = running /\ resumer' = resumer
  BY DEF threads
<1>6. Chain(refs', isactive', running', resumer')
  <2>1. \A o \in isactive \ {running} : refs[o] \subseteq refs'[o]
    BY <1>1, <1>2, Disjoint DEF TypeOK
  <2> QED  BY <1>1, <2>1, ChainKept
<1>7. \A o \in isactive' : mark'[o] \notin Gone
  BY <1>1, <1>5, Disjoint DEF Sound, TypeOK
<1> QED  BY <1>1, <1>2, <1>3, <1>4, <1>5, <1>6, <1>7 DEF TypeOK
-----------------------------------------------------------------------------
(* The steps of the program. *)
LEMMA HandleFacts ==
  ASSUME IInv, Mutator, NEW th \in Handles
  PROVE  /\ gcstate # "closed" /\ th \in Threads /\ th \in Obj /\ mark[th] \notin Gone
         /\ th \notin Closures \cup Udata \cup Strings \cup UpVals
         /\ refs[th] \in SUBSET Obj /\ refs[th] \cap UpVals = {}
         /\ th \notin isactive \ {running}
<1>1. gcstate # "closed" /\ TypeOK /\ Kinds(refs)
  BY DEF IInv, Mutator
<1>2. th \in Threads /\ mark[th] \notin Gone /\ th \notin isactive \ {running}
  BY <1>1, HandFacts
<1>3. th \in Obj /\ th \notin Closures \cup Udata \cup Strings \cup UpVals
  BY <1>2, Disjoint DEF Listed
<1> QED  BY <1>1, <1>2, <1>3 DEF TypeOK, Kinds

LEMMA PushStep ==
  ASSUME IInv, NEW th \in Handles, NEW v \in Readable, Push(th, v)
  PROVE  IInv'
<1>1. /\ Mutator /\ gcstate # "closed" /\ refs' = [refs EXCEPT ![th] = refs[th] \cup {v}]
      /\ ThreadBarrier(th) /\ UNCHANGED <<home, held, markedopen, threads, gray>>
  BY DEF Push, Mutator
<1>2. /\ th \in Threads /\ th \in Obj /\ th \notin Closures \cup Udata \cup Strings
      /\ refs[th] \in SUBSET Obj /\ refs[th] \cap UpVals = {} /\ th \notin isactive \ {running}
      /\ v \in Obj \ UpVals /\ mark[v] \notin Gone /\ mark[th] \notin Gone
  BY <1>1, HandleFacts, HandFacts
<1>3. /\ Recoloured(Blackened(th), {}) /\ mark'[th] # "black"
      /\ \A o \in Obj : mark[o] \notin Gone => mark'[o] \notin Gone
  BY <1>1, <1>2, BarrierRecolours
<1>4. refs[th] \cup {v} \in SUBSET Obj /\ (refs[th] \cup {v}) \cap UpVals = {}
  BY <1>2
<1>5. /\ refs' \in [Obj -> SUBSET Obj] /\ home' \in [UpVals -> Threads \cup {Nil}]
      /\ Kinds(refs') /\ Chain(refs', isactive', running', resumer')
      /\ isactive' \subseteq Threads /\ running' \in isactive' /\ resumer' \in [Threads -> Threads \cup {Nil}]
      /\ \A o \in Obj : refs'[o] = IF o = th THEN refs[th] \cup {v} ELSE refs[o]
      /\ \A o \in isactive' : mark'[o] \notin Gone
  BY <1>1, <1>2, <1>3, <1>4, OneChanged
<1>6. HeapChanged({})
  BY <1>1, <1>2, <1>3, <1>5 DEF HeapChanged, Gone
<1> QED  BY <1>1, <1>3, <1>5, <1>6, RecolourStep

LEMMA PopStep ==
  ASSUME IInv, NEW th \in Handles, NEW v \in refs[th], Pop(th, v)
  PROVE  IInv'
<1>1. /\ Mutator /\ gcstate # "closed" /\ refs' = [refs EXCEPT ![th] = refs[th] \ {v}]
      /\ UNCHANGED <<mark, home, held, markedopen, threads, gray, grayagain>>
  BY DEF Pop, Mutator
<1>2. /\ th \in Threads /\ th \in Obj /\ th \notin Closures \cup Udata \cup Strings
      /\ refs[th] \in SUBSET Obj /\ refs[th] \cap UpVals = {} /\ th \notin isactive \ {running}
      /\ mark[th] \notin Gone
  BY <1>1, HandleFacts
<1>3. Recoloured({}, {}) /\ \A o \in Obj : mark[o] \notin Gone => mark'[o] \notin Gone
  BY <1>1, NothingRecoloured
<1>4. refs[th] \ {v} \in SUBSET Obj /\ (refs[th] \ {v}) \cap UpVals = {}
  BY <1>2
<1>5. /\ refs' \in [Obj -> SUBSET Obj] /\ home' \in [UpVals -> Threads \cup {Nil}]
      /\ Kinds(refs') /\ Chain(refs', isactive', running', resumer')
      /\ isactive' \subseteq Threads /\ running' \in isactive' /\ resumer' \in [Threads -> Threads \cup {Nil}]
      /\ \A o \in Obj : refs'[o] = IF o = th THEN refs[th] \ {v} ELSE refs[o]
      /\ \A o \in isactive' : mark'[o] \notin Gone
  BY <1>1, <1>2, <1>3, <1>4, OneChanged
<1>6. HeapChanged({})
  BY <1>1, <1>2, <1>3, <1>5 DEF HeapChanged, Gone
<1> QED  BY <1>1, <1>3, <1>5, <1>6, RecolourStep

LEMMA NewObjectStep ==
  ASSUME IInv, NEW th \in Handles, NEW o \in Obj, NewObject(th, o)
  PROVE  IInv'
<1>1. /\ Mutator /\ gcstate # "closed" /\ refs' = [refs EXCEPT ![th] = refs[th] \cup {o}]
      /\ o \in Tables \cup WeakTables \cup Coroutines /\ mark[o] = "free" /\ Pushed(th, {o})
      /\ UNCHANGED <<home, held, markedopen, threads, gray>>
  BY DEF NewObject, Created, Mutator
<1>2. /\ th \in Threads /\ th \in Obj /\ th \notin Closures \cup Udata \cup Strings
      /\ refs[th] \in SUBSET Obj /\ refs[th] \cap UpVals = {} /\ th \notin isactive \ {running}
      /\ mark[th] \notin Gone /\ th # o
  BY <1>1, HandleFacts DEF Gone
<1>3. /\ Recoloured(Blackened(th), {o}) /\ mark'[th] # "black" /\ mark'[o] = "white"
      /\ \A p \in Obj : mark[p] \notin Gone => mark'[p] \notin Gone
  BY <1>1, <1>2, PushedRecolours
<1>4. o \notin UpVals \cup Udata
  BY <1>1, Disjoint DEF Listed, Threads, AllTables
<1>5. refs[th] \cup {o} \in SUBSET Obj /\ (refs[th] \cup {o}) \cap UpVals = {}
  BY <1>2, <1>4
<1>6. /\ refs' \in [Obj -> SUBSET Obj] /\ home' \in [UpVals -> Threads \cup {Nil}]
      /\ Kinds(refs') /\ Chain(refs', isactive', running', resumer')
      /\ isactive' \subseteq Threads /\ running' \in isactive' /\ resumer' \in [Threads -> Threads \cup {Nil}]
      /\ \A p \in Obj : refs'[p] = IF p = th THEN refs[th] \cup {o} ELSE refs[p]
      /\ \A p \in isactive' : mark'[p] \notin Gone
  BY <1>1, <1>2, <1>3, <1>5, OneChanged
<1>7. HeapChanged({o})
  BY <1>1, <1>2, <1>3, <1>4, <1>6 DEF HeapChanged, Gone
<1>8. held' = held \cup ({o} \cap Udata)
  BY <1>1, <1>4
<1> QED  BY <1>1, <1>3, <1>6, <1>7, <1>8, RecolourStep

LEMMA NewUserDataStep ==
  ASSUME IInv, NEW th \in Handles, NEW u \in Udata, NewUserData(th, u)
  PROVE  IInv'
<1>1. /\ Mutator /\ gcstate # "closed" /\ refs' = [refs EXCEPT ![th] = refs[th] \cup {u}]
      /\ mark[u] = "free" /\ Pushed(th, {u}) /\ held' = held \cup {u}
      /\ UNCHANGED <<home, markedopen, threads, gray>>
  BY DEF NewUserData, Created, Mutator
<1>2. /\ th \in Threads /\ th \in Obj /\ th \notin Closures \cup Udata \cup Strings
      /\ refs[th] \in SUBSET Obj /\ refs[th] \cap UpVals = {} /\ th \notin isactive \ {running}
      /\ mark[th] \notin Gone /\ th # u /\ u \in Obj \ UpVals
  BY <1>1, HandleFacts, Disjoint DEF Gone
<1>3. /\ Recoloured(Blackened(th), {u}) /\ mark'[th] # "black" /\ mark'[u] = "white"
      /\ \A p \in Obj : mark[p] \notin Gone => mark'[p] \notin Gone
  BY <1>1, <1>2, PushedRecolours
<1>4. refs[th] \cup {u} \in SUBSET Obj /\ (refs[th] \cup {u}) \cap UpVals = {}
  BY <1>2
<1>5. /\ refs' \in [Obj -> SUBSET Obj] /\ home' \in [UpVals -> Threads \cup {Nil}]
      /\ Kinds(refs') /\ Chain(refs', isactive', running', resumer')
      /\ isactive' \subseteq Threads /\ running' \in isactive' /\ resumer' \in [Threads -> Threads \cup {Nil}]
      /\ \A p \in Obj : refs'[p] = IF p = th THEN refs[th] \cup {u} ELSE refs[p]
      /\ \A p \in isactive' : mark'[p] \notin Gone
  BY <1>1, <1>2, <1>3, <1>4, OneChanged
<1>6. HeapChanged({u})
  BY <1>1, <1>2, <1>3, <1>5 DEF HeapChanged, Gone
<1>7. held' = held \cup ({u} \cap Udata)
  BY <1>1
<1> QED  BY <1>1, <1>3, <1>5, <1>6, <1>7, RecolourStep

LEMMA PushStringStep ==
  ASSUME IInv, NEW th \in Handles, NEW s \in Strings, PushString(th, s)
  PROVE  IInv'
<1>1. /\ Mutator /\ gcstate # "closed" /\ refs' = [refs EXCEPT ![th] = refs[th] \cup {s}]
      /\ UNCHANGED <<home, held, markedopen, threads, gray>>
  BY DEF PushString, Mutator
<1>2. /\ th \in Threads /\ th \in Obj /\ th \notin Closures \cup Udata \cup Strings
      /\ refs[th] \in SUBSET Obj /\ refs[th] \cap UpVals = {} /\ th \notin isactive \ {running}
      /\ mark[th] \notin Gone /\ th # s /\ s \in Obj \ UpVals /\ s \notin Udata
  BY <1>1, HandleFacts, Disjoint DEF Gone
<1>3. PICK news \in SUBSET {s} :
        /\ Recoloured(Blackened(th), news) /\ mark'[th] # "black" /\ mark'[s] \notin Gone
        /\ \A p \in Obj : mark[p] \notin Gone => mark'[p] \notin Gone
  <2>1. CASE Pushed(th, {s}) /\ mark[s] \in Gone
    <3>1. /\ {s} \subseteq Obj /\ th \notin {s}
          /\ \A o \in {s} : mark[o] = "free" \/ (mark[o] = "dead" /\ o \in Strings)
      BY <1>2, <2>1 DEF Gone
    <3>2. /\ Recoloured(Blackened(th), {s}) /\ mark'[th] # "black" /\ mark'[s] = "white"
          /\ \A p \in Obj : mark[p] \notin Gone => mark'[p] \notin Gone
      BY <1>2, <2>1, <3>1, PushedRecolours
    <3> QED  BY <3>2 DEF Gone
  <2>2. CASE ThreadBarrier(th) /\ mark[s] \notin Gone
    BY <1>2, <2>2, BarrierRecolours
  <2> QED  BY <2>1, <2>2 DEF PushString, Created, Gone
<1>4. refs[th] \cup {s} \in SUBSET Obj /\ (refs[th] \cup {s}) \cap UpVals = {}
  BY <1>2
<1>5. /\ refs' \in [Obj -> SUBSET Obj] /\ home' \in [UpVals -> Threads \cup {Nil}]
      /\ Kinds(refs') /\ Chain(refs', isactive', running', resumer')
      /\ isactive' \subseteq Threads /\ running' \in isactive' /\ resumer' \in [Threads -> Threads \cup {Nil}]
      /\ \A p \in Obj : refs'[p] = IF p = th THEN refs[th] \cup {s} ELSE refs[p]
      /\ \A p \in isactive' : mark'[p] \notin Gone
  BY <1>1, <1>2, <1>3, <1>4, OneChanged
<1>6. HeapChanged(news)
  BY <1>1, <1>2, <1>3, <1>5 DEF HeapChanged, Gone
<1>7. held' = held \cup (news \cap Udata)
  BY <1>1, <1>2, <1>3
<1> QED  BY <1>1, <1>3, <1>5, <1>6, <1>7, RecolourStep

LEMMA NewClosureStep ==
  ASSUME IInv, NEW th \in Handles, NEW c \in Closures, NEW cap \in SUBSET Obj,
         \A v \in cap : mark[v] \notin Gone, NewClosure(th, c, cap)
  PROVE  IInv'
<1>1. /\ Mutator /\ gcstate # "closed" /\ refs' = [refs EXCEPT ![c] = cap, ![th] = @ \cup {c}]
      /\ mark[c] = "free" /\ Pushed(th, {c})
      /\ UNCHANGED <<home, held, markedopen, threads, gray>>
  BY DEF NewClosure, Created, Mutator
<1>2. /\ th \in Threads /\ th \in Obj /\ th \notin Closures \cup Udata \cup Strings
      /\ refs[th] \in SUBSET Obj /\ refs[th] \cap UpVals = {} /\ th \notin isactive \ {running}
      /\ mark[th] \notin Gone /\ th # c /\ c \in Obj /\ c \notin UpVals \cup Udata \cup Strings \cup Threads
  BY <1>1, HandleFacts, Disjoint DEF Gone, Listed
<1>3. /\ Recoloured(Blackened(th), {c}) /\ mark'[th] # "black" /\ mark'[c] = "white"
      /\ \A p \in Obj : mark[p] \notin Gone => mark'[p] \notin Gone
  BY <1>1, <1>2, PushedRecolours
<1>4. /\ TypeOK /\ Kinds(refs) /\ Chain(refs, isactive, running, resumer) /\ Sound(mark, refs, home, isactive)
      /\ isactive' = isactive /\ running' = running /\ resumer' = resumer
  BY <1>1 DEF IInv, Painted, threads
<1>5. \A p \in Obj : refs'[p] = IF p = th THEN refs[th] \cup {c} ELSE IF p = c THEN cap ELSE refs[p]
  BY <1>1, <1>2, <1>4 DEF TypeOK
<1>6. refs' \in [Obj -> SUBSET Obj]
  BY <1>1, <1>2, <1>4 DEF TypeOK
<1>7. Kinds(refs')
  BY <1>2, <1>4, <1>5, Disjoint DEF Kinds
<1>8. Chain(refs', isactive', running', resumer')
  <2>1. \A o \in isactive \ {running} : refs[o] \subseteq refs'[o]
    BY <1>2, <1>4, <1>5, Disjoint DEF TypeOK
  <2> QED  BY <1>1, <1>4, <2>1, ChainKept
<1>9. \A p \in isactive' : mark'[p] \notin Gone
  BY <1>3, <1>4, Disjoint DEF Sound, TypeOK
<1>10. HeapChanged({c})
  <2>1. /\ mark'[c] \notin Gone /\ mark'[c] # "black" /\ mark'[th] # "black" /\ mark'[th] # "free"
        /\ \A v \in cap : mark'[v] \notin Gone
    BY <1>2, <1>3 DEF Gone
  <2>2. ASSUME NEW o \in Obj, NEW v \in refs'[o]
        PROVE  v \in refs[o] \/ (mark'[v] \notin Gone /\ mark'[o] # "black")
    BY <1>5, <2>1, <2>2
  <2>3. \A o \in Obj : mark'[o] = "free" => refs'[o] = refs[o]
    BY <1>5, <2>1 DEF Gone
  <2> QED  BY <1>1, <1>2, <1>9, <2>2, <2>3 DEF HeapChanged
<1>11. held' = held \cup ({c} \cap Udata)
  BY <1>1, <1>2
<1> QED  BY <1>1, <1>3, <1>4, <1>6, <1>7, <1>8, <1>10, <1>11, RecolourStep DEF TypeOK

LEMMA CaptureLocalStep ==
  ASSUME IInv, NEW c \in Closures, NEW u \in UpVals, NEW val \in SUBSET (Obj \ UpVals),
         \A v \in val : mark[v] \notin Gone, CaptureLocal(c, u, val)
  PROVE  IInv'
<1>1. /\ Mutator /\ gcstate # "closed"
      /\ refs' = [refs EXCEPT ![c] = {u}, ![u] = val, ![running] = @ \cup {c}]
      /\ mark[c] = "free" /\ mark[u] = "free" /\ Pushed(running, {c, u})
      /\ home' = [home EXCEPT ![u] = running] /\ markedopen' = markedopen \ {u}
      /\ UNCHANGED <<held, threads, gray>>
  BY DEF CaptureLocal, Mutator
<1>2. running \in Handles
  BY DEF Handles
<1>3. /\ running \in Threads /\ running \in Obj /\ running \notin Closures \cup Udata \cup Strings \cup UpVals
      /\ refs[running] \in SUBSET Obj /\ refs[running] \cap UpVals = {}
      /\ mark[running] \notin Gone /\ running # c /\ running # u
      /\ c \in Obj /\ c \notin UpVals \cup Udata \cup Strings \cup Threads
      /\ u \in Obj /\ u \notin Closures \cup Udata \cup Strings \cup Threads
  BY <1>1, <1>2, HandleFacts, Disjoint DEF Gone, Listed
<1>4. /\ Recoloured(Blackened(running), {c, u}) /\ mark'[running] # "black"
      /\ mark'[c] = "white" /\ mark'[u] = "white"
      /\ \A p \in Obj : mark[p] \notin Gone => mark'[p] \notin Gone
  <2>1. /\ {c, u} \subseteq Obj /\ running \notin {c, u}
        /\ \A o \in {c, u} : mark[o] = "free" \/ (mark[o] = "dead" /\ o \in Strings)
    BY <1>1, <1>3
  <2> QED  BY <1>1, <1>3, <2>1, PushedRecolours
<1>5. /\ TypeOK /\ Kinds(refs) /\ Chain(refs, isactive, running, resumer) /\ Sound(mark, refs, home, isactive)
      /\ isactive' = isactive /\ running' = running /\ resumer' = resumer
  BY <1>1 DEF IInv, Painted, threads
<1>6. \A p \in Obj : refs'[p] = IF p = running THEN refs[running] \cup {c}
                                ELSE IF p = u THEN val ELSE IF p = c THEN {u} ELSE refs[p]
  BY <1>1, <1>3, <1>5 DEF TypeOK
<1>7. /\ refs' \in [Obj -> SUBSET Obj] /\ home' \in [UpVals -> Threads \cup {Nil}]
      /\ \A w \in UpVals : home'[w] = IF w = u THEN running ELSE home[w]
  BY <1>1, <1>3, <1>5 DEF TypeOK
<1>8. Kinds(refs')
  BY <1>3, <1>5, <1>6, Disjoint DEF Kinds
<1>9. Chain(refs', isactive', running', resumer')
  <2>1. \A o \in isactive \ {running} : refs[o] \subseteq refs'[o]
    BY <1>3, <1>5, <1>6, Disjoint DEF TypeOK
  <2> QED  BY <1>1, <1>5, <2>1, ChainKept
<1>10. \A p \in isactive' : mark'[p] \notin Gone
  BY <1>4, <1>5, Disjoint DEF Sound, TypeOK
<1>11. HeapChanged({c, u})
  <2>1. markedopen' = markedopen \ {c, u}
    BY <1>1, <1>3, <1>5 DEF TypeOK
  <2> QED  BY <1>1, <1>3, <1>4, <1>6, <1>7, <1>10, <2>1 DEF HeapChanged, Gone
<1>12. held' = held \cup ({c, u} \cap Udata)
  BY <1>1, <1>3
<1> QED  BY <1>1, <1>4, <1>5, <1>7, <1>8, <1>9, <1>11, <1>12, RecolourStep DEF TypeOK

LEMMA ForwardStep ==
  ASSUME IInv, Mutator, keepinvariant, NEW v \in Obj, mark[v] \notin Gone, MarkObjects({v}),
         UNCHANGED <<home, held, markedopen, threads, grayagain>>,
         NEW t \in Obj, mark[t] \notin Gone, NEW R \in SUBSET Obj, R \subseteq refs[t] \cup {v},
         refs' = [refs EXCEPT ![t] = R],
         t \notin Closures => R \cap UpVals = {}, t \in Udata => R \subseteq AllTables,
         t \notin Strings \cup Threads
  PROVE  IInv'
<1>1. MarksUp(mark', {v}) /\ gray' = gray \cup (Marked({v}) \cap Listed)
  BY MarkOfFacts DEF IInv, MarkObjects
<1>2. \A o \in Obj : (mark[o] \notin Gone => mark'[o] \notin Gone) /\ (mark'[o] = "free" <=> mark[o] = "free")
  BY <1>1 DEF MarksUp, Gone, Pale
<1>3. /\ refs' \in [Obj -> SUBSET Obj] /\ home' \in [UpVals -> Threads \cup {Nil}]
      /\ Kinds(refs') /\ Chain(refs', isactive', running', resumer')
      /\ isactive' \subseteq Threads /\ running' \in isactive' /\ resumer' \in [Threads -> Threads \cup {Nil}]
  <2>1. /\ gcstate # "closed" /\ UNCHANGED <<home, threads>> /\ t \notin Strings
        /\ t \in isactive \ {running} => refs[t] \subseteq R
    BY DEF Mutator, IInv, TypeOK
  <2> QED  BY <1>2, <2>1, OneChanged
<1>4. TypeOK'
  <2>1. TypeOK /\ mark' \in [Obj -> {"white", "gray", "black", "dead", "free"}]
    BY <1>1 DEF MarksUp, Colours, IInv
  <2> QED  BY <1>1, <1>3, <2>1 DEF TypeOK, Mutator, cycle
<1>5. HeldWithUdata'
  BY <1>2, Disjoint DEF HeldWithUdata, IInv
<1>6. Painted'
  <2> DEFINE S == {v}
  <2>1. /\ IInv /\ TypeOK' /\ Mutator /\ keepinvariant
        /\ S \subseteq Obj /\ MarkObjects(S) /\ UNCHANGED <<home, markedopen, threads, grayagain>>
        /\ t \in Obj /\ mark[t] \notin Gone /\ R \subseteq refs[t] \cup S
        /\ refs' = [refs EXCEPT ![t] = R] /\ \A w \in S : mark[w] \notin Gone
    BY <1>4
  <2> HIDE DEF S
  <2> QED  BY ONLY <2>1, ForwardKeeps
<1> QED  BY <1>3, <1>4, <1>5, <1>6 DEF IInv

LEMMA StoreStep ==
  ASSUME IInv, NEW t \in TablesInHand, NEW v \in InHand, Store(t, v)
  PROVE  IInv'
<1>1. /\ Mutator /\ gcstate # "closed" /\ refs' = [refs EXCEPT ![t] = refs[t] \cup {v}]
      /\ TableBarrier(t, v) /\ UNCHANGED <<home, held, markedopen, threads>>
  BY DEF Store, Mutator
<1>2. /\ t \in AllTables /\ t \in Obj /\ t \in Listed /\ mark[t] \notin Gone
      /\ t \notin Closures \cup Udata \cup Strings \cup Threads \cup UpVals
      /\ v \in Obj \ UpVals /\ mark[v] \notin Gone
  BY <1>1, HandFacts, Disjoint
<1>3. /\ TypeOK /\ Kinds(refs) /\ refs[t] \in SUBSET Obj /\ refs[t] \cap UpVals = {}
      /\ isactive \subseteq Threads
  BY <1>2 DEF IInv, TypeOK, Kinds
<1>4. /\ refs[t] \cup {v} \in SUBSET Obj /\ (refs[t] \cup {v}) \cap UpVals = {}
      /\ t \notin isactive \ {running}
  BY <1>2, <1>3
<1>5. ASSUME \A o \in Obj : mark[o] \notin Gone => mark'[o] \notin Gone
      PROVE  /\ refs' \in [Obj -> SUBSET Obj] /\ home' \in [UpVals -> Threads \cup {Nil}]
             /\ Kinds(refs') /\ Chain(refs', isactive', running', resumer')
             /\ isactive' \subseteq Threads /\ running' \in isactive'
             /\ resumer' \in [Threads -> Threads \cup {Nil}]
             /\ \A p \in Obj : refs'[p] = IF p = t THEN refs[t] \cup {v} ELSE refs[p]
             /\ \A p \in isactive' : mark'[p] \notin Gone
  <2>1. /\ t \in Obj /\ refs[t] \cup {v} \in SUBSET Obj /\ gcstate # "closed"
        /\ refs' = [refs EXCEPT ![t] = refs[t] \cup {v}] /\ UNCHANGED <<home, threads>>
        /\ t \notin Closures => (refs[t] \cup {v}) \cap UpVals = {}
        /\ t \in Udata => refs[t] \cup {v} \subseteq AllTables
        /\ t \notin Strings
        /\ t \in isactive \ {running} => refs[t] \subseteq refs[t] \cup {v}
    BY <1>1, <1>2, <1>4
  <2> QED  BY <1>5, <2>1, OneChanged
<1>6. ASSUME gray' = gray, NEW X, Recoloured(X, {}), mark'[t] = "black" => v \notin White,
             \A o \in Obj : mark[o] \notin Gone => mark'[o] \notin Gone,
             mark'[v] = mark[v] \/ mark'[v] \notin Pale
      PROVE  IInv'
  <2>1. /\ refs' \in [Obj -> SUBSET Obj] /\ home' \in [UpVals -> Threads \cup {Nil}]
        /\ Kinds(refs') /\ Chain(refs', isactive', running', resumer')
        /\ isactive' \subseteq Threads /\ running' \in isactive' /\ resumer' \in [Threads -> Threads \cup {Nil}]
        /\ \A p \in Obj : refs'[p] = IF p = t THEN refs[t] \cup {v} ELSE refs[p]
        /\ \A p \in isactive' : mark'[p] \notin Gone
    BY <1>5, <1>6
  <2>2. /\ mark'[v] \notin Gone /\ mark'[t] \notin Gone
        /\ mark'[t] = "black" => mark'[v] \notin Pale
    BY <1>2, <1>6 DEF White, Pale
  <2>3. HeapChanged({})
    BY <1>1, <2>1, <2>2 DEF HeapChanged, Gone
  <2> QED  BY <1>1, <1>6, <2>1, <2>3, RecolourStep
<1>7. CASE ~(mark[t] = "black" /\ v \in White)
  <2>1. UNCHANGED <<mark, gray, grayagain>>
    BY <1>1, <1>7 DEF TableBarrier
  <2> QED  BY <1>6, <1>7, <2>1, NothingRecoloured
<1>8. CASE mark[t] = "black" /\ v \in White /\ gcstate # "propagateagain"
  <2>1. BackBarrier(t) /\ gray' = gray
    BY <1>1, <1>8 DEF TableBarrier
  <2>2. Recoloured({t}, {}) /\ \A o \in Obj : mark'[o] = IF o = t THEN "gray" ELSE mark[o]
    BY <1>2, <1>3, <1>8, <2>1 DEF BackBarrier, Recoloured, TypeOK
  <2>3. v # t
    BY <1>8 DEF White
  <2> QED  BY <1>2, <1>6, <2>1, <2>2, <2>3 DEF Gone
<1>9. CASE mark[t] = "black" /\ v \in White /\ gcstate = "propagateagain"
  <2>1. MarkObjects({v}) /\ grayagain' = grayagain /\ keepinvariant
    BY <1>1, <1>9 DEF TableBarrier, keepinvariant
  <2> QED  BY <1>1, <1>2, <1>4, <2>1, ForwardStep
<1> QED  BY <1>7, <1>8, <1>9

LEMMA EraseStep ==
  ASSUME IInv, NEW t \in TablesInHand, NEW v \in refs[t], Erase(t, v)
  PROVE  IInv'
<1>1. /\ Mutator /\ gcstate # "closed" /\ refs' = [refs EXCEPT ![t] = refs[t] \ {v}]
      /\ UNCHANGED <<mark, home, held, markedopen, threads, gray, grayagain>>
  BY DEF Erase, Mutator
<1>2. /\ t \in AllTables /\ t \in Obj /\ mark[t] \notin Gone
      /\ t \notin Closures \cup Udata \cup Strings \cup Threads \cup UpVals
  BY <1>1, HandFacts, Disjoint
<1>3. /\ refs[t] \ {v} \in SUBSET Obj /\ (refs[t] \ {v}) \cap UpVals = {} /\ t \notin isactive \ {running}
  BY <1>2 DEF IInv, TypeOK, Kinds
<1>4. Recoloured({}, {}) /\ \A o \in Obj : mark[o] \notin Gone => mark'[o] \notin Gone
  BY <1>1, NothingRecoloured
<1>5. /\ refs' \in [Obj -> SUBSET Obj] /\ home' \in [UpVals -> Threads \cup {Nil}]
      /\ Kinds(refs') /\ Chain(refs', isactive', running', resumer')
      /\ isactive' \subseteq Threads /\ running' \in isactive' /\ resumer' \in [Threads -> Threads \cup {Nil}]
      /\ \A o \in Obj : refs'[o] = IF o = t THEN refs[t] \ {v} ELSE refs[o]
      /\ \A o \in isactive' : mark'[o] \notin Gone
  <2>1. /\ t \in Obj /\ refs[t] \ {v} \in SUBSET Obj /\ gcstate # "closed"
        /\ refs' = [refs EXCEPT ![t] = refs[t] \ {v}] /\ UNCHANGED <<home, threads>>
        /\ t \notin Closures => (refs[t] \ {v}) \cap UpVals = {}
        /\ t \in Udata => refs[t] \ {v} \subseteq AllTables
        /\ t \notin Strings
        /\ t \in isactive \ {running} => refs[t] \subseteq refs[t] \ {v}
    BY <1>1, <1>2, <1>3
  <2> QED  BY <1>4, <2>1, OneChanged
<1>6. HeapChanged({})
  BY <1>1, <1>2, <1>4, <1>5 DEF HeapChanged, Gone
<1> QED  BY <1>1, <1>4, <1>5, <1>6, RecolourStep

(* While nothing is being marked, an object of any colour may become white *)
(* before the sweep comes to it.                                           *)
LEMMA WhitenStep ==
  ASSUME IInv, Mutator, ~keepinvariant, NEW t \in Obj, mark[t] \notin Gone, mark' = [mark EXCEPT ![t] = "white"],
         UNCHANGED <<gray, grayagain, held, markedopen, threads>>,
         refs' \in [Obj -> SUBSET Obj], home' \in [UpVals -> Threads \cup {Nil}],
         Kinds(refs'), Chain(refs', isactive', running', resumer'),
         \A o \in Obj : \A w \in refs'[o] : w \in refs[o] \/ mark[w] \notin Gone,
         \A o \in Obj : o # t => refs'[o] = refs[o],
         \A u \in UpVals : home'[u] = home[u] \/ (u = t /\ home'[u] = Nil)
  PROVE  IInv'
<1>1. /\ TypeOK /\ Freed(mark, refs, home) /\ UpvalColours(mark, home)
      /\ Sound(mark, refs, home, isactive)
      /\ Swept(mark, home, markedopen, gcstate, phase, full, unswept)
      /\ held = {u \in Udata : mark[u] # "free"}
  BY DEF IInv, Painted, Mutator, HeldWithUdata
<1>2. /\ gcstate' = gcstate /\ phase' = "idle" /\ full' = full /\ unswept' = unswept /\ weak' = weak
      /\ gcstate # "closed" /\ ~keepinvariant' /\ held' = held /\ isactive' = isactive
      /\ running' = running /\ resumer' = resumer /\ gray' = gray /\ grayagain' = grayagain
      /\ markedopen' = markedopen
  BY DEF Mutator, cycle, keepinvariant, threads
<1>3. /\ \A o \in Obj : mark'[o] = IF o = t THEN "white" ELSE mark[o]
      /\ mark' \in [Obj -> {"white", "gray", "black", "dead", "free"}]
      /\ \A o \in Obj : mark'[o] \in Gone <=> mark[o] \in Gone
      /\ \A o \in Obj : mark'[o] = "free" <=> mark[o] = "free"
  BY <1>1 DEF TypeOK, Gone
<1>4. TypeOK'
  BY <1>1, <1>2, <1>3 DEF TypeOK
<1>5. HeldWithUdata'
  BY <1>1, <1>2, <1>3, Disjoint DEF HeldWithUdata
<1>6. Freed(mark', refs', home')
  BY <1>1, <1>3, Disjoint DEF Freed, Gone
<1>7. UpvalColours(mark', home')
  BY <1>1, <1>3, Disjoint DEF UpvalColours
<1>8. Sound(mark', refs', home', isactive')
  <2>1. \A o \in Obj : refs[o] \subseteq Obj /\ refs'[o] \subseteq Obj
    BY <1>1, <1>4 DEF TypeOK
  <2>2. \A u \in UpVals : home[u] \in Obj \cup {Nil} /\ u \in Obj
    BY <1>1, Disjoint DEF TypeOK
  <2>3. \A o \in {Main, Registry} \cup isactive' : mark'[o] \notin Gone
    BY <1>1, <1>2, <1>3, Disjoint DEF Sound, TypeOK
  <2>4. \A o \in Obj : mark'[o] \notin Gone => \A v \in refs'[o] : mark'[v] \notin Gone
    BY <1>1, <1>3, <2>1 DEF Sound
  <2>5. \A u \in UpVals : mark'[u] \notin Gone /\ home'[u] # Nil => mark'[home'[u]] \notin Gone
    BY <1>1, <1>3, <2>2 DEF Sound
  <2> QED  BY <2>3, <2>4, <2>5 DEF Sound
<1>9. Swept(mark', home', markedopen', gcstate', phase', full', unswept')
  <2>1. \A o \in Obj : /\ mark'[o] = "dead" => mark[o] = "dead"
                       /\ mark'[o] \in {"gray", "black"} => mark[o] \in {"gray", "black"}
                       /\ mark[o] \in {"white", "free"} => mark'[o] \in {"white", "free"}
    BY <1>3
  <2>2. \A u \in markedopen : u \in UpVals
    BY <1>1 DEF TypeOK
  <2> QED  BY <1>1, <1>2, <2>1, <2>2 DEF Swept
<1>10. Painted'
  BY <1>2, <1>6, <1>7, <1>8, <1>9 DEF Painted
<1> QED  BY <1>4, <1>5, <1>10 DEF IInv

(* A barrier that marks v, or makes t white where a sweep will do so anyway. *)
LEMMA ForwardBarrierStep ==
  ASSUME IInv, Mutator, NEW t \in Obj, NEW v \in Obj, ForwardBarrier(t, v),
         UNCHANGED <<home, held, markedopen, threads, grayagain>>,
         mark[t] \notin Gone, mark[v] \notin Gone,
         NEW R \in SUBSET Obj, R \subseteq refs[t] \cup {v}, refs' = [refs EXCEPT ![t] = R],
         t \notin Closures => R \cap UpVals = {}, t \in Udata => R \subseteq AllTables,
         t \notin Strings \cup Threads
  PROVE  IInv'
<1>1. TypeOK /\ gcstate # "closed" /\ \A o \in Obj : o \in White <=> mark[o] \in Pale
  BY DEF IInv, Mutator, White, Pale
<1>2. CASE mark[t] = "black" /\ v \in White /\ keepinvariant
  <2>1. MarkObjects({v})
    BY <1>2 DEF ForwardBarrier
  <2> QED  BY <1>2, <2>1, ForwardStep
<1>3. ASSUME \A o \in Obj : mark[o] \notin Gone => mark'[o] \notin Gone
      PROVE  /\ refs' \in [Obj -> SUBSET Obj] /\ home' \in [UpVals -> Threads \cup {Nil}]
             /\ Kinds(refs') /\ Chain(refs', isactive', running', resumer')
             /\ isactive' \subseteq Threads /\ running' \in isactive'
             /\ resumer' \in [Threads -> Threads \cup {Nil}]
             /\ \A p \in Obj : refs'[p] = IF p = t THEN R ELSE refs[p]
             /\ \A p \in isactive' : mark'[p] \notin Gone
  <2>1. /\ UNCHANGED <<home, threads>> /\ t \notin Strings
        /\ t \in isactive \ {running} => refs[t] \subseteq R
    BY <1>1 DEF TypeOK
  <2> QED  BY <1>1, <1>3, <2>1, OneChanged
<1>4. CASE ~(mark[t] = "black" /\ v \in White)
  <2>1. UNCHANGED <<mark, gray>>
    BY <1>4 DEF ForwardBarrier
  <2>2. Recoloured({}, {}) /\ \A o \in Obj : mark[o] \notin Gone => mark'[o] \notin Gone
    BY <2>1, NothingRecoloured
  <2>3. /\ refs' \in [Obj -> SUBSET Obj] /\ home' \in [UpVals -> Threads \cup {Nil}]
        /\ Kinds(refs') /\ Chain(refs', isactive', running', resumer')
        /\ isactive' \subseteq Threads /\ running' \in isactive' /\ resumer' \in [Threads -> Threads \cup {Nil}]
        /\ \A p \in Obj : refs'[p] = IF p = t THEN R ELSE refs[p]
        /\ \A p \in isactive' : mark'[p] \notin Gone
    BY <1>3, <2>2
  <2>4. HeapChanged({})
    BY <1>1, <1>4, <2>1, <2>3 DEF HeapChanged, Gone
  <2>5. held' = held \cup ({} \cap Udata)
    OBVIOUS
  <2> QED  BY <2>1, <2>2, <2>3, <2>4, <2>5, RecolourStep
<1>5. CASE mark[t] = "black" /\ v \in White /\ ~keepinvariant
  <2>1. mark' = [mark EXCEPT ![t] = "white"] /\ gray' = gray
    BY <1>5 DEF ForwardBarrier
  <2>2. \A o \in Obj : mark[o] \notin Gone => mark'[o] \notin Gone
    BY <1>1, <2>1 DEF TypeOK, Gone
  <2>3. /\ refs' \in [Obj -> SUBSET Obj] /\ home' \in [UpVals -> Threads \cup {Nil}]
        /\ Kinds(refs') /\ Chain(refs', isactive', running', resumer')
        /\ \A p \in Obj : refs'[p] = IF p = t THEN R ELSE refs[p]
    BY <1>3, <2>2
  <2>4. /\ \A o \in Obj : \A w \in refs'[o] : w \in refs[o] \/ mark[w] \notin Gone
        /\ \A o \in Obj : o # t => refs'[o] = refs[o]
    BY <2>3
  <2>5. UNCHANGED <<gray, grayagain, held, markedopen, threads>> /\ \A u \in UpVals : home'[u] = home[u]
    BY <2>1
  <2> QED  BY <1>5, <2>1, <2>3, <2>4, <2>5, WhitenStep
<1> QED  BY <1>2, <1>4, <1>5

LEMMA SetMetatableStep ==
  ASSUME IInv, NEW u \in InHand \cap Udata, NEW mt \in InHand \cap AllTables, SetMetatable(u, mt)
  PROVE  IInv'
<1>1. /\ Mutator /\ gcstate # "closed" /\ ForwardBarrier(u, mt)
      /\ UNCHANGED <<home, held, markedopen, threads, grayagain>>
      /\ refs' = [refs EXCEPT ![u] = {mt}]
  BY DEF SetMetatable, Mutator
<1>2. /\ u \in Obj /\ mark[u] \notin Gone /\ u \notin Strings \cup Threads /\ u \in Udata
      /\ mt \in Obj /\ mark[mt] \notin Gone /\ {mt} \in SUBSET Obj /\ {mt} \subseteq refs[u] \cup {mt}
      /\ {mt} \cap UpVals = {} /\ {mt} \subseteq AllTables
  BY <1>1, HandFacts, Disjoint DEF Listed
<1> QED  BY <1>1, <1>2, ForwardBarrierStep

LEMMA SetTableMetatableStep ==
  ASSUME IInv, NEW t \in TablesInHand \ WeakTables, NEW mt \in InHand \cap AllTables, SetTableMetatable(t, mt)
  PROVE  IInv'
<1> DEFINE R == refs[t] \cup {mt}
<1>1. /\ Mutator /\ gcstate # "closed" /\ ForwardBarrier(t, mt)
      /\ UNCHANGED <<home, held, markedopen, threads, grayagain>>
      /\ refs' = [refs EXCEPT ![t] = R]
  BY DEF SetTableMetatable, Mutator
<1>2. /\ t \in Obj /\ mark[t] \notin Gone /\ t \notin Strings \cup Threads \cup Udata \cup Closures
      /\ mt \in Obj /\ mark[mt] \notin Gone /\ mt \notin UpVals
  BY <1>1, HandFacts, Disjoint DEF Listed
<1>3. R \in SUBSET Obj /\ R \subseteq refs[t] \cup {mt} /\ R \cap UpVals = {}
  BY <1>2 DEF IInv, TypeOK, Kinds
<1> HIDE DEF R
<1> QED  BY <1>1, <1>2, <1>3, ForwardBarrierStep

LEMMA SetUpvalueStep ==
  ASSUME IInv, NEW u \in Upvalues, NEW val, val = {} \/ \E v \in InHand : val = {v}, SetUpvalue(u, val)
  PROVE  IInv'
<1>1. /\ Mutator /\ gcstate # "closed" /\ UNCHANGED <<home, held, markedopen, threads, grayagain>>
      /\ \/ refs' = [refs EXCEPT ![u] = {}] /\ UNCHANGED <<mark, gray>>
         \/ \E v \in InHand : refs' = [refs EXCEPT ![u] = {v}] /\ ForwardBarrier(u, v)
  BY DEF SetUpvalue, Mutator
<1>2. /\ u \in Obj /\ u \in UpVals /\ mark[u] \notin Gone /\ u \notin Strings \cup Threads \cup Closures \cup Udata
      /\ \A v \in InHand : v \in Obj \ UpVals /\ mark[v] \notin Gone
  BY <1>1, HandFacts, Disjoint DEF Listed
<1>3. ASSUME NEW v \in InHand, refs' = [refs EXCEPT ![u] = {v}], ForwardBarrier(u, v)
      PROVE  IInv'
  <2>1. {v} \in SUBSET Obj /\ {v} \subseteq refs[u] \cup {v} /\ {v} \cap UpVals = {}
    BY <1>2
  <2> QED  BY <1>1, <1>2, <1>3, <2>1, ForwardBarrierStep
<1>4. CASE refs' = [refs EXCEPT ![u] = {}] /\ UNCHANGED <<mark, gray>>
  <2>1. Recoloured({}, {}) /\ \A o \in Obj : mark[o] \notin Gone => mark'[o] \notin Gone
    BY <1>1, <1>4, NothingRecoloured
  <2>2. /\ refs' \in [Obj -> SUBSET Obj] /\ home' \in [UpVals -> Threads \cup {Nil}]
        /\ Kinds(refs') /\ Chain(refs', isactive', running', resumer')
        /\ isactive' \subseteq Threads /\ running' \in isactive' /\ resumer' \in [Threads -> Threads \cup {Nil}]
        /\ \A o \in Obj : refs'[o] = IF o = u THEN {} ELSE refs[o]
        /\ \A o \in isactive' : mark'[o] \notin Gone
    <3>1. /\ {} \in SUBSET Obj /\ ({} \cap UpVals = {}) /\ u \notin isactive \ {running} /\ UNCHANGED <<home, threads>>
      BY <1>1, <1>2 DEF IInv, TypeOK
    <3> QED  BY <1>1, <1>2, <1>4, <2>1, <3>1, OneChanged
  <2>3. HeapChanged({})
    BY <1>1, <1>2, <1>4, <2>1, <2>2 DEF HeapChanged, Gone
  <2>4. held' = held \cup ({} \cap Udata)
    BY <1>1
  <2> QED  BY <1>1, <1>4, <2>1, <2>2, <2>3, <2>4, RecolourStep
<1> QED  BY <1>1, <1>3, <1>4

LEMMA ResumeStep ==
  ASSUME IInv, NEW co \in refs[running] \cap Coroutines, Resume(co)
  PROVE  IInv'
<1>1. /\ Mutator /\ gcstate # "closed" /\ co \notin isactive /\ isactive' = isactive \cup {co}
      /\ running' = co /\ resumer' = [resumer EXCEPT ![co] = running] /\ ThreadBarrier(co)
      /\ refs' = refs /\ home' = home /\ held' = held /\ markedopen' = markedopen /\ gray' = gray
  BY DEF Resume, Mutator, heap
<1>2. /\ TypeOK /\ Kinds(refs) /\ Chain(refs, isactive, running, resumer) /\ Sound(mark, refs, home, isactive)
  BY <1>1 DEF IInv, Painted
<1>3. running \in isactive /\ running \in Threads /\ co \in Threads /\ co # Main /\ co # running
  BY <1>1, <1>2, Disjoint DEF TypeOK, Threads
<1>4. mark[co] \notin Gone
  BY <1>2, <1>3, Disjoint DEF Sound
<1>5. /\ Recoloured(Blackened(co), {}) /\ \A o \in Obj : mark[o] \notin Gone => mark'[o] \notin Gone
  BY <1>1, <1>3, BarrierRecolours
<1>6. \A c \in Threads : resumer'[c] = IF c = co THEN running ELSE resumer[c]
  BY <1>1, <1>2 DEF TypeOK
<1>7. isactive \subseteq Threads /\ isactive' \subseteq Threads
  BY <1>1, <1>2, <1>3 DEF TypeOK
<1>8. Chain(refs', isactive', running', resumer')
  <2>1. /\ Main \in isactive'
        /\ \A c \in isactive' \ {Main} : resumer'[c] \in isactive' /\ resumer'[c] # running' /\ c \in refs'[resumer'[c]]
    BY <1>1, <1>2, <1>3, <1>6, <1>7 DEF Chain
  <2>2. \A c, d \in isactive' \ {Main} : resumer'[c] = resumer'[d] => c = d
    BY <1>1, <1>2, <1>3, <1>6, <1>7 DEF Chain
  <2>3. ASSUME NEW X \in SUBSET (isactive' \ {Main}), X # {}
        PROVE  \E c \in X : resumer'[c] \notin X
    <3>1. CASE X \subseteq {co}
      BY <1>3, <1>6, <2>3, <3>1
    <3>2. CASE ~(X \subseteq {co})
      <4>1. X \ {co} \in SUBSET (isactive \ {Main}) /\ X \ {co} # {}
        BY <1>1, <3>2
      <4>2. PICK c \in X \ {co} : resumer[c] \notin X \ {co}
        BY <1>2, <4>1 DEF Chain
      <4>3. resumer[c] \in isactive /\ resumer'[c] = resumer[c]
        BY <1>2, <1>6, <1>7, <4>1, <4>2 DEF Chain
      <4> QED  BY <1>1, <4>2, <4>3
    <3> QED  BY <3>1, <3>2
  <2> QED  BY <2>1, <2>2, <2>3 DEF Chain
<1>9. HeapChanged({})
  <2>1. \A o \in isactive' : mark'[o] \notin Gone
    BY <1>1, <1>2, <1>3, <1>4, <1>5, <1>7, Disjoint DEF Sound
  <2> QED  BY <1>1, <2>1 DEF HeapChanged
<1>10. held' = held \cup ({} \cap Udata) /\ resumer' \in [Threads -> Threads \cup {Nil}] /\ running' \in isactive'
  BY <1>1, <1>2, <1>3 DEF TypeOK
<1> QED  BY <1>1, <1>2, <1>5, <1>7, <1>8, <1>9, <1>10, RecolourStep DEF TypeOK

LEMMA SuspendStep ==
  ASSUME IInv, Suspend
  PROVE  IInv'
<1>1. /\ Mutator /\ gcstate # "closed" /\ running # Main /\ isactive' = isactive \ {running}
      /\ running' = resumer[running] /\ resumer' = [resumer EXCEPT ![running] = Nil]
      /\ mark' = mark /\ grayagain' = grayagain
      /\ refs' = refs /\ home' = home /\ held' = held /\ markedopen' = markedopen /\ gray' = gray
  BY DEF Suspend, Mutator, heap
<1>2. /\ TypeOK /\ Kinds(refs) /\ Chain(refs, isactive, running, resumer) /\ Sound(mark, refs, home, isactive)
  BY <1>1 DEF IInv, Painted
<1>3. running \in isactive \ {Main} /\ isactive \subseteq Threads
  BY <1>1, <1>2 DEF TypeOK
<1>4. resumer[running] \in isactive /\ resumer[running] # running
  BY <1>2, <1>3 DEF Chain
<1>5. /\ \A c \in Threads : resumer'[c] = IF c = running THEN Nil ELSE resumer[c]
      /\ resumer' \in [Threads -> Threads \cup {Nil}]
  BY <1>1, <1>2 DEF TypeOK
<1>6. Chain(refs', isactive', running', resumer')
  <2>1. /\ Main \in isactive'
        /\ \A c \in isactive' \ {Main} : resumer'[c] \in isactive' /\ resumer'[c] # running' /\ c \in refs'[resumer'[c]]
    BY <1>1, <1>2, <1>3, <1>4, <1>5 DEF Chain
  <2>2. \A c, d \in isactive' \ {Main} : resumer'[c] = resumer'[d] => c = d
    BY <1>1, <1>2, <1>3, <1>5 DEF Chain
  <2>3. \A X \in SUBSET (isactive' \ {Main}) : X # {} => \E c \in X : resumer'[c] \notin X
    BY <1>1, <1>2, <1>3, <1>5 DEF Chain
  <2> QED  BY <2>1, <2>2, <2>3 DEF Chain
<1>7. Recoloured({}, {}) /\ \A o \in Obj : mark[o] \notin Gone => mark'[o] \notin Gone
  BY <1>1, NothingRecoloured
<1>8. HeapChanged({})
  <2>1. \A o \in isactive' : mark'[o] \notin Gone
    BY <1>1, <1>2 DEF Sound
  <2> QED  BY <1>1, <2>1 DEF HeapChanged
<1>9. held' = held \cup ({} \cap Udata) /\ running' \in isactive' /\ isactive' \subseteq Threads
  BY <1>1, <1>3, <1>4
<1> QED  BY <1>1, <1>2, <1>5, <1>6, <1>7, <1>8, <1>9, RecolourStep DEF TypeOK

LEMMA CloseUpvalueStep ==
  ASSUME IInv, NEW th \in Handles, NEW u \in Open(th), CloseUpvalue(u)
  PROVE  IInv'
<1>1. /\ Mutator /\ gcstate # "closed" /\ home' = [home EXCEPT ![u] = Nil]
      /\ refs' = refs /\ held' = held /\ markedopen' = markedopen /\ UNCHANGED threads /\ grayagain' = grayagain
  BY DEF CloseUpvalue, Mutator
<1>2. /\ TypeOK /\ Kinds(refs) /\ Chain(refs, isactive, running, resumer) /\ Sound(mark, refs, home, isactive)
      /\ Freed(mark, refs, home) /\ UpvalColours(mark, home) /\ HeldWithUdata
  BY <1>1 DEF IInv, Painted
<1>3. /\ u \in UpVals /\ u \in Obj /\ home[u] = th /\ u \notin Closures \cup Threads \cup AllTables /\ th # Nil
      /\ refs[u] \in SUBSET Obj /\ refs[u] \cap UpVals = {}
  <2>1. u \in UpVals /\ home[u] = th /\ th \in Threads
    BY <1>1, HandFacts DEF Open
  <2>2. u \in Obj /\ u \notin Closures \cup Threads \cup AllTables /\ th # Nil
    BY <2>1, Disjoint DEF Listed
  <2> QED  BY <1>2, <2>1, <2>2 DEF TypeOK, Kinds
<1>4. mark[u] \in {"white", "gray"} /\ mark[u] \notin Gone
  BY <1>2, <1>3 DEF TypeOK, Freed, UpvalColours, Gone
<1>5. /\ home' \in [UpVals -> Threads \cup {Nil}] /\ \A w \in UpVals : home'[w] = IF w = u THEN Nil ELSE home[w]
      /\ isactive' = isactive /\ running' = running /\ resumer' = resumer
  BY <1>1, <1>2 DEF TypeOK, threads
<1>6. CASE mark[u] # "gray"
  <2>1. UNCHANGED <<mark, gray>>
    BY <1>6 DEF CloseUpvalue
  <2>2. Recoloured({}, {}) /\ \A o \in Obj : mark[o] \notin Gone => mark'[o] \notin Gone
    BY <1>1, <2>1, NothingRecoloured
  <2>3. HeapChanged({})
    <3>1. \A o \in isactive' : mark'[o] \notin Gone
      BY <1>2, <1>5, <2>1 DEF Sound
    <3> QED  BY <1>1, <1>4, <1>5, <1>6, <2>1, <3>1 DEF HeapChanged
  <2>4. held' = held \cup ({} \cap Udata)
    BY <1>1
  <2> QED  BY <1>1, <1>2, <1>5, <2>1, <2>2, <2>3, <2>4, RecolourStep DEF TypeOK
<1>7. CASE mark[u] = "gray" /\ ~keepinvariant
  <2>1. mark' = [mark EXCEPT ![u] = "white"] /\ gray' = gray
    BY <1>7 DEF CloseUpvalue
  <2>2. \A o \in Obj : \A w \in refs'[o] : w \in refs[o] \/ mark[w] \notin Gone
    BY <1>1
  <2>3. UNCHANGED <<gray, grayagain, held, markedopen, threads>> /\ \A o \in Obj : o # u => refs'[o] = refs[o]
    BY <1>1, <2>1
  <2>4. refs' \in [Obj -> SUBSET Obj] /\ Kinds(refs') /\ Chain(refs', isactive', running', resumer')
    BY <1>1, <1>2, <1>5 DEF TypeOK
  <2>5. \A w \in UpVals : home'[w] = home[w] \/ (w = u /\ home'[w] = Nil)
    BY <1>5
  <2> QED  BY <1>1, <1>3, <1>4, <1>5, <1>7, <2>1, <2>2, <2>3, <2>4, <2>5, WhitenStep
<1>8. CASE mark[u] = "gray" /\ keepinvariant
  <2> DEFINE m == MarkOf(refs[u])
  <2>1. mark' = [m EXCEPT ![u] = "black"] /\ gray' = gray \cup (Marked(refs[u]) \cap Listed)
    BY <1>8 DEF CloseUpvalue
  <2>2. MarksUp(m, refs[u])
    BY <1>2, <1>3, MarkOfFacts
  <2> HIDE DEF m
  <2>3. /\ Freed(m, refs, home) /\ UpvalColours(m, home) /\ Sound(m, refs, home, isactive)
        /\ Swept(m, home, markedopen, gcstate, phase, full, unswept)
        /\ TriColour(m, refs, home, markedopen, gray', grayagain, weak)
    BY <1>8, <2>1, <2>2, MarkingKeeps
  <2>4. /\ m \in [Obj -> Colours] /\ \A v \in refs[u] : m[v] \notin Pale
        /\ m[u] = "gray"
        /\ \A o \in Obj : m[o] = "free" <=> mark[o] = "free"
    BY <1>8, <1>3, <2>2 DEF MarksUp, Pale
  <2>5. /\ \A o \in Obj : mark'[o] = IF o = u THEN "black" ELSE m[o]
        /\ mark' \in [Obj -> {"white", "gray", "black", "dead", "free"}]
    BY <1>3, <2>1, <2>4 DEF Colours
  <2>6. /\ gcstate' = gcstate /\ phase' = "idle" /\ full' = full /\ unswept' = unswept /\ weak' = weak
        /\ phase = "idle" /\ gcstate \notin {"pause", "sweep"} /\ (keepinvariant' <=> keepinvariant)
    BY <1>1, <1>8 DEF Mutator, cycle, keepinvariant
  <2>7. TypeOK'
    BY <1>1, <1>2, <1>5, <2>1, <2>5, <2>6 DEF TypeOK
  <2>8. HeldWithUdata'
    BY <1>1, <1>2, <1>3, <2>4, <2>5, Disjoint DEF HeldWithUdata
  <2>9. /\ \A o \in Obj : m[o] \notin Gone => mark'[o] \notin Gone
        /\ \A o \in Obj : m[o] \notin Pale => mark'[o] \notin Pale
        /\ \A o \in Obj : mark'[o] \in Gone => m[o] = mark'[o]
    BY <2>4, <2>5 DEF Gone, Pale
  <2>10. \A o \in Obj : refs[o] \subseteq Obj
    BY <1>2 DEF TypeOK
  <2>11. Freed(mark', refs, home')
    BY <1>5, <2>3, <2>5, <2>9, Disjoint DEF Freed, Gone
  <2>12. UpvalColours(mark', home')
    BY <1>5, <2>3, <2>5, Disjoint DEF UpvalColours
  <2>13. Sound(mark', refs, home', isactive)
    <3>1. \A o \in {Main, Registry} \cup isactive : mark'[o] \notin Gone
      BY <1>2, <2>3, <2>9, Disjoint DEF Sound, TypeOK
    <3>2. ASSUME NEW o \in Obj, mark'[o] \notin Gone
          PROVE  m[o] \notin Gone
      BY <2>4, <2>5, <3>2 DEF Gone
    <3>3. \A w \in UpVals : home[w] \in Obj \cup {Nil} /\ w \in Obj
      BY <1>2, Disjoint DEF TypeOK
    <3> QED  BY <1>5, <2>3, <2>9, <2>10, <3>1, <3>2, <3>3 DEF Sound
  <2>14. Swept(mark', home', markedopen, gcstate, phase', full, unswept)
    BY <2>3, <2>5, <2>6 DEF Swept
  <2>15. TriColour(mark', refs, home', markedopen, gray', grayagain, weak)
    <3>1. BlackDone(mark', refs, home', markedopen)
      <4> SUFFICES ASSUME NEW o \in Obj, mark'[o] = "black"
                   PROVE  /\ o \notin WeakTables
                          /\ \A v \in refs[o] : mark'[v] \notin Pale
                          /\ \A w \in UpVals : home'[w] = o => mark'[w] = "gray" /\ w \in markedopen
        BY DEF BlackDone
      <4>1. CASE o = u
        <5>1. o \notin WeakTables /\ \A w \in UpVals : home'[w] # o
          BY <1>2, <1>3, <1>5, <4>1, Disjoint DEF TypeOK
        <5> QED  BY <2>4, <2>9, <2>10, <4>1, <5>1
      <4>2. CASE o # u
        <5>1. /\ o \notin WeakTables /\ \A v \in refs[o] : m[v] \notin Pale
              /\ \A w \in UpVals : home[w] = o => m[w] = "gray" /\ w \in markedopen
          BY <2>3, <2>5, <4>2 DEF TriColour, BlackDone
        <5>2. ASSUME NEW w \in UpVals, home'[w] = o
              PROVE  w # u /\ home[w] = o /\ w \in Obj
          BY <1>5, <5>2, Disjoint
        <5> QED  BY <2>5, <2>9, <2>10, <5>1, <5>2
      <4> QED  BY <4>1, <4>2
    <3>2. OpenDone(mark', home', markedopen)
      <4> SUFFICES ASSUME NEW w \in markedopen, home'[w] # Nil
                   PROVE  mark'[w] = "gray" /\ mark'[home'[w]] \notin Pale
        BY DEF OpenDone
      <4>1. w \in UpVals /\ w \in Obj /\ w # u /\ home'[w] = home[w] /\ home[w] \in Obj
        BY <1>2, <1>5, Disjoint DEF TypeOK
      <4> QED  BY <2>3, <2>5, <2>9, <4>1 DEF TriColour, OpenDone
    <3>3. {o \in Obj \ UpVals : mark'[o] = "gray"} = {o \in Obj \ UpVals : m[o] = "gray"}
      BY <1>3, <2>5
    <3> QED  BY <1>3, <2>3, <2>9, <3>1, <3>2, <3>3, Disjoint DEF TriColour, GrayIn
  <2>16. Painted'
    BY <1>1, <1>5, <2>6, <2>11, <2>12, <2>13, <2>14, <2>15 DEF Painted
  <2> QED  BY <1>1, <1>2, <1>5, <2>7, <2>8, <2>16 DEF IInv
<1> QED  BY <1>6, <1>7, <1>8
-----------------------------------------------------------------------------
(* The steps of the collector.  They change colours and lists; only the end *)
(* of the atomic step and the sweep touch the heap.                         *)
LEMMA MarkedStep ==
  ASSUME IInv, UNCHANGED <<refs, home, held, threads>>, mark' \in [Obj -> Colours],
         \A o \in Obj : mark'[o] = "free" <=> mark[o] = "free",
         markedopen' \subseteq UpVals, unswept' \subseteq Obj \ {Main},
         gray' \subseteq Listed, grayagain' \subseteq Listed, weak' \subseteq WeakTables,
         gcstate' \in {"pause", "propagate", "propagateagain", "atomic", "sweep", "closed"},
         phase' \in {"idle", "upvals", "weak", "gray"}, full' \in {"no", "sweep", "cycle"},
         Painted'
  PROVE  IInv'
<1>1. TypeOK'
  BY DEF IInv, TypeOK, threads, Colours
<1>2. HeldWithUdata'
  BY Disjoint DEF IInv, HeldWithUdata
<1> QED  BY <1>1, <1>2 DEF IInv, threads

LEMMA RootStep ==
  ASSUME IInv, gcstate = "pause", MarkRoot, UNCHANGED <<heap, threads>>,
         markedopen' \subseteq markedopen, \A u \in markedopen' : home[u] = Nil,
         full' \in {"no", "sweep", "cycle"}
  PROVE  IInv'
<1> DEFINE S == {Main, Registry}
           m == MarkOf(S)
<1>1. /\ TypeOK /\ Kinds(refs) /\ Freed(mark, refs, home) /\ UpvalColours(mark, home)
      /\ Sound(mark, refs, home, isactive)
      /\ Swept(mark, home, markedopen, gcstate, phase, full, unswept)
  BY DEF IInv, Painted
<1>2. /\ mark' = m /\ gray' = Marked(S) \cap Listed /\ grayagain' = {} /\ weak' = {} /\ gcstate' = "propagate"
      /\ phase' = phase /\ unswept' = unswept /\ refs' = refs /\ home' = home /\ held' = held /\ isactive' = isactive
  BY DEF MarkRoot, heap, threads
<1>3. MarksUp(m, S)
  BY <1>1, Disjoint, MarkOfFacts
<1> HIDE DEF m
<1>4. /\ \A o \in Obj : mark[o] \in {"white", "free"} /\ mark[o] # "gray" /\ mark[o] # "black"
      /\ phase = "idle"
  BY <1>1 DEF Swept, TypeOK
<1>5. /\ \A o \in Obj : m[o] # mark[o] => mark[o] = "white" /\ m[o] \in {"gray", "black"}
      /\ \A u \in UpVals : m[u] # mark[u] => m[u] = (IF home[u] # Nil THEN "gray" ELSE "black")
      /\ \A o \in Obj : m[o] # mark[o] /\ m[o] = "black" => o \in UpVals \cup Strings \cup Udata
      /\ \A o \in UpVals \cup Strings \cup Udata : m[o] # mark[o] => \A v \in refs[o] : m[v] \notin Pale
      /\ Marked(S) \cap Listed = {o \in Obj \ UpVals : m[o] = "gray" /\ mark[o] # "gray"}
      /\ m[Main] \notin Pale /\ m[Registry] \notin Pale
  BY <1>3, <1>4 DEF MarksUp, Pale
<1>6. \A o \in Obj : /\ m[o] \in Gone <=> mark[o] \in Gone
                     /\ m[o] = "free" <=> mark[o] = "free"
                     /\ m[o] # "dead"
  BY <1>4, <1>5 DEF Gone
<1>7. Freed(m, refs, home) /\ UpvalColours(m, home)
  BY <1>1, <1>4, <1>5, <1>6, Disjoint DEF Freed, UpvalColours
<1>8. Sound(m, refs, home, isactive)
  <2>1. /\ \A o \in Obj : refs[o] \subseteq Obj
        /\ \A u \in UpVals : home[u] \in Threads \cup {Nil}
        /\ isactive \subseteq Threads
    BY <1>1 DEF TypeOK
  <2> QED  BY <1>1, <1>6, <2>1, Disjoint DEF Sound
<1>9. Swept(m, home, markedopen', "propagate", phase, full', unswept)
  BY <1>4, <1>6 DEF Swept
<1>10. TriColour(m, refs, home, markedopen', gray', {}, {})
  <2>1. BlackDone(m, refs, home, markedopen')
    <3>1. \A o \in UpVals \cup Strings \cup Udata : o \notin WeakTables /\ o \notin Threads /\ o # Nil
      BY Disjoint DEF Listed
    <3>2. \A u \in UpVals : home[u] \in Threads \cup {Nil}
      BY <1>1 DEF TypeOK
    <3> QED  BY <1>4, <1>5, <3>1, <3>2 DEF BlackDone
  <2>2. OpenDone(m, home, markedopen')
    BY DEF OpenDone
  <2>3. GrayIn(m, gray', {}, {})
    BY <1>2, <1>4, <1>5 DEF GrayIn
  <2> QED  BY <1>5, <2>1, <2>2, <2>3 DEF TriColour
<1>11. Painted'
  BY <1>2, <1>4, <1>7, <1>8, <1>9, <1>10 DEF Painted
<1>12. /\ UNCHANGED <<refs, home, held, threads>> /\ mark' \in [Obj -> Colours]
       /\ \A o \in Obj : mark'[o] = "free" <=> mark[o] = "free"
       /\ markedopen' \subseteq UpVals /\ unswept' \subseteq Obj \ {Main}
       /\ gray' \subseteq Listed /\ grayagain' \subseteq Listed /\ weak' \subseteq WeakTables
       /\ phase' \in {"idle", "upvals", "weak", "gray"}
  BY <1>1, <1>2, <1>3, <1>4, <1>6 DEF TypeOK, MarksUp
<1> QED  BY <1>2, <1>11, <1>12, MarkedStep

LEMMA StartCycleStep ==
  ASSUME IInv, StartCycle
  PROVE  IInv'
<1>1. /\ gcstate = "pause" /\ full = "no" /\ MarkRoot /\ UNCHANGED <<heap, threads>>
      /\ markedopen' = markedopen /\ full' = full
  BY DEF StartCycle
<1>2. \A u \in markedopen' : home[u] = Nil
  BY <1>1 DEF IInv, Painted, Swept
<1> QED  BY <1>1, <1>2, RootStep

LEMMA FullCycleStep ==
  ASSUME IInv, FullCycle
  PROVE  IInv'
<1>1. /\ gcstate = "pause" /\ MarkRoot /\ UNCHANGED <<heap, threads>> /\ full' = "cycle"
      /\ markedopen' = markedopen \ {u \in UpVals : IsOpen(u)}
  BY DEF FullCycle
<1>2. \A u \in markedopen' : home[u] = Nil
  BY <1>1 DEF IInv, TypeOK, IsOpen
<1> QED  BY <1>1, <1>2, RootStep

(* What a traversal leaves, whatever becomes of the lists. *)
LEMMA PropagatedKeeps ==
  ASSUME IInv, keepinvariant, NEW o \in gray, NEW p, p = Propagated(o)
  PROVE  /\ p.mark \in [Obj -> Colours] /\ p.gray \subseteq Listed /\ p.grayagain \subseteq Listed
         /\ p.weak \subseteq WeakTables /\ p.open \subseteq UpVals
         /\ \A x \in Obj : p.mark[x] = "free" <=> mark[x] = "free"
         /\ Freed(p.mark, refs, home) /\ UpvalColours(p.mark, home) /\ Sound(p.mark, refs, home, isactive)
         /\ \A x \in Obj : p.mark[x] # "dead"
         /\ TriColour(p.mark, refs, home, p.open, p.gray, p.grayagain, p.weak)
         /\ phase # "idle" => UpvalsDone(p.mark, refs)
         /\ phase = "gray" => AgainDone(p.mark, refs, home, p.open, p.grayagain)
<1> DEFINE S == Children(o)
           m == MarkOf(S)
           stays == o \in WeakTables \cup {th \in Threads : StaysActive(th)}
<1>1. /\ TypeOK /\ Kinds(refs) /\ Sound(mark, refs, home, isactive) /\ UpvalColours(mark, home)
      /\ TriColour(mark, refs, home, markedopen, gray, grayagain, weak)
      /\ Swept(mark, home, markedopen, gcstate, phase, full, unswept)
      /\ Freed(mark, refs, home) /\ gcstate # "sweep"
  BY DEF IInv, Painted, keepinvariant
<1>2. /\ \A x \in Obj : refs[x] \in SUBSET Obj
      /\ \A u \in UpVals : home[u] \in Threads \cup {Nil} /\ u \in Obj
      /\ o \in Listed /\ o \in Obj \ UpVals /\ mark[o] = "gray" /\ o \notin Strings \cup Udata
      /\ o \notin grayagain \cup weak
  <2>1. o \in Listed /\ o \in Obj \ UpVals /\ o \notin Strings \cup Udata
    BY <1>1, Disjoint DEF TypeOK
  <2>2. o \in {x \in Obj \ UpVals : mark[x] = "gray"} /\ o \notin grayagain \cup weak
    BY <1>1 DEF TriColour, GrayIn
  <2> QED  BY <1>1, <2>1, <2>2, Disjoint DEF TypeOK
<1>3. S \in SUBSET Obj
  <2>1. Open(o) \subseteq Obj /\ Open(o) \subseteq UpVals
    BY <1>2 DEF Open
  <2>2. ValuesOf(Open(o)) \subseteq Obj
    BY <1>2, <2>1, ValuesIn
  <2> QED  BY <1>2, <2>1, <2>2 DEF Children
<1>4. MarksUp(m, S)
  BY <1>1, <1>3, MarkOfFacts
<1>5. /\ p.mark = [m EXCEPT ![o] = IF stays THEN "gray" ELSE "black"]
      /\ p.gray = (gray \ {o}) \cup (Marked(S) \cap Listed)
      /\ p.grayagain = grayagain \cup (IF o \in Threads /\ StaysActive(o) THEN {o} ELSE {})
      /\ p.weak = weak \cup (IF o \in WeakTables THEN {o} ELSE {})
      /\ p.open = markedopen \cup (IF o \in Threads THEN Open(o) ELSE {})
  BY DEF Propagated
<1>6. /\ o \notin WeakTables => \A v \in refs[o] : v \in S
      /\ o \in Threads => \A u \in UpVals : home[u] = o => u \in S
      /\ o \in Threads => o \notin WeakTables
  BY Disjoint DEF Children, Open
<1> HIDE DEF m, S, stays
<1>7. /\ Freed(m, refs, home) /\ UpvalColours(m, home) /\ Sound(m, refs, home, isactive)
      /\ Swept(m, home, markedopen, gcstate, phase, full, unswept)
      /\ TriColour(m, refs, home, markedopen, gray \cup (Marked(S) \cap Listed), grayagain, weak)
      /\ phase # "idle" => UpvalsDone(m, refs)
      /\ phase = "gray" => AgainDone(m, refs, home, markedopen, grayagain)
  BY <1>4, MarkingKeeps
<1>8. /\ m \in [Obj -> Colours] /\ \A v \in S : m[v] \notin Pale
      /\ m[o] = "gray" /\ \A x \in Obj : m[x] = "free" <=> mark[x] = "free"
      /\ \A x \in Obj : m[x] # "dead"
  BY <1>1, <1>2, <1>4, <1>7 DEF MarksUp, Pale, Swept
<1>9. /\ \A x \in Obj : p.mark[x] = IF x = o THEN IF stays THEN "gray" ELSE "black" ELSE m[x]
      /\ p.mark \in [Obj -> Colours]
  BY <1>2, <1>5, <1>8 DEF Colours
<1>10. \A x \in Obj : /\ p.mark[x] \in Gone <=> m[x] \in Gone
                      /\ p.mark[x] = "free" <=> m[x] = "free"
                      /\ p.mark[x] \in Pale <=> m[x] \in Pale
                      /\ p.mark[x] # "dead"
  BY <1>8, <1>9 DEF Gone, Pale
<1>11. p.gray \subseteq Listed /\ p.grayagain \subseteq Listed /\ p.weak \subseteq WeakTables /\ p.open \subseteq UpVals
  BY <1>1, <1>2, <1>5 DEF TypeOK, Open
<1>12. /\ Freed(p.mark, refs, home) /\ UpvalColours(p.mark, home)
  BY <1>2, <1>7, <1>9, <1>10 DEF Freed, UpvalColours
<1>13. Sound(p.mark, refs, home, isactive)
  <2>1. isactive \subseteq Obj /\ Main \in Obj /\ Registry \in Obj /\ \A u \in UpVals : home[u] \in Obj \cup {Nil}
    BY <1>1, <1>2, Disjoint DEF TypeOK
  <2> QED  BY <1>2, <1>7, <1>10, <2>1 DEF Sound
<1>14. BlackDone(p.mark, refs, home, p.open)
  <2> SUFFICES ASSUME NEW x \in Obj, p.mark[x] = "black"
               PROVE  /\ x \notin WeakTables
                      /\ \A v \in refs[x] : p.mark[v] \notin Pale
                      /\ \A u \in UpVals : home[u] = x => p.mark[u] = "gray" /\ u \in p.open
    BY DEF BlackDone
  <2>1. CASE x # o
    <3>1. /\ x \notin WeakTables /\ \A v \in refs[x] : m[v] \notin Pale
          /\ \A u \in UpVals : home[u] = x => m[u] = "gray" /\ u \in markedopen
      BY <1>7, <1>9, <2>1 DEF TriColour, BlackDone
    <3> QED  BY <1>2, <1>5, <1>9, <1>10, <3>1
  <2>2. CASE x = o
    <3>1. ~stays /\ x \notin WeakTables
      BY <1>9, <2>2 DEF stays
    <3>2. \A v \in refs[x] : p.mark[v] \notin Pale
      BY <1>2, <1>6, <1>8, <1>10, <2>2, <3>1
    <3>3. ASSUME NEW u \in UpVals, home[u] = x
          PROVE  p.mark[u] = "gray" /\ u \in p.open
      <4>1. x \in Threads /\ u \in Obj /\ x # Nil
        BY <1>2, <2>2, <3>3, Disjoint
      <4>2. m[u] \notin Pale
        BY <1>6, <1>8, <2>2, <3>3, <4>1
      <4>3. m[u] # "free" /\ m[u] # "black"
        BY <1>7, <3>3, <4>1 DEF Freed, UpvalColours, Gone
      <4>4. m[u] = "gray"
        BY <1>8, <4>1, <4>2, <4>3 DEF Colours, Pale
      <4> QED  BY <1>2, <1>5, <1>9, <2>2, <3>3, <4>1, <4>4 DEF Open
    <3> QED  BY <3>1, <3>2, <3>3
  <2> QED  BY <2>1, <2>2
<1>15. OpenDone(p.mark, home, p.open)
  <2> SUFFICES ASSUME NEW u \in p.open, home[u] # Nil
               PROVE  p.mark[u] = "gray" /\ p.mark[home[u]] \notin Pale
    BY DEF OpenDone
  <2>1. u \in UpVals /\ u \in Obj /\ u # o /\ home[u] \in Obj
    BY <1>2, <1>11, Disjoint
  <2>2. CASE u \in markedopen
    BY <1>7, <1>9, <1>10, <2>1, <2>2 DEF TriColour, OpenDone
  <2>3. CASE o \in Threads /\ u \in Open(o)
    <3>1. home[u] = o
      BY <2>3 DEF Open
    <3>2. m[u] \notin Pale
      BY <1>6, <1>8, <2>1, <2>3, <3>1
    <3>3. m[u] # "free" /\ m[u] # "black"
      BY <1>7, <2>1 DEF Freed, UpvalColours, Gone
    <3>4. m[u] = "gray"
      BY <1>8, <2>1, <3>2, <3>3 DEF Colours, Pale
    <3> QED  BY <1>8, <1>9, <1>10, <2>1, <3>1, <3>4 DEF Pale
  <2> QED  BY <1>5, <2>2, <2>3
<1>16. GrayIn(p.mark, p.gray, p.grayagain, p.weak)
  <2> DEFINE g == gray \cup (Marked(S) \cap Listed)
  <2>1. GrayIn(m, g, grayagain, weak)
    BY <1>7 DEF TriColour
  <2>2. o \in g /\ o \notin Marked(S) \cap Listed
    <3>1. Marked(S) \cap Listed = {x \in Obj \ UpVals : m[x] = "gray" /\ mark[x] # "gray"}
      BY <1>4 DEF MarksUp
    <3> QED  BY <1>2, <3>1
  <2>3. p.gray = g \ {o}
    BY <1>5, <2>2
  <2> HIDE DEF g
  <2>4. {x \in Obj \ UpVals : p.mark[x] = "gray"}
        = ({x \in Obj \ UpVals : m[x] = "gray"} \ {o}) \cup (IF stays THEN {o} ELSE {})
    BY <1>2, <1>9
  <2>5. o \notin grayagain /\ o \notin weak
    BY <1>2
  <2>6. (IF o \in Threads /\ StaysActive(o) THEN {o} ELSE {}) \cup (IF o \in WeakTables THEN {o} ELSE {})
        = IF stays THEN {o} ELSE {}
    BY DEF stays
  <2>7. (IF o \in Threads /\ StaysActive(o) THEN {o} ELSE {}) \cap (IF o \in WeakTables THEN {o} ELSE {}) = {}
    BY <1>6
  <2> QED  BY <1>5, <2>1, <2>2, <2>3, <2>4, <2>5, <2>6, <2>7 DEF GrayIn
<1>17. TriColour(p.mark, refs, home, p.open, p.gray, p.grayagain, p.weak)
  BY <1>7, <1>10, <1>14, <1>15, <1>16, Disjoint DEF TriColour
<1>18. ASSUME phase # "idle"
       PROVE  UpvalsDone(p.mark, refs)
  BY <1>2, <1>7, <1>9, <1>10, <1>18 DEF UpvalsDone
<1>19. ASSUME phase = "gray"
       PROVE  AgainDone(p.mark, refs, home, p.open, p.grayagain)
  <2> SUFFICES ASSUME NEW x \in p.grayagain
               PROVE  /\ x \in Threads
                      /\ \A v \in refs[x] : p.mark[v] \notin Pale
                      /\ \A u \in UpVals : home[u] = x => p.mark[u] \notin Pale /\ u \in p.open
    BY DEF AgainDone
  <2>1. CASE x \in grayagain
    <3>1. x \in Threads /\ x \in Obj
      BY <1>7, <1>19, <2>1, Disjoint DEF AgainDone
    <3> QED  BY <1>2, <1>5, <1>7, <1>10, <1>19, <2>1, <3>1 DEF AgainDone
  <2>2. CASE x \notin grayagain
    <3>1. x = o /\ o \in Threads
      BY <1>5, <2>2
    <3> QED  BY <1>2, <1>5, <1>6, <1>8, <1>10, <3>1 DEF Open
  <2> QED  BY <2>1, <2>2
<1> QED  BY <1>8, <1>9, <1>10, <1>11, <1>12, <1>13, <1>17, <1>18, <1>19

LEMMA PropagateStepStep ==
  ASSUME IInv, PropagateStep
  PROVE  IInv'
<1>1. PICK o \in gray :
        LET p == Propagated(o)
        IN  /\ Propagate(o)
            /\ IF p.gray # {}
               THEN gray' = p.gray /\ grayagain' = p.grayagain /\ UNCHANGED gcstate
               ELSE IF gcstate = "propagate"
               THEN gray' = p.grayagain /\ grayagain' = {} /\ gcstate' = "propagateagain"
               ELSE gray' = {} /\ grayagain' = p.grayagain /\ gcstate' = "atomic"
  BY DEF PropagateStep
<1> DEFINE p == Propagated(o)
<1>2. /\ gcstate \in {"propagate", "propagateagain"} /\ keepinvariant
      /\ UNCHANGED <<refs, home, held, threads, phase, full, unswept>>
      /\ isactive' = isactive
  BY DEF PropagateStep, keepinvariant, heap, threads
<1>3. mark' = p.mark /\ weak' = p.weak /\ markedopen' = p.open
  BY <1>1 DEF Propagate
<1>4. /\ p.mark \in [Obj -> Colours] /\ p.gray \subseteq Listed /\ p.grayagain \subseteq Listed
      /\ p.weak \subseteq WeakTables /\ p.open \subseteq UpVals
      /\ \A x \in Obj : p.mark[x] = "free" <=> mark[x] = "free"
      /\ Freed(p.mark, refs, home) /\ UpvalColours(p.mark, home) /\ Sound(p.mark, refs, home, isactive)
      /\ \A x \in Obj : p.mark[x] # "dead"
      /\ TriColour(p.mark, refs, home, p.open, p.gray, p.grayagain, p.weak)
  BY <1>2, PropagatedKeeps
<1>5. \/ gray' = p.gray /\ grayagain' = p.grayagain /\ gcstate' = gcstate
      \/ p.gray = {} /\ gray' = p.grayagain /\ grayagain' = {} /\ gcstate' = "propagateagain"
      \/ p.gray = {} /\ gray' = {} /\ grayagain' = p.grayagain /\ gcstate' = "atomic"
  BY <1>1
<1>6. TypeOK /\ phase = "idle" /\ Swept(mark, home, markedopen, gcstate, phase, full, unswept)
  BY <1>2 DEF IInv, Painted, Swept
<1> HIDE DEF p
<1>7. gray' \subseteq Listed /\ grayagain' \subseteq Listed /\ gcstate' \in {"propagate", "propagateagain", "atomic"}
  BY <1>2, <1>4, <1>5
<1>8. TriColour(mark', refs', home', markedopen', gray', grayagain', weak')
  <2>1. GrayIn(p.mark, gray', grayagain', p.weak)
    BY <1>4, <1>5 DEF TriColour, GrayIn
  <2> QED  BY <1>2, <1>3, <1>4, <2>1 DEF TriColour
<1>9. Swept(mark', home', markedopen', gcstate', phase', full', unswept')
  BY <1>2, <1>3, <1>4, <1>6, <1>7 DEF Swept
<1>10. Painted'
  BY <1>2, <1>3, <1>4, <1>6, <1>8, <1>9 DEF Painted
<1>11. /\ mark' \in [Obj -> Colours] /\ \A x \in Obj : mark'[x] = "free" <=> mark[x] = "free"
       /\ UNCHANGED <<refs, home, held, threads>>
       /\ markedopen' \subseteq UpVals /\ unswept' \subseteq Obj \ {Main} /\ weak' \subseteq WeakTables
       /\ gcstate' \in {"pause", "propagate", "propagateagain", "atomic", "sweep", "closed"}
       /\ phase' \in {"idle", "upvals", "weak", "gray"} /\ full' \in {"no", "sweep", "cycle"}
  BY <1>2, <1>3, <1>4, <1>6, <1>7 DEF TypeOK
<1> QED  BY <1>7, <1>10, <1>11, MarkedStep

(* Inside the atomic step the invariant of the marking holds. *)
LEMMA AtomicFacts ==
  ASSUME IInv, phase # "idle" \/ gcstate = "atomic"
  PROVE  /\ TypeOK /\ gcstate = "atomic" /\ keepinvariant
         /\ Freed(mark, refs, home) /\ UpvalColours(mark, home) /\ Sound(mark, refs, home, isactive)
         /\ Swept(mark, home, markedopen, gcstate, phase, full, unswept)
         /\ TriColour(mark, refs, home, markedopen, gray, grayagain, weak)
         /\ phase # "idle" => UpvalsDone(mark, refs)
         /\ phase = "gray" => AgainDone(mark, refs, home, markedopen, grayagain)
         /\ \A x \in Obj : mark[x] # "dead"
<1>1. Swept(mark, home, markedopen, gcstate, phase, full, unswept) /\ TypeOK
  BY DEF IInv, Painted
<1>2. gcstate = "atomic"
  BY <1>1 DEF Swept
<1>3. \A x \in Obj : mark[x] # "dead"
  BY <1>1, <1>2 DEF Swept
<1> QED  BY <1>1, <1>2, <1>3 DEF IInv, Painted, keepinvariant

(* A step inside the atomic step. *)
LEMMA AtomicStep ==
  ASSUME IInv, phase # "idle" \/ gcstate = "atomic",
         UNCHANGED <<refs, home, held, threads, gcstate, full, unswept>>,
         mark' \in [Obj -> Colours], \A x \in Obj : mark'[x] = "free" <=> mark[x] = "free",
         \A x \in Obj : mark'[x] # "dead",
         markedopen' \subseteq UpVals,
         gray' \subseteq Listed, grayagain' \subseteq Listed, weak' \subseteq WeakTables,
         phase' \in {"upvals", "weak", "gray"},
         Freed(mark', refs, home), UpvalColours(mark', home), Sound(mark', refs, home, isactive),
         TriColour(mark', refs, home, markedopen', gray', grayagain', weak'),
         UpvalsDone(mark', refs), phase' = "gray" => AgainDone(mark', refs, home, markedopen', grayagain')
  PROVE  IInv'
<1>1. TypeOK /\ gcstate = "atomic"
  BY AtomicFacts
<1>2. Swept(mark', home', markedopen', gcstate', phase', full', unswept')
  BY <1>1 DEF Swept
<1>3. Painted'
  BY <1>1, <1>2 DEF Painted, threads
<1>4. /\ unswept' \subseteq Obj \ {Main} /\ full' \in {"no", "sweep", "cycle"}
      /\ gcstate' \in {"pause", "propagate", "propagateagain", "atomic", "sweep", "closed"}
      /\ phase' \in {"idle", "upvals", "weak", "gray"}
      /\ UNCHANGED <<refs, home, held, threads>>
  BY <1>1 DEF TypeOK
<1> QED  BY <1>3, <1>4, MarkedStep

LEMMA PropagateAllStep ==
  ASSUME IInv, PropagateAll
  PROVE  IInv'
<1>1. PICK o \in gray : Propagate(o) /\ gray' = Propagated(o).gray /\ grayagain' = Propagated(o).grayagain
  BY DEF PropagateAll
<1> DEFINE p == Propagated(o)
<1>2. phase # "idle" /\ UNCHANGED <<refs, home, held, threads, gcstate, phase, full, unswept>>
  BY DEF PropagateAll, heap, cycle
<1>3. mark' = p.mark /\ weak' = p.weak /\ markedopen' = p.open /\ gray' = p.gray /\ grayagain' = p.grayagain
  BY <1>1 DEF Propagate
<1>4. keepinvariant /\ TypeOK
  BY <1>2, AtomicFacts
<1>5. /\ p.mark \in [Obj -> Colours] /\ p.gray \subseteq Listed /\ p.grayagain \subseteq Listed
      /\ p.weak \subseteq WeakTables /\ p.open \subseteq UpVals
      /\ \A x \in Obj : p.mark[x] = "free" <=> mark[x] = "free"
      /\ Freed(p.mark, refs, home) /\ UpvalColours(p.mark, home) /\ Sound(p.mark, refs, home, isactive)
      /\ \A x \in Obj : p.mark[x] # "dead"
      /\ TriColour(p.mark, refs, home, p.open, p.gray, p.grayagain, p.weak)
      /\ phase # "idle" => UpvalsDone(p.mark, refs)
      /\ phase = "gray" => AgainDone(p.mark, refs, home, p.open, p.grayagain)
  BY <1>4, PropagatedKeeps
<1> HIDE DEF p
<1>6. phase' \in {"upvals", "weak", "gray"} /\ phase' = phase
  BY <1>2, <1>4 DEF TypeOK
<1>7. /\ phase # "idle" \/ gcstate = "atomic"
      /\ UNCHANGED <<refs, home, held, threads, gcstate, full, unswept>>
      /\ mark' \in [Obj -> Colours] /\ \A x \in Obj : mark'[x] = "free" <=> mark[x] = "free"
      /\ \A x \in Obj : mark'[x] # "dead"
      /\ markedopen' \subseteq UpVals
      /\ gray' \subseteq Listed /\ grayagain' \subseteq Listed /\ weak' \subseteq WeakTables
      /\ Freed(mark', refs, home) /\ UpvalColours(mark', home) /\ Sound(mark', refs, home, isactive)
      /\ TriColour(mark', refs, home, markedopen', gray', grayagain', weak')
      /\ UpvalsDone(mark', refs) /\ (phase' = "gray" => AgainDone(mark', refs, home, markedopen', grayagain'))
  BY <1>2, <1>3, <1>5, <1>6
<1> QED  BY <1>6, <1>7, AtomicStep

LEMMA RemarkUpvalsStep ==
  ASSUME IInv, RemarkUpvals
  PROVE  IInv'
<1> DEFINE S == ValuesOf({u \in UpVals : IsOpen(u) /\ mark[u] = "gray"})
           m == MarkOf(S)
<1>1. /\ gcstate = "atomic" /\ phase' = "upvals" /\ mark' = m /\ gray' = gray \cup (Marked(S) \cap Listed)
      /\ UNCHANGED <<refs, home, held, threads, gcstate, full, unswept>>
      /\ markedopen' = markedopen /\ grayagain' = grayagain /\ weak' = weak
  BY DEF RemarkUpvals, MarkObjects, heap
<1>2. /\ TypeOK /\ keepinvariant /\ UpvalColours(mark, home) /\ Kinds(refs) /\ \A x \in Obj : mark[x] # "dead"
  BY <1>1, AtomicFacts DEF IInv
<1>3. S \in SUBSET Obj
  <2>1. \A u \in UpVals : refs[u] \subseteq Obj
    BY <1>2, Disjoint DEF TypeOK
  <2> QED  BY <2>1, ValuesIn
<1>4. MarksUp(m, S)
  BY <1>2, <1>3, MarkOfFacts
<1>5. \A u \in UpVals : mark[u] = "gray" => \A v \in refs[u] : v \in S
  BY <1>2 DEF UpvalColours, IsOpen, ValuesOf
<1> HIDE DEF m, S
<1>6. /\ Freed(m, refs, home) /\ UpvalColours(m, home) /\ Sound(m, refs, home, isactive)
      /\ Swept(m, home, markedopen, gcstate, phase, full, unswept)
      /\ TriColour(m, refs, home, markedopen, gray \cup (Marked(S) \cap Listed), grayagain, weak)
  BY <1>2, <1>4, MarkingKeeps
<1>7. UpvalsDone(m, refs)
  <2> SUFFICES ASSUME NEW u \in UpVals, m[u] = "gray", NEW v \in refs[u]
               PROVE  m[v] \notin Pale
    BY DEF UpvalsDone
  <2>1. CASE mark[u] = "gray"
    BY <1>4, <1>5, <2>1 DEF MarksUp
  <2>2. CASE mark[u] # "gray"
    BY <1>4, <2>2 DEF MarksUp
  <2> QED  BY <2>1, <2>2
<1>8. /\ m \in [Obj -> Colours] /\ \A x \in Obj : m[x] = "free" <=> mark[x] = "free"
      /\ \A x \in Obj : m[x] # "dead"
  BY <1>2, <1>4 DEF MarksUp, Pale
<1>9. /\ phase # "idle" \/ gcstate = "atomic"
      /\ mark' \in [Obj -> Colours] /\ \A x \in Obj : mark'[x] = "free" <=> mark[x] = "free"
      /\ \A x \in Obj : mark'[x] # "dead"
      /\ markedopen' \subseteq UpVals /\ phase' \in {"upvals", "weak", "gray"}
      /\ gray' \subseteq Listed /\ grayagain' \subseteq Listed /\ weak' \subseteq WeakTables
      /\ Freed(mark', refs, home) /\ UpvalColours(mark', home) /\ Sound(mark', refs, home, isactive)
      /\ TriColour(mark', refs, home, markedopen', gray', grayagain', weak')
      /\ UpvalsDone(mark', refs) /\ (phase' = "gray" => AgainDone(mark', refs, home, markedopen', grayagain'))
      /\ UNCHANGED <<refs, home, held, threads, gcstate, full, unswept>>
  BY <1>1, <1>2, <1>6, <1>7, <1>8 DEF TypeOK
<1> QED  BY <1>9, AtomicStep

LEMMA RemarkWeakStep ==
  ASSUME IInv, RemarkWeak
  PROVE  IInv'
<1>1. PICK L \in Handles : mark' = MarkOf({L}) /\ gray' = weak \cup (Marked({L}) \cap Listed)
  BY DEF RemarkWeak
<1> DEFINE S == {L}
           m == MarkOf(S)
<1>2. /\ phase = "upvals" /\ gray = {} /\ phase' = "weak" /\ weak' = {}
      /\ UNCHANGED <<refs, home, held, threads, gcstate, full, unswept>>
      /\ markedopen' = markedopen /\ grayagain' = grayagain
  BY DEF RemarkWeak, heap
<1>3. /\ TypeOK /\ keepinvariant /\ gcstate = "atomic" /\ Kinds(refs) /\ \A x \in Obj : mark[x] # "dead"
  BY <1>2, AtomicFacts DEF IInv
<1>4. L \in Obj
  BY <1>3, HandFacts, Disjoint
<1>5. MarksUp(m, S)
  BY <1>3, <1>4, MarkOfFacts
<1>6. mark' = m /\ gray' = weak \cup (Marked(S) \cap Listed)
  BY <1>1
<1> HIDE DEF m, S
<1>7. /\ Freed(m, refs, home) /\ UpvalColours(m, home) /\ Sound(m, refs, home, isactive)
      /\ TriColour(m, refs, home, markedopen, gray \cup (Marked(S) \cap Listed), grayagain, weak)
      /\ UpvalsDone(m, refs)
  BY <1>2, <1>3, <1>5, MarkingKeeps
<1>8. TriColour(m, refs, home, markedopen, gray', grayagain, {})
  BY <1>2, <1>6, <1>7 DEF TriColour, GrayIn
<1>9. /\ m \in [Obj -> Colours] /\ \A x \in Obj : m[x] = "free" <=> mark[x] = "free"
      /\ \A x \in Obj : m[x] # "dead"
  BY <1>3, <1>5 DEF MarksUp, Pale
<1>10. weak \subseteq Listed
  BY <1>3, Disjoint DEF TypeOK
<1>11. /\ phase # "idle" \/ gcstate = "atomic"
       /\ mark' \in [Obj -> Colours] /\ \A x \in Obj : mark'[x] = "free" <=> mark[x] = "free"
       /\ \A x \in Obj : mark'[x] # "dead"
       /\ markedopen' \subseteq UpVals /\ phase' \in {"upvals", "weak", "gray"}
       /\ gray' \subseteq Listed /\ grayagain' \subseteq Listed /\ weak' \subseteq WeakTables
       /\ Freed(mark', refs, home) /\ UpvalColours(mark', home) /\ Sound(mark', refs, home, isactive)
       /\ TriColour(mark', refs, home, markedopen', gray', grayagain', weak')
       /\ UpvalsDone(mark', refs) /\ (phase' = "gray" => AgainDone(mark', refs, home, markedopen', grayagain'))
       /\ UNCHANGED <<refs, home, held, threads, gcstate, full, unswept>>
  BY <1>2, <1>3, <1>6, <1>7, <1>8, <1>9, <1>10 DEF TypeOK
<1> QED  BY <1>11, AtomicStep

LEMMA RemarkGrayStep ==
  ASSUME IInv, RemarkGray
  PROVE  IInv'
<1>1. /\ phase = "weak" /\ gray = {} /\ phase' = "gray" /\ gray' = grayagain /\ grayagain' = {}
      /\ UNCHANGED <<refs, home, held, threads, gcstate, full, unswept>>
      /\ mark' = mark /\ markedopen' = markedopen /\ weak' = weak
  BY DEF RemarkGray, heap
<1>2. /\ TypeOK /\ gcstate = "atomic"
      /\ Freed(mark, refs, home) /\ UpvalColours(mark, home) /\ Sound(mark, refs, home, isactive)
      /\ TriColour(mark, refs, home, markedopen, gray, grayagain, weak)
      /\ UpvalsDone(mark, refs) /\ \A x \in Obj : mark[x] # "dead"
  BY <1>1, AtomicFacts
<1>3. TriColour(mark, refs, home, markedopen, grayagain, {}, weak)
  BY <1>1, <1>2 DEF TriColour, GrayIn
<1>4. AgainDone(mark, refs, home, markedopen, {})
  BY DEF AgainDone
<1>5. /\ phase # "idle" \/ gcstate = "atomic"
      /\ mark' \in [Obj -> Colours] /\ \A x \in Obj : mark'[x] = "free" <=> mark[x] = "free"
      /\ \A x \in Obj : mark'[x] # "dead"
      /\ markedopen' \subseteq UpVals /\ phase' \in {"upvals", "weak", "gray"}
      /\ gray' \subseteq Listed /\ grayagain' \subseteq Listed /\ weak' \subseteq WeakTables
      /\ Freed(mark', refs, home) /\ UpvalColours(mark', home) /\ Sound(mark', refs, home, isactive)
      /\ TriColour(mark', refs, home, markedopen', gray', grayagain', weak')
      /\ UpvalsDone(mark', refs) /\ (phase' = "gray" => AgainDone(mark', refs, home, markedopen', grayagain'))
      /\ UNCHANGED <<refs, home, held, threads, gcstate, full, unswept>>
  BY <1>1, <1>2, <1>3, <1>4 DEF TypeOK, Colours
<1> QED  BY <1>5, AtomicStep
-----------------------------------------------------------------------------
(* At the end of the atomic step what is not white is closed: the roots and *)
(* the active threads are in it, and all that its members refer to, but for *)
(* the entries of the weak tables, which are all in the list.               *)
NotWhite == {o \in Obj : mark[o] \in {"gray", "black"}}

LEMMA MarkedIsClosed ==
  ASSUME IInv, phase = "gray", gray = {}
  PROVE  /\ {Main, Registry} \cup isactive \subseteq NotWhite
         /\ \A o \in NotWhite \ WeakTables : \A v \in refs[o] : v \in NotWhite
         /\ \A o \in NotWhite \cap Threads : \A u \in UpVals : home[u] = o => u \in NotWhite /\ u \in markedopen
         /\ \A o \in NotWhite \cap WeakTables : o \in weak
         /\ \A o \in NotWhite \ WeakTables : o \notin weak
         /\ \A o \in Obj : o \in NotWhite <=> mark[o] \notin Pale /\ mark[o] # "free"
<1>1. /\ TypeOK /\ Freed(mark, refs, home) /\ Sound(mark, refs, home, isactive)
      /\ TriColour(mark, refs, home, markedopen, gray, grayagain, weak)
      /\ UpvalsDone(mark, refs) /\ AgainDone(mark, refs, home, markedopen, grayagain)
      /\ \A x \in Obj : mark[x] # "dead"
      /\ Chain(refs, isactive, running, resumer) /\ Kinds(refs)
  BY AtomicFacts DEF IInv
<1>2. /\ \A o \in Obj : refs[o] \subseteq Obj
      /\ \A o \in Obj : mark[o] \in {"white", "gray", "black", "free"}
      /\ isactive \subseteq Threads /\ weak \subseteq WeakTables
  BY <1>1 DEF TypeOK
<1>3. \A o \in Obj : o \in NotWhite <=> mark[o] \notin Pale /\ mark[o] # "free"
  BY <1>2 DEF NotWhite, Pale
<1>4. \A o \in NotWhite \ UpVals : mark[o] = "black" \/ o \in grayagain \/ o \in weak
  BY <1>1 DEF TriColour, GrayIn, NotWhite
<1>5. \A o \in Obj : mark[o] \notin Gone => \A v \in refs[o] : v \in Obj /\ mark[v] # "free"
  BY <1>1, <1>2 DEF Sound, Gone
<1>6. ASSUME NEW o \in NotWhite \ WeakTables, NEW v \in refs[o]
      PROVE  v \in NotWhite
  <2>1. o \in Obj /\ mark[o] \notin Gone /\ v \in Obj /\ mark[v] # "free"
    BY <1>5, <1>6 DEF NotWhite, Gone
  <2>2. mark[v] \notin Pale
    <3>1. CASE o \in UpVals
      <4>1. CASE mark[o] = "gray"
        BY <1>1, <1>6, <3>1, <4>1 DEF UpvalsDone
      <4>2. CASE mark[o] = "black"
        BY <1>1, <1>6, <2>1, <4>2 DEF TriColour, BlackDone
      <4> QED  BY <1>6, <4>1, <4>2 DEF NotWhite
    <3>2. CASE o \notin UpVals /\ mark[o] = "black"
      BY <1>1, <1>6, <2>1, <3>2 DEF TriColour, BlackDone
    <3>3. CASE o \in grayagain
      BY <1>1, <1>6, <3>3 DEF AgainDone
    <3> QED  BY <1>2, <1>4, <1>6, <3>1, <3>2, <3>3
  <2> QED  BY <1>3, <2>1, <2>2
<1>7. ASSUME NEW o \in NotWhite \cap Threads, NEW u \in UpVals, home[u] = o
      PROVE  u \in NotWhite /\ u \in markedopen
  <2>1. o \in Obj /\ o # Nil /\ u \in Obj /\ o \notin UpVals /\ o \notin WeakTables
    BY Disjoint DEF Listed
  <2>2. mark[u] # "free"
    BY <1>1, <1>7, <2>1 DEF Freed, Gone
  <2>3. mark[o] = "black" \/ o \in grayagain
    BY <1>2, <1>4, <2>1
  <2>4. mark[u] \notin Pale /\ u \in markedopen
    BY <1>1, <1>7, <2>1, <2>3 DEF TriColour, BlackDone, AgainDone, Pale
  <2> QED  BY <1>3, <2>1, <2>2, <2>4
<1>8. {Main, Registry} \subseteq NotWhite
  <2>1. mark[Main] # "free" /\ mark[Registry] # "free" /\ mark[Main] \notin Pale /\ mark[Registry] \notin Pale
    BY <1>1 DEF Sound, TriColour, Gone
  <2> QED  BY <1>3, <2>1, Disjoint
<1>9. isactive \subseteq NotWhite
  <2> DEFINE X == (isactive \ {Main}) \ NotWhite
  <2>1. SUFFICES ASSUME X # {}
                 PROVE  FALSE
    BY <1>8
  <2>2. PICK c \in X : resumer[c] \notin X
    <3>1. X \in SUBSET (isactive \ {Main})
      OBVIOUS
    <3> HIDE DEF X
    <3> QED  BY <1>1, <2>1, <3>1 DEF Chain
  <2>3. resumer[c] \in isactive /\ c \in refs[resumer[c]]
    BY <1>1, <2>2 DEF Chain
  <2>4. resumer[c] \in NotWhite /\ resumer[c] \notin WeakTables
    BY <1>2, <1>8, <2>2, <2>3, Disjoint
  <2>5. c \in NotWhite
    BY <1>6, <2>3, <2>4
  <2> QED  BY <2>2, <2>5
<1>10. \A o \in NotWhite \cap WeakTables : o \in weak
  <2> SUFFICES ASSUME NEW o \in NotWhite, o \in WeakTables
               PROVE  o \in weak
    OBVIOUS
  <2>1. o \notin UpVals /\ o \in Obj /\ o \notin Threads
    BY Disjoint
  <2>2. mark[o] # "black"
    BY <1>1, <2>1 DEF TriColour, BlackDone
  <2>3. o \notin grayagain
    BY <1>1, <2>1 DEF AgainDone
  <2> QED  BY <1>4, <2>1, <2>2, <2>3
<1> QED  BY <1>2, <1>3, <1>6, <1>7, <1>8, <1>9, <1>10

LEMMA FinishAtomicStep ==
  ASSUME IInv, FinishAtomic
  PROVE  IInv'
<1>1. /\ phase = "gray" /\ gray = {} /\ ClearTables /\ ClearUpvals
      /\ mark' = [o \in Obj |-> IF o \in Strings \cap White \cap ValuesOf(weak) THEN "black"
                                ELSE IF o \in Orphans \ White THEN "black"
                                ELSE IF o \in White THEN "dead" ELSE mark[o]]
      /\ unswept' = Allocated \ {Main} /\ gcstate' = "sweep" /\ phase' = "idle"
      /\ held' = held /\ UNCHANGED threads /\ full' = full /\ gray' = gray /\ grayagain' = grayagain
      /\ isactive' = isactive /\ running' = running /\ resumer' = resumer
  BY DEF FinishAtomic, threads
<1>2. /\ TypeOK /\ Freed(mark, refs, home) /\ UpvalColours(mark, home) /\ Sound(mark, refs, home, isactive)
      /\ TriColour(mark, refs, home, markedopen, gray, grayagain, weak)
      /\ \A x \in Obj : mark[x] # "dead"
      /\ Kinds(refs) /\ Chain(refs, isactive, running, resumer) /\ HeldWithUdata
  BY <1>1, AtomicFacts DEF IInv
<1>3. /\ {Main, Registry} \cup isactive \subseteq NotWhite
      /\ \A o \in NotWhite \ WeakTables : \A v \in refs[o] : v \in NotWhite
      /\ \A o \in NotWhite \cap WeakTables : o \in weak
      /\ \A o \in NotWhite \ WeakTables : o \notin weak
  BY <1>1, MarkedIsClosed
<1>4. /\ \A o \in Obj : refs[o] \subseteq Obj
      /\ \A u \in UpVals : home[u] \in Threads \cup {Nil} /\ u \in Obj /\ u \notin Strings
      /\ markedopen \subseteq UpVals /\ weak \subseteq WeakTables /\ isactive \subseteq Threads
      /\ \A o \in Obj : mark[o] \in {"white", "gray", "black", "free"}
  BY <1>2, Disjoint DEF TypeOK
<1>5. /\ \A o \in Obj : o \in White <=> mark[o] = "white"
      /\ \A o \in Obj : o \in NotWhite <=> mark[o] \in {"gray", "black"}
      /\ \A u \in UpVals : u \in Orphans <=> home[u] # Nil /\ u \notin markedopen
  BY <1>4 DEF White, NotWhite, Orphans, IsOpen
<1>6. /\ mark' \in [Obj -> Colours]
      /\ \A o \in Obj : \/ o \in Strings /\ mark[o] = "white" /\ o \in ValuesOf(weak) /\ mark'[o] = "black"
                        \/ o \in Orphans /\ mark[o] # "white" /\ mark'[o] = "black"
                        \/ mark[o] = "white" /\ mark'[o] = "dead"
                           /\ ~(o \in Strings /\ o \in ValuesOf(weak))
                        \/ mark[o] # "white" /\ o \notin Orphans /\ mark'[o] = mark[o]
  BY <1>1, <1>4, <1>5 DEF Colours
<1>7. /\ \A o \in Obj : refs'[o] = IF o \in weak THEN refs[o] \cap (Strings \cup (Obj \ White)) ELSE refs[o]
      /\ refs' \in [Obj -> SUBSET Obj] /\ weak' = {}
  BY <1>1, <1>4 DEF ClearTables
<1>8. /\ \A u \in UpVals : home'[u] = IF u \in Orphans THEN Nil ELSE home[u]
      /\ home' \in [UpVals -> Threads \cup {Nil}]
      /\ markedopen' \subseteq UpVals /\ \A u \in markedopen' : home[u] = Nil
  BY <1>1, <1>4 DEF ClearUpvals, IsOpen
<1>9. \A o \in Obj : refs'[o] \subseteq refs[o]
  BY <1>7
<1>10. /\ \A o \in Obj : mark'[o] = "free" <=> mark[o] = "free"
       /\ \A o \in Obj : o \in NotWhite => mark'[o] \in {"gray", "black"}
       /\ \A o \in Obj : mark'[o] = "dead" => mark[o] = "white"
       /\ \A o \in Obj : mark'[o] \notin Gone => o \in NotWhite \/ (o \in Strings /\ o \in ValuesOf(weak))
  <2>1. \A o \in Orphans : o \in UpVals /\ o \in Obj /\ mark[o] # "free"
    BY <1>2, <1>4, <1>5 DEF Freed, Gone, Orphans
  <2> QED  BY <1>4, <1>5, <1>6, <2>1 DEF Gone
<1> HIDE DEF NotWhite
<1>11. TypeOK'
  BY <1>1, <1>2, <1>6, <1>7, <1>8 DEF TypeOK, Colours, Allocated
<1>12. Kinds(refs')
  <2>1. /\ \A o \in Obj \ Closures : refs'[o] \cap UpVals = {}
        /\ \A o \in Udata : o \in Obj /\ refs[o] \subseteq AllTables
        /\ \A o \in Strings : o \in Obj /\ refs[o] = {}
    BY <1>2, <1>9, Disjoint DEF Kinds
  <2> QED  BY <1>9, <2>1 DEF Kinds
<1>13. Chain(refs', isactive', running', resumer')
  <2>1. \A o \in isactive \ {running} : refs[o] \subseteq refs'[o]
    BY <1>4, <1>7, Disjoint
  <2> QED  BY <1>1, <1>2, <2>1, ChainKept
<1>14. HeldWithUdata'
  BY <1>1, <1>2, <1>10, Disjoint DEF HeldWithUdata
<1>15. Freed(mark', refs', home')
  <2>1. \A o \in Obj : mark'[o] = "free" => refs'[o] = {}
    BY <1>2, <1>7, <1>10 DEF Freed
  <2>2. ASSUME NEW u \in UpVals, mark'[u] \in Gone
        PROVE  home'[u] = Nil
    <3>1. CASE mark[u] = "free"
      BY <1>2, <1>8, <3>1 DEF Freed, Gone
    <3>2. CASE mark[u] = "white"
      <4>1. u \in markedopen => home[u] = Nil
        BY <1>2, <3>2 DEF TriColour, OpenDone
      <4> QED  BY <1>5, <1>8, <4>1
    <3> QED  BY <1>4, <1>10, <2>2, <3>1, <3>2 DEF Gone
  <2> QED  BY <2>1, <2>2 DEF Freed
<1>16. UpvalColours(mark', home')
  BY <1>2, <1>4, <1>6, <1>8 DEF UpvalColours
<1>17. Sound(mark', refs', home', isactive')
  <2>1. \A o \in {Main, Registry} \cup isactive' : mark'[o] \notin Gone
    BY <1>1, <1>3, <1>4, <1>10, Disjoint DEF Gone
  <2>2. ASSUME NEW o \in Obj, mark'[o] \notin Gone, NEW v \in refs'[o]
        PROVE  mark'[v] \notin Gone
    <3>1. o \notin Strings
      BY <1>2, <1>7, <2>2 DEF Kinds
    <3>2. o \in NotWhite /\ v \in refs[o] /\ v \in Obj
      BY <1>4, <1>7, <1>10, <2>2, <3>1
    <3>3. CASE o \in weak
      <4>1. v \in Strings \/ mark[v] # "white"
        BY <1>5, <1>7, <2>2, <3>2, <3>3
      <4>2. mark[v] # "free"
        BY <1>2, <1>5, <3>2 DEF Sound, Gone
      <4>3. v \in ValuesOf(weak)
        BY <3>2, <3>3, ValuesIn
      <4> QED  BY <1>4, <1>5, <1>6, <1>10, <3>2, <4>1, <4>2, <4>3 DEF Gone
    <3>4. CASE o \notin weak
      BY <1>3, <1>10, <3>2, <3>4 DEF Gone
    <3> QED  BY <3>3, <3>4
  <2>3. ASSUME NEW u \in UpVals, home'[u] # Nil
        PROVE  mark'[home'[u]] \notin Gone
    <3>1. u \in markedopen /\ home'[u] = home[u] /\ home[u] # Nil /\ home[u] \in Threads
      BY <1>4, <1>5, <1>8, <2>3
    <3>2. mark[u] = "gray" /\ mark[home[u]] \notin Pale /\ home[u] \in Obj
      BY <1>2, <3>1, Disjoint DEF TriColour, OpenDone
    <3>3. mark[home[u]] \notin Gone
      BY <1>2, <1>4, <3>1, <3>2 DEF Sound, Gone
    <3> QED  BY <1>4, <1>5, <1>10, <3>1, <3>2, <3>3 DEF Pale, Gone
  <2> QED  BY <2>1, <2>2, <2>3 DEF Sound
<1>18. Swept(mark', home', markedopen', gcstate', phase', full', unswept')
  <2>1. ASSUME NEW o \in Obj, mark'[o] # "free"
        PROVE  o \in unswept' \cup {Main}
    BY <1>1, <1>10, <2>1 DEF Allocated
  <2>2. mark'[Main] # "dead"
    BY <1>3, <1>10, Disjoint
  <2>3. \A u \in markedopen' : home'[u] = Nil
    BY <1>8
  <2> QED  BY <1>1, <2>1, <2>2, <2>3 DEF Swept
<1>19. Painted'
  BY <1>1, <1>15, <1>16, <1>17, <1>18 DEF Painted, keepinvariant
<1> QED  BY <1>11, <1>12, <1>13, <1>14, <1>19 DEF IInv

LEMMA SweepStepStep ==
  ASSUME IInv, SweepStep
  PROVE  IInv'
<1>1. PICK o \in unswept :
        LET swept == [mark EXCEPT ![o] = IF @ \in {"dead", "free"} THEN "free" ELSE "white"]
        IN  /\ refs' = IF mark[o] = "dead" THEN [refs EXCEPT ![o] = {}] ELSE refs
            /\ held' = IF mark[o] = "dead" THEN held \ {o} ELSE held
            /\ unswept' = unswept \ {o}
            /\ IF unswept # {o}
               THEN mark' = swept /\ UNCHANGED <<gcstate, full>>
               ELSE /\ mark' = [swept EXCEPT ![Main] = "white"]
                    /\ gcstate' = "pause"
                    /\ full' = IF full = "cycle" THEN "no" ELSE full
  BY DEF SweepStep
<1>2. /\ gcstate = "sweep" /\ home' = home /\ markedopen' = markedopen /\ phase' = phase /\ UNCHANGED threads
      /\ isactive' = isactive /\ running' = running /\ resumer' = resumer
      /\ gray' = gray /\ grayagain' = grayagain /\ weak' = weak
  BY DEF SweepStep, threads, lists
<1>3. /\ TypeOK /\ Freed(mark, refs, home) /\ UpvalColours(mark, home) /\ Sound(mark, refs, home, isactive)
      /\ Swept(mark, home, markedopen, gcstate, phase, full, unswept)
      /\ Kinds(refs) /\ Chain(refs, isactive, running, resumer) /\ HeldWithUdata
      /\ o \in Obj /\ o # Main /\ Main \in Obj /\ Main \notin UpVals \cup Udata /\ phase = "idle"
  <2>1. o \in Obj /\ o # Main /\ Main \in Obj /\ Main \notin UpVals \cup Udata
    BY <1>1, Disjoint DEF IInv, TypeOK, Listed
  <2> QED  BY <1>2, <2>1 DEF IInv, Painted, Swept
<1>4. /\ \A x \in Obj : refs[x] \subseteq Obj
      /\ \A u \in UpVals : home[u] \in Threads \cup {Nil} /\ u \in Obj
      /\ isactive \subseteq Threads /\ mark \in [Obj -> Colours]
      /\ mark[Main] \notin Gone /\ unswept \subseteq Obj
  BY <1>3, Disjoint DEF TypeOK, Sound, Colours
<1>5. /\ \A x \in Obj : \/ x = o /\ mark[o] \in Gone /\ mark'[x] = "free"
                        \/ x = o /\ mark[o] \notin Gone /\ mark'[x] = "white"
                        \/ x = Main /\ mark'[x] = "white" /\ gcstate' = "pause"
                        \/ x # o /\ mark'[x] = mark[x] /\ (x = Main => unswept # {o})
      /\ mark' \in [Obj -> Colours]
  BY <1>1, <1>3, <1>4 DEF Gone, Colours
<1>6. /\ unswept' = unswept \ {o}
      /\ unswept # {o} => gcstate' = "sweep" /\ full' = full
      /\ unswept = {o} => gcstate' = "pause" /\ full' = IF full = "cycle" THEN "no" ELSE full
  BY <1>1, <1>2
<1>7. \A x \in Obj : refs'[x] = IF x = o /\ mark[o] = "dead" THEN {} ELSE refs[x]
  BY <1>1, <1>3 DEF TypeOK
<1>8. \A x \in Obj : /\ mark'[x] \in Gone <=> mark[x] \in Gone
                     /\ mark'[x] = "free" <=> mark[x] = "free" \/ (x = o /\ mark[o] = "dead")
                     /\ mark'[x] \in {"white", "free"} \/ (x # o /\ mark'[x] = mark[x])
  BY <1>3, <1>4, <1>5 DEF Gone
<1>9. TypeOK'
  <2>1. refs' \in [Obj -> SUBSET Obj] /\ held' \subseteq Udata
    BY <1>1, <1>3 DEF TypeOK
  <2>2. /\ gcstate' \in {"pause", "propagate", "propagateagain", "atomic", "sweep", "closed"}
        /\ full' \in {"no", "sweep", "cycle"} /\ unswept' \subseteq Obj \ {Main}
    BY <1>3, <1>6 DEF TypeOK
  <2> QED  BY <1>2, <1>3, <1>5, <2>1, <2>2 DEF TypeOK, Colours
<1>10. Kinds(refs')
  BY <1>3, <1>7, Disjoint DEF Kinds
<1>11. Chain(refs', isactive', running', resumer')
  <2>1. \A x \in isactive \ {running} : refs[x] \subseteq refs'[x]
    BY <1>3, <1>4, <1>7, Disjoint DEF Sound, Gone
  <2> QED  BY <1>2, <1>3, <2>1, ChainKept
<1>12. HeldWithUdata'
  <2>1. \A u \in Udata : u \in held' <=> u \in held /\ ~(u = o /\ mark[o] = "dead")
    BY <1>1
  <2>2. \A u \in Udata : u \in Obj /\ (u \in held <=> mark[u] # "free")
    BY <1>3, Disjoint DEF HeldWithUdata
  <2> QED  BY <1>8, <1>9, <2>1, <2>2 DEF HeldWithUdata, TypeOK
<1>13. Freed(mark', refs', home')
  BY <1>2, <1>3, <1>4, <1>7, <1>8 DEF Freed
<1>14. UpvalColours(mark', home')
  BY <1>2, <1>3, <1>4, <1>8 DEF UpvalColours
<1>15. Sound(mark', refs', home', isactive')
  <2>1. isactive \subseteq Obj /\ Registry \in Obj /\ \A u \in UpVals : home[u] \in Obj \cup {Nil}
    BY <1>4, Disjoint
  <2> QED  BY <1>2, <1>3, <1>4, <1>7, <1>8, <2>1 DEF Sound
<1>16. Swept(mark', home', markedopen', gcstate', phase', full', unswept')
  <2>1. ASSUME NEW x \in Obj, mark'[x] = "dead"
        PROVE  gcstate' = "sweep" /\ x \in unswept'
    <3>1. x # o /\ mark[x] = "dead"
      BY <1>8, <2>1
    <3>2. x \in unswept
      BY <1>3, <3>1 DEF Swept
    <3> QED  BY <1>6, <3>1, <3>2
  <2>2. ASSUME gcstate' = "pause", NEW x \in Obj
        PROVE  mark'[x] \in {"white", "free"}
    <3>1. unswept = {o}
      BY <1>6, <2>2
    <3>2. CASE x = Main
      BY <1>3, <1>5, <3>1, <3>2
    <3>3. CASE x # Main /\ x # o
      <4>1. x \notin unswept
        BY <3>1, <3>3
      <4>2. mark'[x] = mark[x]
        BY <1>5, <3>3
      <4>3. mark[x] \notin {"dead", "gray", "black"}
        BY <1>2, <1>3, <3>3, <4>1 DEF Swept
      <4> QED  BY <1>4, <4>2, <4>3 DEF Colours
    <3>4. CASE x = o
      BY <1>8, <3>4
    <3> QED  BY <3>2, <3>3, <3>4
  <2>3. ASSUME NEW x \in Obj, mark'[x] \in {"gray", "black"}
        PROVE  x \in unswept' \cup {Main}
    <3>1. x # o /\ mark[x] = mark'[x]
      BY <1>8, <2>3
    <3>2. x \in unswept \cup {Main}
      BY <1>2, <1>3, <2>3, <3>1 DEF Swept
    <3> QED  BY <1>6, <3>1, <3>2
  <2>4. full' # "sweep" => \A u \in markedopen' : home'[u] = Nil
    BY <1>2, <1>3, <1>6 DEF Swept
  <2> QED  BY <1>2, <1>3, <1>6, <2>1, <2>2, <2>3, <2>4 DEF Swept
<1>17. ~keepinvariant'
  BY <1>6 DEF keepinvariant
<1>18. Painted'
  BY <1>2, <1>3, <1>13, <1>14, <1>15, <1>16, <1>17 DEF Painted
<1> QED  BY <1>9, <1>10, <1>11, <1>12, <1>18 DEF IInv

LEMMA FullGCStep ==
  ASSUME IInv, FullGC
  PROVE  IInv'
<1>1. /\ gcstate # "closed" /\ phase = "idle" /\ full' = "sweep"
      /\ mark' = mark /\ refs' = refs /\ home' = home /\ held' = held /\ markedopen' = markedopen
      /\ UNCHANGED threads /\ phase' = phase /\ isactive' = isactive
  BY DEF FullGC, heap, threads
<1>2. /\ TypeOK /\ Freed(mark, refs, home) /\ UpvalColours(mark, home) /\ Sound(mark, refs, home, isactive)
      /\ Swept(mark, home, markedopen, gcstate, phase, full, unswept)
      /\ keepinvariant => TriColour(mark, refs, home, markedopen, gray, grayagain, weak)
  BY <1>1 DEF IInv, Painted
<1>3. CASE keepinvariant
  <2>1. gcstate' = "sweep" /\ unswept' = Allocated \ {Main} /\ gray' = {} /\ grayagain' = {} /\ weak' = {}
    BY <1>3 DEF FullGC
  <2>2. \A o \in Obj : mark[o] # "dead"
    BY <1>2, <1>3 DEF Swept, keepinvariant
  <2>3. Swept(mark', home', markedopen', gcstate', phase', full', unswept')
    BY <1>1, <2>1, <2>2 DEF Swept, Allocated
  <2>4. Painted'
    BY <1>1, <1>2, <2>1, <2>3 DEF Painted, keepinvariant
  <2>5. /\ mark' \in [Obj -> Colours] /\ \A o \in Obj : mark'[o] = "free" <=> mark[o] = "free"
        /\ UNCHANGED <<refs, home, held, threads>>
        /\ markedopen' \subseteq UpVals /\ unswept' \subseteq Obj \ {Main}
        /\ gray' \subseteq Listed /\ grayagain' \subseteq Listed /\ weak' \subseteq WeakTables
        /\ gcstate' \in {"pause", "propagate", "propagateagain", "atomic", "sweep", "closed"}
        /\ phase' \in {"idle", "upvals", "weak", "gray"} /\ full' \in {"no", "sweep", "cycle"}
    BY <1>1, <1>2, <2>1 DEF TypeOK, Colours, Allocated
  <2> QED  BY <2>4, <2>5, MarkedStep
<1>4. CASE ~keepinvariant
  <2>1. UNCHANGED <<gcstate, unswept, gray, grayagain, weak>>
    BY <1>4 DEF FullGC, lists
  <2>2. Swept(mark', home', markedopen', gcstate', phase', full', unswept')
    BY <1>1, <1>2, <2>1 DEF Swept
  <2>3. Painted'
    BY <1>1, <1>2, <1>4, <2>1, <2>2 DEF Painted, keepinvariant
  <2>4. /\ mark' \in [Obj -> Colours] /\ \A o \in Obj : mark'[o] = "free" <=> mark[o] = "free"
        /\ UNCHANGED <<refs, home, held, threads>>
        /\ markedopen' \subseteq UpVals /\ unswept' \subseteq Obj \ {Main}
        /\ gray' \subseteq Listed /\ grayagain' \subseteq Listed /\ weak' \subseteq WeakTables
        /\ gcstate' \in {"pause", "propagate", "propagateagain", "atomic", "sweep", "closed"}
        /\ phase' \in {"idle", "upvals", "weak", "gray"} /\ full' \in {"no", "sweep", "cycle"}
    BY <1>1, <1>2, <2>1 DEF TypeOK, Colours
  <2> QED  BY <2>3, <2>4, MarkedStep
<1> QED  BY <1>3, <1>4

LEMMA CloseStep ==
  ASSUME IInv, Close
  PROVE  IInv'
<1>1. /\ running = Main /\ gcstate' = "closed" /\ phase = "idle" /\ phase' = phase
      /\ mark' = [o \in Obj |-> "free"] /\ refs' = [o \in Obj |-> {}] /\ home' = [u \in UpVals |-> Nil]
      /\ held' = {} /\ unswept' = {} /\ markedopen' = markedopen /\ full' = full
      /\ isactive' = isactive /\ running' = running /\ resumer' = resumer
      /\ gray' = gray /\ grayagain' = grayagain /\ weak' = weak
  BY DEF Close, threads, lists
<1>2. TypeOK /\ Chain(refs, isactive, running, resumer)
  BY DEF IInv
<1>3. TypeOK'
  BY <1>1, <1>2 DEF TypeOK
<1>4. \A o \in Obj : mark'[o] = "free" /\ refs'[o] = {}
  BY <1>1
<1>5. Kinds(refs')
  BY <1>4, Disjoint DEF Kinds
<1>6. isactive = {Main}
  <2> DEFINE X == isactive \ {Main}
  <2>1. \A c \in X : resumer[c] \in X
    BY <1>1, <1>2 DEF Chain
  <2>2. X = {}
    BY <1>2, <2>1 DEF Chain
  <2> QED  BY <1>2, <2>2 DEF Chain
<1>7. Chain(refs', isactive', running', resumer')
  BY <1>1, <1>6 DEF Chain
<1>8. HeldWithUdata'
  BY <1>1, <1>4, Disjoint DEF HeldWithUdata
<1>9. \A u \in UpVals : mark'[u] = "free" /\ home'[u] = Nil
  BY <1>1, <1>4, Disjoint
<1>10. Painted'
  <2>1. Freed(mark', refs', home') /\ UpvalColours(mark', home')
    BY <1>4, <1>9 DEF Freed, UpvalColours
  <2>2. Swept(mark', home', markedopen', gcstate', phase', full', unswept')
    BY <1>1, <1>4 DEF Swept
  <2> QED  BY <1>1, <2>1, <2>2 DEF Painted, keepinvariant
<1> QED  BY <1>3, <1>5, <1>7, <1>8, <1>10 DEF IInv
-----------------------------------------------------------------------------
LEMMA InitKeeps ==
  ASSUME Init
  PROVE  IInv
<1>1. /\ \A o \in Obj : mark[o] = (IF o \in {Main, Registry} THEN "white" ELSE "free") /\ refs[o] = {}
      /\ \A u \in UpVals : home[u] = Nil
      /\ gcstate = "pause" /\ phase = "idle" /\ full = "no" /\ markedopen = {} /\ held = {} /\ isactive = {Main}
  BY DEF Init
<1>2. TypeOK
  BY Disjoint DEF Init, TypeOK
<1>3. Kinds(refs)
  BY <1>1, Disjoint DEF Kinds
<1>4. Chain(refs, isactive, running, resumer)
  BY <1>1 DEF Chain
<1>5. HeldWithUdata
  BY <1>1, Disjoint DEF HeldWithUdata, Listed
<1>6. Painted
  <2>1. Freed(mark, refs, home) /\ UpvalColours(mark, home)
    BY <1>1, Disjoint DEF Freed, UpvalColours
  <2>2. Sound(mark, refs, home, isactive)
    BY <1>1, Disjoint DEF Sound, Gone
  <2>3. Swept(mark, home, markedopen, gcstate, phase, full, unswept)
    BY <1>1 DEF Swept
  <2> QED  BY <1>1, <2>1, <2>2, <2>3 DEF Painted, keepinvariant
<1> QED  BY <1>2, <1>3, <1>4, <1>5, <1>6 DEF IInv

LEMMA ProgramKeeps ==
  ASSUME IInv, Program
  PROVE  IInv'
<1>1. gcstate # "closed"
  BY DEF Program, Mutator, Push, Pop, NewObject, NewUserData, PushString, NewClosure, Store, Erase,
         SetMetatable, SetTableMetatable, CaptureLocal, SetUpvalue, CloseUpvalue, Resume, Suspend
<1>2. /\ \A v \in InHand : v \in Obj \ UpVals /\ mark[v] \notin Gone
      /\ \A u \in Upvalues : u \in Obj /\ mark[u] \notin Gone
  BY <1>1, HandFacts, Disjoint
<1>3. ASSUME NEW th \in Handles, NEW v \in Readable, Push(th, v)  PROVE  IInv'
  BY <1>3, PushStep
<1>4. ASSUME NEW th \in Handles, NEW v \in refs[th], Pop(th, v)  PROVE  IInv'
  BY <1>4, PopStep
<1>5. ASSUME NEW th \in Handles, NEW o \in Obj, NewObject(th, o)  PROVE  IInv'
  BY <1>5, NewObjectStep
<1>6. ASSUME NEW th \in Handles, NEW u \in Udata, NewUserData(th, u)  PROVE  IInv'
  BY <1>6, NewUserDataStep
<1>7. ASSUME NEW th \in Handles, NEW s \in Strings, PushString(th, s)  PROVE  IInv'
  BY <1>7, PushStringStep
<1>8. ASSUME NEW th \in Handles, NEW c \in Closures,
             NewClosure(th, c, {}) \/ \E v \in InHand : NewClosure(th, c, {v})
      PROVE  IInv'
  <2>1. CASE NewClosure(th, c, {})
    <3>1. {} \in SUBSET Obj /\ \A v \in {} : mark[v] \notin Gone
      OBVIOUS
    <3> QED  BY <2>1, <3>1, NewClosureStep
  <2>2. ASSUME NEW v \in InHand, NewClosure(th, c, {v})
        PROVE  IInv'
    <3>1. {v} \in SUBSET Obj /\ \A w \in {v} : mark[w] \notin Gone
      BY <1>2
    <3> QED  BY <2>2, <3>1, NewClosureStep
  <2> QED  BY <1>8, <2>1, <2>2
<1>9. ASSUME NEW t \in TablesInHand, NEW v \in InHand, Store(t, v)  PROVE  IInv'
  BY <1>9, StoreStep
<1>10. ASSUME NEW t \in TablesInHand, NEW v \in refs[t], Erase(t, v)  PROVE  IInv'
  BY <1>10, EraseStep
<1>11. ASSUME NEW u \in InHand \cap Udata, NEW mt \in InHand \cap AllTables, SetMetatable(u, mt)  PROVE  IInv'
  BY <1>11, SetMetatableStep
<1>18. ASSUME NEW t \in TablesInHand \ WeakTables, NEW mt \in InHand \cap AllTables, SetTableMetatable(t, mt)
       PROVE  IInv'
  BY <1>18, SetTableMetatableStep
<1>12. ASSUME NEW c \in Closures, NEW u \in UpVals,
              CaptureLocal(c, u, {}) \/ \E v \in InHand : CaptureLocal(c, u, {v})
       PROVE  IInv'
  <2>1. CASE CaptureLocal(c, u, {})
    <3>1. {} \in SUBSET (Obj \ UpVals) /\ \A v \in {} : mark[v] \notin Gone
      OBVIOUS
    <3> QED  BY <2>1, <3>1, CaptureLocalStep
  <2>2. ASSUME NEW v \in InHand, CaptureLocal(c, u, {v})
        PROVE  IInv'
    <3>1. {v} \in SUBSET (Obj \ UpVals) /\ \A w \in {v} : mark[w] \notin Gone
      BY <1>2
    <3> QED  BY <2>2, <3>1, CaptureLocalStep
  <2> QED  BY <1>12, <2>1, <2>2
<1>13. ASSUME NEW u \in Upvalues, NEW c \in Closures, NewClosure(running, c, {u})  PROVE  IInv'
  <2>1. running \in Handles /\ {u} \in SUBSET Obj /\ \A v \in {u} : mark[v] \notin Gone
    BY <1>2 DEF Handles
  <2> QED  BY <1>13, <2>1, NewClosureStep
<1>14. ASSUME NEW u \in Upvalues, SetUpvalue(u, {}) \/ \E v \in InHand : SetUpvalue(u, {v})  PROVE  IInv'
  <2>1. PICK val : SetUpvalue(u, val) /\ (val = {} \/ \E v \in InHand : val = {v})
    BY <1>14
  <2> QED  BY <2>1, SetUpvalueStep
<1>15. ASSUME NEW th \in Handles, NEW u \in Open(th), CloseUpvalue(u)  PROVE  IInv'
  BY <1>15, CloseUpvalueStep
<1>16. ASSUME NEW co \in refs[running] \cap Coroutines, Resume(co)  PROVE  IInv'
  BY <1>16, ResumeStep
<1>17. CASE Suspend
  BY <1>17, SuspendStep
<1> QED  BY <1>3, <1>4, <1>5, <1>6, <1>7, <1>8, <1>9, <1>10, <1>11, <1>12, <1>13, <1>14, <1>15, <1>16, <1>17,
            <1>18 DEF Program

LEMMA CollectorKeeps ==
  ASSUME IInv, GCStep
  PROVE  IInv'
<1>1. CASE StartCycle
  BY <1>1, StartCycleStep
<1>2. CASE PropagateStep
  BY <1>2, PropagateStepStep
<1>3. CASE RemarkUpvals
  BY <1>3, RemarkUpvalsStep
<1>4. CASE PropagateAll
  BY <1>4, PropagateAllStep
<1>5. CASE RemarkWeak
  BY <1>5, RemarkWeakStep
<1>6. CASE RemarkGray
  BY <1>6, RemarkGrayStep
<1>7. CASE FinishAtomic
  BY <1>7, FinishAtomicStep
<1>8. CASE SweepStep
  BY <1>8, SweepStepStep
<1>9. CASE FullCycle
  BY <1>9, FullCycleStep
<1> QED  BY <1>1, <1>2, <1>3, <1>4, <1>5, <1>6, <1>7, <1>8, <1>9 DEF GCStep

LEMMA StepKeeps ==
  ASSUME IInv, [Next]_vars
  PROVE  IInv'
<1>1. CASE Program
  BY <1>1, ProgramKeeps
<1>2. CASE GCStep
  BY <1>2, CollectorKeeps
<1>3. CASE FullGC
  BY <1>3, FullGCStep
<1>4. CASE Close
  BY <1>4, CloseStep
<1>5. CASE UNCHANGED vars
  <2>1. UNCHANGED <<mark, refs, home, held, markedopen, isactive, running, resumer, gcstate, phase, full,
                    unswept, gray, grayagain, weak>>
    BY <1>5 DEF vars, heap, threads, cycle, lists
  <2> QED  BY <2>1 DEF IInv, TypeOK, HeldWithUdata, Painted, keepinvariant
<1> QED  BY <1>1, <1>2, <1>3, <1>4, <1>5 DEF Next
-----------------------------------------------------------------------------
LEMMA Inductive == Spec => []IInv
<1>1. Init => IInv
  BY InitKeeps
<1>2. IInv /\ [Next]_vars => IInv'
  BY StepKeeps
<1> QED  BY <1>1, <1>2, PTL DEF Spec

(* The lists, colours and flags of the collector keep their types in every *)
(* state: no list ever holds an object without a list link (propagatemark, *)
(* luaC_barrierback), and the sweep is never given the main thread.        *)
THEOREM TypeCorrect == Spec => []TypeOK
<1>1. IInv => TypeOK
  BY DEF IInv
<1> QED  BY <1>1, Inductive, PTL

LEMMA LiveIsClosed ==
  ASSUME IInv, gcstate # "closed"
  PROVE  /\ {Main, Registry} \cup isactive \subseteq Live
         /\ \A o \in Live : refs[o] \subseteq Live
         /\ \A o \in Live : o \in Threads => Open(o) \subseteq Live
         /\ \A u \in Live : u \in UpVals /\ home[u] # Nil => home[u] \in Live
<1>1. TypeOK /\ Freed(mark, refs, home) /\ Sound(mark, refs, home, isactive)
  BY DEF IInv, Painted
<1>2. \A o : o \in Live <=> o \in Obj /\ mark[o] \notin Gone
  BY DEF Live, Allocated, Gone
<1>3. /\ \A o \in Obj : refs[o] \subseteq Obj
      /\ \A u \in UpVals : home[u] \in Threads \cup {Nil} /\ u \in Obj
      /\ isactive \subseteq Obj /\ Nil \notin Threads
  BY <1>1, Disjoint DEF TypeOK
<1>4. {Main, Registry} \cup isactive \subseteq Live
  BY <1>1, <1>2, <1>3, Disjoint DEF Sound
<1>5. \A o \in Live : refs[o] \subseteq Live
  BY <1>1, <1>2, <1>3 DEF Sound
<1>6. \A o \in Threads : \A u \in Open(o) : u \in Live
  BY <1>1, <1>2, <1>3, Disjoint DEF Freed, Open
<1>7. \A u \in Live : u \in UpVals /\ home[u] # Nil => home[u] \in Live
  BY <1>1, <1>2, <1>3, Disjoint DEF Sound
<1> QED  BY <1>4, <1>5, <1>6, <1>7

(* Nothing refers to freed or dying memory, whatever the program did between *)
(* the steps of the collector: the barriers of lgc.cpp, the revival of dead  *)
(* strings (luaS_newlstr), remarkupvals, clearupvals and cleartable, taken   *)
(* together, leave no pointer to a block that was freed or will be.          *)
THEOREM Memory == Spec => []NoDangling
<1>1. ASSUME IInv, gcstate # "closed", NEW o \in Live
      PROVE  Needs(o) \subseteq Live
  <2>1. refs[o] \subseteq Live
    BY <1>1, LiveIsClosed
  <2>2. o \in Threads => Open(o) \subseteq Live
    BY <1>1, LiveIsClosed
  <2>3. o \in UpVals => {home[o]} \ {Nil} \subseteq Live
    BY <1>1, LiveIsClosed
  <2> QED  BY <2>1, <2>2, <2>3 DEF Needs
<1>2. IInv => NoDangling
  BY <1>1, LiveIsClosed DEF NoDangling
<1> QED  BY <1>2, Inductive, PTL

(* While marking, a black object refers to no white one, but for the captured *)
(* slots of a suspended thread, whose upvalues are gray and will be remarked: *)
(* what validateobjref asserts in the builds that check it.                    *)
THEOREM Invariant == Spec => []BlackToWhite
<1>1. IInv => BlackToWhite
  <2> SUFFICES ASSUME IInv, keepinvariant, NEW o \in Obj, mark[o] = "black"
               PROVE  /\ Children(o) \cap White \subseteq (IF o \in Threads THEN ValuesOf(Open(o)) ELSE {})
                      /\ o \in Threads => \A u \in Open(o) : mark[u] = "gray" /\ u \in markedopen
    BY DEF BlackToWhite
  <2>1. BlackDone(mark, refs, home, markedopen)
    BY DEF IInv, Painted, TriColour
  <2>2. \A v \in refs[o] : v \notin White
    BY <2>1 DEF BlackDone, White, Pale
  <2>3. \A u \in Open(o) : mark[u] = "gray" /\ u \in markedopen /\ u \notin White
    BY <2>1 DEF BlackDone, Open, White
  <2> QED  BY <2>2, <2>3 DEF Children
<1> QED  BY <1>1, Inductive, PTL

(* The gray lists, which are chained through one field of the object, never  *)
(* share a member, and hold the gray objects that have such a field and      *)
(* nothing else (validategraylist).                                          *)
THEOREM Lists == Spec => []GrayLists
<1>1. IInv => GrayLists
  BY DEF IInv, Painted, TriColour, GrayIn, GrayLists
<1> QED  BY <1>1, Inductive, PTL

(* The JNI global reference of a userdata exists exactly as long as its block, *)
(* however the block goes: swept after a collection, or with lua_close         *)
(* (nativeNewUserData's NewGlobalRef, jobject_dtor's DeleteGlobalRef).         *)
THEOREM References == Spec => []HeldWithUdata
<1>1. IInv => HeldWithUdata
  BY DEF IInv
<1> QED  BY <1>1, Inductive, PTL
-----------------------------------------------------------------------------
(* Only the sweep frees a block, and lua_close. *)
LEMMA MarkingFreesNothing ==
  ASSUME NEW S, NEW o \in Obj, MarkOf(S)[o] = "free"
  PROVE  mark[o] = "free"
  BY DEF MarkOf

LEMMA ForwardBarrierFreesNothing ==
  ASSUME TypeOK, NEW x, NEW v, ForwardBarrier(x, v), NEW o \in Obj, mark'[o] = "free"
  PROVE  mark[o] = "free"
  BY MarkingFreesNothing DEF ForwardBarrier, MarkObjects, TypeOK

LEMMA ThreadBarrierFreesNothing ==
  ASSUME TypeOK, NEW th, ThreadBarrier(th), NEW o \in Obj, mark'[o] = "free"
  PROVE  mark[o] = "free"
  BY DEF ThreadBarrier, BackBarrier, TypeOK

LEMMA TableBarrierFreesNothing ==
  ASSUME TypeOK, NEW t, NEW v, TableBarrier(t, v), NEW o \in Obj, mark'[o] = "free"
  PROVE  mark[o] = "free"
  BY MarkingFreesNothing DEF TableBarrier, BackBarrier, MarkObjects, TypeOK

LEMMA PushedFreesNothing ==
  ASSUME NEW th, NEW news, Pushed(th, news), NEW o \in Obj, mark'[o] = "free"
  PROVE  mark[o] = "free"
  BY DEF Pushed

LEMMA ProgramFreesNothing ==
  ASSUME IInv, Program, NEW o \in Obj, mark'[o] = "free"
  PROVE  mark[o] = "free"
<1>1. TypeOK
  BY DEF IInv
<1>2. ASSUME mark' = mark  PROVE mark[o] = "free"
  BY <1>2
<1>3. ASSUME NEW th, NEW news, Pushed(th, news)  PROVE mark[o] = "free"
  BY <1>3, PushedFreesNothing
<1>4. ASSUME NEW th, ThreadBarrier(th)  PROVE mark[o] = "free"
  BY <1>1, <1>4, ThreadBarrierFreesNothing
<1>5. ASSUME NEW t, NEW v, TableBarrier(t, v)  PROVE mark[o] = "free"
  BY <1>1, <1>5, TableBarrierFreesNothing
<1>6. ASSUME NEW x, NEW v, ForwardBarrier(x, v)  PROVE mark[o] = "free"
  BY <1>1, <1>6, ForwardBarrierFreesNothing
<1>7. ASSUME NEW u, CloseUpvalue(u)  PROVE mark[o] = "free"
  BY <1>1, <1>7, MarkingFreesNothing DEF CloseUpvalue, TypeOK, MarkOf
<1>8. ASSUME NEW u, NEW val, SetUpvalue(u, val)  PROVE mark[o] = "free"
  BY <1>2, <1>6, <1>8 DEF SetUpvalue
<1>9. ASSUME NEW th, NEW s, PushString(th, s)  PROVE mark[o] = "free"
  BY <1>3, <1>4, <1>9 DEF PushString, Created
<1>10. ASSUME NEW th, NEW v, Push(th, v)  PROVE mark[o] = "free"
  BY <1>4, <1>10 DEF Push
<1>11. ASSUME NEW th, NEW v, Pop(th, v) \/ Erase(th, v)  PROVE mark[o] = "free"
  BY <1>2, <1>11 DEF Pop, Erase
<1>12. ASSUME NEW th, NEW x, NEW cap, NewObject(th, x) \/ NewUserData(th, x) \/ NewClosure(th, x, cap)
       PROVE  mark[o] = "free"
  BY <1>3, <1>12 DEF NewObject, NewUserData, NewClosure, Created
<1>13. ASSUME NEW c, NEW u, NEW val, CaptureLocal(c, u, val)  PROVE mark[o] = "free"
  BY <1>3, <1>13 DEF CaptureLocal
<1>14. ASSUME NEW t, NEW v, Store(t, v)  PROVE mark[o] = "free"
  BY <1>5, <1>14 DEF Store
<1>15. ASSUME NEW u, NEW mt, SetMetatable(u, mt) \/ SetTableMetatable(u, mt)  PROVE mark[o] = "free"
  BY <1>6, <1>15 DEF SetMetatable, SetTableMetatable
<1>16. ASSUME NEW co, Resume(co)  PROVE mark[o] = "free"
  BY <1>4, <1>16 DEF Resume
<1>17. ASSUME Suspend  PROVE mark[o] = "free"
  BY <1>2, <1>17 DEF Suspend
<1> QED  BY <1>7, <1>8, <1>9, <1>10, <1>11, <1>12, <1>13, <1>14, <1>15, <1>16, <1>17 DEF Program

LEMMA CollectorFreesTheDead ==
  ASSUME IInv, GCStep, NEW o \in Obj, mark[o] # "free", mark'[o] = "free"
  PROVE  gcstate = "sweep" /\ mark[o] = "dead"
<1>1. TypeOK /\ \A S : MarkOf(S)[o] # "free"
  BY MarkingFreesNothing DEF IInv
<1>2. ~MarkRoot
  BY <1>1 DEF MarkRoot
<1>3. ~RemarkUpvals /\ ~RemarkWeak /\ ~RemarkGray
  BY <1>1 DEF RemarkUpvals, RemarkWeak, RemarkGray, MarkObjects
<1>4. \A x : ~Propagate(x)
  <2> SUFFICES ASSUME NEW x, Propagate(x)
               PROVE  FALSE
    OBVIOUS
  <2>1. mark' = [MarkOf(Children(x)) EXCEPT ![x] = IF x \in WeakTables \cup {th \in Threads : StaysActive(th)}
                                                   THEN "gray" ELSE "black"]
    BY DEF Propagate, Propagated
  <2>2. DOMAIN MarkOf(Children(x)) = Obj
    BY DEF MarkOf
  <2> QED  BY <1>1, <2>1, <2>2
<1>5. ~FinishAtomic
  BY DEF FinishAtomic
<1>6. CASE SweepStep
  <2>1. gcstate = "sweep" /\ mark[Main] \in Colours /\ Main \in Obj
    BY <1>1, <1>6, Disjoint DEF SweepStep, TypeOK, Colours
  <2>2. PICK x \in unswept :
          \/ mark' = [mark EXCEPT ![x] = IF @ \in {"dead", "free"} THEN "free" ELSE "white"]
          \/ mark' = [[mark EXCEPT ![x] = IF @ \in {"dead", "free"} THEN "free" ELSE "white"]
                        EXCEPT ![Main] = "white"]
    BY <1>6 DEF SweepStep
  <2>3. o = x /\ mark[x] \in {"dead", "free"}
    BY <1>1, <2>1, <2>2 DEF TypeOK
  <2> QED  BY <2>1, <2>3
<1> QED  BY <1>2, <1>3, <1>4, <1>5, <1>6 DEF GCStep, StartCycle, FullCycle, PropagateStep, PropagateAll

LEMMA DeadIsGarbage ==
  ASSUME IInv, gcstate # "closed", NEW o \in Obj, mark[o] = "dead"
  PROVE  Garbage(o)
<1>1. /\ {Main, Registry} \cup isactive \subseteq Live
      /\ \A x \in Live : refs[x] \subseteq Live
      /\ \A x \in Live : x \in Threads => Open(x) \subseteq Live
  BY LiveIsClosed
<1>2. Live \in SUBSET (Obj \ {o})
  BY DEF Live, Allocated
<1>3. \A x \in Live : Children(x) \subseteq Live
  <2> SUFFICES ASSUME NEW x \in Live
               PROVE  Children(x) \subseteq Live
    OBVIOUS
  <2>1. CASE x \in Threads
    <3>1. ValuesOf(Open(x)) \subseteq Live
      BY <1>1, <2>1, ValuesIn
    <3> QED  BY <1>1, <2>1, <3>1 DEF Children
  <2>2. CASE x \notin Threads
    BY <1>1, <2>2 DEF Children
  <2> QED  BY <2>1, <2>2
<1> QED  BY <1>1, <1>2, <1>3 DEF Garbage, Closed

(* The sweep frees only what no path from the roots reaches at that moment. *)
(* Marking took many steps and the program ran between them: the barriers   *)
(* (luaC_barrierf, luaC_barrierback, luaC_barriertable, luaC_upvalclosed)   *)
(* and the second look of the atomic step make up for all it did.           *)
THEOREM FreesOnlyGarbage == Spec => OnlyGarbageFreed
<1>1. ASSUME IInv, [Next]_vars, NEW o \in Obj, mark[o] # "free", mark'[o] = "free", gcstate' # "closed"
      PROVE  Garbage(o)
  <2>1. ~Program
    BY <1>1, ProgramFreesNothing
  <2>2. ~FullGC
    BY <1>1 DEF FullGC
  <2>3. ~Close
    BY <1>1 DEF Close
  <2>4. mark' # mark
    BY <1>1
  <2>5. GCStep
    BY <1>1, <2>1, <2>2, <2>3, <2>4 DEF Next, vars
  <2>6. gcstate = "sweep" /\ mark[o] = "dead"
    BY <1>1, <2>5, CollectorFreesTheDead
  <2> QED  BY <1>1, <2>6, DeadIsGarbage
<1>2. IInv /\ [Next]_vars =>
        [\A o \in Obj : mark[o] # "free" /\ mark'[o] = "free" /\ gcstate' # "closed" => Garbage(o)]_vars
  BY <1>1
<1> QED  BY <1>2, Inductive, PTL DEF Spec, OnlyGarbageFreed

LEMMA WhiteIsGarbage ==
  ASSUME IInv, phase = "gray", gray = {}, NEW o \in White
  PROVE  Garbage(o)
<1>1. /\ {Main, Registry} \cup isactive \subseteq NotWhite
      /\ \A x \in NotWhite \ WeakTables : \A v \in refs[x] : v \in NotWhite
      /\ \A x \in NotWhite \cap Threads : \A u \in UpVals : home[u] = x => u \in NotWhite
  BY MarkedIsClosed
<1>2. NotWhite \in SUBSET (Obj \ {o})
  BY DEF NotWhite, White
<1>3. \A x \in NotWhite : Children(x) \subseteq NotWhite
  <2> SUFFICES ASSUME NEW x \in NotWhite
               PROVE  Children(x) \subseteq NotWhite
    OBVIOUS
  <2>1. CASE x \in Threads
    <3>1. \A u \in Open(x) : u \in NotWhite /\ u \notin WeakTables
      BY <1>1, <2>1, Disjoint DEF Open
    <3>2. \A v \in ValuesOf(Open(x)) : v \in NotWhite
      BY <1>1, <3>1, ValuesIn
    <3> QED  BY <1>1, <2>1, <3>1, <3>2 DEF Children
  <2>2. CASE x \notin Threads
    BY <1>1, <2>2 DEF Children
  <2> QED  BY <2>1, <2>2
<1> QED  BY <1>1, <1>2, <1>3 DEF Garbage, Closed

(* A step of the collector changes nothing the program can reach, but that   *)
(* weak tables lose entries, other than strings, which no path leads to: what *)
(* cleartable takes out is what the whole marking never found.               *)
THEOREM ForgetsOnlyGarbage == Spec => OnlyGarbageForgotten
<1>1. ASSUME IInv, GCStep, NEW o \in Obj, refs'[o] # refs[o]
      PROVE  \/ Garbage(o)
             \/ /\ o \in WeakTables /\ refs'[o] \subseteq refs[o]
                /\ \A v \in refs[o] \ refs'[o] : v \notin Strings /\ Garbage(v)
  <2>1. TypeOK /\ refs' # refs
    BY <1>1 DEF IInv
  <2>2. SweepStep \/ FinishAtomic
    BY <1>1, <2>1 DEF GCStep, StartCycle, PropagateStep, RemarkUpvals, PropagateAll, RemarkWeak, RemarkGray,
                      FullCycle, heap
  <2>3. CASE SweepStep
    <3>1. PICK x \in unswept : refs' = IF mark[x] = "dead" THEN [refs EXCEPT ![x] = {}] ELSE refs
      BY <2>3 DEF SweepStep
    <3>2. o = x /\ mark[o] = "dead" /\ gcstate # "closed"
      BY <1>1, <2>1, <2>3, <3>1 DEF SweepStep, TypeOK
    <3> QED  BY <1>1, <3>2, DeadIsGarbage
  <2>4. CASE FinishAtomic
    <3>1. /\ phase = "gray" /\ gray = {}
          /\ refs'[o] = IF o \in weak THEN refs[o] \cap (Strings \cup (Obj \ White)) ELSE refs[o]
      BY <2>4 DEF FinishAtomic, ClearTables
    <3>2. o \in WeakTables /\ refs[o] \subseteq Obj
      BY <1>1, <2>1, <3>1 DEF TypeOK
    <3>3. \A v \in refs[o] \ refs'[o] : v \in White /\ v \notin Strings
      BY <1>1, <3>1, <3>2
    <3> QED  BY <1>1, <3>1, <3>2, <3>3, WhiteIsGarbage
  <2> QED  BY <2>2, <2>3, <2>4
<1>2. IInv => [GCStep => \A o \in Obj : refs'[o] # refs[o] =>
                 \/ Garbage(o)
                 \/ /\ o \in WeakTables /\ refs'[o] \subseteq refs[o]
                    /\ \A v \in refs[o] \ refs'[o] : v \notin Strings /\ Garbage(v)]_vars
  BY <1>1
<1> QED  BY <1>2, Inductive, PTL DEF OnlyGarbageForgotten

-----------------------------------------------------------------------------
(* The collector implements Heap: the program sees a heap that loses only   *)
(* what it cannot get at, and then together with its global reference.       *)

(* What Heap is told of the state of Collector. *)
Edges  == [o \in Obj |-> IF o \in Threads THEN refs[o] \cup Open(o) ELSE refs[o]]
Rooted == {o \in {Main, Registry} \cup isactive : mark[o] # "free"}

Obtained == AsHeap!Obtainable

LEMMA EdgesAre ==
  ASSUME NEW o \in Obj
  PROVE  \A v : v \in Edges[o] <=> v \in refs[o] \/ (o \in Threads /\ v \in UpVals /\ home[v] = o)
  BY DEF Edges, Open

LEMMA PathsAre ==
  ASSUME TypeOK, NEW through
  PROVE  \A o : o \in AsHeap!Paths(through) <=>
           /\ o \in Obj
           /\ \A S \in SUBSET Obj :
                Rooted \subseteq S /\ (\A x \in S \cap through : Edges[x] \subseteq S) => o \in S
<1> DEFINE Holds(S) == \A x \in S \cap through : Edges[x] \subseteq S
<1>1. \A o : o \in AsHeap!Paths(through) <=>
         /\ o \in Obj
         /\ o \in Rooted \/ \A S \in SUBSET (Obj \ (Rooted \cup {o})) : ~Holds(Rooted \cup S)
  BY DEF AsHeap!Paths, Edges, Rooted
<1>2. Rooted \subseteq Obj
  BY DEF TypeOK, Rooted, Obj, Threads, AllTables
<1> HIDE DEF Holds
<1>3. ASSUME NEW o \in Obj, o \notin Rooted
      PROVE  (\A S \in SUBSET (Obj \ (Rooted \cup {o})) : ~Holds(Rooted \cup S))
               <=> \A S \in SUBSET Obj : Rooted \subseteq S /\ Holds(S) => o \in S
  <2>1. ASSUME NEW S \in SUBSET (Obj \ (Rooted \cup {o}))
        PROVE  /\ Rooted \cup S \in SUBSET Obj
               /\ Rooted \subseteq Rooted \cup S /\ o \notin Rooted \cup S
    BY <1>2, <1>3
  <2>2. ASSUME NEW S \in SUBSET Obj, Rooted \subseteq S, o \notin S
        PROVE  /\ S \ Rooted \in SUBSET (Obj \ (Rooted \cup {o}))
               /\ Rooted \cup (S \ Rooted) = S
    BY <2>2
  <2>3. ASSUME \A S \in SUBSET (Obj \ (Rooted \cup {o})) : ~Holds(Rooted \cup S),
               NEW S \in SUBSET Obj, Rooted \subseteq S, Holds(S), o \notin S
        PROVE  FALSE
    <3>1. ~Holds(Rooted \cup (S \ Rooted))
      BY <2>2, <2>3
    <3>2. Rooted \cup (S \ Rooted) = S
      BY <2>2, <2>3
    <3> QED  BY <2>3, <3>1, <3>2
  <2>4. ASSUME \A S \in SUBSET Obj : Rooted \subseteq S /\ Holds(S) => o \in S,
               NEW S \in SUBSET (Obj \ (Rooted \cup {o}))
        PROVE  ~Holds(Rooted \cup S)
    BY <2>1, <2>4
  <2> QED  BY <2>3, <2>4
<1>4. \A o \in Rooted : \A S : Rooted \subseteq S => o \in S
  OBVIOUS
<1>5. QED  BY <1>1, <1>2, <1>3, <1>4 DEF Holds

LEMMA EdgesIn ==
  ASSUME TypeOK
  PROVE  \A o \in Obj : Edges[o] \subseteq Obj
<1>1. \A o \in Obj : refs[o] \subseteq Obj
  BY DEF TypeOK
<1> QED  BY <1>1, EdgesAre, Disjoint

(* What can be obtained is closed, has the roots and is there. *)
LEMMA ObtainedFacts ==
  ASSUME IInv, gcstate # "closed"
  PROVE  /\ Obtained \subseteq Obj
         /\ {Main, Registry} \cup isactive \subseteq Obtained
         /\ \A x \in Obtained : refs[x] \subseteq Obtained
         /\ \A x \in Obtained \cap Threads : \A u \in UpVals : home[u] = x => u \in Obtained
         /\ \A x \in Obtained : mark[x] \notin Gone
<1>1. /\ TypeOK /\ {Main, Registry} \cup isactive \subseteq Live
      /\ \A o \in Live : refs[o] \subseteq Live
      /\ \A o \in Live : o \in Threads => Open(o) \subseteq Live
  BY LiveIsClosed DEF IInv
<1>2. \A o : o \in Live <=> o \in Obj /\ mark[o] \notin Gone
  BY DEF Live, Allocated, Gone
<1>3. Rooted = {Main, Registry} \cup isactive
  BY <1>1, <1>2 DEF Rooted, Gone
<1>4. \A o : o \in Obtained <=>
        /\ o \in Obj
        /\ \A S \in SUBSET Obj :
             Rooted \subseteq S /\ (\A x \in S \cap Obj : Edges[x] \subseteq S) => o \in S
  BY <1>1, PathsAre DEF Obtained, AsHeap!Obtainable
<1>5. {Main, Registry} \cup isactive \subseteq Obtained
  BY <1>1, <1>2, <1>3, <1>4
<1>6. \A x \in Obtained : Edges[x] \subseteq Obtained
  <2> SUFFICES ASSUME NEW x \in Obtained, NEW v \in Edges[x]
               PROVE  v \in Obtained
    OBVIOUS
  <2>1. x \in Obj /\ v \in Obj
    BY <1>1, <1>4, EdgesIn
  <2>2. ASSUME NEW S \in SUBSET Obj, Rooted \subseteq S, \A y \in S \cap Obj : Edges[y] \subseteq S
        PROVE  v \in S
    <3>1. x \in S
      BY <1>4, <2>2
    <3> QED  BY <2>1, <2>2, <3>1
  <2> QED  BY <1>4, <2>1, <2>2
<1>7. \A o \in Live : Edges[o] \subseteq Live
  BY <1>1, <1>2 DEF Edges
<1>8. \A x \in Obtained : x \in Live
  <2>1. Live \in SUBSET Obj /\ Rooted \subseteq Live
    BY <1>1, <1>2, <1>3
  <2> QED  BY <1>4, <1>7, <2>1
<1>9. \A x \in Obtained : refs[x] \subseteq Obtained
  BY <1>4, <1>6, EdgesAre
<1>10. \A x \in Obtained \cap Threads : \A u \in UpVals : home[u] = x => u \in Obtained
  BY <1>4, <1>6, EdgesAre
<1> QED  BY <1>2, <1>4, <1>5, <1>8, <1>9, <1>10

LEMMA HandObtained ==
  ASSUME IInv, gcstate # "closed"
  PROVE  /\ running \in Obtained /\ Handles \subseteq Obtained /\ InHand \subseteq Obtained
         /\ Readable \subseteq Obtained /\ TablesInHand \subseteq Obtained
         /\ Upvalues \subseteq Obtained /\ Open(running) \subseteq Obtained
<1>1. /\ Obtained \subseteq Obj
      /\ {Main, Registry} \cup isactive \subseteq Obtained
      /\ \A x \in Obtained : refs[x] \subseteq Obtained
      /\ \A x \in Obtained \cap Threads : \A u \in UpVals : home[u] = x => u \in Obtained
  BY ObtainedFacts
<1>2. running \in Obtained /\ running \in Threads
  BY <1>1 DEF IInv, TypeOK
<1>3. \A us : us \subseteq Obtained => ValuesOf(us) \subseteq Obtained
  BY <1>1, ValuesIn
<1>4. \A x \in Obtained \cap Threads : Open(x) \subseteq Obtained
  BY <1>1 DEF Open
<1>5. InHand \subseteq Obtained
  BY <1>1, <1>2, <1>3, <1>4 DEF InHand
<1>6. \A x \in Obtained : Contents(x) \subseteq Obtained
  <2> SUFFICES ASSUME NEW x \in Obtained
               PROVE  Contents(x) \subseteq Obtained
    OBVIOUS
  <2>1. refs[x] \subseteq Obtained /\ ValuesOf(refs[x] \cap UpVals) \subseteq Obtained
    BY <1>1, <1>3
  <2>2. x \in Threads => ValuesOf(Open(x)) \subseteq Obtained
    BY <1>3, <1>4
  <2> QED  BY <2>1, <2>2 DEF Contents
<1>7. Readable \subseteq Obtained
  BY <1>1, <1>5, <1>6 DEF Readable
<1>8. Upvalues \subseteq Obtained
  <2>1. ValuesOf(InHand \cap Closures) \subseteq Obtained
    BY <1>3, <1>5
  <2> QED  BY <1>2, <1>4, <2>1 DEF Upvalues
<1>9. Handles \subseteq Obtained
  BY <1>1, <1>2 DEF Handles
<1>10. TablesInHand \subseteq Obtained
  BY <1>1, <1>5 DEF TablesInHand
<1> QED  BY <1>2, <1>4, <1>5, <1>7, <1>8, <1>9, <1>10
-----------------------------------------------------------------------------
(* What a step of the program may refer to then: what it can obtain, any *)
(* string, interned, and what is new.                                     *)
Given == Obtained \cup {s \in Strings : mark[s] # "free"} \cup {o \in Obj : mark[o] = "free" /\ mark'[o] # "free"}

(* What a step of the program does that changes only what it has in hand. *)
Used ==
  /\ gcstate # "closed"
  /\ \A x \in Obj : x \in Obtained \/ mark[x] = "free" \/ refs'[x] = refs[x]
  /\ \A x \in Obj : \A v \in refs'[x] : v \in refs[x] \/ v \in Given
  /\ \A u \in UpVals :
       \/ home'[u] = home[u]
       \/ home[u] \in Obtained /\ home'[u] = Nil
       \/ home'[u] \in Obtained /\ home[u] = Nil /\ mark[u] = "free" /\ mark'[u] # "free"
  /\ isactive' \subseteq Obtained

LEMMA UsedStep ==
  ASSUME IInv, IInv', Used, \A o \in Obj : mark'[o] = "free" => mark[o] = "free"
  PROVE  AsHeap!Use
<1> DEFINE new  == Allocated' \ Allocated
           seen == Obtained \cup (Strings \cap Allocated) \cup new
<1>1. /\ Obtained \subseteq Obj
      /\ {Main, Registry} \cup isactive \subseteq Obtained
      /\ \A x \in Obtained : refs[x] \subseteq Obtained
      /\ \A x \in Obtained \cap Threads : \A u \in UpVals : home[u] = x => u \in Obtained
  BY ObtainedFacts DEF Used
<1>2. /\ TypeOK /\ TypeOK' /\ Freed(mark, refs, home) /\ Sound(mark, refs, home, isactive)
      /\ Kinds(refs) /\ HeldWithUdata /\ HeldWithUdata'
  BY DEF IInv, Painted, Used
<1>3. /\ \A o : o \in Allocated <=> o \in Obj /\ mark[o] # "free"
      /\ \A o : o \in new <=> o \in Obj /\ mark'[o] # "free" /\ mark[o] = "free"
  BY DEF Allocated
<1>4. Allocated \subseteq Allocated'
  BY DEF Allocated
<1>5. \A o \in Obj : mark[o] = "free" => refs[o] = {} /\ \A u \in UpVals : home[u] # o
  <2> SUFFICES ASSUME NEW o \in Obj, mark[o] = "free", NEW u \in UpVals, home[u] = o
               PROVE  FALSE
    BY <1>2 DEF Freed
  <2>1. home[u] # Nil /\ u \in Obj
    BY Disjoint
  <2>2. mark[u] \notin Gone
    BY <1>2, <2>1 DEF Freed
  <2>3. mark[home[u]] \notin Gone
    BY <1>2, <2>1, <2>2 DEF Sound
  <2> QED  BY <2>3 DEF Gone
<1>6. ASSUME NEW x \in Obj, mark[x] # "free", x \notin Obtained
      PROVE  Edges'[x] = Edges[x]
  <2>1. refs'[x] = refs[x]
    BY <1>6 DEF Used
  <2>2. \A u \in UpVals : home'[u] = x <=> home[u] = x
    BY <1>6, Disjoint DEF Used
  <2>3. \A v : v \in Edges'[x] <=> v \in Edges[x]
    BY <2>1, <2>2 DEF Edges, Open
  <2>4. Edges'[x] = (IF x \in Threads THEN refs'[x] \cup Open(x)' ELSE refs'[x])
    BY DEF Edges
  <2>5. Edges[x] = (IF x \in Threads THEN refs[x] \cup Open(x) ELSE refs[x])
    BY DEF Edges
  <2> QED  BY <2>3, <2>4, <2>5
<1>7. seen \subseteq Obj
  BY <1>1, <1>3
<1>8. Rooted' \subseteq seen
  BY <1>1 DEF Rooted, Used
<1>9. ASSUME NEW x \in seen, NEW v, v \in Edges'[x]
      PROVE  v \in seen
  <2>1. x \in Obj
    BY <1>7
  <2>2. CASE v \in refs'[x]
    <3>1. v \in Obj
      BY <1>2, <2>1, <2>2 DEF TypeOK
    <3>2. v \in refs[x] \/ v \in seen
      BY <1>3, <2>1, <2>2, <3>1 DEF Used, Given
    <3>3. v \in refs[x] => x \in Obtained
      <4>1. x \in Strings => refs[x] = {}
        BY <1>2 DEF Kinds
      <4> QED  BY <1>3, <1>5, <4>1
    <3> QED  BY <1>1, <3>2, <3>3
  <2>3. CASE x \in Threads /\ v \in UpVals /\ home'[v] = x
    <3>1. v \in Obj /\ x # Nil
      BY <2>3, Disjoint
    <3>2. CASE home[v] = x
      <4>1. mark[x] # "free" /\ x \notin Strings
        BY <1>5, <2>1, <2>3, <3>2, Disjoint DEF Listed
      <4>2. x \in Obtained
        BY <1>3, <4>1
      <4> QED  BY <1>1, <2>3, <3>2, <4>2
    <3>3. CASE home[v] # x
      <4>1. mark[v] = "free" /\ mark'[v] # "free"
        BY <2>3, <3>1, <3>3 DEF Used
      <4> QED  BY <1>3, <3>1, <4>1
    <3> QED  BY <3>2, <3>3
  <2>4. v \in refs'[x] \/ (x \in Threads /\ v \in UpVals /\ home'[v] = x)
    BY <1>9, <2>1 DEF Edges, Open
  <2> QED  BY <2>2, <2>3, <2>4
<1>10. AsHeap!Reachable' \subseteq seen
  <2> DEFINE S == seen
  <2>1. S \in SUBSET Obj /\ Rooted' \subseteq S /\ \A x \in S \cap (Obj \ WeakTables) : Edges'[x] \subseteq S
    BY <1>7, <1>8, <1>9
  <2> HIDE DEF S
  <2>2. AsHeap!Reachable' \subseteq S
    <3> SUFFICES ASSUME NEW o \in AsHeap!Reachable', o \notin S  PROVE FALSE
      OBVIOUS
    <3>1. /\ S \ Rooted' \in SUBSET (Obj \ (Rooted' \cup {o}))
          /\ Rooted' \cup (S \ Rooted') = S
          /\ o \in Obj /\ o \notin Rooted'
      BY <2>1 DEF AsHeap!Reachable, AsHeap!Paths
    <3>2. \E x \in S \cap (Obj \ WeakTables) : ~(Edges'[x] \subseteq S)
      BY <3>1 DEF AsHeap!Reachable, AsHeap!Paths, Edges, Rooted
    <3> QED  BY <2>1, <3>2
  <2> QED  BY <2>2 DEF S
<1>11. held' = held \cup (new \cap Udata)
  <2>1. \A u \in Udata : u \in Obj /\ (mark'[u] # "free" <=> mark[u] # "free" \/ u \in new)
    BY <1>3, Disjoint
  <2> QED  BY <1>2, <2>1 DEF HeldWithUdata
<1>12. \A o \in Allocated \ Obtained : Edges'[o] = Edges[o]
  BY <1>3, <1>6
<1> QED  BY <1>4, <1>10, <1>11, <1>12 DEF AsHeap!Use, Edges, Obtained

(* A step that changes the references of one object in reach. *)
LEMMA OneUsed ==
  ASSUME IInv, gcstate # "closed", NEW t \in Obtained, NEW R, refs' = [refs EXCEPT ![t] = R],
         R \subseteq Given,
         UNCHANGED <<home, threads>>
  PROVE  Used
<1>1. isactive \subseteq Obtained /\ t \in Obj
  BY ObtainedFacts
<1>2. /\ \A x \in Obj : x # t => refs'[x] = refs[x]
      /\ refs'[t] = R
  BY <1>1 DEF IInv, TypeOK
<1>3. isactive' \subseteq Obtained /\ home' = home
  BY <1>1 DEF threads
<1> QED  BY <1>2, <1>3 DEF Used

LEMMA PushedIsThere ==
  ASSUME NEW th, NEW news, news \subseteq Obj, Pushed(th, news)
  PROVE  \A o \in news : mark'[o] # "free"
  BY DEF Pushed

LEMMA NewClosureUses ==
  ASSUME IInv, gcstate # "closed", NEW th \in Obtained, NEW c \in Closures, NEW cap \in SUBSET Obtained,
         NewClosure(th, c, cap)
  PROVE  Used
<1>1. /\ mark[c] = "free" /\ Pushed(th, {c}) /\ UNCHANGED <<home, threads>>
      /\ refs' = [refs EXCEPT ![c] = cap, ![th] = @ \cup {c}]
  BY DEF NewClosure, Created
<1>2. isactive \subseteq Obtained /\ th \in Obj /\ c \in Obj /\ mark[th] # "free" /\ th # c
  BY <1>1, ObtainedFacts, Disjoint DEF Gone
<1>3. mark'[c] # "free"
  BY <1>1, <1>2, PushedIsThere
<1>4. /\ \A x \in Obj : x # c /\ x # th => refs'[x] = refs[x]
      /\ refs'[c] = cap /\ refs'[th] = refs[th] \cup {c} /\ c \in Given /\ cap \subseteq Given
  BY <1>1, <1>2, <1>3 DEF IInv, TypeOK, Given
<1>5. isactive' \subseteq Obtained /\ home' = home
  BY <1>1, <1>2 DEF threads
<1> QED  BY <1>1, <1>3, <1>4, <1>5 DEF Used

LEMMA CaptureLocalUses ==
  ASSUME IInv, gcstate # "closed", NEW c \in Closures, NEW u \in UpVals, NEW val \in SUBSET Obtained,
         CaptureLocal(c, u, val)
  PROVE  Used
<1>1. /\ mark[c] = "free" /\ mark[u] = "free" /\ Pushed(running, {c, u}) /\ UNCHANGED threads
      /\ refs' = [refs EXCEPT ![c] = {u}, ![u] = val, ![running] = @ \cup {c}]
      /\ home' = [home EXCEPT ![u] = running]
  BY DEF CaptureLocal
<1>2. /\ isactive \subseteq Obtained /\ running \in Obtained /\ running \in Obj
      /\ c \in Obj /\ u \in Obj /\ c # u /\ running # c /\ running # u
  <2>1. running \in Obtained
    BY HandObtained
  <2>2. isactive \subseteq Obtained /\ running \in Obj /\ mark[running] # "free"
    BY <2>1, ObtainedFacts DEF Gone
  <2>3. c \in Obj /\ u \in Obj /\ c # u
    BY Disjoint DEF Listed
  <2> QED  BY <1>1, <2>1, <2>2, <2>3
<1>3. mark'[c] # "free" /\ mark'[u] # "free"
  BY <1>1, <1>2, PushedIsThere
<1>4. /\ \A x \in Obj : x # c /\ x # u /\ x # running => refs'[x] = refs[x]
      /\ refs'[c] = {u} /\ refs'[u] = val /\ refs'[running] = refs[running] \cup {c}
      /\ c \in Given /\ u \in Given /\ val \subseteq Given
  BY <1>1, <1>2, <1>3 DEF IInv, TypeOK, Given
<1>5. \A w \in UpVals : home'[w] = IF w = u THEN running ELSE home[w]
  BY <1>1 DEF IInv, TypeOK
<1>6. isactive' \subseteq Obtained /\ home[u] = Nil
  BY <1>1, <1>2 DEF threads, IInv, Painted, Freed, Gone
<1> QED  BY <1>1, <1>2, <1>3, <1>4, <1>5, <1>6 DEF Used

(* Where no reference changes. *)
LEMMA NoneUsed ==
  ASSUME gcstate # "closed", refs' = refs, isactive' \subseteq Obtained,
         \A u \in UpVals : home'[u] = home[u] \/ (home[u] \in Obtained /\ home'[u] = Nil)
  PROVE  Used
  BY DEF Used

LEMMA ProgramUses ==
  ASSUME IInv, Program
  PROVE  Used
<1>1. gcstate # "closed"
  BY DEF Program, Mutator, Push, Pop, NewObject, NewUserData, PushString, NewClosure, Store, Erase,
         SetMetatable, SetTableMetatable, CaptureLocal, SetUpvalue, CloseUpvalue, Resume, Suspend
<1>2. /\ running \in Obtained /\ Handles \subseteq Obtained /\ InHand \subseteq Obtained
      /\ Readable \subseteq Obtained /\ TablesInHand \subseteq Obtained
      /\ Upvalues \subseteq Obtained /\ Open(running) \subseteq Obtained
      /\ isactive \subseteq Obtained /\ (\A x \in Obtained : refs[x] \subseteq Obtained) /\ Obtained \subseteq Given
  BY <1>1, HandObtained, ObtainedFacts DEF Given
<1>3. ASSUME NEW th \in Handles, NEW v \in Readable, Push(th, v)  PROVE Used
  <2>1. refs' = [refs EXCEPT ![th] = refs[th] \cup {v}] /\ UNCHANGED <<home, threads>>
    BY <1>3 DEF Push
  <2>2. th \in Obtained /\ refs[th] \cup {v} \subseteq Given
    BY <1>2
  <2> QED  BY <1>1, <2>1, <2>2, OneUsed
<1>4. ASSUME NEW th \in Handles, NEW v \in refs[th], Pop(th, v)  PROVE Used
  <2>1. refs' = [refs EXCEPT ![th] = refs[th] \ {v}] /\ UNCHANGED <<home, threads>>
    BY <1>4 DEF Pop
  <2>2. th \in Obtained /\ refs[th] \ {v} \subseteq Given
    BY <1>2
  <2> QED  BY <1>1, <2>1, <2>2, OneUsed
<1>5. ASSUME NEW th \in Handles, NEW o \in Obj, NewObject(th, o) \/ (o \in Udata /\ NewUserData(th, o))
      PROVE  Used
  <2>1. /\ refs' = [refs EXCEPT ![th] = refs[th] \cup {o}] /\ UNCHANGED <<home, threads>>
        /\ mark[o] = "free" /\ Pushed(th, {o})
    BY <1>5 DEF NewObject, NewUserData, Created
  <2>2. mark'[o] # "free"
    BY <2>1, PushedIsThere
  <2>3. th \in Obtained /\ refs[th] \cup {o} \subseteq Given
    BY <1>2, <2>1, <2>2 DEF Given
  <2> QED  BY <1>1, <2>1, <2>3, OneUsed
<1>6. ASSUME NEW th \in Handles, NEW s \in Strings, PushString(th, s)  PROVE Used
  <2>1. /\ refs' = [refs EXCEPT ![th] = refs[th] \cup {s}] /\ UNCHANGED <<home, threads>>
        /\ mark[s] # "free" \/ Pushed(th, {s})
    BY <1>6 DEF PushString, Created
  <2>2. s \in Obj /\ (mark[s] # "free" \/ mark'[s] # "free")
    BY <2>1, PushedIsThere, Disjoint
  <2>3. th \in Obtained /\ refs[th] \cup {s} \subseteq Given
    BY <1>2, <2>2 DEF Given
  <2> QED  BY <1>1, <2>1, <2>3, OneUsed
<1>7. ASSUME NEW th \in Handles, NEW c \in Closures,
             NewClosure(th, c, {}) \/ \E v \in InHand : NewClosure(th, c, {v})
      PROVE  Used
  <2>1. CASE NewClosure(th, c, {})
    <3>1. {} \in SUBSET Obtained /\ th \in Obtained
      BY <1>2
    <3> QED  BY <1>1, <2>1, <3>1, NewClosureUses
  <2>2. ASSUME NEW v \in InHand, NewClosure(th, c, {v})
        PROVE  Used
    <3>1. {v} \in SUBSET Obtained /\ th \in Obtained
      BY <1>2
    <3> QED  BY <1>1, <2>2, <3>1, NewClosureUses
  <2> QED  BY <1>7, <2>1, <2>2
<1>8. ASSUME NEW t \in TablesInHand, NEW v \in InHand, Store(t, v)  PROVE Used
  <2>1. refs' = [refs EXCEPT ![t] = refs[t] \cup {v}] /\ UNCHANGED <<home, threads>>
    BY <1>8 DEF Store
  <2>2. t \in Obtained /\ refs[t] \cup {v} \subseteq Given
    BY <1>2
  <2> QED  BY <1>1, <2>1, <2>2, OneUsed
<1>9. ASSUME NEW t \in TablesInHand, NEW v \in refs[t], Erase(t, v)  PROVE Used
  <2>1. refs' = [refs EXCEPT ![t] = refs[t] \ {v}] /\ UNCHANGED <<home, threads>>
    BY <1>9 DEF Erase
  <2>2. t \in Obtained /\ refs[t] \ {v} \subseteq Given
    BY <1>2
  <2> QED  BY <1>1, <2>1, <2>2, OneUsed
<1>10. ASSUME NEW u \in InHand \cap Udata, NEW mt \in InHand \cap AllTables, SetMetatable(u, mt)  PROVE Used
  <2> DEFINE R == {mt}
  <2>1. refs' = [refs EXCEPT ![u] = R] /\ UNCHANGED <<home, threads>>
    BY <1>10 DEF SetMetatable
  <2>2. u \in Obtained /\ R \subseteq Given
    BY <1>2
  <2> HIDE DEF R
  <2> QED  BY <1>1, <2>1, <2>2, OneUsed
<1>17. ASSUME NEW t \in TablesInHand \ WeakTables, NEW mt \in InHand \cap AllTables, SetTableMetatable(t, mt)
       PROVE  Used
  <2> DEFINE R == refs[t] \cup {mt}
  <2>1. refs' = [refs EXCEPT ![t] = R] /\ UNCHANGED <<home, threads>>
    BY <1>17 DEF SetTableMetatable
  <2>2. t \in Obtained /\ R \subseteq Given
    BY <1>2
  <2> HIDE DEF R
  <2> QED  BY <1>1, <2>1, <2>2, OneUsed
<1>11. ASSUME NEW c \in Closures, NEW u \in UpVals,
              CaptureLocal(c, u, {}) \/ \E v \in InHand : CaptureLocal(c, u, {v})
       PROVE  Used
  <2>1. CASE CaptureLocal(c, u, {})
    <3>1. {} \in SUBSET Obtained
      OBVIOUS
    <3> QED  BY <1>1, <2>1, <3>1, CaptureLocalUses
  <2>2. ASSUME NEW v \in InHand, CaptureLocal(c, u, {v})
        PROVE  Used
    <3>1. {v} \in SUBSET Obtained
      BY <1>2
    <3> QED  BY <1>1, <2>2, <3>1, CaptureLocalUses
  <2> QED  BY <1>11, <2>1, <2>2
<1>12. ASSUME NEW u \in Upvalues, NEW c \in Closures, NewClosure(running, c, {u})  PROVE Used
  <2>1. {u} \in SUBSET Obtained /\ running \in Obtained
    BY <1>2
  <2> QED  BY <1>1, <1>12, <2>1, NewClosureUses
<1>13. ASSUME NEW u \in Upvalues, SetUpvalue(u, {}) \/ \E v \in InHand : SetUpvalue(u, {v})  PROVE Used
  <2>1. PICK R \in SUBSET InHand : refs' = [refs EXCEPT ![u] = R] /\ UNCHANGED <<home, threads>>
    <3>1. ASSUME SetUpvalue(u, {})
          PROVE  {} \in SUBSET InHand /\ refs' = [refs EXCEPT ![u] = {}] /\ UNCHANGED <<home, threads>>
      BY <3>1 DEF SetUpvalue
    <3>2. ASSUME NEW v \in InHand, SetUpvalue(u, {v})
          PROVE  {v} \in SUBSET InHand /\ refs' = [refs EXCEPT ![u] = {v}] /\ UNCHANGED <<home, threads>>
      BY <3>2 DEF SetUpvalue
    <3> QED  BY <1>13, <3>1, <3>2
  <2>2. u \in Obtained /\ R \subseteq Given
    BY <1>2
  <2> QED  BY <1>1, <2>1, <2>2, OneUsed
<1>14. ASSUME NEW th \in Handles, NEW u \in Open(th), CloseUpvalue(u)  PROVE Used
  <2>1. /\ refs' = refs /\ isactive' = isactive /\ home[u] = th
        /\ \A w \in UpVals : home'[w] = IF w = u THEN Nil ELSE home[w]
    BY <1>14 DEF CloseUpvalue, threads, Open, IInv, TypeOK
  <2> QED  BY <1>1, <1>2, <2>1, NoneUsed
<1>15. ASSUME NEW co \in refs[running] \cap Coroutines, Resume(co)  PROVE Used
  <2>1. refs' = refs /\ home' = home /\ isactive' = isactive \cup {co}
    BY <1>15 DEF Resume, heap
  <2> QED  BY <1>1, <1>2, <2>1, NoneUsed
<1>16. CASE Suspend
  <2>1. refs' = refs /\ home' = home /\ isactive' \subseteq isactive
    BY <1>16 DEF Suspend, heap
  <2> QED  BY <1>1, <1>2, <2>1, NoneUsed
<1> QED  BY <1>3, <1>4, <1>5, <1>6, <1>7, <1>8, <1>9, <1>10, <1>11, <1>12, <1>13, <1>14, <1>15, <1>16, <1>17,
            Disjoint DEF Program
-----------------------------------------------------------------------------
(* A step of the collector is one of Heap, or none. *)
LEMMA ThereAndRooted ==
  ASSUME IInv, UNCHANGED <<held, threads>>, \A o \in Obj : mark'[o] = "free" <=> mark[o] = "free"
  PROVE  Allocated' = Allocated /\ Rooted' = Rooted
<1>1. {Main, Registry} \cup isactive \subseteq Obj /\ isactive' = isactive
  BY Disjoint DEF IInv, TypeOK, threads
<1>2. Allocated' = Allocated
  BY DEF Allocated
<1>3. Rooted' = Rooted
  BY <1>1 DEF Rooted
<1> QED  BY <1>2, <1>3

LEMMA Stutters ==
  ASSUME IInv, UNCHANGED <<refs, home, held, threads>>, \A o \in Obj : mark'[o] = "free" <=> mark[o] = "free"
  PROVE  UNCHANGED AsHeap!vars
<1>1. refs' = refs /\ home' = home /\ held' = held
  OBVIOUS
<1>2. Edges' = Edges
  BY <1>1 DEF Edges, Open
<1>3. Allocated' = Allocated /\ Rooted' = Rooted
  BY ThereAndRooted
<1> QED  BY <1>1, <1>2, <1>3 DEF AsHeap!vars, Edges, Rooted

LEMMA FinishForgets ==
  ASSUME IInv, FinishAtomic
  PROVE  AsHeap!Forget
<1>1. /\ phase = "gray" /\ gray = {} /\ ClearTables /\ ClearUpvals
      /\ mark' = [o \in Obj |-> IF o \in Strings \cap White \cap ValuesOf(weak) THEN "black"
                                ELSE IF o \in Orphans \ White THEN "black"
                                ELSE IF o \in White THEN "dead" ELSE mark[o]]
      /\ UNCHANGED <<held, threads>>
  BY DEF FinishAtomic
<1>2. /\ {Main, Registry} \cup isactive \subseteq NotWhite
      /\ \A o \in NotWhite \ WeakTables : \A v \in refs[o] : v \in NotWhite
      /\ \A o \in NotWhite \cap Threads : \A u \in UpVals : home[u] = o => u \in NotWhite /\ u \in markedopen
  BY <1>1, MarkedIsClosed
<1>3. TypeOK /\ Freed(mark, refs, home)
  BY DEF IInv, Painted
<1>4. NotWhite \in SUBSET Obj /\ NotWhite \cap White = {}
  BY DEF NotWhite, White
<1>5. \A o \in AsHeap!Reachable : o \in NotWhite
  <2>1. Rooted \subseteq NotWhite
    BY <1>2 DEF Rooted
  <2>2. \A x \in NotWhite \cap (Obj \ WeakTables) : Edges[x] \subseteq NotWhite
    BY <1>2, EdgesAre
  <2>3. \A o : o \in AsHeap!Reachable <=> o \in AsHeap!Paths(Obj \ WeakTables)
    BY DEF AsHeap!Reachable
  <2> QED  BY <1>3, <1>4, <2>1, <2>2, <2>3, PathsAre
<1>6. /\ \A o \in Obj : refs'[o] = IF o \in weak THEN refs[o] \cap (Strings \cup (Obj \ White)) ELSE refs[o]
      /\ \A o \in Obj : refs[o] \subseteq Obj
      /\ weak \subseteq WeakTables
  BY <1>1, <1>3 DEF ClearTables, TypeOK
<1>7. \A u \in UpVals : home'[u] = IF home[u] # Nil /\ u \notin markedopen THEN Nil ELSE home[u]
  BY <1>1 DEF ClearUpvals, Orphans, IsOpen
<1>8. ASSUME NEW o \in NotWhite, o \notin WeakTables
      PROVE  Edges'[o] = Edges[o]
  <2>1. o \in Obj /\ refs'[o] = refs[o]
    BY <1>4, <1>6, <1>8
  <2>2. o \in Threads => \A u \in UpVals : home'[u] = o <=> home[u] = o
    BY <1>2, <1>7, Disjoint
  <2>3. o \in Threads => Open(o)' = Open(o)
    BY <2>2 DEF Open
  <2>4. Edges'[o] = (IF o \in Threads THEN refs'[o] \cup Open(o)' ELSE refs'[o])
    BY <2>1 DEF Edges
  <2>5. Edges[o] = (IF o \in Threads THEN refs[o] \cup Open(o) ELSE refs[o])
    BY <2>1 DEF Edges
  <2> QED  BY <2>1, <2>3, <2>4, <2>5
<1>9. ASSUME NEW o \in NotWhite, o \in WeakTables
      PROVE  Edges[o] \cap (AsHeap!Reachable \cup Strings) \subseteq Edges'[o] /\ Edges'[o] \subseteq Edges[o]
  <2>1. o \in Obj /\ o \notin Threads
    BY <1>4, <1>9, Disjoint
  <2>2. Edges[o] = refs[o] /\ Edges'[o] = refs'[o]
    BY <2>1 DEF Edges
  <2> QED  BY <1>4, <1>5, <1>6, <2>1, <2>2
<1>10. \A o \in Obj : mark'[o] = "free" <=> mark[o] = "free"
  <2>1. \A o \in Orphans : o \in Obj /\ mark[o] # "free"
    BY <1>3, Disjoint DEF Orphans, IsOpen, Freed, Gone
  <2>2. \A o \in White : mark[o] # "free"
    BY DEF White
  <2> QED  BY <1>1, <2>1, <2>2
<1>11. Allocated' = Allocated /\ Rooted' = Rooted /\ held' = held
  BY <1>1, <1>10, ThereAndRooted
<1> QED  BY <1>5, <1>8, <1>9, <1>11 DEF AsHeap!Forget, Edges, Rooted

LEMMA SweepCollects ==
  ASSUME IInv, IInv', SweepStep
  PROVE  (\E o \in Obj : AsHeap!Collect(o)) \/ UNCHANGED AsHeap!vars
<1>1. PICK o \in unswept :
        /\ refs' = IF mark[o] = "dead" THEN [refs EXCEPT ![o] = {}] ELSE refs
        /\ held' = IF mark[o] = "dead" THEN held \ {o} ELSE held
        /\ \/ mark' = [mark EXCEPT ![o] = IF @ \in {"dead", "free"} THEN "free" ELSE "white"]
           \/ mark' = [[mark EXCEPT ![o] = IF @ \in {"dead", "free"} THEN "free" ELSE "white"]
                         EXCEPT ![Main] = "white"]
  BY DEF SweepStep
<1>2. gcstate # "closed" /\ home' = home /\ UNCHANGED threads /\ isactive' = isactive
  BY DEF SweepStep, threads
<1>3. /\ TypeOK /\ Freed(mark, refs, home) /\ Sound(mark, refs, home, isactive)
  BY <1>2 DEF IInv, Painted
<1>4. /\ o \in Obj /\ o # Main /\ Main \in Obj /\ mark[Main] \notin Gone
      /\ {Main, Registry} \cup isactive \subseteq Obj
      /\ \A x \in {Main, Registry} \cup isactive : mark[x] \notin Gone
  BY <1>1, <1>3, Disjoint DEF TypeOK, Sound
<1>5. \A x \in Obj : mark'[x] = "free" <=> mark[x] = "free" \/ (x = o /\ mark[o] = "dead")
  BY <1>1, <1>3, <1>4 DEF TypeOK, Gone
<1>6. CASE mark[o] # "dead"
  <2>1. refs' = refs /\ held' = held
    BY <1>1, <1>6
  <2> QED  BY <1>2, <1>5, <1>6, <2>1, Stutters
<1>7. CASE mark[o] = "dead"
  <2>1. Allocated' = Allocated \ {o} /\ o \in Allocated
    BY <1>4, <1>5, <1>7 DEF Allocated
  <2>2. o \notin Obtained
    BY <1>2, <1>7, ObtainedFacts DEF Gone
  <2>3. Rooted' = Rooted
    BY <1>2, <1>4, <1>5, <1>7 DEF Rooted, Gone
  <2>4. Edges' = [Edges EXCEPT ![o] = {}]
    <3>1. \A x \in Obj : refs'[x] = IF x = o THEN {} ELSE refs[x]
      BY <1>1, <1>3, <1>7 DEF TypeOK
    <3>2. o \in Threads => \A u \in UpVals : home[u] # o
      <4> SUFFICES ASSUME NEW u \in UpVals, home[u] = o, o \in Threads
                   PROVE  FALSE
        OBVIOUS
      <4>1. home[u] # Nil /\ u \in Obj
        BY Disjoint
      <4>2. mark[u] \notin Gone
        BY <1>3, <4>1 DEF Freed
      <4> QED  BY <1>3, <1>7, <4>1, <4>2 DEF Sound, Gone
    <3>3. o \in Threads => Open(o) = {}
      BY <3>2 DEF Open
    <3>4. \A x : Open(x)' = Open(x)
      BY <1>2 DEF Open
    <3>5. Edges' = [x \in Obj |-> IF x \in Threads THEN refs'[x] \cup Open(x)' ELSE refs'[x]]
      BY DEF Edges
    <3> QED  BY <1>4, <3>1, <3>3, <3>4, <3>5 DEF Edges
  <2>5. held' = held \ {o}
    BY <1>1, <1>7
  <2>6. AsHeap!Collect(o)
    BY <2>1, <2>2, <2>3, <2>4, <2>5 DEF AsHeap!Collect, Edges, Rooted, Obtained
  <2> QED  BY <1>4, <2>6
<1> QED  BY <1>6, <1>7

(* What the marking of a cycle does is not seen from the heap. *)
LEMMA MarkingIsUnseen ==
  ASSUME NEW S, NEW x \in Obj
  PROVE  MarkOf(S)[x] = "free" <=> mark[x] = "free"
<1>1. Marked(S) \subseteq White
  BY DEF Marked
<1>2. MarkOf(S)[x] = IF x \notin Marked(S) THEN mark[x] ELSE IF BlackAtOnce(x) THEN "black" ELSE "gray"
  BY DEF MarkOf
<1> QED  BY <1>1, <1>2 DEF White

LEMMA PropagateIsUnseen ==
  ASSUME IInv, keepinvariant, NEW o \in gray, Propagate(o), NEW x \in Obj
  PROVE  mark'[x] = "free" <=> mark[x] = "free"
<1>1. mark' = [MarkOf(Children(o)) EXCEPT ![o] = IF o \in WeakTables \cup {th \in Threads : StaysActive(th)}
                                                 THEN "gray" ELSE "black"]
  BY DEF Propagate, Propagated
<1>2. DOMAIN MarkOf(Children(o)) = Obj
  BY DEF MarkOf
<1>3. o \in Obj /\ mark[o] = "gray"
  BY DEF IInv, Painted, TriColour, GrayIn
<1>4. CASE x = o
  BY <1>1, <1>2, <1>3, <1>4
<1>5. CASE x # o
  <2>1. mark'[x] = MarkOf(Children(o))[x]
    BY <1>1, <1>2, <1>5
  <2> QED  BY <2>1, MarkingIsUnseen
<1> QED  BY <1>4, <1>5

LEMMA MarkingStutters ==
  ASSUME IInv, \/ StartCycle \/ PropagateStep \/ RemarkUpvals \/ PropagateAll \/ RemarkWeak
               \/ RemarkGray \/ FullCycle \/ FullGC
  PROVE  UNCHANGED AsHeap!vars
<1>1. CASE StartCycle \/ FullCycle
  <2>1. mark' = MarkOf({Main, Registry}) /\ UNCHANGED <<refs, home, held, threads>>
    BY <1>1 DEF StartCycle, FullCycle, MarkRoot, heap
  <2> QED  BY <2>1, MarkingIsUnseen, Stutters
<1>2. CASE PropagateStep
  <2>1. keepinvariant /\ UNCHANGED <<refs, home, held, threads>> /\ \E o \in gray : Propagate(o)
    BY <1>2 DEF PropagateStep, keepinvariant, heap
  <2> QED  BY <2>1, PropagateIsUnseen, Stutters
<1>3. CASE PropagateAll
  <2>1. UNCHANGED <<refs, home, held, threads>> /\ (\E o \in gray : Propagate(o)) /\ phase # "idle"
    BY <1>3 DEF PropagateAll, heap
  <2>2. keepinvariant
    BY <2>1, AtomicFacts
  <2> QED  BY <2>1, <2>2, PropagateIsUnseen, Stutters
<1>4. CASE RemarkUpvals \/ RemarkWeak
  <2>1. UNCHANGED <<refs, home, held, threads>>
    BY <1>4 DEF RemarkUpvals, RemarkWeak, heap
  <2>2. \E S : mark' = MarkOf(S)
    BY <1>4 DEF RemarkUpvals, RemarkWeak, MarkObjects
  <2> QED  BY <2>1, <2>2, MarkingIsUnseen, Stutters
<1>5. CASE RemarkGray \/ FullGC
  <2>1. UNCHANGED <<refs, home, held, threads>> /\ mark' = mark
    BY <1>5 DEF RemarkGray, FullGC, heap
  <2> QED  BY <2>1, Stutters
<1> QED  BY <1>1, <1>2, <1>3, <1>4, <1>5

LEMMA CloseShuts ==
  ASSUME Close
  PROVE  AsHeap!Shut
<1>1. (\A o \in Obj : mark'[o] = "free") /\ held' = {}
  BY DEF Close
<1>2. Allocated' = {}
  BY <1>1 DEF Allocated
<1> QED  BY <1>1, <1>2 DEF AsHeap!Shut

LEMMA BeginsRooted ==
  ASSUME Init
  PROVE  AsHeap!Init
<1>1. /\ \A o \in Obj : mark[o] = (IF o \in {Main, Registry} THEN "white" ELSE "free") /\ refs[o] = {}
      /\ \A u \in UpVals : home[u] = Nil
      /\ held = {} /\ isactive = {Main}
  BY DEF Init
<1>2. Allocated = {Main, Registry} /\ Rooted = {Main, Registry}
  BY <1>1, Disjoint DEF Allocated, Rooted
<1>3. \A o \in Threads : Open(o) = {}
  BY <1>1, Disjoint DEF Open
<1>4. Edges = [o \in Obj |-> {}]
  BY <1>1, <1>3 DEF Edges
<1> QED  BY <1>1, <1>2, <1>4 DEF AsHeap!Init, Edges, Rooted

LEMMA StepIsOfHeap ==
  ASSUME IInv, IInv', [Next]_vars
  PROVE  [AsHeap!Next]_AsHeap!vars
<1>1. CASE Program
  <2>1. Used
    BY <1>1, ProgramUses
  <2>2. \A o \in Obj : mark[o] # "free" => mark'[o] # "free"
    BY <1>1, ProgramFreesNothing
  <2>3. AsHeap!Use
    BY <2>1, <2>2, UsedStep
  <2> QED  BY <2>3 DEF AsHeap!Next
<1>2. CASE FinishAtomic
  BY <1>2, FinishForgets DEF AsHeap!Next
<1>3. CASE SweepStep
  BY <1>3, SweepCollects DEF AsHeap!Next
<1>4. CASE Close
  BY <1>4, CloseShuts DEF AsHeap!Next
<1>5. CASE \/ StartCycle \/ PropagateStep \/ RemarkUpvals \/ PropagateAll \/ RemarkWeak
           \/ RemarkGray \/ FullCycle \/ FullGC
  BY <1>5, MarkingStutters
<1>6. CASE UNCHANGED vars
  BY <1>6, Stutters DEF vars, heap
<1> QED  BY <1>1, <1>2, <1>3, <1>4, <1>5, <1>6 DEF Next, GCStep

(* The collector, with its colours, lists and barriers, is a heap that loses *)
(* only what the program cannot get at, at moments it does not choose        *)
(* (luaC_step): the marking is not seen, the end of the atomic step takes    *)
(* from weak tables what nothing else reaches, a step of the sweep frees one *)
(* object out of reach and deletes its global reference.                     *)
THEOREM ImplementsHeap == Spec => HeapSpec
<1>1. Init => AsHeap!Init
  BY BeginsRooted
<1>2. IInv /\ IInv' /\ [Next]_vars => [AsHeap!Next]_AsHeap!vars
  BY StepIsOfHeap
<1> QED  BY <1>1, <1>2, Inductive, PTL DEF Spec, HeapSpec, AsHeap!Spec
=============================================================================
