-------------------------- MODULE CoroutineLemmas --------------------------
(***************************************************************************)
(* The inductive invariant of Coroutines, and lemmas about the C stack and *)
(* the frames of the threads.  Nothing here takes a step: CoroutineProofs  *)
(* applies the lemmas to the actions.                                      *)
(***************************************************************************)
EXTENDS Coroutines, SequenceTheorems, FiniteSetTheorems, TLAPS

(* The C stack from below: the program, then what native has. *)
Program    == [kind |-> "program", th |-> Main, at |-> 0]
At(nat, k) == IF k = 0 THEN Program ELSE nat[k]
IsKotlin(f) == f.kind \in {"program", "callback"}

(* The counts of C calls, and the base below which a yield is allowed, that *)
(* hold above the k-th frame: a callback leaves those of the frame below.   *)
GuardAt(nat, k)  == IF nat[k].kind = "callback" THEN At(nat, k - 1) ELSE nat[k]
Cont(c, f)       == IF f.at > 0 /\ c[f.th][f.at] \in WithCont THEN 1 ELSE 0
CountOver(f)     == IF f.kind = "resume" THEN f.nC ELSE f.nC + 1
BaseOver(c, f)   == IF f.kind = "resume" THEN f.base ELSE f.base + Cont(c, f)
Count(nat, k)    == IF k = 0 THEN 0 ELSE CountOver(GuardAt(nat, k))
Basis(nat, c, k) == IF k = 0 THEN 0 ELSE BaseOver(c, GuardAt(nat, k))

(* The frames that count above the k-th, and whether a yield from there can *)
(* unwind the C stack to a lua_resume.                                      *)
CountedAt(nat, k) ==
  {g \in 1 .. k : /\ nat[g].kind # "callback"
                  /\ \A j \in g + 1 .. k : ~(nat[j].kind = "resume" /\ nat[j].nC = 1)}
Unwindable(nat, k) ==
  \E r \in 1 .. k :
    /\ nat[r].kind = "resume"
    /\ \A j \in r + 1 .. k : nat[j].kind = "pcall" \/ (nat[j].kind = "callback" /\ j = k)

(* How the k-th frame stands on the one below: a resume enters a thread that *)
(* is not below; all others belong to the thread of the frame below.  Kotlin *)
(* code calls from its own frame, Lua code calls further up.                 *)
Linked(nat, c, k) ==
  LET f == nat[k]
      p == At(nat, k - 1)
  IN  /\ f.kind = "resume" => /\ f.th \in Co /\ f.at = 0
                              /\ \A j \in 1 .. k - 1 : nat[j].th # f.th
      /\ f.kind # "resume" => f.th = p.th
      /\ f.kind = "call" => IsKotlin(p) /\ f.at = p.at
      /\ f.kind \in {"pcall", "callback"} => ~IsKotlin(p) /\ f.at > p.at
      /\ f.kind = "pcall" => c[f.th][f.at] = "pcall"
      /\ f.kind = "callback" => c[f.th][f.at] \in KotlinFrames

(* What it saved are the counts below; those above it are exact, and tell   *)
(* whether a yield can unwind.                                              *)
Levelled(nat, c, k) ==
  LET f == nat[k]
  IN  /\ f.kind \in {"call", "pcall"} => f.nC = Count(nat, k - 1) /\ f.base = Basis(nat, c, k - 1)
      /\ f.kind = "resume" => f.nC = f.base /\ f.nC >= 1
      /\ f.kind = "call" => f.base + Cont(c, f) <= f.nC
      /\ Basis(nat, c, k) \in Nat /\ Count(nat, k) \in Nat
      /\ Basis(nat, c, k) <= Count(nat, k)
      /\ Count(nat, k) <= Basis(nat, c, k) <=> Unwindable(nat, k)
      /\ Count(nat, k) = Cardinality(CountedAt(nat, k))

(* The activations of a thread lie together, in the order of its frames. *)
Together(nat) ==
  \A j, k \in 0 .. Len(nat) :
    j <= k /\ At(nat, j).th = At(nat, k).th =>
      /\ At(nat, j).at <= At(nat, k).at
      /\ \A i \in j .. k : At(nat, i).th = At(nat, j).th

Stacked(nat, c) ==
  /\ \A k \in 1 .. Len(nat) : Linked(nat, c, k) /\ Levelled(nat, c, k)
  /\ Together(nat)

(* The frames that native refers to are the same in c and d. *)
SamePlaces(nat, m, c, d) ==
  \A k \in 1 .. m : nat[k].at > 0 => d[nat[k].th][nat[k].at] = c[nat[k].th][nat[k].at]

Begins(new, nat, m) ==
  /\ new \in Seq(NativeFrame) /\ nat \in Seq(NativeFrame)
  /\ m \in Nat /\ m <= Len(new) /\ m <= Len(nat)
  /\ \A k \in 1 .. m : new[k] = nat[k]
(* A frame that may be left without a C activation and go on. *)
Stays == LuaFrames \cup {"yieldable", "pcall"}

(* The frames of a thread that has yielded. *)
Suspended(frames) == frames # <<>> /\ Last(frames) \in KotlinFrames \cup {"coyield"}

Typed(nat, c, st, nc, bc) ==
  /\ st \in [Threads -> {"OK", "YIELD", "REENTRY", "ERRRUN"}]
  /\ c \in [Threads -> Seq(Frames)]
  /\ nc \in [Threads -> 0 .. HardLimit] /\ bc \in [Threads -> 0 .. HardLimit]
  /\ nat \in Seq(NativeFrame)

(* Every activation has its frame. *)
Inside(nat, c) == \A k \in 0 .. Len(nat) : At(nat, k).at <= Len(c[At(nat, k).th])

(* The k-th frame waits for the coroutine that it has resumed. *)
Waits(nat, c, st, nc, bc, k) ==
  LET q == At(nat, k)
  IN  /\ st[q.th] = "OK" /\ nc[q.th] = Count(nat, k) /\ bc[q.th] = Basis(nat, c, k)
      /\ IsKotlin(q)  => Len(c[q.th]) = q.at
      /\ ~IsKotlin(q) => Len(c[q.th]) > q.at /\ Last(c[q.th]) = "coresume"

(* The running thread: its counts are exact; Kotlin code has the last frame; *)
(* a yield was one that can unwind.                                          *)
Exact(nat, c, nc, bc) ==
  LET q == At(nat, Len(nat))
  IN  nc[q.th] = Count(nat, Len(nat)) /\ bc[q.th] = Basis(nat, c, Len(nat))
Runs(nat, c, st) ==
  LET q == At(nat, Len(nat))
  IN  /\ st[q.th] \in {"OK", "YIELD", "REENTRY"}
      /\ IsKotlin(q) => Len(c[q.th]) = q.at /\ st[q.th] = "OK"
      /\ st[q.th] # "OK" => Unwindable(nat, Len(nat))
      /\ st[q.th] = "YIELD" => Suspended(c[q.th])
      /\ st[q.th] = "REENTRY" => c[q.th] # <<>> /\ Last(c[q.th]) \in LuaFrames

(* Below the last frame all can go on, but for plain functions that call. *)
CalledFrom(nat, th, i) ==
  \E k \in 1 .. Len(nat) : nat[k].kind = "call" /\ nat[k].th = th /\ nat[k].at = i
Held(nat, c, st, th) ==
  st[th] # "ERRRUN" =>
    \A i \in 1 .. Len(c[th]) - 1 :
      c[th][i] \in Stays \/ (c[th][i] = "plain" /\ CalledFrom(nat, th, i))

(* A thread that waits on the C stack cannot be taken for one to resume. *)
OnStack(nat, th) == \E k \in 1 .. Len(nat) : nat[k].th = th
Busy(nat, c, st) ==
  \A th \in Threads : OnStack(nat, th) /\ th # At(nat, Len(nat)).th =>
    st[th] = "OK" /\ c[th] # <<>>
Idles(c, st, co) ==
  \/ st[co] = "OK" /\ c[co] = <<>>
  \/ st[co] = "YIELD" /\ Suspended(c[co])
  \/ st[co] = "ERRRUN"

Sound(nat, c, st, nc, bc) ==
  /\ Typed(nat, c, st, nc, bc)
  /\ Stacked(nat, c) /\ Inside(nat, c)
  /\ \A k \in 1 .. Len(nat) : nat[k].kind = "resume" => Waits(nat, c, st, nc, bc, k - 1)
  /\ Exact(nat, c, nc, bc) /\ Runs(nat, c, st)
  /\ \A th \in Threads : Held(nat, c, st, th)
  /\ Busy(nat, c, st)
  /\ \A co \in Co : ~OnStack(nat, co) => Idles(c, st, co)

(* resume_continue finds a frame that can go on. *)
Landed(nat, c, st) ==
  LET q == At(nat, Len(nat))
  IN  q.kind = "resume" /\ st[q.th] = "OK" /\ c[q.th] # <<>> => Last(c[q.th]) \in Stays

IInv == /\ Sound(native, ci, status, nCcalls, baseCcalls)
        /\ Landed(native, ci, status)
-----------------------------------------------------------------------------
(* Types of what native has. *)
LEMMA FrameTypes ==
  ASSUME NEW f \in NativeFrame
  PROVE  /\ f.kind \in {"call", "pcall", "resume", "callback"}
         /\ f.th \in Threads /\ f.at \in Nat
         /\ f.kind # "callback" => f.nC \in 0 .. HardLimit /\ f.base \in 0 .. HardLimit
BY DEF NativeFrame

LEMMA AtTypes ==
  ASSUME NEW nat \in Seq(NativeFrame), NEW k \in 0 .. Len(nat)
  PROVE  At(nat, k).th \in Threads /\ At(nat, k).at \in Nat
<1>1. CASE k = 0
  BY <1>1 DEF At, Program, Threads
<1>2. CASE k # 0
  <2>1. nat[k] \in NativeFrame
    BY <1>2, ElementOfSeq, LenProperties
  <2> QED  BY <1>2, <2>1, FrameTypes DEF At
<1> QED  BY <1>1, <1>2

(* What begins alike is alike up to there. *)
LEMMA AlikeAt ==
  ASSUME NEW new, NEW nat, NEW m, Begins(new, nat, m)
  PROVE  \A k \in 0 .. m : At(new, k) = At(nat, k)
BY DEF Begins, At

LEMMA AlikeLevels ==
  ASSUME NEW new, NEW nat, NEW m, Begins(new, nat, m), NEW c, NEW d, SamePlaces(nat, m, c, d),
         NEW k \in 0 .. m
  PROVE  /\ Count(new, k) = Count(nat, k)
         /\ Basis(new, d, k) = Basis(nat, c, k)
<1>1. CASE k = 0
  BY <1>1 DEF Count, Basis
<1>2. CASE k # 0
  <2>1. k \in 1 .. m /\ k - 1 \in 0 .. m /\ new[k] = nat[k]
    BY <1>2 DEF Begins
  <2>2. GuardAt(new, k) = GuardAt(nat, k)
    BY <2>1, AlikeAt DEF GuardAt
  <2> DEFINE g == GuardAt(nat, k)
  <2>3. g.at > 0 => d[g.th][g.at] = c[g.th][g.at]
    <3>1. CASE nat[k].kind = "callback" /\ k = 1
      <4>1. g.at = 0
        BY <3>1 DEF GuardAt, At, Program
      <4> QED  BY <4>1
    <3>2. CASE ~(nat[k].kind = "callback" /\ k = 1)
      <4>1. PICK j \in 1 .. m : g = nat[j]
        <5>1. CASE nat[k].kind = "callback"
          <6>1. k - 1 \in 1 .. m
            BY <2>1, <3>2, <5>1
          <6> QED  BY <5>1, <6>1 DEF GuardAt, At
        <5>2. CASE nat[k].kind # "callback"
          BY <2>1, <5>2 DEF GuardAt
        <5> QED  BY <5>1, <5>2
      <4> QED  BY <4>1 DEF SamePlaces
    <3> QED  BY <3>1, <3>2
  <2>4. Cont(d, g) = Cont(c, g)
    BY <2>3 DEF Cont
  <2> HIDE DEF g
  <2> QED  BY <1>2, <2>2, <2>4 DEF Count, Basis, BaseOver, g
<1> QED  BY <1>1, <1>2

LEMMA AlikeCounted ==
  ASSUME NEW new, NEW nat, NEW m, Begins(new, nat, m), NEW k \in 0 .. m
  PROVE  /\ CountedAt(new, k) = CountedAt(nat, k)
         /\ Unwindable(new, k) <=> Unwindable(nat, k)
<1>1. k \in Nat /\ \A i \in 1 .. k : new[i] = nat[i]
  BY DEF Begins
<1>2. \A r \in 1 .. k : \A j \in r + 1 .. k : new[j] = nat[j]
  BY <1>1
<1> QED  BY <1>1, <1>2 DEF CountedAt, Unwindable

(* What is linked stays linked as long as the frames it refers to are kept. *)
LEMMA LinksKept ==
  ASSUME NEW new, NEW nat, NEW m, Begins(new, nat, m), NEW c, NEW d, SamePlaces(nat, m, c, d),
         NEW k \in 1 .. m, Linked(nat, c, k), Levelled(nat, c, k)
  PROVE  Linked(new, d, k) /\ Levelled(new, d, k)
<1>1. /\ k - 1 \in 0 .. m /\ k \in 0 .. m /\ new[k] = nat[k]
      /\ \A j \in 1 .. k - 1 : new[j] = nat[j]
  BY DEF Begins
<1>2. At(new, k - 1) = At(nat, k - 1)
  BY <1>1, AlikeAt
<1>3. nat[k].at > 0 => d[nat[k].th][nat[k].at] = c[nat[k].th][nat[k].at]
  BY DEF SamePlaces
<1>4. At(nat, k - 1).at \in Nat /\ nat[k].at \in Nat
  <2>1. nat \in Seq(NativeFrame) /\ Len(nat) \in Nat /\ k - 1 \in 0 .. Len(nat) /\ k \in 1 .. Len(nat)
    BY <1>1, LenProperties DEF Begins
  <2>2. nat[k] \in NativeFrame
    BY <2>1, ElementOfSeq
  <2> QED  BY <2>1, <2>2, AtTypes, FrameTypes
<1>5. Linked(new, d, k)
  BY <1>1, <1>2, <1>3, <1>4 DEF Linked
<1>6. Cont(d, nat[k]) = Cont(c, nat[k])
  BY <1>3 DEF Cont
<1>7. /\ Count(new, k) = Count(nat, k) /\ Count(new, k - 1) = Count(nat, k - 1)
      /\ Basis(new, d, k) = Basis(nat, c, k) /\ Basis(new, d, k - 1) = Basis(nat, c, k - 1)
      /\ CountedAt(new, k) = CountedAt(nat, k) /\ (Unwindable(new, k) <=> Unwindable(nat, k))
  BY <1>1, AlikeLevels, AlikeCounted
<1>8. Levelled(new, d, k)
  BY <1>1, <1>6, <1>7 DEF Levelled
<1> QED  BY <1>5, <1>8

(* What is left of a C stack. *)
LEMMA StackedBelow ==
  ASSUME NEW new, NEW nat, NEW m, Begins(new, nat, m), Len(new) = m,
         NEW c, NEW d, SamePlaces(nat, m, c, d), Stacked(nat, c)
  PROVE  Stacked(new, d)
<1>1. \A k \in 1 .. m : k \in 1 .. Len(nat)
  BY LenProperties DEF Begins
<1>2. \A k \in 1 .. m : Linked(new, d, k) /\ Levelled(new, d, k)
  BY <1>1, LinksKept DEF Stacked
<1>3. \A k \in 0 .. m : At(new, k) = At(nat, k) /\ k \in 0 .. Len(nat)
  <2>1. Len(nat) \in Nat /\ m \in Nat /\ m <= Len(nat)
    BY LenProperties DEF Begins
  <2> QED  BY <2>1, AlikeAt
<1>4. Together(new)
  <2>1. \A j, k \in 0 .. m : \A i \in j .. k : i \in 0 .. m
    BY DEF Begins
  <2> QED  BY <1>3, <2>1 DEF Together, Stacked
<1> QED  BY <1>2, <1>4 DEF Stacked

(* One frame more. *)
LEMMA StackedPush ==
  ASSUME NEW nat \in Seq(NativeFrame), NEW c, Stacked(nat, c), NEW f \in NativeFrame,
         Linked(Append(nat, f), c, Len(nat) + 1), Levelled(Append(nat, f), c, Len(nat) + 1)
  PROVE  Stacked(Append(nat, f), c)
<1> DEFINE n == Len(nat)
           new == Append(nat, f)
<1>1. /\ n \in Nat /\ new \in Seq(NativeFrame) /\ Len(new) = n + 1 /\ new[n + 1] = f
      /\ \A k \in 1 .. n : new[k] = nat[k]
  BY AppendProperties, LenProperties
<1> HIDE DEF new
<1>2. Begins(new, nat, n)
  BY <1>1 DEF Begins
<1>3. SamePlaces(nat, n, c, c)
  BY DEF SamePlaces
<1>4. \A k \in 1 .. n : Linked(new, c, k) /\ Levelled(new, c, k)
  BY <1>2, <1>3, LinksKept DEF Stacked
<1>5. \A k \in 1 .. Len(new) : Linked(new, c, k) /\ Levelled(new, c, k)
  <2>1. \A k \in 1 .. Len(new) : k \in 1 .. n \/ k = n + 1
    BY <1>1
  <2> QED  BY <1>4, <2>1 DEF new
<1>6. /\ \A k \in 0 .. n : At(new, k) = At(nat, k)
      /\ At(new, n + 1) = f
  BY <1>1, <1>2, AlikeAt DEF At
<1>7. At(nat, n).at \in Nat /\ f.at \in Nat /\ \A k \in 0 .. n : At(nat, k).at \in Nat
  BY <1>1, AtTypes, FrameTypes
<1>8. Together(new)
  <2> SUFFICES ASSUME NEW j \in 0 .. n + 1, NEW k \in 0 .. n + 1, j <= k,
                      At(new, j).th = At(new, k).th
               PROVE  /\ At(new, j).at <= At(new, k).at
                      /\ \A i \in j .. k : At(new, i).th = At(new, j).th
    BY <1>1 DEF Together
  <2>1. CASE k <= n
    <3>1. j \in 0 .. n /\ k \in 0 .. n /\ \A i \in j .. k : i \in 0 .. n
      BY <1>1, <2>1
    <3> QED  BY <1>6, <3>1 DEF Stacked, Together
  <2>2. CASE k = n + 1 /\ j = n + 1
    <3>1. \A i \in j .. k : i = n + 1
      BY <1>1, <2>2
    <3> QED  BY <1>6, <1>7, <2>2, <3>1
  <2>3. CASE k = n + 1 /\ j <= n
    <3>1. j \in 0 .. n /\ n \in 0 .. n /\ n + 1 - 1 = n
      BY <1>1, <2>3
    <3>2. f.kind # "resume"
      <4> SUFFICES ASSUME f.kind = "resume"
                   PROVE  FALSE
        OBVIOUS
      <4>1. f.th \in Co /\ \A i \in 1 .. n : new[i].th # f.th
        BY <1>1, <3>1 DEF Linked, new
      <4>2. At(nat, j).th = f.th
        BY <1>6, <2>3, <3>1
      <4>3. j # 0
        BY <4>1, <4>2, CoroutinesAssumption DEF At, Program
      <4>4. j \in 1 .. n /\ nat[j].th = f.th
        BY <3>1, <4>2, <4>3 DEF At
      <4> QED  BY <1>1, <4>1, <4>4
    <3>3. f.th = At(nat, n).th /\ At(nat, n).at <= f.at
      <4>1. At(new, n + 1 - 1) = At(nat, n)
        BY <1>6, <3>1
      <4>2. Linked(new, c, n + 1)
        BY DEF new
      <4>3. f.kind \in {"call", "pcall", "callback"}
        BY <3>2, FrameTypes
      <4> QED  BY <1>1, <1>7, <4>1, <4>2, <4>3 DEF Linked
    <3>4. /\ At(nat, j).at <= At(nat, n).at
          /\ \A i \in j .. n : At(nat, i).th = At(nat, j).th
      BY <1>6, <2>3, <3>1, <3>3 DEF Stacked, Together
    <3>5. \A i \in j .. k : (i \in j .. n /\ i \in 0 .. n) \/ i = n + 1
      BY <1>1, <2>3
    <3> QED  BY <1>6, <1>7, <2>3, <3>1, <3>3, <3>4, <3>5
  <2> QED  BY <1>1, <2>1, <2>2, <2>3
<1> QED  BY <1>5, <1>8 DEF Stacked, new
-----------------------------------------------------------------------------
(* Sequences. *)
LEMMA FrontOk ==
  ASSUME NEW S, NEW s \in Seq(S)
  PROVE  /\ Front(s) \in Seq(S)
         /\ Len(Front(s)) = IF s = <<>> THEN 0 ELSE Len(s) - 1
         /\ \A i \in 1 .. Len(s) - 1 : Front(s)[i] = s[i]
<1>1. Len(s) \in Nat /\ (s = <<>> <=> Len(s) = 0)
  BY LenProperties, EmptySeq
<1>2. \A i \in 1 .. Len(s) - 1 : s[i] \in S
  BY <1>1, ElementOfSeq
<1> QED  BY <1>1, <1>2, SubSeqProperties DEF Front

LEMMA CutOk ==
  ASSUME NEW S, NEW s \in Seq(S), NEW n \in Nat, n <= Len(s)
  PROVE  /\ SubSeq(s, 1, n) \in Seq(S) /\ Len(SubSeq(s, 1, n)) = n
         /\ \A i \in 1 .. n : SubSeq(s, 1, n)[i] = s[i]
<1>1. \A i \in 1 .. n : s[i] \in S
  BY LenProperties, ElementOfSeq
<1> QED  BY <1>1, SubSeqProperties

(* All but the last frame of the C stack, and one frame more. *)
LEMMA BeginsFront ==
  ASSUME NEW nat \in Seq(NativeFrame), nat # <<>>
  PROVE  /\ Len(nat) \in Nat \ {0} /\ Len(Front(nat)) = Len(nat) - 1
         /\ Begins(Front(nat), nat, Len(nat) - 1)
<1>1. Len(nat) \in Nat \ {0}
  BY EmptySeq
<1> QED  BY <1>1, FrontOk DEF Begins

LEMMA BeginsAppend ==
  ASSUME NEW nat \in Seq(NativeFrame), NEW f \in NativeFrame
  PROVE  /\ Len(nat) \in Nat /\ Len(Append(nat, f)) = Len(nat) + 1
         /\ Append(nat, f)[Len(nat) + 1] = f
         /\ Begins(Append(nat, f), nat, Len(nat))
<1>1. Len(nat) \in Nat
  BY LenProperties
<1> QED  BY <1>1, AppendProperties DEF Begins

(* What a resume has left below it belongs to other threads. *)
LEMMA ThreadsApart ==
  ASSUME NEW nat \in Seq(NativeFrame), NEW c, Stacked(nat, c),
         NEW k \in 1 .. Len(nat), nat[k].kind = "resume", NEW j \in 0 .. k - 1
  PROVE  At(nat, j).th # At(nat, Len(nat)).th /\ At(nat, j).th # nat[k].th
<1>1. Len(nat) \in Nat
  BY LenProperties
<1>2. At(nat, j).th # nat[k].th
  <2>1. nat[k].th \in Co /\ \A i \in 1 .. k - 1 : nat[i].th # nat[k].th
    BY DEF Stacked, Linked
  <2>2. CASE j = 0
    BY <2>1, <2>2, CoroutinesAssumption DEF At, Program
  <2>3. CASE j # 0
    BY <2>1, <2>3 DEF At
  <2> QED  BY <2>2, <2>3
<1>3. ASSUME At(nat, j).th = At(nat, Len(nat)).th
      PROVE  FALSE
  <2>1. \A i \in j .. Len(nat) : At(nat, i).th = At(nat, j).th
    BY <1>1, <1>3 DEF Stacked, Together
  <2>2. k \in j .. Len(nat) /\ At(nat, k) = nat[k]
    BY <1>1 DEF At
  <2> QED  BY <1>2, <2>1, <2>2
<1> QED  BY <1>2, <1>3

(* The places that native refers to are kept if those of the running thread are. *)
LEMMA PlacesKept ==
  ASSUME NEW nat \in Seq(NativeFrame), NEW c, NEW d, Stacked(nat, c),
         NEW m \in 0 .. Len(nat),
         \A th \in Threads : th # At(nat, m).th => d[th] = c[th],
         \A i \in 1 .. At(nat, m).at : d[At(nat, m).th][i] = c[At(nat, m).th][i]
  PROVE  SamePlaces(nat, m, c, d)
<1> DEFINE r == At(nat, m).th
<1> SUFFICES ASSUME NEW k \in 1 .. m, nat[k].at > 0
             PROVE  d[nat[k].th][nat[k].at] = c[nat[k].th][nat[k].at]
  BY DEF SamePlaces
<1>1. Len(nat) \in Nat /\ k \in 1 .. Len(nat) /\ k \in 0 .. Len(nat)
  BY LenProperties
<1>2. nat[k].th \in Threads /\ nat[k].at \in Nat /\ At(nat, m).at \in Nat
  BY <1>1, ElementOfSeq, FrameTypes, AtTypes
<1>3. CASE nat[k].th = r
  <2>1. At(nat, k) = nat[k] /\ k <= m
    BY DEF At
  <2>2. nat[k].at <= At(nat, m).at
    BY <1>1, <1>3, <2>1 DEF Stacked, Together
  <2> QED  BY <1>2, <1>3, <2>2
<1>4. CASE nat[k].th # r
  BY <1>2, <1>4
<1> QED  BY <1>3, <1>4

(* What the counts above the k-th frame are. *)
LEMMA CountsAt ==
  ASSUME NEW nat \in Seq(NativeFrame), NEW c, Stacked(nat, c), NEW k \in 0 .. Len(nat)
  PROVE  /\ Count(nat, k) \in Nat /\ Basis(nat, c, k) \in Nat
         /\ Basis(nat, c, k) <= Count(nat, k)
         /\ Count(nat, k) = Cardinality(CountedAt(nat, k)) /\ IsFiniteSet(CountedAt(nat, k))
         /\ k # 0 => (Count(nat, k) <= Basis(nat, c, k) <=> Unwindable(nat, k))
<1>1. Len(nat) \in Nat
  BY LenProperties
<1>2. IsFiniteSet(CountedAt(nat, k))
  <2>1. IsFiniteSet(1 .. k)
    BY <1>1, FS_Interval
  <2>2. CountedAt(nat, k) \in SUBSET (1 .. k)
    BY DEF CountedAt
  <2> QED  BY <2>1, <2>2, FS_Subset
<1>3. CASE k = 0
  <2>1. CountedAt(nat, 0) = {}
    BY DEF CountedAt
  <2> QED  BY <1>2, <1>3, <2>1, FS_EmptySet DEF Count, Basis
<1>4. CASE k # 0
  BY <1>1, <1>2, <1>4 DEF Stacked, Levelled
<1> QED  BY <1>3, <1>4

(* One frame more counts one more, unless it is a callback. *)
LEMMA CountedMore ==
  ASSUME NEW nat \in Seq(NativeFrame), NEW f \in NativeFrame
  PROVE  LET n   == Len(nat)
             new == Append(nat, f)
         IN  /\ f.kind = "callback" => CountedAt(new, n + 1) = CountedAt(nat, n)
             /\ f.kind \in {"call", "pcall"} => CountedAt(new, n + 1) = CountedAt(nat, n) \cup {n + 1}
             /\ f.kind = "resume" /\ f.nC # 1 => CountedAt(new, n + 1) = CountedAt(nat, n) \cup {n + 1}
             /\ f.kind = "resume" /\ f.nC = 1 => CountedAt(new, n + 1) = {n + 1}
             /\ n + 1 \notin CountedAt(nat, n)
<1> DEFINE n   == Len(nat)
           new == Append(nat, f)
<1>1. n \in Nat /\ new[n + 1] = f /\ \A k \in 1 .. n : new[k] = nat[k]
  BY BeginsAppend DEF Begins
<1> HIDE DEF n, new
<1>2. \A g \in 1 .. n : /\ new[g] = nat[g]
                        /\ \A j \in g + 1 .. n + 1 : (j \in g + 1 .. n /\ new[j] = nat[j]) \/ j = n + 1
                        /\ g + 1 .. n \subseteq g + 1 .. n + 1 /\ n + 1 \in g + 1 .. n + 1
  BY <1>1
<1>3. 1 .. n + 1 = 1 .. n \cup {n + 1} /\ n + 1 \notin 1 .. n /\ n + 1 + 1 .. n + 1 = {}
  BY <1>1
<1>4. n + 1 \notin CountedAt(nat, n)
  BY <1>3 DEF CountedAt
<1>5. ASSUME ~(f.kind = "resume" /\ f.nC = 1)
      PROVE  CountedAt(new, n + 1) = CountedAt(nat, n) \cup (IF f.kind = "callback" THEN {} ELSE {n + 1})
  <2>1. \A g \in 1 .. n : g \in CountedAt(new, n + 1) <=> g \in CountedAt(nat, n)
    <3> SUFFICES ASSUME NEW g \in 1 .. n
                 PROVE  g \in CountedAt(new, n + 1) <=> g \in CountedAt(nat, n)
      OBVIOUS
    <3>1. (\A j \in g + 1 .. n + 1 : ~(new[j].kind = "resume" /\ new[j].nC = 1))
          <=> (\A j \in g + 1 .. n : ~(nat[j].kind = "resume" /\ nat[j].nC = 1))
      BY <1>1, <1>2, <1>5
    <3>2. g \in 1 .. n + 1 /\ new[g] = nat[g]
      BY <1>2, <1>3
    <3> QED  BY <3>1, <3>2 DEF CountedAt
  <2>2. n + 1 \in CountedAt(new, n + 1) <=> f.kind # "callback"
    BY <1>1, <1>3 DEF CountedAt
  <2>3. CountedAt(new, n + 1) \subseteq 1 .. n + 1 /\ CountedAt(nat, n) \subseteq 1 .. n
    BY DEF CountedAt
  <2> QED  BY <1>3, <1>4, <2>1, <2>2, <2>3
<1>6. ASSUME f.kind = "resume", f.nC = 1
      PROVE  CountedAt(new, n + 1) = {n + 1}
  <2>1. \A g \in 1 .. n : g \notin CountedAt(new, n + 1)
    BY <1>1, <1>2, <1>6 DEF CountedAt
  <2>2. n + 1 \in CountedAt(new, n + 1)
    BY <1>1, <1>3, <1>6 DEF CountedAt
  <2>3. CountedAt(new, n + 1) \subseteq 1 .. n + 1
    BY DEF CountedAt
  <2> QED  BY <1>3, <2>1, <2>2, <2>3
<1> QED  BY <1>4, <1>5, <1>6 DEF n, new

(* The levels of the frame that is pushed. *)
LEMMA LevelledCall ==
  ASSUME NEW nat \in Seq(NativeFrame), NEW c, Stacked(nat, c), NEW f \in NativeFrame,
         f.kind \in {"call", "pcall"},
         f.nC = Count(nat, Len(nat)), f.base = Basis(nat, c, Len(nat)),
         f.kind = "call" => f.base + Cont(c, f) <= f.nC,
         f.kind = "pcall" => Cont(c, f) = 1 /\ nat # <<>> /\ ~IsKotlin(At(nat, Len(nat)))
  PROVE  /\ Levelled(Append(nat, f), c, Len(nat) + 1)
         /\ Count(Append(nat, f), Len(nat) + 1) = f.nC + 1
         /\ Basis(Append(nat, f), c, Len(nat) + 1) = f.base + Cont(c, f)
<1> DEFINE n   == Len(nat)
           new == Append(nat, f)
<1>1. n \in Nat /\ new[n + 1] = f /\ Begins(new, nat, n) /\ n + 1 # 0 /\ n + 1 - 1 = n
      /\ \A k \in 1 .. n : new[k] = nat[k]
  BY BeginsAppend DEF Begins
<1>2. CountedAt(new, n + 1) = CountedAt(nat, n) \cup {n + 1} /\ n + 1 \notin CountedAt(nat, n)
  BY CountedMore
<1>3. /\ Count(nat, n) \in Nat /\ Basis(nat, c, n) \in Nat /\ Basis(nat, c, n) <= Count(nat, n)
      /\ Count(nat, n) = Cardinality(CountedAt(nat, n)) /\ IsFiniteSet(CountedAt(nat, n))
      /\ n # 0 => (Count(nat, n) <= Basis(nat, c, n) <=> Unwindable(nat, n))
  BY <1>1, CountsAt
<1> HIDE DEF n, new
<1>4. Count(new, n) = Count(nat, n) /\ Basis(new, c, n) = Basis(nat, c, n)
  <2>1. n \in 0 .. n /\ SamePlaces(nat, n, c, c)
    BY <1>1 DEF SamePlaces
  <2> QED  BY <1>1, <2>1, AlikeLevels
<1>5. Count(new, n + 1) = f.nC + 1 /\ Basis(new, c, n + 1) = f.base + Cont(c, f)
  BY <1>1 DEF Count, Basis, CountOver, BaseOver, GuardAt
<1>6. Count(new, n + 1) = Cardinality(CountedAt(new, n + 1))
  BY <1>2, <1>3, <1>5, FS_AddElement DEF n
<1>7. Cont(c, f) \in {0, 1}
  BY DEF Cont
<1>8. CASE f.kind = "call"
  <2>1. ~Unwindable(new, n + 1)
    BY <1>1, <1>8 DEF Unwindable
  <2>2. Count(new, n + 1) > Basis(new, c, n + 1)
    BY <1>3, <1>5, <1>7, <1>8 DEF n
  <2> QED  BY <1>1, <1>3, <1>4, <1>5, <1>6, <1>7, <1>8, <2>1, <2>2 DEF Levelled, n, new
<1>9. CASE f.kind = "pcall"
  <2>1. n # 0 /\ nat[n].kind # "callback"
    <3>1. n # 0
      BY <1>9, EmptySeq DEF n
    <3> QED  BY <1>9, <3>1 DEF At, IsKotlin, n
  <2>2. ASSUME NEW r \in 1 .. n, new[r].kind = "resume",
               \A j \in r + 1 .. n + 1 : new[j].kind = "pcall" \/ (new[j].kind = "callback" /\ j = n + 1)
        PROVE  Unwindable(nat, n)
    <3>1. nat[r].kind = "resume"
      BY <1>1, <2>2
    <3>2. \A j \in r + 1 .. n : j \in r + 1 .. n + 1 /\ j # n + 1 /\ new[j] = nat[j]
      BY <1>1
    <3> QED  BY <2>2, <3>1, <3>2 DEF Unwindable
  <2>3. ASSUME NEW r \in 1 .. n, nat[r].kind = "resume",
               \A j \in r + 1 .. n : nat[j].kind = "pcall" \/ (nat[j].kind = "callback" /\ j = n)
        PROVE  Unwindable(new, n + 1)
    <3>1. new[r].kind = "resume" /\ r \in 1 .. n + 1
      BY <1>1, <2>3
    <3>2. \A j \in r + 1 .. n + 1 : j = n + 1 \/ (j \in r + 1 .. n /\ new[j] = nat[j])
      BY <1>1
    <3>3. \A j \in r + 1 .. n + 1 : new[j].kind = "pcall"
      BY <1>1, <1>9, <2>1, <2>3, <3>2
    <3> QED  BY <3>1, <3>3 DEF Unwindable
  <2>4. new[n + 1].kind # "resume" /\ \A r \in 1 .. n + 1 : r \in 1 .. n \/ r = n + 1
    BY <1>1, <1>9
  <2>5. Unwindable(new, n + 1) <=> Unwindable(nat, n)
    BY <2>2, <2>3, <2>4 DEF Unwindable
  <2>6. f.nC + 1 \in Nat /\ f.base + 1 \in Nat /\ f.base + 1 <= f.nC + 1
        /\ (f.nC + 1 <= f.base + 1 <=> f.nC <= f.base)
    BY <1>3 DEF n
  <2>7. f.nC + 1 <= f.base + 1 <=> Unwindable(new, n + 1)
    BY <1>3, <2>1, <2>5, <2>6 DEF n
  <2> QED  BY <1>1, <1>4, <1>5, <1>6, <1>9, <2>6, <2>7 DEF Levelled, n, new
<1> QED  BY <1>5, <1>8, <1>9 DEF n, new

LEMMA LevelledCallback ==
  ASSUME NEW nat \in Seq(NativeFrame), NEW c, Stacked(nat, c), NEW f \in NativeFrame,
         f.kind = "callback", nat # <<>>, ~IsKotlin(At(nat, Len(nat)))
  PROVE  /\ Levelled(Append(nat, f), c, Len(nat) + 1)
         /\ Count(Append(nat, f), Len(nat) + 1) = Count(nat, Len(nat))
         /\ Basis(Append(nat, f), c, Len(nat) + 1) = Basis(nat, c, Len(nat))
         /\ Unwindable(Append(nat, f), Len(nat) + 1) <=> Unwindable(nat, Len(nat))
<1> DEFINE n   == Len(nat)
           new == Append(nat, f)
<1>1. n \in Nat \ {0} /\ new[n + 1] = f /\ Begins(new, nat, n) /\ n + 1 # 0 /\ n + 1 - 1 = n
      /\ \A k \in 1 .. n : new[k] = nat[k]
  BY BeginsAppend, EmptySeq DEF Begins
<1>2. CountedAt(new, n + 1) = CountedAt(nat, n)
  BY CountedMore
<1> HIDE DEF n, new
<1>3. /\ Count(nat, n) \in Nat /\ Basis(nat, c, n) \in Nat /\ Basis(nat, c, n) <= Count(nat, n)
      /\ Count(nat, n) = Cardinality(CountedAt(nat, n))
      /\ Count(nat, n) <= Basis(nat, c, n) <=> Unwindable(nat, n)
  BY <1>1, CountsAt DEF n
<1>4. At(nat, n) = nat[n] /\ nat[n].kind # "callback" /\ At(new, n) = nat[n]
  <2>1. n \in 1 .. n /\ n # 0 /\ new[n] = nat[n]
    BY <1>1
  <2>2. At(nat, n) = nat[n] /\ At(new, n) = new[n]
    BY <2>1 DEF At
  <2> QED  BY <2>1, <2>2 DEF IsKotlin, n
<1>5. Count(new, n + 1) = Count(nat, n) /\ Basis(new, c, n + 1) = Basis(nat, c, n)
  BY <1>1, <1>4 DEF Count, Basis, GuardAt
<1>6. ASSUME NEW r \in 1 .. n, new[r].kind = "resume",
             \A j \in r + 1 .. n + 1 : new[j].kind = "pcall" \/ (new[j].kind = "callback" /\ j = n + 1)
      PROVE  Unwindable(nat, n)
  <2>1. nat[r].kind = "resume"
    BY <1>1, <1>6
  <2>2. \A j \in r + 1 .. n : j \in r + 1 .. n + 1 /\ j # n + 1 /\ new[j] = nat[j]
    BY <1>1
  <2> QED  BY <1>6, <2>1, <2>2 DEF Unwindable
<1>7. ASSUME NEW r \in 1 .. n, nat[r].kind = "resume",
             \A j \in r + 1 .. n : nat[j].kind = "pcall" \/ (nat[j].kind = "callback" /\ j = n)
      PROVE  Unwindable(new, n + 1)
  <2>1. new[r].kind = "resume" /\ r \in 1 .. n + 1
    BY <1>1, <1>7
  <2>2. \A j \in r + 1 .. n + 1 : j = n + 1 \/ (j \in r + 1 .. n /\ new[j] = nat[j])
    BY <1>1
  <2>3. \A j \in r + 1 .. n + 1 : new[j].kind = "pcall" \/ (new[j].kind = "callback" /\ j = n + 1)
    BY <1>1, <1>4, <1>7, <2>2
  <2> QED  BY <2>1, <2>3 DEF Unwindable
<1>8. new[n + 1].kind # "resume" /\ \A r \in 1 .. n + 1 : r \in 1 .. n \/ r = n + 1
  BY <1>1
<1>9. Unwindable(new, n + 1) <=> Unwindable(nat, n)
  BY <1>6, <1>7, <1>8 DEF Unwindable
<1> QED  BY <1>1, <1>2, <1>3, <1>5, <1>9 DEF Levelled, n, new

LEMMA LevelledResume ==
  ASSUME NEW nat \in Seq(NativeFrame), NEW c, Stacked(nat, c), NEW f \in NativeFrame,
         f.kind = "resume", f.nC = f.base, f.nC = 1 \/ f.nC = Count(nat, Len(nat)) + 1
  PROVE  /\ Levelled(Append(nat, f), c, Len(nat) + 1)
         /\ Count(Append(nat, f), Len(nat) + 1) = f.nC
         /\ Basis(Append(nat, f), c, Len(nat) + 1) = f.nC
<1> DEFINE n   == Len(nat)
           new == Append(nat, f)
<1>1. n \in Nat /\ new[n + 1] = f /\ n + 1 # 0
  BY BeginsAppend
<1>2. Count(nat, n) \in Nat /\ Count(nat, n) = Cardinality(CountedAt(nat, n)) /\ IsFiniteSet(CountedAt(nat, n))
  BY <1>1, CountsAt
<1>3. /\ f.nC # 1 => CountedAt(new, n + 1) = CountedAt(nat, n) \cup {n + 1}
      /\ f.nC = 1 => CountedAt(new, n + 1) = {n + 1}
      /\ n + 1 \notin CountedAt(nat, n)
  BY CountedMore
<1> HIDE DEF n, new
<1>4. Count(new, n + 1) = f.nC /\ Basis(new, c, n + 1) = f.nC
  BY <1>1 DEF Count, Basis, CountOver, BaseOver, GuardAt
<1>5. f.nC = Cardinality(CountedAt(new, n + 1))
  <2>1. CASE f.nC = 1
    BY <1>3, <2>1, FS_Singleton
  <2>2. CASE f.nC # 1
    BY <1>2, <1>3, <2>2, FS_AddElement DEF n
  <2> QED  BY <2>1, <2>2
<1>6. f.nC \in Nat /\ f.nC >= 1
  BY <1>2 DEF n
<1>7. Unwindable(new, n + 1)
  <2>1. n + 1 \in 1 .. n + 1 /\ n + 1 + 1 .. n + 1 = {}
    BY <1>1
  <2> QED  BY <1>1, <2>1 DEF Unwindable
<1> QED  BY <1>1, <1>4, <1>5, <1>6, <1>7 DEF Levelled, n, new
-----------------------------------------------------------------------------
(* What a step of one thread leaves alone. *)
Elsewhere(r, c, st, nc, bc, d, su, nd, bd) ==
  \A th \in Threads : th # r => d[th] = c[th] /\ su[th] = st[th] /\ nd[th] = nc[th] /\ bd[th] = bc[th]

(* The running thread r changes what is its own, above the m-th activation. *)
LEMMA SameThread ==
  ASSUME NEW nat, NEW c, NEW st, NEW nc, NEW bc, Sound(nat, c, st, nc, bc),
         NEW new, NEW d, NEW su, NEW nd, NEW bd, Typed(new, d, su, nd, bd),
         NEW m, Begins(new, nat, m), NEW r, At(nat, m).th = r,
         \A k \in m + 1 .. Len(nat) : nat[k].kind # "resume" /\ nat[k].th = r,
         \A k \in m + 1 .. Len(new) : new[k].kind # "resume" /\ new[k].th = r,
         Elsewhere(r, c, st, nc, bc, d, su, nd, bd),
         \A i \in 1 .. At(nat, m).at : d[r][i] = c[r][i],
         Stacked(new, d), At(new, Len(new)).at <= Len(d[r]),
         Exact(new, d, nd, bd), Runs(new, d, su), Held(new, d, su, r)
  PROVE  Sound(new, d, su, nd, bd)
<1>1. /\ nat \in Seq(NativeFrame) /\ new \in Seq(NativeFrame)
      /\ m \in Nat /\ Len(nat) \in Nat /\ Len(new) \in Nat /\ m <= Len(nat) /\ m <= Len(new)
      /\ \A k \in 1 .. m : new[k] = nat[k]
  BY LenProperties DEF Begins
<1>2. \A k \in 0 .. m : At(new, k) = At(nat, k)
  BY AlikeAt
<1>3. At(nat, Len(nat)).th = r /\ At(new, Len(new)).th = r
  <2>1. \A s : Len(s) = m \/ Len(s) \in m + 1 .. Len(s) \/ ~(Len(s) \in Nat /\ m <= Len(s))
    BY <1>1
  <2>2. Len(nat) # m => At(nat, Len(nat)).th = r
    BY <1>1, <2>1 DEF At
  <2>3. Len(new) # m => At(new, Len(new)).th = r
    BY <1>1, <2>1 DEF At
  <2>4. m \in 0 .. m
    BY <1>1
  <2> QED  BY <1>2, <2>2, <2>3, <2>4
<1>4. \A k \in 0 .. Len(new) : At(new, k).th # r => k \in 0 .. m
  <2>1. \A k \in 0 .. Len(new) : k \in 0 .. m \/ (k \in m + 1 .. Len(new) /\ k # 0)
    BY <1>1
  <2> QED  BY <2>1 DEF At
<1>5. SamePlaces(nat, m, c, d)
  <2>1. Stacked(nat, c) /\ m \in 0 .. Len(nat)
    BY <1>1 DEF Sound
  <2>2. /\ \A th \in Threads : th # At(nat, m).th => d[th] = c[th]
        /\ \A i \in 1 .. At(nat, m).at : d[At(nat, m).th][i] = c[At(nat, m).th][i]
    BY DEF Elsewhere
  <2> QED  BY <1>1, <2>1, <2>2, PlacesKept
<1>6. \A k \in 0 .. Len(new) : At(new, k).th \in Threads
  BY <1>1, AtTypes
<1>7. Inside(new, d)
  <2> SUFFICES ASSUME NEW k \in 0 .. Len(new)
               PROVE  At(new, k).at <= Len(d[At(new, k).th])
    BY DEF Inside
  <2>1. CASE At(new, k).th = r
    <3>1. At(new, k).at <= At(new, Len(new)).at
      BY <1>1, <1>3, <2>1 DEF Stacked, Together
    <3>2. At(new, k).at \in Nat /\ At(new, Len(new)).at \in Nat /\ Len(d[r]) \in Nat
      BY <1>1, <1>6, <2>1, AtTypes, LenProperties DEF Typed
    <3> QED  BY <2>1, <3>1, <3>2
  <2>2. CASE At(new, k).th # r
    <3>1. k \in 0 .. m /\ k \in 0 .. Len(nat)
      BY <1>1, <1>4, <2>2
    <3>2. d[At(new, k).th] = c[At(new, k).th]
      BY <1>6, <2>2 DEF Elsewhere
    <3> QED  BY <1>2, <3>1, <3>2 DEF Sound, Inside
  <2> QED  BY <2>1, <2>2
<1>8. \A k \in 1 .. Len(new) : new[k].kind = "resume" => Waits(new, d, su, nd, bd, k - 1)
  <2> SUFFICES ASSUME NEW k \in 1 .. Len(new), new[k].kind = "resume"
               PROVE  Waits(new, d, su, nd, bd, k - 1)
    OBVIOUS
  <2>1. k \in 1 .. m /\ k \in 1 .. Len(nat) /\ nat[k].kind = "resume" /\ k - 1 \in 0 .. m /\ k - 1 \in 0 .. k - 1
    <3>1. k \in 1 .. m \/ k \in m + 1 .. Len(new)
      BY <1>1
    <3>2. k \in 1 .. m
      BY <3>1
    <3> QED  BY <1>1, <3>2
  <2>2. Waits(nat, c, st, nc, bc, k - 1) /\ At(nat, k - 1).th # r
    BY <1>1, <1>3, <2>1, ThreadsApart DEF Sound
  <2>3. At(new, k - 1) = At(nat, k - 1) /\ At(nat, k - 1).th \in Threads
    BY <1>1, <1>2, <1>6, <2>1
  <2>4. Count(new, k - 1) = Count(nat, k - 1) /\ Basis(new, d, k - 1) = Basis(nat, c, k - 1)
    BY <1>5, <2>1, AlikeLevels
  <2> QED  BY <2>2, <2>3, <2>4 DEF Waits, Elsewhere
<1>9. \A th \in Threads : Held(new, d, su, th)
  <2> SUFFICES ASSUME NEW th \in Threads, th # r
               PROVE  Held(new, d, su, th)
    OBVIOUS
  <2>1. \A i : CalledFrom(nat, th, i) => CalledFrom(new, th, i)
    <3>1. \A k \in 1 .. Len(nat) : k \in m + 1 .. Len(nat) \/ (k \in 1 .. Len(new) /\ new[k] = nat[k])
      BY <1>1
    <3> QED  BY <3>1 DEF CalledFrom
  <2> QED  BY <2>1 DEF Held, Sound, Elsewhere
<1>10. \A th \in Threads : th # r => (OnStack(new, th) <=> OnStack(nat, th))
  <2>1. \A k \in 1 .. Len(nat) : k \in m + 1 .. Len(nat) \/ (k \in 1 .. Len(new) /\ new[k] = nat[k])
    BY <1>1
  <2>2. \A k \in 1 .. Len(new) : k \in m + 1 .. Len(new) \/ (k \in 1 .. Len(nat) /\ new[k] = nat[k])
    BY <1>1
  <2> QED  BY <2>1, <2>2 DEF OnStack
<1>11. Busy(new, d, su)
  BY <1>3, <1>10 DEF Busy, Sound, Elsewhere
<1>12. \A co \in Co : ~OnStack(new, co) => Idles(d, su, co)
  <2> SUFFICES ASSUME NEW co \in Co, ~OnStack(new, co)
               PROVE  Idles(d, su, co)
    OBVIOUS
  <2>1. co # r
    <3>1. CASE Len(new) = 0
      BY <1>3, <3>1, CoroutinesAssumption DEF At, Program
    <3>2. CASE Len(new) # 0
      <4>1. Len(new) \in 1 .. Len(new)
        BY <1>1, <3>2
      <4> QED  BY <1>3, <3>2, <4>1 DEF At, OnStack
    <3> QED  BY <3>1, <3>2
  <2>2. co \in Threads
    BY DEF Threads
  <2> QED  BY <1>10, <2>1, <2>2 DEF Sound, Idles, Elsewhere
<1> QED  BY <1>7, <1>8, <1>9, <1>11, <1>12 DEF Sound

(* It changes its frames and its status. *)
LEMMA SoundStay ==
  ASSUME NEW nat, NEW c, NEW st, NEW nc, NEW bc, Sound(nat, c, st, nc, bc),
         NEW d, NEW su, NEW nd, NEW bd, Typed(nat, d, su, nd, bd),
         NEW q, q = At(nat, Len(nat)),
         Elsewhere(q.th, c, st, nc, bc, d, su, nd, bd),
         \A i \in 1 .. q.at : d[q.th][i] = c[q.th][i], q.at <= Len(d[q.th]),
         Exact(nat, c, nd, bd), Runs(nat, d, su), Held(nat, d, su, q.th)
  PROVE  Sound(nat, d, su, nd, bd)
<1> DEFINE n == Len(nat)
<1>1. /\ nat \in Seq(NativeFrame) /\ n \in Nat /\ n \in 0 .. n /\ Begins(nat, nat, n)
      /\ n + 1 .. n = {}
  BY LenProperties DEF Sound, Typed, Begins
<1>2. SamePlaces(nat, n, c, d)
  BY <1>1, PlacesKept DEF Sound, Elsewhere
<1>3. Stacked(nat, d)
  BY <1>1, <1>2, StackedBelow DEF Sound
<1>4. Exact(nat, d, nd, bd)
  BY <1>1, <1>2, AlikeLevels DEF Exact
<1> QED  BY <1>1, <1>3, <1>4, SameThread

(* It leaves an activation. *)
LEMMA SoundPop ==
  ASSUME NEW nat, NEW c, NEW st, NEW nc, NEW bc, Sound(nat, c, st, nc, bc),
         nat # <<>>, nat[Len(nat)].kind # "resume",
         NEW d, NEW su, NEW nd, NEW bd, Typed(Front(nat), d, su, nd, bd),
         NEW p, p = At(nat, Len(nat) - 1),
         Elsewhere(p.th, c, st, nc, bc, d, su, nd, bd),
         \A i \in 1 .. p.at : d[p.th][i] = c[p.th][i], p.at <= Len(d[p.th]),
         nd[p.th] = Count(nat, Len(nat) - 1), bd[p.th] = Basis(nat, c, Len(nat) - 1),
         Runs(Front(nat), d, su), Held(Front(nat), d, su, p.th)
  PROVE  Sound(Front(nat), d, su, nd, bd)
<1> DEFINE n   == Len(nat)
           new == Front(nat)
<1>1. /\ nat \in Seq(NativeFrame) /\ n \in Nat \ {0} /\ Len(new) = n - 1 /\ Begins(new, nat, n - 1)
  BY BeginsFront DEF Sound, Typed
<1> HIDE DEF n, new
<1>2. n - 1 \in 0 .. n /\ n - 1 \in 0 .. n - 1 /\ n \in 1 .. n /\ \A k \in n - 1 + 1 .. n : k = n
      /\ n - 1 + 1 .. n - 1 = {}
  BY <1>1
<1>3. nat[n].th = p.th
  BY <1>2 DEF Sound, Stacked, Linked, n
<1>4. SamePlaces(nat, n - 1, c, d)
  <2>1. Stacked(nat, c) /\ n - 1 \in 0 .. n /\ p = At(nat, n - 1)
    BY <1>2 DEF Sound, n
  <2>2. /\ \A th \in Threads : th # At(nat, n - 1).th => d[th] = c[th]
        /\ \A i \in 1 .. At(nat, n - 1).at : d[At(nat, n - 1).th][i] = c[At(nat, n - 1).th][i]
    BY <2>1 DEF Elsewhere
  <2> QED  BY <1>1, <2>1, <2>2, PlacesKept DEF n
<1>5. Stacked(new, d)
  BY <1>1, <1>4, StackedBelow DEF Sound
<1>6. At(new, n - 1) = p
  BY <1>1, <1>2, AlikeAt DEF n
<1>7. Exact(new, d, nd, bd)
  BY <1>1, <1>2, <1>4, <1>6, AlikeLevels DEF Exact, n
<1> QED  BY <1>1, <1>2, <1>3, <1>5, <1>6, <1>7, SameThread DEF n, new

(* It enters one. *)
LEMMA SoundPush ==
  ASSUME NEW nat, NEW c, NEW st, NEW nc, NEW bc, Sound(nat, c, st, nc, bc),
         NEW q, q = At(nat, Len(nat)), st[q.th] = "OK",
         NEW f \in NativeFrame, f.kind # "resume", f.th = q.th,
         NEW d, NEW nd, NEW bd, Typed(Append(nat, f), d, st, nd, bd),
         Elsewhere(q.th, c, st, nc, bc, d, st, nd, bd),
         \A i \in 1 .. q.at : d[q.th][i] = c[q.th][i], f.at <= Len(d[q.th]),
         IsKotlin(f) => Len(d[q.th]) = f.at,
         Stacked(nat, d) =>
           /\ Linked(Append(nat, f), d, Len(nat) + 1) /\ Levelled(Append(nat, f), d, Len(nat) + 1)
           /\ nd[q.th] = Count(Append(nat, f), Len(nat) + 1)
           /\ bd[q.th] = Basis(Append(nat, f), d, Len(nat) + 1),
         Held(Append(nat, f), d, st, q.th)
  PROVE  Sound(Append(nat, f), d, st, nd, bd)
<1> DEFINE n   == Len(nat)
           new == Append(nat, f)
<1>1. /\ nat \in Seq(NativeFrame) /\ n \in Nat /\ Len(new) = n + 1 /\ new[n + 1] = f /\ Begins(new, nat, n)
  BY BeginsAppend DEF Sound, Typed
<1>2. SamePlaces(nat, n, c, d) /\ Begins(nat, nat, n)
  <2>1. Stacked(nat, c) /\ n \in 0 .. n
    BY <1>1 DEF Sound
  <2>2. \A th \in Threads : th # At(nat, n).th => d[th] = c[th]
    BY DEF Elsewhere, n
  <2> QED  BY <1>1, <2>1, <2>2, PlacesKept DEF Begins
<1>3. Stacked(nat, d)
  BY <1>2, StackedBelow DEF Sound
<1>4. Stacked(new, d)
  BY <1>1, <1>3, StackedPush
<1> HIDE DEF n, new
<1>5. At(new, n + 1) = f /\ n + 1 .. n = {} /\ \A k \in n + 1 .. n + 1 : k = n + 1
  BY <1>1 DEF At
<1>6. Exact(new, d, nd, bd)
  BY <1>1, <1>3, <1>5 DEF Exact, n, new
<1>7. Runs(new, d, st)
  BY <1>1, <1>5 DEF Runs
<1>8. /\ At(nat, n).th = q.th /\ \A i \in 1 .. At(nat, n).at : d[q.th][i] = c[q.th][i]
      /\ \A k \in n + 1 .. n : nat[k].kind # "resume" /\ nat[k].th = q.th
      /\ \A k \in n + 1 .. n + 1 : new[k].kind # "resume" /\ new[k].th = q.th
      /\ At(new, n + 1).at <= Len(d[q.th]) /\ Len(new) = n + 1
      /\ Typed(new, d, st, nd, bd) /\ Held(new, d, st, q.th) /\ Begins(new, nat, n)
  BY <1>1, <1>5 DEF n, new
<1>9. Sound(new, d, st, nd, bd)
  BY <1>4, <1>6, <1>7, <1>8, SameThread DEF n
<1> QED  BY <1>9 DEF new

(* A call or pcall of the running thread, whose frame is the at-th. *)
LEMMA SoundPushCall ==
  ASSUME NEW nat, NEW c, NEW st, NEW nc, NEW bc, Sound(nat, c, st, nc, bc),
         NEW q, q = At(nat, Len(nat)), st[q.th] = "OK",
         NEW f \in NativeFrame, f.kind \in {"call", "pcall"}, f.th = q.th,
         f.nC = nc[q.th], f.base = bc[q.th],
         NEW d, NEW nd, NEW bd, Typed(Append(nat, f), d, st, nd, bd),
         Elsewhere(q.th, c, st, nc, bc, d, st, nd, bd),
         \A i \in 1 .. q.at : d[q.th][i] = c[q.th][i], f.at <= Len(d[q.th]),
         f.kind = "call" => IsKotlin(q) /\ f.at = q.at /\ (Cont(d, f) = 1 => bc[q.th] < nc[q.th]),
         f.kind = "pcall" => ~IsKotlin(q) /\ f.at > q.at /\ d[q.th][f.at] = "pcall",
         nd[q.th] = f.nC + 1, bd[q.th] = f.base + Cont(d, f),
         Held(Append(nat, f), d, st, q.th)
  PROVE  Sound(Append(nat, f), d, st, nd, bd)
<1> DEFINE n   == Len(nat)
           new == Append(nat, f)
<1>1. /\ nat \in Seq(NativeFrame) /\ n \in Nat /\ n \in 0 .. n /\ new[n + 1] = f /\ n + 1 - 1 = n
      /\ Begins(new, nat, n) /\ Begins(nat, nat, n)
  BY BeginsAppend DEF Sound, Typed, Begins
<1>2. At(new, n) = q
  BY <1>1, AlikeAt
<1>3. Count(nat, n) = nc[q.th] /\ Basis(nat, c, n) = bc[q.th]
  BY DEF Sound, Exact
<1>4. SamePlaces(nat, n, c, d)
  <2>1. Stacked(nat, c)
    BY DEF Sound
  <2>2. \A th \in Threads : th # At(nat, n).th => d[th] = c[th]
    BY DEF Elsewhere
  <2> QED  BY <1>1, <2>1, <2>2, PlacesKept
<1>5. Basis(nat, d, n) = f.base /\ Count(nat, n) = f.nC
  BY <1>1, <1>3, <1>4, AlikeLevels
<1>6. q.at \in Nat /\ f.at \in Nat /\ f.nC \in Nat /\ f.base \in Nat
  BY <1>1, AtTypes, FrameTypes
<1> HIDE DEF n, new
<1>7. Cont(d, f) \in {0, 1}
  BY DEF Cont
<1>8. Linked(new, d, n + 1)
  BY <1>1, <1>2, <1>6 DEF Linked
<1>9. ASSUME Stacked(nat, d)
      PROVE  /\ Levelled(new, d, n + 1)
             /\ Count(new, n + 1) = f.nC + 1 /\ Basis(new, d, n + 1) = f.base + Cont(d, f)
  <2>1. f.base <= f.nC
    BY <1>1, <1>5, <1>9, CountsAt DEF n
  <2>2. f.kind = "call" => f.base + Cont(d, f) <= f.nC
    BY <1>6, <1>7, <2>1
  <2>3. ASSUME f.kind = "pcall"
        PROVE  Cont(d, f) = 1 /\ nat # <<>> /\ ~IsKotlin(At(nat, n))
    <3>1. Cont(d, f) = 1
      BY <1>6, <2>3 DEF Cont, WithCont
    <3>2. nat # <<>>
      BY <2>3, EmptySeq DEF At, Program, IsKotlin
    <3> QED  BY <2>3, <3>1, <3>2 DEF n
  <2> QED  BY <1>1, <1>5, <1>9, <2>2, <2>3, LevelledCall DEF n, new
<1>10. f.kind # "resume" /\ ~IsKotlin(f)
  BY DEF IsKotlin
<1> QED  BY <1>8, <1>9, <1>10, SoundPush DEF n, new

LEMMA LinkedCallback ==
  ASSUME NEW nat, NEW c, NEW n \in Nat, NEW f, nat[n + 1] = f, NEW p, At(nat, n) = p,
         f.kind = "callback", f.th = p.th, ~IsKotlin(p), f.at > p.at, c[f.th][f.at] \in KotlinFrames
  PROVE  Linked(nat, c, n + 1)
<1>1. n + 1 - 1 = n
  OBVIOUS
<1> QED  BY <1>1 DEF Linked

(* The trampoline of a Kotlin function, whose frame is the last. *)
LEMMA SoundPushCallback ==
  ASSUME NEW nat, NEW c, NEW st, NEW nc, NEW bc, Sound(nat, c, st, nc, bc),
         NEW q, q = At(nat, Len(nat)), st[q.th] = "OK", ~IsKotlin(q),
         Len(c[q.th]) > q.at, Last(c[q.th]) \in KotlinFrames,
         NEW entry \in {"start", "invoke", "cont"},
         NEW f, f = [kind |-> "callback", th |-> q.th, at |-> Len(c[q.th]), entry |-> entry]
  PROVE  Sound(Append(nat, f), c, st, nc, bc)
<1> DEFINE n   == Len(nat)
           new == Append(nat, f)
<1>1. nat \in Seq(NativeFrame) /\ n \in Nat /\ n \in 0 .. n /\ Typed(nat, c, st, nc, bc)
  BY LenProperties DEF Sound, Typed
<1>2. q.th \in Threads /\ q.at \in Nat
  BY <1>1, AtTypes
<1>3. Len(c[q.th]) \in Nat \ {0}
  <2>1. Len(c[q.th]) \in Nat
    BY <1>1, <1>2, LenProperties DEF Typed
  <2> QED  BY <1>2, <2>1
<1>4. f \in NativeFrame
  BY <1>2, <1>3 DEF NativeFrame
<1>5. /\ Typed(new, c, st, nc, bc) /\ new[n + 1] = f /\ n + 1 - 1 = n /\ Len(new) = n + 1
      /\ Begins(new, nat, n) /\ At(new, n) = q
  <2>1. Begins(new, nat, n) /\ new[n + 1] = f /\ Len(new) = n + 1
    BY <1>1, <1>4, BeginsAppend
  <2>2. At(new, n) = q
    BY <1>1, <2>1, AlikeAt
  <2>3. new \in Seq(NativeFrame)
    BY <2>1 DEF Begins
  <2> HIDE DEF new
  <2> QED  BY <1>1, <2>1, <2>2, <2>3 DEF Typed
<1>6. nat # <<>>
  BY EmptySeq DEF At, Program, IsKotlin
<1> HIDE DEF n, new
<1>7. Linked(new, c, n + 1)
  <2>1. n \in Nat /\ At(new, n) = q /\ new[n + 1] = f
    BY <1>1, <1>5
  <2>3. f.kind = "callback" /\ f.th = q.th /\ f.at > q.at
    OBVIOUS
  <2>2. c[f.th][f.at] \in KotlinFrames
    BY DEF Last
  <2> QED  BY <2>1, <2>2, <2>3, LinkedCallback
<1>8. ASSUME Stacked(nat, c)
      PROVE  /\ Levelled(new, c, n + 1)
             /\ nc[q.th] = Count(new, n + 1) /\ bc[q.th] = Basis(new, c, n + 1)
  <2>1. nc[q.th] = Count(nat, n) /\ bc[q.th] = Basis(nat, c, n)
    BY DEF Sound, Exact, n
  <2> QED  BY <1>1, <1>4, <1>6, <1>8, <2>1, LevelledCallback DEF n, new
<1>9. Held(new, c, st, q.th)
  <2>1. \A i : CalledFrom(nat, q.th, i) => CalledFrom(new, q.th, i)
    <3>1. \A k \in 1 .. n : k \in 1 .. n + 1 /\ new[k] = nat[k]
      BY <1>1, <1>5 DEF Begins
    <3> QED  BY <1>5, <3>1 DEF CalledFrom, n
  <2>2. Held(nat, c, st, q.th)
    BY <1>2 DEF Sound
  <2> QED  BY <2>1, <2>2 DEF Held
<1>10. /\ Elsewhere(q.th, c, st, nc, bc, c, st, nc, bc)
       /\ f.kind # "resume" /\ f.th = q.th /\ f.at = Len(c[q.th]) /\ f.at <= Len(c[q.th])
  BY <1>3 DEF Elsewhere
<1> QED  BY <1>4, <1>5, <1>7, <1>8, <1>9, <1>10, SoundPush DEF n, new

(* A frame is entered, in Kotlin or in the VM. *)
LEMMA Trampolined ==
  ASSUME NEW nat, NEW c, NEW st, NEW nc, NEW bc, Sound(nat, c, st, nc, bc),
         NEW q, q = At(nat, Len(nat)), st[q.th] = "OK", ~IsKotlin(q),
         Len(c[q.th]) > q.at, Last(c[q.th]) \notin KotlinFrames => Landed(nat, c, st),
         NEW entry \in {"start", "invoke", "cont"}
  PROVE  LET new == WithTrampoline(nat, q.th, c[q.th], entry)
         IN  Sound(new, c, st, nc, bc) /\ Landed(new, c, st)
<1> DEFINE f == [kind |-> "callback", th |-> q.th, at |-> Len(c[q.th]), entry |-> entry]
<1>1. CASE Last(c[q.th]) \in KotlinFrames
  <2>1. Sound(Append(nat, f), c, st, nc, bc)
    BY <1>1, SoundPushCallback
  <2>2. nat \in Seq(NativeFrame) /\ Append(nat, f) \in Seq(NativeFrame) /\ Len(nat) \in Nat
    BY <2>1, LenProperties DEF Sound, Typed
  <2>3. At(Append(nat, f), Len(Append(nat, f))) = f
    BY <2>2 DEF At
  <2>4. Landed(Append(nat, f), c, st)
    BY <2>3 DEF Landed
  <2> QED  BY <1>1, <2>1, <2>4 DEF WithTrampoline
<1>2. CASE Last(c[q.th]) \notin KotlinFrames
  BY <1>2 DEF WithTrampoline
<1> QED  BY <1>1, <1>2

(* While a resumed thread is in the VM, all its frames but the last can go on. *)
LEMMA Landing ==
  ASSUME NEW nat \in Seq(NativeFrame), NEW c, NEW st, Stacked(nat, c),
         NEW k \in 1 .. Len(nat), nat[k].kind = "resume",
         \A j \in k + 1 .. Len(nat) : nat[j].kind # "call",
         Held(nat, c, st, nat[k].th), st[nat[k].th] # "ERRRUN",
         NEW i \in 1 .. Len(c[nat[k].th]) - 1
  PROVE  c[nat[k].th][i] \in Stays
<1>1. Len(nat) \in Nat
  BY LenProperties
<1>2. \A j \in 1 .. k - 1 : nat[j].th # nat[k].th
  BY DEF Stacked, Linked
<1>3. \A j \in 1 .. Len(nat) : j \in 1 .. k - 1 \/ j = k \/ j \in k + 1 .. Len(nat)
  BY <1>1
<1>4. ~CalledFrom(nat, nat[k].th, i)
  BY <1>2, <1>3 DEF CalledFrom
<1> QED  BY <1>4 DEF Held

(* A thread that is not on the C stack is none of those there. *)
LEMMA OffStack ==
  ASSUME NEW nat, NEW co \in Co, ~OnStack(nat, co)
  PROVE  \A k \in 0 .. Len(nat) : At(nat, k).th # co
<1> SUFFICES ASSUME NEW k \in 0 .. Len(nat)
             PROVE  At(nat, k).th # co
  OBVIOUS
<1>1. CASE k = 0
  BY <1>1, CoroutinesAssumption DEF At, Program
<1>2. CASE k # 0
  BY <1>2 DEF At, OnStack
<1> QED  BY <1>1, <1>2

(* A thread that is not there is changed. *)
LEMMA SoundIdle ==
  ASSUME NEW nat, NEW c, NEW st, NEW nc, NEW bc, Sound(nat, c, st, nc, bc), Landed(nat, c, st),
         NEW co \in Co, ~OnStack(nat, co),
         NEW d, NEW su, NEW nd, NEW bd, Typed(nat, d, su, nd, bd),
         Elsewhere(co, c, st, nc, bc, d, su, nd, bd),
         Idles(d, su, co), Held(nat, d, su, co)
  PROVE  Sound(nat, d, su, nd, bd) /\ Landed(nat, d, su)
<1> DEFINE n == Len(nat)
<1>1. nat \in Seq(NativeFrame) /\ n \in Nat /\ Begins(nat, nat, n) /\ n \in 0 .. n
  BY LenProperties DEF Sound, Typed, Begins
<1>2. \A k \in 0 .. n : /\ At(nat, k).th \in Threads
                        /\ d[At(nat, k).th] = c[At(nat, k).th] /\ su[At(nat, k).th] = st[At(nat, k).th]
                        /\ nd[At(nat, k).th] = nc[At(nat, k).th] /\ bd[At(nat, k).th] = bc[At(nat, k).th]
  BY <1>1, OffStack, AtTypes DEF Elsewhere
<1>3. SamePlaces(nat, n, c, d)
  <2>1. \A k \in 1 .. n : k \in 0 .. n /\ At(nat, k) = nat[k]
    BY DEF At
  <2> QED  BY <1>2, <2>1 DEF SamePlaces
<1>4. Stacked(nat, d) /\ \A k \in 0 .. n : Basis(nat, d, k) = Basis(nat, c, k)
  BY <1>1, <1>3, StackedBelow, AlikeLevels DEF Sound
<1>5. Inside(nat, d)
  BY <1>2 DEF Sound, Inside
<1>6. \A k \in 1 .. n : nat[k].kind = "resume" => Waits(nat, d, su, nd, bd, k - 1)
  <2> SUFFICES ASSUME NEW k \in 1 .. n, nat[k].kind = "resume"
               PROVE  Waits(nat, d, su, nd, bd, k - 1)
    OBVIOUS
  <2>1. k - 1 \in 0 .. n /\ Waits(nat, c, st, nc, bc, k - 1)
    BY <1>1 DEF Sound
  <2> QED  BY <1>2, <1>4, <2>1 DEF Waits
<1>7. Exact(nat, d, nd, bd) /\ Runs(nat, d, su) /\ Landed(nat, d, su)
  BY <1>1, <1>2, <1>4 DEF Sound, Exact, Runs, Landed
<1>8. \A th \in Threads : Held(nat, d, su, th)
  BY DEF Sound, Held, Elsewhere
<1>9. Busy(nat, d, su)
  <2>1. \A th \in Threads : OnStack(nat, th) => th # co
    OBVIOUS
  <2> QED  BY <2>1 DEF Sound, Busy, Elsewhere
<1>10. \A x \in Co : ~OnStack(nat, x) => Idles(d, su, x)
  <2>1. \A x \in Co : x \in Threads
    BY DEF Threads
  <2> QED  BY <2>1 DEF Sound, Idles, Elsewhere
<1> QED  BY <1>4, <1>5, <1>6, <1>7, <1>8, <1>9, <1>10 DEF Sound

(* The running thread resumes one that is not on the C stack. *)
LEMMA SoundResume ==
  ASSUME NEW nat, NEW c, NEW st, NEW nc, NEW bc, Sound(nat, c, st, nc, bc),
         NEW q, q = At(nat, Len(nat)), st[q.th] = "OK",
         ~IsKotlin(q) => Len(c[q.th]) > q.at /\ Last(c[q.th]) = "coresume",
         NEW co \in Co, ~OnStack(nat, co),
         NEW count \in 1 .. HardLimit, count = 1 \/ count = nc[q.th] + 1,
         NEW f, f = [kind |-> "resume", th |-> co, at |-> 0, nC |-> count, base |-> count],
         NEW d, NEW su, NEW nd, NEW bd, Typed(Append(nat, f), d, su, nd, bd),
         Elsewhere(co, c, st, nc, bc, d, su, nd, bd),
         su[co] = "OK", nd[co] = count, bd[co] = count,
         \A i \in 1 .. Len(d[co]) - 1 : d[co][i] \in Stays
  PROVE  Sound(Append(nat, f), d, su, nd, bd)
<1> DEFINE n   == Len(nat)
           new == Append(nat, f)
<1>1. f \in NativeFrame /\ f.kind = "resume" /\ f.th = co /\ f.at = 0 /\ f.nC = count /\ f.base = count
  <2>1. co \in Threads /\ count \in 0 .. HardLimit
    BY CoroutinesAssumption DEF Threads
  <2> QED  BY <2>1 DEF NativeFrame
<1>2. /\ nat \in Seq(NativeFrame) /\ n \in Nat /\ n \in 0 .. n /\ Begins(nat, nat, n)
      /\ Begins(new, nat, n) /\ Len(new) = n + 1 /\ new[n + 1] = f
      /\ \A k \in 1 .. n : new[k] = nat[k]
  BY <1>1, BeginsAppend DEF Sound, Typed, Begins
<1>3. \A k \in 0 .. n : /\ At(nat, k).th \in Threads /\ At(nat, k).th # co
                        /\ d[At(nat, k).th] = c[At(nat, k).th] /\ su[At(nat, k).th] = st[At(nat, k).th]
                        /\ nd[At(nat, k).th] = nc[At(nat, k).th] /\ bd[At(nat, k).th] = bc[At(nat, k).th]
  BY <1>2, OffStack, AtTypes DEF Elsewhere
<1>4. SamePlaces(nat, n, c, d)
  <2>1. \A k \in 1 .. n : k \in 0 .. n /\ At(nat, k) = nat[k]
    BY DEF At
  <2> QED  BY <1>3, <2>1 DEF SamePlaces
<1>5. Stacked(nat, d)
  BY <1>2, <1>4, StackedBelow DEF Sound
<1>6. \A k \in 0 .. n : /\ Count(new, k) = Count(nat, k) /\ Basis(new, d, k) = Basis(nat, c, k)
                        /\ At(new, k) = At(nat, k)
  BY <1>2, <1>4, AlikeLevels, AlikeAt
<1>7. nc[q.th] = Count(nat, n) /\ bc[q.th] = Basis(nat, c, n)
  BY DEF Sound, Exact
<1> HIDE DEF n, new
<1>8. Linked(new, d, n + 1)
  <2>1. \A j \in 1 .. n + 1 - 1 : j \in 1 .. n /\ j \in 0 .. n /\ At(nat, j) = nat[j]
    BY <1>2 DEF At
  <2> QED  BY <1>1, <1>2, <1>3, <2>1 DEF Linked
<1>9. Levelled(new, d, n + 1) /\ Count(new, n + 1) = count /\ Basis(new, d, n + 1) = count
  <2>1. f.nC = f.base /\ (f.nC = 1 \/ f.nC = Count(nat, n) + 1)
    BY <1>1, <1>7
  <2> QED  BY <1>1, <1>2, <1>5, <2>1, LevelledResume DEF n, new
<1>10. Stacked(new, d)
  BY <1>1, <1>2, <1>5, <1>8, <1>9, StackedPush DEF n, new
<1>11. At(new, n + 1) = f /\ \A k \in 0 .. n + 1 : k \in 0 .. n \/ k = n + 1
  BY <1>2 DEF At
<1>12. Inside(new, d)
  <2>1. Len(d[co]) \in Nat
    BY LenProperties DEF Typed, Threads
  <2>2. \A k \in 0 .. n : At(new, k).at <= Len(d[At(new, k).th])
    BY <1>3, <1>6 DEF Sound, Inside, n
  <2> QED  BY <1>1, <1>2, <1>11, <2>1, <2>2 DEF Inside
<1>13. \A k \in 1 .. n + 1 : new[k].kind = "resume" => Waits(new, d, su, nd, bd, k - 1)
  <2> SUFFICES ASSUME NEW k \in 1 .. n + 1, new[k].kind = "resume"
               PROVE  Waits(new, d, su, nd, bd, k - 1)
    OBVIOUS
  <2>1. CASE k \in 1 .. n
    <3>1. k - 1 \in 0 .. n /\ Waits(nat, c, st, nc, bc, k - 1)
      BY <1>2, <2>1 DEF Sound, n
    <3> QED  BY <1>3, <1>6, <3>1 DEF Waits
  <2>2. CASE k = n + 1
    <3>1. k - 1 = n /\ n \in 0 .. n
      BY <1>2, <2>2
    <3>2. IsKotlin(q) => Len(c[q.th]) = q.at
      BY DEF Sound, Runs
    <3>3. At(nat, n) = q
      BY DEF n
    <3> QED  BY <1>3, <1>6, <1>7, <3>1, <3>2, <3>3 DEF Waits
  <2>3. k \in 1 .. n \/ k = n + 1
    BY <1>2
  <2> QED  BY <2>1, <2>2, <2>3
<1>14. Exact(new, d, nd, bd) /\ Runs(new, d, su)
  BY <1>1, <1>2, <1>9, <1>11 DEF Exact, Runs, IsKotlin
<1>15. \A th \in Threads : Held(new, d, su, th)
  <2>1. \A th, i : CalledFrom(nat, th, i) => CalledFrom(new, th, i)
    <3>1. \A k \in 1 .. n : k \in 1 .. n + 1
      BY <1>2
    <3> QED  BY <1>2, <3>1 DEF CalledFrom, n
  <2>2. Held(new, d, su, co)
    BY DEF Held
  <2>3. \A th \in Threads : th # co => Held(new, d, su, th)
    BY <2>1 DEF Held, Sound, Elsewhere
  <2> QED  BY <2>2, <2>3
<1>16. \A th : OnStack(new, th) <=> th = co \/ OnStack(nat, th)
  <2>1. \A k \in 1 .. n + 1 : k \in 1 .. n \/ k = n + 1
    BY <1>2
  <2>2. n + 1 \in 1 .. n + 1 /\ 1 .. n \subseteq 1 .. n + 1
    BY <1>2
  <2> QED  BY <1>1, <1>2, <2>1, <2>2 DEF OnStack, n
<1>17. Busy(new, d, su)
  <2> SUFFICES ASSUME NEW th \in Threads, OnStack(nat, th), th # co
               PROVE  su[th] = "OK" /\ d[th] # <<>>
    BY <1>1, <1>2, <1>11, <1>16 DEF Busy
  <2>1. su[th] = st[th] /\ d[th] = c[th]
    BY DEF Elsewhere
  <2>2. CASE th # q.th
    BY <2>1, <2>2 DEF Sound, Busy
  <2>3. CASE th = q.th
    <3>1. n \in Nat \ {0}
      BY <1>2 DEF OnStack, n
    <3>2. q = nat[n] /\ n \in 1 .. n /\ n - 1 \in 0 .. n
      BY <3>1 DEF At, n
    <3>3. At(nat, n - 1).at \in Nat /\ q.at \in Nat /\ q.kind # "program"
      BY <1>2, <3>2, AtTypes, ElementOfSeq, FrameTypes DEF n
    <3>4. IsKotlin(q) => q.at > At(nat, n - 1).at /\ Len(c[q.th]) = q.at
      BY <3>2, <3>3 DEF Sound, Stacked, Linked, Runs, IsKotlin, n
    <3>5. Len(c[q.th]) > 0
      BY <3>3, <3>4
    <3>6. Len(<<>>) = 0
      BY EmptySeq
    <3> QED  BY <2>1, <2>3, <3>5, <3>6
  <2> QED  BY <2>2, <2>3
<1>18. \A x \in Co : ~OnStack(new, x) => Idles(d, su, x)
  <2>1. \A x \in Co : x \in Threads
    BY DEF Threads
  <2> QED  BY <1>16, <2>1 DEF Sound, Idles, Elsewhere
<1> QED  BY <1>2, <1>10, <1>12, <1>13, <1>14, <1>15, <1>17, <1>18 DEF Sound, new

(* A resume comes to its end: coroutine.resume, if it was that, returns. *)
LEMMA SoundReturn ==
  ASSUME NEW nat, NEW c, NEW st, NEW nc, NEW bc, Sound(nat, c, st, nc, bc),
         nat # <<>>, nat[Len(nat)].kind = "resume", NEW co, co = nat[Len(nat)].th,
         NEW d, d = BackIn(c, Resumer(nat)),
         NEW su, NEW nd, NEW bd, Typed(Front(nat), d, su, nd, bd),
         \A th \in Threads : th # co => su[th] = st[th] /\ nd[th] = nc[th] /\ bd[th] = bc[th],
         Idles(c, su, co)
  PROVE  Sound(Front(nat), d, su, nd, bd) /\ Landed(Front(nat), d, su)
<1> DEFINE n   == Len(nat)
           new == Front(nat)
           p   == At(nat, n - 1)
           r   == p.th
<1>1. /\ nat \in Seq(NativeFrame) /\ n \in Nat \ {0} /\ Len(new) = n - 1 /\ Begins(new, nat, n - 1)
      /\ new \in Seq(NativeFrame) /\ c \in [Threads -> Seq(Frames)] /\ d \in [Threads -> Seq(Frames)]
      /\ \A k \in 1 .. n - 1 : new[k] = nat[k]
  BY BeginsFront DEF Sound, Typed, Begins
<1> HIDE DEF n, new, p, r
<1>2. /\ n - 1 \in Nat /\ n - 1 \in 0 .. n /\ n - 1 \in 0 .. n - 1 /\ n \in 1 .. n
      /\ \A k \in 1 .. n : k \in 1 .. n - 1 \/ k = n
      /\ \A k \in 1 .. n - 1 : k \in 1 .. n /\ k \in 0 .. n - 1
      /\ \A k \in 0 .. n - 1 : k \in 0 .. n
  BY <1>1
<1>3. r \in Threads /\ p.at \in Nat /\ Resumer(nat) = r
  <2>1. r \in Threads /\ p.at \in Nat
    BY <1>1, <1>2, AtTypes DEF n, p, r
  <2> QED  BY <1>1, <2>1 DEF Resumer, At, Program, n, p, r
<1>4. Waits(nat, c, st, nc, bc, n - 1)
  BY <1>2 DEF Sound, n
<1>5. \A k \in 0 .. n - 1 : At(nat, k).th # co /\ At(new, k) = At(nat, k)
  BY <1>1, <1>2, ThreadsApart, AlikeAt DEF Sound, n
<1>6. r # co /\ co \in Co /\ co \in Threads
  BY <1>2, <1>5 DEF Sound, Stacked, Linked, Threads, n, p, r
<1>7. /\ \A th \in Threads : th # r => d[th] = c[th]
      /\ IsKotlin(p) => d[r] = c[r] /\ Len(d[r]) = p.at
      /\ ~IsKotlin(p) => /\ Len(d[r]) = Len(c[r]) - 1 /\ Len(d[r]) >= p.at
                         /\ \A i \in 1 .. Len(d[r]) : d[r][i] = c[r][i]
  <2>1. CASE IsKotlin(p)
    <3>1. Len(c[r]) = p.at
      BY <1>4, <2>1 DEF Waits, p, r
    <3>2. ASSUME c[r] # <<>>
          PROVE  Last(c[r]) # "coresume"
      <4>1. p.at # 0
        BY <1>1, <1>3, <3>1, <3>2, EmptySeq
      <4>2. n - 1 # 0
        BY <4>1 DEF At, Program, p
      <4>3. p = nat[n - 1] /\ n - 1 \in 1 .. n
        BY <1>1, <4>2 DEF At, p
      <4>4. p.kind = "callback"
        <5>1. p \in NativeFrame
          BY <1>1, <4>3, ElementOfSeq DEF n
        <5> QED  BY <2>1, <5>1, FrameTypes DEF IsKotlin
      <4>5. c[r][p.at] \in KotlinFrames
        BY <4>3, <4>4 DEF Sound, Stacked, Linked, n, r
      <4> QED  BY <3>1, <4>5 DEF KotlinFrames, Last
    <3>3. d = c
      BY <1>3, <3>2 DEF BackIn
    <3> QED  BY <2>1, <3>1, <3>3
  <2>2. CASE ~IsKotlin(p)
    <3>1. Len(c[r]) > p.at /\ Last(c[r]) = "coresume" /\ c[r] \in Seq(Frames) /\ Len(c[r]) \in Nat
      BY <1>1, <1>3, <1>4, <2>2, LenProperties DEF Waits, p, r
    <3>2. c[r] # <<>>
      BY <1>3, <3>1, EmptySeq
    <3>3. d = [c EXCEPT ![r] = Front(@)]
      BY <1>3, <3>1, <3>2 DEF BackIn
    <3>4. d[r] = Front(c[r]) /\ \A th \in Threads : th # r => d[th] = c[th]
      BY <1>1, <1>3, <3>3
    <3>5. Len(d[r]) = Len(c[r]) - 1 /\ \A i \in 1 .. Len(d[r]) : d[r][i] = c[r][i]
      BY <3>1, <3>2, <3>4, FrontOk
    <3> QED  BY <1>3, <2>2, <3>1, <3>4, <3>5
  <2> QED  BY <2>1, <2>2
<1>8. /\ \A i \in 1 .. p.at : d[r][i] = c[r][i] 
      /\ p.at <= Len(d[r]) /\ Len(d[r]) <= Len(c[r])
      /\ \A i \in 1 .. Len(d[r]) - 1 : i \in 1 .. Len(c[r]) - 1 /\ d[r][i] = c[r][i]
      /\ Len(d[r]) \in Nat /\ Len(c[r]) \in Nat
  <2>1. Len(d[r]) \in Nat /\ Len(c[r]) \in Nat
    BY <1>1, <1>3, LenProperties
  <2> QED  BY <1>3, <1>7, <2>1
<1>9. SamePlaces(nat, n - 1, c, d)
  <2>1. Stacked(nat, c)
    BY DEF Sound
  <2> QED  BY <1>1, <1>2, <1>7, <1>8, <2>1, PlacesKept DEF n, p, r
<1>10. /\ Stacked(new, d)
       /\ \A k \in 0 .. n - 1 : Count(new, k) = Count(nat, k) /\ Basis(new, d, k) = Basis(nat, c, k)
  <2> DEFINE m == n - 1
  <2>1. Begins(new, nat, m) /\ Len(new) = m /\ SamePlaces(nat, m, c, d) /\ Stacked(nat, c)
    BY <1>1, <1>9 DEF Sound
  <2> HIDE DEF m
  <2>2. Stacked(new, d)
    BY ONLY <2>1, StackedBelow
  <2>3. \A k \in 0 .. m : Count(new, k) = Count(nat, k) /\ Basis(new, d, k) = Basis(nat, c, k)
    BY ONLY <2>1, AlikeLevels
  <2> QED  BY <2>2, <2>3 DEF m
<1>11. At(new, n - 1) = p /\ \A k \in 0 .. n - 1 : At(new, k).th \in Threads
  BY <1>1, <1>2, <1>5, AtTypes DEF n, p
<1>12. Inside(new, d)
  <2> SUFFICES ASSUME NEW k \in 0 .. n - 1
               PROVE  At(new, k).at <= Len(d[At(new, k).th])
    BY <1>1 DEF Inside
  <2>1. CASE At(new, k).th = r
    <3>1. At(new, k).at <= p.at
      BY <1>1, <1>2, <1>10, <1>11, <2>1 DEF Stacked, Together, r
    <3>2. At(new, k).at \in Nat
      BY <1>1, AtTypes
    <3> QED  BY <1>3, <1>8, <2>1, <3>1, <3>2
  <2>2. CASE At(new, k).th # r
    <3>1. d[At(new, k).th] = c[At(new, k).th] /\ k \in 0 .. n /\ At(new, k) = At(nat, k)
      BY <1>2, <1>5, <1>7, <1>11, <2>2
    <3> QED  BY <3>1 DEF Sound, Inside, n
  <2> QED  BY <2>1, <2>2
<1>13. \A k \in 1 .. n - 1 : new[k].kind = "resume" => Waits(new, d, su, nd, bd, k - 1)
  <2> SUFFICES ASSUME NEW k \in 1 .. n - 1, new[k].kind = "resume"
               PROVE  Waits(new, d, su, nd, bd, k - 1)
    OBVIOUS
  <2>1. k - 1 \in 0 .. n - 1 /\ k - 1 \in 0 .. k - 1 /\ Waits(nat, c, st, nc, bc, k - 1)
    BY <1>1, <1>2 DEF Sound, n
  <2>2. At(new, k - 1).th # r
    <3>1. new \in Seq(NativeFrame) /\ Stacked(new, d) /\ k \in 1 .. Len(new) /\ At(new, Len(new)) = p
      BY <1>1, <1>10, <1>11
    <3>2. At(new, k - 1).th # At(new, Len(new)).th
      BY ONLY <2>1, <3>1, new[k].kind = "resume", ThreadsApart
    <3> QED  BY <3>1, <3>2 DEF r
  <2>3. At(new, k - 1) = At(nat, k - 1) /\ At(nat, k - 1).th \in Threads /\ At(nat, k - 1).th # co
    BY <1>5, <1>11, <2>1
  <2> QED  BY <1>7, <1>10, <2>1, <2>2, <2>3 DEF Waits
<1>14. Exact(new, d, nd, bd) /\ Runs(new, d, su)
  <2>1. nd[r] = nc[r] /\ bd[r] = bc[r] /\ su[r] = "OK"
    BY <1>3, <1>4, <1>6 DEF Waits, p, r
  <2>2. nc[r] = Count(nat, n - 1) /\ bc[r] = Basis(nat, c, n - 1)
    BY <1>4 DEF Waits, p, r
  <2> QED  BY <1>1, <1>2, <1>7, <1>10, <1>11, <2>1, <2>2 DEF Exact, Runs, r
<1>15. \A th \in Threads : Held(new, d, su, th)
  <2> SUFFICES ASSUME NEW th \in Threads, su[th] # "ERRRUN", NEW i \in 1 .. Len(d[th]) - 1
               PROVE  d[th][i] \in Stays \/ (d[th][i] = "plain" /\ CalledFrom(new, th, i))
    BY DEF Held
  <2>1. st[th] # "ERRRUN"
    <3>1. CASE th = co
      <4>1. At(nat, n) = nat[n]
        BY <1>1 DEF At
      <4> QED  BY <3>1, <4>1 DEF Sound, Runs, n
    <3>2. CASE th # co
      BY <3>2
    <3> QED  BY <3>1, <3>2
  <2>2. i \in 1 .. Len(c[th]) - 1 /\ d[th][i] = c[th][i]
    BY <1>7, <1>8
  <2>3. CalledFrom(nat, th, i) => CalledFrom(new, th, i)
    BY <1>1, <1>2 DEF CalledFrom, n
  <2> QED  BY <2>1, <2>2, <2>3 DEF Sound, Held
<1>16. \A th : th # co => (OnStack(new, th) <=> OnStack(nat, th))
  BY <1>1, <1>2 DEF OnStack, n
<1>17. ~OnStack(new, co)
  <2>1. \A k \in 1 .. n - 1 : At(new, k) = new[k]
    BY DEF At
  <2> QED  BY <1>1, <1>2, <1>5, <2>1 DEF OnStack
<1>18. Busy(new, d, su)
  <2> SUFFICES ASSUME NEW th \in Threads, OnStack(new, th), th # r
               PROVE  su[th] = "OK" /\ d[th] # <<>>
    BY <1>1, <1>11 DEF Busy, r
  <2>1. th # co /\ OnStack(nat, th) /\ At(nat, n).th = co
    BY <1>1, <1>16, <1>17 DEF At, n
  <2> QED  BY <1>7, <2>1 DEF Sound, Busy, n
<1>19. \A x \in Co : ~OnStack(new, x) => Idles(d, su, x)
  <2> SUFFICES ASSUME NEW x \in Co, ~OnStack(new, x)
               PROVE  Idles(d, su, x)
    OBVIOUS
  <2>1. x # r /\ x \in Threads /\ d[x] = c[x]
    <3>1. At(new, n - 1).th # x
      BY <1>1, <1>2, OffStack
    <3> QED  BY <1>7, <1>11, <3>1 DEF Threads, r
  <2>2. CASE x = co
    BY <2>1, <2>2 DEF Idles
  <2>3. CASE x # co
    BY <1>16, <2>1, <2>3 DEF Sound, Idles
  <2> QED  BY <2>2, <2>3
<1>20. Landed(new, d, su)
  <2> SUFFICES ASSUME p.kind = "resume", d[r] # <<>>
               PROVE  Last(d[r]) \in Stays
    BY <1>1, <1>11 DEF Landed, r
  <2>1. ~IsKotlin(p)
    BY DEF IsKotlin
  <2>2. Len(d[r]) \in 1 .. Len(c[r]) - 1 /\ d[r][Len(d[r])] = c[r][Len(d[r])]
    <3>1. Len(d[r]) # 0
      BY <1>1, <1>3, EmptySeq
    <3> QED  BY <1>7, <1>8, <2>1, <3>1
  <2>3. n - 1 \in 1 .. n /\ p = nat[n - 1]
    BY <1>1 DEF At, Program, p
  <2>4. \A j \in n - 1 + 1 .. n : nat[j].kind # "call"
    <3>1. \A j \in n - 1 + 1 .. n : j = n
      BY <1>1
    <3> QED  BY <3>1 DEF n
  <2>5. Stacked(nat, c) /\ Held(nat, c, st, r) /\ st[r] = "OK"
    BY <1>3, <1>4 DEF Sound, Waits, p, r
  <2>6. c[r][Len(d[r])] \in Stays
    BY <1>1, <2>2, <2>3, <2>4, <2>5, Landing DEF n, r
  <2> QED  BY <2>2, <2>6 DEF Last
<1> QED  BY <1>1, <1>10, <1>12, <1>13, <1>14, <1>15, <1>18, <1>19, <1>20 DEF Sound, new
=============================================================================
