--------------------------- MODULE CoroutineProofs ---------------------------
(***************************************************************************)
(* The safety properties of Coroutines, for every number of coroutines and *)
(* every limit, as long as no exception leaves a callback and no yieldable *)
(* callback calls where a yield may happen: each step keeps the invariant  *)
(* of CoroutineLemmas.                                                     *)
(*                                                                         *)
(* In the second half, where errors go: to the innermost pcall of the      *)
(* thread or the Kotlin code that called, whichever is further in.  What   *)
(* the code looks at is the innermost jump buffer, or the last frame with  *)
(* a handler once a yield has unwound the C stack: that these agree with   *)
(* the frames takes two more invariants.                                   *)
(*                                                                         *)
(* Last, Coroutines implements Activations: what the C stack and the       *)
(* frames show of the Kotlin functions changes as that module promises.    *)
(***************************************************************************)
EXTENDS CoroutineLemmas, WellFoundedInduction

(* A bounded set of numbers has a highest. *)
LEMMA HighestOk ==
  ASSUME NEW n \in Nat, NEW S \in SUBSET (1 .. n), S # {}
  PROVE  Highest(S) \in S /\ \A j \in S : j <= Highest(S)
<1> DEFINE Over(i) == {j \in S : j > i}
           T == {U \in SUBSET S : \E i \in S : U = Over(i)}
<1>1. IsFiniteSet(S) /\ \A k \in S : k \in Nat
  <2>1. IsFiniteSet(1 .. n) /\ S \in SUBSET (1 .. n)
    BY FS_Interval
  <2>2. IsFiniteSet(S)
    BY ONLY <2>1, FS_Subset
  <2>3. \A k \in S : k \in Nat
    OBVIOUS
  <2> QED  BY <2>2, <2>3
<1>2. T \subseteq FiniteSubsetsOf(S) /\ T # {}
  <2>1. FiniteSubsetsOf(S) = SUBSET S
    BY <1>1, FS_FiniteSubsetsOfFinite
  <2>2. T \subseteq SUBSET S
    OBVIOUS
  <2>3. PICK i : i \in S
    OBVIOUS
  <2>4. Over(i) \in T
    BY <2>3
  <2> QED  BY <2>1, <2>2, <2>4
<1>3. PICK x \in T : \A y \in T : ~(<<y, x>> \in StrictSubsetOrdering(S))
  <2> HIDE DEF T
  <2> QED  BY <1>2, WFMin, FS_StrictSubsetOrderingWellFounded
<1>4. PICK i \in S : x = Over(i)
  OBVIOUS
<1>5. ASSUME NEW j \in S, j > i
      PROVE  FALSE
  <2>1. Over(j) \in T
    OBVIOUS
  <2>2. Over(j) \subseteq Over(i) /\ j \in Over(i) /\ j \notin Over(j)
    <3>1. i \in Nat /\ j \in Nat
      BY <1>1
    <3>2. \A k \in Over(j) : k \in S /\ k \in Nat /\ k > j
      BY <1>1
    <3>3. \A k \in Over(j) : k \in S /\ k > i
      BY <1>5, <3>1, <3>2
    <3>4. ~(j > j)
      BY <3>1
    <3>5. j \notin Over(j)
      BY <3>4
    <3>6. j \in Over(i)
      BY <1>5
    <3> QED  BY <3>3, <3>5, <3>6
  <2>3. <<Over(j), x>> \in StrictSubsetOrdering(S)
    BY <1>4, <2>2 DEF StrictSubsetOrdering
  <2> QED  BY <1>3, <2>1, <2>3
<1>6. \A j \in S : j <= i
  BY <1>5
<1> QED  BY <1>6 DEF Highest

(* What calls a C stack keeps. *)
LEMMA CalledKept ==
  ASSUME NEW new, NEW nat, NEW m, Begins(new, nat, m), NEW th, NEW i,
         \A k \in m + 1 .. Len(nat) : ~(nat[k].kind = "call" /\ nat[k].th = th /\ nat[k].at = i),
         CalledFrom(nat, th, i)
  PROVE  CalledFrom(new, th, i)
<1>1. PICK k \in 1 .. Len(nat) : nat[k].kind = "call" /\ nat[k].th = th /\ nat[k].at = i
  BY DEF CalledFrom
<1>2. k \in 1 .. m
  <2>1. Len(nat) \in Nat /\ m \in Nat
    BY LenProperties DEF Begins
  <2> QED  BY <1>1, <2>1
<1>3. k \in 1 .. Len(new) /\ new[k] = nat[k]
  <2>1. Len(new) \in Nat /\ m \in Nat /\ m <= Len(new)
    BY LenProperties DEF Begins
  <2> QED  BY <1>2, <2>1 DEF Begins
<1> QED  BY <1>1, <1>3 DEF CalledFrom

(* Types, and what the names of Coroutines mean here. *)
LEMMA Facts ==
  ASSUME IInv
  PROVE  /\ Typed(native, ci, status, nCcalls, baseCcalls)
         /\ native \in Seq(NativeFrame) /\ Len(native) \in Nat /\ Len(native) \in 0 .. Len(native)
         /\ Innermost = At(native, Len(native)) /\ Running = Innermost.th /\ Running \in Threads
         /\ KotlinRuns <=> IsKotlin(Innermost)
         /\ native = <<>> <=> Len(native) = 0
         /\ Innermost.at \in Nat /\ Innermost.at <= Len(ci[Running])
         /\ ci[Running] \in Seq(Frames) /\ Len(ci[Running]) \in Nat
         /\ nCcalls[Running] = Count(native, Len(native))
         /\ baseCcalls[Running] = Basis(native, ci, Len(native))
         /\ nCcalls[Running] \in 0 .. HardLimit /\ baseCcalls[Running] \in 0 .. HardLimit
         /\ baseCcalls[Running] <= nCcalls[Running]
<1>1. Typed(native, ci, status, nCcalls, baseCcalls) /\ native \in Seq(NativeFrame) /\ Stacked(native, ci)
  BY DEF IInv, Sound, Typed
<1>2. Len(native) \in Nat /\ Len(native) \in 0 .. Len(native) /\ (native = <<>> <=> Len(native) = 0)
  BY <1>1, LenProperties, EmptySeq
<1>3. Innermost = At(native, Len(native))
  BY <1>2 DEF Innermost, At, Program, Last
<1>4. Running \in Threads /\ Innermost.at \in Nat
  BY <1>1, <1>2, <1>3, AtTypes DEF Running
<1>5. ci[Running] \in Seq(Frames) /\ nCcalls[Running] \in 0 .. HardLimit /\ baseCcalls[Running] \in 0 .. HardLimit
  BY <1>1, <1>4 DEF Typed
<1>6. Innermost.at <= Len(ci[Running])
  BY <1>2, <1>3 DEF IInv, Sound, Inside, Running
<1>7. nCcalls[Running] = Count(native, Len(native)) /\ baseCcalls[Running] = Basis(native, ci, Len(native))
  BY <1>3 DEF IInv, Sound, Exact, Running
<1>8. baseCcalls[Running] <= nCcalls[Running]
  BY <1>1, <1>2, <1>7, CountsAt
<1>9. Len(ci[Running]) \in Nat
  BY <1>5, LenProperties
<1> QED  BY <1>1, <1>2, <1>3, <1>4, <1>5, <1>6, <1>7, <1>8, <1>9 DEF KotlinRuns, IsKotlin, Running

(* The innermost activation, when there is one. *)
LEMMA TopFacts ==
  ASSUME IInv, native # <<>>
  PROVE  /\ Len(native) \in Nat \ {0} /\ Len(native) \in 1 .. Len(native)
         /\ Len(native) - 1 \in 0 .. Len(native)
         /\ Innermost = native[Len(native)] /\ Innermost \in NativeFrame
         /\ Linked(native, ci, Len(native)) /\ Levelled(native, ci, Len(native))
         /\ nCcalls[Running] <= baseCcalls[Running] <=> Unwindable(native, Len(native))
         /\ At(native, Len(native) - 1).th \in Threads /\ At(native, Len(native) - 1).at \in Nat
<1>1. Len(native) \in Nat \ {0} /\ Innermost = native[Len(native)]
  BY Facts DEF At
<1>2. Len(native) \in 1 .. Len(native) /\ Len(native) - 1 \in 0 .. Len(native)
  BY <1>1
<1>3. Linked(native, ci, Len(native)) /\ Levelled(native, ci, Len(native))
  BY <1>2 DEF IInv, Sound, Stacked
<1>4. Innermost \in NativeFrame /\ native \in Seq(NativeFrame)
  BY <1>1, <1>2, Facts, ElementOfSeq
<1>5. nCcalls[Running] <= baseCcalls[Running] <=> Unwindable(native, Len(native))
  <2>1. Stacked(native, ci) /\ Len(native) # 0 /\ Len(native) \in 0 .. Len(native)
    BY <1>1 DEF IInv, Sound
  <2> QED  BY <1>4, <2>1, Facts, CountsAt
<1> QED  BY <1>1, <1>2, <1>3, <1>4, <1>5, AtTypes

(* Kotlin code has its frame, which is the last. *)
LEMMA KotlinFacts ==
  ASSUME IInv, KotlinRuns
  PROVE  /\ Len(ci[Running]) = Innermost.at /\ status[Running] = "OK"
         /\ native = <<>> => Running = Main /\ Innermost.at = 0
         /\ native # <<>> => /\ Innermost.kind = "callback" /\ Innermost.at > 0
                             /\ Last(ci[Running]) \in KotlinFrames
                             /\ ci[Running] # <<>>
                             /\ At(native, Len(native) - 1).th = Running
                             /\ ~IsKotlin(At(native, Len(native) - 1))
                             /\ At(native, Len(native) - 1).at < Innermost.at
<1>1. Len(ci[Running]) = Innermost.at /\ status[Running] = "OK"
  BY Facts DEF IInv, Sound, Runs
<1>2. native = <<>> => Running = Main /\ Innermost.at = 0
  BY DEF Running, Innermost
<1>3. ASSUME native # <<>>
      PROVE  /\ Innermost.kind = "callback" /\ Innermost.at > 0
             /\ Last(ci[Running]) \in KotlinFrames /\ ci[Running] # <<>>
             /\ At(native, Len(native) - 1).th = Running
             /\ ~IsKotlin(At(native, Len(native) - 1))
             /\ At(native, Len(native) - 1).at < Innermost.at
  <2>1. Innermost.kind = "callback"
    BY <1>3, TopFacts, FrameTypes DEF KotlinRuns
  <2>2. /\ ~IsKotlin(At(native, Len(native) - 1)) /\ Innermost.at > At(native, Len(native) - 1).at
        /\ ci[Running][Innermost.at] \in KotlinFrames
        /\ At(native, Len(native) - 1).th = Running
    BY <1>3, <2>1, TopFacts DEF Linked, Running
  <2>3. Innermost.at > 0 /\ At(native, Len(native) - 1).at < Innermost.at
    BY <1>3, <2>2, Facts, TopFacts
  <2> QED  BY <1>1, <2>1, <2>2, <2>3, Facts, EmptySeq DEF Last
<1> QED  BY <1>1, <1>2, <1>3

(* Lua code runs above the frames that the C stack refers to. *)
LEMMA LuaFacts ==
  ASSUME IInv, NEW th, LuaRuns(th)
  PROVE  /\ th = Running /\ status[th] = "OK" /\ native # <<>> /\ ~IsKotlin(Innermost)
         /\ ci[th] # <<>> /\ Last(ci[th]) \in LuaFrames /\ Len(ci[th]) > Innermost.at
<1>1. th = Running /\ status[th] = "OK" /\ ~IsKotlin(Innermost) /\ ci[th] # <<>> /\ Last(ci[th]) \in LuaFrames
  <2>1. "none" \notin LuaFrames
    BY DEF LuaFrames
  <2> QED  BY <2>1, Facts DEF LuaRuns, VmRuns, Top
<1>2. native # <<>>
  BY <1>1, Facts DEF At, Program, IsKotlin
<1>3. Len(ci[th]) # 0
  BY <1>1, Facts, EmptySeq
<1>4. Innermost.at # 0 => ci[th][Innermost.at] \notin LuaFrames
  <2> SUFFICES ASSUME Innermost.at # 0
               PROVE  ci[th][Innermost.at] \notin LuaFrames
    OBVIOUS
  <2>1. /\ Innermost.kind \in {"call", "pcall", "resume"}
        /\ Linked(native, ci, Len(native)) /\ Innermost = native[Len(native)]
    BY <1>1, <1>2, TopFacts, FrameTypes DEF IsKotlin
  <2>2. CASE Innermost.kind = "resume"
    BY <2>1, <2>2 DEF Linked
  <2>3. CASE Innermost.kind = "pcall"
    BY <1>1, <2>1, <2>3 DEF Linked, LuaFrames, Running
  <2>4. CASE Innermost.kind = "call"
    <3> DEFINE p == At(native, Len(native) - 1)
    <3>1. IsKotlin(p) /\ Innermost.at = p.at /\ p.th = th
      BY <1>1, <2>1, <2>4 DEF Linked, Running
    <3>2. Len(native) - 1 # 0
      BY <3>1 DEF At, Program
    <3>3. Len(native) - 1 \in 1 .. Len(native) /\ p = native[Len(native) - 1]
      <4>1. Len(native) \in Nat \ {0}
        BY <1>2, TopFacts
      <4>2. Len(native) - 1 \in 1 .. Len(native)
        <5>1. \A k \in Nat \ {0} : k - 1 # 0 => k - 1 \in 1 .. k
          OBVIOUS
        <5> QED  BY <3>2, <4>1, <5>1
      <4>3. p = native[Len(native) - 1]
        BY <3>2 DEF At
      <4> QED  BY <4>2, <4>3
    <3>4. p.kind = "callback"
      BY <3>1, <3>3, Facts, ElementOfSeq, FrameTypes DEF IsKotlin
    <3>5. ci[th][p.at] \in KotlinFrames
      BY <3>1, <3>3, <3>4 DEF IInv, Sound, Stacked, Linked
    <3> QED  BY <3>1, <3>5 DEF KotlinFrames, LuaFrames
  <2> QED  BY <2>1, <2>2, <2>3, <2>4
<1>5. Len(ci[th]) > Innermost.at
  BY <1>1, <1>3, <1>4, Facts DEF Last
<1> QED  BY <1>1, <1>2, <1>5
-----------------------------------------------------------------------------
(* Changing one thread: what it becomes, and that nothing else does. *)
LEMMA ExceptOk ==
  ASSUME NEW S, NEW F \in [Threads -> S], NEW th \in Threads, NEW e \in S
  PROVE  /\ [F EXCEPT ![th] = e] \in [Threads -> S]
         /\ [F EXCEPT ![th] = e][th] = e
         /\ \A u \in Threads : u # th => [F EXCEPT ![th] = e][u] = F[u]
OBVIOUS

LEMMA KotlinCallsKeeps ==
  ASSUME IInv, Faults = {}, NEW th \in Threads, NEW f \in KotlinFrames \cup {"entry"}, KotlinCalls(th, f)
  PROVE  IInv'
<1> DEFINE n  == Len(native)
           at == Len(ci[th])
           g  == Guard("call", th, at)
           frames == Append(ci[th], f)
           cont   == FromCont(th, at)
           mid    == Append(native, g)
<1>1. /\ KotlinRuns /\ Running = th /\ ~CStackOverflows(nCcalls[th] + 1)
      /\ (cont = 1 /\ lua_isyieldable(th)) => "nested" \in Faults
      /\ ci' = [ci EXCEPT ![th] = frames]
      /\ native' = WithTrampoline(mid, th, frames, "invoke")
      /\ nCcalls' = [nCcalls EXCEPT ![th] = nCcalls[th] + 1]
      /\ baseCcalls' = [baseCcalls EXCEPT ![th] = baseCcalls[th] + cont]
      /\ status' = status
  BY DEF KotlinCalls
<1>2. /\ ci[th] \in Seq(Frames) /\ at \in Nat /\ at = Innermost.at /\ status[th] = "OK"
      /\ nCcalls[th] \in 0 .. HardLimit /\ baseCcalls[th] \in 0 .. HardLimit /\ baseCcalls[th] <= nCcalls[th]
      /\ MaxCCalls \in Nat /\ HardLimit \in Nat /\ MaxCCalls <= HardLimit
  BY <1>1, Facts, KotlinFacts, CoroutinesAssumption
<1>3. cont \in {0, 1} /\ (cont = 1 => baseCcalls[th] < nCcalls[th])
  <2>1. cont \in {0, 1}
    BY DEF FromCont
  <2> QED  BY <1>1, <1>2, <2>1 DEF lua_isyieldable
<1>4. /\ frames \in Seq(Frames) /\ Len(frames) = at + 1 /\ frames[at + 1] = f
      /\ \A i \in 1 .. at : frames[i] = ci[th][i]
  <2>1. f \in Frames
    BY DEF Frames, LuaFrames
  <2> QED  BY <1>2, <2>1, AppendProperties
<1>5. /\ g \in NativeFrame /\ g.kind = "call" /\ g.th = th /\ g.at = at
      /\ g.nC = nCcalls[th] /\ g.base = baseCcalls[th]
  BY <1>2 DEF Guard, NativeFrame
<1>6. /\ mid \in Seq(NativeFrame) /\ Len(mid) = n + 1 /\ mid[n + 1] = g /\ Begins(mid, native, n) /\ n \in Nat
  BY <1>5, Facts, BeginsAppend DEF Begins
<1> HIDE DEF frames, mid, cont, at, n, g
<1>7. /\ ci' \in [Threads -> Seq(Frames)] /\ ci'[th] = frames
      /\ nCcalls' \in [Threads -> 0 .. HardLimit] /\ nCcalls'[th] = nCcalls[th] + 1
      /\ baseCcalls' \in [Threads -> 0 .. HardLimit] /\ baseCcalls'[th] = baseCcalls[th] + cont
      /\ Elsewhere(th, ci, status, nCcalls, baseCcalls, ci', status', nCcalls', baseCcalls')
  <2>1. nCcalls[th] + 1 \in 0 .. HardLimit /\ baseCcalls[th] + cont \in 0 .. HardLimit
    BY <1>1, <1>2, <1>3 DEF CStackOverflows
  <2>2. Typed(native, ci, status, nCcalls, baseCcalls)
    BY Facts
  <2> QED  BY <1>1, <1>4, <2>1, <2>2, ExceptOk DEF Typed, Elsewhere
<1>8. Typed(mid, ci', status, nCcalls', baseCcalls')
  BY <1>6, <1>7, Facts DEF Typed
<1>9. Cont(ci', g) = cont
  <2>1. at > 0 => ci'[th][at] = ci[th][at]
    <3>1. at > 0 => at \in 1 .. at
      BY <1>2
    <3>2. ci'[th] = frames
      BY <1>7
    <3> QED  BY <1>4, <3>1, <3>2
  <2> QED  BY <1>5, <2>1 DEF Cont, FromCont, cont
<1>10. Held(mid, ci', status, th)
  <2> SUFFICES ASSUME status[th] # "ERRRUN", NEW i \in 1 .. Len(frames) - 1
               PROVE  frames[i] \in Stays \/ (frames[i] = "plain" /\ CalledFrom(mid, th, i))
    BY <1>7 DEF Held
  <2>1. i \in 1 .. at /\ frames[i] = ci[th][i]
    BY <1>2, <1>4
  <2>2. CASE i = at
    <3>1. native # <<>> /\ ci[th][i] = Last(ci[th])
      BY <1>1, <1>2, <2>1, <2>2, KotlinFacts DEF Last, at
    <3>2. ci[th][i] \in KotlinFrames
      BY <1>1, <3>1, KotlinFacts
    <3>3. CalledFrom(mid, th, i)
      <4>1. n + 1 \in 1 .. n + 1
        BY <1>6
      <4> QED  BY <1>5, <1>6, <2>2, <4>1 DEF CalledFrom
    <3> QED  BY <2>1, <3>2, <3>3 DEF KotlinFrames, Stays
  <2>3. CASE i # at
    <3>1. i \in 1 .. Len(ci[th]) - 1
      BY <1>2, <2>1, <2>3 DEF at
    <3>2. CalledFrom(native, th, i) => CalledFrom(mid, th, i)
      <4>1. n + 1 .. n = {}
        BY <1>6
      <4> QED  BY <1>6, <4>1, CalledKept DEF n
    <3> QED  BY <2>1, <3>1, <3>2 DEF IInv, Sound, Held
  <2> QED  BY <2>2, <2>3
<1>11. Sound(mid, ci', status, nCcalls', baseCcalls')
  <2>1. /\ Innermost = At(native, Len(native)) /\ Innermost.th = th /\ IsKotlin(Innermost)
        /\ Sound(native, ci, status, nCcalls, baseCcalls)
    BY <1>1, Facts DEF IInv
  <2>2. \A i \in 1 .. Innermost.at : ci'[th][i] = ci[th][i]
    BY <1>2, <1>4, <1>7
  <2>3. g.at <= Len(ci'[th])
    BY <1>2, <1>4, <1>5, <1>7
  <2>4. Elsewhere(th, ci, status, nCcalls, baseCcalls, ci', status, nCcalls', baseCcalls')
    BY <1>1, <1>7
  <2>5. /\ status[th] = "OK" /\ g.at = Innermost.at /\ (Cont(ci', g) = 1 => baseCcalls[th] < nCcalls[th])
        /\ nCcalls'[th] = g.nC + 1 /\ baseCcalls'[th] = g.base + Cont(ci', g)
        /\ g.kind \in {"call", "pcall"} /\ g.kind # "pcall"
    BY <1>2, <1>3, <1>5, <1>7, <1>9
  <2> HIDE DEF mid
  <2> QED  BY <1>5, <1>8, <1>10, <2>1, <2>2, <2>3, <2>4, <2>5, SoundPushCall DEF mid
<1>12. Sound(native', ci', status', nCcalls', baseCcalls') /\ Landed(native', ci', status')
  <2>1. At(mid, Len(mid)) = g
    BY <1>6 DEF At
  <2>2. ~IsKotlin(g) /\ Landed(mid, ci', status)
    BY <1>5, <2>1 DEF IsKotlin, Landed
  <2>3. Len(ci'[g.th]) > g.at
    BY <1>2, <1>4, <1>5, <1>7
  <2>4. native' = WithTrampoline(mid, g.th, ci'[g.th], "invoke") /\ status[g.th] = "OK" /\ status' = status
    BY <1>1, <1>2, <1>5, <1>7
  <2> QED  BY <1>11, <2>1, <2>2, <2>3, <2>4, Trampolined
<1> QED  BY <1>12 DEF IInv
-----------------------------------------------------------------------------
(* The VM goes on within the innermost activation. *)
LEMMA VmStays ==
  ASSUME IInv, ~KotlinRuns, NEW th, th = Running,
         NEW frames \in Seq(Frames), NEW s \in {"OK", "YIELD", "REENTRY"},
         Len(frames) >= Innermost.at, \A i \in 1 .. Innermost.at : frames[i] = ci[th][i],
         s # "OK" => Unwindable(native, Len(native)),
         s = "YIELD" => Suspended(frames),
         s = "REENTRY" => frames # <<>> /\ Last(frames) \in LuaFrames,
         \A i \in 1 .. Len(frames) - 1 :
            frames[i] \in Stays \/ (i \in 1 .. Len(ci[th]) - 1 /\ frames[i] = ci[th][i]),
         NEW d, d = [ci EXCEPT ![th] = frames], NEW su, su = [status EXCEPT ![th] = s]
  PROVE  /\ Sound(native, d, su, nCcalls, baseCcalls)
         /\ (Innermost.kind = "resume" /\ s = "OK" /\ frames # <<>> => Last(frames) \in Stays)
            => Landed(native, d, su)
<1> DEFINE q == Innermost
<1>1. /\ q = At(native, Len(native)) /\ th = q.th /\ th \in Threads /\ ~IsKotlin(q)
      /\ Typed(native, ci, status, nCcalls, baseCcalls) /\ Sound(native, ci, status, nCcalls, baseCcalls)
  BY Facts DEF IInv
<1>2. /\ d \in [Threads -> Seq(Frames)] /\ d[th] = frames
      /\ su \in [Threads -> {"OK", "YIELD", "REENTRY", "ERRRUN"}] /\ su[th] = s
      /\ Elsewhere(th, ci, status, nCcalls, baseCcalls, d, su, nCcalls, baseCcalls)
  <2>1. s \in {"OK", "YIELD", "REENTRY", "ERRRUN"}
    OBVIOUS
  <2> QED  BY <1>1, <2>1, ExceptOk DEF Typed, Elsewhere
<1>3. Typed(native, d, su, nCcalls, baseCcalls)
  BY <1>1, <1>2 DEF Typed
<1> HIDE DEF q
<1>4. Exact(native, ci, nCcalls, baseCcalls)
  BY <1>1 DEF Sound
<1>5. Runs(native, d, su)
  BY <1>1, <1>2 DEF Runs
<1>6. Held(native, d, su, th)
  <2>1. status[th] # "ERRRUN" /\ Held(native, ci, status, th)
    BY <1>1 DEF Sound, Runs
  <2> QED  BY <1>2, <2>1 DEF Held
<1>7. /\ \A i \in 1 .. q.at : d[q.th][i] = ci[q.th][i]
      /\ q.at <= Len(d[q.th])
      /\ Elsewhere(q.th, ci, status, nCcalls, baseCcalls, d, su, nCcalls, baseCcalls)
      /\ Held(native, d, su, q.th)
  <2>1. Len(frames) \in Nat /\ q.at \in Nat
    BY Facts, LenProperties DEF q
  <2> QED  BY <1>1, <1>2, <1>6, <2>1 DEF q
<1>8. Sound(native, d, su, nCcalls, baseCcalls)
  BY ONLY <1>1, <1>3, <1>4, <1>5, <1>7, SoundStay
<1> QED  BY <1>1, <1>2, <1>8 DEF Landed, q

LEMMA VmGoes ==
  ASSUME IInv, ~KotlinRuns, NEW th, th = Running, status[th] = "OK", NEW frames \in Seq(Frames),
         Len(frames) >= Innermost.at, \A i \in 1 .. Innermost.at : frames[i] = ci[th][i],
         \A i \in 1 .. Len(frames) - 1 :
            frames[i] \in Stays \/ (i \in 1 .. Len(ci[th]) - 1 /\ frames[i] = ci[th][i]),
         NEW d, d = [ci EXCEPT ![th] = frames]
  PROVE  /\ Sound(native, d, status, nCcalls, baseCcalls)
         /\ (Innermost.kind = "resume" /\ frames # <<>> => Last(frames) \in Stays)
            => Landed(native, d, status)
<1> DEFINE s == "OK"
           su == [status EXCEPT ![th] = s]
<1>1. su = status
  BY Facts DEF Typed
<1>2. /\ IInv /\ ~KotlinRuns /\ th = Running /\ frames \in Seq(Frames) /\ d = [ci EXCEPT ![th] = frames]
      /\ Len(frames) >= Innermost.at /\ \A i \in 1 .. Innermost.at : frames[i] = ci[th][i]
      /\ \A i \in 1 .. Len(frames) - 1 :
            frames[i] \in Stays \/ (i \in 1 .. Len(ci[th]) - 1 /\ frames[i] = ci[th][i])
      /\ s \in {"OK", "YIELD", "REENTRY"} /\ s = "OK" /\ su = [status EXCEPT ![th] = s]
      /\ (s # "OK" => Unwindable(native, Len(native)))
      /\ (s = "YIELD" => Suspended(frames))
      /\ (s = "REENTRY" => frames # <<>> /\ Last(frames) \in LuaFrames)
  OBVIOUS
<1> HIDE DEF s, su
<1>3. /\ Sound(native, d, su, nCcalls, baseCcalls)
      /\ (Innermost.kind = "resume" /\ s = "OK" /\ frames # <<>> => Last(frames) \in Stays)
         => Landed(native, d, su)
  BY ONLY <1>2, VmStays
<1> QED  BY ONLY <1>1, <1>2, <1>3

(* Frames that can all go on: those of a thread between its resume and the VM. *)
LEMMA AllGoOn ==
  ASSUME IInv, Innermost.kind = "resume"
  PROVE  \A i \in 1 .. Len(ci[Running]) - 1 : ci[Running][i] \in Stays
<1>1. native # <<>>
  BY DEF Innermost
<1>2. /\ Len(native) \in 1 .. Len(native) /\ Innermost = native[Len(native)] /\ native \in Seq(NativeFrame)
      /\ Len(native) + 1 .. Len(native) = {} /\ native[Len(native)].th = Running
  <2>1. Len(native) \in Nat
    BY Facts
  <2>2. Len(native) + 1 .. Len(native) = {}
    BY <2>1
  <2> QED  BY <1>1, <2>2, Facts, TopFacts
<1>3. Stacked(native, ci) /\ Held(native, ci, status, Running) /\ status[Running] # "ERRRUN"
  BY Facts DEF IInv, Sound, Runs
<1> QED  BY <1>2, <1>3, Landing

LEMMA LuaCallsKeeps ==
  ASSUME IInv, NEW th \in Threads, NEW f \in KotlinFrames \cup {"lua"}, LuaCalls(th, f)
  PROVE  IInv'
<1> DEFINE frames == Append(ci[th], f)
<1>1. /\ LuaRuns(th) /\ ci' = [ci EXCEPT ![th] = frames]
      /\ native' = WithTrampoline(native, th, frames, "invoke")
      /\ status' = status /\ nCcalls' = nCcalls /\ baseCcalls' = baseCcalls
  BY DEF LuaCalls
<1>2. /\ th = Running /\ ~KotlinRuns /\ status[th] = "OK" /\ Last(ci[th]) \in LuaFrames
      /\ ci[th] \in Seq(Frames) /\ Len(ci[th]) \in Nat /\ Innermost.at \in Nat
      /\ Innermost.at < Len(ci[th]) /\ ~IsKotlin(Innermost) /\ Innermost = At(native, Len(native))
      /\ Innermost.th = th
  BY <1>1, Facts, LuaFacts
<1>3. /\ frames \in Seq(Frames) /\ Len(frames) = Len(ci[th]) + 1 /\ frames[Len(ci[th]) + 1] = f
      /\ \A i \in 1 .. Len(ci[th]) : frames[i] = ci[th][i]
  <2>1. f \in Frames
    BY DEF Frames, LuaFrames
  <2> QED  BY <1>2, <2>1, AppendProperties
<1> HIDE DEF frames
<1>4. \A i \in 1 .. Len(frames) - 1 :
         frames[i] \in Stays \/ (i \in 1 .. Len(ci[th]) - 1 /\ frames[i] = ci[th][i])
  <2> TAKE i \in 1 .. Len(frames) - 1
  <2>1. i \in 1 .. Len(ci[th]) /\ (i = Len(ci[th]) \/ i \in 1 .. Len(ci[th]) - 1)
    BY <1>2, <1>3
  <2> QED  BY <1>2, <1>3, <2>1 DEF Last, Stays
<1>5. /\ Sound(native, ci', status, nCcalls, baseCcalls)
      /\ (Innermost.kind = "resume" /\ frames # <<>> => Last(frames) \in Stays)
         => Landed(native, ci', status)
  <2>1. Len(frames) >= Innermost.at /\ \A i \in 1 .. Innermost.at : frames[i] = ci[th][i]
    BY <1>2, <1>3
  <2> QED  BY <1>1, <1>2, <1>3, <1>4, <2>1, VmGoes
<1>6. ci'[th] = frames /\ Len(ci'[th]) > Innermost.at
  <2>1. ci'[th] = frames
    BY <1>1, Facts DEF Typed
  <2> QED  BY <1>2, <1>3, <2>1
<1>7. Last(ci'[th]) \notin KotlinFrames => Landed(native, ci', status)
  <2>1. Last(frames) = f
    BY <1>3 DEF Last
  <2>2. f \notin KotlinFrames => f \in Stays
    BY DEF Stays, LuaFrames
  <2> QED  BY <1>5, <1>6, <2>1, <2>2
<1>8. Sound(native', ci', status', nCcalls', baseCcalls') /\ Landed(native', ci', status')
  <2>1. /\ native' = WithTrampoline(native, Innermost.th, ci'[Innermost.th], "invoke") /\ status[Innermost.th] = "OK"
        /\ Len(ci'[Innermost.th]) > Innermost.at
        /\ Last(ci'[Innermost.th]) \notin KotlinFrames => Landed(native, ci', status)
    BY <1>1, <1>2, <1>6, <1>7
  <2> QED  BY <1>1, <1>2, <1>5, <2>1, Trampolined
<1> QED  BY <1>8 DEF IInv

LEMMA LuaReturnsKeeps ==
  ASSUME IInv, NEW th \in Threads, LuaReturns(th)
  PROVE  IInv'
<1> DEFINE frames == Front(ci[th])
<1>1. /\ LuaRuns(th) /\ ci' = [ci EXCEPT ![th] = frames]
      /\ status' = status /\ nCcalls' = nCcalls /\ baseCcalls' = baseCcalls /\ native' = native
  BY DEF LuaReturns
<1>2. /\ th = Running /\ ~KotlinRuns /\ status[th] = "OK" /\ ci[th] # <<>>
      /\ ci[th] \in Seq(Frames) /\ Len(ci[th]) \in Nat /\ Innermost.at \in Nat
      /\ Innermost.at < Len(ci[th])
  BY <1>1, Facts, LuaFacts
<1>3. /\ frames \in Seq(Frames) /\ Len(frames) = Len(ci[th]) - 1
      /\ \A i \in 1 .. Len(ci[th]) - 1 : frames[i] = ci[th][i]
  BY <1>2, FrontOk
<1> HIDE DEF frames
<1>5. /\ Len(frames) >= Innermost.at /\ \A i \in 1 .. Innermost.at : frames[i] = ci[th][i]
  BY <1>2, <1>3
<1>4. \A i \in 1 .. Len(frames) - 1 :
         frames[i] \in Stays \/ (i \in 1 .. Len(ci[th]) - 1 /\ frames[i] = ci[th][i])
  BY <1>2, <1>3
<1>6. Innermost.kind = "resume" /\ frames # <<>> => Last(frames) \in Stays
  <2> SUFFICES ASSUME Innermost.kind = "resume", frames # <<>>
               PROVE  Last(frames) \in Stays
    OBVIOUS
  <2>1. Len(frames) \in 1 .. Len(ci[th]) - 1
    <3>1. Len(frames) # 0
      BY <1>3, EmptySeq
    <3> QED  BY <1>2, <1>3, <3>1
  <2> QED  BY <1>2, <1>3, <2>1, AllGoOn DEF Last
<1>7. Sound(native, ci', status, nCcalls, baseCcalls) /\ Landed(native, ci', status)
  BY ONLY IInv, <1>1, <1>2, <1>3, <1>5, <1>6, <1>4, VmGoes
<1> QED  BY <1>1, <1>7 DEF IInv

LEMMA LuaYieldsKeeps ==
  ASSUME IInv, NEW th \in Threads, LuaYields(th)
  PROVE  IInv'
<1> DEFINE frames == Append(ci[th], "coyield")
<1>1. /\ LuaRuns(th) /\ lua_isyieldable(th) /\ ci' = [ci EXCEPT ![th] = frames]
      /\ status' = [status EXCEPT ![th] = "YIELD"]
      /\ nCcalls' = nCcalls /\ baseCcalls' = baseCcalls /\ native' = native
  BY DEF LuaYields
<1>2. /\ th = Running /\ ~KotlinRuns /\ native # <<>> /\ Last(ci[th]) \in LuaFrames
      /\ ci[th] \in Seq(Frames) /\ Len(ci[th]) \in Nat /\ Innermost.at \in Nat
      /\ Innermost.at < Len(ci[th])
  BY <1>1, Facts, LuaFacts
<1>3. /\ frames \in Seq(Frames) /\ Len(frames) = Len(ci[th]) + 1 /\ frames[Len(ci[th]) + 1] = "coyield"
      /\ frames # <<>> /\ \A i \in 1 .. Len(ci[th]) : frames[i] = ci[th][i]
  <2>1. "coyield" \in Frames
    BY DEF Frames
  <2> QED  BY <1>2, <2>1, AppendProperties
<1> HIDE DEF frames
<1>4. \A i \in 1 .. Len(frames) - 1 :
         frames[i] \in Stays \/ (i \in 1 .. Len(ci[th]) - 1 /\ frames[i] = ci[th][i])
  <2> TAKE i \in 1 .. Len(frames) - 1
  <2>1. i \in 1 .. Len(ci[th]) /\ (i = Len(ci[th]) \/ i \in 1 .. Len(ci[th]) - 1)
    BY <1>2, <1>3
  <2> QED  BY <1>2, <1>3, <2>1 DEF Last, Stays
<1>5. Unwindable(native, Len(native))
  BY <1>1, <1>2, TopFacts DEF lua_isyieldable
<1>6. Suspended(frames)
  BY <1>3 DEF Suspended, Last
<1>7. Len(frames) >= Innermost.at /\ \A i \in 1 .. Innermost.at : frames[i] = ci[th][i]
  BY <1>2, <1>3
<1>8. Sound(native, ci', status', nCcalls, baseCcalls) /\ Landed(native, ci', status')
  BY ONLY IInv, <1>1, <1>2, <1>3, <1>4, <1>5, <1>6, <1>7, VmStays
<1> QED  BY <1>1, <1>8 DEF IInv

LEMMA ReenterKeeps ==
  ASSUME IInv, NEW th \in Threads, Reenter(th)
  PROVE  IInv'
<1>1. /\ ~KotlinRuns /\ th = Running /\ Innermost.kind = "resume" /\ status[th] = "REENTRY"
      /\ status' = [status EXCEPT ![th] = "OK"]
      /\ ci' = ci /\ nCcalls' = nCcalls /\ baseCcalls' = baseCcalls /\ native' = native
  BY DEF Reenter, VmRuns
<1>2. ci[th] \in Seq(Frames) /\ Innermost.at <= Len(ci[th]) /\ Innermost.at \in Nat /\ Len(ci[th]) \in Nat
      /\ ci = [ci EXCEPT ![th] = ci[th]]
  BY <1>1, Facts DEF Typed
<1>3. Last(ci[th]) \in Stays
  BY <1>1, Facts DEF IInv, Sound, Runs, Stays
<1>4. Len(ci[th]) >= Innermost.at
  BY <1>2
<1>5. Sound(native, ci, status', nCcalls, baseCcalls) /\ Landed(native, ci, status')
  BY ONLY IInv, <1>1, <1>2, <1>3, <1>4, VmStays
<1> QED  BY <1>1, <1>5 DEF IInv

LEMMA ContinueKeeps ==
  ASSUME IInv, NEW th \in Threads, Continue(th)
  PROVE  IInv'
<1>1. /\ ~KotlinRuns /\ th = Running /\ Innermost.kind = "resume" /\ status[th] = "OK"
      /\ Top(th) \notin LuaFrames \cup {"none"}
      /\ native' = WithTrampoline(native, th, ci[th], "cont")
      /\ ci' = IF Top(th) = "pcall" THEN [ci EXCEPT ![th] = Front(@)] ELSE ci
      /\ status' = status /\ nCcalls' = nCcalls /\ baseCcalls' = baseCcalls
  BY DEF Continue, InCFrame, VmRuns
<1>2. /\ Innermost = At(native, Len(native)) /\ Innermost.th = th /\ ~IsKotlin(Innermost)
      /\ Innermost.at = 0 /\ ci[th] \in Seq(Frames) /\ Len(ci[th]) \in Nat
      /\ Sound(native, ci, status, nCcalls, baseCcalls) /\ Landed(native, ci, status)
  <2>1. native # <<>>
    BY <1>1 DEF Innermost
  <2>2. Innermost.at = 0
    BY <1>1, <2>1, TopFacts DEF Linked
  <2> QED  BY <1>1, <2>2, Facts DEF IInv
<1>3. ci[th] # <<>> /\ Top(th) = Last(ci[th]) /\ Last(ci[th]) \in {"yieldable", "pcall"} /\ Len(ci[th]) > 0
  <2>1. ci[th] # <<>> /\ Top(th) = Last(ci[th])
    BY <1>1 DEF Top
  <2>2. Last(ci[th]) \in Stays
    BY <1>1, <1>2, <2>1 DEF Landed
  <2>3. Len(ci[th]) # 0
    BY <1>2, <2>1, EmptySeq
  <2> QED  BY <1>1, <1>2, <2>1, <2>2, <2>3 DEF Stays
<1>4. CASE Last(ci[th]) = "yieldable"
  <2>1. ci' = ci
    BY <1>1, <1>3, <1>4
  <2>2. Last(ci[Innermost.th]) \notin KotlinFrames => Landed(native, ci, status)
    BY <1>2
  <2>3. Sound(native', ci, status, nCcalls, baseCcalls) /\ Landed(native', ci, status)
    <3>1. native' = WithTrampoline(native, Innermost.th, ci[Innermost.th], "cont")
          /\ status[Innermost.th] = "OK" /\ Len(ci[Innermost.th]) > Innermost.at
          /\ "cont" \in {"start", "invoke", "cont"}
      BY <1>1, <1>2, <1>3
    <3> QED  BY ONLY <1>2, <2>2, <3>1, Trampolined
  <2> QED  BY <1>1, <2>1, <2>3 DEF IInv
<1>5. CASE Last(ci[th]) = "pcall"
  <2> DEFINE frames == Front(ci[th])
  <2>1. native' = native /\ ci' = [ci EXCEPT ![th] = frames]
    BY <1>1, <1>3, <1>5 DEF WithTrampoline, KotlinFrames
  <2>2. /\ frames \in Seq(Frames) /\ Len(frames) = Len(ci[th]) - 1
        /\ \A i \in 1 .. Len(ci[th]) - 1 : frames[i] = ci[th][i]
    BY <1>2, <1>3, FrontOk
  <2> HIDE DEF frames
  <2>3. Len(frames) >= Innermost.at /\ \A i \in 1 .. Innermost.at : frames[i] = ci[th][i]
    BY <1>2, <1>3, <2>2
  <2>4. \A i \in 1 .. Len(frames) - 1 :
           frames[i] \in Stays \/ (i \in 1 .. Len(ci[th]) - 1 /\ frames[i] = ci[th][i])
    BY <1>2, <2>2
  <2>5. frames # <<>> => Last(frames) \in Stays
    <3>1. frames # <<>> => Len(frames) \in 1 .. Len(ci[th]) - 1
      BY <1>2, <2>2, EmptySeq
    <3> QED  BY <1>1, <1>2, <2>2, <3>1, AllGoOn DEF Last
  <2>6. Sound(native, ci', status, nCcalls, baseCcalls) /\ Landed(native, ci', status)
    <3>1. /\ ~KotlinRuns /\ th = Running /\ status[th] = "OK" /\ frames \in Seq(Frames)
          /\ ci' = [ci EXCEPT ![th] = frames]
      BY <1>1, <2>1, <2>2
    <3> QED  BY ONLY IInv, <2>3, <2>4, <2>5, <3>1, VmGoes
  <2> QED  BY <1>1, <2>1, <2>6 DEF IInv
<1> QED  BY <1>3, <1>4, <1>5

LEMMA LuaPcallsKeeps ==
  ASSUME IInv, NEW th \in Threads, NEW f \in KotlinFrames \cup {"entry"}, LuaPcalls(th, f)
  PROVE  IInv'
<1> DEFINE frames == ci[th] \o <<"pcall", f>>
           at     == Len(ci[th]) + 1
           g      == Guard("pcall", th, at)
           mid    == Append(native, g)
           n      == Len(native)
<1>1. /\ LuaRuns(th) /\ ~CStackOverflows(nCcalls[th] + 1) /\ ci' = [ci EXCEPT ![th] = frames]
      /\ IF f \in LuaFrames /\ lua_isyieldable(th)
         THEN /\ status' = [status EXCEPT ![th] = "REENTRY"]
              /\ nCcalls' = nCcalls /\ baseCcalls' = baseCcalls /\ native' = native
         ELSE /\ native' = WithTrampoline(mid, th, frames, "invoke")
              /\ nCcalls' = [nCcalls EXCEPT ![th] = nCcalls[th] + 1]
              /\ baseCcalls' = [baseCcalls EXCEPT ![th] = baseCcalls[th] + 1]
              /\ status' = status
  BY DEF LuaPcalls
<1>2. /\ th = Running /\ ~KotlinRuns /\ native # <<>> /\ status[th] = "OK" /\ Last(ci[th]) \in LuaFrames
      /\ ci[th] \in Seq(Frames) /\ Len(ci[th]) \in Nat /\ Innermost.at \in Nat
      /\ Innermost.at < Len(ci[th]) /\ ~IsKotlin(Innermost) /\ Innermost = At(native, Len(native))
      /\ Innermost.th = th
      /\ nCcalls[th] \in 0 .. HardLimit /\ baseCcalls[th] \in 0 .. HardLimit /\ baseCcalls[th] <= nCcalls[th]
      /\ MaxCCalls \in Nat /\ HardLimit \in Nat /\ MaxCCalls <= HardLimit /\ Sound(native, ci, status, nCcalls, baseCcalls)
      /\ Typed(native, ci, status, nCcalls, baseCcalls)
  BY <1>1, Facts, LuaFacts, CoroutinesAssumption DEF IInv
<1>3. /\ frames \in Seq(Frames) /\ Len(frames) = at + 1 /\ frames[at + 1] = f /\ frames[at] = "pcall"
      /\ \A i \in 1 .. Len(ci[th]) : frames[i] = ci[th][i]
  <2>1. <<"pcall", f>> \in Seq(Frames)
    BY DEF Frames, LuaFrames, WithCont
  <2> HIDE DEF at, frames, mid, g
  <2>2. /\ frames \in Seq(Frames) /\ Len(frames) = Len(ci[th]) + 2
        /\ \A i \in 1 .. Len(frames) : frames[i] = IF i <= Len(ci[th]) THEN ci[th][i]
                                                   ELSE <<"pcall", f>>[i - Len(ci[th])]
    BY <1>2, <2>1, ConcatProperties DEF frames
  <2>3. /\ at \in 1 .. Len(frames) /\ at + 1 \in 1 .. Len(frames) /\ ~(at <= Len(ci[th]))
        /\ ~(at + 1 <= Len(ci[th])) /\ at - Len(ci[th]) = 1 /\ at + 1 - Len(ci[th]) = 2
        /\ \A i \in 1 .. Len(ci[th]) : i \in 1 .. Len(frames) /\ i <= Len(ci[th])
        /\ Len(frames) = at + 1
    BY <1>2, <2>2 DEF at
  <2>4. <<"pcall", f>>[1] = "pcall" /\ <<"pcall", f>>[2] = f
    OBVIOUS
  <2>5. frames[at + 1] = f /\ frames[at] = "pcall"
    BY ONLY <2>2, <2>3, <2>4
  <2>6. \A i \in 1 .. Len(ci[th]) : frames[i] = ci[th][i]
    BY ONLY <2>2, <2>3
  <2> QED  BY ONLY <2>2, <2>3, <2>5, <2>6
<1> HIDE DEF frames, g, mid, at, n
<1>4. at = Len(ci[th]) + 1 /\ at \in Nat /\ at > Innermost.at
  BY <1>2 DEF at
<1>5. \A i \in 1 .. Len(frames) - 1 :
         frames[i] \in Stays \/ (i \in 1 .. Len(ci[th]) - 1 /\ frames[i] = ci[th][i])
  <2> TAKE i \in 1 .. Len(frames) - 1
  <2>1. i = at \/ i = Len(ci[th]) \/ (i \in 1 .. Len(ci[th]) - 1 /\ i \in 1 .. Len(ci[th]))
    BY <1>2, <1>3, <1>4
  <2>2. i = Len(ci[th]) => frames[i] \in Stays
    <3>1. i = Len(ci[th]) => i \in 1 .. Len(ci[th])
      BY <1>2
    <3> QED  BY <1>2, <1>3, <3>1 DEF Last, Stays
  <2> QED  BY <1>3, <2>1, <2>2 DEF Stays
<1>6. Len(frames) >= Innermost.at /\ \A i \in 1 .. Innermost.at : frames[i] = ci[th][i]
  BY <1>2, <1>3, <1>4
<1>7. CASE f \in LuaFrames /\ lua_isyieldable(th)
  <2>1. Unwindable(native, Len(native))
    BY <1>2, <1>7, TopFacts DEF lua_isyieldable
  <2>2. frames # <<>> /\ Last(frames) \in LuaFrames
    <3>1. Len(frames) # 0
      BY <1>3, <1>4
    <3> QED  BY <1>3, <1>7, <3>1, EmptySeq DEF Last
  <2>3. status' = [status EXCEPT ![th] = "REENTRY"] /\ ci' = [ci EXCEPT ![th] = frames]
    BY <1>1, <1>7
  <2>4. Sound(native, ci', status', nCcalls, baseCcalls) /\ Landed(native, ci', status')
    BY ONLY IInv, <1>2, <1>3, <1>5, <1>6, <2>1, <2>2, <2>3, VmStays
  <2> QED  BY <1>1, <1>7, <2>4 DEF IInv
<1>8. CASE ~(f \in LuaFrames /\ lua_isyieldable(th))
  <2>1. /\ native' = WithTrampoline(mid, th, frames, "invoke")
        /\ nCcalls' = [nCcalls EXCEPT ![th] = nCcalls[th] + 1]
        /\ baseCcalls' = [baseCcalls EXCEPT ![th] = baseCcalls[th] + 1]
        /\ status' = status /\ ci' = [ci EXCEPT ![th] = frames]
    BY <1>1, <1>8
  <2>2. /\ g \in NativeFrame /\ g.kind = "pcall" /\ g.th = th /\ g.at = at
        /\ g.nC = nCcalls[th] /\ g.base = baseCcalls[th]
    BY <1>2, <1>4 DEF Guard, NativeFrame, g
  <2>3. /\ mid \in Seq(NativeFrame) /\ Len(mid) = n + 1 /\ mid[n + 1] = g /\ Begins(mid, native, n) /\ n \in Nat
    BY <2>2, Facts, BeginsAppend DEF Begins, mid, n
  <2>4. /\ ci' \in [Threads -> Seq(Frames)] /\ ci'[th] = frames
        /\ nCcalls' \in [Threads -> 0 .. HardLimit] /\ nCcalls'[th] = nCcalls[th] + 1
        /\ baseCcalls' \in [Threads -> 0 .. HardLimit] /\ baseCcalls'[th] = baseCcalls[th] + 1
        /\ Elsewhere(th, ci, status, nCcalls, baseCcalls, ci', status, nCcalls', baseCcalls')
    <3>1. nCcalls[th] + 1 \in 0 .. HardLimit /\ baseCcalls[th] + 1 \in 0 .. HardLimit
      BY <1>1, <1>2 DEF CStackOverflows
    <3> QED  BY <1>2, <1>3, <2>1, <3>1, ExceptOk DEF Typed, Elsewhere
  <2>5. Typed(mid, ci', status, nCcalls', baseCcalls')
    BY <1>2, <2>3, <2>4 DEF Typed
  <2>6. Cont(ci', g) = 1
    BY <1>3, <1>4, <2>2, <2>4 DEF Cont, WithCont
  <2>7. Held(mid, ci', status, th)
    <3>1. \A i : CalledFrom(native, th, i) => CalledFrom(mid, th, i)
      <4>1. n + 1 .. n = {}
        BY <2>3
      <4> QED  BY <2>3, <4>1, CalledKept DEF n
    <3>2. Held(native, ci, status, th)
      BY <1>2 DEF Sound
    <3> QED  BY <1>5, <2>4, <3>1, <3>2 DEF Held
  <2>8. /\ \A i \in 1 .. Innermost.at : ci'[Innermost.th][i] = ci[Innermost.th][i]
        /\ g.at <= Len(ci'[Innermost.th]) /\ g.at > Innermost.at /\ ci'[Innermost.th][g.at] = "pcall"
        /\ g.kind \in {"call", "pcall"} /\ g.kind # "call"
        /\ nCcalls'[Innermost.th] = g.nC + 1 /\ baseCcalls'[Innermost.th] = g.base + Cont(ci', g)
        /\ Elsewhere(Innermost.th, ci, status, nCcalls, baseCcalls, ci', status, nCcalls', baseCcalls')
    BY <1>2, <1>3, <1>4, <1>6, <2>1, <2>2, <2>4, <2>6
  <2>9. Sound(mid, ci', status, nCcalls', baseCcalls')
    <3>1. /\ Sound(native, ci, status, nCcalls, baseCcalls) /\ ~IsKotlin(Innermost)
          /\ Innermost = At(native, Len(native)) /\ status[Innermost.th] = "OK" /\ g.th = Innermost.th
          /\ g.nC = nCcalls[Innermost.th] /\ g.base = baseCcalls[Innermost.th]
          /\ Held(mid, ci', status, Innermost.th) /\ mid = Append(native, g)
      BY <1>2, <2>2, <2>7 DEF mid
    <3> QED  BY ONLY <2>2, <2>5, <2>8, <3>1, SoundPushCall
  <2>10. At(mid, Len(mid)) = g
    BY <2>3 DEF At
  <2>11. ~IsKotlin(g) /\ Landed(mid, ci', status)
    BY <2>2, <2>10 DEF IsKotlin, Landed
  <2>12. /\ native' = WithTrampoline(mid, g.th, ci'[g.th], "invoke") /\ status[g.th] = "OK"
         /\ Len(ci'[g.th]) > g.at
    BY <1>2, <1>3, <1>4, <2>1, <2>2, <2>4
  <2>13. Sound(native', ci', status, nCcalls', baseCcalls') /\ Landed(native', ci', status)
    BY ONLY <2>9, <2>10, <2>11, <2>12, Trampolined
  <2> QED  BY <2>1, <2>13 DEF IInv
<1> QED  BY <1>7, <1>8
-----------------------------------------------------------------------------
(* A yield that unwinds from a frame unwinds from the one below. *)
LEMMA UnwindsBelow ==
  ASSUME NEW nat, NEW n \in Nat \ {0}, Unwindable(nat, n), nat[n].kind # "resume"
  PROVE  nat[n].kind \in {"pcall", "callback"} /\ Unwindable(nat, n - 1)
<1>1. PICK r \in 1 .. n :
         /\ nat[r].kind = "resume"
         /\ \A j \in r + 1 .. n : nat[j].kind = "pcall" \/ (nat[j].kind = "callback" /\ j = n)
  BY DEF Unwindable
<1>2. r # n
  BY <1>1
<1>3. r \in 1 .. n - 1 /\ n \in r + 1 .. n /\ \A j \in r + 1 .. n - 1 : j \in r + 1 .. n /\ j # n
  BY <1>2
<1> QED  BY <1>1, <1>3 DEF Unwindable

(* The innermost call, pcall or callback ends: frames is what it leaves. *)
LEMMA Pops ==
  ASSUME IInv, native # <<>>, Innermost.kind # "resume",
         NEW m, m = Len(native) - 1, NEW p, p = At(native, m), NEW th, th = Running,
         NEW frames \in Seq(Frames), Len(frames) <= Len(ci[th]), p.at <= Len(frames),
         \A i \in 1 .. Len(frames) : frames[i] = ci[th][i],
         NEW s \in {"OK", "YIELD", "REENTRY"},
         IsKotlin(p) => Len(frames) = p.at /\ s = "OK",
         p.kind = "resume" /\ s = "OK" => Len(frames) < Len(ci[th]),
         s # "OK" => Unwindable(native, m),
         s = "YIELD" => Suspended(frames),
         s = "REENTRY" => frames # <<>> /\ Last(frames) \in LuaFrames,
         native' = Front(native), ci' = [ci EXCEPT ![th] = frames], status' = [status EXCEPT ![th] = s],
         nCcalls' = [nCcalls EXCEPT ![th] = Count(native, m)],
         baseCcalls' = [baseCcalls EXCEPT ![th] = Basis(native, ci, m)]
  PROVE  IInv'
<1> DEFINE n == Len(native)
<1>1. /\ n \in Nat \ {0} /\ m \in 0 .. n /\ m \in Nat /\ m + 1 = n /\ n \in 1 .. n
      /\ p = At(native, n - 1)
      /\ Innermost = native[n] /\ Innermost \in NativeFrame /\ native \in Seq(NativeFrame)
      /\ Linked(native, ci, n) /\ Innermost.th = th /\ th \in Threads
      /\ p.at \in Nat /\ ci[th] \in Seq(Frames) /\ Len(ci[th]) \in Nat /\ Len(frames) \in Nat
      /\ Sound(native, ci, status, nCcalls, baseCcalls) /\ Typed(native, ci, status, nCcalls, baseCcalls)
  <2>1. m \in 0 .. n /\ m \in Nat /\ m + 1 = n
    BY TopFacts
  <2> QED  BY <2>1, Facts, TopFacts, LenProperties DEF IInv, Running
<1>2. p.th = th
  BY <1>1 DEF Linked
<1>3. /\ Front(native) \in Seq(NativeFrame) /\ Len(Front(native)) = m
      /\ Begins(Front(native), native, m)
  BY <1>1, FrontOk, BeginsFront
<1>4. Stacked(native, ci) /\ n \in 0 .. n
  BY <1>1 DEF Sound
<1> HIDE DEF n
<1>5. Count(native, m) \in 0 .. HardLimit /\ Basis(native, ci, m) \in 0 .. HardLimit
  <2>1. Count(native, m) \in Nat /\ Basis(native, ci, m) <= Count(native, m) /\ Basis(native, ci, m) \in Nat
    BY <1>1, <1>4, CountsAt DEF n
  <2>2. Count(native, m) <= Count(native, n) /\ Count(native, n) \in 0 .. HardLimit
    <3>1. Count(native, n) = nCcalls[th] /\ Count(native, n) \in 0 .. HardLimit
      BY <1>1, Facts DEF n
    <3>2. CASE Innermost.kind = "callback"
      <4>1. ~IsKotlin(p)
        BY <1>1, <3>2 DEF Linked
      <4>3. m # 0
        BY <4>1 DEF IsKotlin, At, Program
      <4>2. Count(native, m) = Count(native, n)
        BY <1>1, <3>2, <4>1, <4>3 DEF Count, GuardAt, At, IsKotlin
      <4> QED  BY <3>1, <4>2
    <3>3. CASE Innermost.kind # "callback"
      <4>1. Innermost.nC = Count(native, m) /\ Levelled(native, ci, n)
        BY <1>1, <3>3, TopFacts, FrameTypes DEF Levelled, n
      <4>2. Count(native, n) = Innermost.nC + 1
        BY <1>1, <3>3 DEF Count, GuardAt, CountOver
      <4> QED  BY <2>1, <3>1, <4>1, <4>2
    <3> QED  BY <3>2, <3>3
  <2>3. MaxCCalls \in Nat /\ HardLimit \in Nat /\ MaxCCalls <= HardLimit
    BY CoroutinesAssumption
  <2> QED  BY <2>1, <2>2, <2>3
<1>6. /\ ci' \in [Threads -> Seq(Frames)] /\ ci'[th] = frames
      /\ status' \in [Threads -> {"OK", "YIELD", "REENTRY", "ERRRUN"}] /\ status'[th] = s
      /\ nCcalls' \in [Threads -> 0 .. HardLimit] /\ nCcalls'[th] = Count(native, m)
      /\ baseCcalls' \in [Threads -> 0 .. HardLimit] /\ baseCcalls'[th] = Basis(native, ci, m)
      /\ Elsewhere(th, ci, status, nCcalls, baseCcalls, ci', status', nCcalls', baseCcalls')
  <2>1. s \in {"OK", "YIELD", "REENTRY", "ERRRUN"}
    OBVIOUS
  <2> QED  BY <1>1, <1>5, <2>1, ExceptOk DEF Typed, Elsewhere
<1>7. Typed(Front(native), ci', status', nCcalls', baseCcalls')
  BY <1>3, <1>6 DEF Typed
<1>8. At(Front(native), m) = p /\ (Unwindable(Front(native), m) <=> Unwindable(native, m)) /\ m \in 0 .. m
  BY <1>1, <1>3, AlikeAt, AlikeCounted
<1>9. Runs(Front(native), ci', status')
  BY <1>2, <1>3, <1>6, <1>8 DEF Runs
<1>10. status[th] # "ERRRUN" /\ Held(native, ci, status, th)
  BY <1>1, Facts DEF Sound, Runs
<1>11. Held(Front(native), ci', status', th)
  <2> SUFFICES ASSUME NEW i \in 1 .. Len(frames) - 1
               PROVE  frames[i] \in Stays \/ (frames[i] = "plain" /\ CalledFrom(Front(native), th, i))
    BY <1>6 DEF Held
  <2>1. i \in 1 .. Len(frames) /\ i \in 1 .. Len(ci[th]) - 1 /\ i # Len(frames)
    BY <1>1
  <2>2. frames[i] \in Stays \/ (frames[i] = "plain" /\ CalledFrom(native, th, i))
    BY <1>10, <2>1 DEF Held
  <2>3. ~(native[n].kind = "call" /\ native[n].at = i)
    BY <1>1, <2>1 DEF Linked
  <2>4. \A k \in m + 1 .. Len(native) : ~(native[k].kind = "call" /\ native[k].th = th /\ native[k].at = i)
    <3>1. \A k \in m + 1 .. n : k = n
      BY <1>1
    <3> QED  BY <2>3, <3>1 DEF n
  <2>5. CalledFrom(native, th, i) => CalledFrom(Front(native), th, i)
    BY <1>3, <2>4, CalledKept
  <2> QED  BY <2>2, <2>5
<1>12. /\ native[Len(native)].kind # "resume" /\ p = At(native, Len(native) - 1)
       /\ Elsewhere(p.th, ci, status, nCcalls, baseCcalls, ci', status', nCcalls', baseCcalls')
       /\ \A i \in 1 .. p.at : ci'[p.th][i] = ci[p.th][i]
       /\ p.at <= Len(ci'[p.th])
       /\ nCcalls'[p.th] = Count(native, Len(native) - 1) /\ baseCcalls'[p.th] = Basis(native, ci, Len(native) - 1)
       /\ Held(Front(native), ci', status', p.th)
  <2>1. \A i \in 1 .. p.at : i \in 1 .. Len(frames)
    BY <1>1
  <2> QED  BY <1>1, <1>2, <1>6, <1>11, <2>1 DEF n
<1>13. Sound(Front(native), ci', status', nCcalls', baseCcalls')
  BY ONLY <1>1, <1>7, <1>9, <1>12, native # <<>>, SoundPop
<1>14. Landed(Front(native), ci', status')
  <2> SUFFICES ASSUME p.kind = "resume", s = "OK", frames # <<>>
               PROVE  Last(frames) \in Stays
    BY <1>2, <1>3, <1>6, <1>8 DEF Landed
  <2>1. m \in 1 .. n /\ p = native[m]
    BY <1>1 DEF At, Program
  <2>2. Innermost.kind # "call"
    BY <1>1 DEF Linked, IsKotlin
  <2>3. \A j \in m + 1 .. n : native[j].kind # "call"
    <3>1. \A j \in m + 1 .. n : j = n
      BY <1>1
    <3> QED  BY <1>1, <2>2, <3>1
  <2>4. Len(frames) \in 1 .. Len(ci[th]) - 1 /\ Len(frames) \in 1 .. Len(frames)
    <3>1. Len(frames) # 0
      BY <1>1, EmptySeq
    <3> QED  BY <1>1, <3>1
  <2>5. ci[th][Len(frames)] \in Stays
    <3>1. /\ m \in 1 .. Len(native) /\ native[m].kind = "resume" /\ native[m].th = th
          /\ \A j \in m + 1 .. Len(native) : native[j].kind # "call"
      BY <1>2, <2>1, <2>3 DEF n
    <3> QED  BY ONLY <1>1, <1>4, <1>10, <2>4, <3>1, Landing
  <2> QED  BY <2>4, <2>5 DEF Last
<1> QED  BY <1>13, <1>14 DEF IInv

(* What the counts were before the innermost activation. *)
LEMMA CountsBelow ==
  ASSUME IInv, native # <<>>, Innermost.kind # "resume", NEW m, m = Len(native) - 1
  PROVE  /\ Innermost.kind = "callback" =>
              Count(native, m) = nCcalls[Running] /\ Basis(native, ci, m) = baseCcalls[Running]
         /\ Innermost.kind # "callback" =>
              /\ Count(native, m) = Innermost.nC /\ Basis(native, ci, m) = Innermost.base
              /\ Count(native, m) = nCcalls[Running] - 1
              /\ Basis(native, ci, m) = baseCcalls[Running] - FromCont(Running, Innermost.at)
<1> DEFINE n == Len(native)
<1>1. /\ n \in Nat \ {0} /\ m + 1 = n /\ m = n - 1 /\ n # 0
      /\ Innermost = native[n] /\ Innermost \in NativeFrame /\ Innermost.th = Running
      /\ Linked(native, ci, n) /\ Levelled(native, ci, n)
      /\ nCcalls[Running] = Count(native, n) /\ baseCcalls[Running] = Basis(native, ci, n)
  BY Facts, TopFacts DEF Running
<1> HIDE DEF n
<1>2. CASE Innermost.kind = "callback"
  <2>1. ~IsKotlin(At(native, m))
    BY <1>1, <1>2 DEF Linked
  <2>2. m # 0
    BY <2>1 DEF IsKotlin, At, Program
  <2>3. Count(native, m) = Count(native, n) /\ Basis(native, ci, m) = Basis(native, ci, n)
    BY <1>1, <1>2, <2>1, <2>2 DEF Count, Basis, GuardAt, At, IsKotlin
  <2> QED  BY <1>1, <1>2, <2>3
<1>3. CASE Innermost.kind # "callback"
  <2>1. Innermost.kind \in {"call", "pcall"} /\ Innermost.nC \in Nat /\ Innermost.base \in Nat
    <3>1. MaxCCalls \in Nat /\ HardLimit \in Nat /\ MaxCCalls <= HardLimit
      BY CoroutinesAssumption
    <3> QED  BY <1>1, <1>3, <3>1, FrameTypes
  <2>2. Innermost.nC = Count(native, m) /\ Innermost.base = Basis(native, ci, m)
    BY <1>1, <2>1 DEF Levelled
  <2>3. Count(native, n) = Innermost.nC + 1 /\ Basis(native, ci, n) = Innermost.base + Cont(ci, Innermost)
    BY <1>1, <1>3 DEF Count, Basis, GuardAt, CountOver, BaseOver
  <2>4. Cont(ci, Innermost) = FromCont(Running, Innermost.at) /\ FromCont(Running, Innermost.at) \in {0, 1}
    BY <1>1 DEF Cont, FromCont
  <2> QED  BY <1>1, <1>3, <2>1, <2>2, <2>3, <2>4
<1> QED  BY <1>2, <1>3

(* What a Kotlin function ends with. *)
LEMMA CallbackEndsKeeps ==
  ASSUME IInv, Faults = {}, NEW th \in Threads, CallbackEnds(th)
  PROVE  IInv'
<1> DEFINE m == Len(native) - 1
           p == At(native, m)
           frames == Front(ci[th])
<1>1. /\ KotlinRuns /\ Running = th /\ native # <<>>
      /\ native' = Front(native) /\ ci' = [ci EXCEPT ![th] = frames]
      /\ nCcalls' = nCcalls /\ baseCcalls' = baseCcalls /\ status' = status
  BY DEF CallbackEnds, CallbackReturns
<1>2. /\ Innermost.kind = "callback" /\ ci[th] # <<>> /\ Len(ci[th]) = Innermost.at /\ status[th] = "OK"
      /\ ~IsKotlin(p) /\ p.at < Innermost.at /\ Typed(native, ci, status, nCcalls, baseCcalls)
      /\ ci[th] \in Seq(Frames) /\ Len(ci[th]) \in Nat /\ p.at \in Nat
  BY <1>1, KotlinFacts, Facts, TopFacts
<1>3. /\ frames \in Seq(Frames) /\ Len(frames) = Len(ci[th]) - 1
      /\ \A i \in 1 .. Len(ci[th]) - 1 : frames[i] = ci[th][i]
  BY <1>2, FrontOk
<1>4. Count(native, m) = nCcalls[th] /\ Basis(native, ci, m) = baseCcalls[th]
  BY <1>1, <1>2, CountsBelow
<1> HIDE DEF m, p, frames
<1>5. /\ status' = [status EXCEPT ![th] = "OK"]
      /\ nCcalls' = [nCcalls EXCEPT ![th] = Count(native, m)]
      /\ baseCcalls' = [baseCcalls EXCEPT ![th] = Basis(native, ci, m)]
  BY <1>1, <1>2, <1>4 DEF Typed
<1>6. /\ Innermost.kind # "resume" /\ th = Running /\ "OK" \in {"OK", "YIELD", "REENTRY"}
      /\ Len(frames) <= Len(ci[th]) /\ p.at <= Len(frames) /\ Len(frames) < Len(ci[th])
      /\ \A i \in 1 .. Len(frames) : frames[i] = ci[th][i]
      /\ m = Len(native) - 1 /\ p = At(native, m)
  BY <1>1, <1>2, <1>3 DEF m, p
<1> QED  BY ONLY IInv, <1>1, <1>2, <1>3, <1>5, <1>6, Pops

LEMMA KotlinYieldsKeeps ==
  ASSUME IInv, NEW th \in Threads, KotlinYields(th)
  PROVE  IInv'
<1> DEFINE m == Len(native) - 1
           p == At(native, m)
<1>1. /\ KotlinRuns /\ Running = th /\ native # <<>> /\ lua_isyieldable(th)
      /\ native' = Front(native) /\ status' = [status EXCEPT ![th] = "YIELD"]
      /\ ci' = ci /\ nCcalls' = nCcalls /\ baseCcalls' = baseCcalls
  BY DEF KotlinYields
<1>2. /\ Innermost.kind = "callback" /\ ci[th] # <<>> /\ Len(ci[th]) = Innermost.at
      /\ ~IsKotlin(p) /\ p.at < Innermost.at /\ Typed(native, ci, status, nCcalls, baseCcalls)
      /\ ci[th] \in Seq(Frames) /\ Len(ci[th]) \in Nat /\ p.at \in Nat /\ Last(ci[th]) \in KotlinFrames
  BY <1>1, KotlinFacts, Facts, TopFacts
<1>3. Count(native, m) = nCcalls[th] /\ Basis(native, ci, m) = baseCcalls[th]
  BY <1>1, <1>2, CountsBelow
<1>4. Unwindable(native, m)
  <2>1. Unwindable(native, Len(native)) /\ Len(native) \in Nat \ {0} /\ native[Len(native)].kind # "resume"
    BY <1>1, <1>2, TopFacts DEF lua_isyieldable
  <2> QED  BY <2>1, UnwindsBelow
<1> HIDE DEF m, p
<1>5. /\ ci' = [ci EXCEPT ![th] = ci[th]]
      /\ nCcalls' = [nCcalls EXCEPT ![th] = Count(native, m)]
      /\ baseCcalls' = [baseCcalls EXCEPT ![th] = Basis(native, ci, m)]
  BY <1>1, <1>3, <1>2 DEF Typed
<1>6. /\ Innermost.kind # "resume" /\ th = Running /\ "YIELD" \in {"OK", "YIELD", "REENTRY"}
      /\ Len(ci[th]) <= Len(ci[th]) /\ p.at <= Len(ci[th])
      /\ \A i \in 1 .. Len(ci[th]) : ci[th][i] = ci[th][i]
      /\ m = Len(native) - 1 /\ p = At(native, m) /\ Suspended(ci[th])
      /\ "YIELD" # "OK" /\ "YIELD" # "REENTRY"
  BY <1>1, <1>2 DEF m, p, Suspended
<1> QED  BY ONLY IInv, <1>1, <1>2, <1>4, <1>5, <1>6, Pops

LEMMA CallReturnsKeeps ==
  ASSUME IInv, NEW th \in Threads, CallReturns(th)
  PROVE  IInv'
<1> DEFINE m == Len(native) - 1
           p == At(native, m)
<1>1. /\ ~KotlinRuns /\ Running = th /\ Innermost.kind = "call" /\ CallOver(th) /\ native # <<>>
      /\ native' = Front(native) /\ status' = status /\ ci' = ci
      /\ nCcalls' = [nCcalls EXCEPT ![th] = nCcalls[th] - 1]
      /\ baseCcalls' = [baseCcalls EXCEPT ![th] = baseCcalls[th] - FromCont(th, Innermost.at)]
  BY DEF CallReturns, VmRuns, Called, Innermost
<1>2. /\ Innermost = At(native, Len(native)) /\ Innermost = native[Len(native)]
      /\ Len(native) \in Nat \ {0} /\ Linked(native, ci, Len(native)) /\ p.at \in Nat
      /\ Typed(native, ci, status, nCcalls, baseCcalls) /\ ci[th] \in Seq(Frames) /\ Len(ci[th]) \in Nat
      /\ Runs(native, ci, status)
  BY <1>1, Facts, TopFacts DEF IInv, Sound
<1>3. status[th] = "OK" /\ Len(ci[th]) = Innermost.at
  <2>1. status[th] # "OK" => Unwindable(native, Len(native))
    BY <1>1, <1>2 DEF Runs, Running
  <2>2. ~Unwindable(native, Len(native))
    BY <1>1, <1>2, UnwindsBelow
  <2> QED  BY <1>1, <2>1, <2>2 DEF CallOver, isyielded
<1>4. IsKotlin(p) /\ p.at = Innermost.at
  BY <1>1, <1>2 DEF Linked
<1>5. Count(native, m) = nCcalls[th] - 1 /\ Basis(native, ci, m) = baseCcalls[th] - FromCont(th, Innermost.at)
  BY <1>1, CountsBelow
<1> HIDE DEF m, p
<1>6. /\ ci' = [ci EXCEPT ![th] = ci[th]] /\ status' = [status EXCEPT ![th] = "OK"]
      /\ nCcalls' = [nCcalls EXCEPT ![th] = Count(native, m)]
      /\ baseCcalls' = [baseCcalls EXCEPT ![th] = Basis(native, ci, m)]
  BY <1>1, <1>2, <1>3, <1>5 DEF Typed
<1>7. /\ Innermost.kind # "resume" /\ th = Running /\ "OK" \in {"OK", "YIELD", "REENTRY"}
      /\ Len(ci[th]) <= Len(ci[th]) /\ p.at <= Len(ci[th]) /\ Len(ci[th]) = p.at
      /\ \A i \in 1 .. Len(ci[th]) : ci[th][i] = ci[th][i]
      /\ m = Len(native) - 1 /\ p = At(native, m) /\ native # <<>> /\ native' = Front(native)
      /\ ci[th] \in Seq(Frames)
      /\ IsKotlin(p) => Len(ci[th]) = p.at /\ "OK" = "OK"
      /\ p.kind = "resume" /\ "OK" = "OK" => Len(ci[th]) < Len(ci[th])
      /\ "OK" # "OK" => Unwindable(native, m)
      /\ "OK" = "YIELD" => Suspended(ci[th])
      /\ "OK" = "REENTRY" => ci[th] # <<>> /\ Last(ci[th]) \in LuaFrames
  BY <1>1, <1>2, <1>3, <1>4 DEF m, p, IsKotlin
<1> QED  BY ONLY IInv, <1>6, <1>7, Pops

LEMMA PcallReturnsKeeps ==
  ASSUME IInv, NEW th \in Threads, PcallReturns(th)
  PROVE  IInv'
<1> DEFINE m == Len(native) - 1
           p == At(native, m)
           frames == IF isyielded(th) THEN ci[th] ELSE Front(ci[th])
<1>1. /\ ~KotlinRuns /\ Running = th /\ Innermost.kind = "pcall" /\ CallOver(th) /\ native # <<>>
      /\ native' = Front(native) /\ status' = status
      /\ ci' = IF isyielded(th) THEN ci ELSE [ci EXCEPT ![th] = Front(ci[th])]
      /\ nCcalls' = [nCcalls EXCEPT ![th] = nCcalls[th] - 1]
      /\ baseCcalls' = [baseCcalls EXCEPT ![th] = baseCcalls[th] - FromCont(th, Innermost.at)]
  BY DEF PcallReturns, VmRuns, Called, Innermost
<1>2. /\ Innermost = At(native, Len(native)) /\ Innermost = native[Len(native)] /\ Innermost.at \in Nat
      /\ Len(native) \in Nat \ {0} /\ Linked(native, ci, Len(native)) /\ p.at \in Nat
      /\ Typed(native, ci, status, nCcalls, baseCcalls) /\ ci[th] \in Seq(Frames) /\ Len(ci[th]) \in Nat
      /\ Runs(native, ci, status) /\ Innermost.at <= Len(ci[th])
  BY <1>1, Facts, TopFacts DEF IInv, Sound
<1>3. ~IsKotlin(p) /\ p.at < Innermost.at
  BY <1>1, <1>2 DEF Linked
<1>4. Count(native, m) = nCcalls[th] - 1 /\ Basis(native, ci, m) = baseCcalls[th] - FromCont(th, Innermost.at)
  BY <1>1, CountsBelow
<1>5. /\ status[th] \in {"OK", "YIELD", "REENTRY"}
      /\ status[th] # "OK" => Unwindable(native, m)
      /\ status[th] = "YIELD" => Suspended(ci[th])
      /\ status[th] = "REENTRY" => ci[th] # <<>> /\ Last(ci[th]) \in LuaFrames
  <2>1. /\ status[th] \in {"OK", "YIELD", "REENTRY"}
        /\ status[th] # "OK" => Unwindable(native, Len(native))
        /\ status[th] = "YIELD" => Suspended(ci[th])
        /\ status[th] = "REENTRY" => ci[th] # <<>> /\ Last(ci[th]) \in LuaFrames
    BY <1>1, <1>2 DEF Runs, Running
  <2>2. Unwindable(native, Len(native)) => Unwindable(native, m)
    BY <1>1, <1>2, UnwindsBelow
  <2> QED  BY <2>1, <2>2
<1>6. /\ frames \in Seq(Frames) /\ Len(frames) <= Len(ci[th]) /\ p.at <= Len(frames)
      /\ \A i \in 1 .. Len(frames) : frames[i] = ci[th][i]
      /\ ~isyielded(th) => Len(frames) < Len(ci[th])
      /\ isyielded(th) => frames = ci[th]
  <2>1. CASE isyielded(th)
    <3>1. frames = ci[th]
      BY <2>1
    <3> HIDE DEF frames
    <3> QED  BY <1>2, <1>3, <2>1, <3>1
  <2>2. CASE ~isyielded(th)
    <3>1. frames = Front(ci[th])
      BY <2>2
    <3> HIDE DEF frames, p
    <3>2. ci[th] # <<>> /\ Len(ci[th]) # 0
      BY <1>2, <1>3, EmptySeq
    <3>3. /\ frames \in Seq(Frames) /\ Len(frames) = Len(ci[th]) - 1
          /\ \A i \in 1 .. Len(ci[th]) - 1 : frames[i] = ci[th][i]
      BY <1>2, <3>1, <3>2, FrontOk
    <3> QED  BY <1>2, <1>3, <2>2, <3>3
  <2> QED  BY <2>1, <2>2
<1>7. /\ ci' = [ci EXCEPT ![th] = frames] /\ status' = [status EXCEPT ![th] = status[th]]
      /\ nCcalls' = [nCcalls EXCEPT ![th] = Count(native, m)]
      /\ baseCcalls' = [baseCcalls EXCEPT ![th] = Basis(native, ci, m)]
  BY <1>1, <1>2, <1>4 DEF Typed
<1>8. isyielded(th) <=> status[th] # "OK"
  BY <1>5 DEF isyielded
<1> HIDE DEF m, p, frames
<1>9. /\ Innermost.kind # "resume" /\ th = Running /\ m = Len(native) - 1 /\ p = At(native, m)
      /\ IsKotlin(p) => Len(frames) = p.at /\ status[th] = "OK"
      /\ p.kind = "resume" /\ status[th] = "OK" => Len(frames) < Len(ci[th])
      /\ status[th] = "YIELD" => Suspended(frames)
      /\ status[th] = "REENTRY" => frames # <<>> /\ Last(frames) \in LuaFrames
      /\ native # <<>> /\ native' = Front(native) /\ frames \in Seq(Frames)
      /\ Len(frames) <= Len(ci[th]) /\ p.at <= Len(frames)
      /\ \A i \in 1 .. Len(frames) : frames[i] = ci[th][i]
      /\ status[th] \in {"OK", "YIELD", "REENTRY"}
      /\ status[th] # "OK" => Unwindable(native, m)
  BY <1>1, <1>3, <1>5, <1>6, <1>8 DEF m, p
<1> QED  BY ONLY IInv, <1>7, <1>9, Pops

(* lua_resume returns. *)
LEMMA ResumedKeeps ==
  ASSUME IInv, native # <<>>, Innermost.kind = "resume", NEW th, th = Running, Resumed(th, native, ci),
         NEW s \in {"OK", "YIELD", "REENTRY", "ERRRUN"}, status' = [status EXCEPT ![th] = s],
         Idles(ci, status', th)
  PROVE  IInv'
<1> DEFINE n == Len(native)
           r == Resumer(native)
           low == Last(native).nC - 1
<1>1. /\ n \in Nat \ {0} /\ n \in 1 .. n /\ Innermost = native[n] /\ Innermost \in NativeFrame
      /\ Last(native) = native[n] /\ Innermost.th = th /\ th \in Threads /\ native \in Seq(NativeFrame)
      /\ Levelled(native, ci, n) /\ At(native, n - 1).th \in Threads
      /\ Typed(native, ci, status, nCcalls, baseCcalls) /\ Sound(native, ci, status, nCcalls, baseCcalls)
  BY Facts, TopFacts DEF Running, Last, IInv
<1>2. /\ native' = Front(native) /\ ci' = BackIn(ci, r)
      /\ nCcalls' = [nCcalls EXCEPT ![th] = low] /\ baseCcalls' = [baseCcalls EXCEPT ![th] = low]
  BY DEF Resumed
<1>3. low \in 0 .. HardLimit
  <2>1. Innermost.nC \in 0 .. HardLimit /\ Innermost.nC >= 1 /\ MaxCCalls \in Nat /\ HardLimit \in Nat /\ MaxCCalls <= HardLimit
    BY <1>1, FrameTypes, CoroutinesAssumption DEF Levelled
  <2> QED  BY <1>1, <2>1
<1>4. r \in Threads
  <2>1. n = 1 => Main \in Threads
    BY DEF Threads
  <2>2. n # 1 => n - 1 # 0
    BY <1>1
  <2> QED  BY <1>1, <2>1, <2>2 DEF Resumer, At
<1>5. ci' \in [Threads -> Seq(Frames)]
  <2>1. CASE ci[r] # <<>> /\ Last(ci[r]) = "coresume"
    <3>1. Front(ci[r]) \in Seq(Frames)
      BY <1>1, <1>4, FrontOk DEF Typed
    <3> QED  BY <1>1, <1>2, <1>4, <2>1, <3>1, ExceptOk DEF BackIn, Typed
  <2>2. CASE ~(ci[r] # <<>> /\ Last(ci[r]) = "coresume")
    BY <1>1, <1>2, <2>2 DEF BackIn, Typed
  <2> QED  BY <2>1, <2>2
<1> HIDE DEF low, r, n
<1>6. /\ status' \in [Threads -> {"OK", "YIELD", "REENTRY", "ERRRUN"}]
      /\ nCcalls' \in [Threads -> 0 .. HardLimit] /\ baseCcalls' \in [Threads -> 0 .. HardLimit]
      /\ \A u \in Threads : u # th =>
            status'[u] = status[u] /\ nCcalls'[u] = nCcalls[u] /\ baseCcalls'[u] = baseCcalls[u]
  BY <1>1, <1>2, <1>3, ExceptOk DEF Typed
<1>7. Typed(Front(native), ci', status', nCcalls', baseCcalls')
  BY <1>1, <1>5, <1>6, FrontOk DEF Typed
<1>8. /\ native[Len(native)].kind = "resume" /\ th = native[Len(native)].th /\ ci' = BackIn(ci, Resumer(native))
      /\ Sound(native, ci, status, nCcalls, baseCcalls) /\ native # <<>> /\ Idles(ci, status', th)
      /\ \A u \in Threads : u # th =>
            status'[u] = status[u] /\ nCcalls'[u] = nCcalls[u] /\ baseCcalls'[u] = baseCcalls[u]
  BY <1>1, <1>2, <1>6 DEF n, r
<1>9. Sound(Front(native), ci', status', nCcalls', baseCcalls') /\ Landed(Front(native), ci', status')
  BY ONLY <1>7, <1>8, SoundReturn
<1> QED  BY <1>2, <1>9 DEF IInv

LEMMA ResumeReturnsKeeps ==
  ASSUME IInv, NEW th \in Threads, ResumeReturns(th)
  PROVE  IInv'
<1>1. /\ native # <<>> /\ Innermost.kind = "resume" /\ th = Running /\ MayResume(th)
      /\ Resumed(th, native, ci) /\ status' = status
  BY DEF ResumeReturns, VmRuns, Innermost
<1>2. status' = [status EXCEPT ![th] = status[th]] /\ status[th] \in {"OK", "YIELD", "REENTRY", "ERRRUN"}
  BY <1>1, Facts DEF Typed
<1>3. Idles(ci, status', th)
  <2>1. status[th] = "YIELD" => Suspended(ci[th])
    BY <1>1, Facts DEF IInv, Sound, Runs
  <2> QED  BY <1>1, <2>1 DEF MayResume, Idles
<1> QED  BY <1>1, <1>2, <1>3, ResumedKeeps

LEMMA RaiseToResumeKeeps ==
  ASSUME IInv, NEW th \in Threads, LuaRuns(th), Innermost.kind = "resume", RaiseToResume(th)
  PROVE  IInv'
<1>1. /\ th = Running /\ status[th] = "OK" /\ native # <<>> /\ ~KotlinRuns
      /\ ci[th] \in Seq(Frames) /\ Len(ci[th]) \in Nat
      /\ Typed(native, ci, status, nCcalls, baseCcalls)
  BY Facts, LuaFacts DEF LuaRuns, VmRuns
<1>2. CASE Handlers(th) = {}
  <2>1. Resumed(th, native, ci) /\ status' = [status EXCEPT ![th] = "ERRRUN"]
    BY <1>2 DEF RaiseToResume
  <2>2. Idles(ci, status', th)
    BY <1>1, <2>1 DEF Idles, Typed
  <2> QED  BY <1>1, <2>1, <2>2, ResumedKeeps
<1>3. CASE Handlers(th) # {}
  <2> DEFINE i == Highest(Handlers(th))
             frames == SubSeq(ci[th], 1, i - 1)
  <2>1. /\ ci' = [ci EXCEPT ![th] = frames] /\ status' = status /\ native' = native
        /\ nCcalls' = [nCcalls EXCEPT ![th] = Innermost.nC] /\ baseCcalls' = [baseCcalls EXCEPT ![th] = Innermost.nC]
    BY <1>3 DEF RaiseToResume
  <2>2. i \in 1 .. Len(ci[th])
    <3>1. DOMAIN ci[th] = 1 .. Len(ci[th])
      BY <1>1, LenProperties
    <3>2. Handlers(th) \in SUBSET (1 .. Len(ci[th]))
      BY <3>1 DEF Handlers
    <3>3. i \in Handlers(th)
      BY <1>1, <1>3, <3>2, HighestOk
    <3> QED  BY <3>2, <3>3
  <2> HIDE DEF i
  <2>3. i - 1 \in Nat /\ i - 1 <= Len(ci[th]) /\ i - 1 < Len(ci[th])
    BY <1>1, <2>2
  <2>4. /\ frames \in Seq(Frames) /\ Len(frames) = i - 1
        /\ \A j \in 1 .. i - 1 : frames[j] = ci[th][j]
    BY <1>1, <2>3, CutOk
  <2> HIDE DEF frames
  <2>5. /\ Innermost.at = 0 /\ nCcalls[th] = Innermost.nC /\ baseCcalls[th] = Innermost.nC
    <3>1. /\ Linked(native, ci, Len(native)) /\ Levelled(native, ci, Len(native)) /\ Len(native) # 0
          /\ Innermost = native[Len(native)]
      BY <1>1, TopFacts
    <3>2. nCcalls[th] = Count(native, Len(native)) /\ baseCcalls[th] = Basis(native, ci, Len(native))
      BY <1>1, Facts
    <3> QED  BY <3>1, <3>2 DEF Linked, Levelled, Count, Basis, GuardAt, CountOver, BaseOver
  <2>6. nCcalls' = nCcalls /\ baseCcalls' = baseCcalls
    BY <1>1, <2>1, <2>5 DEF Typed
  <2>7. Len(frames) >= Innermost.at /\ \A j \in 1 .. Innermost.at : frames[j] = ci[th][j]
    BY <2>3, <2>4, <2>5
  <2>8. \A j \in 1 .. Len(frames) - 1 :
           frames[j] \in Stays \/ (j \in 1 .. Len(ci[th]) - 1 /\ frames[j] = ci[th][j])
    BY <1>1, <2>3, <2>4
  <2>9. frames # <<>> => Last(frames) \in Stays
    <3>1. frames # <<>> => Len(frames) \in 1 .. Len(ci[th]) - 1 /\ Len(frames) \in 1 .. i - 1
      <4>1. frames # <<>> => Len(frames) # 0
        BY <2>4, EmptySeq
      <4> QED  BY <1>1, <2>3, <2>4, <4>1
    <3> QED  BY <1>1, <2>4, <3>1, AllGoOn DEF Last
  <2>10. Sound(native, ci', status, nCcalls, baseCcalls) /\ Landed(native, ci', status)
    BY ONLY IInv, <1>1, <2>1, <2>4, <2>7, <2>8, <2>9, VmGoes
  <2> QED  BY <2>1, <2>6, <2>10 DEF IInv
<1> QED  BY <1>2, <1>3

LEMMA RaiseToCallKeeps ==
  ASSUME IInv, NEW th \in Threads, LuaRuns(th), Innermost.kind # "resume", RaiseToCall(th)
  PROVE  IInv'
<1> DEFINE m == Len(native) - 1
           p == At(native, m)
           cut == IF Innermost.kind = "pcall" THEN Innermost.at - 1 ELSE Innermost.at
           frames == SubSeq(ci[th], 1, cut)
<1>1. /\ th = Running /\ status[th] = "OK" /\ native # <<>> /\ Len(ci[th]) > Innermost.at
      /\ ci[th] \in Seq(Frames) /\ Len(ci[th]) \in Nat /\ Innermost.at \in Nat
      /\ Typed(native, ci, status, nCcalls, baseCcalls)
      /\ Linked(native, ci, Len(native)) /\ Innermost = native[Len(native)] /\ p.at \in Nat
      /\ Innermost.kind \in {"call", "pcall"}
  <2>1. Innermost \in NativeFrame /\ ~IsKotlin(Innermost)
    BY LuaFacts, TopFacts
  <2>2. Innermost.kind \in {"call", "pcall"}
    BY <2>1, FrameTypes DEF IsKotlin
  <2> QED  BY <2>2, Facts, TopFacts, LuaFacts
<1>2. /\ native' = Front(native) /\ ci' = [ci EXCEPT ![th] = frames]
      /\ nCcalls' = [nCcalls EXCEPT ![th] = Innermost.nC] /\ baseCcalls' = [baseCcalls EXCEPT ![th] = Innermost.base]
      /\ status' = status
  BY DEF RaiseToCall
<1>3. Count(native, m) = Innermost.nC /\ Basis(native, ci, m) = Innermost.base
  BY <1>1, CountsBelow
<1>4. /\ Innermost.kind = "call" => IsKotlin(p) /\ p.at = Innermost.at
      /\ Innermost.kind = "pcall" => ~IsKotlin(p) /\ p.at < Innermost.at
  <2>1. Innermost.kind = "pcall" => ~IsKotlin(p) /\ Innermost.at > p.at
    BY <1>1 DEF Linked
  <2>2. Innermost.kind = "call" => IsKotlin(p) /\ p.at = Innermost.at
    BY <1>1 DEF Linked
  <2> HIDE DEF p
  <2> QED  BY <1>1, <2>1, <2>2
<1> HIDE DEF p, m, frames
<1>5. cut \in Nat /\ cut <= Len(ci[th]) /\ p.at <= cut /\ cut < Len(ci[th])
  BY <1>1, <1>4
<1>6. Innermost.kind = "call" => cut = p.at
  BY <1>4
<1> HIDE DEF cut
<1>7. /\ frames \in Seq(Frames) /\ Len(frames) = cut
      /\ \A i \in 1 .. cut : frames[i] = ci[th][i]
  BY <1>1, <1>5, CutOk DEF frames
<1>8. /\ status' = [status EXCEPT ![th] = "OK"]
      /\ nCcalls' = [nCcalls EXCEPT ![th] = Count(native, m)]
      /\ baseCcalls' = [baseCcalls EXCEPT ![th] = Basis(native, ci, m)]
  BY <1>1, <1>2, <1>3 DEF Typed
<1>9. /\ Innermost.kind # "resume" /\ th = Running /\ "OK" \in {"OK", "YIELD", "REENTRY"}
      /\ Len(frames) <= Len(ci[th]) /\ p.at <= Len(frames)
      /\ \A i \in 1 .. Len(frames) : frames[i] = ci[th][i]
      /\ m = Len(native) - 1 /\ p = At(native, m) /\ native # <<>> /\ native' = Front(native)
      /\ frames \in Seq(Frames)
      /\ IsKotlin(p) => Len(frames) = p.at /\ "OK" = "OK"
      /\ p.kind = "resume" /\ "OK" = "OK" => Len(frames) < Len(ci[th])
      /\ "OK" # "OK" => Unwindable(native, m)
      /\ "OK" = "YIELD" => Suspended(frames)
      /\ "OK" = "REENTRY" => frames # <<>> /\ Last(frames) \in LuaFrames
      /\ ci' = [ci EXCEPT ![th] = frames]
  BY <1>1, <1>2, <1>4, <1>5, <1>6, <1>7 DEF m, p
<1> QED  BY ONLY IInv, <1>8, <1>9, Pops

LEMMA RaiseKeeps ==
  ASSUME IInv, NEW th \in Threads, Raise(th)
  PROVE  IInv'
BY RaiseToResumeKeeps, RaiseToCallKeeps DEF Raise
-----------------------------------------------------------------------------
(* A thread that may be resumed or closed is not on the C stack. *)
LEMMA NotOnStack ==
  ASSUME IInv, KotlinRuns \/ LuaRuns(Running), NEW co \in Co, MayResume(co) \/ status[co] = "ERRRUN"
  PROVE  ~OnStack(native, co) /\ co # Running
<1>1. ~OnStack(native, co)
  <2> SUFFICES ASSUME OnStack(native, co)
               PROVE  FALSE
    OBVIOUS
  <2>1. native # <<>>
    <3>1. Len(<<>>) = 0
      OBVIOUS
    <3> QED  BY <3>1 DEF OnStack
  <2>2. status[Running] = "OK" /\ ci[Running] # <<>>
    BY <2>1, KotlinFacts, LuaFacts
  <2>3. co # Running
    BY <2>2 DEF MayResume
  <2>4. Busy(native, ci, status) /\ Running = At(native, Len(native)).th /\ co \in Threads
    BY Facts DEF IInv, Sound, Threads, Running
  <2>5. status[co] = "OK" /\ ci[co] # <<>>
    BY <2>3, <2>4 DEF Busy
  <2> QED  BY <2>5 DEF MayResume
<1>2. co # Running
  BY <1>1, Facts, OffStack DEF Running
<1> QED  BY <1>1, <1>2

(* What a resumed thread goes on with. *)
LEMMA BegunOk ==
  ASSUME NEW held, Sound(native, held, status, nCcalls, baseCcalls),
         NEW co \in Co, ~OnStack(native, co), held[co] = ci[co], MayResume(co), NEW f \in Starts(co)
  PROVE  /\ Begun(co, f) \in Seq(Frames)
         /\ \A i \in 1 .. Len(Begun(co, f)) - 1 : Begun(co, f)[i] \in Stays
         /\ ci[co] = <<>> => Len(Begun(co, f)) = 1 /\ Last(Begun(co, f)) \in KotlinFrames \cup {"entry"}
         /\ ci[co] # <<>> /\ Begun(co, f) # <<>> => Last(Begun(co, f)) \in Stays
<1>1. co \in Threads /\ ci[co] \in Seq(Frames) /\ Len(ci[co]) \in Nat
  <2>1. co \in Threads
    BY DEF Threads
  <2>2. held[co] \in Seq(Frames)
    BY <2>1 DEF Sound, Typed
  <2> QED  BY <2>1, <2>2, LenProperties
<1>2. CASE ci[co] = <<>>
  <2>1. f \in KotlinFrames \cup {"entry"} /\ Begun(co, f) = <<f>>
    BY <1>2 DEF Starts, Begun
  <2>2. f \in Frames
    BY <2>1 DEF Frames, LuaFrames
  <2>3. <<f>> \in Seq(Frames) /\ Len(<<f>>) = 1 /\ <<f>>[1] = f /\ 1 .. 1 - 1 = {}
    BY <2>2
  <2> QED  BY <1>2, <2>1, <2>3 DEF Last
<1>3. CASE ci[co] # <<>>
  <2>1. status[co] = "YIELD" /\ Suspended(ci[co])
    BY <1>3 DEF MayResume, Sound, Idles, Suspended
  <2>2. \A i \in 1 .. Len(ci[co]) - 1 : ci[co][i] \in Stays
    <3>1. Held(native, held, status, co)
      BY <1>1 DEF Sound
    <3>2. \A i : ~CalledFrom(native, co, i)
      BY DEF CalledFrom, OnStack
    <3> QED  BY <2>1, <3>1, <3>2 DEF Held
  <2>3. CASE Last(ci[co]) \in WithCont
    <3>1. Begun(co, f) = ci[co]
      BY <1>3, <2>3 DEF Begun
    <3>2. Last(ci[co]) \in Stays
      BY <2>1, <2>3 DEF Suspended, KotlinFrames, WithCont, Stays
    <3> QED  BY <1>1, <1>3, <2>2, <3>1, <3>2
  <2>4. CASE Last(ci[co]) \notin WithCont
    <3> DEFINE frames == Front(ci[co])
    <3>1. Begun(co, f) = frames
      BY <1>3, <2>4 DEF Begun
    <3>2. /\ frames \in Seq(Frames) /\ Len(frames) = Len(ci[co]) - 1
          /\ \A i \in 1 .. Len(ci[co]) - 1 : frames[i] = ci[co][i]
      BY <1>1, <1>3, FrontOk
    <3> HIDE DEF frames
    <3>3. \A i \in 1 .. Len(frames) : frames[i] \in Stays
      BY <1>1, <2>2, <3>2
    <3>4. frames # <<>> => Len(frames) \in 1 .. Len(frames)
      <4>1. Len(frames) \in Nat /\ (frames # <<>> => Len(frames) # 0)
        BY <3>2, LenProperties, EmptySeq
      <4> QED  BY <4>1
    <3>5. \A i \in 1 .. Len(frames) - 1 : i \in 1 .. Len(frames)
      BY <1>1, <3>2
    <3> QED  BY <1>3, <3>1, <3>2, <3>3, <3>4, <3>5 DEF Last
  <2> QED  BY <2>3, <2>4
<1> QED  BY <1>2, <1>3

LEMMA ResumeKeeps ==
  ASSUME NEW held, Sound(native, held, status, nCcalls, baseCcalls), native \in Seq(NativeFrame),
         NEW q, q = At(native, Len(native)), status[q.th] = "OK",
         ~IsKotlin(q) => Len(held[q.th]) > q.at /\ Last(held[q.th]) = "coresume",
         NEW co \in Co, ~OnStack(native, co), held[co] = ci[co],
         NEW from, CountOf(from) \in Nat, CountOf(from) = 0 \/ CountOf(from) = nCcalls[q.th],
         NEW f \in Starts(co), Resume(co, from, f, held)
  PROVE  IInv'
<1> DEFINE frames == Begun(co, f)
           count  == CountOf(from) + 1
           jump   == [kind |-> "resume", th |-> co, at |-> 0, nC |-> count, base |-> count]
           mid    == Append(native, jump)
<1>1. /\ MayResume(co) /\ CountOf(from) < MaxCCalls
      /\ ci' = [held EXCEPT ![co] = frames]
      /\ native' = IF ci[co] = <<>> THEN WithTrampoline(mid, co, frames, "start") ELSE mid
      /\ nCcalls' = [nCcalls EXCEPT ![co] = count] /\ baseCcalls' = [baseCcalls EXCEPT ![co] = count]
      /\ status' = [status EXCEPT ![co] = "OK"]
  BY DEF Resume
<1>2. /\ frames \in Seq(Frames) /\ \A i \in 1 .. Len(frames) - 1 : frames[i] \in Stays
      /\ ci[co] = <<>> => Len(frames) = 1 /\ Last(frames) \in KotlinFrames \cup {"entry"}
      /\ ci[co] # <<>> /\ frames # <<>> => Last(frames) \in Stays
  BY <1>1, BegunOk
<1>3. co \in Threads /\ count \in 1 .. HardLimit /\ count \in 0 .. HardLimit
      /\ (count = 1 \/ count = nCcalls[q.th] + 1)
  <2>1. MaxCCalls \in Nat /\ HardLimit \in Nat /\ MaxCCalls <= HardLimit /\ co \in Threads
    BY CoroutinesAssumption DEF Threads
  <2> QED  BY <1>1, <2>1
<1> HIDE DEF frames, count
<1>4. jump \in NativeFrame
  BY <1>3 DEF NativeFrame
<1>5. /\ mid \in Seq(NativeFrame) /\ Len(mid) = Len(native) + 1 /\ mid[Len(native) + 1] = jump
      /\ Len(native) + 1 # 0
  <2>1. Len(native) \in Nat
    BY LenProperties
  <2> QED  BY <1>4, <2>1, AppendProperties
<1>6. Typed(native, held, status, nCcalls, baseCcalls)
  BY DEF Sound
<1>7. /\ ci' \in [Threads -> Seq(Frames)] /\ ci'[co] = frames
      /\ status' \in [Threads -> {"OK", "YIELD", "REENTRY", "ERRRUN"}] /\ status'[co] = "OK"
      /\ nCcalls' \in [Threads -> 0 .. HardLimit] /\ nCcalls'[co] = count
      /\ baseCcalls' \in [Threads -> 0 .. HardLimit] /\ baseCcalls'[co] = count
      /\ Elsewhere(co, held, status, nCcalls, baseCcalls, ci', status', nCcalls', baseCcalls')
  <2>1. "OK" \in {"OK", "YIELD", "REENTRY", "ERRRUN"}
    OBVIOUS
  <2> QED  BY <1>1, <1>2, <1>3, <1>6, <2>1, ExceptOk DEF Typed, Elsewhere
<1>8. Typed(mid, ci', status', nCcalls', baseCcalls')
  BY <1>5, <1>7 DEF Typed
<1>9. Sound(mid, ci', status', nCcalls', baseCcalls')
  <2> DEFINE j == [kind |-> "resume", th |-> co, at |-> 0, nC |-> count, base |-> count]
  <2>1. \A i \in 1 .. Len(ci'[co]) - 1 : ci'[co][i] \in Stays
    BY <1>2, <1>7
  <2>2. /\ Sound(native, held, status, nCcalls, baseCcalls)
        /\ q = At(native, Len(native)) /\ status[q.th] = "OK"
        /\ ~IsKotlin(q) => Len(held[q.th]) > q.at /\ Last(held[q.th]) = "coresume"
        /\ ~OnStack(native, co)
    OBVIOUS
  <2> QED  BY ONLY <1>3, <1>7, <1>8, <2>1, <2>2, SoundResume
<1>10. /\ At(mid, Len(mid)) = jump /\ ~IsKotlin(jump) /\ status'[jump.th] = "OK" /\ jump.th = co /\ jump.at = 0
  BY <1>5, <1>7 DEF At, IsKotlin
<1>11. CASE ci[co] = <<>>
  <2>1. native' = WithTrampoline(mid, jump.th, ci'[jump.th], "start") /\ Len(ci'[jump.th]) > jump.at
    <3>1. jump.th = co /\ jump.at = 0 /\ ci'[co] = frames /\ Len(frames) = 1
      BY <1>2, <1>7, <1>10, <1>11
    <3>2. native' = WithTrampoline(mid, co, frames, "start")
      BY ONLY <1>1, <1>11
    <3> HIDE DEF jump, mid
    <3>3. ci'[jump.th] = frames /\ Len(ci'[jump.th]) > jump.at
      BY ONLY <3>1
    <3> QED  BY ONLY <3>1, <3>2, <3>3
  <2>2. Last(ci'[jump.th]) \notin KotlinFrames => Landed(mid, ci', status')
    BY <1>2, <1>7, <1>10, <1>11 DEF Landed, Stays, LuaFrames
  <2> HIDE DEF jump, mid
  <2>3. Sound(native', ci', status', nCcalls', baseCcalls') /\ Landed(native', ci', status')
    <3>1. "start" \in {"start", "invoke", "cont"}
      OBVIOUS
    <3> QED  BY ONLY <1>9, <1>10, <2>1, <2>2, <3>1, Trampolined
  <2> QED  BY <2>3 DEF IInv
<1>12. CASE ci[co] # <<>>
  <2>1. native' = mid
    BY <1>1, <1>12
  <2>2. Landed(mid, ci', status')
    BY <1>2, <1>7, <1>10, <1>12 DEF Landed
  <2> QED  BY <1>9, <2>1, <2>2 DEF IInv
<1> QED  BY <1>11, <1>12

LEMMA KotlinResumesKeeps ==
  ASSUME IInv, NEW th \in Threads, NEW co \in Co, NEW from \in {th, Nil}, KotlinResumes(th, co, from)
  PROVE  IInv'
<1>1. KotlinRuns /\ Running = th
  BY DEF KotlinResumes
<1>2. PICK f \in Starts(co) : Resume(co, from, f, ci)
  BY DEF KotlinResumes
<1>3. ~OnStack(native, co) /\ co # Running
  BY <1>1, <1>2, NotOnStack DEF Resume
<1>4. /\ Innermost = At(native, Len(native)) /\ Innermost.th = th /\ IsKotlin(Innermost)
      /\ status[Innermost.th] = "OK" /\ native \in Seq(NativeFrame)
      /\ Sound(native, ci, status, nCcalls, baseCcalls)
  BY <1>1, Facts, KotlinFacts DEF IInv
<1>5. CountOf(from) \in Nat /\ (CountOf(from) = 0 \/ CountOf(from) = nCcalls[Innermost.th])
  <2>1. th # Nil /\ nCcalls[th] \in 0 .. HardLimit /\ MaxCCalls \in Nat /\ HardLimit \in Nat /\ MaxCCalls <= HardLimit
    BY <1>1, Facts, CoroutinesAssumption
  <2> QED  BY <1>4, <2>1 DEF CountOf
<1> QED  BY ONLY <1>2, <1>3, <1>4, <1>5, ResumeKeeps

LEMMA LuaResumesKeeps ==
  ASSUME IInv, NEW th \in Threads, NEW co \in Co, LuaResumes(th, co)
  PROVE  IInv'
<1> DEFINE frames == Append(ci[th], "coresume")
           held   == [ci EXCEPT ![th] = frames]
<1>1. LuaRuns(th)
  BY DEF LuaResumes
<1>2. PICK f \in Starts(co) : Resume(co, th, f, held)
  BY DEF LuaResumes
<1>3. /\ th = Running /\ ~KotlinRuns /\ native # <<>> /\ Last(ci[th]) \in LuaFrames /\ status[th] = "OK"
      /\ ci[th] \in Seq(Frames) /\ Len(ci[th]) \in Nat /\ Innermost.at \in Nat
      /\ Innermost.at < Len(ci[th])
      /\ Innermost = At(native, Len(native)) /\ Innermost.th = th /\ native \in Seq(NativeFrame)
      /\ nCcalls[th] \in 0 .. HardLimit /\ MaxCCalls \in Nat /\ HardLimit \in Nat /\ MaxCCalls <= HardLimit
      /\ Typed(native, ci, status, nCcalls, baseCcalls)
  BY <1>1, Facts, LuaFacts, CoroutinesAssumption
<1>4. ~OnStack(native, co) /\ co # th
  BY <1>1, <1>2, <1>3, NotOnStack DEF Resume
<1>5. /\ frames \in Seq(Frames) /\ Len(frames) = Len(ci[th]) + 1 /\ frames[Len(ci[th]) + 1] = "coresume"
      /\ \A i \in 1 .. Len(ci[th]) : frames[i] = ci[th][i]
  <2>1. "coresume" \in Frames
    BY DEF Frames, WithCont
  <2> QED  BY <1>3, <2>1, AppendProperties
<1>6. held[th] = frames /\ held[co] = ci[co]
  BY <1>3, <1>4, <1>5 DEF Typed, Threads
<1> HIDE DEF frames
<1>7. \A i \in 1 .. Len(frames) - 1 :
         frames[i] \in Stays \/ (i \in 1 .. Len(ci[th]) - 1 /\ frames[i] = ci[th][i])
  <2> TAKE i \in 1 .. Len(frames) - 1
  <2>1. i \in 1 .. Len(ci[th]) /\ (i = Len(ci[th]) \/ i \in 1 .. Len(ci[th]) - 1)
    BY <1>3, <1>5
  <2> QED  BY <1>3, <1>5, <2>1 DEF Last, Stays
<1>8. Len(frames) >= Innermost.at /\ \A i \in 1 .. Innermost.at : frames[i] = ci[th][i]
  BY <1>3, <1>5
<1>9. Sound(native, held, status, nCcalls, baseCcalls)
  BY ONLY IInv, <1>3, <1>5, <1>7, <1>8, VmGoes
<1> HIDE DEF held
<1>10. /\ Len(held[Innermost.th]) > Innermost.at /\ Last(held[Innermost.th]) = "coresume"
       /\ status[Innermost.th] = "OK" /\ CountOf(th) \in Nat
       /\ CountOf(th) = 0 \/ CountOf(th) = nCcalls[Innermost.th]
  BY <1>3, <1>5, <1>6 DEF Last, CountOf
<1> QED  BY ONLY <1>2, <1>3, <1>4, <1>6, <1>9, <1>10, ResumeKeeps

LEMMA KotlinResumesDeadKeeps ==
  ASSUME IInv, NEW th \in Threads, NEW co \in Co, KotlinResumesDead(th, co)
  PROVE  IInv'
<1>1. /\ KotlinRuns /\ Running = th /\ MayResume(co)
      /\ status' = [status EXCEPT ![co] = "ERRRUN"] /\ ci' = ci /\ native' = native
      /\ nCcalls' = [nCcalls EXCEPT ![co] = nCcalls[th]] /\ baseCcalls' = [baseCcalls EXCEPT ![co] = nCcalls[th]]
  BY DEF KotlinResumesDead, MayResume
<1>2. ~OnStack(native, co) /\ co \in Threads
  BY <1>1, NotOnStack DEF Threads
<1>3. Typed(native, ci, status, nCcalls, baseCcalls) /\ nCcalls[th] \in 0 .. HardLimit
  BY <1>1, Facts
<1>4. /\ Typed(native, ci', status', nCcalls', baseCcalls') /\ status'[co] = "ERRRUN"
      /\ Elsewhere(co, ci, status, nCcalls, baseCcalls, ci', status', nCcalls', baseCcalls')
  <2>1. "ERRRUN" \in {"OK", "YIELD", "REENTRY", "ERRRUN"}
    OBVIOUS
  <2> QED  BY <1>1, <1>2, <1>3, <2>1, ExceptOk DEF Typed, Elsewhere
<1>5. Idles(ci', status', co) /\ Held(native, ci', status', co)
  BY <1>4 DEF Idles, Held
<1>6. Sound(native, ci', status', nCcalls', baseCcalls') /\ Landed(native, ci', status')
  BY <1>2, <1>4, <1>5, SoundIdle DEF IInv
<1> QED  BY <1>1, <1>6 DEF IInv

LEMMA LuaClosesKeeps ==
  ASSUME IInv, NEW th \in Threads, NEW co \in Co, LuaCloses(th, co)
  PROVE  IInv'
<1>1. /\ LuaRuns(th) /\ (MayResume(co) \/ status[co] = "ERRRUN")
      /\ status' = [status EXCEPT ![co] = "OK"] /\ ci' = [ci EXCEPT ![co] = <<>>] /\ native' = native
      /\ nCcalls' = [nCcalls EXCEPT ![co] = 0] /\ baseCcalls' = [baseCcalls EXCEPT ![co] = 0]
  BY DEF LuaCloses
<1>2. ~OnStack(native, co) /\ co \in Threads
  BY <1>1, LuaFacts, NotOnStack DEF Threads
<1>3. Typed(native, ci, status, nCcalls, baseCcalls) /\ 0 \in 0 .. HardLimit
  BY <1>1, Facts, CoroutinesAssumption
<1>4. /\ Typed(native, ci', status', nCcalls', baseCcalls') /\ status'[co] = "OK" /\ ci'[co] = <<>>
      /\ Elsewhere(co, ci, status, nCcalls, baseCcalls, ci', status', nCcalls', baseCcalls')
  <2>1. "OK" \in {"OK", "YIELD", "REENTRY", "ERRRUN"} /\ <<>> \in Seq(Frames)
    OBVIOUS
  <2> QED  BY <1>1, <1>2, <1>3, <2>1, ExceptOk DEF Typed, Elsewhere
<1>5. Idles(ci', status', co) /\ Held(native, ci', status', co)
  <2>1. Len(<<>>) = 0 /\ 1 .. 0 - 1 = {}
    OBVIOUS
  <2> QED  BY <1>4, <2>1 DEF Idles, Held
<1>6. Sound(native, ci', status', nCcalls', baseCcalls') /\ Landed(native, ci', status')
  BY <1>2, <1>4, <1>5, SoundIdle DEF IInv
<1> QED  BY <1>1, <1>6 DEF IInv
-----------------------------------------------------------------------------
(* Every step keeps the invariant. *)
LEMMA InitOk ==
  ASSUME Init
  PROVE  IInv
<1>1. /\ status = [th \in Threads |-> "OK"] /\ ci = [th \in Threads |-> <<>>] /\ native = <<>>
      /\ nCcalls = [th \in Threads |-> 0] /\ baseCcalls = [th \in Threads |-> 0]
      /\ Main \in Threads /\ MaxCCalls \in Nat /\ HardLimit \in Nat /\ MaxCCalls <= HardLimit /\ 0 \in 0 .. HardLimit
  BY CoroutinesAssumption DEF Init, Threads
<1>2. Len(native) = 0 /\ 1 .. Len(native) = {} /\ 0 .. Len(native) = {0} /\ native \in Seq(NativeFrame)
  BY <1>1
<1>3. At(native, 0) = Program /\ Program.th = Main /\ Program.at = 0 /\ Program.kind = "program"
  BY DEF At, Program
<1>4. Typed(native, ci, status, nCcalls, baseCcalls)
  BY <1>1, <1>2 DEF Typed
<1>5. Stacked(native, ci) /\ Inside(native, ci)
  <2>1. Len(ci[Main]) = 0
    BY <1>1
  <2> QED  BY <1>2, <1>3, <2>1 DEF Stacked, Together, Inside
<1>6. Exact(native, ci, nCcalls, baseCcalls)
  BY <1>1, <1>2, <1>3 DEF Exact, Count, Basis
<1>7. Runs(native, ci, status)
  BY <1>1, <1>2, <1>3 DEF Runs
<1>8. \A th \in Threads : Held(native, ci, status, th)
  BY <1>1 DEF Held
<1>9. Busy(native, ci, status) /\ \A co \in Co : ~OnStack(native, co) => Idles(ci, status, co)
  <2>1. \A co \in Co : co \in Threads
    BY DEF Threads
  <2> QED  BY <1>1, <1>2, <2>1 DEF Busy, OnStack, Idles
<1>10. Landed(native, ci, status)
  BY <1>2, <1>3 DEF Landed
<1> QED  BY <1>2, <1>4, <1>5, <1>6, <1>7, <1>8, <1>9, <1>10 DEF IInv, Sound

LEMMA NextKeeps ==
  ASSUME IInv, Faults = {}, [Next]_vars
  PROVE  IInv'
<1>1. CASE UNCHANGED vars
  <2>1. status' = status /\ ci' = ci /\ nCcalls' = nCcalls /\ baseCcalls' = baseCcalls /\ native' = native
    BY <1>1 DEF vars
  <2> QED  BY <2>1 DEF IInv
<1>2. CASE Next
  <2>1. PICK th \in Threads :
          \/ \E f \in KotlinFrames \cup {"entry"} : KotlinCalls(th, f) \/ LuaPcalls(th, f)
          \/ \E f \in KotlinFrames \cup {"lua"} : LuaCalls(th, f)
          \/ \E co \in Co : \/ \E from \in {th, Nil} : KotlinResumes(th, co, from)
                           \/ KotlinResumesDead(th, co)
                           \/ LuaResumes(th, co) \/ LuaCloses(th, co)
          \/ LuaReturns(th) \/ LuaYields(th) \/ Raise(th)
          \/ CallbackEnds(th) \/ KotlinYields(th)
          \/ CallReturns(th) \/ PcallReturns(th) \/ ResumeReturns(th)
          \/ Reenter(th) \/ Continue(th)
    BY <1>2 DEF Next
  <2>2. CASE \E f \in KotlinFrames \cup {"entry"} : KotlinCalls(th, f) \/ LuaPcalls(th, f)
    BY <2>2, KotlinCallsKeeps, LuaPcallsKeeps
  <2>3. CASE \E f \in KotlinFrames \cup {"lua"} : LuaCalls(th, f)
    BY <2>3, LuaCallsKeeps
  <2>4. CASE \E co \in Co : \E from \in {th, Nil} : KotlinResumes(th, co, from)
    BY <2>4, KotlinResumesKeeps
  <2>5. CASE \E co \in Co : KotlinResumesDead(th, co)
    BY <2>5, KotlinResumesDeadKeeps
  <2>6. CASE \E co \in Co : LuaResumes(th, co)
    BY <2>6, LuaResumesKeeps
  <2>7. CASE \E co \in Co : LuaCloses(th, co)
    BY <2>7, LuaClosesKeeps
  <2>8. CASE LuaReturns(th)
    BY <2>8, LuaReturnsKeeps
  <2>9. CASE LuaYields(th)
    BY <2>9, LuaYieldsKeeps
  <2>10. CASE Raise(th)
    BY <2>10, RaiseKeeps
  <2>11. CASE CallbackEnds(th)
    BY <2>11, CallbackEndsKeeps
  <2>12. CASE KotlinYields(th)
    BY <2>12, KotlinYieldsKeeps
  <2>13. CASE CallReturns(th)
    BY <2>13, CallReturnsKeeps
  <2>14. CASE PcallReturns(th)
    BY <2>14, PcallReturnsKeeps
  <2>15. CASE ResumeReturns(th)
    BY <2>15, ResumeReturnsKeeps
  <2>16. CASE Reenter(th)
    BY <2>16, ReenterKeeps
  <2>17. CASE Continue(th)
    BY <2>17, ContinueKeeps
  <2> QED  BY <2>1, <2>2, <2>3, <2>4, <2>5, <2>6, <2>7, <2>8, <2>9, <2>10,
              <2>11, <2>12, <2>13, <2>14, <2>15, <2>16, <2>17
<1> QED  BY <1>1, <1>2

LEMMA InvariantHolds ==
  ASSUME Faults = {}
  PROVE  Spec => []IInv
<1>1. IInv /\ [Next]_vars => IInv'
  BY NextKeeps
<1>2. Init => IInv
  BY InitOk
<1> QED  BY <1>1, <1>2, PTL DEF Spec
-----------------------------------------------------------------------------
(* The values have their types: in particular the counts of C calls, which *)
(* are unsigned shorts, never pass LUAI_MAXCCALLS or fall below zero, as   *)
(* lua_resume, luaD_callint and luaD_pcall raise and restore them.         *)
THEOREM TypesKept ==
  ASSUME Faults = {}
  PROVE  Spec => []TypeOK
<1>1. IInv => TypeOK
  BY DEF IInv, Sound, Typed, TypeOK
<1> QED  BY <1>1, InvariantHolds, PTL

(* While Kotlin code runs, the last frame of its thread is its own, and every *)
(* Kotlin function that executes still has its frame, through all calls,      *)
(* yields and errors of what it called or resumed.                            *)
THEOREM FrameKept ==
  ASSUME Faults = {}
  PROVE  Spec => []KotlinOwnsFrame
<1>1. ASSUME IInv
      PROVE  KotlinOwnsFrame
  <2>1. /\ native \in Seq(NativeFrame) /\ Len(native) \in Nat /\ DOMAIN native = 1 .. Len(native)
        /\ Typed(native, ci, status, nCcalls, baseCcalls)
        /\ Stacked(native, ci) /\ Inside(native, ci)
    BY <1>1, Facts, LenProperties DEF IInv, Sound
  <2>2. ASSUME NEW th \in Threads, NEW i \in Executing(th)
        PROVE  i \in DOMAIN ci[th] /\ ci[th][i] \in KotlinFrames
    <3>1. PICK k \in 1 .. Len(native) : native[k].th = th /\ native[k].kind = "callback" /\ native[k].at = i
      BY <2>1, <2>2 DEF Executing, Above
    <3>2. ci[th][i] \in KotlinFrames
      BY <2>1, <3>1 DEF Stacked, Linked
    <3>3. native[k].at \in Nat \ {0}
      <4>1. native[k] \in NativeFrame
        BY <2>1, <3>1, ElementOfSeq
      <4> QED  BY <3>1, <4>1 DEF NativeFrame
    <3>4. i <= Len(ci[th])
      <4>1. k \in 0 .. Len(native) /\ At(native, k) = native[k]
        BY <2>1, <3>1 DEF At
      <4> QED  BY <2>1, <3>1, <4>1 DEF Inside
    <3>5. DOMAIN ci[th] = 1 .. Len(ci[th]) /\ Len(ci[th]) \in Nat
      BY <2>1, LenProperties DEF Typed
    <3> QED  BY <3>1, <3>2, <3>3, <3>4, <3>5
  <2>3. KotlinRuns => Len(ci[Running]) = Innermost.at
    BY <1>1, KotlinFacts
  <2> QED  BY <2>2, <2>3 DEF KotlinOwnsFrame
<1> QED  BY <1>1, InvariantHolds, PTL

(* What resume_continue asserts: a C frame that is left without a C activation *)
(* has a continuation, but for the one that yielded.                           *)
THEOREM ContinuationKept ==
  ASSUME Faults = {}
  PROVE  Spec => []ContinuationThere
<1>1. ASSUME IInv
      PROVE  ContinuationThere
  <2>1. ASSUME NEW th \in Threads, InCFrame(th)
        PROVE  Top(th) \in WithCont
    <3>1. /\ th = Running /\ Innermost.kind = "resume" /\ status[th] = "OK" /\ ~KotlinRuns
          /\ Top(th) \notin LuaFrames /\ Top(th) # "none"
      BY <2>1 DEF InCFrame, VmRuns
    <3>2. ci[th] # <<>> /\ Top(th) = Last(ci[th])
      BY <3>1 DEF Top
    <3>3. Innermost = At(native, Len(native)) /\ Innermost.th = th
      BY <1>1, <3>1, Facts DEF Running
    <3>4. Last(ci[th]) \in Stays
      BY <1>1, <3>1, <3>2, <3>3 DEF IInv, Landed
    <3> QED  BY <3>1, <3>2, <3>4 DEF Stays, WithCont
  <2>2. ASSUME NEW co \in Co, status[co] = "YIELD", Above(co) = {}, NEW i \in 1 .. Len(ci[co]) - 1
        PROVE  ci[co][i] \in LuaFrames \cup {"yieldable", "pcall"}
    <3>1. ~CalledFrom(native, co, i)
      <4>1. DOMAIN native = 1 .. Len(native)
        BY <1>1, Facts, LenProperties
      <4> QED  BY <2>2, <4>1 DEF Above, CalledFrom
    <3>2. Held(native, ci, status, co)
      BY <1>1 DEF IInv, Sound, Threads
    <3> QED  BY <2>2, <3>1, <3>2 DEF Held, Stays
  <2> QED  BY <2>1, <2>2 DEF ContinuationThere
<1> QED  BY <1>1, InvariantHolds, PTL

(* nCcalls counts exactly the guards of the C stack from the last lua_resume *)
(* that began counting anew.                                                 *)
THEOREM CountsKept ==
  ASSUME Faults = {}
  PROVE  Spec => []CallsCounted
<1>1. ASSUME IInv
      PROVE  CallsCounted
  <2>1. native \in Seq(NativeFrame) /\ DOMAIN native = 1 .. Len(native) /\ Len(native) \in 0 .. Len(native)
        /\ Stacked(native, ci) /\ nCcalls[Running] = Count(native, Len(native))
    BY <1>1, Facts, LenProperties DEF IInv, Sound
  <2>2. Counted = CountedAt(native, Len(native))
    BY <2>1 DEF Counted, CountedAt
  <2>3. Count(native, Len(native)) = Cardinality(CountedAt(native, Len(native)))
    BY <2>1, CountsAt
  <2> QED  BY <2>1, <2>2, <2>3 DEF CallsCounted
<1> QED  BY <1>1, InvariantHolds, PTL

(* lua_isyieldable, a comparison of two numbers, is true exactly where a yield *)
(* can unwind the C stack to a lua_resume.                                     *)
THEOREM YieldableKept ==
  ASSUME Faults = {}
  PROVE  Spec => []YieldableIfUnwindable
<1>1. ASSUME IInv
      PROVE  YieldableIfUnwindable
  <2> SUFFICES ASSUME native # <<>>
               PROVE  lua_isyieldable(Running) <=> 
                        \E r \in DOMAIN native :
                           /\ native[r].kind = "resume"
                           /\ \A k \in r + 1 .. Len(native) :
                                 native[k].kind = "pcall" \/ (native[k].kind = "callback" /\ k = Len(native))
    BY DEF YieldableIfUnwindable
  <2>1. DOMAIN native = 1 .. Len(native)
    BY <1>1, Facts, LenProperties
  <2>2. nCcalls[Running] <= baseCcalls[Running] <=> Unwindable(native, Len(native))
    BY <1>1, TopFacts
  <2> QED  BY <2>1, <2>2 DEF lua_isyieldable, Unwindable
<1> QED  BY <1>1, InvariantHolds, PTL

(* lua_status tells of every thread that is not on the C stack whether it is *)
(* finished or new, suspended with frames to go on from, or failed.          *)
THEOREM StatusKept ==
  ASSUME Faults = {}
  PROVE  Spec => []StatusTells
<1>1. ASSUME IInv
      PROVE  StatusTells
  <2> SUFFICES ASSUME NEW co \in Co, Above(co) = {}
               PROVE  \/ status[co] = "OK" /\ ci[co] = <<>>
                      \/ status[co] = "YIELD" /\ ci[co] # <<>>
                      \/ status[co] = "ERRRUN"
    BY DEF StatusTells
  <2>1. DOMAIN native = 1 .. Len(native)
    BY <1>1, Facts, LenProperties
  <2>2. ~OnStack(native, co)
    BY <2>1 DEF Above, OnStack
  <2> QED  BY <1>1, <2>2 DEF IInv, Sound, Idles, Suspended
<1> QED  BY <1>1, InvariantHolds, PTL

-----------------------------------------------------------------------------
(* Where errors go. *)

(* Above the frame of Kotlin code that calls, each pcall has its C activation. *)
Bared(nat, c) ==
  \A k \in 1 .. Len(nat) : nat[k].kind = "call" =>
    \A i \in nat[k].at + 1 .. Len(c[nat[k].th]) : c[nat[k].th][i] = "pcall" =>
      \E j \in k + 1 .. Len(nat) : nat[j].kind = "pcall" /\ nat[j].th = nat[k].th /\ nat[j].at = i

(* Where a yield can unwind, pcall keeps its C activation only while the C     *)
(* function runs that it called.                                               *)
Short(nat) ==
  \A k \in 1 .. Len(nat) - 1 : nat[k].kind = "pcall" /\ Unwindable(nat, k) =>
    nat[k + 1].kind = "callback" /\ nat[k + 1].at = nat[k].at + 1
Done(nat, c, st) ==
  LET q == At(nat, Len(nat))
  IN  q.kind = "pcall" /\ Unwindable(nat, Len(nat)) /\ st[q.th] = "OK" => Len(c[q.th]) = q.at

Caught(nat, c, st) == Bared(nat, c) /\ Short(nat) /\ Done(nat, c, st)
-----------------------------------------------------------------------------
(* Above a call that is new there is no pcall; above one that was there, each *)
(* is new and has its C activation, or is old and loses none.                 *)
NewBared(new, m, d) ==
  \A k \in m + 1 .. Len(new) : new[k].kind = "call" =>
    \A i \in new[k].at + 1 .. Len(d[new[k].th]) : d[new[k].th][i] # "pcall"
OldBared(new, nat, m, c, d) ==
  \A k \in 1 .. m : nat[k].kind = "call" =>
    \A i \in nat[k].at + 1 .. Len(d[nat[k].th]) : d[nat[k].th][i] = "pcall" =>
      \/ /\ i \in nat[k].at + 1 .. Len(c[nat[k].th]) /\ c[nat[k].th][i] = "pcall"
         /\ \A j \in m + 1 .. Len(nat) :
              ~(nat[j].kind = "pcall" /\ nat[j].th = nat[k].th /\ nat[j].at = i)
      \/ \E j \in m + 1 .. Len(new) : new[j].kind = "pcall" /\ new[j].th = nat[k].th /\ new[j].at = i

LEMMA BaredKept ==
  ASSUME NEW new, NEW nat, NEW m, Begins(new, nat, m), NEW c, NEW d, Bared(nat, c),
         NewBared(new, m, d), OldBared(new, nat, m, c, d)
  PROVE  Bared(new, d)
<1> SUFFICES ASSUME NEW k \in 1 .. Len(new), new[k].kind = "call",
                    NEW i \in new[k].at + 1 .. Len(d[new[k].th]), d[new[k].th][i] = "pcall"
             PROVE  \E j \in k + 1 .. Len(new) :
                       new[j].kind = "pcall" /\ new[j].th = new[k].th /\ new[j].at = i
  BY DEF Bared
<1>1. /\ Len(new) \in Nat /\ Len(nat) \in Nat /\ m \in Nat /\ m <= Len(new) /\ m <= Len(nat)
      /\ \A j \in 1 .. m : new[j] = nat[j]
  BY LenProperties DEF Begins
<1>2. k \in 1 .. m
  <2>1. k \in 1 .. m \/ k \in m + 1 .. Len(new)
    BY <1>1
  <2> QED  BY <2>1 DEF NewBared
<1>3. new[k] = nat[k] /\ k \in 1 .. Len(nat)
  BY <1>1, <1>2
<1>4. CASE \E j \in m + 1 .. Len(new) : new[j].kind = "pcall" /\ new[j].th = nat[k].th /\ new[j].at = i
  <2>1. \A j \in m + 1 .. Len(new) : j \in k + 1 .. Len(new)
    BY <1>1, <1>2
  <2> QED  BY <1>3, <1>4, <2>1
<1>5. CASE ~\E j \in m + 1 .. Len(new) : new[j].kind = "pcall" /\ new[j].th = nat[k].th /\ new[j].at = i
  <2>1. /\ i \in nat[k].at + 1 .. Len(c[nat[k].th]) /\ c[nat[k].th][i] = "pcall"
        /\ \A j \in m + 1 .. Len(nat) : ~(nat[j].kind = "pcall" /\ nat[j].th = nat[k].th /\ nat[j].at = i)
    BY <1>2, <1>3, <1>5 DEF OldBared
  <2>2. PICK j \in k + 1 .. Len(nat) : nat[j].kind = "pcall" /\ nat[j].th = nat[k].th /\ nat[j].at = i
    BY <1>3, <2>1 DEF Bared
  <2>3. j \notin m + 1 .. Len(nat)
    BY <2>1, <2>2
  <2>4. j \in 1 .. m /\ j \in k + 1 .. Len(new)
    BY <1>1, <1>2, <2>2, <2>3
  <2> QED  BY <1>1, <1>3, <2>2, <2>4
<1> QED  BY <1>4, <1>5

LEMMA ShortKept ==
  ASSUME NEW new, NEW nat, NEW m, Begins(new, nat, m), Short(nat),
         \A k \in 1 .. Len(new) - 1 : k >= m /\ new[k].kind = "pcall" /\ Unwindable(new, k) =>
           new[k + 1].kind = "callback" /\ new[k + 1].at = new[k].at + 1
  PROVE  Short(new)
<1> SUFFICES ASSUME NEW k \in 1 .. Len(new) - 1, new[k].kind = "pcall", Unwindable(new, k)
             PROVE  new[k + 1].kind = "callback" /\ new[k + 1].at = new[k].at + 1
  BY DEF Short
<1>1. /\ Len(new) \in Nat /\ Len(nat) \in Nat /\ m \in Nat /\ m <= Len(new) /\ m <= Len(nat)
      /\ \A j \in 1 .. m : new[j] = nat[j]
  BY LenProperties DEF Begins
<1>2. CASE k >= m
  BY <1>2
<1>3. CASE ~(k >= m)
  <2>1. k \in 1 .. m /\ k + 1 \in 1 .. m /\ k \in 0 .. m /\ k \in 1 .. Len(nat) - 1
    BY <1>1, <1>3
  <2>2. new[k] = nat[k] /\ new[k + 1] = nat[k + 1] /\ (Unwindable(new, k) <=> Unwindable(nat, k))
    BY <1>1, <2>1, AlikeCounted
  <2> QED  BY <2>1, <2>2 DEF Short
<1> QED  BY <1>2, <1>3

(* Where a yield can unwind, no Kotlin code of the thread is calling. *)
LEMMA NoCalls ==
  ASSUME NEW nat \in Seq(NativeFrame), NEW c, Stacked(nat, c), Unwindable(nat, Len(nat))
  PROVE  \A k \in 1 .. Len(nat) : nat[k].kind = "call" => nat[k].th # At(nat, Len(nat)).th
<1> SUFFICES ASSUME NEW k \in 1 .. Len(nat), nat[k].kind = "call"
             PROVE  nat[k].th # At(nat, Len(nat)).th
  OBVIOUS
<1>1. PICK r \in 1 .. Len(nat) :
         /\ nat[r].kind = "resume"
         /\ \A j \in r + 1 .. Len(nat) : nat[j].kind = "pcall" \/ (nat[j].kind = "callback" /\ j = Len(nat))
  BY DEF Unwindable
<1>2. k \notin r + 1 .. Len(nat) /\ k # r
  BY <1>1
<1>3. k \in 0 .. r - 1 /\ k # 0
  <2>1. Len(nat) \in Nat
    BY LenProperties
  <2> QED  BY <1>2, <2>1
<1>4. At(nat, k).th # At(nat, Len(nat)).th
  <2>1. nat \in Seq(NativeFrame) /\ Stacked(nat, c) /\ r \in 1 .. Len(nat) /\ k \in 0 .. r - 1
    BY <1>3
  <2> QED  BY ONLY <1>1, <2>1, ThreadsApart
<1> QED  BY <1>3, <1>4 DEF At

(* While Lua code runs, no C activation of pcall is left that could be given up. *)
LEMMA LuaNotShort ==
  ASSUME IInv, Done(native, ci, status), NEW th, LuaRuns(th)
  PROVE  ~(At(native, Len(native)).kind = "pcall" /\ Unwindable(native, Len(native)))
<1>1. /\ th = Running /\ status[th] = "OK" /\ Len(ci[th]) > Innermost.at /\ Innermost = At(native, Len(native))
      /\ Innermost.th = th /\ Len(ci[th]) \in Nat /\ Innermost.at \in Nat
  BY Facts, LuaFacts DEF Running
<1> QED  BY <1>1 DEF Done

(* A trampoline is pushed, or not. *)
LEMMA TrampolineCaught ==
  ASSUME NEW nat \in Seq(NativeFrame), NEW c, NEW st, Bared(nat, c), Short(nat),
         NEW q, q = At(nat, Len(nat)), NEW entry, NEW new, new = WithTrampoline(nat, q.th, c[q.th], entry),
         new \in Seq(NativeFrame),
         q.kind = "pcall" /\ Unwindable(nat, Len(nat)) => Len(c[q.th]) = q.at + 1 /\ Last(c[q.th]) \in KotlinFrames
  PROVE  Caught(new, c, st)
<1>1. CASE Last(c[q.th]) \in KotlinFrames
  <2> DEFINE f == [kind |-> "callback", th |-> q.th, at |-> Len(c[q.th]), entry |-> entry]
             n == Len(nat)
  <2>1. new = Append(nat, f)
    BY <1>1 DEF WithTrampoline
  <2>2. /\ n \in Nat /\ Len(new) = n + 1 /\ new[n + 1] = f /\ \A k \in 1 .. n : new[k] = nat[k]
    BY <2>1, LenProperties, AppendProperties
  <2>3. f.kind = "callback" /\ f.at = Len(c[q.th])
    OBVIOUS
  <2> HIDE DEF f, n
  <2>4. Begins(new, nat, n) /\ n \in 0 .. n /\ \A k \in n + 1 .. Len(new) : k = n + 1
    BY <2>2 DEF Begins, n
  <2>5. Bared(new, c)
    <3>1. n + 1 .. Len(nat) = {}
      BY <2>2 DEF n
    <3>2. NewBared(new, n, c)
      BY ONLY <2>2, <2>3, <2>4 DEF NewBared
    <3>3. OldBared(new, nat, n, c, c)
      BY ONLY <3>1 DEF OldBared
    <3>4. Bared(nat, c)
      OBVIOUS
    <3> QED  BY <2>4, <3>2, <3>3, <3>4, BaredKept
  <2>6. Short(new)
    <3>1. \A k \in 1 .. Len(new) - 1 : k >= n => k = n
      BY <2>2
    <3>2. (Unwindable(new, n) <=> Unwindable(nat, n)) /\ n \in Nat
      BY <2>2, <2>4, AlikeCounted
    <3>3. ASSUME NEW k \in 1 .. Len(new) - 1, k >= n, new[k].kind = "pcall", Unwindable(new, k)
          PROVE  new[k + 1].kind = "callback" /\ new[k + 1].at = new[k].at + 1
      <4>1. k = n /\ n \in 1 .. n /\ n # 0
        BY <3>1, <3>2, <3>3
      <4>2. q = nat[n] /\ new[k] = nat[n]
        BY <2>2, <4>1 DEF At, n
      <4> QED  BY <2>2, <2>3, <3>2, <3>3, <4>1, <4>2 DEF n
    <3> QED  BY <2>4, <3>3, ShortKept
  <2>7. Done(new, c, st)
    <3>1. n + 1 # 0
      BY <2>2
    <3> QED  BY <2>2, <2>3, <3>1 DEF Done, At
  <2> QED  BY <2>5, <2>6, <2>7 DEF Caught
<1>2. CASE Last(c[q.th]) \notin KotlinFrames
  BY <1>2 DEF WithTrampoline, Caught, Done
<1> QED  BY <1>1, <1>2

(* The C stack stays, and no pcall appears above a call. *)
Kept(nat, c, d) ==
  \A k \in 1 .. Len(nat) : nat[k].kind = "call" =>
    \A i \in nat[k].at + 1 .. Len(d[nat[k].th]) : d[nat[k].th][i] = "pcall" =>
      i \in nat[k].at + 1 .. Len(c[nat[k].th]) /\ c[nat[k].th][i] = "pcall"

LEMMA StaysCaught ==
  ASSUME NEW nat \in Seq(NativeFrame), NEW c, NEW st, Bared(nat, c), Short(nat), NEW d, NEW su,
         ~(At(nat, Len(nat)).kind = "pcall" /\ Unwindable(nat, Len(nat))), Kept(nat, c, d)
  PROVE  Bared(nat, d) /\ Caught(nat, d, su)
<1>1. Bared(nat, d)
  BY DEF Bared, Kept
<1> QED  BY <1>1 DEF Caught, Done

LEMMA GrowKept ==
  ASSUME NEW nat \in Seq(NativeFrame), NEW c \in [Threads -> Seq(Frames)], NEW th \in Threads,
         NEW frames \in Seq(Frames), Len(frames) = Len(c[th]) + 1, frames[Len(c[th]) + 1] # "pcall",
         \A i \in 1 .. Len(c[th]) : frames[i] = c[th][i],
         NEW d, d = [c EXCEPT ![th] = frames]
  PROVE  Kept(nat, c, d)
<1> SUFFICES ASSUME NEW k \in 1 .. Len(nat), nat[k].kind = "call",
                    NEW i \in nat[k].at + 1 .. Len(d[nat[k].th]), d[nat[k].th][i] = "pcall"
             PROVE  i \in nat[k].at + 1 .. Len(c[nat[k].th]) /\ c[nat[k].th][i] = "pcall"
  BY DEF Kept
<1>1. nat[k].th \in Threads /\ nat[k].at \in Nat
  BY ElementOfSeq, FrameTypes
<1>2. d[th] = frames /\ \A u \in Threads : u # th => d[u] = c[u]
  OBVIOUS
<1>3. CASE nat[k].th = th
  <2>1. i \in nat[k].at + 1 .. Len(frames) /\ frames[i] = "pcall" /\ Len(c[th]) \in Nat
    BY <1>2, <1>3, LenProperties
  <2>2. i # Len(c[th]) + 1
    BY <2>1
  <2>3. i \in nat[k].at + 1 .. Len(c[th]) /\ i \in 1 .. Len(c[th])
    BY <1>1, <2>1, <2>2
  <2> QED  BY <1>3, <2>1, <2>3
<1>4. CASE nat[k].th # th
  BY <1>1, <1>2, <1>4
<1> QED  BY <1>3, <1>4

(* What is left of the frames. *)
Begin(c, d) == \A u \in Threads : Len(d[u]) <= Len(c[u]) /\ \A i \in 1 .. Len(d[u]) : d[u][i] = c[u][i]

IsCut(c, th, n, d) == d = [c EXCEPT ![th] = SubSeq(c[th], 1, n)]

LEMMA Shorter ==
  ASSUME NEW c \in [Threads -> Seq(Frames)], NEW th \in Threads, NEW n \in Nat, n <= Len(c[th]),
         NEW d, IsCut(c, th, n, d)
  PROVE  d \in [Threads -> Seq(Frames)] /\ Len(d[th]) = n /\ Begin(c, d)
<1>1. /\ SubSeq(c[th], 1, n) \in Seq(Frames) /\ Len(SubSeq(c[th], 1, n)) = n
      /\ \A i \in 1 .. n : SubSeq(c[th], 1, n)[i] = c[th][i]
  BY CutOk
<1>2. /\ d \in [Threads -> Seq(Frames)] /\ d[th] = SubSeq(c[th], 1, n)
      /\ \A u \in Threads : u # th => d[u] = c[u]
  BY <1>1, ExceptOk DEF IsCut
<1>3. Len(d[th]) = n /\ \A i \in 1 .. n : d[th][i] = c[th][i]
  BY <1>1, <1>2
<1>4. \A u \in Threads : Len(c[u]) \in Nat
  BY LenProperties
<1>5. Begin(c, d)
  <2> SUFFICES ASSUME NEW u \in Threads
               PROVE  Len(d[u]) <= Len(c[u]) /\ \A i \in 1 .. Len(d[u]) : d[u][i] = c[u][i]
    BY DEF Begin
  <2>1. CASE u = th
    BY <1>3, <2>1
  <2>2. CASE u # th
    BY <1>2, <1>4, <2>2
  <2> QED  BY <2>1, <2>2
<1> QED  BY <1>2, <1>3, <1>5

(* The innermost activation ends. *)
LEMMA PopsCaught ==
  ASSUME NEW nat \in Seq(NativeFrame), nat # <<>>, NEW n, n = Len(nat),
         NEW c \in [Threads -> Seq(Frames)], NEW d, Begin(c, d),
         NEW st, NEW su, Stacked(nat, c), Caught(nat, c, st),
         nat[n].kind = "pcall" => Len(d[nat[n].th]) < nat[n].at \/ Unwindable(nat, n),
         nat[n].kind = "callback" /\ su[nat[n].th] = "OK" => Len(d[nat[n].th]) = nat[n].at - 1
  PROVE  Caught(Front(nat), d, su)
<1> DEFINE m == n - 1
<1>1. n \in Nat \ {0} /\ n \in 1 .. n /\ m \in Nat /\ m + 1 = n
  BY LenProperties, EmptySeq
<1> HIDE DEF m
<1>2. Front(nat) \in Seq(NativeFrame) /\ Len(Front(nat)) = m /\ Begins(Front(nat), nat, m)
  BY <1>1, FrontOk, BeginsFront DEF m
<1>3. nat[n] \in NativeFrame /\ \A k \in 1 .. n : nat[k] \in NativeFrame
  BY <1>1, ElementOfSeq
<1>4. Bared(Front(nat), d)
  <2>1. ASSUME NEW k \in 1 .. m, nat[k].kind = "call",
               NEW i \in nat[k].at + 1 .. Len(d[nat[k].th]), d[nat[k].th][i] = "pcall"
        PROVE  /\ i \in nat[k].at + 1 .. Len(c[nat[k].th]) /\ c[nat[k].th][i] = "pcall"
               /\ \A j \in m + 1 .. Len(nat) :
                     ~(nat[j].kind = "pcall" /\ nat[j].th = nat[k].th /\ nat[j].at = i)
    <3>1. nat[k].th \in Threads /\ nat[k].at \in Nat /\ k \in 1 .. n
      BY <1>1, <1>3, FrameTypes
    <3>2. i \in 1 .. Len(d[nat[k].th]) /\ i \in Nat /\ i <= Len(d[nat[k].th]) /\ i >= nat[k].at + 1
      BY <3>1
    <3>3. Len(d[nat[k].th]) <= Len(c[nat[k].th]) /\ c[nat[k].th][i] = "pcall"
      BY <2>1, <3>1, <3>2 DEF Begin
    <3>4. i \in nat[k].at + 1 .. Len(c[nat[k].th])
      <4>1. Len(c[nat[k].th]) \in Nat
        BY <3>1, LenProperties
      <4>2. i \in nat[k].at + 1 .. Len(d[nat[k].th])
        OBVIOUS
      <4> QED  BY <3>1, <3>2, <3>3, <4>1, <4>2
    <3>5. ~(nat[n].kind = "pcall" /\ nat[n].th = nat[k].th /\ nat[n].at = i)
      <4> SUFFICES ASSUME nat[n].kind = "pcall", nat[n].th = nat[k].th, nat[n].at = i
                   PROVE  FALSE
        OBVIOUS
      <4>1. ~(Len(d[nat[n].th]) < nat[n].at)
        <5>1. i <= Len(d[nat[k].th]) /\ i \in Nat
          BY <3>2
        <5>2. i \in nat[k].at + 1 .. Len(d[nat[k].th])
          OBVIOUS
        <5> QED  BY <3>1, <5>1, <5>2
      <4>2. At(nat, n) = nat[n]
        BY <1>1 DEF At
      <4> QED  BY <2>1, <3>1, <4>1, <4>2, NoCalls
    <3>6. \A j \in m + 1 .. n : j = n
      BY <1>1
    <3> QED  BY <3>3, <3>4, <3>5, <3>6
  <2>2. m + 1 .. Len(Front(nat)) = {}
    BY <1>1, <1>2
  <2>3. OldBared(Front(nat), nat, m, c, d)
    BY ONLY <2>1 DEF OldBared
  <2>4. NewBared(Front(nat), m, d)
    BY ONLY <2>2 DEF NewBared
  <2>5. Bared(nat, c) /\ Begins(Front(nat), nat, m)
    BY <1>2 DEF Caught
  <2> QED  BY ONLY <2>3, <2>4, <2>5, BaredKept
<1>5. Short(Front(nat))
  <2>1. \A k \in 1 .. Len(Front(nat)) - 1 : ~(k >= m)
    BY <1>1, <1>2
  <2> QED  BY <1>2, <2>1, ShortKept DEF Caught
<1>6. Done(Front(nat), d, su)
  <2> DEFINE q == At(nat, m)
  <2>1. At(Front(nat), m) = q /\ (Unwindable(Front(nat), m) <=> Unwindable(nat, m))
    BY <1>1, <1>2, AlikeAt, AlikeCounted
  <2> SUFFICES ASSUME q.kind = "pcall", Unwindable(nat, m), su[q.th] = "OK"
               PROVE  Len(d[q.th]) = q.at
    BY <1>2, <2>1 DEF Done
  <2>2. m # 0 /\ q = nat[m]
    BY DEF At, Program
  <2>3. m \in 1 .. n - 1
    BY <1>1, <2>2
  <2>4. nat[n].kind = "callback" /\ nat[n].at = q.at + 1
    <3>1. nat[m + 1].kind = "callback" /\ nat[m + 1].at = nat[m].at + 1
      BY <2>2, <2>3 DEF Caught, Short
    <3> QED  BY <1>1, <2>2, <3>1
  <2>5. nat[n].th = q.th
    <3>1. Linked(nat, c, n) /\ n - 1 = m
      BY <1>1 DEF Stacked, m
    <3> QED  BY <2>4, <3>1 DEF Linked
  <2>6. q.at \in Nat
    BY <1>1, <1>3, <2>2, <2>3, FrameTypes
  <2> QED  BY <2>4, <2>5, <2>6
<1> QED  BY <1>4, <1>5, <1>6 DEF Caught

(* A call, a pcall or a resume begins, and frames with it. *)
KeptBut(nat, c, d, f) ==
  \A k \in 1 .. Len(nat) : nat[k].kind = "call" =>
    \A i \in nat[k].at + 1 .. Len(d[nat[k].th]) : d[nat[k].th][i] = "pcall" =>
      \/ i \in nat[k].at + 1 .. Len(c[nat[k].th]) /\ c[nat[k].th][i] = "pcall"
      \/ f.kind = "pcall" /\ f.th = nat[k].th /\ f.at = i

LEMMA GuardCaught ==
  ASSUME NEW nat \in Seq(NativeFrame), NEW f \in NativeFrame, Short(nat),
         ~(At(nat, Len(nat)).kind = "pcall" /\ Unwindable(nat, Len(nat))),
         NEW c, Bared(nat, c), NEW d,
         f.kind = "call" => \A i \in f.at + 1 .. Len(d[f.th]) : d[f.th][i] # "pcall",
         KeptBut(nat, c, d, f)
  PROVE  Bared(Append(nat, f), d) /\ Short(Append(nat, f))
<1> DEFINE n   == Len(nat)
           new == Append(nat, f)
<1>1. /\ n \in Nat /\ new \in Seq(NativeFrame) /\ Len(new) = n + 1 /\ new[n + 1] = f
      /\ Begins(new, nat, n) /\ \A k \in 1 .. n : new[k] = nat[k]
  BY LenProperties, AppendProperties, BeginsAppend
<1> HIDE DEF n, new
<1>2. n + 1 \in n + 1 .. Len(new) /\ (\A k \in n + 1 .. Len(new) : k = n + 1) /\ n + 1 .. n = {} /\ n = Len(nat)
  BY <1>1 DEF n
<1>3. Bared(new, d)
  <2>1. OldBared(new, nat, n, c, d)
    BY <1>1, <1>2 DEF OldBared, KeptBut
  <2>2. NewBared(new, n, d)
    BY <1>1, <1>2 DEF NewBared
  <2>3. Bared(nat, c) /\ Begins(new, nat, n)
    BY <1>1
  <2> QED  BY ONLY <2>1, <2>2, <2>3, BaredKept
<1>4. Short(new)
  <2>1. ASSUME NEW k \in 1 .. Len(new) - 1, k >= n, new[k].kind = "pcall", Unwindable(new, k)
        PROVE  FALSE
    <3>1. k = n /\ n # 0 /\ n \in 0 .. n /\ n \in 1 .. n
      BY <1>1, <2>1
    <3>2. At(nat, n) = nat[n] /\ nat[n].kind = "pcall"
      BY <1>1, <2>1, <3>1 DEF At
    <3>3. Unwindable(nat, n)
      BY <1>1, <2>1, <3>1, AlikeCounted
    <3> QED  BY <1>2, <3>2, <3>3
  <2> QED  BY <1>1, <2>1, ShortKept
<1> QED  BY <1>3, <1>4 DEF new

LEMMA BeginKept ==
  ASSUME NEW nat \in Seq(NativeFrame), NEW c \in [Threads -> Seq(Frames)],
         NEW d \in [Threads -> Seq(Frames)], Begin(c, d)
  PROVE  Kept(nat, c, d)
<1> SUFFICES ASSUME NEW k \in 1 .. Len(nat), nat[k].kind = "call",
                    NEW i \in nat[k].at + 1 .. Len(d[nat[k].th]), d[nat[k].th][i] = "pcall"
             PROVE  i \in nat[k].at + 1 .. Len(c[nat[k].th]) /\ c[nat[k].th][i] = "pcall"
  BY DEF Kept
<1>1. nat[k].th \in Threads /\ nat[k].at \in Nat
  BY ElementOfSeq, FrameTypes
<1>2. Len(d[nat[k].th]) \in Nat /\ Len(c[nat[k].th]) \in Nat
  BY <1>1, LenProperties
<1>3. /\ Len(d[nat[k].th]) <= Len(c[nat[k].th])
      /\ \A j \in 1 .. Len(d[nat[k].th]) : d[nat[k].th][j] = c[nat[k].th][j]
  BY <1>1 DEF Begin
<1>4. i \in 1 .. Len(d[nat[k].th]) /\ i \in nat[k].at + 1 .. Len(c[nat[k].th])
  BY <1>1, <1>2, <1>3
<1> QED  BY <1>3, <1>4

LEMMA SameBegin ==
  ASSUME NEW c \in [Threads -> Seq(Frames)]
  PROVE  Begin(c, c)
<1>1. \A u \in Threads : Len(c[u]) \in Nat
  BY LenProperties
<1> QED  BY <1>1 DEF Begin
-----------------------------------------------------------------------------
(* The actions: those that leave the C stack as it is. *)
CaughtNow == IInv /\ Caught(native, ci, status)

LEMMA Now ==
  ASSUME CaughtNow
  PROVE  /\ IInv /\ native \in Seq(NativeFrame) /\ Len(native) \in Nat
         /\ ci \in [Threads -> Seq(Frames)] /\ status \in [Threads -> {"OK", "YIELD", "REENTRY", "ERRRUN"}]
         /\ Stacked(native, ci)
         /\ Bared(native, ci) /\ Short(native) /\ Done(native, ci, status)
         /\ Innermost = At(native, Len(native)) /\ Running = Innermost.th /\ Running \in Threads
BY Facts DEF CaughtNow, IInv, Sound, Typed, Caught

LEMMA LuaReturnsCaught ==
  ASSUME CaughtNow, NEW th \in Threads, LuaReturns(th)
  PROVE  Caught(native', ci', status')
<1>1. LuaRuns(th) /\ native' = native /\ status' = status /\ ci' = [ci EXCEPT ![th] = Front(ci[th])]
  BY DEF LuaReturns
<1>2. ~(At(native, Len(native)).kind = "pcall" /\ Unwindable(native, Len(native)))
  BY <1>1, Now, LuaNotShort
<1>3. Len(ci[th]) - 1 \in Nat /\ Len(ci[th]) - 1 <= Len(ci[th])
  <2>1. Len(ci[th]) \in Nat /\ ci[th] # <<>> /\ ci[th] \in Seq(Frames)
    BY <1>1, Now, LuaFacts, LenProperties
  <2> QED  BY <2>1, EmptySeq
<1>4. ci' \in [Threads -> Seq(Frames)] /\ Begin(ci, ci')
  <2> DEFINE n == Len(ci[th]) - 1
  <2>1. ci \in [Threads -> Seq(Frames)] /\ IsCut(ci, th, n, ci')
    BY <1>1, Now DEF Front, IsCut
  <2>2. n \in Nat /\ n <= Len(ci[th])
    BY <1>3
  <2> HIDE DEF n
  <2> QED  BY ONLY th \in Threads, <2>1, <2>2, Shorter
<1>5. Kept(native, ci, ci')
  BY <1>4, Now, BeginKept
<1> QED  BY <1>1, <1>2, <1>5, Now, StaysCaught

LEMMA LuaYieldsCaught ==
  ASSUME CaughtNow, NEW th \in Threads, LuaYields(th)
  PROVE  Caught(native', ci', status')
<1> DEFINE frames == Append(ci[th], "coyield")
<1>1. LuaRuns(th) /\ native' = native /\ ci' = [ci EXCEPT ![th] = frames]
  BY DEF LuaYields
<1>2. ~(At(native, Len(native)).kind = "pcall" /\ Unwindable(native, Len(native)))
  BY <1>1, Now, LuaNotShort
<1>3. /\ frames \in Seq(Frames) /\ Len(frames) = Len(ci[th]) + 1 /\ frames[Len(ci[th]) + 1] = "coyield"
      /\ \A i \in 1 .. Len(ci[th]) : frames[i] = ci[th][i]
  <2>1. "coyield" \in Frames /\ ci[th] \in Seq(Frames)
    BY Now DEF Frames
  <2> QED  BY <2>1, AppendProperties
<1> HIDE DEF frames
<1>4. Kept(native, ci, ci')
  <2>1. native \in Seq(NativeFrame) /\ ci \in [Threads -> Seq(Frames)] /\ frames[Len(ci[th]) + 1] # "pcall"
    BY <1>3, Now
  <2> QED  BY ONLY th \in Threads, <1>1, <1>3, <2>1, GrowKept
<1> QED  BY <1>1, <1>2, <1>4, Now, StaysCaught

LEMMA ReenterCaught ==
  ASSUME CaughtNow, NEW th \in Threads, Reenter(th)
  PROVE  Caught(native', ci', status')
<1>1. Innermost.kind = "resume" /\ native' = native /\ ci' = ci
  BY DEF Reenter
<1>2. Kept(native, ci, ci')
  BY <1>1, Now, SameBegin, BeginKept
<1> QED  BY <1>1, <1>2, Now, StaysCaught

LEMMA KotlinResumesDeadCaught ==
  ASSUME CaughtNow, NEW th \in Threads, NEW co \in Co, KotlinResumesDead(th, co)
  PROVE  Caught(native', ci', status')
<1>1. KotlinRuns /\ native' = native /\ ci' = ci
  BY DEF KotlinResumesDead
<1>2. Kept(native, ci, ci')
  BY <1>1, Now, SameBegin, BeginKept
<1>3. At(native, Len(native)).kind # "pcall"
  BY <1>1, Now, Facts DEF IsKotlin
<1> QED  BY <1>1, <1>2, <1>3, Now, StaysCaught

LEMMA LuaClosesCaught ==
  ASSUME CaughtNow, NEW th \in Threads, NEW co \in Co, LuaCloses(th, co)
  PROVE  Caught(native', ci', status')
<1>1. LuaRuns(th) /\ native' = native /\ ci' = [ci EXCEPT ![co] = <<>>]
  BY DEF LuaCloses
<1>2. ~(At(native, Len(native)).kind = "pcall" /\ Unwindable(native, Len(native)))
  BY <1>1, Now, LuaNotShort
<1>3. ci' \in [Threads -> Seq(Frames)] /\ Begin(ci, ci')
  <2>1. co \in Threads /\ SubSeq(ci[co], 1, 0) = <<>> /\ 0 \in Nat /\ 0 <= Len(ci[co])
    BY Now, LenProperties DEF Threads
  <2>2. ci \in [Threads -> Seq(Frames)] /\ IsCut(ci, co, 0, ci')
    BY <1>1, <2>1, Now DEF IsCut
  <2> QED  BY ONLY <2>1, <2>2, Shorter
<1>4. Kept(native, ci, ci')
  BY <1>3, Now, BeginKept
<1> QED  BY <1>1, <1>2, <1>4, Now, StaysCaught
-----------------------------------------------------------------------------
(* Those that end the innermost activation. *)
IsFront(c, th, d) == d = [c EXCEPT ![th] = Front(c[th])]

LEMMA FrontBegin ==
  ASSUME NEW c \in [Threads -> Seq(Frames)], NEW th \in Threads, c[th] # <<>>,
         NEW d, IsFront(c, th, d)
  PROVE  d \in [Threads -> Seq(Frames)] /\ Len(d[th]) = Len(c[th]) - 1 /\ Begin(c, d)
<1> DEFINE n == Len(c[th]) - 1
<1>1. n \in Nat /\ n <= Len(c[th])
  <2>1. Len(c[th]) \in Nat /\ c[th] \in Seq(Frames)
    BY LenProperties
  <2> QED  BY <2>1, EmptySeq
<1>2. IsCut(c, th, n, d)
  BY DEF Front, IsFront, IsCut
<1> HIDE DEF n
<1>3. d \in [Threads -> Seq(Frames)] /\ Len(d[th]) = n /\ Begin(c, d)
  BY ONLY c \in [Threads -> Seq(Frames)], th \in Threads, <1>1, <1>2, Shorter
<1> QED  BY <1>3 DEF n

LEMMA BackBegin ==
  ASSUME NEW c \in [Threads -> Seq(Frames)], NEW th \in Threads
  PROVE  Begin(c, BackIn(c, th))
<1>1. CASE c[th] # <<>> /\ Last(c[th]) = "coresume"
  <2>1. IsFront(c, th, BackIn(c, th))
    BY <1>1 DEF BackIn, IsFront
  <2> QED  BY <1>1, <2>1, FrontBegin
<1>2. CASE ~(c[th] # <<>> /\ Last(c[th]) = "coresume")
  BY <1>2, SameBegin DEF BackIn
<1> QED  BY <1>1, <1>2

LEMMA Ends ==
  ASSUME CaughtNow, native # <<>>, Begin(ci, ci'), native' = Front(native),
         Innermost.kind = "pcall" =>
           Len(ci'[Running]) < Innermost.at \/ Unwindable(native, Len(native)),
         Innermost.kind = "callback" /\ status'[Running] = "OK" => Len(ci'[Running]) = Innermost.at - 1
  PROVE  Caught(native', ci', status')
<1>1. /\ native \in Seq(NativeFrame) /\ ci \in [Threads -> Seq(Frames)] /\ Stacked(native, ci)
      /\ Caught(native, ci, status)
  BY Now DEF CaughtNow
<1>2. Innermost = native[Len(native)] /\ Running = native[Len(native)].th
  BY Now, TopFacts DEF Running
<1>3. /\ native[Len(native)].kind = "pcall" =>
           \/ Len(ci'[native[Len(native)].th]) < native[Len(native)].at
           \/ Unwindable(native, Len(native))
      /\ native[Len(native)].kind = "callback" /\ status'[native[Len(native)].th] = "OK" =>
           Len(ci'[native[Len(native)].th]) = native[Len(native)].at - 1
  BY <1>2
<1>4. Caught(Front(native), ci', status')
  BY ONLY native # <<>>, Begin(ci, ci'), <1>1, <1>3, PopsCaught
<1> QED  BY <1>4

LEMMA CallbackEndsCaught ==
  ASSUME CaughtNow, Faults = {}, NEW th \in Threads, CallbackEnds(th)
  PROVE  Caught(native', ci', status')
<1>1. /\ KotlinRuns /\ Running = th /\ native # <<>> /\ status' = status
      /\ native' = Front(native) /\ IsFront(ci, th, ci')
  BY DEF CallbackEnds, CallbackReturns, IsFront
<1>2. ci[th] # <<>> /\ Len(ci[th]) = Innermost.at /\ Innermost.kind = "callback"
  BY <1>1, Now, KotlinFacts
<1>3. Begin(ci, ci') /\ Len(ci'[th]) = Len(ci[th]) - 1
  BY <1>1, <1>2, Now, FrontBegin
<1> QED  BY <1>1, <1>2, <1>3, Ends

LEMMA KotlinYieldsCaught ==
  ASSUME CaughtNow, NEW th \in Threads, KotlinYields(th)
  PROVE  Caught(native', ci', status')
<1>1. /\ KotlinRuns /\ Running = th /\ native # <<>> /\ status' = [status EXCEPT ![th] = "YIELD"]
      /\ native' = Front(native) /\ ci' = ci
  BY DEF KotlinYields
<1>2. Innermost.kind = "callback" /\ status'[th] # "OK" /\ Begin(ci, ci')
  BY <1>1, Now, KotlinFacts, SameBegin
<1> QED  BY <1>1, <1>2, Ends

LEMMA CallReturnsCaught ==
  ASSUME CaughtNow, NEW th \in Threads, CallReturns(th)
  PROVE  Caught(native', ci', status')
<1>1. Innermost.kind = "call" /\ native' = Front(native) /\ ci' = ci
  BY DEF CallReturns
<1>2. Begin(ci, ci') /\ native # <<>>
  BY <1>1, Now, SameBegin DEF Innermost
<1> QED  BY <1>1, <1>2, Ends

LEMMA PcallReturnsCaught ==
  ASSUME CaughtNow, NEW th \in Threads, PcallReturns(th)
  PROVE  Caught(native', ci', status')
<1>1. /\ VmRuns(th) /\ Innermost.kind = "pcall" /\ native' = Front(native)
      /\ IF isyielded(th) THEN ci' = ci ELSE IsFront(ci, th, ci')
      /\ CallOver(th)
  BY DEF PcallReturns, IsFront
<1>2. native # <<>> /\ th = Running
  BY <1>1 DEF Innermost, VmRuns
<1>3. CASE isyielded(th)
  <2>1. Runs(native, ci, status) /\ status[th] # "OK" /\ ci' = ci
    BY <1>1, <1>3, Now DEF isyielded, IInv, Sound
  <2>2. Unwindable(native, Len(native)) /\ Begin(ci, ci')
    BY <1>2, <2>1, Now, SameBegin DEF Runs
  <2> QED  BY <1>1, <1>2, <2>2, Ends
<1>4. CASE ~isyielded(th)
  <2>1. IsFront(ci, th, ci') /\ Len(ci[th]) = Innermost.at
    BY <1>1, <1>4 DEF CallOver
  <2>2. Innermost.at \in Nat /\ Innermost.at > 0 /\ ci[th] # <<>>
    <3>1. /\ Linked(native, ci, Len(native)) /\ Innermost = native[Len(native)]
          /\ At(native, Len(native) - 1).at \in Nat /\ Innermost.at \in Nat
      BY <1>2, Now, TopFacts, Facts
    <3>2. Innermost.at > At(native, Len(native) - 1).at
      BY <1>1, <3>1 DEF Linked
    <3>3. Innermost.at > 0
      BY <3>1, <3>2
    <3> QED  BY <2>1, <3>1, <3>3, EmptySeq
  <2>3. Begin(ci, ci') /\ Len(ci'[th]) = Len(ci[th]) - 1
    BY <2>1, <2>2, Now, FrontBegin
  <2>4. Len(ci'[Running]) < Innermost.at
    BY <1>2, <2>1, <2>2, <2>3
  <2> QED  BY <1>1, <1>2, <2>3, <2>4, Ends
<1> QED  BY <1>3, <1>4

LEMMA RaiseToCallCaught ==
  ASSUME CaughtNow, NEW th \in Threads, LuaRuns(th), Innermost.kind # "resume", RaiseToCall(th)
  PROVE  Caught(native', ci', status')
<1> DEFINE n == IF Innermost.kind = "pcall" THEN Innermost.at - 1 ELSE Innermost.at
<1>1. native' = Front(native) /\ IsCut(ci, th, n, ci')
  BY DEF RaiseToCall, IsCut
<1>2. /\ native # <<>> /\ ~IsKotlin(Innermost) /\ th = Running /\ Len(ci[th]) > Innermost.at
      /\ Innermost.at \in Nat /\ Len(ci[th]) \in Nat
  BY Now, LuaFacts, Facts
<1>3. Innermost.kind = "pcall" => Innermost.at > 0
  <2>1. /\ Linked(native, ci, Len(native)) /\ Innermost = native[Len(native)]
        /\ At(native, Len(native) - 1).at \in Nat
    BY <1>2, Now, TopFacts
  <2> QED  BY <1>2, <2>1 DEF Linked
<1>4. n \in Nat /\ n <= Len(ci[th]) /\ (Innermost.kind = "pcall" => n < Innermost.at)
  BY <1>2, <1>3
<1> HIDE DEF n
<1>5. Begin(ci, ci') /\ Len(ci'[th]) = n
  <2>1. ci \in [Threads -> Seq(Frames)]
    BY Now
  <2> QED  BY ONLY th \in Threads, <1>1, <1>4, <2>1, Shorter
<1>6. Innermost.kind # "callback"
  BY <1>2 DEF IsKotlin
<1> QED  BY <1>1, <1>2, <1>4, <1>5, <1>6, Ends

LEMMA ResumedCaught ==
  ASSUME CaughtNow, NEW th \in Threads, Innermost.kind = "resume", Resumed(th, native, ci)
  PROVE  Caught(native', ci', status')
<1>1. native' = Front(native) /\ ci' = BackIn(ci, Resumer(native)) /\ native # <<>>
  BY DEF Resumed, Innermost
<1>2. Resumer(native) \in Threads
  <2>1. CASE Len(native) = 1
    BY <2>1 DEF Resumer, Threads
  <2>2. CASE Len(native) # 1
    <3>1. Len(native) - 1 \in 1 .. Len(native)
      <4>1. Len(native) \in Nat \ {0}
        BY <1>1, Now, TopFacts
      <4>2. \A n \in Nat \ {0} : n # 1 => n - 1 \in 1 .. n
        OBVIOUS
      <4> QED  BY <2>2, <4>1, <4>2
    <3>2. native[Len(native) - 1] \in NativeFrame
      BY <3>1, Now, ElementOfSeq
    <3> QED  BY <2>2, <3>2, FrameTypes DEF Resumer
  <2> QED  BY <2>1, <2>2
<1>3. Begin(ci, ci')
  BY <1>1, <1>2, Now, BackBegin
<1> QED  BY <1>1, <1>3, Ends

LEMMA ResumeReturnsCaught ==
  ASSUME CaughtNow, NEW th \in Threads, ResumeReturns(th)
  PROVE  Caught(native', ci', status')
BY ResumedCaught DEF ResumeReturns

LEMMA RaiseToResumeCaught ==
  ASSUME CaughtNow, NEW th \in Threads, LuaRuns(th), Innermost.kind = "resume", RaiseToResume(th)
  PROVE  Caught(native', ci', status')
<1>1. CASE Handlers(th) = {}
  BY <1>1, ResumedCaught DEF RaiseToResume
<1>2. CASE Handlers(th) # {}
  <2> DEFINE n == Highest(Handlers(th)) - 1
  <2>1. native' = native /\ IsCut(ci, th, n, ci')
    BY <1>2 DEF RaiseToResume, IsCut
  <2>2. ci[th] \in Seq(Frames) /\ Len(ci[th]) \in Nat /\ DOMAIN ci[th] = 1 .. Len(ci[th])
    BY Now, LenProperties
  <2>3. Handlers(th) \in SUBSET (1 .. Len(ci[th]))
    BY <2>2 DEF Handlers
  <2>4. Highest(Handlers(th)) \in 1 .. Len(ci[th])
    BY <1>2, <2>2, <2>3, HighestOk
  <2>5. n \in Nat /\ n <= Len(ci[th])
    BY <2>2, <2>4
  <2> HIDE DEF n
  <2>6. ci \in [Threads -> Seq(Frames)]
    BY Now
  <2>7. ci' \in [Threads -> Seq(Frames)] /\ Begin(ci, ci')
    BY ONLY th \in Threads, <2>1, <2>5, <2>6, Shorter
  <2>8. Kept(native, ci, ci')
    BY <2>7, Now, BeginKept
  <2> QED  BY <2>1, <2>8, Now, StaysCaught
<1> QED  BY <1>1, <1>2

LEMMA RaiseCaught ==
  ASSUME CaughtNow, NEW th \in Threads, Raise(th)
  PROVE  Caught(native', ci', status')
BY RaiseToResumeCaught, RaiseToCallCaught DEF Raise
-----------------------------------------------------------------------------
(* Those that begin an activation. *)
Appended(c, th, f, d) == d = [c EXCEPT ![th] = Append(c[th], f)]

LEMMA Grown ==
  ASSUME NEW c \in [Threads -> Seq(Frames)], NEW th \in Threads, NEW f \in Frames,
         NEW d, Appended(c, th, f, d)
  PROVE  /\ d[th] \in Seq(Frames) /\ Len(d[th]) = Len(c[th]) + 1 /\ d[th][Len(c[th]) + 1] = f
         /\ Last(d[th]) = f
         /\ \A i \in 1 .. Len(c[th]) : d[th][i] = c[th][i]
         /\ f # "pcall" => \A nat \in Seq(NativeFrame) : Kept(nat, c, d)
<1> DEFINE frames == Append(c[th], f)
<1>1. d[th] = frames /\ d = [c EXCEPT ![th] = frames]
  BY DEF Appended
<1>2. /\ frames \in Seq(Frames) /\ Len(frames) = Len(c[th]) + 1 /\ frames[Len(c[th]) + 1] = f
      /\ \A i \in 1 .. Len(c[th]) : frames[i] = c[th][i]
  BY AppendProperties
<1> HIDE DEF frames
<1>3. ASSUME f # "pcall", NEW nat \in Seq(NativeFrame)
      PROVE  Kept(nat, c, d)
  <2>1. frames[Len(c[th]) + 1] # "pcall" /\ c \in [Threads -> Seq(Frames)] /\ th \in Threads
    BY <1>2, <1>3
  <2> QED  BY ONLY <1>1, <1>2, nat \in Seq(NativeFrame), <2>1, GrowKept
<1>4. Last(frames) = f
  BY <1>2 DEF Last
<1> QED  BY <1>1, <1>2, <1>3, <1>4

LEMMA LuaCallsCaught ==
  ASSUME CaughtNow, NEW th \in Threads, NEW f \in KotlinFrames \cup {"lua"}, LuaCalls(th, f),
         native' \in Seq(NativeFrame)
  PROVE  Caught(native', ci', status')
<1>1. /\ LuaRuns(th) /\ native' = WithTrampoline(native, th, ci'[th], "invoke")
      /\ Appended(ci, th, f, ci') /\ status' = status
  <2>1. ci \in [Threads -> Seq(Frames)]
    BY Now
  <2> QED  BY <2>1 DEF LuaCalls, Appended
<1>2. ~(At(native, Len(native)).kind = "pcall" /\ Unwindable(native, Len(native)))
  BY <1>1, Now, LuaNotShort
<1>3. f \in Frames /\ f # "pcall"
  BY DEF Frames, LuaFrames, KotlinFrames
<1>4. Kept(native, ci, ci')
  BY <1>1, <1>3, Now, Grown
<1>5. Bared(native, ci')
  BY <1>2, <1>4, Now, StaysCaught
<1>6. /\ native \in Seq(NativeFrame) /\ Short(native) /\ Innermost = At(native, Len(native))
      /\ native' = WithTrampoline(native, Innermost.th, ci'[Innermost.th], "invoke")
      /\ (Innermost.kind = "pcall" /\ Unwindable(native, Len(native)) =>
            Len(ci'[Innermost.th]) = Innermost.at + 1 /\ Last(ci'[Innermost.th]) \in KotlinFrames)
  BY <1>1, <1>2, Now, LuaFacts
<1> QED  BY ONLY <1>5, <1>6, native' \in Seq(NativeFrame), TrampolineCaught

LEMMA ContinueCaught ==
  ASSUME CaughtNow, NEW th \in Threads, Continue(th), native' \in Seq(NativeFrame)
  PROVE  Caught(native', ci', status')
<1>1. /\ VmRuns(th) /\ Innermost.kind = "resume" /\ ci[th] # <<>>
      /\ native' = WithTrampoline(native, th, ci[th], "cont")
      /\ ci' = IF Top(th) = "pcall" THEN [ci EXCEPT ![th] = Front(ci[th])] ELSE ci
  BY DEF Continue, InCFrame, Top
<1>2. At(native, Len(native)).kind = "resume" /\ At(native, Len(native)).th = th
  BY <1>1, Now DEF VmRuns
<1>3. CASE Top(th) = "pcall"
  <2>1. native' = native
    BY <1>1, <1>3 DEF Top, WithTrampoline, KotlinFrames
  <2>2. IsFront(ci, th, ci')
    BY <1>1, <1>3 DEF IsFront
  <2>3. Kept(native, ci, ci')
    BY <1>1, <2>2, Now, FrontBegin, BeginKept
  <2> QED  BY <1>2, <2>1, <2>3, Now, StaysCaught
<1>4. CASE Top(th) # "pcall"
  <2>1. /\ native \in Seq(NativeFrame) /\ Bared(native, ci) /\ Short(native)
        /\ Innermost = At(native, Len(native)) /\ Innermost.kind # "pcall"
        /\ native' = WithTrampoline(native, Innermost.th, ci[Innermost.th], "cont") /\ ci' = ci
    BY <1>1, <1>2, <1>4, Now
  <2> QED  BY ONLY <2>1, native' \in Seq(NativeFrame), TrampolineCaught
<1> QED  BY <1>3, <1>4

LEMMA KotlinCallsCaught ==
  ASSUME CaughtNow, NEW th \in Threads, NEW f \in KotlinFrames \cup {"entry"}, KotlinCalls(th, f),
         native' \in Seq(NativeFrame)
  PROVE  Caught(native', ci', status')
<1> DEFINE g   == Guard("call", th, Len(ci[th]))
           mid == Append(native, g)
<1>1. /\ KotlinRuns /\ Running = th /\ native' = WithTrampoline(mid, th, ci'[th], "invoke")
      /\ Appended(ci, th, f, ci') /\ status' = status
  <2>1. ci \in [Threads -> Seq(Frames)]
    BY Now
  <2> QED  BY <2>1 DEF KotlinCalls, Appended
<1>2. At(native, Len(native)).kind # "pcall"
  BY <1>1, Now, Facts DEF IsKotlin
<1>3. f \in Frames /\ f # "pcall"
  BY DEF Frames, LuaFrames, KotlinFrames
<1>4. /\ Kept(native, ci, ci') /\ Len(ci'[th]) = Len(ci[th]) + 1 /\ ci'[th][Len(ci[th]) + 1] = f
      /\ Len(ci[th]) \in Nat
  <2>1. ci \in [Threads -> Seq(Frames)] /\ native \in Seq(NativeFrame) /\ ci[th] \in Seq(Frames)
    BY Now
  <2>2. /\ Len(ci'[th]) = Len(ci[th]) + 1 /\ ci'[th][Len(ci[th]) + 1] = f
        /\ \A nat \in Seq(NativeFrame) : Kept(nat, ci, ci')
    BY ONLY <1>1, <1>3, <2>1, th \in Threads, Grown
  <2> QED  BY <2>1, <2>2, LenProperties
<1>5. g \in NativeFrame /\ g.kind = "call" /\ g.th = th /\ g.at = Len(ci[th])
  <2>1. nCcalls[th] \in 0 .. HardLimit /\ baseCcalls[th] \in 0 .. HardLimit
    BY <1>1, Now, Facts
  <2> QED  BY <1>4, <2>1 DEF Guard, NativeFrame
<1> HIDE DEF g
<1>6. \A i \in g.at + 1 .. Len(ci'[g.th]) : ci'[g.th][i] # "pcall"
  <2>1. \A i \in Len(ci[th]) + 1 .. Len(ci[th]) + 1 : i = Len(ci[th]) + 1
    BY <1>4
  <2> QED  BY <1>3, <1>4, <1>5, <2>1
<1>7. Bared(mid, ci') /\ Short(mid)
  <2>1. /\ native \in Seq(NativeFrame) /\ Short(native) /\ Bared(native, ci)
        /\ ~(At(native, Len(native)).kind = "pcall" /\ Unwindable(native, Len(native)))
    BY <1>2, Now
  <2>2. KeptBut(native, ci, ci', g)
    BY <1>4 DEF Kept, KeptBut
  <2>3. g \in NativeFrame
    BY <1>5
  <2> QED  BY ONLY <1>6, <2>1, <2>2, <2>3, GuardCaught
<1>8. /\ mid \in Seq(NativeFrame) /\ At(mid, Len(mid)) = g
  <2>1. mid \in Seq(NativeFrame) /\ Len(mid) = Len(native) + 1 /\ mid[Len(native) + 1] = g /\ Len(mid) # 0
    BY <1>5, Now, AppendProperties
  <2> HIDE DEF mid
  <2> QED  BY <2>1 DEF At
<1> HIDE DEF mid
<1>9. native' = WithTrampoline(mid, g.th, ci'[g.th], "invoke") /\ g = At(mid, Len(mid)) /\ g.kind # "pcall"
  BY <1>1, <1>5, <1>8
<1> QED  BY ONLY <1>7, <1>8, <1>9, native' \in Seq(NativeFrame), TrampolineCaught

LEMMA LuaPcallsCaught ==
  ASSUME CaughtNow, NEW th \in Threads, NEW f \in KotlinFrames \cup {"entry"}, LuaPcalls(th, f),
         native' \in Seq(NativeFrame)
  PROVE  Caught(native', ci', status')
<1> DEFINE frames == ci[th] \o <<"pcall", f>>
           at     == Len(ci[th]) + 1
           g      == Guard("pcall", th, at)
           mid    == Append(native, g)
<1>1. /\ LuaRuns(th) /\ ci' = [ci EXCEPT ![th] = frames]
      /\ IF f \in LuaFrames /\ lua_isyieldable(th) THEN native' = native
         ELSE native' = WithTrampoline(mid, th, frames, "invoke")
  BY DEF LuaPcalls
<1>2. /\ th = Running /\ native # <<>> /\ Innermost.th = th /\ Innermost.kind # "callback"
      /\ ci[th] \in Seq(Frames) /\ Len(ci[th]) \in Nat
      /\ nCcalls[th] \in 0 .. HardLimit /\ baseCcalls[th] \in 0 .. HardLimit
  BY <1>1, Now, Facts, LuaFacts DEF IsKotlin
<1>3. ~(At(native, Len(native)).kind = "pcall" /\ Unwindable(native, Len(native)))
  BY <1>1, Now, LuaNotShort
<1>4. f \in Frames /\ f # "pcall"
  BY DEF Frames, LuaFrames, KotlinFrames
<1>5. /\ frames \in Seq(Frames) /\ Len(frames) = at + 1 /\ frames[at + 1] = f
      /\ \A i \in 1 .. Len(ci[th]) : frames[i] = ci[th][i]
  <2>1. <<"pcall", f>> \in Seq(Frames) /\ <<"pcall", f>>[2] = f /\ Len(<<"pcall", f>>) = 2
    BY <1>4 DEF Frames, WithCont
  <2> HIDE DEF at, frames, mid, g
  <2>2. /\ frames \in Seq(Frames) /\ Len(frames) = Len(ci[th]) + 2
        /\ \A i \in 1 .. Len(frames) : frames[i] = IF i <= Len(ci[th]) THEN ci[th][i]
                                                   ELSE <<"pcall", f>>[i - Len(ci[th])]
    BY <1>2, <2>1, ConcatProperties DEF frames
  <2>3. /\ at + 1 \in 1 .. Len(frames) /\ ~(at + 1 <= Len(ci[th])) /\ at + 1 - Len(ci[th]) = 2
        /\ \A i \in 1 .. Len(ci[th]) : i \in 1 .. Len(frames) /\ i <= Len(ci[th])
        /\ Len(frames) = at + 1
    BY <1>2, <2>2 DEF at
  <2> QED  BY <2>1, <2>2, <2>3
<1>6. ci'[th] = frames /\ \A u \in Threads : u # th => ci'[u] = ci[u]
  BY <1>1, Now
<1> HIDE DEF frames, g, mid, at
<1>7. ASSUME NEW k \in 1 .. Len(native), native[k].kind = "call",
             NEW i \in native[k].at + 1 .. Len(ci'[native[k].th]), ci'[native[k].th][i] = "pcall"
      PROVE  \/ i \in native[k].at + 1 .. Len(ci[native[k].th]) /\ ci[native[k].th][i] = "pcall"
             \/ native[k].th = th /\ i = at
  <2>1. native[k].th \in Threads /\ native[k].at \in Nat
    BY Now, ElementOfSeq, FrameTypes
  <2>2. CASE native[k].th = th
    <3>1. i \in native[k].at + 1 .. at + 1 /\ frames[i] = "pcall" /\ at = Len(ci[th]) + 1
      BY <1>5, <1>6, <1>7, <2>2 DEF at
    <3>2. i # at + 1
      BY <1>4, <1>5, <3>1
    <3>3. i = at \/ (i \in native[k].at + 1 .. Len(ci[th]) /\ i \in 1 .. Len(ci[th]))
      <4>1. \A a, l \in Nat : \A x \in a + 1 .. l + 2 :
               x = l + 2 \/ x = l + 1 \/ (x \in a + 1 .. l /\ x \in 1 .. l)
        OBVIOUS
      <4>2. native[k].at \in Nat /\ Len(ci[th]) \in Nat /\ at + 1 = Len(ci[th]) + 2
        BY <1>2, <2>1, <3>1
      <4> QED  BY ONLY <3>1, <3>2, <4>1, <4>2
    <3> QED  BY <1>5, <2>2, <3>1, <3>3
  <2>3. CASE native[k].th # th
    BY <1>6, <1>7, <2>1, <2>3
  <2> QED  BY <2>2, <2>3
<1>8. CASE f \in LuaFrames /\ lua_isyieldable(th)
  <2>1. Unwindable(native, Len(native))
    BY <1>2, <1>8, Now, TopFacts DEF lua_isyieldable
  <2>2. \A k \in 1 .. Len(native) : native[k].kind = "call" => native[k].th # th
    BY <1>2, <2>1, Now, NoCalls
  <2>3. Kept(native, ci, ci')
    BY <1>7, <2>2 DEF Kept
  <2>4. native' = native
    BY <1>1, <1>8
  <2> QED  BY <1>3, <2>3, <2>4, Now, StaysCaught
<1>9. CASE ~(f \in LuaFrames /\ lua_isyieldable(th))
  <2>1. native' = WithTrampoline(mid, th, frames, "invoke")
    BY <1>1, <1>9
  <2>2. g \in NativeFrame /\ g.kind = "pcall" /\ g.th = th /\ g.at = at
    BY <1>2 DEF Guard, NativeFrame, g, at
  <2>3. Bared(mid, ci') /\ Short(mid)
    <3>1. native \in Seq(NativeFrame) /\ Short(native) /\ Bared(native, ci)
      BY Now
    <3>2. KeptBut(native, ci, ci', g)
      BY <1>7, <2>2 DEF KeptBut
    <3>3. g \in NativeFrame /\ g.kind # "call"
      BY <2>2
    <3> QED  BY ONLY <1>3, <3>1, <3>2, <3>3, GuardCaught DEF mid
  <2>4. /\ mid \in Seq(NativeFrame) /\ Len(mid) = Len(native) + 1 /\ mid[Len(native) + 1] = g
        /\ Begins(mid, native, Len(native)) /\ Len(native) \in Nat
    BY <2>2, Now, AppendProperties, BeginsAppend DEF mid
  <2>5. g = At(mid, Len(mid))
    BY <2>4 DEF At
  <2>6. ASSUME Unwindable(mid, Len(mid))
        PROVE  Last(frames) \in KotlinFrames
    <3>1. Unwindable(mid, Len(native) + 1) /\ mid[Len(native) + 1].kind # "resume"
      BY <2>2, <2>4, <2>6
    <3>2. Unwindable(mid, Len(native))
      <4>1. Len(native) + 1 \in Nat \ {0} /\ Len(native) + 1 - 1 = Len(native)
        BY <2>4
      <4> QED  BY <3>1, <4>1, UnwindsBelow
    <3>3. Unwindable(native, Len(native))
      BY <2>4, <3>2, AlikeCounted
    <3>4. f \notin LuaFrames
      BY <1>2, <1>9, <3>3, Now, TopFacts DEF lua_isyieldable
    <3> QED  BY <1>5, <3>4 DEF LuaFrames, Last
  <2>7. /\ native' = WithTrampoline(mid, g.th, ci'[g.th], "invoke") /\ mid \in Seq(NativeFrame)
        /\ (g.kind = "pcall" /\ Unwindable(mid, Len(mid)) =>
              Len(ci'[g.th]) = g.at + 1 /\ Last(ci'[g.th]) \in KotlinFrames)
    BY <1>5, <1>6, <2>1, <2>2, <2>4, <2>6
  <2> QED  BY ONLY <2>3, <2>5, <2>7, native' \in Seq(NativeFrame), TrampolineCaught
<1> QED  BY <1>8, <1>9

LEMMA ResumeCaught ==
  ASSUME CaughtNow, native' \in Seq(NativeFrame),
         NEW held \in [Threads -> Seq(Frames)], Kept(native, ci, held),
         ~(At(native, Len(native)).kind = "pcall" /\ Unwindable(native, Len(native))),
         NEW co \in Co, ~OnStack(native, co), NEW from, CountOf(from) \in Nat,
         NEW f, Resume(co, from, f, held)
  PROVE  Caught(native', ci', status')
<1> DEFINE frames == Begun(co, f)
           count  == CountOf(from) + 1
           jump   == [kind |-> "resume", th |-> co, at |-> 0, nC |-> count, base |-> count]
           mid    == Append(native, jump)
<1>1. /\ CountOf(from) < MaxCCalls /\ ci' = [held EXCEPT ![co] = frames]
      /\ native' = IF ci[co] = <<>> THEN WithTrampoline(mid, co, frames, "start") ELSE mid
  BY DEF Resume
<1>2. co \in Threads /\ ci'[co] = frames /\ \A u \in Threads : u # co => ci'[u] = held[u]
  BY <1>1 DEF Threads
<1>3. jump \in NativeFrame /\ jump.kind = "resume" /\ jump.th = co
  <2>1. count \in 0 .. HardLimit
    BY <1>1, CoroutinesAssumption
  <2> HIDE DEF count
  <2> QED  BY <1>2, <2>1 DEF NativeFrame
<1> HIDE DEF frames, jump
<1>4. KeptBut(native, ci, ci', jump)
  <2>1. \A k \in 1 .. Len(native) : ci'[native[k].th] = held[native[k].th]
    <3> TAKE k \in 1 .. Len(native)
    <3>1. native[k].th \in Threads /\ native[k].th # co
      BY Now, ElementOfSeq, FrameTypes DEF OnStack
    <3> QED  BY <1>2, <3>1
  <2> QED  BY <2>1 DEF Kept, KeptBut
<1>5. Bared(mid, ci') /\ Short(mid)
  <2>1. native \in Seq(NativeFrame) /\ Short(native) /\ Bared(native, ci)
    BY Now
  <2>2. jump \in NativeFrame /\ jump.kind # "call"
    BY <1>3
  <2>3. ~(At(native, Len(native)).kind = "pcall" /\ Unwindable(native, Len(native)))
    OBVIOUS
  <2> QED  BY ONLY <1>4, <2>1, <2>2, <2>3, GuardCaught
<1>6. mid \in Seq(NativeFrame) /\ jump = At(mid, Len(mid))
  <2>1. mid \in Seq(NativeFrame) /\ Len(mid) = Len(native) + 1 /\ mid[Len(native) + 1] = jump /\ Len(mid) # 0
    BY <1>3, Now, AppendProperties
  <2> HIDE DEF mid
  <2> QED  BY <2>1 DEF At
<1> HIDE DEF mid
<1>7. CASE ci[co] = <<>>
  <2>1. native' = WithTrampoline(mid, jump.th, ci'[jump.th], "start") /\ jump.kind # "pcall"
    BY <1>1, <1>2, <1>3, <1>7
  <2> QED  BY ONLY <1>5, <1>6, <2>1, native' \in Seq(NativeFrame), TrampolineCaught
<1>8. CASE ci[co] # <<>>
  BY <1>1, <1>3, <1>5, <1>6, <1>8 DEF Caught, Done
<1> QED  BY <1>7, <1>8

LEMMA KotlinResumesCaught ==
  ASSUME CaughtNow, NEW th \in Threads, NEW co \in Co, NEW from \in {th, Nil}, KotlinResumes(th, co, from),
         native' \in Seq(NativeFrame)
  PROVE  Caught(native', ci', status')
<1>1. KotlinRuns /\ Running = th
  BY DEF KotlinResumes
<1>2. PICK f \in Starts(co) : Resume(co, from, f, ci)
  BY DEF KotlinResumes
<1>3. ~OnStack(native, co)
  BY <1>1, <1>2, Now, NotOnStack DEF Resume
<1>4. /\ At(native, Len(native)).kind # "pcall" /\ ci \in [Threads -> Seq(Frames)]
      /\ Kept(native, ci, ci) /\ CountOf(from) \in Nat
  <2>1. nCcalls[th] \in 0 .. HardLimit
    BY <1>1, Now, Facts
  <2>2. CountOf(from) \in Nat
    BY <2>1 DEF CountOf
  <2>3. native \in Seq(NativeFrame) /\ ci \in [Threads -> Seq(Frames)] /\ Begin(ci, ci)
    BY Now, SameBegin
  <2>4. Kept(native, ci, ci)
    BY ONLY <2>3, BeginKept
  <2>5. At(native, Len(native)).kind # "pcall"
    BY <1>1, Now, Facts DEF IsKotlin
  <2> QED  BY <2>2, <2>3, <2>4, <2>5
<1> QED  BY <1>2, <1>3, <1>4, ResumeCaught

LEMMA LuaResumesCaught ==
  ASSUME CaughtNow, NEW th \in Threads, NEW co \in Co, LuaResumes(th, co), native' \in Seq(NativeFrame)
  PROVE  Caught(native', ci', status')
<1> DEFINE held == [ci EXCEPT ![th] = Append(ci[th], "coresume")]
<1>1. LuaRuns(th) /\ Running = th
  BY Now, LuaFacts DEF LuaResumes
<1>2. PICK f \in Starts(co) : Resume(co, th, f, held)
  BY DEF LuaResumes
<1>3. ~OnStack(native, co)
  BY <1>1, <1>2, Now, NotOnStack DEF Resume
<1>4. ~(At(native, Len(native)).kind = "pcall" /\ Unwindable(native, Len(native)))
  BY <1>1, Now, LuaNotShort
<1>5. held \in [Threads -> Seq(Frames)] /\ CountOf(th) \in Nat
  <2>1. nCcalls[th] \in 0 .. HardLimit /\ "coresume" \in Frames
    BY <1>1, Now, Facts DEF Frames, WithCont
  <2>2. ci[th] \in Seq(Frames)
    BY Now
  <2>3. Append(ci[th], "coresume") \in Seq(Frames)
    BY <2>1, <2>2, AppendProperties
  <2> QED  BY <2>1, <2>3, Now, CoroutinesAssumption DEF CountOf
<1>6. Appended(ci, th, "coresume", held) /\ "coresume" \in Frames /\ "coresume" # "pcall"
  BY DEF Appended, Frames, WithCont
<1> HIDE DEF held
<1>7. Kept(native, ci, held)
  BY <1>6, Now, Grown
<1> QED  BY ONLY CaughtNow, native' \in Seq(NativeFrame), co \in Co, <1>2, <1>3, <1>4, <1>5, <1>7, ResumeCaught

LEMMA CaughtInit ==
  ASSUME Init
  PROVE  Caught(native, ci, status)
<1>1. native = <<>> /\ Len(native) = 0
  BY EmptySeq DEF Init
<1>2. 1 .. Len(native) = {} /\ 1 .. Len(native) - 1 = {} /\ At(native, Len(native)).kind = "program"
  BY <1>1 DEF At, Program
<1> QED  BY <1>2 DEF Caught, Bared, Short, Done

LEMMA CaughtNext ==
  ASSUME CaughtNow, Faults = {}, [Next]_vars
  PROVE  CaughtNow'
<1>1. IInv'
  BY Now, NextKeeps
<1>2. native' \in Seq(NativeFrame)
  BY <1>1 DEF IInv, Sound, Typed
<1>3. Caught(native', ci', status')
  <2>1. CASE UNCHANGED vars
    BY <2>1 DEF vars, CaughtNow
  <2>2. CASE Next
    <3>1. PICK th \in Threads :
            \/ \E f \in KotlinFrames \cup {"entry"} : KotlinCalls(th, f) \/ LuaPcalls(th, f)
            \/ \E f \in KotlinFrames \cup {"lua"} : LuaCalls(th, f)
            \/ \E co \in Co : \/ \E from \in {th, Nil} : KotlinResumes(th, co, from)
                             \/ KotlinResumesDead(th, co)
                             \/ LuaResumes(th, co) \/ LuaCloses(th, co)
            \/ LuaReturns(th) \/ LuaYields(th) \/ Raise(th)
            \/ CallbackEnds(th) \/ KotlinYields(th)
            \/ CallReturns(th) \/ PcallReturns(th) \/ ResumeReturns(th)
            \/ Reenter(th) \/ Continue(th)
      BY <2>2 DEF Next
    <3>2. CASE \E f \in KotlinFrames \cup {"entry"} : KotlinCalls(th, f) \/ LuaPcalls(th, f)
      BY <1>2, <3>2, KotlinCallsCaught, LuaPcallsCaught
    <3>3. CASE \E f \in KotlinFrames \cup {"lua"} : LuaCalls(th, f)
      BY <1>2, <3>3, LuaCallsCaught
    <3>4. CASE \E co \in Co : \E from \in {th, Nil} : KotlinResumes(th, co, from)
      BY <1>2, <3>4, KotlinResumesCaught
    <3>5. CASE \E co \in Co : KotlinResumesDead(th, co)
      BY <3>5, KotlinResumesDeadCaught
    <3>6. CASE \E co \in Co : LuaResumes(th, co)
      BY <1>2, <3>6, LuaResumesCaught
    <3>7. CASE \E co \in Co : LuaCloses(th, co)
      BY <3>7, LuaClosesCaught
    <3>8. CASE LuaReturns(th)
      BY <3>8, LuaReturnsCaught
    <3>9. CASE LuaYields(th)
      BY <3>9, LuaYieldsCaught
    <3>10. CASE Raise(th)
      BY <3>10, RaiseCaught
    <3>11. CASE CallbackEnds(th)
      BY <3>11, CallbackEndsCaught
    <3>12. CASE KotlinYields(th)
      BY <3>12, KotlinYieldsCaught
    <3>13. CASE CallReturns(th)
      BY <3>13, CallReturnsCaught
    <3>14. CASE PcallReturns(th)
      BY <3>14, PcallReturnsCaught
    <3>15. CASE ResumeReturns(th)
      BY <3>15, ResumeReturnsCaught
    <3>16. CASE Reenter(th)
      BY <3>16, ReenterCaught
    <3>17. CASE Continue(th)
      BY <1>2, <3>17, ContinueCaught
    <3> QED  BY <3>1, <3>2, <3>3, <3>4, <3>5, <3>6, <3>7, <3>8, <3>9, <3>10,
                <3>11, <3>12, <3>13, <3>14, <3>15, <3>16, <3>17
  <2> QED  BY <2>1, <2>2
<1> QED  BY <1>1, <1>3 DEF CaughtNow

LEMMA CaughtHolds ==
  ASSUME Faults = {}
  PROVE  Spec => []CaughtNow
<1>1. CaughtNow /\ [Next]_vars => CaughtNow'
  BY CaughtNext
<1>2. Init => CaughtNow
  BY InitOk, CaughtInit DEF CaughtNow
<1> QED  BY <1>1, <1>2, PTL DEF Spec
-----------------------------------------------------------------------------
(* Where an error goes. *)
LEMMA HighestIs ==
  ASSUME NEW S, NEW x \in S, x \in Nat, \A j \in S : j \in Nat /\ j <= x
  PROVE  Highest(S) = x
<1>1. x \in S /\ \A j \in S : j <= x
  OBVIOUS
<1>2. Highest(S) \in S /\ \A j \in S : j <= Highest(S)
  BY <1>1 DEF Highest
<1>3. Highest(S) \in Nat /\ Highest(S) <= x /\ x <= Highest(S) /\ x \in Nat
  BY <1>2
<1>4. \A y \in Nat : y <= x /\ x <= y => y = x
  OBVIOUS
<1> QED  BY <1>3, <1>4

(* A pcall that a yield cannot unwind was called, in the end, by Kotlin code. *)
LEMMA Caller ==
  ASSUME NEW nat \in Seq(NativeFrame), NEW c, Stacked(nat, c), NEW n \in Nat \ {0}, n = Len(nat),
         nat[n].kind = "pcall", ~Unwindable(nat, n)
  PROVE  \E k \in 1 .. n : nat[k].kind = "call" /\ nat[k].th = nat[n].th
<1> DEFINE S == {j \in 1 .. n : nat[j].kind # "pcall"}
<1>1. \A j \in 1 .. n : Linked(nat, c, j) /\ nat[j] \in NativeFrame
  BY ElementOfSeq DEF Stacked
<1>2. S # {}
  <2> SUFFICES ASSUME S = {}
               PROVE  FALSE
    OBVIOUS
  <2>1. 1 \in 1 .. n /\ nat[1].kind = "pcall" /\ 1 - 1 = 0
    OBVIOUS
  <2>2. ~IsKotlin(At(nat, 0))
    BY <1>1, <2>1 DEF Linked
  <2> QED  BY <2>2 DEF At, Program, IsKotlin
<1>3. PICK r \in S : \A j \in S : j <= r
  <2>1. S \in SUBSET (1 .. n) /\ n \in Nat
    OBVIOUS
  <2> HIDE DEF S
  <2> QED  BY <1>2, <2>1, HighestOk
<1>4. /\ r \in 1 .. n - 1 /\ nat[r].kind # "pcall" /\ r \in Nat /\ r # 0
      /\ \A j \in r + 1 .. n : nat[j].kind = "pcall" /\ j \in 1 .. n /\ j - 1 \in r .. n - 1 /\ j - 1 # 0
  BY <1>3
<1> HIDE DEF S
<1>5. nat[r].kind = "call"
  <2>1. r + 1 \in r + 1 .. n /\ r + 1 \in 1 .. n /\ r + 1 - 1 = r /\ r \in 1 .. n
    BY <1>4
  <2>2. ~IsKotlin(At(nat, r))
    BY <1>1, <1>4, <2>1 DEF Linked
  <2>3. nat[r].kind # "resume"
    BY <1>4, <2>1 DEF Unwindable
  <2>4. nat[r].kind \in {"call", "pcall", "resume", "callback"}
    BY <1>1, <2>1, FrameTypes
  <2> QED  BY <1>4, <2>2, <2>3, <2>4 DEF IsKotlin, At
<1>6. \A j \in r + 1 .. n : nat[j].th = nat[j - 1].th
  BY <1>1, <1>4 DEF Linked, At
<1>7. nat[r].th = nat[n].th
  <2> DEFINE T == {j \in r .. n : nat[j].th # nat[n].th}
  <2> SUFFICES ASSUME T # {}
               PROVE  FALSE
    BY <1>4
  <2>1. T \in SUBSET (1 .. n)
    BY <1>4
  <2>2. PICK s \in T : \A j \in T : j <= s
    <3> HIDE DEF T
    <3> QED  BY <2>1, HighestOk
  <2>3. s \in r .. n - 1 /\ s + 1 \in r + 1 .. n /\ s + 1 \in r .. n /\ s + 1 - 1 = s /\ ~(s + 1 <= s)
    BY <1>4, <2>2
  <2>4. nat[s + 1].th = nat[s].th
    BY <1>6, <2>3
  <2>5. nat[s + 1].th = nat[n].th
    BY <2>2, <2>3
  <2> QED  BY <2>2, <2>4, <2>5
<1> QED  BY <1>4, <1>5, <1>7

CallsOf(th)  == {native[k].at : k \in {n \in Above(th) : native[n].kind = "call"}}
PcallsOf(th) == {i \in Handlers(th) : \A at \in CallsOf(th) : i > at}

LEMMA CallIn ==
  ASSUME IInv, NEW th, NEW a
  PROVE  a \in CallsOf(th) <=>
           \E k \in 1 .. Len(native) : native[k].kind = "call" /\ native[k].th = th /\ native[k].at = a
<1>1. DOMAIN native = 1 .. Len(native)
  BY Facts, LenProperties
<1> QED  BY <1>1 DEF CallsOf, Above

LEMMA GoesInnermost ==
  ASSUME CaughtNow, NEW th \in Threads, Raise(th)
  PROVE  IF PcallsOf(th) # {}
         THEN ci'[th] = SubSeq(ci[th], 1, Highest(PcallsOf(th)) - 1) /\ status'[th] = "OK"
         ELSE IF CallsOf(th) # {}
         THEN ci'[th] = SubSeq(ci[th], 1, Highest(CallsOf(th))) /\ status'[th] = "OK"
         ELSE status'[th] = "ERRRUN" /\ Len(native') < Len(native)
<1> DEFINE n == Len(native)
<1>1. /\ LuaRuns(th) /\ IInv /\ native \in Seq(NativeFrame) /\ ci \in [Threads -> Seq(Frames)]
      /\ status \in [Threads -> {"OK", "YIELD", "REENTRY", "ERRRUN"}]
      /\ Stacked(native, ci) /\ Bared(native, ci)
  BY Now DEF Raise
<1>2. /\ th = Running /\ status[th] = "OK" /\ native # <<>> /\ Len(ci[th]) > Innermost.at
      /\ Innermost.kind \in {"call", "pcall", "resume"} /\ Innermost.th = th
      /\ Len(ci[th]) \in Nat /\ DOMAIN ci[th] = 1 .. Len(ci[th])
  <2>1. Innermost \in NativeFrame
    BY <1>1, LuaFacts, TopFacts
  <2> QED  BY <1>1, <2>1, LuaFacts, Facts, FrameTypes, LenProperties DEF Running, IsKotlin
<1>3. /\ n \in Nat \ {0} /\ n \in 1 .. n /\ n - 1 \in 0 .. n /\ Innermost = native[n] /\ Linked(native, ci, n)
      /\ At(native, n - 1).at \in Nat /\ Innermost.at \in Nat
      /\ \A k \in 1 .. n : native[k].at \in Nat
  <2>1. \A k \in 1 .. n : native[k] \in NativeFrame
    BY <1>1, ElementOfSeq
  <2> QED  BY <1>1, <1>2, <2>1, TopFacts, Facts, FrameTypes
<1> HIDE DEF n
<1>4. \A k \in 1 .. n : native[k].th = th => native[k].at <= Innermost.at
  <2> SUFFICES ASSUME NEW k \in 1 .. n, native[k].th = th
               PROVE  native[k].at <= Innermost.at
    OBVIOUS
  <2>1. k \in 0 .. n /\ n \in 0 .. n /\ k <= n /\ k # 0 /\ n # 0
    BY <1>3
  <2>2. At(native, k) = native[k] /\ At(native, n) = native[n]
    BY ONLY <2>1 DEF At
  <2>3. At(native, k).th = th /\ At(native, n).th = th
    BY ONLY <1>2, <1>3, <2>2, native[k].th = th
  <2>4. At(native, k).at <= At(native, n).at
    BY ONLY <1>1, <2>1, <2>3 DEF Stacked, Together, n
  <2> QED  BY ONLY <1>3, <2>2, <2>4
<1>5. \A a : a \in CallsOf(th) <=>
        \E k \in 1 .. n : native[k].kind = "call" /\ native[k].th = th /\ native[k].at = a
  BY <1>1, CallIn DEF n
<1>6. CASE Innermost.kind = "resume"
  <2>1. CallsOf(th) = {}
    <3>1. \A k \in 1 .. n : k \in 1 .. n - 1 \/ k = n
      BY <1>3
    <3>2. \A k \in 1 .. n - 1 : native[k].th # th
      BY <1>2, <1>3, <1>6 DEF Linked
    <3> QED  BY <1>3, <1>5, <1>6, <3>1, <3>2
  <2>2. PcallsOf(th) = Handlers(th)
    BY <2>1 DEF PcallsOf
  <2>3. RaiseToResume(th)
    BY <1>6 DEF Raise
  <2>4. CASE Handlers(th) = {}
    <3>1. status' = [status EXCEPT ![th] = "ERRRUN"] /\ native' = Front(native)
      BY <2>3, <2>4 DEF RaiseToResume, Resumed
    <3>2. Len(native') = n - 1
      BY <1>1, <1>2, <3>1, FrontOk DEF n
    <3>3. status'[th] = "ERRRUN"
      BY <1>1, <3>1
    <3> QED  BY <1>3, <2>1, <2>2, <2>4, <3>2, <3>3 DEF n
  <2>5. CASE Handlers(th) # {}
    <3>1. ci' = [ci EXCEPT ![th] = SubSeq(ci[th], 1, Highest(Handlers(th)) - 1)] /\ status' = status
      BY <2>3, <2>5 DEF RaiseToResume
    <3>2. ci'[th] = SubSeq(ci[th], 1, Highest(Handlers(th)) - 1)
      BY <1>1, <3>1
    <3> QED  BY <1>2, <2>2, <2>5, <3>1, <3>2
  <2> QED  BY <2>4, <2>5
<1>7. CASE Innermost.kind = "call"
  <2>1. ci'[th] = SubSeq(ci[th], 1, Innermost.at) /\ status' = status
    BY <1>1, <1>7 DEF Raise, RaiseToCall
  <2>2. Innermost.at \in CallsOf(th)
    BY <1>2, <1>3, <1>5, <1>7
  <2>3. Highest(CallsOf(th)) = Innermost.at
    <3>1. \A a \in CallsOf(th) : a \in Nat /\ a <= Innermost.at
      BY <1>3, <1>4, <1>5
    <3> QED  BY ONLY <1>3, <2>2, <3>1, HighestIs
  <2>4. PcallsOf(th) = {}
    <3> SUFFICES ASSUME NEW i \in PcallsOf(th)
                 PROVE  FALSE
      OBVIOUS
    <3>1. i \in 1 .. Len(ci[th]) /\ ci[th][i] = "pcall" /\ i > Innermost.at
      BY <1>2, <2>2 DEF PcallsOf, Handlers
    <3>2. i \in native[n].at + 1 .. Len(ci[native[n].th])
      BY <1>2, <1>3, <3>1
    <3>3. \E j \in n + 1 .. n : native[j].at = i
      <4>1. n \in 1 .. Len(native) /\ native[n].kind = "call" /\ ci[native[n].th][i] = "pcall"
        BY <1>2, <1>3, <1>7, <3>1 DEF n
      <4>2. \A a \in native[n].at + 1 .. Len(ci[native[n].th]) : ci[native[n].th][a] = "pcall" =>
              \E j \in n + 1 .. Len(native) : native[j].kind = "pcall" /\ native[j].th = native[n].th /\ native[j].at = a
        <5>1. Bared(native, ci)
          BY <1>1
        <5> QED  BY ONLY <4>1, <5>1 DEF Bared
      <4>3. \E j \in n + 1 .. Len(native) : native[j].at = i
        BY ONLY <3>2, <4>1, <4>2
      <4> QED  BY <4>3 DEF n
    <3> QED  BY <1>3, <3>3
  <2> QED  BY <1>2, <2>1, <2>2, <2>3, <2>4
<1>8. CASE Innermost.kind = "pcall"
  <2>1. ci'[th] = SubSeq(ci[th], 1, Innermost.at - 1) /\ status' = status
    BY <1>1, <1>8 DEF Raise, RaiseToCall
  <2>2. ~Unwindable(native, n)
    <3>1. At(native, n) = Innermost
      BY <1>3 DEF At
    <3> QED  BY <1>1, <1>8, <3>1, Now, LuaNotShort DEF n
  <2>3. /\ Innermost.at > At(native, n - 1).at /\ At(native, n - 1).th = th
        /\ ci[th][Innermost.at] = "pcall"
    BY <1>2, <1>3, <1>8 DEF Linked
  <2>4. Innermost.at \in PcallsOf(th)
    <3>1. ASSUME NEW a \in CallsOf(th)
          PROVE  Innermost.at > a
      <4>1. PICK k \in 1 .. n : native[k].kind = "call" /\ native[k].th = th /\ native[k].at = a
        BY <1>5, <3>1
      <4>2. k \in 0 .. n /\ k <= n - 1 /\ At(native, k) = native[k]
        BY <1>3, <1>8, <4>1 DEF At
      <4>3. native[k].at <= At(native, n - 1).at
        BY <1>1, <1>3, <2>3, <4>1, <4>2 DEF Stacked, Together, n
      <4> QED  BY <1>3, <2>3, <4>1, <4>3
    <3>2. Innermost.at \in 1 .. Len(ci[th])
      BY <1>2, <1>3, <2>3
    <3> QED  BY <1>2, <2>3, <3>1, <3>2 DEF PcallsOf, Handlers
  <2>5. ASSUME NEW i \in PcallsOf(th)
        PROVE  i \in Nat /\ i <= Innermost.at
    <3>1. i \in 1 .. Len(ci[th]) /\ ci[th][i] = "pcall" /\ \A a \in CallsOf(th) : i > a
      BY <1>2 DEF PcallsOf, Handlers
    <3>2. PICK k \in 1 .. n : native[k].kind = "call" /\ native[k].th = native[n].th
      BY <1>1, <1>3, <1>8, <2>2, Caller DEF n
    <3>3. native[k].th = th /\ i > native[k].at
      BY <1>2, <1>3, <1>5, <3>1, <3>2
    <3>4. i \in native[k].at + 1 .. Len(ci[native[k].th]) /\ k \in 1 .. Len(native)
      BY <1>2, <1>3, <3>1, <3>3 DEF n
    <3>5. PICK j \in k + 1 .. n : native[j].th = native[k].th /\ native[j].at = i
      BY <1>1, <3>1, <3>2, <3>3, <3>4 DEF Bared, n
    <3>6. j \in 1 .. n
      BY <1>3, <3>2, <3>5
    <3> QED  BY <1>4, <3>1, <3>3, <3>5, <3>6
  <2>6. Highest(PcallsOf(th)) = Innermost.at
    <3>1. \A i \in PcallsOf(th) : i \in Nat /\ i <= Innermost.at
      BY <2>5
    <3> QED  BY ONLY <1>3, <2>4, <3>1, HighestIs
  <2> QED  BY <1>2, <2>1, <2>4, <2>6
<1> QED  BY <1>2, <1>6, <1>7, <1>8

(* An error goes to the innermost pcall of the thread, whether its C activation *)
(* is there or a yield has unwound it, or to the Kotlin code that called, if    *)
(* that is further in; and if there is neither, the coroutine fails.            *)
THEOREM ErrorsKept ==
  ASSUME Faults = {}
  PROVE  Spec => ErrorsGoInnermost
<1>1. ASSUME CaughtNow
      PROVE  \A th \in Threads : Raise(th) =>
               LET calls == {native[k].at : k \in {n \in Above(th) : native[n].kind = "call"}}
                   pcalls == {i \in Handlers(th) : \A at \in calls : i > at}
               IN  IF pcalls # {} THEN ci'[th] = SubSeq(ci[th], 1, Highest(pcalls) - 1) /\ status'[th] = "OK"
                   ELSE IF calls # {}
                   THEN ci'[th] = SubSeq(ci[th], 1, Highest(calls)) /\ status'[th] = "OK"
                   ELSE status'[th] = "ERRRUN" /\ Len(native') < Len(native)
  BY <1>1, GoesInnermost DEF CallsOf, PcallsOf
<1> QED  BY <1>1, CaughtHolds, PTL DEF ErrorsGoInnermost

-----------------------------------------------------------------------------
(* Coroutines implements Activations.  The activations and the chain of    *)
(* threads as the C stack nat and the frames c have them.                  *)
IsEx(nat, th, i) ==
  \E k \in 1 .. Len(nat) : nat[k].kind = "callback" /\ nat[k].th = th /\ nat[k].at = i
IsYd(frames, i) == i \in 1 .. Len(frames) /\ frames[i] = "yieldable"
Shown(nat, frames, th) ==
  [i \in {j \in Nat : IsEx(nat, th, j) \/ IsYd(frames, j)} |->
     IF IsEx(nat, th, i) THEN "executing" ELSE "waiting"]
Mapped(frames, E) ==
  [i \in {j \in DOMAIN frames : j \in E \/ frames[j] = "yieldable"} |->
     IF i \in E THEN "executing" ELSE "waiting"]
ExSet(nat, th) ==
  {nat[k].at : k \in {n \in {g \in DOMAIN nat : nat[g].th = th} : nat[n].kind = "callback"}}
View(nat, c) == [th \in Threads |-> Shown(nat, c[th], th)]
ResumesOf(nat) ==
  [k \in {0} \cup {j \in 1 .. Len(nat) : nat[j].kind = "resume"} |->
     IF k = 0 THEN Main ELSE nat[k].th]

(* Every function that executes has its frame. *)
LEMMA ExInside ==
  ASSUME NEW nat, NEW c, NEW st, NEW nc, NEW bc, Sound(nat, c, st, nc, bc),
         NEW th \in Threads, NEW i, IsEx(nat, th, i)
  PROVE  i \in Nat /\ i \in 1 .. Len(c[th]) /\ c[th][i] \in KotlinFrames
<1>1. PICK k \in 1 .. Len(nat) : nat[k].kind = "callback" /\ nat[k].th = th /\ nat[k].at = i
  BY DEF IsEx
<1>2. nat \in Seq(NativeFrame) /\ Len(nat) \in Nat /\ c[th] \in Seq(Frames) /\ Len(c[th]) \in Nat
  BY LenProperties DEF Sound, Typed
<1>3. c[th][i] \in KotlinFrames
  BY <1>1 DEF Sound, Stacked, Linked
<1>4. nat[k].at \in Nat \ {0}
  <2>1. nat[k] \in NativeFrame
    BY <1>1, <1>2, ElementOfSeq
  <2> QED  BY <1>1, <2>1 DEF NativeFrame
<1>5. i <= Len(c[th])
  <2>1. k \in 0 .. Len(nat) /\ At(nat, k) = nat[k]
    BY <1>1, <1>2 DEF At
  <2> QED  BY <1>1, <2>1 DEF Sound, Inside
<1> QED  BY <1>1, <1>2, <1>3, <1>4, <1>5

(* The mapped activations are those. *)
LEMMA ViewCore ==
  ASSUME NEW nat, NEW c, NEW st, NEW nc, NEW bc, Sound(nat, c, st, nc, bc), NEW th \in Threads
  PROVE  Mapped(c[th], ExSet(nat, th)) = Shown(nat, c[th], th)
<1> DEFINE E == ExSet(nat, th)
<1>1. DOMAIN nat = 1 .. Len(nat) /\ DOMAIN c[th] = 1 .. Len(c[th]) /\ Len(c[th]) \in Nat
  BY LenProperties DEF Sound, Typed
<1>2. \A i : i \in E <=> IsEx(nat, th, i)
  BY <1>1 DEF IsEx, ExSet
<1> HIDE DEF E
<1>3. \A i : IsEx(nat, th, i) => i \in Nat /\ i \in 1 .. Len(c[th])
  BY ExInside
<1>4. \A j : j \in 1 .. Len(c[th]) => j \in Nat
  BY <1>1
<1> HIDE DEF IsEx, Sound
<1>5. {j \in DOMAIN c[th] : j \in E \/ c[th][j] = "yieldable"}
       = {j \in Nat : IsEx(nat, th, j) \/ IsYd(c[th], j)}
  <2> SUFFICES ASSUME NEW j
               PROVE  (j \in DOMAIN c[th] /\ (j \in E \/ c[th][j] = "yieldable"))
                        <=> (j \in Nat /\ (IsEx(nat, th, j) \/ IsYd(c[th], j)))
    OBVIOUS
  <2> QED  BY <1>1, <1>2, <1>3, <1>4 DEF IsYd
<1> QED  BY ONLY <1>2, <1>5 DEF Shown, Mapped, E

(* So Acts is View. *)
LEMMA Views ==
  ASSUME IInv
  PROVE  Acts = View(native, ci)
<1>1. ASSUME NEW th \in Threads
      PROVE  ActivationsOf(th) = Shown(native, ci[th], th)
  <2>1. Sound(native, ci, status, nCcalls, baseCcalls)
    BY DEF IInv
  <2>2. ActivationsOf(th) = Mapped(ci[th], ExSet(native, th))
    BY DEF ActivationsOf, Executing, Above, Mapped, ExSet
  <2> QED  BY ONLY <2>1, <2>2, th \in Threads, ViewCore
<1> QED  BY <1>1 DEF Acts, View

(* The same after a step. *)
LEMMA ViewsNext ==
  ASSUME IInv'
  PROVE  Acts' = View(native', ci')
<1>1. ASSUME NEW th \in Threads
      PROVE  ActivationsOf(th)' = Shown(native', ci'[th], th)
  <2>1. Sound(native', ci', status', nCcalls', baseCcalls')
    BY DEF IInv
  <2>2. ActivationsOf(th)' = Mapped(ci'[th], ExSet(native', th))
    BY DEF ActivationsOf, Executing, Above, Mapped, ExSet
  <2> QED  BY ONLY <2>1, <2>2, th \in Threads, ViewCore
<1> QED  BY <1>1 DEF Acts, View

(* The mapped chain. *)
LEMMA ChainViews ==
  /\ IInv => Resumes = ResumesOf(native)
  /\ IInv' => Resumes' = ResumesOf(native')
<1>1. ASSUME IInv
      PROVE  Resumes = ResumesOf(native)
  <2>1. DOMAIN native = 1 .. Len(native)
    BY <1>1, LenProperties DEF IInv, Sound, Typed
  <2> QED  BY <2>1 DEF Resumes, ResumesOf
<1>2. ASSUME IInv'
      PROVE  Resumes' = ResumesOf(native')
  <2>1. DOMAIN native' = 1 .. Len(native')
    BY <1>2, LenProperties DEF IInv, Sound, Typed
  <2> QED  BY <2>1 DEF Resumes, ResumesOf
<1> QED  BY <1>1, <1>2
-----------------------------------------------------------------------------
(* How the C stack shows what executes. *)
LEMMA ExMore ==
  ASSUME NEW nat \in Seq(NativeFrame), NEW f, NEW th, NEW i
  PROVE  IsEx(Append(nat, f), th, i) <=>
           IsEx(nat, th, i) \/ (f.kind = "callback" /\ f.th = th /\ f.at = i)
<1> DEFINE n == Len(nat)
           new == Append(nat, f)
<1>1. /\ n \in Nat /\ Len(new) = n + 1 /\ new[n + 1] = f
      /\ \A k \in 1 .. n : new[k] = nat[k]
  <2>1. nat \in Seq(NativeFrame \cup {f}) /\ f \in NativeFrame \cup {f}
    OBVIOUS
  <2> QED  BY <2>1, AppendProperties, LenProperties
<1> HIDE DEF new
<1>2. \A k : k \in 1 .. Len(new) <=> k \in 1 .. n \/ k = n + 1
  BY <1>1
<1>3. n + 1 \in 1 .. Len(new)
  BY <1>1
<1> QED  BY <1>1, <1>2, <1>3 DEF IsEx, new

(* The same for a C frame that is popped. *)
LEMMA ExFewer ==
  ASSUME NEW nat \in Seq(NativeFrame), nat # <<>>, NEW f, f = nat[Len(nat)], NEW th, NEW i
  PROVE  IsEx(nat, th, i) <=>
           IsEx(Front(nat), th, i) \/ (f.kind = "callback" /\ f.th = th /\ f.at = i)
<1>1. /\ Len(nat) \in Nat \ {0} /\ Len(Front(nat)) = Len(nat) - 1
      /\ \A k \in 1 .. Len(nat) - 1 : Front(nat)[k] = nat[k]
  BY BeginsFront DEF Begins
<1>2. \A k : k \in 1 .. Len(nat) <=> k \in 1 .. Len(nat) - 1 \/ k = Len(nat)
  BY <1>1
<1> QED  BY <1>1, <1>2 DEF IsEx

(* A callback that is popped was the only one at its frame. *)
LEMMA ExOnce ==
  ASSUME NEW nat \in Seq(NativeFrame), nat # <<>>, NEW c, Stacked(nat, c),
         NEW f, f = nat[Len(nat)], f.kind \in {"callback", "pcall"}
  PROVE  \A i : IsEx(Front(nat), f.th, i) => i < f.at
<1> DEFINE n == Len(nat)
<1>1. /\ n \in Nat \ {0} /\ Len(Front(nat)) = n - 1
      /\ \A k \in 1 .. n - 1 : Front(nat)[k] = nat[k]
  BY BeginsFront DEF Begins
<1> SUFFICES ASSUME NEW i, IsEx(Front(nat), f.th, i)
             PROVE  i < f.at
  OBVIOUS
<1>2. PICK k \in 1 .. n - 1 : nat[k].kind = "callback" /\ nat[k].th = f.th /\ nat[k].at = i
  BY <1>1 DEF IsEx
<1>3. /\ n \in 1 .. Len(nat) /\ n - 1 \in 0 .. Len(nat) /\ k \in 0 .. Len(nat) /\ k <= n - 1
      /\ At(nat, k) = nat[k] /\ k \in 1 .. Len(nat)
  BY <1>1, <1>2 DEF At
<1>4. Linked(nat, c, n)
  BY <1>3 DEF Stacked
<1>5. f.th = At(nat, n - 1).th /\ f.at > At(nat, n - 1).at
  BY <1>4 DEF Linked
<1>6. nat[k].at <= At(nat, n - 1).at
  BY <1>2, <1>3, <1>5 DEF Stacked, Together
<1>7. nat[k].at \in Nat /\ At(nat, n - 1).at \in Nat /\ f.at \in Nat
  <2>1. nat[k] \in NativeFrame /\ f \in NativeFrame
    BY <1>3, ElementOfSeq
  <2> QED  BY <1>3, <2>1, AtTypes, FrameTypes
<1> QED  BY <1>2, <1>5, <1>6, <1>7
-----------------------------------------------------------------------------
(* What a step does to the stack of activations that is shown. *)
LEMMA ShownSame ==
  ASSUME NEW nat, NEW a, NEW new, NEW b, NEW th,
         \A i : IsEx(new, th, i) <=> IsEx(nat, th, i), \A i : IsYd(b, i) <=> IsYd(a, i)
  PROVE  Shown(new, b, th) = Shown(nat, a, th)
<1> HIDE DEF IsEx, IsYd
<1>1. {j \in Nat : IsEx(new, th, j) \/ IsYd(b, j)} = {j \in Nat : IsEx(nat, th, j) \/ IsYd(a, j)}
  OBVIOUS
<1> QED  BY <1>1 DEF Shown

(* A function begins, or is continued. *)
LEMMA ShownPush ==
  ASSUME NEW nat, NEW a, NEW new, NEW b, NEW th, NEW h \in Nat,
         \A i : IsEx(new, th, i) <=> IsEx(nat, th, i) \/ i = h,
         \A i : i # h => (IsYd(b, i) <=> IsYd(a, i))
  PROVE  Shown(new, b, th) = AsActivations!With(Shown(nat, a, th), h, "executing")
<1> DEFINE D == {j \in Nat : IsEx(nat, th, j) \/ IsYd(a, j)}
           N == {j \in Nat : IsEx(new, th, j) \/ IsYd(b, j)}
<1>1. N = D \cup {h}
  <2> SUFFICES ASSUME NEW j
               PROVE  j \in N <=> j \in D \cup {h}
    OBVIOUS
  <2> QED  OBVIOUS
<1>2. \A j \in N : (IF IsEx(new, th, j) THEN "executing" ELSE "waiting")
                    = IF j = h THEN "executing" ELSE Shown(nat, a, th)[j]
  BY <1>1 DEF Shown
<1>3. DOMAIN Shown(nat, a, th) = D
  BY DEF Shown
<1>4. Shown(new, b, th) = [j \in N |-> IF IsEx(new, th, j) THEN "executing" ELSE "waiting"]
  BY DEF Shown
<1> HIDE DEF D, N
<1> QED  BY ONLY <1>1, <1>2, <1>3, <1>4 DEF AsActivations!With

(* A function returns, or yields with nothing to do afterwards. *)
LEMMA ShownPop ==
  ASSUME NEW nat, NEW a, NEW new, NEW b, NEW th, NEW h \in Nat,
         \A i : IsEx(nat, th, i) <=> IsEx(new, th, i) \/ i = h, ~IsEx(new, th, h),
         ~IsYd(b, h), \A i : i # h => (IsYd(b, i) <=> IsYd(a, i))
  PROVE  Shown(new, b, th) = AsActivations!Without(Shown(nat, a, th), h)
<1> DEFINE D == {j \in Nat : IsEx(nat, th, j) \/ IsYd(a, j)}
           N == {j \in Nat : IsEx(new, th, j) \/ IsYd(b, j)}
<1>1. N = D \ {h}
  <2> SUFFICES ASSUME NEW j
               PROVE  j \in N <=> j \in D \ {h}
    OBVIOUS
  <2> QED  OBVIOUS
<1>2. \A j \in N : (IF IsEx(new, th, j) THEN "executing" ELSE "waiting") = Shown(nat, a, th)[j]
  BY <1>1 DEF Shown
<1>3. DOMAIN Shown(nat, a, th) = D
  BY DEF Shown
<1>4. Shown(new, b, th) = [j \in N |-> IF IsEx(new, th, j) THEN "executing" ELSE "waiting"]
  BY DEF Shown
<1> HIDE DEF D, N
<1> QED  BY ONLY <1>1, <1>2, <1>3, <1>4 DEF AsActivations!Without

(* A function yields and waits to be continued. *)
LEMMA ShownYield ==
  ASSUME NEW nat, NEW a, NEW new, NEW th, NEW h \in Nat,
         \A i : IsEx(nat, th, i) <=> IsEx(new, th, i) \/ i = h, ~IsEx(new, th, h), IsYd(a, h)
  PROVE  Shown(new, a, th) = AsActivations!With(Shown(nat, a, th), h, "waiting")
<1> DEFINE D == {j \in Nat : IsEx(nat, th, j) \/ IsYd(a, j)}
           N == {j \in Nat : IsEx(new, th, j) \/ IsYd(a, j)}
<1>1. N = D \cup {h}
  <2> SUFFICES ASSUME NEW j
               PROVE  j \in N <=> j \in D \cup {h}
    OBVIOUS
  <2> QED  OBVIOUS
<1>2. \A j \in N : (IF IsEx(new, th, j) THEN "executing" ELSE "waiting")
                    = IF j = h THEN "waiting" ELSE Shown(nat, a, th)[j]
  BY <1>1 DEF Shown
<1>3. DOMAIN Shown(nat, a, th) = D
  BY DEF Shown
<1>4. Shown(new, a, th) = [j \in N |-> IF IsEx(new, th, j) THEN "executing" ELSE "waiting"]
  BY DEF Shown
<1> HIDE DEF D, N
<1> QED  BY ONLY <1>1, <1>2, <1>3, <1>4 DEF AsActivations!With

(* Frames are cut off. *)
LEMMA ShownDrop ==
  ASSUME NEW nat, NEW a, NEW new, NEW b, NEW th,
         \A i : IsEx(new, th, i) <=> IsEx(nat, th, i), \A i : IsYd(b, i) => IsYd(a, i)
  PROVE  /\ DOMAIN Shown(new, b, th) \subseteq DOMAIN Shown(nat, a, th)
         /\ Shown(new, b, th) = [i \in DOMAIN Shown(new, b, th) |-> Shown(nat, a, th)[i]]
         /\ \A i \in DOMAIN Shown(nat, a, th) \ DOMAIN Shown(new, b, th) :
              Shown(nat, a, th)[i] = "waiting" /\ IsYd(a, i) /\ ~IsYd(b, i)
<1> HIDE DEF IsEx, IsYd
<1>1. \A i : i \in DOMAIN Shown(new, b, th) <=> i \in Nat /\ (IsEx(new, th, i) \/ IsYd(b, i))
  BY DEF Shown
<1>2. \A i : i \in DOMAIN Shown(nat, a, th) <=> i \in Nat /\ (IsEx(nat, th, i) \/ IsYd(a, i))
  BY DEF Shown
<1>3. \A i \in DOMAIN Shown(nat, a, th) :
        Shown(nat, a, th)[i] = IF IsEx(nat, th, i) THEN "executing" ELSE "waiting"
  BY DEF Shown
<1>4. \A i \in DOMAIN Shown(new, b, th) :
        Shown(new, b, th)[i] = IF IsEx(new, th, i) THEN "executing" ELSE "waiting"
  BY DEF Shown
<1>5. Shown(new, b, th) = [i \in DOMAIN Shown(new, b, th) |-> Shown(new, b, th)[i]]
  BY DEF Shown
<1>6. \A i \in DOMAIN Shown(new, b, th) : i \in DOMAIN Shown(nat, a, th)
  BY <1>1, <1>2
<1>7. \A i \in DOMAIN Shown(new, b, th) : Shown(new, b, th)[i] = Shown(nat, a, th)[i]
  BY <1>3, <1>4, <1>6
<1> QED  BY <1>1, <1>2, <1>3, <1>5, <1>6, <1>7

(* The highest frame is the top, and what is above it is free. *)
LEMMA ShownTop ==
  ASSUME NEW nat, NEW c, NEW st, NEW nc, NEW bc, Sound(nat, c, st, nc, bc), NEW th \in Threads
  PROVE  LET s == Shown(nat, c[th], th)
             n == Len(c[th])
         IN  /\ \A k \in DOMAIN s : k \in 1 .. n
             /\ \A h \in Nat : h > n => AsActivations!IsFree(s, h)
             /\ IsEx(nat, th, n) => AsActivations!IsTop(s, n) /\ s[n] = "executing"
             /\ IsYd(c[th], n) /\ ~IsEx(nat, th, n) => AsActivations!IsTop(s, n) /\ s[n] = "waiting"
             /\ (\A i : ~IsEx(nat, th, i)) => \A k \in DOMAIN s : s[k] = "waiting"
<1> DEFINE s == Shown(nat, c[th], th)
           n == Len(c[th])
<1>1. n \in Nat
  BY LenProperties DEF Sound, Typed
<1>2. \A i : IsEx(nat, th, i) => i \in Nat /\ i \in 1 .. n
  BY ExInside
<1>3. \A k : k \in DOMAIN s <=> k \in Nat /\ (IsEx(nat, th, k) \/ IsYd(c[th], k))
  BY DEF Shown
<1>4. \A k \in DOMAIN s : s[k] = IF IsEx(nat, th, k) THEN "executing" ELSE "waiting"
  BY DEF Shown
<1>5. \A k \in DOMAIN s : k \in 1 .. n
  BY <1>2, <1>3 DEF IsYd
<1> HIDE DEF s, IsEx, Sound
<1>6. \A h \in Nat : h > n => \A k \in DOMAIN s : k < h
  BY <1>1, <1>5
<1>7. \A k \in DOMAIN s : k <= n
  BY <1>1, <1>5
<1> QED  BY <1>1, <1>3, <1>4, <1>5, <1>6, <1>7 DEF s, AsActivations!IsFree, AsActivations!IsTop

(* Frames that are shown when they wait. *)
LEMMA YdAppend ==
  ASSUME NEW a \in Seq(Frames), NEW f \in Frames
  PROVE  \A i : IsYd(Append(a, f), i) <=> IsYd(a, i) \/ (f = "yieldable" /\ i = Len(a) + 1)
<1>1. /\ Len(a) \in Nat /\ Len(Append(a, f)) = Len(a) + 1 /\ Append(a, f)[Len(a) + 1] = f
      /\ \A i \in 1 .. Len(a) : Append(a, f)[i] = a[i]
  BY AppendProperties, LenProperties
<1>2. \A i : i \in 1 .. Len(a) + 1 <=> i \in 1 .. Len(a) \/ i = Len(a) + 1
  BY <1>1
<1>3. Len(a) + 1 \notin 1 .. Len(a)
  BY <1>1
<1> QED  BY <1>1, <1>2, <1>3 DEF IsYd

LEMMA YdFront ==
  ASSUME NEW a \in Seq(Frames), a # <<>>
  PROVE  /\ \A i : IsYd(a, i) <=> IsYd(Front(a), i) \/ (Last(a) = "yieldable" /\ i = Len(a))
         /\ ~IsYd(Front(a), Len(a))
<1>1. /\ Len(a) \in Nat \ {0} /\ Len(Front(a)) = Len(a) - 1
      /\ \A i \in 1 .. Len(a) - 1 : Front(a)[i] = a[i]
  BY FrontOk, EmptySeq, LenProperties
<1>2. \A i : i \in 1 .. Len(a) <=> i \in 1 .. Len(a) - 1 \/ i = Len(a)
  BY <1>1
<1>3. Len(a) \notin 1 .. Len(a) - 1
  BY <1>1
<1> QED  BY <1>1, <1>2, <1>3 DEF IsYd, Last

LEMMA YdCut ==
  ASSUME NEW a \in Seq(Frames), NEW n \in Nat, n <= Len(a)
  PROVE  \A i : IsYd(SubSeq(a, 1, n), i) <=> IsYd(a, i) /\ i <= n
<1>1. /\ Len(SubSeq(a, 1, n)) = n /\ \A i \in 1 .. n : SubSeq(a, 1, n)[i] = a[i]
  BY CutOk
<1>2. \A i : i \in 1 .. n <=> i \in 1 .. Len(a) /\ i <= n
  <2>1. Len(a) \in Nat
    BY LenProperties
  <2> QED  BY <2>1
<1> QED  BY <1>1, <1>2 DEF IsYd
-----------------------------------------------------------------------------
(* What a step does to the chain of threads. *)
LEMMA ChainPush ==
  ASSUME NEW nat \in Seq(NativeFrame), NEW f \in NativeFrame
  PROVE  /\ f.kind # "resume" => ResumesOf(Append(nat, f)) = ResumesOf(nat)
         /\ f.kind = "resume" =>
              ResumesOf(Append(nat, f)) = AsActivations!With(ResumesOf(nat), Len(nat) + 1, f.th)
         /\ Len(nat) + 1 \in Nat /\ AsActivations!IsFree(ResumesOf(nat), Len(nat) + 1)
<1> DEFINE n == Len(nat)
           new == Append(nat, f)
           D == {0} \cup {j \in 1 .. Len(nat) : nat[j].kind = "resume"}
           N == {0} \cup {j \in 1 .. Len(new) : new[j].kind = "resume"}
<1>1. /\ n \in Nat /\ Len(new) = n + 1 /\ new[n + 1] = f
      /\ \A k \in 1 .. n : new[k] = nat[k]
  BY AppendProperties, LenProperties
<1> HIDE DEF new
<1>2. \A k : k \in 1 .. n + 1 <=> k \in 1 .. n \/ k = n + 1
  BY <1>1
<1>3. DOMAIN ResumesOf(nat) = D /\ \A k \in D : k = 0 \/ k \in 1 .. n
  BY DEF ResumesOf
<1>4. n + 1 # 0 /\ n + 1 \notin 1 .. n /\ \A k \in D : k < n + 1 /\ k # n + 1
  BY <1>1, <1>3
<1>5. CASE f.kind # "resume"
  <2>1. N = D
    BY <1>1, <1>2, <1>5
  <2>2. \A k \in D : (IF k = 0 THEN Main ELSE new[k].th) = IF k = 0 THEN Main ELSE nat[k].th
    BY <1>1, <1>3
  <2>3. ResumesOf(new) = [k \in N |-> IF k = 0 THEN Main ELSE new[k].th]
    BY DEF ResumesOf
  <2>4. ResumesOf(nat) = [k \in D |-> IF k = 0 THEN Main ELSE nat[k].th]
    BY DEF ResumesOf
  <2>5. ResumesOf(new) = ResumesOf(nat)
    <3> HIDE DEF D, N
    <3> QED  BY ONLY <2>1, <2>2, <2>3, <2>4
  <2> QED  BY <1>1, <1>3, <1>4, <1>5, <2>5 DEF AsActivations!IsFree, new
<1>6. CASE f.kind = "resume"
  <2>1. N = D \cup {n + 1}
    BY <1>1, <1>2, <1>6
  <2>2. \A k \in N : (IF k = 0 THEN Main ELSE new[k].th)
                      = IF k = n + 1 THEN f.th ELSE IF k = 0 THEN Main ELSE nat[k].th
    BY <1>1, <1>3, <1>4, <2>1
  <2>3. ResumesOf(new) = [k \in N |-> IF k = 0 THEN Main ELSE new[k].th]
    BY DEF ResumesOf
  <2>4. ResumesOf(nat) = [k \in D |-> IF k = 0 THEN Main ELSE nat[k].th]
    BY DEF ResumesOf
  <2>5. ResumesOf(new) = AsActivations!With(ResumesOf(nat), n + 1, f.th)
    <3> HIDE DEF D, N
    <3> QED  BY ONLY <1>4, <2>1, <2>2, <2>3, <2>4 DEF AsActivations!With
  <2> QED  BY <1>1, <1>3, <1>4, <1>6, <2>5 DEF AsActivations!IsFree, new
<1> QED  BY <1>5, <1>6

(* The same for a C frame that is popped. *)
LEMMA ChainPop ==
  ASSUME NEW nat \in Seq(NativeFrame), nat # <<>>
  PROVE  /\ nat[Len(nat)].kind # "resume" => ResumesOf(Front(nat)) = ResumesOf(nat)
         /\ nat[Len(nat)].kind = "resume" =>
              /\ ResumesOf(Front(nat)) = AsActivations!Without(ResumesOf(nat), Len(nat))
              /\ AsActivations!IsTop(ResumesOf(nat), Len(nat)) /\ Len(nat) # 0
<1> DEFINE n == Len(nat)
           new == Front(nat)
           D == {0} \cup {j \in 1 .. Len(nat) : nat[j].kind = "resume"}
           N == {0} \cup {j \in 1 .. Len(new) : new[j].kind = "resume"}
<1>1. /\ n \in Nat \ {0} /\ Len(new) = n - 1
      /\ \A k \in 1 .. n - 1 : new[k] = nat[k]
  BY BeginsFront DEF Begins
<1> HIDE DEF new
<1>2. /\ \A k : k \in 1 .. n <=> k \in 1 .. n - 1 \/ k = n
      /\ n \notin 1 .. n - 1
  BY <1>1
<1>3. DOMAIN ResumesOf(nat) = D /\ \A k \in D : k = 0 \/ k \in 1 .. n
  BY DEF ResumesOf
<1>4. /\ ResumesOf(new) = [k \in N |-> IF k = 0 THEN Main ELSE new[k].th]
      /\ ResumesOf(nat) = [k \in D |-> IF k = 0 THEN Main ELSE nat[k].th]
  BY DEF ResumesOf
<1>5. N = D \ {n} /\ (nat[n].kind # "resume" => n \notin D)
  BY <1>1, <1>2
<1>6. \A k \in N : (IF k = 0 THEN Main ELSE new[k].th) = IF k = 0 THEN Main ELSE nat[k].th
  BY <1>1
<1>7. \A k \in D : k <= n
  BY <1>1, <1>3
<1>8. nat[n].kind = "resume" => n \in D
  BY <1>1
<1>9. N \subseteq D
  BY <1>5
<1> HIDE DEF D, N
<1>10. ResumesOf(new) = AsActivations!Without(ResumesOf(nat), n)
  BY ONLY <1>4, <1>5, <1>6 DEF AsActivations!Without
<1>11. nat[n].kind # "resume" => ResumesOf(new) = ResumesOf(nat)
  <2>1. nat[n].kind # "resume" => N = D
    BY <1>5
  <2> QED  BY ONLY <1>4, <1>6, <2>1
<1> QED  BY <1>1, <1>3, <1>7, <1>8, <1>10, <1>11 DEF AsActivations!IsTop, new

(* The thread of the last resume is the one that runs. *)
LEMMA ChainCurrent ==
  ASSUME NEW nat \in Seq(NativeFrame), NEW c, Stacked(nat, c), NEW s, s = ResumesOf(nat)
  PROVE  s[CHOOSE h \in DOMAIN s : AsActivations!IsTop(s, h)] = At(nat, Len(nat)).th
<1> DEFINE n == Len(nat)
           S == {j \in 1 .. n : nat[j].kind = "resume"}
           O == {k \in 1 .. n : At(nat, k - 1).th # At(nat, n).th}
<1>1. n \in Nat
  BY LenProperties
<1>2. /\ DOMAIN s = {0} \cup S
      /\ \A k \in DOMAIN s : s[k] = At(nat, k).th
  BY DEF ResumesOf, At, Program
<1>3. PICK h \in {0} \cup S : \A k \in {0} \cup S : k <= h
  <2>1. CASE S = {}
    <3>1. 0 <= 0 /\ {0} \cup S = {0}
      BY <2>1
    <3> QED  BY <3>1
  <2>2. CASE S # {}
    <3>1. S \in SUBSET (1 .. n)
      OBVIOUS
    <3>2. Highest(S) \in S /\ \A j \in S : j <= Highest(S)
      BY ONLY <1>1, <2>2, <3>1, HighestOk
    <3>3. 0 <= Highest(S)
      BY <1>1, <3>2
    <3> QED  BY <3>2, <3>3
  <2> QED  BY <2>1, <2>2
<1>4. h \in 0 .. n
  BY <1>1
<1>5. \A k \in O : k <= h
  <2>1. CASE O = {}
    BY <2>1
  <2>2. CASE O # {}
    <3>1. O \in SUBSET (1 .. n)
      OBVIOUS
    <3> DEFINE m == Highest(O)
    <3>2. m \in O /\ \A j \in O : j <= m
      BY ONLY <1>1, <2>2, <3>1, HighestOk
    <3> HIDE DEF m
    <3>3. m \in 1 .. n /\ At(nat, m - 1).th # At(nat, n).th
      BY <3>2
    <3>4. At(nat, m).th = At(nat, n).th
      <4>1. CASE m = n
        BY <4>1
      <4>2. CASE m # n
        <5>1. PICK w \in 1 .. n : w = m + 1
          BY <1>1, <3>3, <4>2
        <5>2. w \notin O
          <6>1. ~(w <= m)
            BY <1>1, <3>3, <5>1
          <6> QED  BY <3>2, <6>1
        <5>3. At(nat, w - 1).th = At(nat, n).th
          BY <5>2
        <5>4. w - 1 = m
          BY <1>1, <3>3, <5>1
        <5> QED  BY ONLY <5>3, <5>4
      <4> QED  BY <4>1, <4>2
    <3>5. nat[m].kind = "resume"
      <4>1. Linked(nat, c, m) /\ At(nat, m) = nat[m]
        BY <1>1, <3>3 DEF Stacked, At
      <4> QED  BY <3>3, <3>4, <4>1 DEF Linked
    <3>6. m <= h
      BY <1>3, <3>3, <3>5
    <3> QED  BY <1>1, <1>4, <3>2, <3>3, <3>6
  <2> QED  BY <2>1, <2>2
<1>6. At(nat, h).th = At(nat, n).th
  <2>1. CASE h = n
    BY <2>1
  <2>2. CASE h # n
    <3>1. h + 1 \in 1 .. n /\ ~(h + 1 <= h) /\ h + 1 - 1 = h
      BY <1>1, <1>4, <2>2
    <3>2. h + 1 \notin O
      BY <1>5, <3>1
    <3> QED  BY <3>1, <3>2
  <2> QED  BY <2>1, <2>2
<1>7. \A k \in DOMAIN s : AsActivations!IsTop(s, k) => k = h
  <2>1. \A k \in DOMAIN s : k \in Nat
    BY <1>1, <1>2
  <2>2. ASSUME NEW k \in DOMAIN s, AsActivations!IsTop(s, k)
        PROVE  k = h
    <3>1. h <= k /\ k <= h
      BY <1>2, <1>3, <2>2 DEF AsActivations!IsTop
    <3> QED  BY <1>4, <2>1, <3>1
  <2> QED  BY <2>2
<1>8. h \in DOMAIN s /\ AsActivations!IsTop(s, h)
  BY <1>2, <1>3 DEF AsActivations!IsTop
<1> DEFINE g == CHOOSE k \in DOMAIN s : AsActivations!IsTop(s, k)
<1>9. g = h
  BY <1>7, <1>8
<1> QED  BY <1>2, <1>6, <1>8, <1>9

(* A coroutine that is not on the C stack is not in the chain. *)
LEMMA ChainMembers ==
  ASSUME NEW nat \in Seq(NativeFrame), NEW co \in Co, ~OnStack(nat, co), NEW s, s = ResumesOf(nat)
  PROVE  co \notin {s[k] : k \in DOMAIN s}
<1>1. \A k \in DOMAIN s : s[k] = Main \/ \E j \in 1 .. Len(nat) : s[k] = nat[j].th
  BY DEF ResumesOf
<1> QED  BY <1>1, CoroutinesAssumption DEF OnStack

(* A step of one thread. *)
Only(a, b, th, x) == b = [a EXCEPT ![th] = x] /\ b[th] = x
OthersShown(nat, c, new, d, th) ==
  \A u \in Threads : u # th => Shown(new, d[u], u) = Shown(nat, c[u], u)

LEMMA ViewOne ==
  ASSUME NEW nat, NEW c, NEW new, NEW d, NEW th \in Threads, OthersShown(nat, c, new, d, th)
  PROVE  /\ View(nat, c)[th] = Shown(nat, c[th], th)
         /\ Only(View(nat, c), View(new, d), th, Shown(new, d[th], th))
BY DEF View, Only, OthersShown

LEMMA ViewNone ==
  ASSUME NEW nat, NEW c, NEW new, NEW d,
         \A u \in Threads : Shown(new, d[u], u) = Shown(nat, c[u], u)
  PROVE  View(new, d) = View(nat, c)
BY DEF View
-----------------------------------------------------------------------------
(* Both states of a step, as Activations sees them. *)
LEMMA Mapping ==
  ASSUME IInv
  PROVE  /\ Acts = View(native, ci) /\ Resumes = ResumesOf(native)
         /\ native \in Seq(NativeFrame) /\ ci \in [Threads -> Seq(Frames)] /\ Running \in Threads
         /\ Running = At(native, Len(native)).th /\ AsActivations!Current = Running
         /\ AsActivations!Mine = Acts[Running]
         /\ Stacked(native, ci) /\ Sound(native, ci, status, nCcalls, baseCcalls)
<1>1. Acts = View(native, ci) /\ Resumes = ResumesOf(native)
  BY Views, ChainViews
<1>2. /\ native \in Seq(NativeFrame) /\ ci \in [Threads -> Seq(Frames)] /\ Running \in Threads
      /\ Running = At(native, Len(native)).th
      /\ Stacked(native, ci) /\ Sound(native, ci, status, nCcalls, baseCcalls)
  BY Facts DEF IInv, Sound, Typed
<1>3. AsActivations!Current = Running
  BY <1>1, <1>2, ChainCurrent DEF AsActivations!Current
<1> QED  BY <1>1, <1>2, <1>3 DEF AsActivations!Mine

(* The same after the step. *)
LEMMA MappingNext ==
  ASSUME IInv'
  PROVE  /\ Acts' = View(native', ci') /\ Resumes' = ResumesOf(native')
         /\ native' \in Seq(NativeFrame) /\ ci' \in [Threads -> Seq(Frames)]
         /\ Running' = At(native', Len(native')).th
         /\ Sound(native', ci', status', nCcalls', baseCcalls')
<1>1. Acts' = View(native', ci') /\ Resumes' = ResumesOf(native')
  BY ViewsNext, ChainViews
<1>2. /\ native' \in Seq(NativeFrame) /\ ci' \in [Threads -> Seq(Frames)]
      /\ Sound(native', ci', status', nCcalls', baseCcalls')
  BY DEF IInv, Sound, Typed
<1>3. native' = <<>> <=> Len(native') = 0
  BY <1>2, EmptySeq, LenProperties
<1>4. Running' = At(native', Len(native')).th
  BY <1>2, <1>3 DEF Running, Innermost, At, Program, Last
<1> QED  BY <1>1, <1>2, <1>4

(* Steps that Activations does not see. *)
LEMMA Stutters ==
  ASSUME IInv, IInv',
         \A u \in Threads : Shown(native', ci'[u], u) = Shown(native, ci[u], u),
         ResumesOf(native') = ResumesOf(native), Yielding' = Yielding
  PROVE  UNCHANGED AsActivations!vars
<1>1. View(native', ci') = View(native, ci)
  BY ViewNone
<1> QED  BY <1>1, Mapping, MappingNext DEF AsActivations!vars

(* A call: the new frame is the last, and its function begins to execute if it is *)
(* one of Kotlin.                                                                  *)
LEMMA Enters ==
  ASSUME IInv, IInv', NEW th, th = Running, status[th] = "OK", status'[th] # "YIELD",
         NEW nat \in Seq(NativeFrame), \A u, i : IsEx(nat, u, i) <=> IsEx(native, u, i),
         ResumesOf(nat) = ResumesOf(native), At(nat, Len(nat)).th = th,
         NEW frames \in Seq(Frames), Len(frames) > Len(ci[th]), ci' = [ci EXCEPT ![th] = frames],
         \A i : i # Len(frames) => (IsYd(frames, i) <=> IsYd(ci[th], i)),
         NEW entry \in {"start", "invoke", "cont"}, native' = WithTrampoline(nat, th, frames, entry)
  PROVE  AsActivations!Invoke \/ UNCHANGED AsActivations!vars
<1> DEFINE h == Len(frames)
<1>1. /\ th \in Threads /\ ci'[th] = frames /\ \A u \in Threads : u # th => ci'[u] = ci[u]
      /\ h \in Nat \ {0} /\ Len(ci[th]) \in Nat /\ frames # <<>> /\ ci[th] \in Seq(Frames)
  <2>1. th \in Threads /\ ci \in [Threads -> Seq(Frames)]
    BY Mapping
  <2>2. h \in Nat /\ Len(ci[th]) \in Nat /\ ci[th] \in Seq(Frames)
    BY <2>1, LenProperties
  <2>3. h \in Nat \ {0}
    BY <2>2
  <2> QED  BY <2>1, <2>2, <2>3, EmptySeq
<1>2. ~Yielding
  BY DEF Yielding
<1>3. ~IsYd(ci[th], h)
  BY <1>1 DEF IsYd
<1>4. CASE Last(frames) \in KotlinFrames
  <2> DEFINE f == [kind |-> "callback", th |-> th, at |-> h, entry |-> entry]
  <2>1. native' = Append(nat, f) /\ f \in NativeFrame
    BY <1>1, <1>4 DEF WithTrampoline, NativeFrame
  <2>2. \A u, i : IsEx(native', u, i) <=> IsEx(native, u, i) \/ (u = th /\ i = h)
    BY <2>1, ExMore
  <2>3. ASSUME NEW u \in Threads, u # th
        PROVE  Shown(native', ci'[u], u) = Shown(native, ci[u], u)
    BY <1>1, <2>2, <2>3, ShownSame
  <2>4. Shown(native', frames, th) = AsActivations!With(Shown(native, ci[th], th), h, "executing")
    BY <1>1, <2>2, ShownPush
  <2>5. /\ Acts' = [Acts EXCEPT ![th] = AsActivations!With(Acts[th], h, "executing")]
        /\ Acts[th] = Shown(native, ci[th], th) /\ Acts'[th] = AsActivations!With(Acts[th], h, "executing")
    <3>1. OthersShown(native, ci, native', ci', th)
      BY <2>3 DEF OthersShown
    <3>2. /\ View(native, ci)[th] = Shown(native, ci[th], th)
          /\ Only(View(native, ci), View(native', ci'), th, Shown(native', ci'[th], th))
      BY ONLY <1>1, <3>1, ViewOne
    <3>3. Acts = View(native, ci) /\ Acts' = View(native', ci')
      BY Mapping, MappingNext
    <3> QED  BY ONLY <1>1, <2>4, <3>2, <3>3 DEF Only
  <2>6. h \in DOMAIN Acts'[th]
    BY <2>5 DEF AsActivations!With
  <2>7. AsActivations!IsFree(Acts[th], h)
    BY <1>1, <2>5, Mapping, ShownTop
  <2>8. Resumes' = Resumes
    BY <2>1, ChainPush, Mapping, MappingNext
  <2>9. Yielding' = Yielding
    <3>1. At(native', Len(native')) = f
      BY <2>1, BeginsAppend DEF At
    <3>2. Running' = th
      BY <3>1, MappingNext
    <3> QED  BY <1>2, <3>2 DEF Yielding
  <2>10. AsActivations!Mine = Acts[th] /\ AsActivations!Current = th
    BY Mapping
  <2> HIDE DEF h
  <2> QED  BY ONLY <1>2, <2>5, <2>6, <2>7, <2>8, <2>9, <2>10 DEF AsActivations!Invoke
<1>5. CASE Last(frames) \notin KotlinFrames
  <2>1. native' = nat
    BY <1>5 DEF WithTrampoline
  <2>2. ~IsYd(frames, h)
    BY <1>5 DEF IsYd, Last, KotlinFrames
  <2>3. \A i : IsYd(frames, i) <=> IsYd(ci[th], i)
    BY <1>3, <2>2
  <2>4. ASSUME NEW u \in Threads
        PROVE  Shown(native', ci'[u], u) = Shown(native, ci[u], u)
    <3>1. \A i : IsEx(native', u, i) <=> IsEx(native, u, i)
      BY <2>1
    <3>2. \A i : IsYd(ci'[u], i) <=> IsYd(ci[u], i)
      BY <1>1, <2>3
    <3> QED  BY ONLY <3>1, <3>2, ShownSame
  <2>5. Yielding' = Yielding
    <3>1. Running' = th
      BY <2>1, MappingNext
    <3> QED  BY <1>2, <3>1 DEF Yielding
  <2>6. ResumesOf(native') = ResumesOf(native)
    BY <2>1
  <2> QED  BY <1>2, <2>4, <2>5, <2>6, Stutters
<1> QED  BY <1>4, <1>5

LEMMA LuaCallsActs ==
  ASSUME IInv, IInv', NEW th \in Threads, NEW f \in KotlinFrames \cup {"lua"}, LuaCalls(th, f)
  PROVE  AsActivations!Invoke \/ UNCHANGED AsActivations!vars
<1> DEFINE frames == Append(ci[th], f)
<1>1. /\ LuaRuns(th) /\ ci' = [ci EXCEPT ![th] = frames] /\ status' = status
      /\ native' = WithTrampoline(native, th, frames, "invoke")
  BY DEF LuaCalls
<1>2. th = Running /\ status[th] = "OK" /\ status'[th] # "YIELD"
  BY <1>1, LuaFacts
<1>3. ci[th] \in Seq(Frames) /\ f \in Frames
  BY Mapping DEF Frames, KotlinFrames, LuaFrames
<1>4. frames \in Seq(Frames) /\ Len(frames) = Len(ci[th]) + 1 /\ Len(ci[th]) \in Nat
  BY <1>3, AppendProperties, LenProperties
<1>5. \A i : i # Len(frames) => (IsYd(frames, i) <=> IsYd(ci[th], i))
  BY <1>3, <1>4, YdAppend
<1>6. Len(frames) > Len(ci[th])
  BY <1>4
<1>7. native \in Seq(NativeFrame) /\ At(native, Len(native)).th = th
  BY <1>2, Mapping
<1> HIDE DEF frames
<1> QED  BY <1>1, <1>2, <1>4, <1>5, <1>6, <1>7, Enters

LEMMA KotlinCallsActs ==
  ASSUME IInv, IInv', NEW th \in Threads, NEW f \in KotlinFrames \cup {"entry"}, KotlinCalls(th, f)
  PROVE  AsActivations!Invoke \/ UNCHANGED AsActivations!vars
<1> DEFINE frames == Append(ci[th], f)
           g == Guard("call", th, Len(ci[th]))
           nat == Append(native, g)
<1>1. /\ KotlinRuns /\ Running = th /\ ci' = [ci EXCEPT ![th] = frames] /\ status' = status
      /\ native' = WithTrampoline(nat, th, frames, "invoke")
  BY DEF KotlinCalls
<1>2. th = Running /\ status[th] = "OK" /\ status'[th] # "YIELD"
  BY <1>1, KotlinFacts
<1>3. ci[th] \in Seq(Frames) /\ f \in Frames
  BY Mapping DEF Frames, KotlinFrames, LuaFrames
<1>4. frames \in Seq(Frames) /\ Len(frames) = Len(ci[th]) + 1 /\ Len(ci[th]) \in Nat
  BY <1>3, AppendProperties, LenProperties
<1>5. \A i : i # Len(frames) => (IsYd(frames, i) <=> IsYd(ci[th], i))
  BY <1>3, <1>4, YdAppend
<1>6. Len(frames) > Len(ci[th])
  BY <1>4
<1>7. g \in NativeFrame /\ g.kind = "call" /\ g.th = th
  <2>1. nCcalls[th] \in 0 .. HardLimit /\ baseCcalls[th] \in 0 .. HardLimit
    BY <1>2, Facts
  <2> QED  BY <1>4, <2>1 DEF Guard, NativeFrame
<1> HIDE DEF frames, g
<1>8. native \in Seq(NativeFrame)
  BY Mapping
<1>9. nat \in Seq(NativeFrame) /\ At(nat, Len(nat)).th = th
  BY <1>7, <1>8, AppendProperties, BeginsAppend DEF At
<1>10. ResumesOf(nat) = ResumesOf(native) /\ \A u, i : IsEx(nat, u, i) <=> IsEx(native, u, i)
  BY <1>7, <1>8, ChainPush, ExMore
<1> HIDE DEF nat
<1> QED  BY <1>1, <1>2, <1>4, <1>5, <1>6, <1>9, <1>10, Enters

(* pcall and the frame it calls. *)
Protected(a, f, b) == b = a \o <<"pcall", f>>

LEMMA YdPcall ==
  ASSUME NEW a \in Seq(Frames), NEW f \in Frames, NEW b, Protected(a, f, b)
  PROVE  /\ b \in Seq(Frames) /\ Len(b) = Len(a) + 2
         /\ \A i : i # Len(b) => (IsYd(b, i) <=> IsYd(a, i))
         /\ Last(b) = f
<1> DEFINE n == Len(a)
<1>1. n \in Nat /\ <<"pcall", f>> \in Seq(Frames) /\ Len(<<"pcall", f>>) = 2
  BY LenProperties DEF Frames, WithCont
<1>2. /\ b \in Seq(Frames) /\ Len(b) = n + 2
      /\ \A i \in 1 .. Len(b) : b[i] = IF i <= n THEN a[i] ELSE <<"pcall", f>>[i - n]
  BY <1>1, ConcatProperties DEF Protected
<1>3. \A i : i \in 1 .. n + 2 <=> i \in 1 .. n \/ i = n + 1 \/ i = n + 2
  BY <1>1
<1>4. /\ n + 1 - n = 1 /\ n + 2 - n = 2 /\ ~(n + 1 <= n) /\ ~(n + 2 <= n) /\ \A i \in 1 .. n : i <= n
      /\ n + 1 \notin 1 .. n /\ n + 2 \notin 1 .. n /\ n + 2 \in 1 .. n + 2 /\ n + 1 \in 1 .. n + 2
  BY <1>1
<1>5. <<"pcall", f>>[1] = "pcall" /\ <<"pcall", f>>[2] = f
  OBVIOUS
<1> HIDE DEF n
<1>6. b[n + 1] = "pcall" /\ b[n + 2] = f /\ \A i \in 1 .. n : b[i] = a[i]
  <2>1. /\ n + 1 \in 1 .. Len(b) /\ n + 2 \in 1 .. Len(b)
        /\ \A i \in 1 .. n : i \in 1 .. Len(b) /\ i <= n
    BY ONLY <1>2, <1>3, <1>4
  <2>2. ASSUME NEW x \in {1, 2}, NEW i \in 1 .. Len(b), i = n + x
        PROVE  b[i] = <<"pcall", f>>[x]
    <3>1. ~(i <= n) /\ i - n = x
      BY <1>1, <2>2 DEF n
    <3>2. b[i] = <<"pcall", f>>[i - n]
      BY ONLY <1>2, <3>1, i \in 1 .. Len(b)
    <3> QED  BY ONLY <3>1, <3>2
  <2>4. b[n + 1] = <<"pcall", f>>[1] /\ b[n + 2] = <<"pcall", f>>[2]
    BY <2>1, <2>2
  <2>3. \A i \in 1 .. n : b[i] = a[i]
    BY ONLY <1>2, <2>1
  <2> QED  BY ONLY <1>5, <2>3, <2>4
<1>7. \A i : i # n + 2 => (IsYd(b, i) <=> IsYd(a, i))
  BY ONLY <1>2, <1>3, <1>4, <1>6 DEF IsYd, n
<1> QED  BY <1>2, <1>6, <1>7 DEF Last, n

LEMMA LuaPcallsActs ==
  ASSUME IInv, IInv', NEW th \in Threads, NEW f \in KotlinFrames \cup {"entry"}, LuaPcalls(th, f)
  PROVE  AsActivations!Invoke \/ UNCHANGED AsActivations!vars
<1> DEFINE frames == ci[th] \o <<"pcall", f>>
           g == Guard("pcall", th, Len(ci[th]) + 1)
           mid == Append(native, g)
<1>1. /\ LuaRuns(th) /\ ci' = [ci EXCEPT ![th] = frames]
      /\ IF f \in LuaFrames /\ lua_isyieldable(th)
         THEN status' = [status EXCEPT ![th] = "REENTRY"] /\ native' = native
         ELSE status' = status /\ native' = WithTrampoline(mid, th, frames, "invoke")
  BY DEF LuaPcalls
<1>2. th = Running /\ status[th] = "OK" /\ status \in [Threads -> {"OK", "YIELD", "REENTRY", "ERRRUN"}]
  BY <1>1, LuaFacts, Facts DEF Typed
<1>3. ci[th] \in Seq(Frames) /\ f \in Frames /\ Len(ci[th]) \in Nat
  BY Mapping, LenProperties DEF Frames, KotlinFrames, LuaFrames
<1>4. /\ frames \in Seq(Frames) /\ Len(frames) = Len(ci[th]) + 2 /\ Last(frames) = f
      /\ \A i : i # Len(frames) => (IsYd(frames, i) <=> IsYd(ci[th], i))
  <2>1. Protected(ci[th], f, frames)
    BY DEF Protected
  <2> HIDE DEF frames
  <2> QED  BY ONLY <1>3, <2>1, YdPcall
<1>5. Len(frames) > Len(ci[th]) /\ status'[th] # "YIELD"
  BY <1>1, <1>2, <1>3, <1>4
<1>6. g \in NativeFrame /\ g.kind = "pcall" /\ g.th = th
  <2>1. nCcalls[th] \in 0 .. HardLimit /\ baseCcalls[th] \in 0 .. HardLimit
    BY <1>2, Facts
  <2> QED  BY <1>3, <2>1 DEF Guard, NativeFrame
<1>7. native \in Seq(NativeFrame) /\ At(native, Len(native)).th = th
  BY <1>2, Mapping
<1> HIDE DEF frames, g
<1>8. mid \in Seq(NativeFrame) /\ At(mid, Len(mid)).th = th
  BY <1>6, <1>7, AppendProperties, BeginsAppend DEF At
<1>9. ResumesOf(mid) = ResumesOf(native) /\ \A u, i : IsEx(mid, u, i) <=> IsEx(native, u, i)
  BY <1>6, <1>7, ChainPush, ExMore
<1> HIDE DEF mid
<1>10. CASE f \in LuaFrames /\ lua_isyieldable(th)
  <2>1. native' = WithTrampoline(native, th, frames, "invoke")
    BY <1>1, <1>4, <1>10 DEF WithTrampoline, LuaFrames, KotlinFrames
  <2> QED  BY <1>1, <1>2, <1>4, <1>5, <1>7, <2>1, Enters
<1>11. CASE ~(f \in LuaFrames /\ lua_isyieldable(th))
  <2>1. native' = WithTrampoline(mid, th, frames, "invoke")
    BY <1>1, <1>11
  <2> QED  BY <1>1, <1>2, <1>4, <1>5, <1>8, <1>9, <2>1, Enters
<1> QED  BY <1>10, <1>11
-----------------------------------------------------------------------------
(* Steps of which no activation takes notice. *)
SameEx(nat, new) == \A u \in Threads : \A i : IsEx(new, u, i) <=> IsEx(nat, u, i)
SameYd(c, d) == \A u \in Threads : \A i : IsYd(d[u], i) <=> IsYd(c[u], i)

LEMMA YdOne ==
  ASSUME NEW th \in Threads, ci \in [Threads -> Seq(Frames)], NEW frames, ci' = [ci EXCEPT ![th] = frames],
         \A i : IsYd(frames, i) <=> IsYd(ci[th], i)
  PROVE  SameYd(ci, ci')
BY DEF SameYd

(* They show the same activations and the same chain. *)
LEMMA Quiet ==
  ASSUME IInv, IInv', SameEx(native, native'), SameYd(ci, ci'),
         ResumesOf(native') = ResumesOf(native), Yielding' = Yielding
  PROVE  UNCHANGED AsActivations!vars
<1>1. ASSUME NEW u \in Threads
      PROVE  Shown(native', ci'[u], u) = Shown(native, ci[u], u)
  <2>1. /\ \A i : IsEx(native', u, i) <=> IsEx(native, u, i)
        /\ \A i : IsYd(ci'[u], i) <=> IsYd(ci[u], i)
    BY DEF SameEx, SameYd
  <2> QED  BY ONLY <2>1, ShownSame
<1> QED  BY <1>1, Stutters

(* The C stack stays as it is. *)
LEMMA QuietVm ==
  ASSUME IInv, IInv', NEW th, th = Running, native' = native, SameYd(ci, ci'),
         status'[th] = "YIELD" <=> status[th] = "YIELD"
  PROVE  UNCHANGED AsActivations!vars
<1>1. SameEx(native, native') /\ ResumesOf(native') = ResumesOf(native)
  BY DEF SameEx
<1>2. Running' = Running
  BY Mapping, MappingNext
<1>3. Yielding' = Yielding
  BY <1>2 DEF Yielding
<1> QED  BY <1>1, <1>3, Quiet

(* A call or a pcall is left. *)
LEMMA QuietPop ==
  ASSUME IInv, IInv', native # <<>>, Innermost.kind \in {"call", "pcall"}, native' = Front(native),
         SameYd(ci, ci'), status' = status
  PROVE  UNCHANGED AsActivations!vars
<1>1. /\ native \in Seq(NativeFrame) /\ Innermost = native[Len(native)] /\ Len(native) \in Nat \ {0}
      /\ Linked(native, ci, Len(native)) /\ Running = Innermost.th
  BY Facts, TopFacts
<1>2. SameEx(native, native')
  BY <1>1, ExFewer DEF SameEx
<1>3. ResumesOf(native') = ResumesOf(native)
  BY <1>1, ChainPop
<1>4. Running' = Running
  <2>1. Running = At(native, Len(native) - 1).th
    BY <1>1 DEF Linked
  <2>2. Len(native') = Len(native) - 1 /\ At(native', Len(native) - 1) = At(native, Len(native) - 1)
    <3>1. Begins(native', native, Len(native) - 1) /\ Len(native') = Len(native) - 1
      BY <1>1, BeginsFront
    <3>2. Len(native) - 1 \in 0 .. Len(native) - 1
      BY <1>1
    <3> QED  BY <3>1, <3>2, AlikeAt
  <2> QED  BY <2>1, <2>2, MappingNext
<1>5. Yielding' = Yielding
  BY <1>4 DEF Yielding
<1> QED  BY <1>2, <1>3, <1>5, Quiet

LEMMA LuaReturnsActs ==
  ASSUME IInv, IInv', NEW th \in Threads, LuaReturns(th)
  PROVE  UNCHANGED AsActivations!vars
<1>1. /\ th = Running /\ native' = native /\ ci' = [ci EXCEPT ![th] = Front(ci[th])] /\ status' = status
      /\ ci[th] # <<>> /\ Last(ci[th]) \in LuaFrames
  BY LuaFacts DEF LuaReturns
<1>2. ci \in [Threads -> Seq(Frames)] /\ ci[th] \in Seq(Frames)
  BY Mapping
<1>3. \A i : IsYd(Front(ci[th]), i) <=> IsYd(ci[th], i)
  BY <1>1, <1>2, YdFront DEF LuaFrames
<1>4. SameYd(ci, ci')
  BY ONLY <1>1, <1>2, <1>3, th \in Threads, YdOne
<1> QED  BY <1>1, <1>4, QuietVm

LEMMA ReenterActs ==
  ASSUME IInv, IInv', NEW th \in Threads, Reenter(th)
  PROVE  UNCHANGED AsActivations!vars
<1>1. /\ th = Running /\ native' = native /\ ci' = ci /\ status[th] = "REENTRY" /\ status'[th] = "OK"
  BY Facts DEF Reenter, VmRuns, Typed
<1>2. SameYd(ci, ci')
  BY <1>1 DEF SameYd
<1> QED  BY <1>1, <1>2, QuietVm

LEMMA KotlinResumesDeadActs ==
  ASSUME IInv, IInv', NEW th \in Threads, NEW co \in Co, KotlinResumesDead(th, co)
  PROVE  UNCHANGED AsActivations!vars
<1>1. /\ th = Running /\ native' = native /\ ci' = ci /\ status[th] = "OK"
      /\ status' = [status EXCEPT ![co] = "ERRRUN"]
  BY KotlinFacts DEF KotlinResumesDead
<1>2. SameYd(ci, ci')
  BY <1>1 DEF SameYd
<1>3. status'[th] # "YIELD"
  BY <1>1, Facts DEF Typed
<1> QED  BY <1>1, <1>2, <1>3, QuietVm

LEMMA CallReturnsActs ==
  ASSUME IInv, IInv', NEW th \in Threads, CallReturns(th)
  PROVE  UNCHANGED AsActivations!vars
<1>1. native # <<>> /\ Innermost.kind = "call" /\ native' = Front(native) /\ ci' = ci /\ status' = status
  BY DEF CallReturns, VmRuns, KotlinRuns, Innermost
<1>2. SameYd(ci, ci')
  BY <1>1 DEF SameYd
<1> QED  BY <1>1, <1>2, QuietPop

LEMMA PcallReturnsActs ==
  ASSUME IInv, IInv', NEW th \in Threads, PcallReturns(th)
  PROVE  UNCHANGED AsActivations!vars
<1>1. /\ native # <<>> /\ Innermost.kind = "pcall" /\ native' = Front(native) /\ status' = status
      /\ Running = th /\ CallOver(th)
      /\ ci' = IF isyielded(th) THEN ci ELSE [ci EXCEPT ![th] = Front(ci[th])]
  BY DEF PcallReturns, VmRuns, KotlinRuns, Innermost
<1>2. CASE isyielded(th)
  <2>1. SameYd(ci, ci')
    BY <1>1, <1>2 DEF SameYd
  <2> QED  BY <1>1, <2>1, QuietPop
<1>3. CASE ~isyielded(th)
  <2>1. ci' = [ci EXCEPT ![th] = Front(ci[th])] /\ Len(ci[th]) = Innermost.at
    BY <1>1, <1>3 DEF CallOver
  <2>2. /\ ci \in [Threads -> Seq(Frames)] /\ ci[th] \in Seq(Frames) /\ Len(ci[th]) \in Nat
        /\ Linked(native, ci, Len(native)) /\ Innermost = native[Len(native)]
        /\ At(native, Len(native) - 1).at \in Nat /\ Innermost.th = th
    BY <1>1, Mapping, TopFacts, LenProperties, Facts
  <2>3. Innermost.at > At(native, Len(native) - 1).at /\ ci[th][Innermost.at] = "pcall"
    BY <1>1, <2>2 DEF Linked
  <2>4. Len(ci[th]) # 0
    <3> DEFINE x == At(native, Len(native) - 1).at
    <3>1. x \in Nat /\ Innermost.at > x /\ Innermost.at = Len(ci[th])
      BY <2>1, <2>2, <2>3
    <3> HIDE DEF x
    <3> QED  BY <2>2, <3>1
  <2>5. ci[th] # <<>> /\ Last(ci[th]) # "yieldable"
    BY <2>1, <2>2, <2>3, <2>4, EmptySeq DEF Last
  <2>6. \A i : IsYd(Front(ci[th]), i) <=> IsYd(ci[th], i)
    BY <2>2, <2>5, YdFront
  <2>7. SameYd(ci, ci')
    BY ONLY <2>1, <2>2, <2>6, th \in Threads, YdOne
  <2> QED  BY <1>1, <2>7, QuietPop
<1> QED  BY <1>2, <1>3
-----------------------------------------------------------------------------
(* Where a yield can unwind the C stack, it belongs to a coroutine, of which *)
(* only the function on top may execute.                                     *)
LEMMA Alone ==
  ASSUME NEW nat \in Seq(NativeFrame), NEW c, Stacked(nat, c), Unwindable(nat, Len(nat)),
         NEW th, th = At(nat, Len(nat)).th
  PROVE  /\ th # Main
         /\ nat[Len(nat)].kind # "callback" => \A i : ~IsEx(nat, th, i)
<1> DEFINE n == Len(nat)
<1>1. n \in Nat
  BY LenProperties
<1>2. PICK r \in 1 .. n : /\ nat[r].kind = "resume"
                          /\ \A k \in r + 1 .. n : nat[k].kind = "pcall" \/ (nat[k].kind = "callback" /\ k = n)
  BY DEF Unwindable
<1>3. \A j \in 0 .. r - 1 : At(nat, j).th # th
  BY <1>2, ThreadsApart
<1>4. th # Main
  <2>1. 0 \in 0 .. r - 1
    BY <1>1
  <2> QED  BY <1>3, <2>1 DEF At, Program
<1>5. ASSUME nat[n].kind # "callback", NEW i, IsEx(nat, th, i)
      PROVE  FALSE
  <2>1. PICK k \in 1 .. n : nat[k].kind = "callback" /\ nat[k].th = th
    BY <1>5 DEF IsEx
  <2>2. k # n /\ k # r
    BY <1>2, <1>5, <2>1
  <2>3. CASE k < r
    <3>1. k \in 0 .. r - 1 /\ At(nat, k) = nat[k]
      BY <1>1, <2>3 DEF At
    <3> QED  BY <1>3, <2>1, <3>1
  <2>4. CASE k > r
    <3>1. k \in r + 1 .. n
      BY <1>1, <2>4
    <3> QED  BY <1>2, <2>1, <2>2, <3>1
  <2>5. k < r \/ k > r
    BY <1>1, <2>2
  <2> QED  BY <2>3, <2>4, <2>5
<1> QED  BY <1>4, <1>5

(* The innermost lua_resume of a thread has nothing of it below. *)
LEMMA FreshResume ==
  ASSUME IInv, native # <<>>, Innermost.kind = "resume"
  PROVE  \A i : ~IsEx(native, Running, i)
<1>1. /\ Len(native) \in Nat \ {0} /\ Innermost = native[Len(native)]
      /\ native \in Seq(NativeFrame) /\ Stacked(native, ci) /\ Running = At(native, Len(native)).th
  BY TopFacts, Mapping
<1>2. Unwindable(native, Len(native))
  <2>1. Len(native) \in 1 .. Len(native) /\ Len(native) + 1 .. Len(native) = {}
    BY <1>1
  <2> QED  BY <1>1, <2>1 DEF Unwindable
<1> QED  BY <1>1, <1>2, Alone

LEMMA LuaYieldsActs ==
  ASSUME IInv, IInv', NEW th \in Threads, LuaYields(th)
  PROVE  AsActivations!Yield
<1>1. /\ LuaRuns(th) /\ lua_isyieldable(th) /\ native' = native
      /\ ci' = [ci EXCEPT ![th] = Append(ci[th], "coyield")] /\ status' = [status EXCEPT ![th] = "YIELD"]
  BY DEF LuaYields
<1>2. th = Running /\ status[th] = "OK" /\ native # <<>> /\ ~IsKotlin(Innermost)
  BY <1>1, LuaFacts
<1>3. /\ native \in Seq(NativeFrame) /\ ci \in [Threads -> Seq(Frames)] /\ ci[th] \in Seq(Frames)
      /\ Stacked(native, ci) /\ th = At(native, Len(native)).th /\ Innermost = native[Len(native)]
      /\ status \in [Threads -> {"OK", "YIELD", "REENTRY", "ERRRUN"}]
  BY <1>2, Mapping, TopFacts, Facts DEF Typed
<1>4. Unwindable(native, Len(native))
  BY <1>1, <1>2, TopFacts DEF lua_isyieldable
<1>5. th # Main /\ \A i : ~IsEx(native, th, i)
  BY <1>2, <1>3, <1>4, Alone DEF IsKotlin
<1>6. \A i : IsYd(Append(ci[th], "coyield"), i) <=> IsYd(ci[th], i)
  <2>1. "coyield" \in Frames
    BY DEF Frames
  <2> QED  BY <1>3, <2>1, YdAppend
<1>7. SameYd(ci, ci')
  BY ONLY <1>1, <1>3, <1>6, th \in Threads, YdOne
<1>8. Acts' = Acts
  <2>1. ASSUME NEW u \in Threads
        PROVE  Shown(native', ci'[u], u) = Shown(native, ci[u], u)
    <3>1. /\ \A i : IsEx(native', u, i) <=> IsEx(native, u, i)
          /\ \A i : IsYd(ci'[u], i) <=> IsYd(ci[u], i)
      BY <1>1, <1>7 DEF SameYd
    <3> QED  BY ONLY <3>1, ShownSame
  <2>2. View(native', ci') = View(native, ci)
    BY ONLY <2>1, ViewNone
  <2> QED  BY <2>2, Mapping, MappingNext
<1>9. \A h \in DOMAIN Acts[th] : Acts[th][h] # "executing"
  <2>1. Acts[th] = Shown(native, ci[th], th)
    BY Mapping DEF View
  <2> QED  BY <1>5, <2>1 DEF Shown
<1>10. /\ Resumes' = Resumes
       /\ ~Yielding /\ Yielding' = TRUE
  <2>1. Running' = Running
    BY <1>1, Mapping, MappingNext
  <2>2. Resumes' = Resumes
    BY <1>1, Mapping, MappingNext
  <2> QED  BY <1>1, <1>2, <1>3, <2>1, <2>2 DEF Yielding
<1>11. AsActivations!Current = th /\ AsActivations!Mine = Acts[th]
  BY <1>2, Mapping
<1> QED  BY ONLY <1>5, <1>8, <1>9, <1>10, <1>11 DEF AsActivations!Yield, AsActivations!TopIs

(* A callback gives its C activation up: what is shown, and who runs. *)
LEMMA Leaves ==
  ASSUME IInv, IInv', KotlinRuns, native # <<>>, native' = Front(native), NEW th, th = Running,
         \A u \in Threads : u # th => ci'[u] = ci[u]
  PROVE  /\ th \in Threads /\ ci[th] # <<>> /\ Last(ci[th]) \in KotlinFrames /\ status[th] = "OK"
         /\ Len(ci[th]) \in Nat /\ ci[th] \in Seq(Frames)
         /\ \A i : IsEx(native, th, i) <=> IsEx(native', th, i) \/ i = Len(ci[th])
         /\ ~IsEx(native', th, Len(ci[th]))
         /\ OthersShown(native, ci, native', ci', th)
         /\ Resumes' = Resumes /\ Running' = th
         /\ Acts[th] = Shown(native, ci[th], th)
         /\ AsActivations!TopIs(Len(ci[th]), "executing") /\ Len(ci[th]) \in DOMAIN Acts[th]
         /\ AsActivations!Current = th /\ AsActivations!Mine = Acts[th]
<1> DEFINE h == Len(ci[th])
           f == native[Len(native)]
<1>1. /\ th \in Threads /\ ci[th] # <<>> /\ Last(ci[th]) \in KotlinFrames /\ status[th] = "OK"
      /\ Len(native) \in Nat \ {0} /\ Innermost = f /\ f.kind = "callback" /\ f.th = th /\ f.at = h
      /\ At(native, Len(native) - 1).th = th
  BY KotlinFacts, TopFacts, Facts
<1>2. /\ native \in Seq(NativeFrame) /\ ci[th] \in Seq(Frames) /\ h \in Nat /\ Stacked(native, ci)
      /\ Sound(native, ci, status, nCcalls, baseCcalls)
  BY <1>1, Mapping, LenProperties
<1>3. \A u, i : IsEx(native, u, i) <=> IsEx(native', u, i) \/ (u = th /\ i = h)
  BY <1>1, <1>2, ExFewer
<1>4. ~IsEx(native', th, h)
  <2>1. \A i : IsEx(Front(native), f.th, i) => i < f.at
    BY <1>1, <1>2, ExOnce
  <2>2. ~(h < h)
    BY <1>2
  <2> HIDE DEF h, f
  <2> QED  BY <1>1, <2>1, <2>2
<1>5. OthersShown(native, ci, native', ci', th)
  <2>1. ASSUME NEW u \in Threads, u # th
        PROVE  Shown(native', ci'[u], u) = Shown(native, ci[u], u)
    <3>1. /\ \A i : IsEx(native', u, i) <=> IsEx(native, u, i)
          /\ \A i : IsYd(ci'[u], i) <=> IsYd(ci[u], i)
      BY <1>3, <2>1
    <3> QED  BY ONLY <3>1, ShownSame
  <2> QED  BY <2>1 DEF OthersShown
<1>6. Resumes' = Resumes
  BY <1>1, <1>2, ChainPop, Mapping, MappingNext
<1>7. Running' = th
  <2>1. Begins(native', native, Len(native) - 1) /\ Len(native') = Len(native) - 1
    BY <1>2, BeginsFront
  <2>2. Len(native) - 1 \in 0 .. Len(native) - 1
    BY <1>1
  <2>3. At(native', Len(native) - 1) = At(native, Len(native) - 1)
    BY ONLY <2>1, <2>2, AlikeAt
  <2> QED  BY <1>1, <2>1, <2>3, MappingNext
<1>8. Acts[th] = Shown(native, ci[th], th)
  BY <1>1, Mapping DEF View
<1>9. AsActivations!Current = th /\ AsActivations!Mine = Acts[th]
  BY Mapping
<1>10. AsActivations!IsTop(Acts[th], h) /\ Acts[th][h] = "executing"
  BY <1>1, <1>2, <1>3, <1>8, ShownTop
<1> HIDE DEF h, f
<1>11. AsActivations!TopIs(h, "executing") /\ h \in DOMAIN Acts[th]
  BY <1>9, <1>10 DEF AsActivations!TopIs, AsActivations!IsTop
<1> QED  BY <1>1, <1>2, <1>3, <1>4, <1>5, <1>6, <1>7, <1>8, <1>9, <1>11 DEF h

LEMMA CallbackEndsActs ==
  ASSUME IInv, IInv', Faults = {}, NEW th \in Threads, CallbackEnds(th)
  PROVE  AsActivations!Return
<1> DEFINE h == Len(ci[th])
<1>1. /\ KotlinRuns /\ th = Running /\ native # <<>> /\ native' = Front(native)
      /\ ci' = [ci EXCEPT ![th] = Front(ci[th])] /\ status' = status
  BY DEF CallbackEnds, CallbackReturns
<1>2. ci'[th] = Front(ci[th]) /\ \A u \in Threads : u # th => ci'[u] = ci[u]
  BY <1>1, Mapping
<1>3. /\ th \in Threads /\ ci[th] # <<>> /\ status[th] = "OK" /\ h \in Nat /\ ci[th] \in Seq(Frames)
      /\ \A i : IsEx(native, th, i) <=> IsEx(native', th, i) \/ i = h
      /\ ~IsEx(native', th, h)
      /\ OthersShown(native, ci, native', ci', th)
      /\ Resumes' = Resumes /\ Running' = th /\ Acts[th] = Shown(native, ci[th], th)
      /\ AsActivations!TopIs(h, "executing") /\ h \in DOMAIN Acts[th]
      /\ AsActivations!Current = th /\ AsActivations!Mine = Acts[th]
  BY ONLY IInv, IInv', <1>1, <1>2, Leaves
<1>4. ~IsYd(ci'[th], h) /\ \A i : i # h => (IsYd(ci'[th], i) <=> IsYd(ci[th], i))
  BY <1>2, <1>3, YdFront
<1> HIDE DEF h
<1>5. Shown(native', ci'[th], th) = AsActivations!Without(Shown(native, ci[th], th), h)
  BY <1>3, <1>4, ShownPop
<1>6. Acts' = [Acts EXCEPT ![th] = AsActivations!Without(Acts[th], h)]
  <2>1. Only(View(native, ci), View(native', ci'), th, Shown(native', ci'[th], th))
    BY ONLY <1>3, ViewOne
  <2>2. Acts = View(native, ci) /\ Acts' = View(native', ci')
    BY Mapping, MappingNext
  <2> QED  BY ONLY <1>3, <1>5, <2>1, <2>2 DEF Only
<1>7. ~Yielding /\ Yielding' = Yielding
  BY <1>1, <1>3 DEF Yielding
<1> QED  BY ONLY <1>3, <1>6, <1>7 DEF AsActivations!Return

LEMMA KotlinYieldsActs ==
  ASSUME IInv, IInv', NEW th \in Threads, KotlinYields(th)
  PROVE  AsActivations!Yield
<1> DEFINE h == Len(ci[th])
<1>1. /\ KotlinRuns /\ th = Running /\ native # <<>> /\ native' = Front(native) /\ lua_isyieldable(th)
      /\ ci' = ci /\ status' = [status EXCEPT ![th] = "YIELD"]
  BY DEF KotlinYields
<1>2. \A u \in Threads : u # th => ci'[u] = ci[u]
  BY <1>1
<1>3. /\ th \in Threads /\ ci[th] # <<>> /\ status[th] = "OK" /\ h \in Nat /\ ci[th] \in Seq(Frames)
      /\ Last(ci[th]) \in KotlinFrames
      /\ \A i : IsEx(native, th, i) <=> IsEx(native', th, i) \/ i = h
      /\ ~IsEx(native', th, h)
      /\ OthersShown(native, ci, native', ci', th)
      /\ Resumes' = Resumes /\ Running' = th /\ Acts[th] = Shown(native, ci[th], th)
      /\ AsActivations!TopIs(h, "executing") /\ h \in DOMAIN Acts[th]
      /\ AsActivations!Current = th /\ AsActivations!Mine = Acts[th]
  BY ONLY IInv, IInv', <1>1, <1>2, Leaves
<1>4. th # Main
  <2>1. Unwindable(native, Len(native))
    BY <1>1, TopFacts DEF lua_isyieldable
  <2> QED  BY <1>1, <2>1, Mapping, Alone
<1>5. ~Yielding /\ Yielding' = TRUE
  <2>1. status'[th] = "YIELD"
    BY <1>1, Facts DEF Typed
  <2> QED  BY <1>1, <1>3, <2>1 DEF Yielding
<1>6. h \in 1 .. h
  <2>1. h # 0
    BY <1>3, EmptySeq
  <2> QED  BY <1>3, <2>1
<1>7. Only(Acts, Acts', th, Shown(native', ci[th], th))
  <2>1. Only(View(native, ci), View(native', ci'), th, Shown(native', ci'[th], th))
    BY ONLY <1>3, ViewOne
  <2>2. Acts = View(native, ci) /\ Acts' = View(native', ci')
    BY Mapping, MappingNext
  <2> QED  BY ONLY <1>1, <2>1, <2>2
<1>8. CASE Last(ci[th]) = "yieldable"
  <2>1. IsYd(ci[th], h)
    BY <1>6, <1>8 DEF IsYd, Last
  <2> HIDE DEF h
  <2>2. Shown(native', ci[th], th) = AsActivations!With(Shown(native, ci[th], th), h, "waiting")
    BY <1>3, <2>1, ShownYield
  <2> QED  BY ONLY <1>3, <1>4, <1>5, <1>7, <2>2 DEF AsActivations!Yield, Only
<1>9. CASE Last(ci[th]) # "yieldable"
  <2>1. ~IsYd(ci[th], h)
    BY <1>9 DEF IsYd, Last
  <2> HIDE DEF h
  <2>2. Shown(native', ci[th], th) = AsActivations!Without(Shown(native, ci[th], th), h)
    BY <1>3, <2>1, ShownPop
  <2> QED  BY ONLY <1>3, <1>4, <1>5, <1>7, <2>2 DEF AsActivations!Yield, Only
<1> QED  BY <1>8, <1>9

LEMMA ContinueActs ==
  ASSUME IInv, IInv', NEW th \in Threads, Continue(th)
  PROVE  AsActivations!Continue \/ UNCHANGED AsActivations!vars
<1> DEFINE h == Len(ci[th])
<1>1. /\ th = Running /\ Innermost.kind = "resume" /\ status[th] = "OK" /\ status' = status /\ native # <<>>
      /\ Top(th) \notin LuaFrames \cup {"none"}
      /\ native' = WithTrampoline(native, th, ci[th], "cont")
      /\ ci' = IF Top(th) = "pcall" THEN [ci EXCEPT ![th] = Front(ci[th])] ELSE ci
  BY DEF Continue, InCFrame, VmRuns, Innermost
<1>2. ci[th] # <<>> /\ Top(th) = Last(ci[th]) /\ Last(ci[th]) \in {"yieldable", "pcall"}
  <2>1. ci[th] # <<>> /\ Top(th) = Last(ci[th])
    BY <1>1 DEF Top
  <2>2. Last(ci[th]) \in Stays
    BY <1>1, <2>1, Facts DEF IInv, Landed
  <2> QED  BY <1>1, <2>1, <2>2 DEF Stays
<1>3. /\ native \in Seq(NativeFrame) /\ ci \in [Threads -> Seq(Frames)] /\ ci[th] \in Seq(Frames)
      /\ Sound(native, ci, status, nCcalls, baseCcalls) /\ h \in Nat /\ h # 0
  BY <1>2, Mapping, LenProperties, EmptySeq
<1>4. CASE Last(ci[th]) = "pcall"
  <2>1. native' = native /\ ci' = [ci EXCEPT ![th] = Front(ci[th])]
    BY <1>1, <1>2, <1>4 DEF WithTrampoline, KotlinFrames
  <2>2. \A i : IsYd(Front(ci[th]), i) <=> IsYd(ci[th], i)
    BY <1>2, <1>3, <1>4, YdFront
  <2>3. SameYd(ci, ci')
    BY ONLY <1>3, <2>1, <2>2, th \in Threads, YdOne
  <2> QED  BY <1>1, <2>1, <2>3, QuietVm
<1>5. CASE Last(ci[th]) = "yieldable"
  <2> DEFINE f == [kind |-> "callback", th |-> th, at |-> h, entry |-> "cont"]
  <2>1. native' = Append(native, f) /\ ci' = ci
    BY <1>1, <1>2, <1>5 DEF WithTrampoline, KotlinFrames
  <2>2. f \in NativeFrame
    BY <1>3 DEF NativeFrame
  <2>3. \A u, i : IsEx(native', u, i) <=> IsEx(native, u, i) \/ (u = th /\ i = h)
    BY <1>3, <2>1, ExMore
  <2>4. OthersShown(native, ci, native', ci', th)
    <3>1. ASSUME NEW u \in Threads, u # th
          PROVE  Shown(native', ci'[u], u) = Shown(native, ci[u], u)
      BY <2>1, <2>3, <3>1, ShownSame
    <3> QED  BY <3>1 DEF OthersShown
  <2>5. Shown(native', ci'[th], th) = AsActivations!With(Shown(native, ci[th], th), h, "executing")
    BY <1>3, <2>1, <2>3, ShownPush
  <2>6. /\ Acts[th] = Shown(native, ci[th], th)
        /\ Acts' = [Acts EXCEPT ![th] = AsActivations!With(Acts[th], h, "executing")]
    <3>1. /\ View(native, ci)[th] = Shown(native, ci[th], th)
          /\ Only(View(native, ci), View(native', ci'), th, Shown(native', ci'[th], th))
      BY ONLY <2>4, th \in Threads, ViewOne
    <3>2. Acts = View(native, ci) /\ Acts' = View(native', ci')
      BY Mapping, MappingNext
    <3> QED  BY ONLY <2>5, <3>1, <3>2 DEF Only
  <2>7. AsActivations!IsTop(Acts[th], h) /\ Acts[th][h] = "waiting"
    <3>1. ~IsEx(native, th, h)
      BY <1>1, FreshResume
    <3>2. IsYd(ci[th], h)
      BY <1>3, <1>5 DEF IsYd, Last
    <3> QED  BY <1>3, <2>6, <3>1, <3>2, ShownTop
  <2>8. Resumes' = Resumes
    BY <1>3, <2>1, <2>2, ChainPush, Mapping, MappingNext
  <2>9. ~Yielding /\ Yielding' = Yielding
    <3>1. At(native', Len(native')) = f
      BY <1>3, <2>1, <2>2, BeginsAppend DEF At
    <3>2. Running' = th
      BY <3>1, MappingNext
    <3> QED  BY <1>1, <3>2 DEF Yielding
  <2>10. AsActivations!Current = th /\ AsActivations!Mine = Acts[th]
    BY <1>1, Mapping
  <2> HIDE DEF h
  <2>11. h \in DOMAIN Acts[th] /\ AsActivations!TopIs(h, "waiting")
    BY <2>7, <2>10 DEF AsActivations!IsTop, AsActivations!TopIs
  <2> QED  BY ONLY <2>6, <2>8, <2>9, <2>10, <2>11 DEF AsActivations!Continue
<1> QED  BY <1>2, <1>4, <1>5
-----------------------------------------------------------------------------
(* lua_resume: the thread was not in the chain, and becomes its end. *)
LEMMA ResumeActs ==
  ASSUME IInv, IInv', NEW held, status[Running] = "OK",
         held \in [Threads -> Seq(Frames)], SameYd(ci, held),
         NEW co \in Co, ~OnStack(native, co), held[co] = ci[co],
         NEW from, CountOf(from) \in Nat, NEW f \in Starts(co), Resume(co, from, f, held)
  PROVE  AsActivations!Resume(co)
<1> DEFINE frames == Begun(co, f)
           count  == CountOf(from) + 1
           jump   == [kind |-> "resume", th |-> co, at |-> 0, nC |-> count, base |-> count]
           mid    == Append(native, jump)
           n      == Len(native) + 1
<1>1. /\ CountOf(from) < MaxCCalls
      /\ ci' = [held EXCEPT ![co] = frames]
      /\ native' = IF ci[co] = <<>> THEN WithTrampoline(mid, co, frames, "start") ELSE mid
      /\ status' = [status EXCEPT ![co] = "OK"]
  BY DEF Resume
<1>2. /\ native \in Seq(NativeFrame) /\ ci[co] \in Seq(Frames) /\ co \in Threads
      /\ status \in [Threads -> {"OK", "YIELD", "REENTRY", "ERRRUN"}]
      /\ Acts = View(native, ci) /\ Acts' = View(native', ci')
      /\ Resumes = ResumesOf(native) /\ Resumes' = ResumesOf(native')
      /\ Sound(native, ci, status, nCcalls, baseCcalls)
  BY Mapping, MappingNext, Facts DEF Threads, Typed
<1>3. jump \in NativeFrame
  <2>1. count \in 0 .. HardLimit
    BY <1>1, CoroutinesAssumption
  <2> HIDE DEF count
  <2> QED  BY <1>2, <2>1 DEF NativeFrame
<1>4. jump.kind = "resume" /\ jump.th = co
  OBVIOUS
<1> HIDE DEF jump
<1>5. /\ mid \in Seq(NativeFrame) /\ At(mid, Len(mid)) = jump
      /\ ResumesOf(mid) = AsActivations!With(ResumesOf(native), n, co)
      /\ n \in Nat /\ AsActivations!IsFree(ResumesOf(native), n)
      /\ \A u, i : IsEx(mid, u, i) <=> IsEx(native, u, i)
  BY <1>2, <1>3, <1>4, AppendProperties, BeginsAppend, ChainPush, ExMore DEF At
<1> HIDE DEF mid, n
<1>6. \A i : ~IsEx(native, co, i)
  BY DEF IsEx, OnStack
<1>7. ci'[co] = frames /\ \A u \in Threads : u # co => \A i : IsYd(ci'[u], i) <=> IsYd(ci[u], i)
  BY <1>1, <1>2 DEF SameYd
<1>8. ~Yielding /\ (Running' = co => Yielding' = Yielding)
  BY <1>1, <1>2 DEF Yielding
<1>9. co \notin AsActivations!Members
  BY <1>2, ChainMembers DEF AsActivations!Members
<1>10. CASE ci[co] = <<>> /\ f \in KotlinFrames
  <2> DEFINE k == [kind |-> "callback", th |-> co, at |-> 1, entry |-> "start"]
  <2>1. frames = <<f>> /\ Len(frames) = 1 /\ Last(frames) = f
    BY <1>10 DEF Begun, Last
  <2>2. native' = Append(mid, k)
    BY <1>1, <1>10, <2>1 DEF WithTrampoline
  <2>3. k \in NativeFrame
    BY <1>2 DEF NativeFrame
  <2>4. \A u, i : IsEx(native', u, i) <=> IsEx(native, u, i) \/ (u = co /\ i = 1)
    BY <1>5, <2>2, ExMore
  <2>5. OthersShown(native, ci, native', ci', co)
    <3>1. ASSUME NEW u \in Threads, u # co
          PROVE  Shown(native', ci'[u], u) = Shown(native, ci[u], u)
      <4>1. /\ \A i : IsEx(native', u, i) <=> IsEx(native, u, i)
            /\ \A i : IsYd(ci'[u], i) <=> IsYd(ci[u], i)
        BY <1>7, <2>4, <3>1
      <4> QED  BY ONLY <4>1, ShownSame
    <3> QED  BY <3>1 DEF OthersShown
  <2>6. \A i : ~IsYd(ci[co], i) /\ (i # 1 => ~IsYd(frames, i))
    BY <1>10, <2>1 DEF IsYd
  <2>7. Shown(native', ci'[co], co) = AsActivations!With(Shown(native, ci[co], co), 1, "executing")
    <3>1. /\ \A i : IsEx(native', co, i) <=> IsEx(native, co, i) \/ i = 1
          /\ \A i : i # 1 => (IsYd(ci'[co], i) <=> IsYd(ci[co], i))
      BY <1>7, <2>4, <2>6
    <3> QED  BY ONLY <3>1, 1 \in Nat, ShownPush
  <2>8. /\ Acts[co] = Shown(native, ci[co], co)
        /\ Acts' = [Acts EXCEPT ![co] = AsActivations!With(Acts[co], 1, "executing")]
        /\ Acts'[co] = AsActivations!With(Acts[co], 1, "executing")
    <3>1. /\ View(native, ci)[co] = Shown(native, ci[co], co)
          /\ Only(View(native, ci), View(native', ci'), co, Shown(native', ci'[co], co))
      BY ONLY <1>2, <2>5, ViewOne
    <3> QED  BY ONLY <1>2, <2>7, <3>1 DEF Only
  <2>9. DOMAIN Acts[co] = {} /\ AsActivations!IsFree(Acts[co], 1) /\ 1 \in DOMAIN Acts'[co]
    <3>1. DOMAIN Acts[co] = {}
      BY <1>6, <2>6, <2>8 DEF Shown
    <3> QED  BY <2>8, <3>1 DEF AsActivations!IsFree, AsActivations!With
  <2>10. Resumes' = AsActivations!With(Resumes, n, co)
    <3>1. k.kind # "resume"
      OBVIOUS
    <3> QED  BY <1>2, <1>5, <2>2, <2>3, <3>1, ChainPush
  <2>11. Running' = co
    <3>1. At(native', Len(native')) = k
      BY <1>5, <2>2, <2>3, BeginsAppend DEF At
    <3> QED  BY <3>1, MappingNext
  <2>12. n \in DOMAIN Resumes' /\ AsActivations!IsFree(Resumes, n)
    BY <1>2, <1>5, <2>10 DEF AsActivations!With
  <2> QED  BY ONLY <1>8, <1>9, <2>8, <2>9, <2>10, <2>11, <2>12 DEF AsActivations!Resume
<1>11. CASE ~(ci[co] = <<>> /\ f \in KotlinFrames)
  <2>1. native' = mid
    <3>1. ci[co] = <<>> => frames = <<f>> /\ Last(frames) = f /\ f \notin KotlinFrames
      BY <1>11 DEF Begun, Last
    <3> QED  BY <1>1, <3>1 DEF WithTrampoline
  <2>2. \A i : IsYd(frames, i) <=> IsYd(ci[co], i)
    <3>1. CASE ci[co] = <<>>
      <4>1. frames = <<f>> /\ f # "yieldable"
        BY <1>11, <3>1 DEF Begun, KotlinFrames
      <4>2. Len(frames) = 1 /\ frames[1] = f /\ 1 .. 1 = {1} /\ Len(ci[co]) = 0 /\ 1 .. 0 = {}
        BY <3>1, <4>1
      <4> HIDE DEF frames
      <4> QED  BY <4>1, <4>2 DEF IsYd
    <3>2. CASE ci[co] # <<>> /\ Last(ci[co]) \in WithCont
      BY <3>2 DEF Begun
    <3>3. CASE ci[co] # <<>> /\ Last(ci[co]) \notin WithCont
      <4>1. frames = Front(ci[co]) /\ Last(ci[co]) # "yieldable"
        BY <3>3 DEF Begun, WithCont
      <4> HIDE DEF frames
      <4> QED  BY <1>2, <3>3, <4>1, YdFront
    <3> QED  BY <3>1, <3>2, <3>3
  <2> HIDE DEF frames
  <2>3. ASSUME NEW u \in Threads
        PROVE  Shown(native', ci'[u], u) = Shown(native, ci[u], u)
    <3>1. /\ \A i : IsEx(native', u, i) <=> IsEx(native, u, i)
          /\ \A i : IsYd(ci'[u], i) <=> IsYd(ci[u], i)
      BY <1>5, <1>7, <2>1, <2>2
    <3> QED  BY ONLY <3>1, ShownSame
  <2>4. Acts' = Acts
    <3>1. View(native', ci') = View(native, ci)
      BY ONLY <2>3, ViewNone
    <3> QED  BY <1>2, <3>1
  <2>5. Resumes' = AsActivations!With(Resumes, n, co)
    BY <1>2, <1>5, <2>1
  <2>6. Running' = co
    BY <1>4, <1>5, <2>1, MappingNext
  <2>7. n \in DOMAIN Resumes' /\ AsActivations!IsFree(Resumes, n)
    BY <1>2, <1>5, <2>5 DEF AsActivations!With
  <2> QED  BY ONLY <1>8, <1>9, <2>4, <2>5, <2>6, <2>7 DEF AsActivations!Resume
<1> QED  BY <1>10, <1>11

LEMMA KotlinResumesActs ==
  ASSUME IInv, IInv', NEW th \in Threads, NEW co \in Co, NEW from \in {th, Nil}, KotlinResumes(th, co, from)
  PROVE  AsActivations!Resume(co)
<1>1. KotlinRuns /\ Running = th
  BY DEF KotlinResumes
<1>2. PICK f \in Starts(co) : Resume(co, from, f, ci)
  BY DEF KotlinResumes
<1>3. ~OnStack(native, co)
  BY <1>1, <1>2, NotOnStack DEF Resume
<1>4. status[Running] = "OK" /\ ci \in [Threads -> Seq(Frames)] /\ SameYd(ci, ci) /\ ci[co] = ci[co]
  BY <1>1, KotlinFacts, Mapping DEF SameYd
<1>5. CountOf(from) \in Nat
  <2>1. th # Nil /\ nCcalls[th] \in 0 .. HardLimit /\ MaxCCalls \in Nat /\ HardLimit \in Nat /\ MaxCCalls <= HardLimit
    BY <1>1, Facts, CoroutinesAssumption
  <2> QED  BY <2>1 DEF CountOf
<1> QED  BY ONLY IInv, IInv', <1>2, <1>3, <1>4, <1>5, ResumeActs

LEMMA LuaResumesActs ==
  ASSUME IInv, IInv', NEW th \in Threads, NEW co \in Co, LuaResumes(th, co)
  PROVE  AsActivations!Resume(co)
<1> DEFINE frames == Append(ci[th], "coresume")
           held   == [ci EXCEPT ![th] = frames]
<1>1. LuaRuns(th)
  BY DEF LuaResumes
<1>2. PICK f \in Starts(co) : Resume(co, th, f, held)
  BY DEF LuaResumes
<1>3. th = Running /\ status[th] = "OK"
  BY <1>1, LuaFacts
<1>4. ~OnStack(native, co) /\ co # th
  BY <1>1, <1>2, <1>3, NotOnStack DEF Resume
<1>5. ci \in [Threads -> Seq(Frames)] /\ ci[th] \in Seq(Frames) /\ "coresume" \in Frames
  BY Mapping DEF Frames, WithCont
<1>6. frames \in Seq(Frames) /\ \A i : IsYd(frames, i) <=> IsYd(ci[th], i)
  BY <1>5, YdAppend, AppendProperties
<1> HIDE DEF frames
<1>7. held \in [Threads -> Seq(Frames)] /\ held[co] = ci[co] /\ SameYd(ci, held)
  BY <1>4, <1>5, <1>6 DEF SameYd, Threads
<1>8. CountOf(th) \in Nat
  <2>1. nCcalls[th] \in 0 .. HardLimit /\ MaxCCalls \in Nat /\ HardLimit \in Nat /\ MaxCCalls <= HardLimit
    BY <1>3, Facts, CoroutinesAssumption
  <2> QED  BY <2>1 DEF CountOf
<1> HIDE DEF held
<1>9. status[Running] = "OK"
  BY <1>3
<1> QED  BY ONLY IInv, IInv', <1>2, <1>4, <1>7, <1>8, <1>9, ResumeActs
-----------------------------------------------------------------------------
(* The end of lua_resume: the thread leaves the chain, and what is left of it waits. *)
LEMMA BackYd ==
  ASSUME NEW c \in [Threads -> Seq(Frames)], NEW r \in Threads
  PROVE  SameYd(c, BackIn(c, r))
<1>1. CASE c[r] # <<>> /\ Last(c[r]) = "coresume"
  <2>1. BackIn(c, r) = [c EXCEPT ![r] = Front(c[r])]
    BY <1>1 DEF BackIn
  <2>2. \A i : IsYd(Front(c[r]), i) <=> IsYd(c[r], i)
    BY <1>1, YdFront
  <2> QED  BY <2>1, <2>2 DEF SameYd
<1>2. CASE ~(c[r] # <<>> /\ Last(c[r]) = "coresume")
  BY <1>2 DEF BackIn, SameYd
<1> QED  BY <1>1, <1>2

LEMMA ResumedActs ==
  ASSUME IInv, IInv', native # <<>>, Innermost.kind = "resume", NEW th, th = Running, Resumed(th, native, ci),
         \A u \in Threads : u # th => status'[u] = status[u]
  PROVE  AsActivations!Leave
<1> DEFINE n == Len(native)
           p == At(native, n - 1)
<1>1. /\ n \in Nat \ {0} /\ n \in 1 .. n /\ n - 1 \in 0 .. n - 1 /\ Innermost = native[n]
      /\ native \in Seq(NativeFrame) /\ ci \in [Threads -> Seq(Frames)] /\ Stacked(native, ci)
      /\ p.th \in Threads /\ th \in Threads /\ Sound(native, ci, status, nCcalls, baseCcalls)
  BY TopFacts, Mapping
<1>2. native' = Front(native) /\ ci' = BackIn(ci, Resumer(native))
  BY DEF Resumed
<1>3. SameYd(ci, ci')
  <2>1. Resumer(native) = p.th
    <3>1. n = 1 => p = Program
      BY DEF At
    <3>2. n # 1 => p = native[n - 1]
      BY <1>1 DEF At
    <3> HIDE DEF p
    <3> QED  BY <3>1, <3>2 DEF Resumer, Program
  <2> QED  BY <1>1, <1>2, <2>1, BackYd
<1>4. \A u, i : IsEx(native', u, i) <=> IsEx(native, u, i)
  BY <1>1, <1>2, ExFewer
<1>5. Acts' = Acts
  <2>1. ASSUME NEW u \in Threads
        PROVE  Shown(native', ci'[u], u) = Shown(native, ci[u], u)
    <3>1. /\ \A i : IsEx(native', u, i) <=> IsEx(native, u, i)
          /\ \A i : IsYd(ci'[u], i) <=> IsYd(ci[u], i)
      BY <1>3, <1>4 DEF SameYd
    <3> QED  BY ONLY <3>1, ShownSame
  <2>2. View(native', ci') = View(native, ci)
    BY ONLY <2>1, ViewNone
  <2> QED  BY <2>2, Mapping, MappingNext
<1>6. /\ Resumes' = AsActivations!Without(Resumes, n)
      /\ AsActivations!IsTop(Resumes, n) /\ n # 0
  BY <1>1, <1>2, ChainPop, Mapping, MappingNext
<1>7. Running' = p.th
  <2>1. Begins(native', native, n - 1) /\ Len(native') = n - 1
    BY <1>1, <1>2, BeginsFront
  <2>2. At(native', n - 1) = p
    BY ONLY <1>1, <2>1, AlikeAt
  <2> QED  BY <2>1, <2>2, MappingNext
<1>8. p.th # th /\ status[p.th] = "OK"
  <2>1. p.th # th
    BY <1>1, ThreadsApart, Mapping
  <2>2. Waits(native, ci, status, nCcalls, baseCcalls, n - 1)
    BY <1>1 DEF Sound
  <2> QED  BY <2>1, <2>2 DEF Waits
<1>9. Yielding' = FALSE
  BY <1>1, <1>7, <1>8 DEF Yielding
<1>10. \A h \in DOMAIN Acts[th] : Acts[th][h] = "waiting"
  <2>1. \A i : ~IsEx(native, th, i)
    BY FreshResume
  <2>2. Acts[th] = Shown(native, ci[th], th)
    BY <1>1, Mapping DEF View
  <2> QED  BY <2>1, <2>2 DEF Shown
<1>11. AsActivations!Mine = Acts[th]
  BY Mapping
<1>12. n \in DOMAIN Resumes \ {0}
  BY <1>6 DEF AsActivations!IsTop
<1> QED  BY ONLY <1>5, <1>6, <1>9, <1>10, <1>11, <1>12 DEF AsActivations!Leave

LEMMA ResumeReturnsActs ==
  ASSUME IInv, IInv', NEW th \in Threads, ResumeReturns(th)
  PROVE  AsActivations!Leave
<1>1. /\ native # <<>> /\ Innermost.kind = "resume" /\ th = Running
      /\ Resumed(th, native, ci) /\ status' = status
  BY DEF ResumeReturns, VmRuns, Innermost
<1> QED  BY <1>1, ResumedActs
-----------------------------------------------------------------------------
(* Errors and coroutine.close: the frames above n go, with the functions that wait there. *)
LEMMA GivesUp ==
  ASSUME IInv, IInv', NEW th \in Threads, \A u \in Threads : u # th => ci'[u] = ci[u],
         NEW n \in Nat, Len(ci'[th]) <= n, \A i : IsYd(ci'[th], i) <=> IsYd(ci[th], i) /\ i <= n,
         SameEx(native, native'), ResumesOf(native') = ResumesOf(native),
         ~Yielding, Yielding' = Yielding, th = Running \/ th \notin AsActivations!Members
  PROVE  AsActivations!GiveUp(th)
<1> DEFINE old  == Shown(native, ci[th], th)
           new  == Shown(native', ci'[th], th)
           kept == DOMAIN new
<1>1. /\ kept \subseteq DOMAIN old /\ new = [i \in kept |-> old[i]]
      /\ \A i \in DOMAIN old \ kept : old[i] = "waiting" /\ IsYd(ci[th], i) /\ ~IsYd(ci'[th], i)
  <2>1. /\ \A i : IsEx(native', th, i) <=> IsEx(native, th, i)
        /\ \A i : IsYd(ci'[th], i) => IsYd(ci[th], i)
    BY DEF SameEx
  <2> QED  BY ONLY <2>1, ShownDrop
<1>2. \A k \in kept : k \in 1 .. Len(ci'[th])
  <2>1. Sound(native', ci', status', nCcalls', baseCcalls')
    BY MappingNext
  <2> QED  BY ONLY <2>1, th \in Threads, ShownTop
<1>3. \A i \in DOMAIN old : i \in 1 .. Len(ci[th])
  <2>1. Sound(native, ci, status, nCcalls, baseCcalls)
    BY Mapping
  <2> QED  BY ONLY <2>1, th \in Threads, ShownTop
<1>4. Len(ci'[th]) \in Nat /\ Len(ci[th]) \in Nat
  BY Mapping, MappingNext, LenProperties
<1> HIDE DEF kept, new, old
<1>5. \A i \in DOMAIN old \ kept : old[i] = "waiting" /\ \A k \in kept : k < i
  <2> SUFFICES ASSUME NEW i \in DOMAIN old \ kept, NEW k \in kept
               PROVE  k < i
    BY <1>1
  <2>1. IsYd(ci[th], i) /\ ~IsYd(ci'[th], i)
    BY <1>1
  <2>2. ~(i <= n) /\ i \in 1 .. Len(ci[th])
    BY <2>1, <1>3
  <2> QED  BY <1>2, <1>4, <2>2
<1>6. /\ Acts[th] = old /\ Only(Acts, Acts', th, new)
  <2>1. ASSUME NEW u \in Threads, u # th
        PROVE  Shown(native', ci'[u], u) = Shown(native, ci[u], u)
    <3>1. /\ \A i : IsEx(native', u, i) <=> IsEx(native, u, i)
          /\ \A i : IsYd(ci'[u], i) <=> IsYd(ci[u], i)
      BY <2>1 DEF SameEx
    <3> QED  BY ONLY <3>1, ShownSame
  <2>2. OthersShown(native, ci, native', ci', th)
    BY <2>1 DEF OthersShown
  <2>3. /\ View(native, ci)[th] = old
        /\ Only(View(native, ci), View(native', ci'), th, new)
    BY ONLY th \in Threads, <2>2, ViewOne DEF old, new
  <2> QED  BY <2>3, Mapping, MappingNext
<1>7. /\ kept \in SUBSET DOMAIN Acts[th]
      /\ \A i \in DOMAIN Acts[th] \ kept : Acts[th][i] = "waiting" /\ \A k \in kept : k < i
      /\ Acts' = [Acts EXCEPT ![th] = [i \in kept |-> Acts[th][i]]]
  <2>1. Acts' = [Acts EXCEPT ![th] = new]
    BY <1>6 DEF Only
  <2>2. new = [i \in kept |-> Acts[th][i]]
    BY <1>1, <1>6
  <2>3. Acts' = [Acts EXCEPT ![th] = [i \in kept |-> Acts[th][i]]]
    BY ONLY <2>1, <2>2
  <2>4. Acts[th] = old
    BY <1>6
  <2> QED  BY ONLY <1>1, <1>5, <2>3, <2>4
<1>8. th \notin AsActivations!Members \ {AsActivations!Current}
  BY Mapping
<1>9. Resumes' = Resumes
  BY Mapping, MappingNext
<1> QED  BY ONLY ~Yielding, Yielding' = Yielding, <1>7, <1>8, <1>9 DEF AsActivations!GiveUp

LEMMA RaiseToResumeActs ==
  ASSUME IInv, IInv', NEW th \in Threads, LuaRuns(th), Innermost.kind = "resume", RaiseToResume(th)
  PROVE  AsActivations!Leave \/ AsActivations!GiveUp(th)
<1>1. /\ th = Running /\ status[th] = "OK" /\ native # <<>>
      /\ ci \in [Threads -> Seq(Frames)] /\ ci[th] \in Seq(Frames) /\ Len(ci[th]) \in Nat
  BY Mapping, LuaFacts, LenProperties
<1>2. CASE Handlers(th) = {}
  <2>1. Resumed(th, native, ci) /\ status' = [status EXCEPT ![th] = "ERRRUN"]
    BY <1>2 DEF RaiseToResume
  <2>2. \A u \in Threads : u # th => status'[u] = status[u]
    BY <2>1, Facts DEF Typed
  <2> QED  BY <1>1, <2>1, <2>2, ResumedActs
<1>3. CASE Handlers(th) # {}
  <2> DEFINE i == Highest(Handlers(th))
             frames == SubSeq(ci[th], 1, i - 1)
  <2>1. /\ ci' = [ci EXCEPT ![th] = frames] /\ status' = status /\ native' = native
    BY <1>3 DEF RaiseToResume
  <2>2. i \in 1 .. Len(ci[th])
    <3>1. DOMAIN ci[th] = 1 .. Len(ci[th])
      BY <1>1, LenProperties
    <3>2. Handlers(th) \in SUBSET (1 .. Len(ci[th]))
      BY <3>1 DEF Handlers
    <3>3. i \in Handlers(th)
      BY <1>1, <1>3, <3>2, HighestOk
    <3> QED  BY <3>2, <3>3
  <2> HIDE DEF i
  <2>3. PICK n \in Nat : n = i - 1 /\ n <= Len(ci[th])
    BY <1>1, <2>2
  <2>4. Len(SubSeq(ci[th], 1, n)) <= n /\ \A j : IsYd(SubSeq(ci[th], 1, n), j) <=> IsYd(ci[th], j) /\ j <= n
    BY <1>1, <2>3, CutOk, YdCut
  <2>5. ci'[th] = SubSeq(ci[th], 1, n) /\ \A u \in Threads : u # th => ci'[u] = ci[u]
    BY <1>1, <2>1, <2>3
  <2>6. Len(ci'[th]) <= n /\ \A j : IsYd(ci'[th], j) <=> IsYd(ci[th], j) /\ j <= n
    BY ONLY <2>4, <2>5
  <2>7. SameEx(native, native') /\ ResumesOf(native') = ResumesOf(native)
    BY <2>1 DEF SameEx
  <2>8. ~Yielding /\ Yielding' = Yielding
    <3>1. Running' = Running
      BY <2>1, Mapping, MappingNext
    <3> QED  BY <1>1, <2>1, <3>1 DEF Yielding
  <2>9. AsActivations!GiveUp(th)
    BY ONLY IInv, IInv', th \in Threads, <1>1, <2>3, <2>5, <2>6, <2>7, <2>8, GivesUp
  <2> QED  BY <2>9
<1> QED  BY <1>2, <1>3

LEMMA RaiseToCallActs ==
  ASSUME IInv, IInv', NEW th \in Threads, LuaRuns(th), Innermost.kind # "resume", RaiseToCall(th)
  PROVE  AsActivations!GiveUp(th)
<1> DEFINE m == Len(native) - 1
           p == At(native, m)
           cut == IF Innermost.kind = "pcall" THEN Innermost.at - 1 ELSE Innermost.at
           frames == SubSeq(ci[th], 1, cut)
<1>1. /\ th = Running /\ status[th] = "OK" /\ native # <<>> /\ Len(ci[th]) > Innermost.at
      /\ ci \in [Threads -> Seq(Frames)] /\ native \in Seq(NativeFrame)
      /\ ci[th] \in Seq(Frames) /\ Len(ci[th]) \in Nat /\ Innermost.at \in Nat /\ p.at \in Nat
      /\ Linked(native, ci, Len(native)) /\ Innermost = native[Len(native)]
      /\ Len(native) \in Nat \ {0}
      /\ Innermost.kind \in {"call", "pcall"}
  <2>1. Innermost \in NativeFrame /\ ~IsKotlin(Innermost)
    BY LuaFacts, TopFacts
  <2>2. Innermost.kind \in {"call", "pcall"}
    BY <2>1, FrameTypes DEF IsKotlin
  <2> QED  BY <2>2, Mapping, Facts, TopFacts, LuaFacts
<1>2. /\ native' = Front(native) /\ ci' = [ci EXCEPT ![th] = frames] /\ status' = status
  BY DEF RaiseToCall
<1>3. /\ Innermost.kind = "pcall" => p.at < Innermost.at
      /\ p.th = th
  <2>1. Innermost.kind = "pcall" => Innermost.at > p.at
    BY <1>1 DEF Linked
  <2>2. p.th = Innermost.th /\ Innermost.th = th
    BY <1>1, Facts DEF Linked, Running
  <2> HIDE DEF p
  <2> QED  BY <1>1, <2>1, <2>2
<1> HIDE DEF p
<1>4. PICK n \in Nat : n = cut /\ n <= Len(ci[th])
  <2>1. cut \in Nat /\ cut <= Len(ci[th])
    BY <1>1, <1>3
  <2> QED  BY <2>1
<1> HIDE DEF cut
<1>5. Len(SubSeq(ci[th], 1, n)) <= n /\ \A j : IsYd(SubSeq(ci[th], 1, n), j) <=> IsYd(ci[th], j) /\ j <= n
  BY <1>1, <1>4, CutOk, YdCut
<1>6. ci'[th] = SubSeq(ci[th], 1, n) /\ \A u \in Threads : u # th => ci'[u] = ci[u]
  BY <1>1, <1>2, <1>4
<1>7. Len(ci'[th]) <= n /\ \A j : IsYd(ci'[th], j) <=> IsYd(ci[th], j) /\ j <= n
  BY ONLY <1>5, <1>6
<1>8. SameEx(native, native')
  BY <1>1, <1>2, ExFewer DEF SameEx
<1>9. ResumesOf(native') = ResumesOf(native)
  BY <1>1, <1>2, ChainPop
<1>10. Running' = th
  <2>1. Begins(native', native, m) /\ Len(native') = m
    BY <1>1, <1>2, BeginsFront
  <2>2. m \in 0 .. m
    BY <1>1
  <2>3. At(native', m) = p
    BY ONLY <2>1, <2>2, AlikeAt DEF p
  <2> QED  BY <1>3, <2>1, <2>3, MappingNext
<1>11. ~Yielding /\ Yielding' = Yielding
  BY <1>1, <1>2, <1>10 DEF Yielding
<1> QED  BY ONLY IInv, IInv', th \in Threads, <1>1, <1>4, <1>6, <1>7, <1>8, <1>9, <1>11, GivesUp

LEMMA RaiseActs ==
  ASSUME IInv, IInv', NEW th \in Threads, Raise(th)
  PROVE  AsActivations!Leave \/ AsActivations!GiveUp(th)
BY RaiseToResumeActs, RaiseToCallActs DEF Raise

LEMMA LuaClosesActs ==
  ASSUME IInv, IInv', NEW th \in Threads, NEW co \in Co, LuaCloses(th, co)
  PROVE  AsActivations!GiveUp(co)
<1>1. /\ LuaRuns(th) /\ (MayResume(co) \/ status[co] = "ERRRUN")
      /\ ci' = [ci EXCEPT ![co] = <<>>] /\ status' = [status EXCEPT ![co] = "OK"] /\ native' = native
  BY DEF LuaCloses
<1>2. th = Running /\ status[th] = "OK" /\ co \in Threads
  BY <1>1, LuaFacts DEF Threads
<1>3. ~OnStack(native, co) /\ co # Running
  BY <1>1, <1>2, NotOnStack
<1>4. co \notin AsActivations!Members
  BY <1>3, ChainMembers, Mapping DEF AsActivations!Members
<1>5. ci'[co] = <<>> /\ \A u \in Threads : u # co => ci'[u] = ci[u]
  BY <1>1, <1>2, Mapping
<1>6. Len(<<>>) <= 0 /\ 0 \in Nat /\ \A i : IsYd(<<>>, i) <=> IsYd(ci[co], i) /\ i <= 0
  <2>1. 1 .. Len(<<>>) = {}
    OBVIOUS
  <2>2. \A i : ~(i \in 1 .. Len(ci[co]) /\ i <= 0)
    OBVIOUS
  <2> QED  BY <2>1, <2>2 DEF IsYd
<1>7. Len(ci'[co]) <= 0 /\ \A i : IsYd(ci'[co], i) <=> IsYd(ci[co], i) /\ i <= 0
  BY ONLY <1>5, <1>6
<1>8. SameEx(native, native') /\ ResumesOf(native') = ResumesOf(native)
  BY <1>1 DEF SameEx
<1>9. ~Yielding /\ Yielding' = Yielding
  <2>1. Running' = Running
    BY <1>1, Mapping, MappingNext
  <2> QED  BY <1>1, <1>2, <1>3, <2>1 DEF Yielding
<1> QED  BY ONLY IInv, IInv', <1>2, <1>4, <1>5, <1>6, <1>7, <1>8, <1>9, GivesUp
-----------------------------------------------------------------------------
(* No function executes at first, and the program runs on the main thread. *)
LEMMA InitActs ==
  ASSUME Init
  PROVE  AsActivations!Init
<1>1. native = <<>> /\ ci = [th \in Threads |-> <<>>] /\ status = [th \in Threads |-> "OK"]
  BY DEF Init
<1>2. DOMAIN native = {}
  BY <1>1
<1>3. \A th \in Threads : DOMAIN ci[th] = {}
  BY <1>1
<1>4. \A th \in Threads : ActivationsOf(th) = [h \in {} |-> "waiting"]
  <2> SUFFICES ASSUME NEW th \in Threads
               PROVE  ActivationsOf(th) = [h \in {} |-> "waiting"]
    OBVIOUS
  <2>1. {j \in DOMAIN ci[th] : j \in Executing(th) \/ ci[th][j] = "yieldable"} = {}
    BY <1>3
  <2> QED  BY <2>1 DEF ActivationsOf
<1>5. Acts = [th \in {Main} \cup Co |-> [h \in {} |-> "waiting"]]
  BY <1>4 DEF Acts, Threads
<1>6. Resumes = [h \in {0} |-> Main]
  <2>1. {j \in DOMAIN native : native[j].kind = "resume"} = {}
    BY <1>2
  <2>2. {0} \cup {j \in DOMAIN native : native[j].kind = "resume"} = {0}
    BY <2>1
  <2> QED  BY <2>2 DEF Resumes
<1>7. Yielding = FALSE
  <2>1. Running = Main
    BY <1>1 DEF Running, Innermost
  <2> QED  BY <1>1, <2>1 DEF Yielding, Threads
<1> QED  BY <1>5, <1>6, <1>7 DEF AsActivations!Init

LEMMA NextActs ==
  ASSUME IInv, IInv', Faults = {}, [Next]_vars
  PROVE  [AsActivations!Next]_AsActivations!vars
<1>1. CASE UNCHANGED vars
  <2>1. native' = native /\ ci' = ci /\ status' = status
    BY <1>1 DEF vars
  <2>2. Acts' = Acts /\ Resumes' = Resumes
    BY <2>1, Mapping, MappingNext
  <2>3. Running' = Running
    BY <2>1, Mapping, MappingNext
  <2>4. Yielding' = Yielding
    BY <2>1, <2>3 DEF Yielding
  <2> QED  BY <2>2, <2>4 DEF AsActivations!vars
<1>2. CASE Next
  <2> DEFINE Seen == \/ AsActivations!Invoke \/ AsActivations!Return \/ AsActivations!Yield
                     \/ AsActivations!Continue \/ AsActivations!Leave
                     \/ \E u \in Threads : AsActivations!Resume(u) \/ AsActivations!GiveUp(u)
                     \/ UNCHANGED AsActivations!vars
  <2> SUFFICES Seen
    BY DEF AsActivations!Next, Threads
  <2>1. PICK th \in Threads :
          \/ \E f \in KotlinFrames \cup {"entry"} : KotlinCalls(th, f) \/ LuaPcalls(th, f)
          \/ \E f \in KotlinFrames \cup {"lua"} : LuaCalls(th, f)
          \/ \E co \in Co : \/ \E from \in {th, Nil} : KotlinResumes(th, co, from)
                           \/ KotlinResumesDead(th, co)
                           \/ LuaResumes(th, co) \/ LuaCloses(th, co)
          \/ LuaReturns(th) \/ LuaYields(th) \/ Raise(th)
          \/ CallbackEnds(th) \/ KotlinYields(th)
          \/ CallReturns(th) \/ PcallReturns(th) \/ ResumeReturns(th)
          \/ Reenter(th) \/ Continue(th)
    BY <1>2 DEF Next
  <2>2. \A co \in Co : co \in Threads
    BY DEF Threads
  <2>3. CASE \E f \in KotlinFrames \cup {"entry"} : KotlinCalls(th, f) \/ LuaPcalls(th, f)
    BY <2>3, KotlinCallsActs, LuaPcallsActs
  <2>4. CASE \E f \in KotlinFrames \cup {"lua"} : LuaCalls(th, f)
    BY <2>4, LuaCallsActs
  <2>5. CASE \E co \in Co : \E from \in {th, Nil} : KotlinResumes(th, co, from)
    BY <2>2, <2>5, KotlinResumesActs
  <2>6. CASE \E co \in Co : KotlinResumesDead(th, co)
    BY <2>6, KotlinResumesDeadActs
  <2>7. CASE \E co \in Co : LuaResumes(th, co)
    BY <2>2, <2>7, LuaResumesActs
  <2>8. CASE \E co \in Co : LuaCloses(th, co)
    BY <2>2, <2>8, LuaClosesActs
  <2>9. CASE LuaReturns(th)
    BY <2>9, LuaReturnsActs
  <2>10. CASE LuaYields(th)
    BY <2>10, LuaYieldsActs
  <2>11. CASE Raise(th)
    BY <2>11, RaiseActs
  <2>12. CASE CallbackEnds(th)
    BY <2>12, CallbackEndsActs
  <2>13. CASE KotlinYields(th)
    BY <2>13, KotlinYieldsActs
  <2>14. CASE CallReturns(th)
    BY <2>14, CallReturnsActs
  <2>15. CASE PcallReturns(th)
    BY <2>15, PcallReturnsActs
  <2>16. CASE ResumeReturns(th)
    BY <2>16, ResumeReturnsActs
  <2>17. CASE Reenter(th)
    BY <2>17, ReenterActs
  <2>18. CASE Continue(th)
    BY <2>18, ContinueActs
  <2> QED  BY <2>1, <2>3, <2>4, <2>5, <2>6, <2>7, <2>8, <2>9, <2>10,
              <2>11, <2>12, <2>13, <2>14, <2>15, <2>16, <2>17, <2>18
<1> QED  BY <1>1, <1>2

(* Coroutines implements Activations: Kotlin functions nest properly through *)
(* calls, yields and errors.  One that executes is never given up, whatever  *)
(* lua_resume, luaD_pcall and the trampolines do with the C stack under it,  *)
(* and one that yielded is continued at most once after each resume.         *)
THEOREM ImplementsActivations ==
  ASSUME Faults = {}
  PROVE  Spec => ActivationsSpec
<1>1. Init => AsActivations!Init
  BY InitActs
<1>2. IInv /\ IInv' /\ [Next]_vars => [AsActivations!Next]_AsActivations!vars
  BY NextActs
<1> QED  BY <1>1, <1>2, InvariantHolds, PTL DEF Spec, ActivationsSpec, AsActivations!Spec
=============================================================================
