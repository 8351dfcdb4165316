------------------------- MODULE BoundaryRefinement -------------------------
(***************************************************************************)
(* Boundary implements KotlinStacks, for every depth of nesting and every  *)
(* size of the stack: each step of the bridge or of the VM is one of the   *)
(* steps that Kotlin code is promised, or changes nothing that it sees.    *)
(***************************************************************************)
EXTENDS BoundaryProofs, BoundaryViews, WellFoundedInduction

-----------------------------------------------------------------------------
(* The sequence t over S is s with e for its i-th element. *)
Exchanged(t, S, s, i, e) ==
  t \in Seq(S) /\ Len(t) = Len(s) /\ \A j \in 1 .. Len(s) : t[j] = IF j = i THEN e ELSE s[j]

(* ReplaceAt, in one word. *)
LEMMA Exchange ==
  ASSUME NEW S, NEW s \in Seq(S), NEW i \in 1 .. Len(s), NEW e \in S
  PROVE  Exchanged(ReplaceAt(s, i, e), S, s, i, e)
<1>1. /\ ReplaceAt(s, i, e) \in Seq(S)
      /\ Len(ReplaceAt(s, i, e)) = Len(s)
      /\ \A j \in 1 .. Len(s) : ReplaceAt(s, i, e)[j] = IF j = i THEN e ELSE s[j]
  BY ReplaceAtOk
<1> QED  BY <1>1 DEF Exchanged

(* What maps one set onto another, and no two elements to one, is a bijection. *)
LEMMA BijectionIs ==
  ASSUME NEW S, NEW T, NEW f, f \in [S -> T],
         \A i, j \in S : f[i] = f[j] => i = j,
         \A k \in T : \E j \in S : f[j] = k
  PROVE  ExistsBijection(S, T)
<1>1. f \in Injection(S, T)
  BY DEF Injection, IsInjective
<1>2. f \in Surjection(S, T)
  BY DEF Surjection
<1> QED  BY <1>1, <1>2 DEF ExistsBijection, Bijection

-----------------------------------------------------------------------------
(* The C stack as a sequence of activations.                                *)

(* Guards and callbacks take turns, and a guard is the first. *)
LEMMA TakeTurns ==
  ASSUME NEW nat, NEW jmp, Linked(nat, jmp)
  PROVE  \A i \in 1 .. Len(nat) : IsCallback(nat[i]) <=> i % 2 = 0
<1> DEFINE Wrong == {i \in 1 .. Len(nat) : ~(IsCallback(nat[i]) <=> i % 2 = 0)}
<1> SUFFICES ASSUME Wrong # {}
             PROVE  FALSE
  OBVIOUS
<1>1. nat \in Seq(Frame) /\ Len(nat) \in Nat
  BY LenProperties DEF Linked
<1>2. Wrong \subseteq Nat
  BY <1>1
<1>3. PICK i \in Wrong : \A j \in Wrong : ~(<<j, i>> \in OpToRel(<, Nat))
  <2> HIDE DEF Wrong
  <2> QED  BY <1>2, WFMin, NatLessThanWellFounded
<1>4. i \in 1 .. Len(nat) /\ i \in Nat /\ ~(IsCallback(nat[i]) <=> i % 2 = 0)
  BY <1>1
<1>5. IsCallback(nat[i]) <=> i > 1 /\ ~IsCallback(nat[i - 1])
  BY <1>4 DEF Linked
<1>6. CASE i = 1
  BY <1>4, <1>5, <1>6
<1>7. CASE i > 1
  <2>1. i - 1 \in 1 .. Len(nat) /\ i - 1 \in Nat /\ i - 1 < i
    BY <1>1, <1>4, <1>7
  <2>2. <<i - 1, i>> \in OpToRel(<, Nat)
    BY <1>4, <2>1 DEF OpToRel
  <2>3. i - 1 \notin Wrong
    BY <1>3, <2>2
  <2>4. IsCallback(nat[i - 1]) <=> (i - 1) % 2 = 0
    BY <2>1, <2>3
  <2>5. (i - 1) % 2 = 0 <=> i % 2 # 0
    BY <1>4
  <2> QED  BY <1>4, <1>5, <1>7, <2>4, <2>5
<1> QED  BY <1>1, <1>4, <1>6, <1>7

(* What views and waits are made of, as functions of the C stack. *)
CallbacksOf(nat) == {k \in 1 .. Len(nat) : nat[k].kind = "callback"}

(* The number of callbacks is the number of activations but the program, and *)
(* every activation but the running one is in a request.                     *)
LEMMA Halves ==
  ASSUME NEW nat, NEW jmp, Linked(nat, jmp)
  PROVE  LET c == Cardinality(CallbacksOf(nat))
             g == Cardinality(GuardsOf(nat))
         IN  /\ c \in Nat /\ g \in Nat
             /\ IF InKotlin(nat) THEN Len(nat) = 2 * c /\ g = c
                ELSE Len(nat) = 2 * c + 1 /\ g = c + 1
<1>1. nat \in Seq(Frame) /\ Len(nat) \in Nat
  BY LenProperties DEF Linked
<1> DEFINE n == Len(nat)
<1>2. \A i \in 1 .. n : IsCallback(nat[i]) <=> i % 2 = 0
  BY TakeTurns
<1> HIDE DEF n
<1>3. PICK c \in Nat : n = 2 * c \/ n = 2 * c + 1
  <2>1. n \div 2 \in Nat /\ (n = 2 * (n \div 2) \/ n = 2 * (n \div 2) + 1)
    BY <1>1 DEF n
  <2> QED  BY <2>1
<1> DEFINE g == IF n = 2 * c THEN c ELSE c + 1
<1>4. Cardinality(CallbacksOf(nat)) = c
  <2> DEFINE f == [j \in 1 .. c |-> 2 * j]
  <2>1. \A j \in 1 .. c : f[j] \in CallbacksOf(nat)
    <3> SUFFICES ASSUME NEW j \in 1 .. c
                 PROVE  f[j] \in CallbacksOf(nat)
      OBVIOUS
    <3>1. f[j] = 2 * j /\ 2 * j \in 1 .. n /\ (2 * j) % 2 = 0
      BY <1>3
    <3> QED  BY <1>2, <3>1 DEF CallbacksOf, IsCallback, n
  <2>2. \A i, j \in 1 .. c : f[i] = f[j] => i = j
    OBVIOUS
  <2>3. \A k \in CallbacksOf(nat) : \E j \in 1 .. c : f[j] = k
    <3> SUFFICES ASSUME NEW k \in CallbacksOf(nat)
                 PROVE  \E j \in 1 .. c : f[j] = k
      OBVIOUS
    <3>1. k \in 1 .. n /\ k % 2 = 0
      BY <1>2 DEF CallbacksOf, IsCallback, n
    <3>2. k \div 2 \in 1 .. c /\ 2 * (k \div 2) = k
      BY <1>3, <3>1
    <3> QED  BY <3>2
  <2>4. ExistsBijection(1 .. c, CallbacksOf(nat))
    <3>1. f \in [1 .. c -> CallbacksOf(nat)]
      BY <2>1
    <3> HIDE DEF f
    <3> QED  BY ONLY <2>2, <2>3, <3>1, BijectionIs
  <2> QED  BY <2>4, <1>3, FS_CountingElements
<1>5. Cardinality(GuardsOf(nat)) = g
  <2> DEFINE f == [j \in 1 .. g |-> 2 * j - 1]
  <2>0. g \in Nat
    BY <1>3
  <2>1. \A j \in 1 .. g : f[j] \in GuardsOf(nat)
    <3> SUFFICES ASSUME NEW j \in 1 .. g
                 PROVE  f[j] \in GuardsOf(nat)
      OBVIOUS
    <3>1. f[j] = 2 * j - 1 /\ 2 * j - 1 \in 1 .. n /\ (2 * j - 1) % 2 # 0
      BY <1>3
    <3> QED  BY <1>2, <3>1 DEF GuardsOf, n
  <2>2. \A i, j \in 1 .. g : f[i] = f[j] => i = j
    BY <2>0
  <2>3. \A k \in GuardsOf(nat) : \E j \in 1 .. g : f[j] = k
    <3> SUFFICES ASSUME NEW k \in GuardsOf(nat)
                 PROVE  \E j \in 1 .. g : f[j] = k
      OBVIOUS
    <3>1. k \in 1 .. n /\ k % 2 # 0
      BY <1>2 DEF GuardsOf, n
    <3>2. (k + 1) \div 2 \in 1 .. g /\ 2 * ((k + 1) \div 2) - 1 = k
      BY <1>3, <3>1
    <3> QED  BY <3>2
  <2>4. ExistsBijection(1 .. g, GuardsOf(nat))
    <3>1. f \in [1 .. g -> GuardsOf(nat)]
      BY <2>1
    <3> HIDE DEF f
    <3> QED  BY ONLY <2>2, <2>3, <3>1, BijectionIs
  <2> QED  BY <2>0, <2>4, FS_CountingElements
<1>6. InKotlin(nat) <=> n = 2 * c
  <2>1. CASE n = 0
    <3>1. nat = <<>>
      BY <1>1, <2>1, EmptySeq DEF n
    <3> QED  BY <1>3, <2>1, <3>1 DEF InKotlin
  <2>2. CASE n # 0
    <3>1. nat # <<>> /\ n \in 1 .. n
      BY <1>1, <2>2 DEF n
    <3>2. InKotlin(nat) <=> n % 2 = 0
      BY <1>2, <3>1 DEF InKotlin, n
    <3>3. n % 2 = 0 <=> n = 2 * c
      BY <1>3
    <3> QED  BY <3>2, <3>3
  <2> QED  BY <2>1, <2>2
<1> QED  BY <1>3, <1>4, <1>5, <1>6 DEF n

-----------------------------------------------------------------------------
(* The views as functions of the C stack, the call infos and the value      *)
(* stack.  The activation that begins with native frame e has its base in   *)
(* the call info BaseAt, and sees the slots up to EndAt.                    *)
BaseAt(nat, e)   == IF e = 0 THEN 1 ELSE nat[e].ci
EndAt(nat, s, e) ==
  IF e = Len(nat) THEN Len(s)
  ELSE IF nat[e + 1].kind = "call" THEN nat[e + 1].func - 2 ELSE nat[e + 1].func - 1
View(nat, c, s, e) == SubSeq(s, c[BaseAt(nat, e)] + 1, EndAt(nat, s, e))

Seen(nat, c, s, n)   == [a \in 1 .. n |-> View(nat, c, s, 2 * (a - 1))]
RequestAt(nat, g)    == [pops |-> nat[2 * g - 1].pops, nresults |-> nat[2 * g - 1].nresults]
Awaited(nat, n)      == [g \in 1 .. n |-> RequestAt(nat, g)]

(* The state of KotlinStacks in these terms. *)
LEMMA ViewsAre ==
  ASSUME Cardinality(Callbacks) \in Nat
  PROVE  /\ views = Seen(native, ci, stack, Cardinality(Callbacks) + 1)
         /\ waits = Awaited(native, Cardinality(Guards))
         /\ Callbacks = CallbacksOf(native) /\ Guards = GuardsOf(native)
<1>1. ASSUME NEW a \in 1 .. Cardinality(Callbacks) + 1
      PROVE  ViewOf(a) = View(native, ci, stack, 2 * (a - 1))
  <2>1. EntryOf(a) = 2 * (a - 1)
    BY DEF EntryOf
  <2> QED  BY <2>1 DEF ViewOf, View, BaseAt, EndAt
<1>2. views = Seen(native, ci, stack, Cardinality(Callbacks) + 1)
  BY <1>1 DEF views, Seen
<1>3. waits = Awaited(native, Cardinality(Guards))
  BY DEF waits, Awaited, RequestAt
<1>4. Callbacks = CallbacksOf(native) /\ Guards = GuardsOf(native)
  BY DEF Callbacks, CallbacksOf, Guards, GuardsOf, IsCallback
<1> QED  BY <1>2, <1>3, <1>4

(* The same of the state after a step. *)
LEMMA ViewsAreNext ==
  ASSUME Cardinality(CallbacksOf(native')) \in Nat
  PROVE  /\ views' = Seen(native', ci', stack', Cardinality(CallbacksOf(native')) + 1)
         /\ waits' = Awaited(native', Cardinality(GuardsOf(native')))
<1>0. Callbacks' = CallbacksOf(native') /\ Guards' = GuardsOf(native')
  BY DEF Callbacks, CallbacksOf, Guards, GuardsOf, IsCallback
<1>1. ASSUME NEW a \in 1 .. Cardinality(Callbacks') + 1
      PROVE  ViewOf(a)' = View(native', ci', stack', 2 * (a - 1))
  <2>1. EntryOf(a) = 2 * (a - 1)
    BY <1>0 DEF EntryOf
  <2> QED  BY <2>1 DEF ViewOf, View, BaseAt, EndAt
<1>2. views' = Seen(native', ci', stack', Cardinality(Callbacks') + 1)
  BY <1>1 DEF views, Seen
<1>3. waits' = Awaited(native', Cardinality(Guards'))
  BY DEF waits, Awaited, RequestAt
<1> QED  BY <1>0, <1>2, <1>3

(* Subsequences of two sequences that agree there are the same. *)
LEMMA SubSeqSame ==
  ASSUME NEW S, NEW T, NEW s \in Seq(S), NEW t \in Seq(T), NEW m \in Nat, m >= 1,
         NEW n \in Int, n <= Len(s), n <= Len(t),
         \A i \in m .. n : s[i] = t[i]
  PROVE  SubSeq(s, m, n) = SubSeq(t, m, n)
<1>1. SubSeq(s, m, n) = [i \in 1 .. n - m + 1 |-> s[m + i - 1]]
      /\ SubSeq(t, m, n) = [i \in 1 .. n - m + 1 |-> t[m + i - 1]]
  OBVIOUS
<1>2. \A i \in 1 .. n - m + 1 : m + i - 1 \in m .. n
  OBVIOUS
<1> QED  BY <1>1, <1>2

(* The prefix of a subsequence is a subsequence that ends earlier. *)
LEMMA SubSeqPrefix ==
  ASSUME NEW S, NEW s \in Seq(S), NEW b \in Nat, NEW l \in Nat, b <= l, l <= Len(s),
         NEW p \in Nat, p <= l - b
  PROVE  /\ Len(SubSeq(s, b + 1, l)) = l - b
         /\ SubSeq(SubSeq(s, b + 1, l), 1, l - b - p) = SubSeq(s, b + 1, l - p)
<1> DEFINE t == SubSeq(s, b + 1, l)
           q == l - b - p
<1>1. q \in Nat /\ q <= l - b /\ l - p \in Int /\ l - p - (b + 1) + 1 = q
  OBVIOUS
<1>2. t \in Seq(S) /\ Len(t) = l - b /\ \A i \in 1 .. l - b : t[i] = s[b + i]
  <2>1. b + 1 >= 1 /\ l - (b + 1) + 1 = l - b
    OBVIOUS
  <2>2. SubSeq(s, b + 1, l) = [i \in 1 .. l - b |-> s[b + 1 + i - 1]]
    BY <2>1
  <2>3. \A i \in 1 .. l - b : b + 1 + i - 1 = b + i /\ b + i \in 1 .. Len(s)
    OBVIOUS
  <2> QED  BY <2>2, <2>3
<1>3. SubSeq(s, b + 1, l - p) = [i \in 1 .. q |-> s[b + i]]
  <2>1. SubSeq(s, b + 1, l - p) = [i \in 1 .. q |-> s[b + 1 + i - 1]]
    BY <1>1
  <2>2. \A i \in 1 .. q : b + 1 + i - 1 = b + i
    BY <1>1
  <2> QED  BY <2>1, <2>2
<1> HIDE DEF t
<1>4. SubSeq(t, 1, q) = [i \in 1 .. q |-> t[i]]
  BY ONLY <1>1, <1>2
<1>5. \A i \in 1 .. q : t[i] = s[b + i]
  BY ONLY <1>1, <1>2
<1>6. SubSeq(t, 1, q) = SubSeq(s, b + 1, l - p)
  BY ONLY <1>3, <1>4, <1>5
<1> QED  BY <1>2, <1>6 DEF t

(* A waiting activation sees what it saw if its request and its base are the *)
(* same and no slot below the request's has changed.                         *)
LEMMA ViewKept ==
  ASSUME NEW nat, NEW c, NEW s \in Seq(Slot), NEW e \in Nat,
         NEW new, NEW d, NEW t \in Seq(Slot),
         e # Len(nat), e # Len(new),
         new[e + 1].kind = nat[e + 1].kind, new[e + 1].func = nat[e + 1].func,
         e > 0 => new[e].ci = nat[e].ci,
         d[BaseAt(nat, e)] = c[BaseAt(nat, e)], c[BaseAt(nat, e)] \in Nat,
         EndAt(nat, s, e) \in Int, EndAt(nat, s, e) <= Len(s), EndAt(nat, s, e) <= Len(t),
         \A i \in 1 .. EndAt(nat, s, e) : t[i] = s[i]
  PROVE  View(new, d, t, e) = View(nat, c, s, e)
<1>1. BaseAt(new, e) = BaseAt(nat, e) /\ EndAt(new, t, e) = EndAt(nat, s, e)
  BY DEF BaseAt, EndAt
<1> DEFINE m == c[BaseAt(nat, e)] + 1
           n == EndAt(nat, s, e)
<1>2. m \in Nat /\ m >= 1 /\ n \in Int /\ n <= Len(s) /\ n <= Len(t)
      /\ \A i \in m .. n : s[i] = t[i]
  OBVIOUS
<1>3. View(new, d, t, e) = SubSeq(t, m, n) /\ View(nat, c, s, e) = SubSeq(s, m, n)
  BY <1>1 DEF View
<1> HIDE DEF m, n
<1> QED  BY <1>2, <1>3, SubSeqSame

(* Each open request begins at a slot above the base of the activation that *)
(* made it, and no further up than the stack goes.                          *)
LEMMA GuardFacts ==
  ASSUME Reported, IInv, mode = "run", NEW g \in GuardsOf(native), NEW e, e = g - 1
  PROVE  /\ g \in 1 .. Len(native) /\ Len(native) \in Nat /\ Len(stack) \in Nat
         /\ native[g] \in Frame /\ native[g].func \in Nat /\ native[g].pops \in 0 .. 2
         /\ native[g].ci \in 1 .. Len(ci) /\ Len(ci) \in Nat /\ ci[native[g].ci] \in Nat
         /\ BaseAt(native, e) = native[g].ci
         /\ native[g].func > ci[native[g].ci] + native[g].pops
         /\ EndAt(native, stack, e) =
               IF native[g].kind = "call" THEN native[g].func - 2 ELSE native[g].func - 1
         /\ EndAt(native, stack, e) \in Nat
         /\ EndAt(native, stack, e) >= ci[native[g].ci]
         /\ native[g].func <= Len(stack) + 1
<1>1. /\ Ordered(native, ci, nCcalls, stack) /\ Linked(native, errorjmp)
      /\ native \in Seq(Frame) /\ ci \in Seq(Nat) /\ stack \in Seq(Slot)
      /\ Len(native) \in Nat /\ Len(ci) \in Nat /\ Len(stack) \in Nat
      /\ g \in 1 .. Len(native) /\ ~IsCallback(native[g])
  BY LenProperties DEF IInv, TypeOK, GuardsOf
<1>2. native[g] \in Frame /\ native[g].func \in Nat /\ native[g].pops \in 0 .. 2
      /\ native[g].ci \in Nat /\ native[g].errfunc \in Int
  <2>1. native[g] \in Frame
    BY <1>1, ElementOfSeq
  <2> QED  BY <2>1 DEF Frame
<1>3. native[g].ci \in 1 .. Len(ci)
  BY <1>1, <1>2, Heights, Grounded
<1>4. ci[native[g].ci] \in Nat
  BY <1>1, <1>3, ElementOfSeq
<1>5. GuardAt(native, ci, g)
  BY <1>1 DEF Ordered, Nested
<1>6. Tight
  BY DEF Reported, Tight
<1>7. BaseAt(native, e) = native[g].ci
  <2>1. native[g].ci = IF g = 1 THEN 1 ELSE native[g - 1].ci
    BY <1>5, <1>6 DEF GuardAt, AtLeast
  <2>2. e = 0 <=> g = 1
    BY <1>1
  <2> QED  BY <2>1, <2>2 DEF BaseAt
<1>8. /\ native[g].func > ci[native[g].ci] + native[g].pops
      /\ native[g].kind = "call" =>
           native[g].errfunc >= 1 /\ native[g].func = ci[native[g].ci] + native[g].errfunc + 1
  BY <1>5 DEF GuardAt
<1>9. EndAt(native, stack, e) =
         IF native[g].kind = "call" THEN native[g].func - 2 ELSE native[g].func - 1
  <2>1. e # Len(native) /\ e + 1 = g
    BY <1>1
  <2> QED  BY <2>1 DEF EndAt
<1>10. EndAt(native, stack, e) \in Nat /\ EndAt(native, stack, e) >= ci[native[g].ci]
  <2> DEFINE end == EndAt(native, stack, e)
             base == ci[native[g].ci]
             fn == native[g].func
             er == native[g].errfunc
             p == native[g].pops
  <2>1. /\ end \in {fn - 2, fn - 1} /\ base \in Nat /\ fn \in Nat /\ er \in Int /\ p \in 0 .. 2
        /\ fn > base + p
        /\ end = fn - 2 => er >= 1 /\ fn = base + er + 1
    BY <1>2, <1>4, <1>8, <1>9
  <2> HIDE DEF end, base, fn, er, p
  <2>2. end \in Nat /\ end >= base
    BY <2>1
  <2> QED  BY <2>2 DEF end, base
<1>11. native[g].func <= Len(stack) + 1
  <2> DEFINE n == Len(native)
             top == native[n]
  <2>1. n \in 1 .. n /\ native # <<>> /\ n \in Nat
    BY <1>1
  <2>2. CASE g = n
    BY <1>1, <1>2, <2>1, <2>2 DEF Ordered, AtGuard
  <2>3. CASE g # n
    <3>1. g < n
      BY <1>1, <2>3
    <3>2. native[g].func <= ci[top.ci] /\ top.ci \in 1 .. Len(ci)
      BY <2>1, <3>1, FuncsRise
    <3>3. ci[top.ci] \in Nat
      BY <1>1, <3>2, ElementOfSeq
    <3>4. ci[top.ci] <= Len(stack)
      <4>1. CASE IsCallback(top)
        BY <1>1, <2>1, <4>1 DEF Ordered, AtCallback
      <4>2. CASE ~IsCallback(top)
        <5>1. GuardAt(native, ci, n) /\ AtGuard(native, ci, nCcalls, stack)
          BY <1>1, <2>1, <4>2 DEF Ordered, Nested
        <5>2. top \in Frame
          BY <1>1, <2>1, ElementOfSeq
        <5>3. top.func \in Nat /\ top.pops \in 0 .. 2
          BY <5>2 DEF Frame
        <5>4. top.func > ci[top.ci] + top.pops
          BY <5>1 DEF GuardAt
        <5>5. top.func <= Len(stack) + 1
          BY <1>1, <2>1, <4>2, <5>1, <5>3 DEF AtGuard
        <5> HIDE DEF top
        <5> QED  BY <1>1, <3>3, <5>3, <5>4, <5>5
      <4> QED  BY <4>1, <4>2
    <3>5. native[g].func \in Nat /\ Len(stack) \in Nat
      BY <1>1, <1>2
    <3> HIDE DEF n, top
    <3> DEFINE func == native[g].func
               at == ci[top.ci]
               l == Len(stack)
    <3>6. func \in Nat /\ l \in Nat /\ at \in Nat /\ func <= at /\ at <= l
      BY ONLY <3>2, <3>3, <3>4, <3>5
    <3> HIDE DEF func, at, l
    <3>7. func <= l + 1
      BY ONLY <3>6
    <3> QED  BY ONLY <3>7 DEF func, l
  <2> QED  BY <2>2, <2>3
<1> QED  BY <1>1, <1>2, <1>3, <1>4, <1>7, <1>8, <1>9, <1>10, <1>11

(* The frames of the first k requests are the same in new, their call infos *)
(* in d, and the slots below the last of these requests in t.               *)
Alike(new, d, t, k) ==
  k > 0 =>
    LET g == native[2 * k - 1]
    IN  /\ 2 * k - 1 <= Len(native) /\ 2 * k - 1 <= Len(new)
        /\ \A i \in 1 .. 2 * k - 1 :
             /\ new[i].kind = native[i].kind /\ new[i].ci = native[i].ci
             /\ new[i].func = native[i].func /\ new[i].pops = native[i].pops
             /\ new[i].nresults = native[i].nresults
        /\ \A i \in 1 .. g.ci : d[i] = ci[i]
        /\ g.func <= Len(t) + 1 /\ \A i \in 1 .. g.func - 1 : t[i] = stack[i]

(* Then the first k activations see and await the same. *)
LEMMA SeenKept ==
  ASSUME Reported, IInv, mode = "run", NEW k \in Nat,
         NEW new, Len(new) \in Nat, NEW d, NEW t \in Seq(Slot), Alike(new, d, t, k)
  PROVE  /\ Seen(new, d, t, k) = Seen(native, ci, stack, k)
         /\ Awaited(new, k) = Awaited(native, k)
<1> DEFINE g == 2 * k - 1
<1>0. k > 0 => /\ g \in 1 .. Len(native) /\ g <= Len(new)
               /\ \A i \in 1 .. native[g].ci : d[i] = ci[i]
               /\ native[g].func <= Len(t) + 1
               /\ \A i \in 1 .. native[g].func - 1 : t[i] = stack[i]
               /\ \A i \in 1 .. g :
                    /\ new[i].kind = native[i].kind /\ new[i].ci = native[i].ci
                    /\ new[i].func = native[i].func /\ new[i].pops = native[i].pops
                    /\ new[i].nresults = native[i].nresults
  BY LenProperties DEF Alike, IInv, TypeOK
<1>00. g = 2 * k - 1
  OBVIOUS
<1> HIDE DEF g
<1>1. /\ Linked(native, errorjmp) /\ Ordered(native, ci, nCcalls, stack) /\ stack \in Seq(Slot)
      /\ Len(native) \in Nat /\ native \in Seq(Frame) /\ Len(t) \in Nat
  BY LenProperties DEF IInv, TypeOK
<1>2. ASSUME NEW a \in 1 .. k
      PROVE  /\ 2 * a - 1 \in GuardsOf(native) /\ 2 * a - 1 \in 1 .. g
             /\ View(new, d, t, 2 * (a - 1)) = View(native, ci, stack, 2 * (a - 1))
  <2> DEFINE h == 2 * a - 1
             e == 2 * (a - 1)
  <2>1. h \in 1 .. g /\ h \in 1 .. Len(native) /\ h % 2 # 0 /\ e \in Nat /\ e = h - 1 /\ e + 1 = h
        /\ e # Len(native) /\ e # Len(new) /\ (e > 0 => e \in 1 .. g) /\ k > 0
        /\ g \in 1 .. Len(native) /\ g % 2 # 0
    <3>1. k > 0 /\ g \in 1 .. Len(native) /\ g <= Len(new)
      BY <1>0
    <3> DEFINE l == Len(native)
               m == Len(new)
    <3>2. l \in Nat /\ m \in Nat /\ g \in 1 .. l /\ g <= m
      BY <1>1, <3>1
    <3> HIDE DEF l, m
    <3>3. /\ h \in 1 .. g /\ h \in 1 .. l /\ h % 2 # 0 /\ e \in Nat /\ e = h - 1 /\ e + 1 = h
          /\ e # l /\ e # m /\ (e > 0 => e \in 1 .. g) /\ g % 2 # 0
      BY ONLY <3>2, k \in Nat, a \in 1 .. k, <1>00
    <3> QED  BY <3>1, <3>3 DEF l, m
  <2> HIDE DEF h, e
  <2>2. h \in GuardsOf(native) /\ g \in GuardsOf(native)
    BY <1>1, <2>1, TakeTurns DEF GuardsOf
  <2>3. /\ native[h].func \in Nat /\ native[h].ci \in 1 .. Len(ci) /\ ci[native[h].ci] \in Nat
        /\ BaseAt(native, e) = native[h].ci
        /\ EndAt(native, stack, e) \in Nat /\ EndAt(native, stack, e) <= native[h].func - 1
        /\ native[h].func <= Len(stack) + 1 /\ Len(stack) \in Nat
    <3>1. /\ native[h].func \in Nat /\ native[h].ci \in 1 .. Len(ci) /\ ci[native[h].ci] \in Nat
          /\ BaseAt(native, e) = native[h].ci
          /\ EndAt(native, stack, e) \in Nat
          /\ EndAt(native, stack, e) \in {native[h].func - 2, native[h].func - 1}
          /\ native[h].func <= Len(stack) + 1 /\ Len(stack) \in Nat
      BY ONLY <2>1, <2>2, GuardFacts, Reported, IInv, mode = "run"
    <3>2. EndAt(native, stack, e) <= native[h].func - 1
      BY ONLY <3>1
    <3> QED  BY ONLY <3>1, <3>2
  <2>4. /\ native[g].func \in Nat /\ native[g].ci \in 1 .. Len(ci) /\ ci[native[g].ci] \in Nat
        /\ native[g].func > ci[native[g].ci]
    <3>1. native[g].func \in Nat /\ native[g].ci \in 1 .. Len(ci) /\ ci[native[g].ci] \in Nat
          /\ native[g].func > ci[native[g].ci] + native[g].pops /\ native[g].pops \in 0 .. 2
      BY <2>2, GuardFacts
    <3> QED  BY ONLY <3>1
  <2>5. native[h].func <= native[g].func
    <3>1. CASE h = g
      BY <2>4, <3>1
    <3>2. CASE h < g
      <4>1. native[h].func <= ci[native[g].ci]
        BY <2>1, <2>2, <3>2, FuncsRise
      <4> QED  BY ONLY <2>3, <2>4, <4>1
    <3> QED  BY <2>1, <3>1, <3>2
  <2>6. native[h].ci <= native[g].ci
    BY <1>1, <2>1 DEF Ordered, Nested
  <2>7. d[BaseAt(native, e)] = ci[BaseAt(native, e)]
    <3>1. native[h].ci \in 1 .. native[g].ci
      BY ONLY <2>3, <2>4, <2>6
    <3> QED  BY <1>0, <2>1, <2>3, <3>1
  <2> DEFINE end == EndAt(native, stack, e)
             fn == native[h].func
             gn == native[g].func
  <2>8. end \in Nat /\ end <= fn - 1 /\ fn <= gn /\ fn \in Nat /\ gn \in Nat
        /\ fn <= Len(stack) + 1 /\ gn <= Len(t) + 1 /\ \A i \in 1 .. gn - 1 : t[i] = stack[i]
    BY <1>0, <2>1, <2>3, <2>4, <2>5
  <2> HIDE DEF end, fn, gn
  <2>9. end <= Len(stack) /\ end <= Len(t) /\ end \in Int /\ \A i \in 1 .. end : t[i] = stack[i]
    <3> DEFINE l == Len(stack)
               m == Len(t)
    <3>1. l \in Nat /\ m \in Nat /\ fn <= l + 1 /\ gn <= m + 1
      BY ONLY <1>1, <2>3, <2>8
    <3> HIDE DEF l, m
    <3>2. end <= l /\ end <= m /\ end \in Int /\ \A i \in 1 .. end : i \in 1 .. gn - 1
      BY ONLY <2>8, <3>1
    <3> QED  BY ONLY <2>8, <3>2 DEF l, m
  <2>10. new[e + 1].kind = native[e + 1].kind /\ new[e + 1].func = native[e + 1].func
         /\ (e > 0 => new[e].ci = native[e].ci)
    BY <1>0, <2>1
  <2>11. View(new, d, t, e) = View(native, ci, stack, e)
    <3>1. /\ stack \in Seq(Slot) /\ t \in Seq(Slot) /\ e \in Nat /\ e # Len(native) /\ e # Len(new)
          /\ ci[BaseAt(native, e)] \in Nat
          /\ EndAt(native, stack, e) \in Int
          /\ EndAt(native, stack, e) <= Len(stack) /\ EndAt(native, stack, e) <= Len(t)
          /\ \A i \in 1 .. EndAt(native, stack, e) : t[i] = stack[i]
      BY <1>1, <2>1, <2>3, <2>9 DEF end
    <3> QED  BY ONLY <2>7, <2>10, <3>1, ViewKept
  <2> QED  BY <2>1, <2>2, <2>11 DEF h, e
<1>3. Seen(new, d, t, k) = Seen(native, ci, stack, k)
  BY <1>2 DEF Seen
<1>4. ASSUME NEW a \in 1 .. k
      PROVE  RequestAt(new, a) = RequestAt(native, a)
  BY <1>0, <1>2 DEF RequestAt
<1>5. Awaited(new, k) = Awaited(native, k)
  BY <1>4 DEF Awaited
<1> QED  BY <1>3, <1>5

-----------------------------------------------------------------------------
(* The state of KotlinStacks before and after a step.                       *)
LEMMA SeenSeq ==
  ASSUME NEW nat, NEW c, NEW s, NEW n \in Nat
  PROVE  /\ Len(Seen(nat, c, s, n)) = n
         /\ \A a \in 1 .. n : Seen(nat, c, s, n)[a] = View(nat, c, s, 2 * (a - 1))
         /\ Seen(nat, c, s, n) \in Seq({View(nat, c, s, 2 * (a - 1)) : a \in 1 .. n})
<1> DEFINE V(a) == View(nat, c, s, 2 * (a - 1))
           S == {V(a) : a \in 1 .. n}
<1>1. Seen(nat, c, s, n) = [a \in 1 .. n |-> V(a)]
  BY DEF Seen
<1> HIDE DEF V
<1>2. /\ [a \in 1 .. n |-> V(a)] \in Seq(S) /\ Len([a \in 1 .. n |-> V(a)]) = n
      /\ \A a \in 1 .. n : [b \in 1 .. n |-> V(b)][a] = V(a)
  OBVIOUS
<1> QED  BY <1>1, <1>2 DEF V

(* What the first activations see is a sequence. *)
LEMMA SeenIsSeq ==
  ASSUME NEW nat, NEW c, NEW s, NEW n \in Nat
  PROVE  \E S : Seen(nat, c, s, n) \in Seq(S)
BY SeenSeq

(* What the first activations wait for, one request after the other. *)
LEMMA AwaitedSeq ==
  ASSUME NEW nat, NEW n \in Nat
  PROVE  /\ Len(Awaited(nat, n)) = n
         /\ \A a \in 1 .. n : Awaited(nat, n)[a] = RequestAt(nat, a)
         /\ Awaited(nat, n) \in Seq({RequestAt(nat, a) : a \in 1 .. n})
<1> DEFINE R(a) == RequestAt(nat, a)
           S == {R(a) : a \in 1 .. n}
<1>1. Awaited(nat, n) = [a \in 1 .. n |-> R(a)]
  BY DEF Awaited
<1> HIDE DEF R
<1>2. /\ [a \in 1 .. n |-> R(a)] \in Seq(S) /\ Len([a \in 1 .. n |-> R(a)]) = n
      /\ \A a \in 1 .. n : [b \in 1 .. n |-> R(b)][a] = R(a)
  OBVIOUS
<1> QED  BY <1>1, <1>2 DEF R

(* With one more, there is one more at the end. *)
LEMMA SeenPushed ==
  ASSUME NEW nat, NEW c, NEW s, NEW n \in Nat
  PROVE  Seen(nat, c, s, n + 1) = Append(Seen(nat, c, s, n), View(nat, c, s, 2 * n))
<1> DEFINE V(a) == View(nat, c, s, 2 * (a - 1))
           S == {V(a) : a \in 1 .. n + 1}
<1>1. /\ Seen(nat, c, s, n) = [a \in 1 .. n |-> V(a)]
      /\ Seen(nat, c, s, n + 1) = [a \in 1 .. n + 1 |-> V(a)]
  BY DEF Seen
<1>2. View(nat, c, s, 2 * n) = V(n + 1)
  <2>1. n + 1 - 1 = n
    OBVIOUS
  <2> QED  BY <2>1
<1> HIDE DEF V
<1>3. [a \in 1 .. n + 1 |-> V(a)] = Append([a \in 1 .. n |-> V(a)], V(n + 1))
  <2>1. [a \in 1 .. n |-> V(a)] \in Seq(S) /\ Len([a \in 1 .. n |-> V(a)]) = n /\ V(n + 1) \in S
    OBVIOUS
  <2> QED  BY ONLY <2>1, n \in Nat
<1> QED  BY <1>1, <1>2, <1>3

(* One request more is appended to those before it. *)
LEMMA AwaitedPushed ==
  ASSUME NEW nat, NEW n \in Nat
  PROVE  Awaited(nat, n + 1) = Append(Awaited(nat, n), RequestAt(nat, n + 1))
<1> DEFINE R(a) == RequestAt(nat, a)
           S == {R(a) : a \in 1 .. n + 1}
<1>1. /\ Awaited(nat, n) = [a \in 1 .. n |-> R(a)]
      /\ Awaited(nat, n + 1) = [a \in 1 .. n + 1 |-> R(a)]
  BY DEF Awaited
<1> HIDE DEF R
<1>2. [a \in 1 .. n + 1 |-> R(a)] = Append([a \in 1 .. n |-> R(a)], R(n + 1))
  <2>1. [a \in 1 .. n |-> R(a)] \in Seq(S) /\ Len([a \in 1 .. n |-> R(a)]) = n /\ R(n + 1) \in S
    OBVIOUS
  <2> QED  BY ONLY <2>1, n \in Nat
<1> QED  BY <1>1, <1>2 DEF R

-----------------------------------------------------------------------------
(* The steps of KotlinStacks, told by what is at the end of the two          *)
(* sequences.                                                               *)
LEMMA Pushed ==
  ASSUME NEW S, NEW v \in Seq(S), NEW x, NEW n, n = Len(v)
  PROVE  /\ n \in Nat
         /\ Len(Append(v, x)) = n + 1
         /\ Append(v, x)[n + 1] = x
         /\ SubSeq(Append(v, x), 1, n) = v
<1> DEFINE T == S \cup {x}
<1>1. v \in Seq(T) /\ x \in T /\ n \in Nat
  OBVIOUS
<1> HIDE DEF T
<1>2. Len(Append(v, x)) = n + 1 /\ Append(v, x)[n + 1] = x /\ Append(v, x) \in Seq(T)
      /\ \A i \in 1 .. n : Append(v, x)[i] = v[i]
  BY ONLY <1>1, n = Len(v)
<1>3. SubSeq(Append(v, x), 1, n) = [i \in 1 .. n |-> Append(v, x)[i]]
  BY ONLY <1>1, <1>2
<1>4. v = [i \in 1 .. n |-> v[i]]
  BY ONLY <1>1, n = Len(v)
<1> QED  BY ONLY <1>1, <1>2, <1>3, <1>4

(* To replace the last of a sequence is to append another in its place. *)
LEMMA Replaced ==
  ASSUME NEW S, NEW v \in Seq(S), NEW x, NEW y, NEW n, n = Len(v)
  PROVE  [Append(v, x) EXCEPT ![n + 1] = y] = Append(v, y)
<1> DEFINE T == S \cup {x, y}
           w == Append(v, x)
           u == Append(v, y)
<1>1. v \in Seq(T) /\ x \in T /\ y \in T /\ n \in Nat
  OBVIOUS
<1> HIDE DEF T
<1>2. w \in Seq(T) /\ Len(w) = n + 1 /\ \A i \in 1 .. n : w[i] = v[i]
  BY ONLY <1>1, n = Len(v)
<1>3. u \in Seq(T) /\ Len(u) = n + 1 /\ u[n + 1] = y /\ \A i \in 1 .. n : u[i] = v[i]
  BY ONLY <1>1, n = Len(v)
<1> HIDE DEF w, u
<1>4. [w EXCEPT ![n + 1] = y] = [i \in 1 .. n + 1 |-> IF i = n + 1 THEN y ELSE w[i]]
  <2>1. DOMAIN w = 1 .. n + 1
    BY ONLY <1>1, <1>2
  <2>2. [w EXCEPT ![n + 1] = y] = [i \in DOMAIN w |-> IF i = n + 1 THEN y ELSE w[i]]
    OBVIOUS
  <2> QED  BY ONLY <2>1, <2>2
<1>5. u = [i \in 1 .. n + 1 |-> u[i]]
  BY ONLY <1>1, <1>3
<1>6. \A i \in 1 .. n + 1 : u[i] = IF i = n + 1 THEN y ELSE w[i]
  BY ONLY <1>1, <1>2, <1>3
<1>7. [w EXCEPT ![n + 1] = y] = u
  BY ONLY <1>4, <1>5, <1>6
<1> QED  BY <1>7 DEF w, u

(* Another stack for the running activation, the rest alike, is Rearrange. *)
LEMMA AsRearrange ==
  ASSUME NEW S, NEW V \in Seq(S), NEW x, NEW y, NEW n, n = Len(V), Len(waits) = n,
         views = Append(V, x), views' = Append(V, y), waits' = waits
  PROVE  Views!Rearrange
<1>1. /\ n \in Nat /\ Len(views) = n + 1 /\ Len(views') = n + 1
      /\ SubSeq(views, 1, n) = V /\ SubSeq(views', 1, n) = V
  BY Pushed
<1>2. Len(views) - 1 = n /\ Len(views') - 1 = n
  BY ONLY <1>1
<1> QED  BY <1>1, <1>2 DEF Views!Rearrange, Views!Running, Views!Dropped, Views!Initial

(* Fewer operands on the last stack and one request more is Request. *)
LEMMA AsRequest ==
  ASSUME NEW S, NEW V \in Seq(S), NEW T, NEW W \in Seq(T), NEW n, n = Len(V), Len(W) = n,
         NEW x \in Seq(Slot), NEW p \in Nat, NEW q \in Nat, p + q <= Len(x),
         NEW m \in ResultCounts,
         views = Append(V, x), views' = Append(V, SubSeq(x, 1, Len(x) - p)),
         waits = W, waits' = Append(W, [pops |-> q, nresults |-> m])
  PROVE  Views!Next
<1> DEFINE y == SubSeq(x, 1, Len(x) - p)
<1>1. /\ n \in Nat /\ Len(views) = n + 1 /\ views[n + 1] = x
      /\ [views EXCEPT ![n + 1] = y] = Append(V, y)
  <2>1. n \in Nat /\ Len(views) = n + 1 /\ views[n + 1] = x
    BY Pushed
  <2>2. [Append(V, x) EXCEPT ![n + 1] = y] = Append(V, y)
    BY Replaced
  <2> QED  BY <2>1, <2>2
<1>2. Views!Running /\ Views!Current = x
  BY <1>1 DEF Views!Running, Views!Current
<1>3. Views!WithView(Views!Dropped(Views!Current, p)) = views'
  BY <1>1, <1>2 DEF Views!WithView, Views!Dropped, Views!Initial
<1>4. Views!Request(p, q, m)
  BY <1>2, <1>3 DEF Views!Request
<1>5. p \in 0 .. Len(Views!Current) /\ q \in 0 .. Len(Views!Current)
  BY <1>2, LenProperties
<1> QED  BY <1>4, <1>5 DEF Views!Next

(* One stack of plain values more is Enter. *)
LEMMA AsEnter ==
  ASSUME NEW S, NEW V \in Seq(S), Len(waits) = Len(V),
         NEW x \in Seq(Val), views = V, views' = Append(V, x), waits' = waits
  PROVE  Views!Enter
<1> DEFINE n == Len(V)
<1>1. /\ n \in Nat /\ Len(views') = n + 1 /\ views'[n + 1] = x /\ SubSeq(views', 1, n) = V
  BY Pushed
<1> HIDE DEF n
<1>2. Len(views') - 1 = n /\ Len(views) = n /\ ~(n = n + 1)
  BY <1>1 DEF n
<1>3. ~Views!Running
  BY <1>2 DEF Views!Running, n
<1> QED  BY <1>1, <1>2, <1>3 DEF Views!Enter, Views!Dropped, Views!Initial

(* The last stack gone, and nothing else, is Leave. *)
LEMMA AsLeave ==
  ASSUME NEW S, NEW V \in Seq(S), Len(waits) = Len(V), Len(V) >= 1,
         NEW x, views = Append(V, x), views' = V, waits' = waits
  PROVE  Views!Leave
<1> DEFINE n == Len(V)
<1>1. /\ n \in Nat /\ Len(views) = n + 1 /\ SubSeq(views, 1, n) = V
  BY Pushed
<1> HIDE DEF n
<1>2. Len(views) - 1 = n /\ Len(views) > 1
  BY <1>1 DEF n
<1>3. Views!Running
  BY <1>1 DEF Views!Running, n
<1> QED  BY <1>1, <1>2, <1>3 DEF Views!Leave, Views!Dropped, Views!Initial

(* The last request gone, with its results for its operands, is Succeed. *)
LEMMA AsSucceed ==
  ASSUME NEW S, NEW V \in Seq(S), NEW T, NEW W \in Seq(T), NEW n, n = Len(V), Len(W) = n,
         NEW x, NEW y, NEW q, NEW m, NEW kept, kept = Len(x) - q,
         views = Append(V, x), views' = Append(V, y),
         waits = Append(W, [pops |-> q, nresults |-> m]), waits' = W,
         SubSeq(y, 1, kept) = SubSeq(x, 1, kept),
         m # MULTRET => Len(y) = kept + m,
         \A i \in kept + 1 .. Len(y) : y[i] \in Val
  PROVE  Views!Succeed
<1> DEFINE r == [pops |-> q, nresults |-> m]
<1>1. /\ n \in Nat /\ Len(views) = n + 1 /\ Len(views') = n + 1
      /\ views[n + 1] = x /\ views'[n + 1] = y
      /\ SubSeq(views, 1, n) = V /\ SubSeq(views', 1, n) = V
  BY Pushed
<1>2. Len(waits) = n + 1 /\ waits[n + 1] = r /\ SubSeq(waits, 1, n) = W
  BY Pushed
<1>3. Len(views) - 1 = n /\ Len(views') - 1 = n /\ Len(waits) - 1 = n /\ ~(Len(views) = Len(waits) + 1)
  BY ONLY <1>1, <1>2
<1>4. r.pops = q /\ r.nresults = m
  OBVIOUS
<1> HIDE DEF r
<1>5. ~Views!Running /\ Views!Current = x
  BY <1>1, <1>3 DEF Views!Running, Views!Current
<1> QED  BY <1>1, <1>2, <1>3, <1>4, <1>5 DEF Views!Succeed, Views!Dropped, Views!Initial

(* The last request gone, and nothing else, is Fail. *)
LEMMA AsFail ==
  ASSUME NEW T, NEW W \in Seq(T), NEW r, Len(views) = Len(W) + 1,
         views' = views, waits = Append(W, r), waits' = W
  PROVE  Views!Fail
<1> DEFINE n == Len(W)
<1>1. n \in Nat /\ Len(waits) = n + 1 /\ SubSeq(waits, 1, n) = W
  BY Pushed
<1> HIDE DEF n
<1>2. Len(waits) - 1 = n /\ ~(Len(views) = Len(waits) + 1)
  BY <1>1 DEF n
<1> QED  BY <1>1, <1>2 DEF Views!Fail, Views!Running, Views!Dropped, Views!Initial

(* The number of callbacks that are running. *)
Depth(nat) == Cardinality(CallbacksOf(nat))
Opened(nat) == IF InKotlin(nat) THEN Depth(nat) ELSE Depth(nat) + 1

(* What the activations see and await, by the numbers of guards and callbacks. *)
LEMMA Shape ==
  ASSUME IInv
  PROVE  /\ Depth(native) \in Nat /\ Opened(native) \in Nat
         /\ Len(native) = Depth(native) + Opened(native)
         /\ views = Seen(native, ci, stack, Depth(native) + 1)
         /\ waits = Awaited(native, Opened(native))
         /\ Len(views) = Depth(native) + 1 /\ Len(waits) = Opened(native)
         /\ AtKotlin <=> InKotlin(native)
<1>1. Linked(native, errorjmp)
  BY DEF IInv
<1>2. /\ Depth(native) \in Nat /\ Cardinality(GuardsOf(native)) = Opened(native)
      /\ Opened(native) \in Nat /\ Len(native) = Depth(native) + Opened(native)
  BY <1>1, Halves DEF Depth, Opened
<1>3. Callbacks = CallbacksOf(native)
  BY DEF Callbacks, CallbacksOf
<1>4. views = Seen(native, ci, stack, Depth(native) + 1) /\ waits = Awaited(native, Opened(native))
  BY <1>2, <1>3, ViewsAre DEF Depth
<1>5. Len(views) = Depth(native) + 1 /\ Len(waits) = Opened(native)
  <2>1. Depth(native) + 1 \in Nat
    BY <1>2
  <2>2. Len(Seen(native, ci, stack, Depth(native) + 1)) = Depth(native) + 1
    BY ONLY <2>1, SeenSeq, Zenon
  <2>3. Len(Awaited(native, Opened(native))) = Opened(native)
    BY <1>2, AwaitedSeq
  <2> QED  BY <1>4, <2>2, <2>3
<1>6. AtKotlin <=> InKotlin(native)
  BY DEF AtKotlin, InKotlin, IsCallback, Top
<1> QED  BY <1>2, <1>4, <1>5, <1>6

(* The same of the state after a step. *)
LEMMA ShapeNext ==
  ASSUME IInv'
  PROVE  /\ Depth(native') \in Nat /\ Opened(native') \in Nat
         /\ Len(native') = Depth(native') + Opened(native')
         /\ views' = Seen(native', ci', stack', Depth(native') + 1)
         /\ waits' = Awaited(native', Opened(native'))
         /\ Len(views') = Depth(native') + 1 /\ Len(waits') = Opened(native')
<1>1. Linked(native', errorjmp')
  BY DEF IInv
<1>2. /\ Depth(native') \in Nat /\ Cardinality(GuardsOf(native')) = Opened(native')
      /\ Opened(native') \in Nat /\ Len(native') = Depth(native') + Opened(native')
  BY <1>1, Halves DEF Depth, Opened
<1>3. /\ views' = Seen(native', ci', stack', Depth(native') + 1)
      /\ waits' = Awaited(native', Opened(native'))
  BY <1>2, ViewsAreNext DEF Depth
<1>4. Len(views') = Depth(native') + 1 /\ Len(waits') = Opened(native')
  <2>1. Depth(native') + 1 \in Nat
    BY <1>2
  <2>2. Len(Seen(native', ci', stack', Depth(native') + 1)) = Depth(native') + 1
    BY ONLY <2>1, SeenSeq, Zenon
  <2>3. Len(Awaited(native', Opened(native'))) = Opened(native')
    BY <1>2, AwaitedSeq
  <2> QED  BY <1>3, <2>2, <2>3
<1> QED  BY <1>2, <1>3, <1>4

(* A message lies on the stack only where a call that failed has left it,   *)
(* and there are as many results as were asked for.                         *)
NoMessage ==
  \A i \in 1 .. Len(stack) :
    stack[i] = Message => VmRuns("done") /\ Top.status # OK /\ i = Len(stack)
AsManyAsAsked ==
  VmRuns("done") /\ Top.status = OK /\ Top.nresults # MULTRET =>
    Len(stack) = Top.func - 1 + Top.nresults
NothingDeferred ==
  \A i \in 1 .. Len(native) : native[i].kind = "call" => native[i].pops = 0
Tidy == mode = "run" => ci[1] = 0 /\ NoMessage /\ AsManyAsAsked /\ NothingDeferred

-----------------------------------------------------------------------------
(* Kotlin code runs.                                                        *)
LEMMA RunningFacts ==
  ASSUME Reported, IInv, Tidy, KotlinRuns, NEW n, n = Depth(native)
  PROVE  /\ n \in Nat /\ Len(native) = 2 * n /\ Opened(native) = n
         /\ stack \in Seq(Slot) /\ Len(stack) \in Nat /\ native \in Seq(Frame)
         /\ Base \in Nat /\ Base <= Len(stack) /\ GetTop = Len(stack) - Base
         /\ Len(ci) \in Nat /\ Len(ci) >= 1
         /\ BaseAt(native, 2 * n) = Len(ci) /\ ci[Len(ci)] = Base
         /\ n > 0 => /\ 2 * n - 1 \in GuardsOf(native) /\ 2 * n - 1 \in 1 .. Len(native)
                     /\ native[2 * n - 1].func \in Nat
                     /\ native[2 * n - 1].func <= Base
                     /\ native[2 * n - 1].ci \in 1 .. Len(ci)
<1>1. /\ n \in Nat /\ Len(native) = 2 * n /\ Opened(native) = n
  BY Shape DEF KotlinRuns, Opened
<1>2. /\ Ordered(native, ci, nCcalls, stack) /\ Linked(native, errorjmp) /\ InKotlin(native)
      /\ stack \in Seq(Slot) /\ Len(stack) \in Nat /\ native \in Seq(Frame) /\ ci \in Seq(Nat)
      /\ Len(ci) \in Nat /\ Base \in Nat /\ Base = ci[Len(ci)] /\ GetTop \in Int /\ Len(stack) = Base + GetTop
      /\ Len(ci) \in 1 .. Len(ci)
  BY KotlinFacts
<1>3. Tight
  BY DEF Reported, Tight
<1>4. CASE n = 0
  <2>1. native = <<>>
    BY <1>1, <1>2, <1>4, EmptySeq
  <2>2. Len(ci) = 1
    BY <1>2, <1>3, <2>1 DEF Ordered, AtProgram, AtLeast
  <2>3. Base = 0
    BY <1>2, <2>2 DEF Tidy, KotlinRuns
  <2>4. BaseAt(native, 2 * n) = 1
    BY <1>4 DEF BaseAt
  <2> QED  BY <1>1, <1>2, <1>4, <2>2, <2>3, <2>4
<1>5. CASE n > 0
  <2>1. native # <<>>
    BY <1>1, <1>2, <1>5, LenProperties
  <2>2. IsCallback(native[Len(native)])
    BY <1>2, <2>1 DEF InKotlin
  <2>3. Len(ci) = native[Len(native)].ci /\ ci[native[Len(native)].ci] <= Len(stack)
    BY <1>2, <1>3, <2>1, <2>2 DEF Ordered, AtCallback, AtLeast
  <2>4. BaseAt(native, 2 * n) = Len(ci) /\ Base <= Len(stack)
    <3>1. 2 * n # 0
      BY <1>1, <1>5
    <3> QED  BY <1>1, <1>2, <2>3, <3>1 DEF BaseAt
  <2>5. 2 * n - 1 \in 1 .. Len(native) /\ Len(native) \in 1 .. Len(native) /\ 2 * n - 1 < Len(native)
        /\ (2 * n - 1) % 2 # 0
    BY <1>1, <1>5
  <2>6. 2 * n - 1 \in GuardsOf(native)
    BY <1>2, <2>5, TakeTurns DEF GuardsOf
  <2>7. native[2 * n - 1].func \in Nat /\ native[2 * n - 1].func <= Base
    BY <1>2, <2>3, <2>5, <2>6, FuncsRise DEF KotlinRuns
  <2>8. native[2 * n - 1].ci \in 1 .. Len(ci)
    BY <2>6, GuardFacts DEF KotlinRuns
  <2>9. Len(ci) >= 1 /\ GetTop = Len(stack) - Base
    BY ONLY <1>2
  <2> QED  BY ONLY <1>1, <1>2, <2>4, <2>5, <2>6, <2>7, <2>8, <2>9
<1> QED  BY <1>1, <1>4, <1>5

(* The waiting activations see nothing of a step of the running one that     *)
(* leaves everything up to its base alone.                                   *)
LEMMA WaitingKept ==
  ASSUME Reported, IInv, Tidy, KotlinRuns, NEW n, n = Depth(native),
         IInv', Len(native') >= Len(native),
         \A i \in 1 .. Len(native) : native'[i] = native[i],
         \A i \in 1 .. Len(ci) : ci'[i] = ci[i],
         Base <= Len(stack'), \A i \in 1 .. Base : stack'[i] = stack[i]
  PROVE  /\ Seen(native', ci', stack', n) = Seen(native, ci, stack, n)
         /\ Awaited(native', n) = Awaited(native, n)
<1> DEFINE g == 2 * n - 1
<1>1. /\ n \in Nat /\ Len(native) = 2 * n /\ mode = "run"
      /\ Base \in Nat /\ Len(ci) \in Nat
      /\ n > 0 => /\ g \in 1 .. Len(native)
                  /\ native[g].func \in Nat /\ native[g].func <= Base
                  /\ native[g].ci \in 1 .. Len(ci)
  BY RunningFacts DEF KotlinRuns
<1>2. stack' \in Seq(Slot) /\ Len(stack') \in Nat /\ Len(native') \in Nat
  BY LenProperties DEF IInv, TypeOK
<1>3. n > 0 => g \in 1 .. Len(native) /\ g <= Len(native')
  BY <1>1, <1>2
<1>4. \A i \in 1 .. g : native'[i] = native[i]
  <2>1. \A i \in 1 .. g : i \in 1 .. Len(native)
    BY ONLY <1>1
  <2> HIDE DEF g
  <2> QED  BY <2>1
<1>5. n > 0 => \A i \in 1 .. native[g].ci : ci'[i] = ci[i]
  <2> DEFINE c == native[g].ci
             l == Len(ci)
  <2>1. n > 0 => l \in Nat /\ c \in 1 .. l
    BY ONLY <1>1
  <2>2. n > 0 => \A i \in 1 .. c : i \in 1 .. Len(ci)
    <3> HIDE DEF c
    <3> QED  BY ONLY <2>1 DEF l
  <2> HIDE DEF c, l
  <2>3. n > 0 => \A i \in 1 .. c : ci'[i] = ci[i]
    BY <2>2
  <2> QED  BY ONLY <2>3 DEF c
<1>6. n > 0 => /\ native[g].func <= Len(stack') + 1
               /\ \A i \in 1 .. native[g].func - 1 : stack'[i] = stack[i]
  <2> DEFINE f == native[g].func
             l == Len(stack')
  <2> SUFFICES ASSUME n > 0
               PROVE  f <= l + 1 /\ \A i \in 1 .. f - 1 : stack'[i] = stack[i]
    OBVIOUS
  <2>1. f \in Nat /\ f <= Base /\ l \in Nat /\ Base \in Nat /\ Base <= l
    BY <1>1, <1>2
  <2> HIDE DEF f, l
  <2>2. f <= l + 1 /\ \A i \in 1 .. f - 1 : i \in 1 .. Base
    BY ONLY <2>1
  <2> QED  BY <2>2
<1> HIDE DEF g
<1>7. g = 2 * n - 1
  BY DEF g
<1>8. Alike(native', ci', stack', n)
  BY <1>3, <1>4, <1>5, <1>6 DEF Alike, g
<1> QED  BY <1>1, <1>2, <1>8, SeenKept

(* The stack of the running activation goes from its base to the top. *)
LEMMA RunningShape ==
  ASSUME Reported, IInv, Tidy, KotlinRuns, NEW n, n = Depth(native)
  PROVE  /\ views = Append(Seen(native, ci, stack, n), SubSeq(stack, Base + 1, Len(stack)))
         /\ waits = Awaited(native, n)
         /\ Len(Seen(native, ci, stack, n)) = n /\ Len(Awaited(native, n)) = n
         /\ SubSeq(stack, Base + 1, Len(stack)) \in Seq(Slot)
         /\ Len(SubSeq(stack, Base + 1, Len(stack))) = Len(stack) - Base
<1>1. /\ n \in Nat /\ Opened(native) = n /\ Len(native) = 2 * n
      /\ stack \in Seq(Slot) /\ Len(stack) \in Nat
      /\ Base \in Nat /\ Base <= Len(stack)
      /\ BaseAt(native, 2 * n) = Len(ci) /\ ci[Len(ci)] = Base
  BY RunningFacts
<1>2. View(native, ci, stack, 2 * n) = SubSeq(stack, Base + 1, Len(stack))
  BY <1>1 DEF View, EndAt
<1>3. views = Seen(native, ci, stack, n + 1) /\ waits = Awaited(native, n)
  BY <1>1, Shape
<1>4. views = Append(Seen(native, ci, stack, n), SubSeq(stack, Base + 1, Len(stack)))
  BY <1>1, <1>2, <1>3, SeenPushed
<1>5. Len(Seen(native, ci, stack, n)) = n
  <2>1. n \in Nat
    BY <1>1
  <2> QED  BY ONLY <2>1, SeenSeq, Zenon
<1>6. Len(Awaited(native, n)) = n
  BY <1>1, AwaitedSeq
<1>7. /\ SubSeq(stack, Base + 1, Len(stack)) \in Seq(Slot)
      /\ Len(SubSeq(stack, Base + 1, Len(stack))) = Len(stack) - Base
  <2> DEFINE l == Len(stack)
  <2>1. Base + 1 \in Int /\ l \in Int /\ Base + 1 >= 1 /\ l <= Len(stack)
        /\ (Base + 1 <= l => l - (Base + 1) + 1 = l - Base) /\ (~(Base + 1 <= l) => l - Base = 0)
    BY ONLY <1>1
  <2> HIDE DEF l
  <2>2. /\ SubSeq(stack, Base + 1, l) \in Seq(Slot)
        /\ Len(SubSeq(stack, Base + 1, l)) = IF Base + 1 <= l THEN l - (Base + 1) + 1 ELSE 0
    BY ONLY <1>1, <2>1, SubSeqOk
  <2> QED  BY <2>1, <2>2 DEF l
<1> QED  BY <1>3, <1>4, <1>5, <1>6, <1>7

(* The same of a state after a step, with the last activation apart. *)
LEMMA RunningShapeNext ==
  ASSUME IInv', NEW n, n = Depth(native'), n + n = Len(native') \/ n + n + 1 = Len(native')
  PROVE  /\ views' = Append(Seen(native', ci', stack', n), View(native', ci', stack', 2 * n))
         /\ waits' = IF n + n = Len(native') THEN Awaited(native', n)
                     ELSE Append(Awaited(native', n), RequestAt(native', n + 1))
<1>1. n \in Nat /\ Opened(native') \in Nat /\ Len(native') = n + Opened(native')
  BY ShapeNext
<1>2. views' = Seen(native', ci', stack', n + 1) /\ waits' = Awaited(native', Opened(native'))
  BY <1>1, ShapeNext
<1>3. Opened(native') = IF n + n = Len(native') THEN n ELSE n + 1
  BY ONLY <1>1, n + n = Len(native') \/ n + n + 1 = Len(native')
<1>4. Awaited(native', n + 1) = Append(Awaited(native', n), RequestAt(native', n + 1))
  BY <1>1, AwaitedPushed
<1>5. Seen(native', ci', stack', n + 1) = Append(Seen(native', ci', stack', n), View(native', ci', stack', 2 * n))
  BY <1>1, SeenPushed
<1> QED  BY <1>2, <1>3, <1>4, <1>5

(* What Kotlin does with its own stack. *)
LEMMA RearrangeStep ==
  ASSUME Reported, IInv, Tidy, KotlinRuns, IInv', UNCHANGED <<ci, native>>,
         Base <= Len(stack'), \A i \in 1 .. Base : stack'[i] = stack[i]
  PROVE  Views!Rearrange
<1> DEFINE n == Depth(native)
           V == Seen(native, ci, stack, n)
<1>1. n \in Nat /\ Len(native) = n + n /\ Depth(native') = n
  BY RunningFacts
<1>2. /\ views = Append(V, SubSeq(stack, Base + 1, Len(stack)))
      /\ waits = Awaited(native, n) /\ Len(V) = n /\ Len(Awaited(native, n)) = n
  BY RunningShape
<1>3. /\ views' = Append(Seen(native', ci', stack', n), View(native', ci', stack', 2 * n))
      /\ waits' = Awaited(native', n)
  BY <1>1, RunningShapeNext
<1>4. Seen(native', ci', stack', n) = V /\ Awaited(native', n) = Awaited(native, n)
  BY <1>1, WaitingKept
<1>5. V \in Seq({View(native, ci, stack, 2 * (a - 1)) : a \in 1 .. n})
  BY <1>1, SeenSeq
<1> HIDE DEF n, V
<1> QED  BY ONLY <1>2, <1>3, <1>4, <1>5, AsRearrange

(* A request: the new frame f takes p operands off the stack. *)
LEMMA RequestStep ==
  ASSUME Reported, IInv, Tidy, KotlinRuns, IInv', ci' = ci,
         NEW f \in Frame, ~IsCallback(f), native' = Append(native, f),
         NEW p \in Nat, p + f.pops <= GetTop,
         f.func = IF f.kind = "call" THEN Len(stack) - p + 2 ELSE Len(stack) - p + 1,
         Len(stack') >= Len(stack) - p,
         \A i \in 1 .. Len(stack) - p : stack'[i] = stack[i]
  PROVE  Views!Next
<1> DEFINE n == Depth(native)
           l == Len(stack)
           V == Seen(native, ci, stack, n)
           W == Awaited(native, n)
           x == SubSeq(stack, Base + 1, l)
           y == View(native', ci', stack', 2 * n)
<1>1. /\ n \in Nat /\ Len(native) = 2 * n /\ native \in Seq(Frame)
      /\ stack \in Seq(Slot) /\ l \in Nat
      /\ Base \in Nat /\ Base <= l /\ GetTop = l - Base
      /\ BaseAt(native, 2 * n) = Len(ci) /\ ci[Len(ci)] = Base
  BY RunningFacts
<1>2. f.pops \in 0 .. 2 /\ f.nresults \in ResultCounts /\ f.pops \in Nat
  BY DEF Frame
<1>3. /\ Len(native') = 2 * n + 1 /\ native'[2 * n + 1] = f
      /\ \A i \in 1 .. 2 * n : native'[i] = native[i]
  BY ONLY <1>1, native' = Append(native, f), f \in Frame, AppendProperties
<1>4. stack' \in Seq(Slot) /\ Len(stack') \in Nat
  BY LenProperties DEF IInv, TypeOK
<1>5. /\ Base <= l - p /\ Base <= Len(stack') /\ l - p \in Nat /\ l - p <= l /\ l - p <= Len(stack')
      /\ p <= l - Base /\ p + f.pops <= l - Base
  <2> DEFINE m == Len(stack')
  <2>1. l \in Nat /\ m \in Nat /\ Base \in Nat /\ p + f.pops <= l - Base /\ m >= l - p
    BY <1>1, <1>4
  <2> HIDE DEF l, m
  <2>2. /\ Base <= l - p /\ Base <= m /\ l - p \in Nat /\ l - p <= l /\ l - p <= m
        /\ p <= l - Base /\ p + f.pops <= l - Base
    BY ONLY <1>2, <2>1, p \in Nat
  <2> QED  BY <2>2 DEF m
<1>6. Depth(native') = n
  <2>1. \A i \in 1 .. 2 * n + 1 : i \in 1 .. 2 * n \/ i = 2 * n + 1
    BY ONLY <1>1
  <2>2. 1 .. 2 * n \subseteq 1 .. 2 * n + 1
    BY ONLY <1>1
  <2>3. CallbacksOf(native') = CallbacksOf(native)
    <3> HIDE DEF n
    <3> QED  BY ONLY <1>1, <1>3, <2>1, <2>2, ~IsCallback(f) DEF CallbacksOf, IsCallback
  <2> QED  BY <2>3 DEF Depth
<1>7. V = Seen(native', ci', stack', n) /\ W = Awaited(native', n)
  <2>1. \A i \in 1 .. Base : i \in 1 .. l - p
    BY ONLY <1>1, <1>5
  <2>2. Len(native') >= Len(native) /\ \A i \in 1 .. Len(native) : native'[i] = native[i]
    BY ONLY <1>1, <1>3
  <2>3. \A i \in 1 .. Base : stack'[i] = stack[i]
    BY <2>1
  <2>4. \A i \in 1 .. Len(ci) : ci'[i] = ci[i]
    OBVIOUS
  <2> QED  BY <1>5, <2>2, <2>3, <2>4, WaitingKept
<1>8. y = SubSeq(x, 1, Len(x) - p)
  <2>1. BaseAt(native', 2 * n) = Len(ci)
    BY ONLY <1>1, <1>3 DEF BaseAt
  <2>2. EndAt(native', stack', 2 * n) = l - p
    <3>1. 2 * n # Len(native') /\ native'[2 * n + 1] = f
      BY ONLY <1>1, <1>3
    <3>2. IF f.kind = "call" THEN f.func - 2 = l - p ELSE f.func - 1 = l - p
      BY <1>1
    <3> QED  BY ONLY <3>1, <3>2 DEF EndAt
  <2>3. y = SubSeq(stack', Base + 1, l - p)
    BY <1>1, <2>1, <2>2 DEF View
  <2>4. SubSeq(stack', Base + 1, l - p) = SubSeq(stack, Base + 1, l - p)
    <3> DEFINE m == l - p
               b == Base + 1
    <3>1. b \in Nat /\ b >= 1 /\ m \in Int /\ m <= Len(stack) /\ m <= Len(stack')
      BY ONLY <1>1, <1>5
    <3>2. \A i \in b .. m : i \in 1 .. m
      BY ONLY <3>1
    <3>3. \A i \in b .. m : stack'[i] = stack[i]
      BY <3>2
    <3> HIDE DEF m, b
    <3>4. SubSeq(stack', b, m) = SubSeq(stack, b, m)
      BY ONLY <1>1, <1>4, <3>1, <3>3, SubSeqSame
    <3> QED  BY <3>4 DEF m, b
  <2>5. SubSeq(x, 1, l - Base - p) = SubSeq(stack, Base + 1, l - p) /\ Len(x) = l - Base
    <3>1. l <= Len(stack) /\ l \in Nat /\ stack \in Seq(Slot) /\ Base \in Nat /\ Base <= l
          /\ p <= l - Base /\ p \in Nat
      BY ONLY <1>1, <1>5, p \in Nat
    <3> HIDE DEF l
    <3> QED  BY ONLY <3>1, SubSeqPrefix
  <2>6. Len(x) - p = l - Base - p
    BY ONLY <2>5
  <2> QED  BY <2>3, <2>4, <2>5, <2>6
<1>9. /\ views = Append(V, x) /\ waits = W /\ Len(V) = n /\ Len(W) = n
      /\ x \in Seq(Slot) /\ Len(x) = l - Base
  BY RunningShape
<1>10. views' = Append(V, y) /\ waits' = Append(W, RequestAt(native', n + 1))
  <2>1. n + n + 1 = Len(native') /\ ~(n + n = Len(native'))
    BY ONLY <1>1, <1>3
  <2> QED  BY <1>6, <1>7, <2>1, RunningShapeNext
<1>11. RequestAt(native', n + 1) = [pops |-> f.pops, nresults |-> f.nresults]
  <2>1. 2 * (n + 1) - 1 = 2 * n + 1
    BY ONLY <1>1
  <2> QED  BY ONLY <1>3, <2>1 DEF RequestAt
<1>12. PICK S : V \in Seq(S)
  BY <1>1, SeenIsSeq
<1>13. W \in Seq({RequestAt(native, a) : a \in 1 .. n})
  BY <1>1, AwaitedSeq
<1>14. p + f.pops <= Len(x)
  BY ONLY <1>5, <1>9
<1> HIDE DEF n, l, V, W, x, y
<1> QED  BY ONLY <1>2, <1>8, <1>9, <1>10, <1>11, <1>12, <1>13, <1>14, p \in Nat, AsRequest

-----------------------------------------------------------------------------
(* The VM runs.                                                             *)
LEMMA TopFacts ==
  ASSUME Reported, IInv, NEW phase, VmRuns(phase), NEW n, n = Depth(native)
  PROVE  /\ n \in Nat /\ Len(native) = 2 * n + 1 /\ native \in Seq(Frame)
         /\ 2 * n + 1 \in GuardsOf(native)
         /\ Top = native[2 * n + 1] /\ Top \in Frame /\ Top.phase = phase
         /\ Top.func \in Nat /\ Top.pops \in 0 .. 2 /\ Top.nresults \in ResultCounts
         /\ Top.ci \in 1 .. Len(ci) /\ Len(ci) \in Nat /\ ci[Top.ci] \in Nat
         /\ BaseAt(native, 2 * n) = Top.ci
         /\ Top.func > ci[Top.ci] + Top.pops
         /\ EndAt(native, stack, 2 * n) = IF Top.kind = "call" THEN Top.func - 2 ELSE Top.func - 1
         /\ EndAt(native, stack, 2 * n) \in Nat
         /\ EndAt(native, stack, 2 * n) >= ci[Top.ci]
         /\ Top.func <= Len(stack) + 1 /\ stack \in Seq(Slot) /\ Len(stack) \in Nat
<1>1. /\ native # <<>> /\ native \in Seq(Frame) /\ Len(native) \in 1 .. Len(native)
      /\ Top = native[Len(native)] /\ Top \in Frame /\ ~IsCallback(Top) /\ Top.phase = phase
      /\ stack \in Seq(Slot) /\ Len(stack) \in Nat /\ mode = "run"
  BY VmFacts DEF VmRuns
<1>2. ~InKotlin(native)
  BY <1>1 DEF InKotlin
<1>3. n \in Nat /\ Len(native) = 2 * n + 1
  <2>1. n \in Nat /\ Opened(native) = n + 1 /\ Len(native) = n + Opened(native)
    BY <1>2, Shape DEF Opened
  <2> QED  BY ONLY <2>1
<1>4. 2 * n + 1 \in GuardsOf(native) /\ 2 * n = 2 * n + 1 - 1
  BY <1>1, <1>3 DEF GuardsOf
<1>5. Top.nresults \in ResultCounts
  BY <1>1 DEF Frame
<1> DEFINE g == 2 * n + 1
           e == 2 * n
<1>6. g \in GuardsOf(native) /\ e = g - 1 /\ Top = native[g]
  BY <1>1, <1>3, <1>4
<1> HIDE DEF g, e
<1>7. /\ Top.func \in Nat /\ Top.pops \in 0 .. 2
      /\ Top.ci \in 1 .. Len(ci) /\ Len(ci) \in Nat /\ ci[Top.ci] \in Nat
      /\ BaseAt(native, e) = Top.ci
      /\ Top.func > ci[Top.ci] + Top.pops
      /\ EndAt(native, stack, e) = IF Top.kind = "call" THEN Top.func - 2 ELSE Top.func - 1
      /\ EndAt(native, stack, e) \in Nat
      /\ EndAt(native, stack, e) >= ci[Top.ci]
      /\ Top.func <= Len(stack) + 1
  BY ONLY <1>1, <1>6, Reported, IInv, GuardFacts
<1> QED  BY <1>1, <1>3, <1>4, <1>5, <1>7 DEF g, e

(* As long as the request goes on, and nothing below its function changes,   *)
(* all activations see and await the same.                                   *)
LEMMA GoesOn ==
  ASSUME Reported, IInv, NEW phase, VmRuns(phase), NEW n, n = Depth(native), IInv',
         Len(native') >= Len(native),
         \A i \in 1 .. Len(native) - 1 : native'[i] = native[i],
         NEW f, f = native'[Len(native)],
         f.kind = Top.kind, f.ci = Top.ci, f.func = Top.func, f.pops = Top.pops,
         f.nresults = Top.nresults,
         \A i \in 1 .. Top.ci : ci'[i] = ci[i],
         Top.func <= Len(stack') + 1, \A i \in 1 .. Top.func - 1 : stack'[i] = stack[i]
  PROVE  /\ Seen(native', ci', stack', n + 1) = Seen(native, ci, stack, n + 1)
         /\ Awaited(native', n + 1) = Awaited(native, n + 1)
<1>1. n \in Nat /\ Len(native) = 2 * n + 1 /\ Top = native[2 * n + 1]
  BY TopFacts
<1>2. stack' \in Seq(Slot) /\ Len(native') \in Nat
  BY LenProperties DEF IInv, TypeOK
<1>3. 2 * (n + 1) - 1 = 2 * n + 1 /\ n + 1 \in Nat /\ 2 * n + 1 <= Len(native')
      /\ (\A i \in 1 .. 2 * n + 1 : i \in 1 .. Len(native) - 1 \/ i = 2 * n + 1)
  BY <1>1
<1>4. \A i \in 1 .. 2 * n + 1 :
        /\ native'[i].kind = native[i].kind /\ native'[i].ci = native[i].ci
        /\ native'[i].func = native[i].func /\ native'[i].pops = native[i].pops
        /\ native'[i].nresults = native[i].nresults
  <2> SUFFICES ASSUME NEW i \in 1 .. 2 * n + 1
               PROVE  /\ native'[i].kind = native[i].kind /\ native'[i].ci = native[i].ci
                      /\ native'[i].func = native[i].func /\ native'[i].pops = native[i].pops
                      /\ native'[i].nresults = native[i].nresults
    OBVIOUS
  <2>1. CASE i = 2 * n + 1
    BY <1>1, <2>1
  <2>2. CASE i \in 1 .. Len(native) - 1
    BY <2>2
  <2> QED  BY <1>3, <2>1, <2>2
<1>5. Alike(native', ci', stack', n + 1)
  <2> DEFINE g == 2 * (n + 1) - 1
  <2>1. g = 2 * n + 1
    BY <1>3
  <2> HIDE DEF g
  <2>2. /\ g <= Len(native) /\ g <= Len(native')
        /\ \A i \in 1 .. g :
             /\ native'[i].kind = native[i].kind /\ native'[i].ci = native[i].ci
             /\ native'[i].func = native[i].func /\ native'[i].pops = native[i].pops
             /\ native'[i].nresults = native[i].nresults
    <3>1. g <= Len(native) /\ g <= Len(native')
      BY ONLY <1>1, <1>3, <2>1
    <3> QED  BY ONLY <1>4, <2>1, <3>1
  <2>3. /\ \A i \in 1 .. native[g].ci : ci'[i] = ci[i]
        /\ native[g].func <= Len(stack') + 1
        /\ \A i \in 1 .. native[g].func - 1 : stack'[i] = stack[i]
    BY <1>1, <2>1
  <2> QED  BY ONLY <2>2, <2>3 DEF Alike, g
<1>6. mode = "run"
  BY DEF VmRuns
<1> QED  BY ONLY <1>2, <1>3, <1>5, <1>6, Reported, IInv, SeenKept, Zenon

(* The VM goes on with the request. *)
LEMMA VmStutters ==
  ASSUME Reported, IInv, NEW phase, VmRuns(phase), IInv',
         Len(native') = Len(native),
         \A i \in 1 .. Len(native) - 1 : native'[i] = native[i],
         NEW f, f = native'[Len(native)],
         f.kind = Top.kind, f.ci = Top.ci, f.func = Top.func, f.pops = Top.pops,
         f.nresults = Top.nresults,
         \A i \in 1 .. Top.ci : ci'[i] = ci[i],
         Top.func <= Len(stack') + 1, \A i \in 1 .. Top.func - 1 : stack'[i] = stack[i]
  PROVE  UNCHANGED <<views, waits>>
<1> DEFINE n == Depth(native)
<1>1. n \in Nat /\ Len(native) = 2 * n + 1 /\ Top = native[2 * n + 1] /\ ~IsCallback(Top)
  BY TopFacts, VmFacts
<1>2. /\ Seen(native', ci', stack', n + 1) = Seen(native, ci, stack, n + 1)
      /\ Awaited(native', n + 1) = Awaited(native, n + 1)
  BY GoesOn
<1>3. views = Seen(native, ci, stack, n + 1) /\ waits = Awaited(native, n + 1)
  <2>1. Opened(native) = n + 1
    <3>1. Opened(native) \in Nat /\ Len(native) = n + Opened(native)
      BY Shape
    <3> QED  BY ONLY <1>1, <3>1
  <2> QED  BY <2>1, Shape
<1>4. views' = Seen(native', ci', stack', n + 1) /\ waits' = Awaited(native', n + 1)
  <2>1. ~InKotlin(native')
    <3>1. native' # <<>> /\ native'[Len(native')] = f
      BY <1>1
    <3> QED  BY <1>1, <3>1 DEF InKotlin, IsCallback
  <2>2. Depth(native') = n /\ Opened(native') = n + 1
    <3>1. Depth(native') \in Nat /\ Opened(native') = Depth(native') + 1
          /\ Len(native') = Depth(native') + Opened(native')
      BY <2>1, ShapeNext DEF Opened
    <3>2. Len(native') = 2 * n + 1
      BY <1>1
    <3> QED  BY ONLY <1>1, <3>1, <3>2
  <2> QED  BY <2>2, ShapeNext
<1> QED  BY <1>2, <1>3, <1>4

(* What is left below a slot. *)
LEMMA BelowIs ==
  ASSUME stack \in Seq(Slot), NEW slot \in Nat, slot >= 1, slot <= Len(stack) + 1
  PROVE  /\ Below(slot) \in Seq(Slot) /\ Len(Below(slot)) = slot - 1
         /\ \A i \in 1 .. slot - 1 : Below(slot)[i] = stack[i]
<1>1. Len(stack) \in Nat
  BY LenProperties
<1>2. slot - 1 \in Int /\ slot - 1 <= Len(stack) /\ slot - 1 - 1 + 1 = slot - 1
      /\ (1 <= slot - 1 \/ slot - 1 = 0) /\ \A i \in 1 .. slot - 1 : 1 + i - 1 = i
  BY <1>1
<1>3. \A i \in 1 .. slot - 1 - 1 + 1 : SubSeq(stack, 1, slot - 1)[i] = stack[1 + i - 1]
  BY <1>2, SubSeqOk
<1>4. \A i \in 1 .. slot - 1 : SubSeq(stack, 1, slot - 1)[i] = stack[i]
  BY ONLY <1>2, <1>3
<1> QED  BY <1>4, BelowOk DEF Below

(* The C stack `new` is `frames`, but that the call of its last guard g ended; *)
(* g is f now.                                                                 *)
Ended(new, f, frames, g, n, status) ==
  /\ n \in Nat /\ n >= 1 /\ new \in Seq(Frame) /\ Len(new) = n
  /\ \A i \in 1 .. n - 1 : new[i] = frames[i]
  /\ f.kind = g.kind /\ f.ci = g.ci /\ f.func = g.func /\ f.pops = g.pops
  /\ f.nresults = g.nresults /\ f.phase = "done" /\ f.status = status

(* A guard whose call ended is what it was, but for how it ended. *)
LEMMA CompletedIs ==
  ASSUME NEW frames \in Seq(Frame), frames # <<>>, NEW status \in Statuses,
         NEW n, n = Len(frames), NEW g, g = frames[n],
         NEW new, new = Completed(frames, status), NEW f, f = new[n]
  PROVE  Ended(new, f, frames, g, n, status)
<1> DEFINE h == [g EXCEPT !.phase = "done", !.status = status]
<1>1. n \in 1 .. n /\ g \in Frame /\ n \in Nat /\ n >= 1
  BY LenProperties, EmptySeq, ElementOfSeq
<1>2. /\ h \in Frame /\ h.kind = g.kind /\ h.func = g.func /\ h.ci = g.ci /\ h.pops = g.pops
      /\ h.nresults = g.nresults /\ h.status = status /\ h.phase = "done"
  BY <1>1 DEF Frame
<1>3. new = ReplaceAt(frames, n, h)
  BY DEF Completed
<1> HIDE DEF h
<1>4. new \in Seq(Frame) /\ Len(new) = n /\ \A i \in 1 .. n : new[i] = IF i = n THEN h ELSE frames[i]
  <2>1. n \in 1 .. Len(frames) /\ h \in Frame
    BY <1>1, <1>2
  <2>2. /\ ReplaceAt(frames, n, h) \in Seq(Frame) /\ Len(ReplaceAt(frames, n, h)) = Len(frames)
        /\ \A i \in 1 .. Len(frames) : ReplaceAt(frames, n, h)[i] = IF i = n THEN h ELSE frames[i]
    <3>1. Exchanged(ReplaceAt(frames, n, h), Frame, frames, n, h)
      BY ONLY <2>1, frames \in Seq(Frame), Exchange
    <3> QED  BY ONLY <3>1 DEF Exchanged
  <2> QED  BY <1>3, <2>2
<1>5. f = h /\ \A i \in 1 .. n - 1 : new[i] = frames[i]
  BY <1>1, <1>4
<1>6. /\ n \in Nat /\ n >= 1 /\ new \in Seq(Frame) /\ Len(new) = n
      /\ \A i \in 1 .. n - 1 : new[i] = frames[i]
      /\ f.kind = g.kind /\ f.ci = g.ci /\ f.func = g.func /\ f.pops = g.pops
      /\ f.nresults = g.nresults /\ f.phase = "done" /\ f.status = status
  BY <1>1, <1>2, <1>4, <1>5
<1> QED  BY ONLY <1>6 DEF Ended

(* The results of a call, as they lie on the stack: as many as it asked for, *)
(* and none that the called function did not return but nil.                 *)
Delivered(frames, vals, f) ==
  /\ stack' \in Seq(Slot) /\ f.func <= Len(stack') + 1
  /\ \A i \in 1 .. f.func - 1 : stack'[i] = stack[i]
  /\ f.nresults # MULTRET => Len(stack') = f.func - 1 + f.nresults
  /\ \A i \in f.func .. Len(stack') :
       stack'[i] = Plain \/ \E j \in 1 .. Len(vals) : stack'[i] = vals[j]
  /\ native' = Completed(frames, OK)

(* Finish delivers the values that the called function returns. *)
LEMMA FinishIs ==
  ASSUME NEW frames \in Seq(Frame), frames # <<>>, NEW vals \in Seq(Slot),
         stack \in Seq(Slot), NEW f, f = frames[Len(frames)],
         f.func >= 1, f.func <= Len(stack) + 1, Finish(frames, vals)
  PROVE  Delivered(frames, vals, f)
<1> DEFINE results == Adjust(vals, f.nresults)
           slot == f.func
           m == f.nresults
<1>1. f \in Frame
  BY ElementOfSeq, EmptySeq, LenProperties
<1>2. slot \in Nat /\ slot >= 1 /\ slot <= Len(stack) + 1 /\ m \in Int /\ m >= -1
  <2>1. slot \in Nat /\ m \in ResultCounts
    BY <1>1 DEF Frame
  <2> QED  BY <2>1 DEF ResultCounts, MULTRET
<1>3. stack' = Below(slot) \o Adjust(vals, m) /\ native' = Completed(frames, OK)
  BY DEF Finish
<1> HIDE DEF slot, m
<1>4. Adjust(vals, m) \in Seq(Slot) /\ (m # MULTRET => Len(Adjust(vals, m)) = m)
  BY <1>2, AdjustOk DEF MULTRET
<1>5. \A i \in 1 .. Len(Adjust(vals, m)) :
        Adjust(vals, m)[i] = Plain \/ \E j \in 1 .. Len(vals) : Adjust(vals, m)[i] = vals[j]
  <2>1. CASE m = MULTRET
    BY <2>1 DEF Adjust
  <2>2. CASE m # MULTRET
    <3>1. Adjust(vals, m) = [i \in 1 .. m |-> IF i <= Len(vals) THEN vals[i] ELSE Plain]
      BY <2>2 DEF Adjust
    <3>2. Len(Adjust(vals, m)) = m /\ Len(vals) \in Nat
      BY <1>4, <2>2, LenProperties
    <3> DEFINE w == [i \in 1 .. m |-> IF i <= Len(vals) THEN vals[i] ELSE Plain]
    <3>3. \A i \in 1 .. m : w[i] = Plain \/ \E j \in 1 .. Len(vals) : w[i] = vals[j]
      BY <1>2, <3>2
    <3> QED  BY <3>1, <3>2, <3>3
  <2> QED  BY <2>1, <2>2
<1>6. Below(slot) \in Seq(Slot) /\ Len(Below(slot)) = slot - 1
      /\ \A i \in 1 .. slot - 1 : Below(slot)[i] = stack[i]
  BY <1>2, BelowIs
<1> DEFINE s == Below(slot)
           t == Adjust(vals, m)
<1>7. /\ s \in Seq(Slot) /\ t \in Seq(Slot) /\ Len(s) = slot - 1 /\ stack' = s \o t
      /\ Len(t) \in Nat
  BY <1>3, <1>4, <1>6, LenProperties
<1> HIDE DEF s, t
<1>8. /\ stack' \in Seq(Slot) /\ Len(stack') = slot - 1 + Len(t)
      /\ \A i \in 1 .. Len(stack') : stack'[i] = IF i <= slot - 1 THEN s[i] ELSE t[i - (slot - 1)]
  <2>1. s \o t \in Seq(Slot) /\ Len(s \o t) = Len(s) + Len(t)
        /\ \A i \in 1 .. Len(s) + Len(t) :
             (s \o t)[i] = IF i <= Len(s) THEN s[i] ELSE t[i - Len(s)]
    BY ONLY <1>7, ConcatProperties
  <2> QED  BY ONLY <1>7, <2>1
<1>9. \A i \in 1 .. slot - 1 : stack'[i] = s[i]
  BY ONLY <1>2, <1>7, <1>8
<1>10. \A i \in slot .. Len(stack') : i - (slot - 1) \in 1 .. Len(t) /\ stack'[i] = t[i - (slot - 1)]
  BY ONLY <1>2, <1>7, <1>8
<1>11. slot <= Len(stack') + 1 /\ (m # MULTRET => Len(stack') = slot - 1 + m)
  <2>1. m # MULTRET => Len(t) = m
    BY <1>4 DEF t
  <2> QED  BY ONLY <1>2, <1>7, <1>8, <2>1
<1>12. \A i \in 1 .. slot - 1 : stack'[i] = stack[i]
  BY <1>6, <1>9 DEF s
<1>13. \A i \in slot .. Len(stack') :
         stack'[i] = Plain \/ \E j \in 1 .. Len(vals) : stack'[i] = vals[j]
  BY <1>5, <1>10 DEF t
<1>14. /\ stack' \in Seq(Slot) /\ f.func <= Len(stack') + 1
       /\ \A i \in 1 .. f.func - 1 : stack'[i] = stack[i]
       /\ f.nresults # MULTRET => Len(stack') = f.func - 1 + f.nresults
       /\ \A i \in f.func .. Len(stack') :
            stack'[i] = Plain \/ \E j \in 1 .. Len(vals) : stack'[i] = vals[j]
       /\ native' = Completed(frames, OK)
  BY <1>3, <1>8, <1>11, <1>12, <1>13 DEF slot, m
<1> QED  BY ONLY <1>14 DEF Delivered

(* A raise in the VM ends a call, with a message where its function was. *)
LEMMA RaiseIs ==
  ASSUME Reported, IInv, PrecallRaises \/ LuaRaises
  PROVE  /\ VmRuns("enter") \/ VmRuns("body")
         /\ Top.kind = "call" /\ mode' = "run"
         /\ Top.func \in Nat /\ Top.func >= 1
         /\ stack' \in Seq(Slot) /\ Len(stack') = Top.func /\ stack'[Top.func] = Message
         /\ \A i \in 1 .. Top.func - 1 : stack'[i] = stack[i]
         /\ \A i \in 1 .. Top.ci : ci'[i] = ci[i]
         /\ \E status \in Statuses \ {OK} : native' = Completed(native, status)
<1> DEFINE n == Len(native)
<1>1. PICK phase \in {"enter", "body"}, code \in {ERRRUN, ERRMEM} :
        /\ VmRuns(phase) /\ Raise(code) /\ UNCHANGED <<lastStatus, pending, outcome>>
        /\ phase = "enter" => ~Callable
        /\ phase = "body" => Top.kind = "call"
  BY DEF PrecallRaises, LuaRaises, Reported
<1> DEFINE status == IF CStackOverflows(nCcalls + 1) THEN ERRERR ELSE code
<1>2. /\ native # <<>> /\ native \in Seq(Frame)
      /\ n \in Nat /\ n >= 1 /\ n \in 1 .. n
      /\ Top = native[n] /\ Top \in Frame
      /\ ~IsCallback(Top) /\ Top.phase = phase
      /\ errorjmp = n /\ ci \in Seq(Nat)
      /\ GuardAt(native, ci, n) /\ AtGuard(native, ci, nCcalls, stack)
      /\ stack \in Seq(Slot) /\ Len(stack) \in Nat
  BY <1>1, VmFacts
<1>3. Top.kind = "call"
  <2>1. phase = "enter" => Top.kind = "call"
    BY <1>1, BarrierCallable
  <2> QED  BY <1>1, <2>1
<1>4. errorjmp # 0 /\ ~\E k \in errorjmp + 1 .. n : native[k].kind = "callback"
  BY <1>2
<1>5. SubSeq(native, 1, n) = native
  BY <1>2, SubSeqFull
<1>6. /\ stack' = Append(Below(Top.func), Message)
      /\ ci' = SubSeq(ci, 1, Top.ci)
      /\ native' = Completed(native, status)
      /\ UNCHANGED mode
  <2>1. native[errorjmp] = Top /\ SubSeq(native, 1, errorjmp) = native
    BY <1>2, <1>5
  <2> HIDE DEF n
  <2>2. ~\E k \in errorjmp + 1 .. Len(native) : native[k].kind = "callback"
    BY <1>4 DEF n
  <2>3. Raise(code) /\ errorjmp # 0
    BY <1>1, <1>4
  <2> QED  BY <1>3, <2>1, <2>2, <2>3 DEF Raise
<1>7. status \in Statuses \ {OK}
  BY DEF Statuses, ERRERR, ERRRUN, ERRMEM, OK
<1> HIDE DEF status, n
<1>8. Top.func \in Nat /\ Top.func >= 1 /\ Top.func <= Len(stack) + 1 /\ Top.ci \in 1 .. Len(ci)
  <2>1. /\ Top.ci \in 1 .. Len(ci) /\ ci[Top.ci] \in Nat /\ Top.func \in Nat
        /\ Top.pops \in 0 .. 2 /\ Top.func > ci[Top.ci] + Top.pops /\ Top.func <= Len(stack) + 1
    BY <1>1, TopFacts
  <2> QED  BY ONLY <2>1
<1> DEFINE slot == Top.func
           s == Below(slot)
<1>9. slot \in Nat /\ slot >= 1 /\ slot <= Len(stack) + 1
  BY <1>8
<1> HIDE DEF slot
<1>10. s \in Seq(Slot) /\ Len(s) = slot - 1 /\ \A i \in 1 .. slot - 1 : s[i] = stack[i]
  BY <1>2, <1>9, BelowIs
<1>11. stack' = Append(s, Message) /\ Message \in Slot
  BY <1>6 DEF slot, Slot
<1> HIDE DEF s
<1>12. /\ stack' \in Seq(Slot) /\ Len(stack') = slot /\ stack'[slot] = Message
       /\ \A i \in 1 .. slot - 1 : stack'[i] = stack[i]
  <2>1. /\ stack' \in Seq(Slot) /\ Len(stack') = Len(s) + 1 /\ stack'[Len(s) + 1] = Message
        /\ \A i \in 1 .. Len(s) : stack'[i] = s[i]
    BY ONLY <1>10, <1>11, AppendProperties
  <2>2. Len(s) + 1 = slot
    BY <1>9, <1>10
  <2> QED  BY ONLY <1>10, <2>1, <2>2
<1>13. \A i \in 1 .. Top.ci : ci'[i] = ci[i]
  BY <1>2, <1>6, <1>8, SubSeqOk
<1> QED  BY <1>1, <1>3, <1>6, <1>7, <1>8, <1>12, <1>13 DEF slot, VmRuns

(* No Lua code runs with a frame above its own that is not its. *)
LEMMA NothingRunsOn ==
  ASSUME Reported, IInv
  PROVE  ~LuaRunsOn
<1> SUFFICES ASSUME LuaRunsOn
             PROVE  FALSE
  OBVIOUS
<1>1. VmRuns("body") /\ Len(ci) > Top.ci + 1
  BY DEF LuaRunsOn
<1>2. /\ AtGuard(native, ci, nCcalls, stack) /\ Top.phase = "body" /\ Top = native[Len(native)]
      /\ native # <<>> /\ ~IsCallback(Top) /\ ci \in Seq(Nat)
  BY <1>1, VmFacts
<1>3. Len(ci) = Top.ci + 1
  BY Reported, <1>2 DEF AtGuard, Within, Through, Reported
<1>4. Len(ci) \in Nat
  BY <1>2, LenProperties
<1>5. Len(ci) > Len(ci)
  <2> DEFINE k == Top.ci + 1
  <2>1. Len(ci) > k /\ Len(ci) = k
    BY <1>1, <1>3
  <2> HIDE DEF k
  <2> QED  BY ONLY <2>1
<1> QED  BY ONLY <1>4, <1>5

(* The VM enters a Lua function, leaves it, or raises in it. *)
LEMMA PrecallLuaSeen ==
  ASSUME Reported, IInv, PrecallLua, IInv'
  PROVE  UNCHANGED <<views, waits>>
<1> DEFINE f == [Top EXCEPT !.phase = "body"]
<1>1. VmRuns("enter") /\ ci' = Append(ci, Top.func) /\ native' = ReplaceAt(native, Len(native), f)
      /\ stack' = stack
  BY DEF PrecallLua, InPhase
<1>2. /\ native \in Seq(Frame) /\ Len(native) \in 1 .. Len(native) /\ Top \in Frame
      /\ ci \in Seq(Nat) /\ Len(native) \in Nat
  BY <1>1, VmFacts
<1>3. /\ f \in Frame /\ f.kind = Top.kind /\ f.ci = Top.ci /\ f.func = Top.func
      /\ f.pops = Top.pops /\ f.nresults = Top.nresults
  BY <1>2 DEF Frame
<1> HIDE DEF f
<1>4. /\ Len(native') = Len(native) /\ native'[Len(native)] = f
      /\ \A i \in 1 .. Len(native) - 1 : native'[i] = native[i]
  <2>1. /\ Len(ReplaceAt(native, Len(native), f)) = Len(native)
        /\ \A i \in 1 .. Len(native) :
             ReplaceAt(native, Len(native), f)[i] = IF i = Len(native) THEN f ELSE native[i]
    <3> DEFINE k == Len(native)
    <3>1. k \in 1 .. Len(native) /\ native \in Seq(Frame) /\ f \in Frame
      BY <1>2, <1>3
    <3> HIDE DEF k
    <3>2. /\ Len(ReplaceAt(native, k, f)) = Len(native)
          /\ \A i \in 1 .. Len(native) : ReplaceAt(native, k, f)[i] = IF i = k THEN f ELSE native[i]
      <4>1. Exchanged(ReplaceAt(native, k, f), Frame, native, k, f)
        BY ONLY <3>1, Exchange
      <4> QED  BY ONLY <4>1 DEF Exchanged
    <3> QED  BY <3>2 DEF k
  <2>2. \A i \in 1 .. Len(native) - 1 : i \in 1 .. Len(native) /\ i # Len(native)
    BY ONLY <1>2
  <2> QED  BY <1>1, <1>2, <2>1, <2>2
<1>5. Top.ci \in 1 .. Len(ci) /\ Len(ci) \in Nat /\ Top.func <= Len(stack) + 1 /\ Top.func \in Nat
  BY <1>1, TopFacts
<1>6. \A i \in 1 .. Top.ci : ci'[i] = ci[i]
  <2>1. \A i \in 1 .. Len(ci) : Append(ci, Top.func)[i] = ci[i]
    BY <1>2, <1>5, AppendProperties
  <2> QED  BY <1>1, <1>5, <2>1
<1>7. Top.func <= Len(stack') + 1 /\ \A i \in 1 .. Top.func - 1 : stack'[i] = stack[i]
  BY <1>1, <1>5
<1> QED  BY <1>1, <1>3, <1>4, <1>6, <1>7, VmStutters

(* A Lua function that returns changes nothing that an activation sees. *)
LEMMA LuaReturnsSeen ==
  ASSUME Reported, IInv, NEW vals \in Seq(Val), LuaReturns(vals), IInv'
  PROVE  UNCHANGED <<views, waits>>
<1> DEFINE n == Len(native)
           f == native'[n]
<1>1. VmRuns("body") /\ ci' = Front(ci) /\ Finish(native, vals)
  BY DEF LuaReturns, LuaReturnsTo
<1>2. /\ native # <<>> /\ native \in Seq(Frame) /\ n \in 1 .. n
      /\ Top = native[n] /\ stack \in Seq(Slot) /\ AtGuard(native, ci, nCcalls, stack)
      /\ ~IsCallback(Top) /\ Top.phase = "body" /\ ci \in Seq(Nat) /\ Len(ci) \in Nat
  BY <1>1, VmFacts
<1>3. /\ Top.ci \in 1 .. Len(ci) /\ Top.func \in Nat /\ Top.func >= 1
      /\ Top.func <= Len(stack) + 1
  <2>1. /\ Top.ci \in 1 .. Len(ci) /\ ci[Top.ci] \in Nat /\ Top.func \in Nat
        /\ Top.pops \in 0 .. 2 /\ Top.func > ci[Top.ci] + Top.pops /\ Top.func <= Len(stack) + 1
    BY <1>1, TopFacts
  <2> QED  BY ONLY <2>1
<1>4. Len(ci) = Top.ci + 1
  BY Reported, <1>2 DEF AtGuard, Within, Through, Reported
<1>5. \A i \in 1 .. Top.ci : ci'[i] = ci[i]
  <2>1. \A i \in 1 .. Len(ci) - 1 : Front(ci)[i] = ci[i]
    BY ONLY <1>2, FrontOk
  <2>2. \A i \in 1 .. Top.ci : i \in 1 .. Len(ci) - 1
    BY ONLY <1>2, <1>3, <1>4
  <2> QED  BY <1>1, <2>1, <2>2
<1>6. /\ Top.func <= Len(stack') + 1 /\ \A i \in 1 .. Top.func - 1 : stack'[i] = stack[i]
      /\ native' = Completed(native, OK)
  <2>1. vals \in Seq(Slot)
    BY DEF Slot
  <2>2. Top = native[Len(native)]
    BY <1>2
  <2> HIDE DEF n
  <2>3. Delivered(native, vals, Top)
    BY ONLY <1>1, <1>2, <1>3, <2>1, <2>2, FinishIs
  <2> QED  BY ONLY <2>3 DEF Delivered
<1>7. /\ Len(native') = Len(native) /\ \A i \in 1 .. Len(native) - 1 : native'[i] = native[i]
      /\ f.kind = Top.kind /\ f.ci = Top.ci /\ f.func = Top.func /\ f.pops = Top.pops
      /\ f.nresults = Top.nresults
  <2>1. PICK status \in Statuses : native' = Completed(native, status)
    BY <1>6 DEF Statuses
  <2>2. native # <<>> /\ native \in Seq(Frame) /\ Top = native[n]
    BY <1>2
  <2>3. Ended(native', f, native, Top, n, status)
    BY ONLY <2>1, <2>2, CompletedIs
  <2> QED  BY ONLY <2>3 DEF Ended
<1> QED  BY <1>1, <1>5, <1>6, <1>7, VmStutters

(* Neither does an error on its way to a guard. *)
LEMMA RaiseSeen ==
  ASSUME Reported, IInv, PrecallRaises \/ LuaRaises, IInv'
  PROVE  UNCHANGED <<views, waits>>
<1> DEFINE n == Len(native)
           f == native'[n]
<1>1. PICK phase : VmRuns(phase)
  BY RaiseIs
<1>2. native # <<>> /\ native \in Seq(Frame) /\ Top = native[n]
  BY <1>1, VmFacts
<1>3. PICK status \in Statuses : native' = Completed(native, status)
  BY RaiseIs
<1>4. /\ Len(native') = n /\ \A i \in 1 .. n - 1 : native'[i] = native[i]
      /\ f.kind = Top.kind /\ f.ci = Top.ci /\ f.func = Top.func /\ f.pops = Top.pops
      /\ f.nresults = Top.nresults
  <2>1. Ended(native', f, native, Top, n, status)
    BY ONLY <1>2, <1>3, CompletedIs
  <2> QED  BY ONLY <2>1 DEF Ended
<1>5. /\ \A i \in 1 .. Top.ci : ci'[i] = ci[i]
      /\ Len(stack') = Top.func /\ Top.func \in Nat
      /\ \A i \in 1 .. Top.func - 1 : stack'[i] = stack[i]
  BY RaiseIs
<1> QED  BY <1>1, <1>4, <1>5, VmStutters

(* The VM runs a callback on what lies above b. *)
LEMMA EnterStep ==
  ASSUME Reported, IInv, NEW phase, VmRuns(phase), IInv',
         Len(native') = Len(native) + 1,
         \A i \in 1 .. Len(native) - 1 : native'[i] = native[i],
         NEW f, f = native'[Len(native)],
         f.kind = Top.kind, f.ci = Top.ci, f.func = Top.func, f.pops = Top.pops,
         f.nresults = Top.nresults,
         NEW g, g = native'[Len(native) + 1], IsCallback(g), g.ci = Len(ci'),
         \A i \in 1 .. Top.ci : ci'[i] = ci[i],
         Top.func <= Len(stack') + 1, \A i \in 1 .. Top.func - 1 : stack'[i] = stack[i],
         NEW b \in Nat, ci'[Len(ci')] = b, b <= Len(stack'),
         \A i \in b + 1 .. Len(stack') : stack'[i] \in Val
  PROVE  Views!Enter
<1> DEFINE n == Depth(native)
           m == n + 1
           V == Seen(native, ci, stack, m)
           x == View(native', ci', stack', 2 * m)
<1>1. n \in Nat /\ Len(native) = 2 * n + 1 /\ Top = native[2 * n + 1] /\ ~IsCallback(Top)
  BY TopFacts, VmFacts
<1>2. /\ Seen(native', ci', stack', m) = V
      /\ Awaited(native', m) = Awaited(native, m)
  <2>1. Len(native') >= Len(native)
    BY ONLY <1>1, Len(native') = Len(native) + 1
  <2> QED  BY <2>1, GoesOn
<1>3. views = V /\ waits = Awaited(native, m) /\ Len(waits) = m /\ Len(V) = m
  <2>1. Opened(native) = m
    <3>1. Opened(native) \in Nat /\ Len(native) = n + Opened(native)
      BY Shape
    <3> QED  BY ONLY <1>1, <3>1
  <2> QED  BY <2>1, Shape
<1>4. Len(native') = 2 * m /\ m \in Nat /\ 2 * m # 0
  BY ONLY <1>1, Len(native') = Len(native) + 1
<1>5. /\ views' = Append(Seen(native', ci', stack', m), x) /\ waits' = Awaited(native', m)
  <2>1. InKotlin(native')
    BY DEF InKotlin
  <2>2. Depth(native') = m
    <3>1. Depth(native') \in Nat /\ Opened(native') = Depth(native')
          /\ Len(native') = Depth(native') + Opened(native')
      BY <2>1, ShapeNext DEF Opened
    <3> QED  BY ONLY <1>1, <1>4, <3>1
  <2>3. m + m = Len(native')
    BY ONLY <1>4
  <2> HIDE DEF m
  <2> QED  BY ONLY <2>2, <2>3, IInv', RunningShapeNext DEF x
<1>6. x = SubSeq(stack', b + 1, Len(stack'))
  <2>1. 2 * m = Len(native') /\ native'[2 * m] = g
    BY <1>4
  <2> HIDE DEF m
  <2> QED  BY <1>4, <2>1 DEF View, BaseAt, EndAt
<1>7. x \in Seq(Val)
  <2>1. stack' \in Seq(Slot) /\ Len(stack') \in Nat
    BY LenProperties DEF IInv, TypeOK
  <2> DEFINE l == Len(stack')
             k == b + 1
  <2>2. k \in Nat /\ k >= 1 /\ l \in Nat /\ \A i \in k .. l : stack'[i] \in Val
    BY <2>1
  <2> HIDE DEF k, l
  <2>3. SubSeq(stack', k, l) \in Seq(Val)
    BY ONLY <2>2, SubSeqProperties
  <2> QED  BY <1>6, <2>3 DEF k, l
<1>8. PICK S : V \in Seq(S)
  BY <1>4, SeenIsSeq
<1> HIDE DEF V, x, m
<1> QED  BY ONLY <1>2, <1>3, <1>5, <1>7, <1>8, AsEnter

(* A callback is over. *)
LEMMA LeaveStep ==
  ASSUME Reported, IInv, Tidy, KotlinRuns, native # <<>>, IInv',
         NEW m, m = Len(native) - 1, Len(native') = m,
         \A i \in 1 .. m - 1 : native'[i] = native[i],
         NEW f, f = native'[m],
         f.kind = Caller.kind, f.ci = Caller.ci, f.func = Caller.func, f.pops = Caller.pops,
         f.nresults = Caller.nresults,
         \A i \in 1 .. Caller.ci : ci'[i] = ci[i],
         Caller.func <= Len(stack') + 1, \A i \in 1 .. Caller.func - 1 : stack'[i] = stack[i]
  PROVE  Views!Leave
<1> DEFINE n == Depth(native)
           V == Seen(native, ci, stack, n)
           x == SubSeq(stack, Base + 1, Len(stack))
<1>1. /\ n \in Nat /\ Len(native) = 2 * n /\ m \in 1 .. Len(native)
      /\ Caller = native[m] /\ ~IsCallback(Caller)
  BY RunningFacts, CallbackFacts
<1>2. n >= 1 /\ m = 2 * n - 1 /\ m >= 1
  BY ONLY <1>1, m = Len(native) - 1
<1>3. views = Append(V, x) /\ waits = Awaited(native, n) /\ Len(V) = n /\ Len(Awaited(native, n)) = n
  BY RunningShape
<1>4. Alike(native', ci', stack', n)
  <2>1. m <= Len(native) /\ m <= Len(native') /\ \A i \in 1 .. m : i \in 1 .. m - 1 \/ i = m
    BY ONLY <1>1, Len(native') = m
  <2>2. \A i \in 1 .. m :
          /\ native'[i].kind = native[i].kind /\ native'[i].ci = native[i].ci
          /\ native'[i].func = native[i].func /\ native'[i].pops = native[i].pops
          /\ native'[i].nresults = native[i].nresults
    <3> SUFFICES ASSUME NEW i \in 1 .. m
                 PROVE  /\ native'[i].kind = native[i].kind /\ native'[i].ci = native[i].ci
                        /\ native'[i].func = native[i].func /\ native'[i].pops = native[i].pops
                        /\ native'[i].nresults = native[i].nresults
      OBVIOUS
    <3>1. CASE i = m
      BY <1>1, <3>1
    <3>2. CASE i \in 1 .. m - 1
      BY <3>2
    <3> QED  BY <2>1, <3>1, <3>2
  <2>3. /\ \A i \in 1 .. native[m].ci : ci'[i] = ci[i]
        /\ native[m].func <= Len(stack') + 1
        /\ \A i \in 1 .. native[m].func - 1 : stack'[i] = stack[i]
    BY <1>1
  <2> DEFINE g == 2 * n - 1
  <2>4. g = m
    BY <1>2
  <2> HIDE DEF g, n
  <2>5. /\ g <= Len(native) /\ g <= Len(native')
        /\ \A i \in 1 .. g :
             /\ native'[i].kind = native[i].kind /\ native'[i].ci = native[i].ci
             /\ native'[i].func = native[i].func /\ native'[i].pops = native[i].pops
             /\ native'[i].nresults = native[i].nresults
        /\ \A i \in 1 .. native[g].ci : ci'[i] = ci[i]
        /\ native[g].func <= Len(stack') + 1
        /\ \A i \in 1 .. native[g].func - 1 : stack'[i] = stack[i]
    BY ONLY <2>1, <2>2, <2>3, <2>4
  <2> QED  BY ONLY <2>5 DEF Alike, g
<1>5. /\ Seen(native', ci', stack', n) = V
      /\ Awaited(native', n) = Awaited(native, n)
  <2>1. stack' \in Seq(Slot) /\ Len(native') \in Nat /\ mode = "run"
    BY LenProperties DEF IInv, TypeOK, KotlinRuns
  <2> HIDE DEF n
  <2> QED  BY ONLY <1>1, <1>4, <2>1, Reported, IInv, SeenKept, Zenon DEF V
<1>6. views' = V /\ waits' = Awaited(native, n)
  <2>1. ~InKotlin(native')
    <3>1. native' # <<>> /\ native'[Len(native')] = f
      BY <1>2
    <3> QED  BY <1>1, <3>1 DEF InKotlin, IsCallback
  <2>2. Depth(native') + 1 = n /\ Opened(native') = n
    <3>1. Depth(native') \in Nat /\ Opened(native') = Depth(native') + 1
          /\ Len(native') = Depth(native') + Opened(native')
      BY <2>1, ShapeNext DEF Opened
    <3> QED  BY ONLY <1>1, <1>2, <3>1, Len(native') = m
  <2>3. views' = Seen(native', ci', stack', n) /\ waits' = Awaited(native', n)
    <3> HIDE DEF n
    <3> QED  BY ONLY <2>2, IInv', ShapeNext
  <2> QED  BY <1>5, <2>3
<1>7. PICK S : V \in Seq(S)
  BY <1>1, SeenIsSeq
<1> HIDE DEF V, x, n
<1> QED  BY ONLY <1>2, <1>3, <1>6, <1>7, AsLeave

(* How a callback is over. *)
LEMMA CallbackReturnsIs ==
  ASSUME Reported, IInv, NEW n \in 0 .. GetTop, CallbackReturns(n),
         NEW m, m = Len(native) - 1
  PROVE  /\ KotlinRuns /\ native # <<>> /\ m \in 1 .. Len(native) /\ m \in Nat
         /\ mode' = "run"
         /\ Front(native) \in Seq(Frame) /\ Len(Front(native)) = m /\ Front(native) # <<>>
         /\ \A i \in 1 .. m : Front(native)[i] = native[i]
         /\ Caller = native[m] /\ Caller \in Frame /\ Caller.ci >= 1 /\ Caller.ci \in Nat
         /\ Caller.func \in Nat /\ Caller.func >= 1 /\ Caller.func <= Len(stack)
         /\ \A i \in 1 .. Caller.ci : ci'[i] = ci[i]
         /\ \/ \E vals \in Seq(Slot) :
                  /\ Finish(Front(native), vals)
                  /\ \A j \in 1 .. Len(vals) : \E i \in 1 .. Len(stack) : vals[j] = stack[i]
            \/ /\ stack' = Below(Base) /\ native' = Front(native) /\ Caller.phase # "done"
               /\ Base \in Nat /\ Caller.func <= Base /\ Base >= 1 /\ Base <= Len(stack) + 1
<1>1. KotlinRuns /\ native # <<>>
  BY DEF CallbackReturns
<1>2. /\ Len(native) \in Nat /\ m \in Nat /\ m >= 1 /\ m \in 1 .. Len(native)
      /\ Caller = native[m] /\ Caller \in Frame
      /\ Caller.ci \in Nat /\ Caller.func \in Nat
      /\ Caller.func >= 1 /\ Caller.func <= Len(stack)
      /\ Caller.phase = "direct" => Within(native[Len(native)].ci, Caller.ci + 1)
      /\ Caller.phase # "direct" =>
           Caller.phase = "body" /\ Within(native[Len(native)].ci, Caller.ci + 2)
      /\ AtLeast(Len(ci), native[Len(native)].ci)
      /\ ci[native[Len(native)].ci] <= Len(stack)
      /\ Front(native) \in Seq(Frame) /\ Len(Front(native)) = m /\ Front(native) # <<>>
      /\ \A i \in 1 .. m : Front(native)[i] = native[i]
  BY <1>1, CallbackFacts
<1>3. /\ Ordered(native, ci, nCcalls, stack) /\ Linked(native, errorjmp)
      /\ ci \in Seq(Nat) /\ Len(ci) \in Nat /\ Base \in Nat /\ Base = ci[Len(ci)]
      /\ stack \in Seq(Slot) /\ Len(stack) \in Nat /\ Len(stack) = Base + GetTop
      /\ native \in Seq(Frame) /\ GetTop \in Int
  BY <1>1, KotlinFacts
<1>4. Len(ci) = native[Len(native)].ci /\ Len(ci) = Top.ci
  <2>1. Tight
    BY DEF Reported, Tight
  <2> QED  BY <1>2, <2>1 DEF AtLeast, Top
<1>5. mode' = "run" /\ ci' = Front(ci)
  BY <1>4 DEF CallbackReturns
<1>6. Caller.ci >= 1
  BY <1>2, <1>3, Grounded
<1>7. \A i \in 1 .. Caller.ci : ci'[i] = ci[i]
  <2>1. \A i \in 1 .. Len(ci) - 1 : Front(ci)[i] = ci[i]
    BY ONLY <1>3, FrontOk
  <2>2. \A i \in 1 .. Caller.ci : i \in 1 .. Len(ci) - 1
    <3>1. Len(ci) >= Caller.ci + 1
      <4> DEFINE a == Caller.ci
                 b == native[Len(native)].ci
      <4>1. b >= a + 1 \/ b >= a + 2
        BY <1>2 DEF Within
      <4>2. a \in Nat /\ b = Len(ci) /\ b \in Nat
        BY <1>2, <1>3, <1>4
      <4> HIDE DEF a, b
      <4>3. Len(ci) >= a + 1
        BY ONLY <4>1, <4>2
      <4> QED  BY <4>3 DEF a
    <3> QED  BY ONLY <1>2, <3>1
  <2> QED  BY <1>5, <2>1, <2>2
<1>8. CASE Caller.phase = "direct"
  <2> DEFINE l == Len(stack)
             k == l - n + 1
             vals == SubSeq(stack, k, l)
  <2>1. l \in Int /\ k \in Int /\ k >= 1 /\ l <= Len(stack) /\ l - k + 1 = n
        /\ \A j \in 1 .. n : k + j - 1 \in 1 .. Len(stack)
    <3>1. l \in Nat /\ Base \in Nat /\ GetTop \in Int /\ l = Base + GetTop /\ n \in 0 .. GetTop
      BY <1>3
    <3> HIDE DEF l
    <3>2. l \in Int /\ k \in Int /\ k >= 1 /\ l - k + 1 = n
          /\ \A j \in 1 .. n : k + j - 1 \in 1 .. l
      BY ONLY <3>1
    <3> QED  BY <3>1, <3>2 DEF l
  <2>2. Finish(Front(native), vals)
    BY <1>4, <1>8 DEF CallbackReturns
  <2> HIDE DEF k, l
  <2>3. /\ vals \in Seq(Slot) /\ Len(vals) = IF k <= l THEN l - k + 1 ELSE 0
        /\ \A i \in 1 .. l - k + 1 : vals[i] = stack[k + i - 1]
    <3>1. stack \in Seq(Slot) /\ l \in Int /\ k \in Int /\ k >= 1 /\ l <= Len(stack)
      BY <1>3, <2>1
    <3> QED  BY ONLY <3>1, SubSeqOk
  <2> HIDE DEF vals
  <2>4. \A j \in 1 .. Len(vals) : j \in 1 .. n /\ vals[j] = stack[k + j - 1]
    BY ONLY <2>1, <2>3
  <2>5. \A j \in 1 .. Len(vals) : \E i \in 1 .. Len(stack) : vals[j] = stack[i]
    BY <2>1, <2>4
  <2> QED  BY <1>1, <1>2, <1>5, <1>6, <1>7, <2>2, <2>3, <2>5
<1>9. CASE Caller.phase # "direct"
  <2>1. stack' = Below(Base) /\ native' = Front(native)
    BY <1>4, <1>9 DEF CallbackReturns
  <2>2. Caller.func <= Base
    <3>1. m \in GuardsOf(native) /\ Len(native) \in 1 .. Len(native) /\ m < Len(native)
      <4>1. ~IsCallback(native[m])
        BY <1>1, CallbackFacts
      <4>2. Len(native) \in 1 .. Len(native) /\ m < Len(native)
        BY ONLY <1>2, m = Len(native) - 1
      <4> QED  BY <1>2, <4>1, <4>2 DEF GuardsOf
    <3>2. native[m].func <= ci[native[Len(native)].ci]
      BY <1>1, <3>1, FuncsRise DEF KotlinRuns
    <3> QED  BY <1>2, <1>3, <1>4, <3>2
  <2>3. Base <= Len(stack)
    BY <1>2, <1>3, <1>4
  <2>4. Base >= 1 /\ Base <= Len(stack) + 1
    <3> DEFINE fn == Caller.func
               l == Len(stack)
    <3>1. fn \in Nat /\ fn >= 1 /\ fn <= Base /\ Base <= l /\ l \in Nat /\ Base \in Nat
      BY <1>2, <1>3, <2>2, <2>3
    <3> HIDE DEF fn, l
    <3>2. Base >= 1 /\ Base <= l + 1
      BY ONLY <3>1
    <3> QED  BY <3>2 DEF l
  <2>5. Caller.phase # "done"
    BY <1>2, <1>9
  <2> QED  BY <1>1, <1>2, <1>3, <1>5, <1>6, <1>7, <2>1, <2>2, <2>4, <2>5
<1> QED  BY <1>8, <1>9

(* The activation that made the request which ran the callback is the one  *)
(* that waits again.                                                       *)
LEMMA CallbackReturnsSeen ==
  ASSUME Reported, IInv, Tidy, NEW n \in 0 .. GetTop, CallbackReturns(n), IInv'
  PROVE  Views!Leave
<1> DEFINE m == Len(native) - 1
           f == native'[m]
<1>1. m = Len(native) - 1
  OBVIOUS
<1> HIDE DEF m
<1>2. /\ KotlinRuns /\ native # <<>> /\ m \in 1 .. Len(native) /\ m \in Nat
      /\ Front(native) \in Seq(Frame) /\ Len(Front(native)) = m /\ Front(native) # <<>>
      /\ \A i \in 1 .. m : Front(native)[i] = native[i]
      /\ Caller = native[m] /\ Caller \in Frame
      /\ Caller.func \in Nat /\ Caller.func >= 1 /\ Caller.func <= Len(stack)
      /\ \A i \in 1 .. Caller.ci : ci'[i] = ci[i]
  BY <1>1, CallbackReturnsIs
<1>3. stack \in Seq(Slot) /\ Len(stack) \in Nat
  BY LenProperties DEF IInv, TypeOK
<1>4. m \in 1 .. m /\ \A i \in 1 .. m - 1 : i \in 1 .. m
  BY ONLY <1>2
<1>5. CASE \E vals \in Seq(Slot) : Finish(Front(native), vals)
  <2>1. PICK vals \in Seq(Slot) : Finish(Front(native), vals)
    BY <1>5
  <2>2. Caller = Front(native)[Len(Front(native))] /\ Caller.func <= Len(stack) + 1
    <3>1. Caller.func <= Len(stack) + 1
      BY ONLY <1>2, <1>3
    <3> QED  BY <1>2, <1>4, <3>1
  <2>3. /\ Caller.func <= Len(stack') + 1
        /\ \A i \in 1 .. Caller.func - 1 : stack'[i] = stack[i]
        /\ native' = Completed(Front(native), OK)
    <3>1. stack \in Seq(Slot) /\ Finish(Front(native), vals) /\ vals \in Seq(Slot)
      BY <1>3, <2>1
    <3>2. Delivered(Front(native), vals, Caller)
      BY ONLY <1>2, <2>2, <3>1, FinishIs
    <3> QED  BY ONLY <3>2 DEF Delivered
  <2>4. PICK status \in Statuses : native' = Completed(Front(native), status)
    BY <2>3 DEF Statuses
  <2>5. m = Len(Front(native)) /\ Caller = Front(native)[m]
    BY <1>2, <2>2
  <2>6. /\ Len(native') = m
        /\ \A i \in 1 .. m - 1 : native'[i] = Front(native)[i]
        /\ f.kind = Caller.kind /\ f.ci = Caller.ci /\ f.func = Caller.func
        /\ f.pops = Caller.pops /\ f.nresults = Caller.nresults
    <3>1. Front(native) \in Seq(Frame) /\ Front(native) # <<>>
      BY <1>2
    <3>2. Ended(native', f, Front(native), Caller, m, status)
      BY ONLY <2>4, <2>5, <3>1, CompletedIs
    <3> QED  BY ONLY <3>2 DEF Ended
  <2>7. \A i \in 1 .. m - 1 : native'[i] = native[i]
    BY <1>2, <1>4, <2>6
  <2> QED  BY <1>1, <1>2, <2>3, <2>6, <2>7, LeaveStep
<1>6. CASE /\ stack' = Below(Base) /\ native' = Front(native)
           /\ Base \in Nat /\ Caller.func <= Base /\ Base >= 1 /\ Base <= Len(stack) + 1
  <2>1. Len(stack') = Base - 1 /\ \A i \in 1 .. Base - 1 : stack'[i] = stack[i]
    BY <1>3, <1>6, BelowIs
  <2>2. Caller.func <= Len(stack') + 1 /\ \A i \in 1 .. Caller.func - 1 : i \in 1 .. Base - 1
    BY ONLY <1>2, <1>6, <2>1
  <2>3. f = Caller /\ Len(native') = m /\ \A i \in 1 .. m - 1 : native'[i] = native[i]
    BY <1>2, <1>4, <1>6
  <2> HIDE DEF f
  <2>4. \A i \in 1 .. Caller.func - 1 : stack'[i] = stack[i]
    BY <2>1, <2>2
  <2> QED  BY <1>1, <1>2, <2>2, <2>3, <2>4, LeaveStep DEF f
<1> QED  BY <1>1, <1>5, <1>6, CallbackReturnsIs

(* The VM enters a callback, called by the request itself ... *)
LEMMA PrecallKotlinSeen ==
  ASSUME Reported, IInv, Placed, Tidy, PrecallKotlin, IInv'
  PROVE  Views!Enter
<1> DEFINE n == Len(native)
           f == [Top EXCEPT !.phase = "direct"]
           mid == ReplaceAt(native, n, f)
           g == CallbackFrame
           b == Top.func
<1>1. /\ VmRuns("enter") /\ ci' = Append(ci, b) /\ native' = Append(mid, g) /\ stack' = stack
  BY DEF PrecallKotlin, InPhase
<1>2. /\ native \in Seq(Frame) /\ n \in 1 .. n /\ n \in Nat /\ Top \in Frame /\ ~IsCallback(Top)
      /\ ci \in Seq(Nat) /\ Len(ci) \in Nat /\ stack \in Seq(Slot) /\ Len(stack) \in Nat
      /\ AtGuard(native, ci, nCcalls, stack) /\ Top = native[n] /\ native # <<>>
      /\ Top.phase = "enter"
  BY <1>1, VmFacts
<1>3. Top.ci \in 1 .. Len(ci) /\ b \in Nat
  BY <1>1, TopFacts
<1>4. b <= Len(stack)
  BY <1>2 DEF AtGuard
<1>5. /\ f \in Frame /\ f.kind = Top.kind /\ f.ci = Top.ci /\ f.func = Top.func
      /\ f.pops = Top.pops /\ f.nresults = Top.nresults
  BY <1>2 DEF Frame
<1> HIDE DEF f
<1>6. mid \in Seq(Frame) /\ Len(mid) = n /\ \A i \in 1 .. n : mid[i] = IF i = n THEN f ELSE native[i]
  <2>1. n = Len(native)
    OBVIOUS
  <2>2. n \in 1 .. Len(native) /\ native \in Seq(Frame) /\ f \in Frame
    BY <1>2, <1>5
  <2> HIDE DEF n, mid
  <2>3. /\ ReplaceAt(native, n, f) \in Seq(Frame)
        /\ Len(ReplaceAt(native, n, f)) = Len(native)
        /\ \A i \in 1 .. Len(native) : ReplaceAt(native, n, f)[i] = IF i = n THEN f ELSE native[i]
    <3>1. Exchanged(ReplaceAt(native, n, f), Frame, native, n, f)
      BY ONLY <2>2, Exchange
    <3> QED  BY ONLY <3>1 DEF Exchanged
  <2> QED  BY <2>1, <2>3 DEF mid
<1>7. g \in Frame /\ IsCallback(g) /\ g.ci = Len(ci) + 1
  <2>1. errorjmp \in Nat /\ nCcalls \in Nat
    BY DEF IInv, TypeOK
  <2> QED  BY <1>2, <2>1 DEF CallbackFrame, IsCallback, Frame, ResultCounts, Statuses
<1> HIDE DEF g, mid
<1>8. /\ Len(native') = n + 1 /\ native'[n + 1] = g /\ \A i \in 1 .. n : native'[i] = mid[i]
  BY ONLY <1>1, <1>6, <1>7, AppendProperties
<1> HIDE DEF b
<1>9. Len(ci') = Len(ci) + 1 /\ ci'[Len(ci')] = b /\ \A i \in 1 .. Len(ci) : ci'[i] = ci[i]
  BY ONLY <1>1, <1>2, <1>3, AppendProperties
<1>10. \A i \in b + 1 .. Len(stack') : stack'[i] \in Val
  <2> SUFFICES ASSUME NEW i \in b + 1 .. Len(stack)
               PROVE  stack[i] \in Val
    BY <1>1
  <2>1. i \in 1 .. Len(stack) /\ i \notin 1 .. b - 1
    BY ONLY <1>2, <1>3
  <2>2. HandlersOf(stack) \subseteq 1 .. b - 1
    BY <1>1, VmAbove DEF Placed, VmRuns, b
  <2>3. stack[i] # Handler
    BY <2>1, <2>2 DEF HandlersOf
  <2>4. stack[i] # Message
    BY <1>1, <1>2, <2>1 DEF Tidy, NoMessage, VmRuns
  <2>5. stack[i] \in Slot
    BY <1>2, <2>1, ElementOfSeq
  <2> QED  BY <2>3, <2>4, <2>5 DEF Slot
<1>11. /\ \A i \in 1 .. n - 1 : native'[i] = native[i]
       /\ native'[n] = f
  <2>1. \A i \in 1 .. n - 1 : i \in 1 .. n /\ i # n
    BY <1>2
  <2> QED  BY <1>2, <1>6, <1>8, <2>1
<1>12. \A i \in 1 .. Top.ci : ci'[i] = ci[i]
  <2>1. \A i \in 1 .. Top.ci : i \in 1 .. Len(ci)
    BY ONLY <1>2, <1>3
  <2> QED  BY <1>9, <2>1
<1>13. Top.func <= Len(stack') + 1 /\ \A i \in 1 .. Top.func - 1 : stack'[i] = stack[i]
  BY <1>1, TopFacts
<1>14. g.ci = Len(ci') /\ b <= Len(stack')
  BY <1>1, <1>4, <1>7, <1>9
<1>15. n = Len(native)
  OBVIOUS
<1> HIDE DEF n
<1>16. /\ Len(native') = Len(native) + 1 /\ \A i \in 1 .. Len(native) - 1 : native'[i] = native[i]
       /\ f = native'[Len(native)] /\ g = native'[Len(native) + 1]
  BY <1>8, <1>11, <1>15
<1> QED  BY ONLY <1>1, <1>3, <1>5, <1>7, <1>9, <1>10, <1>12, <1>13, <1>14, <1>16,
                 Reported, IInv, IInv', EnterStep

(* ... or by Lua code that the request runs. *)
LEMMA LuaCallsKotlinSeen ==
  ASSUME Reported, IInv, NEW args \in Seq(Val), LuaCallsKotlin(args), IInv'
  PROVE  Views!Enter
<1> DEFINE n == Len(native)
           l == Len(stack)
           g == CallbackFrame
           b == l + 1
           s == Append(stack, Fn)
<1>1. /\ VmRuns("body") /\ ci' = Append(ci, b) /\ native' = Append(native, g)
      /\ stack' = s \o args
  BY DEF LuaCallsKotlin
<1>2. /\ native \in Seq(Frame) /\ n \in 1 .. n /\ n \in Nat /\ Top = native[n]
      /\ ci \in Seq(Nat) /\ Len(ci) \in Nat /\ stack \in Seq(Slot) /\ l \in Nat
  BY <1>1, VmFacts
<1>3. Top.ci \in 1 .. Len(ci) /\ Top.func \in Nat /\ Top.func <= l + 1
  BY <1>1, TopFacts
<1>4. g \in Frame /\ IsCallback(g) /\ g.ci = Len(ci) + 1
  <2>1. errorjmp \in Nat /\ nCcalls \in Nat
    BY DEF IInv, TypeOK
  <2> QED  BY <1>2, <2>1 DEF CallbackFrame, IsCallback, Frame, ResultCounts, Statuses
<1> HIDE DEF g
<1>5. Len(native') = n + 1 /\ native'[n + 1] = g /\ \A i \in 1 .. n : native'[i] = native[i]
  BY ONLY <1>1, <1>2, <1>4, AppendProperties
<1>6. b \in Nat
  BY <1>2
<1>7. /\ s \in Seq(Slot) /\ Len(s) = b /\ \A i \in 1 .. l : s[i] = stack[i]
  <2>1. Fn \in Slot
    BY DEF Slot, Val
  <2> QED  BY ONLY <1>2, <2>1, AppendProperties
<1> HIDE DEF b, s
<1>8. Len(ci') = Len(ci) + 1 /\ ci'[Len(ci')] = b /\ \A i \in 1 .. Len(ci) : ci'[i] = ci[i]
  BY ONLY <1>1, <1>2, <1>6, AppendProperties
<1>9. args \in Seq(Slot) /\ Len(args) \in Nat /\ \A i \in 1 .. Len(args) : args[i] \in Val
  BY LenProperties, ElementOfSeq DEF Slot
<1>10. /\ Len(stack') = b + Len(args)
       /\ \A i \in 1 .. b + Len(args) : stack'[i] = IF i <= b THEN s[i] ELSE args[i - b]
  BY ONLY <1>1, <1>7, <1>9, ConcatProperties
<1>11. \A i \in b + 1 .. Len(stack') : stack'[i] \in Val
  <2>1. \A i \in b + 1 .. Len(stack') : i \in 1 .. b + Len(args) /\ ~(i <= b) /\ i - b \in 1 .. Len(args)
    BY ONLY <1>6, <1>9, <1>10
  <2> QED  BY <1>9, <1>10, <2>1
<1>12. b <= Len(stack') /\ Top.func <= Len(stack') + 1
       /\ \A i \in 1 .. Top.func - 1 : i \in 1 .. l /\ i \in 1 .. b + Len(args) /\ i <= b
  <2>1. b = l + 1
    BY DEF b
  <2> DEFINE fn == Top.func
             k == Len(args)
             m == Len(stack')
  <2>2. l \in Nat /\ fn \in Nat /\ fn <= l + 1 /\ k \in Nat /\ m = b + k
    BY <1>2, <1>3, <1>9, <1>10
  <2> HIDE DEF l, fn, k, m
  <2>3. b <= m /\ fn <= m + 1
        /\ \A i \in 1 .. fn - 1 : i \in 1 .. l /\ i \in 1 .. b + k /\ i <= b
    BY ONLY <2>1, <2>2
  <2> QED  BY <2>3 DEF fn, k, m
<1>13. \A i \in 1 .. Top.func - 1 : stack'[i] = stack[i]
  BY <1>7, <1>10, <1>12
<1>14. \A i \in 1 .. Top.ci : ci'[i] = ci[i]
  <2>1. \A i \in 1 .. Top.ci : i \in 1 .. Len(ci)
    BY ONLY <1>2, <1>3
  <2> QED  BY <1>8, <2>1
<1>15. /\ \A i \in 1 .. n - 1 : native'[i] = native[i]
       /\ Top = native'[n]
  <2>1. \A i \in 1 .. n - 1 : i \in 1 .. n
    BY <1>2
  <2> QED  BY <1>2, <1>5, <2>1
<1>16. g.ci = Len(ci')
  BY <1>4, <1>8
<1>17. /\ Len(native') = Len(native) + 1 /\ \A i \in 1 .. Len(native) - 1 : native'[i] = native[i]
       /\ Top = native'[Len(native)] /\ g = native'[Len(native) + 1]
  BY <1>5, <1>15
<1>18. PICK f : f = Top
  OBVIOUS
<1> QED  BY ONLY <1>1, <1>4, <1>6, <1>8, <1>11, <1>12, <1>13, <1>14, <1>16, <1>17, <1>18,
                 Reported, IInv, IInv', EnterStep

-----------------------------------------------------------------------------
(* A request ends, and leaves everything up to the base of the activation   *)
(* that made it alone.                                                      *)
LEMMA ReturnShape ==
  ASSUME Reported, IInv, VmRuns("done"), IInv', native' = Front(native), ci' = ci,
         NEW n, n = Depth(native), NEW c, c = ci[Top.ci],
         c <= Len(stack'), \A i \in 1 .. c : stack'[i] = stack[i]
  PROVE  LET V == Seen(native, ci, stack, n)
             W == Awaited(native, n)
         IN  /\ Len(V) = n /\ Len(W) = n /\ n \in Nat
             /\ views = Append(V, SubSeq(stack, c + 1, EndAt(native, stack, 2 * n)))
             /\ waits = Append(W, [pops |-> Top.pops, nresults |-> Top.nresults])
             /\ views' = Append(V, SubSeq(stack', c + 1, Len(stack')))
             /\ waits' = W
<1> DEFINE V == Seen(native, ci, stack, n)
           W == Awaited(native, n)
           g == 2 * n - 1
<1>1. /\ n \in Nat /\ Len(native) = 2 * n + 1 /\ native \in Seq(Frame)
      /\ Top = native[2 * n + 1]
      /\ Top.ci \in 1 .. Len(ci) /\ Len(ci) \in Nat /\ c \in Nat
      /\ BaseAt(native, 2 * n) = Top.ci
      /\ stack \in Seq(Slot) /\ Len(stack) \in Nat
  BY TopFacts
<1>2. /\ Linked(native, errorjmp) /\ mode = "run"
      /\ stack' \in Seq(Slot) /\ Len(stack') \in Nat
  BY LenProperties DEF IInv, TypeOK, VmRuns
<1>3. native # <<>>
  BY <1>1
<1>4. /\ Len(native') = 2 * n /\ \A i \in 1 .. 2 * n : native'[i] = native[i]
  <2>1. Len(Front(native)) = Len(native) - 1 /\ \A i \in 1 .. Len(native) - 1 : Front(native)[i] = native[i]
    BY ONLY <1>1, <1>3, FrontOk
  <2>2. Len(native) - 1 = 2 * n
    BY ONLY <1>1
  <2> QED  BY <2>1, <2>2
<1>5. n > 0 => /\ g \in 1 .. 2 * n /\ native[g].func \in Nat /\ native[g].func <= c
               /\ native[g].ci \in 1 .. Len(ci) /\ g \in 1 .. Len(native)
  <2> SUFFICES ASSUME n > 0
               PROVE  /\ g \in 1 .. 2 * n /\ native[g].func \in Nat /\ native[g].func <= c
                      /\ native[g].ci \in 1 .. Len(ci) /\ g \in 1 .. Len(native)
    OBVIOUS
  <2>1. g \in 1 .. 2 * n /\ g \in 1 .. Len(native) /\ g % 2 # 0 /\ g < 2 * n + 1
        /\ 2 * n + 1 \in 1 .. Len(native)
    BY ONLY <1>1, n > 0
  <2> HIDE DEF g
  <2>2. g \in GuardsOf(native)
    BY <1>2, <2>1, TakeTurns DEF GuardsOf
  <2>3. native[g].func \in Nat /\ native[g].func <= ci[native[2 * n + 1].ci]
    BY <1>2, <2>1, <2>2, FuncsRise
  <2>4. native[g].ci \in 1 .. Len(ci)
    BY <1>2, <2>2, GuardFacts
  <2> QED  BY <1>1, <2>1, <2>3, <2>4
<1>6. Alike(native', ci', stack', n)
  <2> SUFFICES ASSUME n > 0
               PROVE  Alike(native', ci', stack', n)
    BY DEF Alike
  <2>1. g \in 1 .. 2 * n /\ g <= Len(native) /\ g <= Len(native')
        /\ \A i \in 1 .. g : i \in 1 .. 2 * n
    BY ONLY <1>1, <1>4, n > 0
  <2> DEFINE fn == native[g].func
             l == Len(stack')
  <2>2. fn \in Nat /\ fn <= c /\ l \in Nat /\ c <= l /\ c \in Nat
    BY <1>1, <1>2, <1>5
  <2> HIDE DEF fn, l
  <2>3. fn <= l + 1 /\ \A i \in 1 .. fn - 1 : i \in 1 .. c
    BY ONLY <2>2
  <2>4. fn <= Len(stack') + 1 /\ \A i \in 1 .. fn - 1 : stack'[i] = stack[i]
    BY <2>3 DEF l
  <2> HIDE DEF g
  <2>5. /\ g <= Len(native) /\ g <= Len(native')
        /\ \A i \in 1 .. g :
             /\ native'[i].kind = native[i].kind /\ native'[i].ci = native[i].ci
             /\ native'[i].func = native[i].func /\ native'[i].pops = native[i].pops
             /\ native'[i].nresults = native[i].nresults
        /\ \A i \in 1 .. native[g].ci : ci'[i] = ci[i]
        /\ native[g].func <= Len(stack') + 1
        /\ \A i \in 1 .. native[g].func - 1 : stack'[i] = stack[i]
    BY <1>4, <2>1, <2>4 DEF fn
  <2> QED  BY ONLY <2>5 DEF Alike, g
<1>7. /\ Seen(native', ci', stack', n) = V
      /\ Awaited(native', n) = W
  <2>1. Len(native') \in Nat
    BY <1>1, <1>4
  <2> QED  BY ONLY <1>1, <1>2, <1>6, <2>1, Reported, IInv, SeenKept, Zenon
<1>8. Depth(native') = n
  <2>1. /\ Depth(native') \in Nat /\ Opened(native') \in {Depth(native'), Depth(native') + 1}
        /\ Len(native') = Depth(native') + Opened(native')
    BY ShapeNext DEF Opened
  <2> QED  BY ONLY <1>1, <1>4, <2>1
<1>9. views' = Append(V, SubSeq(stack', c + 1, Len(stack'))) /\ waits' = W
  <2>1. n + n = Len(native')
    BY ONLY <1>1, <1>4
  <2>2. /\ views' = Append(Seen(native', ci', stack', n), View(native', ci', stack', 2 * n))
        /\ waits' = Awaited(native', n)
    BY ONLY <1>8, <2>1, IInv', RunningShapeNext
  <2>3. View(native', ci', stack', 2 * n) = SubSeq(stack', c + 1, Len(stack'))
    <3>1. BaseAt(native', 2 * n) = BaseAt(native, 2 * n)
      <4>1. 2 * n # 0 => 2 * n \in 1 .. 2 * n
        BY ONLY <1>1
      <4> QED  BY <1>4, <4>1 DEF BaseAt
    <3>2. ci'[BaseAt(native', 2 * n)] = c
      BY <1>1, <3>1
    <3>3. EndAt(native', stack', 2 * n) = Len(stack')
      BY <1>4 DEF EndAt
    <3> QED  BY <3>2, <3>3 DEF View
  <2> QED  BY <1>7, <2>2, <2>3
<1>10. /\ views = Append(V, SubSeq(stack, c + 1, EndAt(native, stack, 2 * n)))
       /\ waits = Append(W, [pops |-> Top.pops, nresults |-> Top.nresults])
  <2>1. Opened(native) = n + 1
    <3>1. Opened(native) \in Nat /\ Len(native) = n + Opened(native)
      BY Shape
    <3> QED  BY ONLY <1>1, <3>1
  <2>2. views = Seen(native, ci, stack, n + 1) /\ waits = Awaited(native, n + 1)
    BY <2>1, Shape
  <2>3. /\ Seen(native, ci, stack, n + 1) = Append(V, View(native, ci, stack, 2 * n))
        /\ Awaited(native, n + 1) = Append(W, RequestAt(native, n + 1))
    <3>1. n \in Nat
      BY <1>1
    <3>2. Seen(native, ci, stack, n + 1) = Append(V, View(native, ci, stack, 2 * n))
      BY ONLY <3>1, SeenPushed, Zenon
    <3>3. Awaited(native, n + 1) = Append(W, RequestAt(native, n + 1))
      BY ONLY <3>1, AwaitedPushed, Zenon
    <3> QED  BY <3>2, <3>3
  <2>4. View(native, ci, stack, 2 * n) = SubSeq(stack, c + 1, EndAt(native, stack, 2 * n))
    BY <1>1 DEF View
  <2>5. RequestAt(native, n + 1) = [pops |-> Top.pops, nresults |-> Top.nresults]
    <3>1. 2 * (n + 1) - 1 = 2 * n + 1
      BY ONLY <1>1
    <3> QED  BY <1>1, <3>1 DEF RequestAt
  <2> QED  BY <2>2, <2>3, <2>4, <2>5
<1>11. Len(V) = n
  <2>1. n \in Nat
    BY <1>1
  <2> QED  BY ONLY <2>1, SeenSeq, Zenon
<1>12. Len(W) = n
  BY <1>1, AwaitedSeq
<1> QED  BY <1>1, <1>9, <1>10, <1>11, <1>12

(* It succeeds: above what the request keeps there are results only. *)
LEMMA SucceedStep ==
  ASSUME Reported, IInv, VmRuns("done"), IInv', native' = Front(native), ci' = ci,
         NEW end, end = EndAt(native, stack, 2 * Depth(native)),
         NEW k \in Nat, k = end - Top.pops, end <= Len(stack),
         k >= ci[Top.ci], k <= Len(stack'), \A i \in 1 .. k : stack'[i] = stack[i],
         Top.nresults # MULTRET => Len(stack') = k + Top.nresults,
         \A i \in k + 1 .. Len(stack') : stack'[i] \in Val
  PROVE  Views!Succeed
<1> DEFINE n == Depth(native)
           c == ci[Top.ci]
           V == Seen(native, ci, stack, n)
           W == Awaited(native, n)
           x == SubSeq(stack, c + 1, end)
           y == SubSeq(stack', c + 1, Len(stack'))
           kept == Len(x) - Top.pops
           p == Top.pops
           m == Top.nresults
           l == Len(stack')
<1>1. /\ n \in Nat /\ c \in Nat /\ p \in 0 .. 2
      /\ stack \in Seq(Slot) /\ Len(stack) \in Nat
      /\ end \in Nat /\ end >= c /\ m \in ResultCounts
  BY TopFacts
<1>2. stack' \in Seq(Slot) /\ Len(stack') \in Nat
  BY LenProperties DEF IInv, TypeOK
<1>3. c <= k /\ k <= l /\ l \in Nat /\ c <= l /\ k = end - p /\ end <= Len(stack)
  <2>1. l \in Nat /\ c \in Nat /\ c <= k /\ k <= l
    BY <1>1, <1>2
  <2> HIDE DEF l, c
  <2>2. c <= l
    BY ONLY <2>1, k \in Nat
  <2> QED  BY <2>1, <2>2
<1> HIDE DEF l, c, p, m, n
<1>4. \A i \in 1 .. c : stack'[i] = stack[i]
  <2>1. \A i \in 1 .. c : i \in 1 .. k
    BY ONLY <1>1, <1>3, k \in Nat
  <2> QED  BY <2>1
<1>5. /\ Len(V) = n /\ Len(W) = n /\ n \in Nat
      /\ views = Append(V, x)
      /\ waits = Append(W, [pops |-> p, nresults |-> m])
      /\ views' = Append(V, y) /\ waits' = W
  <2>1. c <= Len(stack')
    BY <1>3 DEF l
  <2> HIDE DEF V, W
  <2> QED  BY <1>4, <2>1, ReturnShape DEF c, p, m, n, V, W
<1>6. Len(x) = end - c /\ SubSeq(x, 1, end - c - p) = SubSeq(stack, c + 1, k)
  <2>1. p \in Nat /\ p <= end - c /\ k = end - p /\ end \in Nat /\ c <= end
    BY ONLY <1>1, <1>3, k \in Nat
  <2>2. Len(SubSeq(stack, c + 1, end)) = end - c
        /\ SubSeq(SubSeq(stack, c + 1, end), 1, end - c - p) = SubSeq(stack, c + 1, end - p)
    BY ONLY <1>1, <1>3, <2>1, SubSeqPrefix
  <2> QED  BY <2>1, <2>2
<1>7. Len(y) = l - c /\ SubSeq(y, 1, l - c - (l - k)) = SubSeq(stack', c + 1, l - (l - k))
  <2> DEFINE q == l - k
  <2>1. q \in Nat /\ q <= l - c /\ c <= l /\ l \in Nat /\ l <= Len(stack')
    <3>1. l <= Len(stack')
      BY <1>2 DEF l
    <3> QED  BY ONLY <1>1, <1>3, <3>1, k \in Nat
  <2> HIDE DEF q
  <2>2. Len(SubSeq(stack', c + 1, l)) = l - c
        /\ SubSeq(SubSeq(stack', c + 1, l), 1, l - c - q) = SubSeq(stack', c + 1, l - q)
    BY ONLY <1>1, <1>2, <2>1, SubSeqPrefix
  <2> QED  BY <2>2 DEF l, q
<1>8. SubSeq(stack', c + 1, k) = SubSeq(stack, c + 1, k)
  <2> DEFINE b == c + 1
  <2>1. b \in Nat /\ b >= 1 /\ k \in Int /\ k <= Len(stack) /\ k <= Len(stack')
        /\ \A i \in b .. k : i \in 1 .. k
    <3>1. k <= Len(stack)
      BY ONLY <1>1, <1>3, k \in Nat
    <3> QED  BY <1>1, <1>3, <3>1 DEF l
  <2>2. \A i \in b .. k : stack'[i] = stack[i]
    BY <2>1
  <2> HIDE DEF b
  <2>3. SubSeq(stack', b, k) = SubSeq(stack, b, k)
    BY ONLY <1>1, <1>2, <2>1, <2>2, SubSeqSame
  <2> QED  BY <2>3 DEF b
<1>9. kept = k - c /\ kept = end - c - p /\ kept = l - c - (l - k) /\ l - (l - k) = k /\ kept \in Nat
  <2>1. kept = Len(x) - p
    BY DEF p
  <2> HIDE DEF kept, x
  <2> QED  BY ONLY <1>1, <1>3, <1>6, <2>1, k \in Nat
<1>10. SubSeq(y, 1, kept) = SubSeq(x, 1, kept)
  <2> HIDE DEF kept, x, y
  <2> QED  BY ONLY <1>6, <1>7, <1>8, <1>9
<1>11. m # MULTRET => Len(y) = kept + m
  <2>1. m # MULTRET => l = k + m
    BY DEF m, l
  <2> HIDE DEF kept, x, y
  <2>2. m \in Int
    BY <1>1 DEF ResultCounts, MULTRET
  <2> QED  BY ONLY <1>1, <1>3, <1>7, <1>9, <2>1, <2>2, k \in Nat
<1>12. \A i \in kept + 1 .. Len(y) : y[i] \in Val
  <2> SUFFICES ASSUME NEW i \in kept + 1 .. Len(y)
               PROVE  y[i] \in Val
    OBVIOUS
  <2> HIDE DEF kept, y
  <2>1. i \in 1 .. l - c /\ c + i \in k + 1 .. l /\ c + 1 \in Int /\ c + 1 >= 1
        /\ l - (c + 1) + 1 = l - c /\ c + 1 + i - 1 = c + i /\ l \in Int
    BY ONLY <1>1, <1>3, <1>7, <1>9, i \in kept + 1 .. Len(y), k \in Nat
  <2>2. l <= Len(stack')
    BY <1>2 DEF l
  <2>3. \A j \in 1 .. l - (c + 1) + 1 : SubSeq(stack', c + 1, l)[j] = stack'[c + 1 + j - 1]
    BY ONLY <1>2, <2>1, <2>2, SubSeqOk
  <2>4. y[i] = stack'[c + i]
    BY <2>1, <2>3 DEF y, l
  <2>5. stack'[c + i] \in Val
    BY <2>1 DEF l
  <2> QED  BY <2>4, <2>5
<1>13. PICK S : V \in Seq(S)
  BY <1>5, SeenIsSeq
<1>14. PICK T : W \in Seq(T)
  <2>1. W \in Seq({RequestAt(native, a) : a \in 1 .. n})
    BY <1>5, AwaitedSeq
  <2> QED  BY <2>1
<1>15. kept = Len(x) - p
  BY DEF p
<1> HIDE DEF V, W, x, y, kept
<1> QED  BY ONLY <1>5, <1>10, <1>11, <1>12, <1>13, <1>14, <1>15, AsSucceed

(* It fails: there is what was left when the request was made. *)
LEMMA FailStep ==
  ASSUME Reported, IInv, VmRuns("done"), IInv', native' = Front(native), ci' = ci,
         NEW end, end = EndAt(native, stack, 2 * Depth(native)), end <= Len(stack),
         Len(stack') = end, \A i \in 1 .. end : stack'[i] = stack[i]
  PROVE  Views!Fail
<1> DEFINE n == Depth(native)
           c == ci[Top.ci]
           V == Seen(native, ci, stack, n)
           W == Awaited(native, n)
           r == [pops |-> Top.pops, nresults |-> Top.nresults]
<1>1. /\ n \in Nat /\ c \in Nat
      /\ stack \in Seq(Slot) /\ end \in Nat /\ end >= c
  BY TopFacts
<1>2. stack' \in Seq(Slot)
  BY DEF IInv, TypeOK
<1> HIDE DEF c, n
<1>3. c <= Len(stack') /\ \A i \in 1 .. c : stack'[i] = stack[i]
  <2>1. \A i \in 1 .. c : i \in 1 .. end
    BY ONLY <1>1
  <2> QED  BY <1>1, <2>1
<1>4. /\ Len(V) = n /\ Len(W) = n /\ n \in Nat
      /\ views = Append(V, SubSeq(stack, c + 1, end))
      /\ waits = Append(W, r)
      /\ views' = Append(V, SubSeq(stack', c + 1, end)) /\ waits' = W
  <2> HIDE DEF V, W
  <2> QED  BY <1>3, ReturnShape DEF c, n, V, W
<1>5. SubSeq(stack', c + 1, end) = SubSeq(stack, c + 1, end)
  <2> DEFINE b == c + 1
  <2>1. b \in Nat /\ b >= 1 /\ end \in Int /\ end <= Len(stack) /\ end <= Len(stack')
        /\ \A i \in b .. end : i \in 1 .. end
    BY <1>1
  <2>2. \A i \in b .. end : stack'[i] = stack[i]
    BY <2>1
  <2> HIDE DEF b
  <2>3. SubSeq(stack', b, end) = SubSeq(stack, b, end)
    BY ONLY <1>1, <1>2, <2>1, <2>2, SubSeqSame
  <2> QED  BY <2>3 DEF b
<1>6. views' = views
  BY <1>4, <1>5
<1>7. PICK T : W \in Seq(T)
  <2>1. W \in Seq({RequestAt(native, a) : a \in 1 .. n})
    BY <1>4, AwaitedSeq
  <2> QED  BY <2>1
<1>8. Len(views) = Len(W) + 1
  <2>1. PICK S : V \in Seq(S)
    BY <1>4, SeenIsSeq
  <2> HIDE DEF V, W
  <2> QED  BY ONLY <1>4, <2>1, Pushed
<1> HIDE DEF W, r
<1> QED  BY ONLY <1>4, <1>6, <1>7, <1>8, AsFail

(* What Kotlin makes of the end of a request that worked, and of one that did *)
(* not: then the message is popped.                                           *)
LEMMA ConcludeIs ==
  ASSUME pending = FALSE, NEW s, NEW last, NEW res, NEW status,
         Conclude(s, last, res, status)
  PROVE  stack' = IF last # OK \/ res # OK THEN Front(s) ELSE s
<1> DEFINE thrown == Thrown(last, res)
<1>1. thrown = IF last # OK \/ res # OK THEN "lua" ELSE "none"
  BY DEF Thrown
<1>2. stack' = IF thrown = "lua" THEN Front(s) ELSE s
  BY DEF Conclude, ConcludeWith
<1> QED  BY <1>1, <1>2

(* nativeCall leaves what is below the handler, and the results if there are *)
(* any: the message was where the function had been.                         *)
LEMMA CallReturnsIs ==
  ASSUME Reported, IInv, Told, Placed, Tidy, CallReturns
  PROVE  /\ VmRuns("done") /\ native' = Front(native) /\ ci' = ci
         /\ Top.func \in Nat /\ Top.func - 2 \in Nat /\ Top.func - 2 >= ci[Top.ci] /\ Top.pops = 0
         /\ Top.func - 2 <= Len(stack) /\ Top.func - 2 <= Len(stack')
         /\ EndAt(native, stack, 2 * Depth(native)) = Top.func - 2
         /\ \A i \in 1 .. Top.func - 2 : stack'[i] = stack[i]
         /\ Top.status # OK => Len(stack') = Top.func - 2
         /\ Top.status = OK =>
              /\ Top.nresults # MULTRET => Len(stack') = Top.func - 2 + Top.nresults
              /\ \A i \in Top.func - 1 .. Len(stack') : stack'[i] \in Val
<1> DEFINE handler == Base + Top.errfunc
           s == RemoveAt(stack, handler)
           fn == Top.func
           c == ci[Top.ci]
           m == Top.nresults
<1>1. /\ VmRuns("done") /\ Top.kind = "call" /\ native' = Front(native)
      /\ Top.phase = "done" /\ ci' = ci
  BY DEF CallReturns, VmRuns
<1>2. native # <<>> /\ stack \in Seq(Slot) /\ Len(stack) \in Nat /\ Len(native) \in 1 .. Len(native)
      /\ Top = native[Len(native)]
  BY <1>1, VmFacts
<1>3. HandlersRight /\ GivenBack
  BY <1>1 DEF Placed, VmRuns
<1>4. Base = c
  <2>1. Len(ci) = Top.ci
    BY <1>1, <1>2, <1>3 DEF GivenBack
  <2> QED  BY <2>1 DEF Base, Last
<1>5. /\ c \in Nat /\ fn \in Nat
      /\ HandlersOf(stack) \subseteq 1 .. fn - 1
      /\ fn = c + Top.errfunc + 1 /\ Top.errfunc \in Nat /\ Top.errfunc >= 1
  BY <1>1, <1>3, VmAbove
<1>6. fn <= Len(stack) + 1 /\ m \in ResultCounts
      /\ EndAt(native, stack, 2 * Depth(native)) = fn - 2
  BY <1>1, TopFacts
<1>7. /\ handler = fn - 1 /\ handler \in 1 .. Len(stack) /\ fn - 2 \in Nat /\ fn - 2 >= c
      /\ fn - 2 <= Len(stack) - 1 /\ fn - 2 <= Len(stack)
  <2> DEFINE l == Len(stack)
             er == Top.errfunc
  <2>1. /\ l \in Nat /\ Base = c /\ c \in Nat /\ fn \in Nat /\ fn = c + er + 1 /\ er \in Nat /\ er >= 1
        /\ fn <= l + 1 /\ handler = Base + er
    BY <1>2, <1>4, <1>5, <1>6
  <2> HIDE DEF l, er, c, fn, handler
  <2>2. /\ handler = fn - 1 /\ handler \in 1 .. l /\ fn - 2 \in Nat /\ fn - 2 >= c
        /\ fn - 2 <= l - 1 /\ fn - 2 <= l
    BY ONLY <2>1
  <2> QED  BY <2>2 DEF l
<1>8. Top.pops = 0
  BY <1>1, <1>2 DEF Tidy, NothingDeferred, VmRuns
<1>9. Conclude(s, OK, Top.status, Top.status) /\ pending = FALSE
  BY <1>7 DEF CallReturns, Told
<1> HIDE DEF handler, fn, c, m
<1>10. /\ s \in Seq(Slot) /\ Len(s) = Len(stack) - 1
       /\ \A j \in 1 .. Len(stack) - 1 : s[j] = IF j < handler THEN stack[j] ELSE stack[j + 1]
  BY <1>2, <1>7, RemoveAtOk, RemoveAtElements
<1>11. stack' = IF Top.status # OK THEN Front(s) ELSE s
  BY <1>9, ConcludeIs
<1> HIDE DEF s
<1>12. \A i \in 1 .. fn - 2 : s[i] = stack[i]
  <2>1. \A i \in 1 .. fn - 2 : i \in 1 .. Len(stack) - 1 /\ i < handler
    <3> DEFINE l == Len(stack)
    <3>1. l \in Nat /\ fn \in Nat /\ handler = fn - 1 /\ fn - 2 <= l - 1
      BY <1>2, <1>5, <1>7
    <3> HIDE DEF l
    <3>2. \A i \in 1 .. fn - 2 : i \in 1 .. l - 1 /\ i < handler
      BY ONLY <3>1
    <3> QED  BY <3>2 DEF l
  <2> QED  BY <1>10, <2>1
<1>13. CASE Top.status # OK
  <2>1. Len(stack) = fn
    BY <1>1, <1>13 DEF Told, MessageLeft, fn
  <2>2. Len(s) = fn - 1 /\ s # <<>>
    <3>1. Len(s) = fn - 1 /\ fn - 1 # 0
      BY ONLY <1>5, <1>7, <1>10, <2>1
    <3> QED  BY <1>10, <3>1, EmptySeq
  <2>3. Len(Front(s)) = Len(s) - 1 /\ \A i \in 1 .. Len(s) - 1 : Front(s)[i] = s[i]
    BY ONLY <1>10, <2>2, FrontOk
  <2>4. Len(stack') = fn - 2
    BY <1>5, <1>11, <1>13, <2>2, <2>3
  <2>5. \A i \in 1 .. fn - 2 : stack'[i] = stack[i]
    <3>1. fn - 2 = Len(s) - 1
      BY ONLY <1>5, <2>2
    <3> QED  BY <1>11, <1>12, <1>13, <2>3, <3>1
  <2> QED  BY <1>1, <1>5, <1>6, <1>7, <1>8, <1>13, <2>4, <2>5 DEF fn, c
<1>14. CASE Top.status = OK
  <2>1. stack' = s
    BY <1>11, <1>14
  <2>2. m # MULTRET => Len(stack') = fn - 2 + m
    <3>1. m # MULTRET => Len(stack) = fn - 1 + m
      BY <1>1, <1>14 DEF Tidy, AsManyAsAsked, VmRuns, fn, m
    <3>2. m \in Int
      BY <1>6 DEF ResultCounts, MULTRET
    <3>3. fn \in Nat /\ Len(stack') = Len(stack) - 1
      BY <1>5, <1>10, <2>1
    <3> QED  BY ONLY <3>1, <3>2, <3>3
  <2>3. \A i \in fn - 1 .. Len(stack') : stack'[i] \in Val
    <3> SUFFICES ASSUME NEW i \in fn - 1 .. Len(stack')
                 PROVE  stack'[i] \in Val
      OBVIOUS
    <3>1. i \in 1 .. Len(stack) - 1 /\ ~(i < handler) /\ i + 1 \in 1 .. Len(stack) /\ i + 1 \notin 1 .. fn - 1
      <4> DEFINE l == Len(stack)
      <4>1. l \in Nat /\ fn \in Nat /\ handler = fn - 1 /\ handler \in 1 .. l /\ i \in fn - 1 .. l - 1
        BY <1>2, <1>5, <1>7, <1>10, <2>1
      <4> HIDE DEF l
      <4>2. i \in 1 .. l - 1 /\ ~(i < handler) /\ i + 1 \in 1 .. l /\ i + 1 \notin 1 .. fn - 1
        BY ONLY <4>1
      <4> QED  BY <4>2 DEF l
    <3>2. stack'[i] = stack[i + 1]
      BY <1>10, <2>1, <3>1
    <3>3. stack[i + 1] # Handler
      BY <1>5, <3>1 DEF HandlersOf
    <3>4. stack[i + 1] # Message
      BY <1>1, <1>14, <3>1 DEF Tidy, NoMessage, VmRuns
    <3>5. stack[i + 1] \in Slot
      BY <1>2, <3>1, ElementOfSeq
    <3> QED  BY <3>2, <3>3, <3>4, <3>5 DEF Slot
  <2>4. fn - 2 <= Len(stack')
    BY <1>7, <1>10, <2>1
  <2> QED  BY <1>1, <1>5, <1>6, <1>7, <1>8, <1>12, <1>14, <2>1, <2>2, <2>3, <2>4 DEF fn, c, m
<1> QED  BY <1>13, <1>14

(* A barrier that ends with a result stores it in place of the operands. *)
LEMMA BarrierReturnsIs ==
  ASSUME Reported, IInv, Told, Placed, Tidy, BarrierReturns, NEW k, k = Top.func - 1 - Top.pops
  PROVE  /\ VmRuns("done") /\ native' = Front(native) /\ ci' = ci
         /\ k \in Nat /\ k >= ci[Top.ci] /\ k <= Len(stack')
         /\ EndAt(native, stack, 2 * Depth(native)) = Top.func - 1 /\ Top.func - 1 <= Len(stack)
         /\ \A i \in 1 .. k : stack'[i] = stack[i]
         /\ Top.nresults # MULTRET => Len(stack') = k + Top.nresults
         /\ \A i \in k + 1 .. Len(stack') : stack'[i] \in Val
<1> DEFINE fn == Top.func
           p == Top.pops
           slot == fn - p
           l == Len(stack)
           results == SubSeq(stack, fn, l)
           below == Below(slot)
           c == ci[Top.ci]
           m == Top.nresults
<1>1. /\ VmRuns("done") /\ Top.kind = "barrier" /\ native' = Front(native)
      /\ ci' = ci
  BY DEF BarrierReturns
<1>2. Top.status = OK /\ pending = FALSE
  BY <1>1 DEF Told, MessageLeft
<1>3. Conclude(below \o results, OK, OK, OK)
  BY <1>2 DEF BarrierReturns
<1>4. HandlersRight /\ stack \in Seq(Slot) /\ l \in Nat
  BY <1>1, VmFacts DEF Placed, VmRuns
<1>5. HandlersOf(stack) \subseteq 1 .. c
  BY <1>1, <1>4, VmAbove
<1>6. /\ fn \in Nat /\ p \in 0 .. 2 /\ fn > c + p /\ c \in Nat
      /\ fn <= l + 1 /\ m \in ResultCounts
      /\ EndAt(native, stack, 2 * Depth(native)) = fn - 1
  BY <1>1, TopFacts
<1> HIDE DEF fn, p, c, m, l
<1>7. slot \in Nat /\ slot >= 1 /\ slot <= l + 1 /\ k = slot - 1 /\ k \in Nat /\ k >= c
      /\ fn - 1 <= l /\ fn - 1 \in Nat
  <2>1. k = fn - 1 - p
    BY DEF fn, p
  <2> QED  BY ONLY <1>4, <1>6, <2>1
<1> HIDE DEF slot
<1>8. below \in Seq(Slot) /\ Len(below) = k /\ \A i \in 1 .. k : below[i] = stack[i]
  BY <1>4, <1>7, BelowIs DEF l
<1>9. /\ results \in Seq(Slot) /\ Len(results) = l - fn + 1
      /\ \A i \in 1 .. l - fn + 1 : results[i] = stack[fn + i - 1]
  <2>1. fn \in Int /\ l \in Int /\ fn >= 1 /\ l <= Len(stack)
    <3>1. l <= Len(stack)
      BY <1>4 DEF l
    <3> QED  BY ONLY <1>4, <1>6, <3>1
  <2>2. /\ results \in Seq(Slot) /\ Len(results) = IF fn <= l THEN l - fn + 1 ELSE 0
        /\ \A i \in 1 .. l - fn + 1 : results[i] = stack[fn + i - 1]
    BY ONLY <1>4, <2>1, SubSeqOk
  <2> HIDE DEF results
  <2> QED  BY ONLY <1>4, <1>6, <2>2
<1>10. stack' = below \o results
  BY <1>2, <1>3, ConcludeIs
<1> HIDE DEF below, results
<1>11. /\ Len(stack') = k + (l - fn + 1)
       /\ \A i \in 1 .. Len(stack') : stack'[i] = IF i <= k THEN below[i] ELSE results[i - k]
  <2>1. Len(below \o results) = Len(below) + Len(results)
        /\ \A i \in 1 .. Len(below) + Len(results) :
             (below \o results)[i] = IF i <= Len(below) THEN below[i] ELSE results[i - Len(below)]
    BY ONLY <1>8, <1>9, ConcatProperties
  <2> QED  BY ONLY <1>8, <1>9, <1>10, <2>1
<1>12. k <= Len(stack') /\ \A i \in 1 .. k : i \in 1 .. Len(stack')
  <2> DEFINE j == Len(stack')
  <2>1. j = k + (l - fn + 1)
    BY <1>11
  <2> HIDE DEF j
  <2>2. k <= j /\ \A i \in 1 .. k : i \in 1 .. j
    BY ONLY <1>4, <1>6, <1>7, <2>1
  <2> QED  BY <2>2 DEF j
<1>13. \A i \in 1 .. k : stack'[i] = stack[i]
  BY <1>7, <1>8, <1>11, <1>12
<1>14. m # MULTRET => Len(stack') = k + m
  <2>1. m # MULTRET => l = fn - 1 + m
    BY <1>1, <1>2 DEF Tidy, AsManyAsAsked, VmRuns, fn, m, l
  <2>2. m \in Int
    BY <1>6 DEF ResultCounts, MULTRET
  <2> QED  BY ONLY <1>4, <1>6, <1>7, <1>11, <2>1, <2>2
<1>15. \A i \in k + 1 .. Len(stack') : stack'[i] \in Val
  <2> SUFFICES ASSUME NEW i \in k + 1 .. Len(stack')
               PROVE  stack'[i] \in Val
    OBVIOUS
  <2> DEFINE j == fn + (i - k) - 1
  <2>1. /\ i \in 1 .. Len(stack') /\ ~(i <= k) /\ i - k \in 1 .. l - fn + 1
        /\ j \in 1 .. l /\ j \notin 1 .. c
    BY ONLY <1>4, <1>6, <1>7, <1>11, i \in k + 1 .. Len(stack')
  <2>2. stack'[i] = stack[j]
    BY <1>9, <1>11, <2>1
  <2> HIDE DEF j
  <2>3. stack[j] # Handler /\ stack[j] # Message
    BY <1>1, <1>2, <1>5, <2>1 DEF Tidy, NoMessage, VmRuns, HandlersOf, l
  <2>4. stack[j] \in Slot
    BY <1>4, <2>1, ElementOfSeq DEF l
  <2> QED  BY <2>2, <2>3, <2>4 DEF Slot
<1> QED  BY <1>1, <1>6, <1>7, <1>12, <1>13, <1>14, <1>15 DEF fn, c, m, l

(* nativeCall returns: the results are pushed, or an exception adds nothing. *)
LEMMA CallReturnsSeen ==
  ASSUME Reported, IInv, Told, Placed, Tidy, CallReturns, IInv'
  PROVE  Views!Next
<1> DEFINE end == Top.func - 2
<1>1. /\ VmRuns("done") /\ native' = Front(native) /\ ci' = ci
      /\ end \in Nat /\ end >= ci[Top.ci] /\ Top.pops = 0 /\ Top.func \in Nat
      /\ end <= Len(stack) /\ end <= Len(stack')
      /\ end = EndAt(native, stack, 2 * Depth(native))
      /\ \A i \in 1 .. end : stack'[i] = stack[i]
      /\ Top.status # OK => Len(stack') = end
      /\ Top.status = OK =>
           /\ Top.nresults # MULTRET => Len(stack') = end + Top.nresults
           /\ \A i \in Top.func - 1 .. Len(stack') : stack'[i] \in Val
  BY CallReturnsIs
<1>2. Top.func - 1 = end + 1 /\ end = end - Top.pops
  BY <1>1
<1> HIDE DEF end
<1>3. CASE Top.status = OK
  <2>1. \A i \in end + 1 .. Len(stack') : stack'[i] \in Val
    BY <1>1, <1>2, <1>3
  <2>2. Top.nresults # MULTRET => Len(stack') = end + Top.nresults
    BY <1>1, <1>3
  <2>3. Views!Succeed
    BY ONLY Reported, IInv, IInv', <1>1, <1>2, <2>1, <2>2, SucceedStep
  <2> QED  BY <2>3 DEF Views!Next
<1>4. CASE Top.status # OK
  <2>1. Len(stack') = end
    BY <1>1, <1>4
  <2>2. Views!Fail
    BY ONLY Reported, IInv, IInv', <1>1, <2>1, FailStep
  <2> QED  BY <2>2 DEF Views!Next
<1> QED  BY <1>3, <1>4

(* A guarded operation returns: its results take the place of its operands. *)
LEMMA BarrierReturnsSeen ==
  ASSUME Reported, IInv, Told, Placed, Tidy, BarrierReturns, IInv'
  PROVE  Views!Succeed
<1> DEFINE end == Top.func - 1
           k == end - Top.pops
<1>1. /\ VmRuns("done") /\ native' = Front(native) /\ ci' = ci
      /\ k \in Nat /\ k >= ci[Top.ci] /\ k <= Len(stack')
      /\ end = EndAt(native, stack, 2 * Depth(native)) /\ end <= Len(stack)
      /\ \A i \in 1 .. k : stack'[i] = stack[i]
      /\ Top.nresults # MULTRET => Len(stack') = k + Top.nresults
      /\ \A i \in k + 1 .. Len(stack') : stack'[i] \in Val
  BY BarrierReturnsIs
<1>2. k = end - Top.pops
  OBVIOUS
<1> HIDE DEF end, k
<1> QED  BY ONLY Reported, IInv, IInv', <1>1, <1>2, SucceedStep

-----------------------------------------------------------------------------
(* What Kotlin does with its own stack.                                     *)

(* The stack is s up to b, and holds no message. *)
Clean(s, t, b) ==
  /\ t \in Seq(Slot) /\ b <= Len(t)
  /\ \A i \in 1 .. b : t[i] = s[i]
  /\ \A i \in 1 .. Len(t) : t[i] # Message

(* No message lies on the stack of running Kotlin code. *)
LEMMA KotlinClean ==
  ASSUME Reported, IInv, Tidy, KotlinRuns
  PROVE  /\ Clean(stack, stack, Base)
         /\ stack \in Seq(Slot) /\ Len(stack) \in Nat /\ Base \in Nat /\ Base <= Len(stack)
         /\ GetTop = Len(stack) - Base
         /\ \A i \in 1 .. Len(stack) : stack[i] \in Slot /\ stack[i] # Message
<1>1. /\ stack \in Seq(Slot) /\ Len(stack) \in Nat /\ Base \in Nat /\ Base <= Len(stack)
      /\ GetTop = Len(stack) - Base
  BY RunningFacts
<1>2. \A i \in 1 .. Len(stack) : stack[i] # Message
  BY DEF KotlinRuns, Tidy, NoMessage, VmRuns
<1> QED  BY <1>1, <1>2, ElementOfSeq DEF Clean

(* A message is neither a value nor a handler. *)
LEMMA MessageDistinct == Message \notin {Plain, Fn, Handler}
<1> SUFFICES ASSUME Message \in {Plain, Fn, Handler}
             PROVE  FALSE
  OBVIOUS
<1> DEFINE one == {} \cup {Plain}
           two == one \cup {Fn}
           three == two \cup {Handler}
<1>1. IsFiniteSet({}) /\ Cardinality({}) = 0
  BY FS_EmptySet
<1>2. IsFiniteSet(one) /\ Cardinality(one) \in 0 .. 1
  BY <1>1, FS_AddElement
<1> HIDE DEF one
<1>3. IsFiniteSet(two) /\ Cardinality(two) \in 0 .. 2
  BY <1>2, FS_AddElement
<1> HIDE DEF two
<1>4. Cardinality(three) \in 0 .. 3
  BY <1>3, FS_AddElement
<1>5. three = {Plain, Fn, Handler, Message}
  BY DEF one, two
<1> HIDE DEF three
<1> QED  BY <1>4, <1>5, ConstantsAssumption

(* What is clean stays clean with one more value, with results, and with     *)
(* one value less, as long as b remains.                                     *)
LEMMA CleanPushed ==
  ASSUME NEW s, NEW t, NEW b \in Nat, Clean(s, t, b), NEW v \in Slot, v # Message
  PROVE  Clean(s, Append(t, v), b)
<1> DEFINE u == Append(t, v)
<1>1. /\ t \in Seq(Slot) /\ b <= Len(t) /\ Len(t) \in Nat
      /\ \A i \in 1 .. b : t[i] = s[i]
      /\ \A i \in 1 .. Len(t) : t[i] # Message
  BY LenProperties DEF Clean
<1>2. /\ u \in Seq(Slot) /\ Len(u) = Len(t) + 1 /\ u[Len(t) + 1] = v
      /\ \A i \in 1 .. Len(t) : u[i] = t[i]
  BY <1>1, AppendProperties
<1> HIDE DEF u
<1>3. \A i \in 1 .. Len(u) : i \in 1 .. Len(t) \/ i = Len(t) + 1
  BY ONLY <1>1, <1>2
<1>4. b <= Len(u) /\ \A i \in 1 .. b : i \in 1 .. Len(t)
  BY <1>1, <1>2
<1>5. (\A i \in 1 .. b : u[i] = s[i]) /\ \A i \in 1 .. Len(u) : u[i] # Message
  BY <1>1, <1>2, <1>3, <1>4
<1> QED  BY <1>2, <1>4, <1>5 DEF Clean, u

(* A stack above the base stays clean when its last slot is dropped. *)
LEMMA CleanFront ==
  ASSUME NEW s, NEW t, NEW b \in Nat, Clean(s, t, b), Len(t) > b
  PROVE  Clean(s, Front(t), b)
<1> DEFINE u == Front(t)
<1>1. /\ t \in Seq(Slot) /\ Len(t) \in Nat
      /\ \A i \in 1 .. b : t[i] = s[i]
      /\ \A i \in 1 .. Len(t) : t[i] # Message
  BY LenProperties DEF Clean
<1>2. t # <<>>
  BY <1>1
<1>3. u \in Seq(Slot) /\ Len(u) = Len(t) - 1 /\ \A i \in 1 .. Len(t) - 1 : u[i] = t[i]
  BY <1>1, <1>2, FrontOk
<1> HIDE DEF u
<1>4. /\ b <= Len(u) /\ (\A i \in 1 .. b : i \in 1 .. Len(t) - 1)
      /\ \A i \in 1 .. Len(u) : i \in 1 .. Len(t) /\ i \in 1 .. Len(t) - 1
  BY <1>1, <1>3
<1>5. (\A i \in 1 .. b : u[i] = s[i]) /\ \A i \in 1 .. Len(u) : u[i] # Message
  BY <1>1, <1>3, <1>4
<1> QED  BY <1>3, <1>4, <1>5 DEF Clean, u

(* And when plain values are pushed. *)
LEMMA CleanJoined ==
  ASSUME NEW s, NEW t, NEW b \in Nat, Clean(s, t, b), NEW vals \in Seq(Val)
  PROVE  Clean(s, t \o vals, b)
<1> DEFINE u == t \o vals
<1>1. /\ t \in Seq(Slot) /\ Len(t) \in Nat /\ Len(vals) \in Nat /\ b <= Len(t)
      /\ \A i \in 1 .. b : t[i] = s[i]
      /\ \A i \in 1 .. Len(t) : t[i] # Message
  BY LenProperties DEF Clean
<1>2. vals \in Seq(Slot) /\ \A i \in 1 .. Len(vals) : vals[i] \in Val /\ vals[i] # Message
  <2>1. \A i \in 1 .. Len(vals) : vals[i] \in Val
    BY ElementOfSeq
  <2>2. vals \in Seq(Slot)
    BY DEF Slot
  <2> QED  BY <2>1, <2>2, MessageDistinct DEF Val
<1>3. /\ u \in Seq(Slot) /\ Len(u) = Len(t) + Len(vals)
      /\ \A i \in 1 .. Len(t) + Len(vals) : u[i] = IF i <= Len(t) THEN t[i] ELSE vals[i - Len(t)]
  BY <1>1, <1>2, ConcatProperties
<1> HIDE DEF u
<1>4. /\ b <= Len(u) /\ (\A i \in 1 .. b : i \in 1 .. Len(t) + Len(vals) /\ i <= Len(t))
      /\ \A i \in 1 .. Len(u) : i \in 1 .. Len(t) + Len(vals) /\
           (IF i <= Len(t) THEN i \in 1 .. Len(t) ELSE i - Len(t) \in 1 .. Len(vals))
  BY ONLY <1>1, <1>3
<1>5. (\A i \in 1 .. b : u[i] = s[i]) /\ \A i \in 1 .. Len(u) : u[i] # Message
  BY <1>1, <1>2, <1>3, <1>4
<1> QED  BY <1>3, <1>4, <1>5 DEF Clean, u

(* The operations on Kotlin's own stack. *)
LEMMA StackClean ==
  ASSUME Reported, IInv, Tidy,
         \/ \E v \in Val : Push(v) \/ UncheckedPush(v)
         \/ PushFunction
         \/ \E i \in 1 .. GetTop : PushValue(i) \/ RemoveSlot(i) \/ InsertSlot(i) \/ ReplaceSlot(i)
         \/ \E n \in 0 .. MaxStack : SetTop(n)
         \/ \E status \in {OK, ERRRUN} : SetMetaTable(status)
  PROVE  KotlinRuns /\ UNCHANGED <<ci, native, mode>> /\ Clean(stack, stack', Base)
<1>1. KotlinRuns /\ UNCHANGED <<ci, native, mode>>
  BY DEF Push, UncheckedPush, PushFunction, PushValue, RemoveSlot, InsertSlot, ReplaceSlot,
         SetTop, SetMetaTable, Local
<1>2. /\ Clean(stack, stack, Base)
      /\ stack \in Seq(Slot) /\ Len(stack) \in Nat /\ Base \in Nat /\ Base <= Len(stack)
      /\ GetTop = Len(stack) - Base
      /\ \A i \in 1 .. Len(stack) : stack[i] \in Slot /\ stack[i] # Message
  BY <1>1, KotlinClean
<1>3. \A v \in Val : v \in Slot /\ v # Message
  BY MessageDistinct DEF Slot, Val
<1>4. \A v \in Slot : v # Message /\ stack' = Append(stack, v) => Clean(stack, stack', Base)
  BY <1>2, CleanPushed
<1>5. ASSUME GetTop >= 1, stack' = Front(stack)
      PROVE  Clean(stack, stack', Base)
  <2>1. Len(stack) > Base
    BY <1>2, <1>5
  <2> QED  BY <1>2, <1>5, <2>1, CleanFront
<1>6. ASSUME NEW i \in 1 .. GetTop
      PROVE  /\ Base + i \in 1 .. Len(stack) /\ Base + i > Base /\ Base <= Len(stack) - 1
             /\ stack[Base + i] \in Slot /\ stack[Base + i] # Message
             /\ Last(stack) \in Slot /\ Last(stack) # Message
  <2>1. /\ Base + i \in 1 .. Len(stack) /\ Base + i > Base
        /\ Base <= Len(stack) - 1 /\ Len(stack) \in 1 .. Len(stack)
    BY <1>2
  <2> QED  BY <1>2, <2>1 DEF Last
<1>7. CASE \/ \E v \in Val : Push(v) \/ UncheckedPush(v)
           \/ PushFunction
  <2>1. \E v \in Val : stack' = Append(stack, v)
    BY Reported, <1>7 DEF Push, UncheckedPush, PushFunction, Local, Val, Reported
  <2> QED  BY <1>1, <1>3, <1>4, <2>1
<1>8. ASSUME NEW i \in 1 .. GetTop, PushValue(i)
      PROVE  Clean(stack, stack', Base)
  <2>1. stack' = Append(stack, stack[Base + i])
    BY <1>8 DEF PushValue, Local
  <2> QED  BY <1>4, <1>6, <2>1
<1>9. ASSUME NEW i \in 1 .. GetTop, RemoveSlot(i)
      PROVE  Clean(stack, stack', Base)
  <2> DEFINE k == Base + i
             l == Len(stack)
  <2>1. k \in 1 .. l /\ k > Base /\ Base <= l - 1 /\ l \in Nat
    BY <1>2, <1>6
  <2>2. stack' = RemoveAt(stack, k)
    BY <1>9 DEF RemoveSlot, Local
  <2> HIDE DEF k
  <2>3. /\ stack' \in Seq(Slot) /\ Len(stack') = l - 1
        /\ \A j \in 1 .. l - 1 : stack'[j] = IF j < k THEN stack[j] ELSE stack[j + 1]
    BY <1>2, <2>1, <2>2, RemoveAtOk, RemoveAtElements
  <2> HIDE DEF l
  <2>4. /\ \A j \in 1 .. Base : j \in 1 .. l - 1 /\ j < k
        /\ \A j \in 1 .. Len(stack') : j \in 1 .. l - 1 /\ j \in 1 .. l /\ j + 1 \in 1 .. l
        /\ Base <= Len(stack')
    BY ONLY <1>2, <2>1, <2>3
  <2>5. \A j \in 1 .. l : stack[j] # Message
    BY <1>2 DEF l
  <2>6. (\A j \in 1 .. Base : stack'[j] = stack[j]) /\ \A j \in 1 .. Len(stack') : stack'[j] # Message
    BY <2>3, <2>4, <2>5
  <2> QED  BY <2>3, <2>4, <2>6 DEF Clean
<1>10. ASSUME NEW i \in 1 .. GetTop, InsertSlot(i)
       PROVE  Clean(stack, stack', Base)
  <2> DEFINE k == Base + i
             l == Len(stack)
             front == Front(stack)
             v == Last(stack)
  <2>1. k \in 1 .. l /\ k > Base /\ Base <= l - 1 /\ v \in Slot /\ v # Message /\ l \in Nat
    BY <1>2, <1>6
  <2>2. stack' = InsertAt(front, k, v)
    BY <1>10 DEF InsertSlot, Local
  <2>3. front \in Seq(Slot) /\ Len(front) = l - 1 /\ \A j \in 1 .. l - 1 : front[j] = stack[j]
    <3>1. stack # <<>>
      BY <1>2, <2>1
    <3> QED  BY <1>2, <3>1, FrontOk
  <2> HIDE DEF k, front, v, l
  <2>4. k \in 1 .. Len(front) + 1 /\ Len(front) + 1 = l
    BY <2>1, <2>3
  <2>5. /\ stack' \in Seq(Slot) /\ Len(stack') = l
        /\ \A j \in 1 .. l : stack'[j] = IF j < k THEN front[j] ELSE IF j = k THEN v ELSE front[j - 1]
    <3>1. front \in Seq(Slot) /\ v \in Slot /\ k \in 1 .. Len(front) + 1
      BY <2>1, <2>3, <2>4
    <3>2. InsertAt(front, k, v) \in Seq(Slot) /\ Len(InsertAt(front, k, v)) = Len(front) + 1
      BY ONLY <3>1, InsertAtOk
    <3>3. ASSUME NEW j \in 1 .. Len(front) + 1
          PROVE  InsertAt(front, k, v)[j] = IF j < k THEN front[j] ELSE IF j = k THEN v ELSE front[j - 1]
      BY ONLY <3>1, j \in 1 .. Len(front) + 1, InsertAtElements
    <3> QED  BY <2>2, <2>4, <3>2, <3>3
  <2>6. /\ \A j \in 1 .. Base : j \in 1 .. l /\ j \in 1 .. l - 1 /\ j < k
        /\ \A j \in 1 .. l : (j < k => j \in 1 .. l - 1) /\ (~(j < k) /\ j # k => j - 1 \in 1 .. l - 1)
        /\ \A j \in 1 .. l - 1 : j \in 1 .. l
    BY ONLY <1>2, <2>1
  <2>7. \A j \in 1 .. l : stack[j] # Message
    BY <1>2 DEF l
  <2>8. ASSUME NEW j \in 1 .. Base
        PROVE  stack'[j] = stack[j]
    BY <2>3, <2>5, <2>6
  <2>9. ASSUME NEW j \in 1 .. l
        PROVE  stack'[j] # Message
    <3>1. CASE j < k
      BY <2>3, <2>5, <2>6, <2>7, <3>1
    <3>2. CASE j = k
      BY <2>1, <2>5, <3>2
    <3>3. CASE ~(j < k) /\ j # k
      <4>1. j - 1 \in 1 .. l - 1 /\ j - 1 \in 1 .. l
        BY <2>6, <3>3
      <4> QED  BY <2>3, <2>5, <2>7, <3>3, <4>1
    <3> QED  BY <3>1, <3>2, <3>3
  <2> QED  BY <1>2, <2>5, <2>8, <2>9 DEF Clean, l
<1>11. ASSUME NEW i \in 1 .. GetTop, ReplaceSlot(i)
       PROVE  Clean(stack, stack', Base)
  <2> DEFINE k == Base + i
             l == Len(stack)
             v == Last(stack)
             r == ReplaceAt(stack, k, v)
  <2>1. k \in 1 .. l /\ k > Base /\ Base <= l - 1 /\ v \in Slot /\ v # Message /\ l \in Nat
    BY <1>2, <1>6
  <2>2. stack' = Front(r)
    BY <1>11 DEF ReplaceSlot, Local
  <2> HIDE DEF k, v
  <2>3. /\ r \in Seq(Slot) /\ Len(r) = l
        /\ \A j \in 1 .. l : r[j] = IF j = k THEN v ELSE stack[j]
    <3>1. stack \in Seq(Slot) /\ v \in Slot /\ k \in 1 .. Len(stack)
      BY <1>2, <2>1
    <3> QED  BY ONLY <3>1, ExceptSeq DEF ReplaceAt
  <2> HIDE DEF r, l
  <2>4. (\A j \in 1 .. Base : j \in 1 .. l /\ j # k) /\ Len(r) > Base /\ Base <= Len(r)
    BY ONLY <1>2, <2>1, <2>3
  <2>5. \A j \in 1 .. l : stack[j] # Message
    BY <1>2 DEF l
  <2>6. Clean(stack, r, Base)
    BY <2>1, <2>3, <2>4, <2>5 DEF Clean
  <2> QED  BY <1>2, <2>2, <2>4, <2>6, CleanFront
<1>12. ASSUME NEW n \in 0 .. MaxStack, SetTop(n)
       PROVE  Clean(stack, stack', Base)
  <2> DEFINE m == Base + n
             l == Len(stack)
  <2>1. m \in Nat /\ m # -1 /\ m >= Base /\ m \in Int /\ m >= -1 /\ l \in Nat
    BY <1>2
  <2>2. stack' = Adjust(stack, m)
    BY <1>12 DEF SetTop, Local
  <2> HIDE DEF m
  <2>3. stack' = [i \in 1 .. m |-> IF i <= l THEN stack[i] ELSE Plain]
    BY <2>1, <2>2 DEF Adjust, MULTRET
  <2>4. stack' \in Seq(Slot) /\ Len(stack') = m
    BY <1>2, <2>1, <2>2, AdjustOk
  <2> HIDE DEF l
  <2>5. /\ \A i \in 1 .. Base : i \in 1 .. m /\ i <= l
        /\ \A i \in 1 .. m : i <= l => i \in 1 .. l
    BY <1>2, <2>1 DEF l
  <2>6. \A i \in 1 .. l : stack[i] # Message
    BY <1>2 DEF l
  <2>7. (\A i \in 1 .. Base : stack'[i] = stack[i]) /\ \A i \in 1 .. m : stack'[i] # Message
    BY <2>3, <2>5, <2>6, MessageDistinct
  <2> QED  BY <2>1, <2>4, <2>7 DEF Clean
<1>13. ASSUME NEW status \in {OK, ERRRUN}, SetMetaTable(status)
       PROVE  Clean(stack, stack', Base)
  <2>1. GetTop >= 1 /\ stack' = Front(stack)
    BY <1>13 DEF SetMetaTable, Reported
  <2> QED  BY <1>5, <2>1
<1> QED  BY <1>1, <1>7, <1>8, <1>9, <1>10, <1>11, <1>12, <1>13

(* So does an operation behind a barrier that ends within its native call:   *)
(* its message is popped.                                                    *)
LEMMA CheckedClean ==
  ASSUME Reported, IInv, Told, Tidy, NEW op \in CheckedOps, NEW v \in Val,
         NEW status \in Statuses, CheckedOp(op, v, status)
  PROVE  KotlinRuns /\ UNCHANGED <<ci, native>> /\ Clean(stack, stack', Base)
<1> DEFINE l == Len(stack)
           k == l - op.pops
<1>1. /\ KotlinRuns /\ GetTop >= op.pops /\ UNCHANGED <<ci, native>> /\ pending = FALSE
      /\ \/ status = OK /\ Conclude(SubSeq(stack, 1, k) \o Adjust(<<v>>, op.pushes), OK, OK, OK)
         \/ status = ERRRUN /\ Conclude(Append(stack, Message), ERRRUN, OK, ERRRUN)
  BY DEF CheckedOp, Told, Reported
<1>2. /\ Clean(stack, stack, Base)
      /\ stack \in Seq(Slot) /\ Len(stack) \in Nat /\ Base \in Nat /\ Base <= Len(stack)
      /\ GetTop = Len(stack) - Base
      /\ \A i \in 1 .. Len(stack) : stack[i] \in Slot /\ stack[i] # Message
  BY <1>1, KotlinClean
<1>3. op.pops \in 0 .. 2 /\ op.pushes \in 0 .. 1
  BY DEF CheckedOps
<1>4. k \in Nat /\ k <= l /\ Base <= k /\ l \in Nat
  BY <1>1, <1>2, <1>3
<1>5. CASE status = OK
  <2> DEFINE rest == SubSeq(stack, 1, k)
             results == Adjust(<<v>>, op.pushes)
  <2>1. stack' = rest \o results
    <3>1. Conclude(rest \o results, OK, OK, OK)
      BY <1>1, <1>5 DEF OK, ERRRUN
    <3> HIDE DEF rest, results
    <3> QED  BY <1>1, <3>1, ConcludeIs
  <2>2. results \in Seq(Val)
    <3> DEFINE m == op.pushes
    <3>1. m \in Nat /\ m # -1
      BY <1>3
    <3>2. \A i \in 1 .. m : (IF i <= Len(<<v>>) THEN <<v>>[i] ELSE Plain) \in Val
      <4>1. \A i \in 1 .. m : i <= 1 => i = 1
        BY <3>1
      <4> QED  BY <4>1 DEF Val
    <3>3. results = [i \in 1 .. m |-> IF i <= Len(<<v>>) THEN <<v>>[i] ELSE Plain]
      BY <3>1 DEF Adjust, MULTRET
    <3> QED  BY <3>1, <3>2, <3>3
  <2>3. rest \in Seq(Slot) /\ Len(rest) = k /\ \A i \in 1 .. k : rest[i] = stack[i]
    <3>1. k \in Int /\ k <= Len(stack)
      BY <1>4
    <3> HIDE DEF k
    <3>2. /\ rest \in Seq(Slot) /\ Len(rest) = IF 1 <= k THEN k - 1 + 1 ELSE 0
          /\ \A i \in 1 .. k - 1 + 1 : rest[i] = stack[1 + i - 1]
      BY <1>2, <3>1, SubSeqOk
    <3> HIDE DEF rest
    <3>3. k \in Nat
      BY <1>4
    <3> QED  BY <3>2, <3>3
  <2> HIDE DEF rest, results
  <2>4. Clean(stack, rest, Base)
    <3> HIDE DEF k
    <3>1. (\A i \in 1 .. Base : i \in 1 .. k) /\ Base <= Len(rest)
          /\ \A i \in 1 .. k : i \in 1 .. l
      BY ONLY <1>2, <1>4, <2>3
    <3> HIDE DEF l
    <3>2. \A i \in 1 .. l : stack[i] # Message
      BY <1>2 DEF l
    <3> QED  BY <2>3, <3>1, <3>2 DEF Clean
  <2> QED  BY <1>1, <1>2, <2>1, <2>2, <2>4, CleanJoined
<1>6. CASE status # OK
  <2> DEFINE s == Append(stack, Message)
  <2>1. stack' = Front(s)
    <3>1. Conclude(s, ERRRUN, OK, ERRRUN)
      BY <1>1, <1>6
    <3>2. pending = FALSE /\ ERRRUN # OK
      BY <1>1 DEF OK, ERRRUN
    <3> HIDE DEF s
    <3> QED  BY ONLY <3>1, <3>2, ConcludeIs
  <2>2. s \in Seq(Slot) /\ Len(s) = l + 1 /\ \A i \in 1 .. l : s[i] = stack[i]
    BY <1>2, AppendProperties DEF Slot
  <2>3. s # <<>>
    BY <1>4, <2>2
  <2> HIDE DEF s
  <2>4. Front(s) \in Seq(Slot) /\ Len(Front(s)) = Len(s) - 1 /\ \A i \in 1 .. Len(s) - 1 : Front(s)[i] = s[i]
    BY ONLY <2>2, <2>3, FrontOk
  <2>5. stack' \in Seq(Slot) /\ Len(stack') = l /\ \A i \in 1 .. l : stack'[i] = stack[i]
    BY <1>4, <2>1, <2>2, <2>4
  <2> HIDE DEF l
  <2>6. Base <= l /\ \A i \in 1 .. Base : i \in 1 .. l
    BY <1>2 DEF l
  <2>7. \A i \in 1 .. l : stack[i] # Message
    BY <1>2 DEF l
  <2>8. Base <= Len(stack') /\ (\A i \in 1 .. Base : stack'[i] = stack[i])
        /\ \A i \in 1 .. Len(stack') : stack'[i] # Message
    BY ONLY <2>5, <2>6, <2>7
  <2> QED  BY <1>1, <2>5, <2>8 DEF Clean
<1> QED  BY <1>1, <1>5, <1>6

(* What Kotlin does with its own stack, others do not see. *)
LEMMA CleanSeen ==
  ASSUME Reported, IInv, Tidy, KotlinRuns, IInv', UNCHANGED <<ci, native>>, Clean(stack, stack', Base)
  PROVE  Views!Rearrange
BY RearrangeStep DEF Clean

-----------------------------------------------------------------------------
(* A request takes its operands, or leaves them for later. *)
LEMMA MetamethodSeen ==
  ASSUME Reported, IInv, Tidy, NEW op \in CheckedOps, OpCallsMetamethod(op), IInv'
  PROVE  Views!Next
<1> DEFINE f == NativeFrame("barrier", Len(stack) + 1, op.pops, op.pushes, 0)
           most == Append(stack, Fn)
           args == [i \in 1 .. op.operands |-> Plain]
           l == Len(stack)
<1>1. /\ KotlinRuns /\ GetTop >= op.pops /\ ci' = ci
      /\ stack' = most \o args /\ native' = Append(native, f)
  BY DEF OpCallsMetamethod
<1>2. stack \in Seq(Slot) /\ l \in Nat /\ GetTop \in Int
  BY <1>1, KotlinFacts
<1>3. op.pops \in 0 .. 2 /\ op.operands \in {2, 3}
  BY DEF CheckedOps
<1>4. f \in Frame
  <2>1. native' \in Seq(Frame) /\ native \in Seq(Frame)
    BY DEF IInv, TypeOK
  <2>2. Len(native) \in Nat /\ Len(native') = Len(native) + 1 /\ native'[Len(native) + 1] = f
    <3> HIDE DEF f
    <3> QED  BY <1>1, <2>1, AppendProperties
  <2>3. Len(native) + 1 \in 1 .. Len(native')
    BY <2>2
  <2> HIDE DEF f
  <2> QED  BY <2>1, <2>2, <2>3, ElementOfSeq
<1>5. f.kind = "barrier" /\ f.func = l + 1 /\ f.pops = op.pops /\ ~IsCallback(f)
  BY DEF NativeFrame, NativeFrameFor, IsCallback
<1>6. most \in Seq(Slot) /\ Len(most) = l + 1 /\ \A i \in 1 .. l : most[i] = stack[i]
  BY <1>2, AppendProperties DEF Slot, Val
<1>7. args \in Seq(Slot) /\ Len(args) \in Nat
  BY <1>3 DEF Slot, Val
<1> HIDE DEF f, most, args, l
<1>8. Len(stack') >= l /\ \A i \in 1 .. l : stack'[i] = stack[i]
  <2>1. /\ Len(most \o args) = Len(most) + Len(args)
        /\ \A i \in 1 .. Len(most) + Len(args) :
             (most \o args)[i] = IF i <= Len(most) THEN most[i] ELSE args[i - Len(most)]
    BY <1>6, <1>7, ConcatProperties
  <2>2. Len(most) + Len(args) >= l /\ \A i \in 1 .. l : i \in 1 .. Len(most) + Len(args) /\ i <= Len(most)
    BY <1>2, <1>6, <1>7
  <2> QED  BY <1>1, <1>6, <2>1, <2>2
<1>9. /\ 0 \in Nat /\ 0 + f.pops <= GetTop
      /\ f.func = IF f.kind = "call" THEN Len(stack) - 0 + 2 ELSE Len(stack) - 0 + 1
      /\ Len(stack') >= Len(stack) - 0 /\ \A i \in 1 .. Len(stack) - 0 : stack'[i] = stack[i]
  <2>1. l - 0 = l /\ l = Len(stack) /\ 0 + op.pops <= GetTop
    <3>1. GetTop >= op.pops /\ 0 + op.pops = op.pops
      BY <1>1, <1>3
    <3> QED  BY <1>2, <1>3, <3>1 DEF l
  <2> QED  BY <1>5, <1>8, <2>1
<1> QED  BY ONLY Reported, IInv, IInv', Tidy, <1>1, <1>4, <1>5, <1>9, RequestStep

(* nativeCall is a request that consumes the function and its arguments. *)
LEMMA CallSeen ==
  ASSUME Reported, IInv, Tidy, NEW nargs \in 0 .. GetTop - 1, NEW nresults \in ResultCounts,
         NativeCall(nargs, nresults), IInv'
  PROVE  Views!Next
<1> DEFINE errfunc == GetTop + 1 - nargs - 1
           handler == Base + errfunc
           f == NativeFrame("call", handler + 1, 0, nresults, errfunc)
           l == Len(stack)
           p == nargs + 1
<1>1. /\ KotlinRuns /\ GetTop >= nargs + 1 /\ ci' = ci
      /\ stack' = InsertAt(stack, handler, Handler) /\ native' = Append(native, f)
  BY DEF NativeCall, NativeCallTo
<1>2. /\ stack \in Seq(Slot) /\ l \in Nat /\ Base \in Nat /\ GetTop \in Int /\ l = Base + GetTop
  BY <1>1, KotlinFacts
<1>3. /\ handler \in 1 .. l + 1 /\ handler + 1 = l - p + 2 /\ p \in Nat /\ p + 0 <= GetTop
      /\ l - p <= l + 1 /\ \A i \in 1 .. l - p : i < handler /\ i \in 1 .. l + 1
  BY <1>1, <1>2
<1>4. f \in Frame
  <2>1. native' \in Seq(Frame) /\ native \in Seq(Frame)
    BY DEF IInv, TypeOK
  <2>2. Len(native) \in Nat /\ Len(native') = Len(native) + 1 /\ native'[Len(native) + 1] = f
    <3> HIDE DEF f
    <3> QED  BY <1>1, <2>1, AppendProperties
  <2>3. Len(native) + 1 \in 1 .. Len(native')
    BY <2>2
  <2> HIDE DEF f
  <2> QED  BY <2>1, <2>2, <2>3, ElementOfSeq
<1>5. f.kind = "call" /\ f.func = handler + 1 /\ f.pops = 0 /\ ~IsCallback(f)
  BY DEF NativeFrame, NativeFrameFor, IsCallback
<1> HIDE DEF f, handler, l, p
<1>6. Len(stack') = l + 1 /\ \A i \in 1 .. l - p : stack'[i] = stack[i]
  <2>1. Handler \in Slot
    BY DEF Slot
  <2>2. stack \in Seq(Slot) /\ handler \in 1 .. Len(stack) + 1 /\ l = Len(stack)
    BY <1>2, <1>3 DEF l
  <2>3. Len(InsertAt(stack, handler, Handler)) = Len(stack) + 1
    BY ONLY <2>1, <2>2, InsertAtOk
  <2>4. ASSUME NEW j \in 1 .. Len(stack) + 1
        PROVE  InsertAt(stack, handler, Handler)[j] =
                 IF j < handler THEN stack[j] ELSE IF j = handler THEN Handler ELSE stack[j - 1]
    BY ONLY <2>1, <2>2, j \in 1 .. Len(stack) + 1, InsertAtElements
  <2> QED  BY <1>1, <1>3, <2>2, <2>3, <2>4
<1>7. /\ p \in Nat /\ p + f.pops <= GetTop
      /\ f.func = IF f.kind = "call" THEN Len(stack) - p + 2 ELSE Len(stack) - p + 1
      /\ Len(stack') >= Len(stack) - p /\ \A i \in 1 .. Len(stack) - p : stack'[i] = stack[i]
  <2>1. l = Len(stack)
    BY DEF l
  <2>2. Len(stack') >= l - p
    <3> DEFINE m == Len(stack')
    <3>1. m = l + 1
      BY <1>6
    <3> HIDE DEF m
    <3>2. m >= l - p
      BY ONLY <1>2, <1>3, <3>1
    <3> QED  BY <3>2 DEF m
  <2> QED  BY <1>3, <1>5, <1>6, <2>1, <2>2
<1> QED  BY ONLY Reported, IInv, IInv', Tidy, <1>1, <1>4, <1>5, <1>7, RequestStep

-----------------------------------------------------------------------------
(* Every step leaves the stack tidy: Kotlin's own steps, ...                *)
LEMMA TidyIf ==
  ASSUME Tidy, mode = "run", ci'[1] = ci[1], NothingDeferred',
         \A i \in 1 .. Len(stack') : stack'[i] # Message,
         AtKotlin' \/ Top'.phase # "done"
  PROVE  Tidy'
BY DEF Tidy, NoMessage, AsManyAsAsked, VmRuns

(* No call defers its operands when no new guard does. *)
LEMMA DeferredKept ==
  ASSUME NothingDeferred,
         \A i \in 1 .. Len(native') : native'[i].kind = "call" =>
           \/ native'[i].pops = 0
           \/ /\ i \in 1 .. Len(native)
              /\ native'[i].kind = native[i].kind /\ native'[i].pops = native[i].pops
  PROVE  NothingDeferred'
BY DEF NothingDeferred

(* A step within the stack of the running activation keeps Tidy. *)
LEMMA LocalTidy ==
  ASSUME Tidy, KotlinRuns, UNCHANGED <<ci, native>>, Clean(stack, stack', Base)
  PROVE  Tidy'
<1>1. mode = "run" /\ AtKotlin' /\ NothingDeferred'
  BY DEF KotlinRuns, AtKotlin, Top, Tidy, NothingDeferred
<1> QED  BY <1>1, TidyIf DEF Clean

(* So does an operation that calls a metamethod, *)
LEMMA MetamethodTidy ==
  ASSUME Reported, IInv, Tidy, NEW op \in CheckedOps, OpCallsMetamethod(op)
  PROVE  Tidy'
<1> DEFINE f == NativeFrame("barrier", Len(stack) + 1, op.pops, op.pushes, 0)
           most == Append(stack, Fn)
           args == [i \in 1 .. op.operands |-> Plain]
<1>1. /\ KotlinRuns /\ ci' = ci /\ mode = "run"
      /\ stack' = most \o args /\ native' = Append(native, f)
  BY DEF OpCallsMetamethod, KotlinRuns
<1>2. native \in Seq(Frame) /\ Len(native) \in Nat /\ Base \in Nat
  BY <1>1, KotlinFacts
<1>3. f.kind = "barrier" /\ f.phase = "enter"
  BY DEF NativeFrame, NativeFrameFor
<1>4. args \in Seq(Val)
  <2>1. op.operands \in {2, 3} /\ Plain \in Val
    BY DEF CheckedOps, Val
  <2> QED  BY <2>1
<1> HIDE DEF f, most, args
<1>5. \A i \in 1 .. Len(stack') : stack'[i] # Message
  <2>1. Fn \in Slot /\ Fn # Message
    BY MessageDistinct DEF Slot, Val
  <2>2. Clean(stack, most, Base)
    BY <1>1, <1>2, <2>1, KotlinClean, CleanPushed DEF most
  <2>3. Clean(stack, most \o args, Base)
    BY <1>2, <1>4, <2>2, CleanJoined
  <2> QED  BY <1>1, <2>3 DEF Clean
<1>6. /\ Len(native') = Len(native) + 1 /\ native'[Len(native) + 1] = f
      /\ \A i \in 1 .. Len(native) : native'[i] = native[i]
  BY <1>1, <1>2, AppendProperties
<1>7. \A i \in 1 .. Len(native') : i \in 1 .. Len(native) \/ i = Len(native) + 1
  BY <1>2, <1>6
<1>8. NothingDeferred'
  BY <1>1, <1>3, <1>6, <1>7, DeferredKept DEF Tidy
<1>9. Top'.phase # "done"
  BY <1>3, <1>6 DEF Top
<1> QED  BY <1>1, <1>5, <1>8, <1>9, TidyIf

(* a call, *)
LEMMA CallTidy ==
  ASSUME Reported, IInv, Tidy, NEW nargs \in 0 .. GetTop - 1, NEW nresults \in ResultCounts,
         NativeCall(nargs, nresults)
  PROVE  Tidy'
<1> DEFINE errfunc == GetTop + 1 - nargs - 1
           handler == Base + errfunc
           f == NativeFrame("call", handler + 1, 0, nresults, errfunc)
           l == Len(stack)
<1>1. /\ KotlinRuns /\ ci' = ci /\ mode = "run" /\ GetTop >= nargs + 1
      /\ stack' = InsertAt(stack, handler, Handler) /\ native' = Append(native, f)
  BY DEF NativeCall, NativeCallTo, KotlinRuns
<1>2. /\ native \in Seq(Frame) /\ Len(native) \in Nat
      /\ stack \in Seq(Slot) /\ l \in Nat /\ Base \in Nat /\ GetTop \in Int /\ l = Base + GetTop
  BY <1>1, KotlinFacts
<1>3. handler \in 1 .. l + 1 /\ Handler \in Slot /\ Handler # Message
  BY <1>1, <1>2, MessageDistinct DEF Slot
<1>4. f.kind = "call" /\ f.phase = "enter" /\ f.pops = 0
  BY DEF NativeFrame, NativeFrameFor
<1> HIDE DEF f, handler
<1>5. \A i \in 1 .. Len(stack') : stack'[i] # Message
  <2>1. Len(stack') = l + 1
    <3>1. stack \in Seq(Slot) /\ handler \in 1 .. Len(stack) + 1 /\ Handler \in Slot
      BY <1>2, <1>3
    <3>2. Len(InsertAt(stack, handler, Handler)) = Len(stack) + 1
      BY ONLY <3>1, InsertAtOk
    <3> QED  BY <1>1, <3>2
  <2>2. ASSUME NEW j \in 1 .. l + 1
        PROVE  stack'[j] = IF j < handler THEN stack[j] ELSE IF j = handler THEN Handler ELSE stack[j - 1]
    <3>1. stack \in Seq(Slot) /\ handler \in 1 .. Len(stack) + 1 /\ j \in 1 .. Len(stack) + 1
      BY <1>2, <1>3
    <3>2. InsertAt(stack, handler, Handler)[j] =
            IF j < handler THEN stack[j] ELSE IF j = handler THEN Handler ELSE stack[j - 1]
      BY ONLY <1>3, <3>1, InsertAtElements
    <3> QED  BY <1>1, <3>2
  <2>3. \A j \in 1 .. l : stack[j] # Message
    BY <1>1, KotlinClean
  <2> HIDE DEF l
  <2>4. \A j \in 1 .. l + 1 : (j < handler => j \in 1 .. l) /\ (~(j < handler) /\ j # handler => j - 1 \in 1 .. l)
    BY ONLY <1>2, <1>3
  <2> QED  BY <1>3, <2>1, <2>2, <2>3, <2>4
<1>6. /\ Len(native') = Len(native) + 1 /\ native'[Len(native) + 1] = f
      /\ \A i \in 1 .. Len(native) : native'[i] = native[i]
  BY <1>1, <1>2, AppendProperties
<1>7. \A i \in 1 .. Len(native') : i \in 1 .. Len(native) \/ i = Len(native) + 1
  BY <1>2, <1>6
<1>8. NothingDeferred'
  BY <1>1, <1>4, <1>6, <1>7, DeferredKept DEF Tidy
<1>9. Top'.phase # "done"
  BY <1>4, <1>6 DEF Top
<1> QED  BY <1>1, <1>5, <1>8, <1>9, TidyIf

(* ... the return of a callback, ... *)
LEMMA CallbackReturnsTidy ==
  ASSUME Reported, IInv, Tidy, NEW n \in 0 .. GetTop, CallbackReturns(n)
  PROVE  Tidy'
<1> DEFINE m == Len(native) - 1
           f == native'[m]
<1>1. m = Len(native) - 1
  OBVIOUS
<1> HIDE DEF m
<1>2. /\ KotlinRuns /\ m \in 1 .. Len(native) /\ m \in Nat /\ m >= 1
      /\ Front(native) \in Seq(Frame) /\ Len(Front(native)) = m /\ Front(native) # <<>>
      /\ \A i \in 1 .. m : Front(native)[i] = native[i]
      /\ Caller = native[m] /\ Caller.ci >= 1 /\ Caller.ci \in Nat
      /\ Caller.func \in Nat /\ Caller.func >= 1 /\ Caller.func <= Len(stack)
      /\ \A i \in 1 .. Caller.ci : ci'[i] = ci[i]
  <2>1. m \in Nat /\ m \in 1 .. Len(native) /\ Caller.ci >= 1 /\ Caller.ci \in Nat
    BY <1>1, CallbackReturnsIs
  <2>2. m >= 1
    BY <2>1
  <2> QED  BY <1>1, <2>1, <2>2, CallbackReturnsIs
<1>3. stack \in Seq(Slot) /\ Len(stack) \in Nat /\ mode = "run"
      /\ \A i \in 1 .. Len(stack) : stack[i] # Message
  BY <1>2, KotlinClean DEF KotlinRuns
<1>4. m \in 1 .. m /\ (\A i \in 1 .. m - 1 : i \in 1 .. m)
      /\ \A i \in 1 .. m : i \in 1 .. m - 1 \/ i = m
  BY ONLY <1>2
<1>5. 1 \in 1 .. Caller.ci
  BY ONLY <1>2
<1>6. ci'[1] = ci[1] /\ NothingDeferred
  BY <1>2, <1>3, <1>5 DEF Tidy
<1>7. \A i \in 1 .. m : i \in 1 .. Len(native)
  BY <1>2, LenProperties DEF IInv, TypeOK
<1>8. CASE \E vals \in Seq(Slot) :
             /\ Finish(Front(native), vals)
             /\ \A j \in 1 .. Len(vals) : \E i \in 1 .. Len(stack) : vals[j] = stack[i]
  <2>1. PICK vals \in Seq(Slot) :
           /\ Finish(Front(native), vals)
           /\ \A j \in 1 .. Len(vals) : \E i \in 1 .. Len(stack) : vals[j] = stack[i]
    BY <1>8
  <2>2. Caller = Front(native)[Len(Front(native))] /\ Caller.func <= Len(stack) + 1
    <3>1. Caller.func <= Len(stack) + 1
      BY ONLY <1>2, <1>3
    <3> QED  BY <1>2, <1>4, <3>1
  <2>3. /\ \A i \in 1 .. Caller.func - 1 : stack'[i] = stack[i]
        /\ Caller.nresults # MULTRET => Len(stack') = Caller.func - 1 + Caller.nresults
        /\ \A i \in Caller.func .. Len(stack') :
             stack'[i] = Plain \/ \E j \in 1 .. Len(vals) : stack'[i] = vals[j]
        /\ native' = Completed(Front(native), OK)
        /\ stack' \in Seq(Slot)
    <3>1. stack \in Seq(Slot) /\ Finish(Front(native), vals) /\ vals \in Seq(Slot)
      BY <1>3, <2>1
    <3>2. Delivered(Front(native), vals, Caller)
      BY ONLY <1>2, <2>2, <3>1, FinishIs
    <3> QED  BY ONLY <3>2 DEF Delivered
  <2>4. PICK status \in Statuses : native' = Completed(Front(native), status)
    BY <2>3 DEF Statuses
  <2>5. m = Len(Front(native)) /\ Caller = Front(native)[m]
    BY <1>2, <2>2
  <2>6. /\ Len(native') = m
        /\ \A i \in 1 .. m - 1 : native'[i] = Front(native)[i]
        /\ f.kind = Caller.kind /\ f.func = Caller.func
        /\ f.pops = Caller.pops /\ f.nresults = Caller.nresults
    <3>1. Front(native) \in Seq(Frame) /\ Front(native) # <<>>
      BY <1>2
    <3>2. Ended(native', f, Front(native), Caller, m, status)
      BY ONLY <2>4, <2>5, <3>1, CompletedIs
    <3> QED  BY ONLY <3>2 DEF Ended
  <2>7. \A i \in 1 .. Len(stack') : stack'[i] # Message
    <3> DEFINE l == Len(stack')
               fn == Caller.func
    <3>1. l \in Nat /\ fn \in Nat /\ fn >= 1 /\ fn <= Len(stack)
      BY <1>2, <2>3, LenProperties
    <3> HIDE DEF l, fn
    <3>2. \A i \in 1 .. l : (i \in 1 .. fn - 1 /\ i \in 1 .. Len(stack)) \/ i \in fn .. l
      BY ONLY <1>3, <3>1
    <3>3. \A i \in 1 .. fn - 1 : stack'[i] = stack[i]
      BY <2>3 DEF fn
    <3>4. \A i \in fn .. l : stack'[i] # Message
      BY <1>3, <2>1, <2>3, MessageDistinct DEF l, fn
    <3>5. \A i \in 1 .. l : stack'[i] # Message
      BY ONLY <1>3, <3>2, <3>3, <3>4
    <3> QED  BY <3>5 DEF l
  <2>8. NothingDeferred'
    <3>1. \A i \in 1 .. m : native'[i].kind = native[i].kind /\ native'[i].pops = native[i].pops
      BY <1>2, <1>4, <2>6
    <3> QED  BY <1>6, <1>7, <2>6, <3>1, DeferredKept
  <2>9. Top' = f
    BY <2>6 DEF Top
  <2>10. AsManyAsAsked' /\ NoMessage' /\ ci'[1] = 0
    BY <1>3, <1>6, <2>3, <2>6, <2>7, <2>9 DEF AsManyAsAsked, NoMessage, Tidy
  <2> QED  BY <2>8, <2>10 DEF Tidy
<1>9. CASE /\ stack' = Below(Base) /\ native' = Front(native) /\ Caller.phase # "done"
           /\ Base \in Nat /\ Base >= 1 /\ Base <= Len(stack) + 1
  <2>1. Len(stack') = Base - 1 /\ \A i \in 1 .. Base - 1 : stack'[i] = stack[i]
    BY <1>3, <1>9, BelowIs
  <2>2. \A i \in 1 .. Base - 1 : i \in 1 .. Len(stack)
    BY ONLY <1>3, <1>9
  <2>3. \A i \in 1 .. Len(stack') : stack'[i] # Message
    BY <1>3, <2>1, <2>2
  <2>4. NothingDeferred'
    BY <1>2, <1>6, <1>7, <1>9, DeferredKept
  <2>5. Top' = Caller
    BY <1>2, <1>4, <1>9 DEF Top
  <2> QED  BY <1>3, <1>6, <1>9, <2>3, <2>4, <2>5, TidyIf
<1> QED  BY <1>1, <1>8, <1>9, CallbackReturnsIs

(* ... the steps of the VM that enter or leave a function, ... *)
LEMMA VmClean ==
  ASSUME Reported, IInv, Tidy, NEW phase, VmRuns(phase), phase # "done" \/ Top.status = OK
  PROVE  /\ \A i \in 1 .. Len(stack) : stack[i] # Message
         /\ mode = "run" /\ NothingDeferred /\ ci[1] = 0
         /\ native # <<>> /\ native \in Seq(Frame) /\ Top = native[Len(native)] /\ Top \in Frame
         /\ Len(native) \in Nat /\ Len(native) \in 1 .. Len(native) /\ ~IsCallback(Top)
         /\ ci \in Seq(Nat) /\ Len(ci) \in Nat /\ 1 \in 1 .. Len(ci) /\ 1 \in 1 .. Top.ci
         /\ stack \in Seq(Slot) /\ Len(stack) \in Nat
<1>1. Top.phase = phase /\ mode = "run"
  BY DEF VmRuns
<1>2. \A i \in 1 .. Len(stack) : stack[i] # Message
  BY <1>1 DEF Tidy, NoMessage, VmRuns
<1>3. Top.ci \in 1 .. Len(ci) /\ Len(ci) \in Nat
  BY TopFacts
<1>4. 1 \in 1 .. Len(ci) /\ 1 \in 1 .. Top.ci
  BY ONLY <1>3
<1> QED  BY <1>1, <1>2, <1>3, <1>4, VmFacts DEF Tidy, IInv, TypeOK

(* a guard that enters a Lua function, *)
LEMMA PrecallLuaTidy ==
  ASSUME Reported, IInv, Tidy, PrecallLua
  PROVE  Tidy'
<1> DEFINE n == Len(native)
           f == [Top EXCEPT !.phase = "body"]
<1>1. VmRuns("enter") /\ ci' = Append(ci, Top.func) /\ native' = ReplaceAt(native, n, f)
      /\ stack' = stack
  BY DEF PrecallLua, InPhase
<1>2. /\ \A i \in 1 .. Len(stack) : stack[i] # Message
      /\ mode = "run" /\ NothingDeferred
      /\ native \in Seq(Frame) /\ Top = native[n] /\ Top \in Frame
      /\ n \in Nat /\ n \in 1 .. n
      /\ ci \in Seq(Nat) /\ 1 \in 1 .. Len(ci)
  BY <1>1, VmClean
<1>3. f \in Frame /\ f.kind = Top.kind /\ f.pops = Top.pops /\ f.phase = "body"
  BY <1>2 DEF Frame
<1> HIDE DEF f
<1>4. Len(native') = n /\ \A i \in 1 .. n : native'[i] = IF i = n THEN f ELSE native[i]
  <2>0. n = Len(native)
    OBVIOUS
  <2>1. n \in 1 .. Len(native) /\ native \in Seq(Frame) /\ f \in Frame
    BY <1>2, <1>3
  <2> HIDE DEF n
  <2>2. /\ Len(ReplaceAt(native, n, f)) = Len(native)
        /\ \A i \in 1 .. Len(native) : ReplaceAt(native, n, f)[i] = IF i = n THEN f ELSE native[i]
    <3>1. Exchanged(ReplaceAt(native, n, f), Frame, native, n, f)
      BY ONLY <2>1, Exchange
    <3> QED  BY ONLY <3>1 DEF Exchanged
  <2> QED  BY <1>1, <2>0, <2>2
<1>5. NothingDeferred'
  BY <1>2, <1>3, <1>4, DeferredKept
<1>6. Top'.phase # "done"
  BY <1>2, <1>3, <1>4 DEF Top
<1>7. ci'[1] = ci[1]
  <2>1. Top.func \in Nat
    BY <1>1, TopFacts
  <2> QED  BY <1>1, <1>2, <2>1, AppendProperties
<1> QED  BY <1>1, <1>2, <1>5, <1>6, <1>7, TidyIf

(* a guard that enters a callback, *)
LEMMA PrecallKotlinTidy ==
  ASSUME Reported, IInv, Tidy, PrecallKotlin
  PROVE  Tidy'
<1> DEFINE n == Len(native)
           f == [Top EXCEPT !.phase = "direct"]
           mid == ReplaceAt(native, n, f)
           g == CallbackFrame
<1>1. VmRuns("enter") /\ ci' = Append(ci, Top.func) /\ native' = Append(mid, g)
      /\ stack' = stack
  BY DEF PrecallKotlin, InPhase
<1>2. /\ \A i \in 1 .. Len(stack) : stack[i] # Message
      /\ mode = "run" /\ NothingDeferred
      /\ native \in Seq(Frame) /\ Top = native[n] /\ Top \in Frame
      /\ n \in Nat /\ n \in 1 .. n
      /\ ci \in Seq(Nat) /\ Len(ci) \in Nat /\ 1 \in 1 .. Len(ci)
  BY <1>1, VmClean
<1>3. f \in Frame /\ f.kind = Top.kind /\ f.pops = Top.pops
  BY <1>2 DEF Frame
<1>4. g \in Frame /\ g.kind = "callback"
  <2>1. errorjmp \in Nat /\ nCcalls \in Nat
    BY DEF IInv, TypeOK
  <2> QED  BY <1>2, <2>1 DEF CallbackFrame, IsCallback, Frame, ResultCounts, Statuses
<1> HIDE DEF f, g
<1>5. mid \in Seq(Frame) /\ Len(mid) = n /\ \A i \in 1 .. n : mid[i] = IF i = n THEN f ELSE native[i]
  <2>0. n = Len(native)
    OBVIOUS
  <2>1. n \in 1 .. Len(native) /\ native \in Seq(Frame) /\ f \in Frame
    BY <1>2, <1>3
  <2> HIDE DEF n, mid
  <2>2. /\ ReplaceAt(native, n, f) \in Seq(Frame) /\ Len(ReplaceAt(native, n, f)) = Len(native)
        /\ \A i \in 1 .. Len(native) : ReplaceAt(native, n, f)[i] = IF i = n THEN f ELSE native[i]
    <3>1. Exchanged(ReplaceAt(native, n, f), Frame, native, n, f)
      BY ONLY <2>1, Exchange
    <3> QED  BY ONLY <3>1 DEF Exchanged
  <2> QED  BY <2>0, <2>2 DEF mid
<1> HIDE DEF mid
<1>6. /\ Len(native') = n + 1 /\ native'[n + 1] = g /\ \A i \in 1 .. n : native'[i] = mid[i]
  BY ONLY <1>1, <1>4, <1>5, AppendProperties
<1>7. NothingDeferred'
  <2>1. \A i \in 1 .. Len(native') : i \in 1 .. n \/ i = n + 1
    BY <1>2, <1>6
  <2> QED  BY <1>2, <1>3, <1>4, <1>5, <1>6, <2>1, DeferredKept
<1>8. AtKotlin'
  BY <1>4, <1>6 DEF AtKotlin, Top
<1>9. ci'[1] = ci[1]
  <2>1. Top.func \in Nat
    BY <1>1, TopFacts
  <2> QED  BY <1>1, <1>2, <2>1, AppendProperties
<1> QED  BY <1>1, <1>2, <1>7, <1>8, <1>9, TidyIf

(* Lua code that calls a callback, *)
LEMMA LuaCallsKotlinTidy ==
  ASSUME Reported, IInv, Tidy, NEW args \in Seq(Val), LuaCallsKotlin(args)
  PROVE  Tidy'
<1> DEFINE n == Len(native)
           g == CallbackFrame
           s == Append(stack, Fn)
           b == Len(stack) + 1
<1>1. /\ VmRuns("body") /\ ci' = Append(ci, b) /\ native' = Append(native, g)
      /\ stack' = s \o args
  BY DEF LuaCallsKotlin
<1>2. /\ \A i \in 1 .. Len(stack) : stack[i] # Message
      /\ mode = "run" /\ NothingDeferred
      /\ native \in Seq(Frame) /\ n \in Nat
      /\ ci \in Seq(Nat) /\ Len(ci) \in Nat /\ 1 \in 1 .. Len(ci)
      /\ stack \in Seq(Slot) /\ Len(stack) \in Nat
  BY <1>1, VmClean
<1>3. g \in Frame /\ g.kind = "callback"
  <2>1. errorjmp \in Nat /\ nCcalls \in Nat
    BY DEF IInv, TypeOK
  <2> QED  BY <1>2, <2>1 DEF CallbackFrame, IsCallback, Frame, ResultCounts, Statuses
<1> HIDE DEF g, s
<1>4. /\ Len(native') = n + 1 /\ native'[n + 1] = g /\ \A i \in 1 .. n : native'[i] = native[i]
  BY ONLY <1>1, <1>2, <1>3, AppendProperties
<1>5. NothingDeferred'
  <2>1. \A i \in 1 .. Len(native') : i \in 1 .. n \/ i = n + 1
    BY <1>2, <1>4
  <2> QED  BY <1>2, <1>3, <1>4, <2>1, DeferredKept
<1>6. AtKotlin'
  BY <1>3, <1>4 DEF AtKotlin, Top
<1>7. ci'[1] = ci[1]
  <2>1. b \in Nat
    BY <1>2
  <2> HIDE DEF b
  <2> QED  BY <1>1, <1>2, <2>1, AppendProperties
<1>8. \A i \in 1 .. Len(stack') : stack'[i] # Message
  <2>1. Fn \in Slot /\ Fn # Message /\ 0 \in Nat
    BY MessageDistinct DEF Slot, Val
  <2>2. Clean(stack, stack, 0)
    BY <1>2 DEF Clean
  <2>3. Clean(stack, s, 0)
    BY <2>1, <2>2, CleanPushed DEF s
  <2>4. Clean(stack, s \o args, 0)
    BY <2>1, <2>3, CleanJoined
  <2> QED  BY <1>1, <2>4 DEF Clean
<1> QED  BY <1>2, <1>5, <1>6, <1>7, <1>8, TidyIf

(* Lua code that returns to its guard, *)
LEMMA LuaReturnsTidy ==
  ASSUME Reported, IInv, Tidy, NEW vals \in Seq(Val), LuaReturns(vals)
  PROVE  Tidy'
<1> DEFINE n == Len(native)
           f == native'[n]
<1>1. VmRuns("body") /\ ci' = Front(ci) /\ Finish(native, vals)
  BY DEF LuaReturns, LuaReturnsTo
<1>2. /\ \A i \in 1 .. Len(stack) : stack[i] # Message
      /\ mode = "run" /\ NothingDeferred /\ ci[1] = 0
      /\ native # <<>> /\ native \in Seq(Frame) /\ Top = native[n]
      /\ n \in Nat /\ n \in 1 .. n
      /\ ci \in Seq(Nat) /\ Len(ci) \in Nat /\ 1 \in 1 .. Top.ci
      /\ stack \in Seq(Slot) /\ Len(stack) \in Nat
  BY <1>1, VmClean
<1>3. /\ Top.ci \in 1 .. Len(ci) /\ Top.func \in Nat /\ Top.func >= 1
      /\ Top.func <= Len(stack) + 1
  <2>1. /\ Top.ci \in 1 .. Len(ci) /\ ci[Top.ci] \in Nat /\ Top.func \in Nat
        /\ Top.pops \in 0 .. 2 /\ Top.func > ci[Top.ci] + Top.pops /\ Top.func <= Len(stack) + 1
    BY <1>1, TopFacts
  <2> QED  BY ONLY <2>1
<1>4. ci'[1] = 0
  <2>1. Len(ci) = Top.ci + 1
    BY Reported, <1>1, VmFacts DEF AtGuard, Within, Through, Reported
  <2>2. \A i \in 1 .. Len(ci) - 1 : Front(ci)[i] = ci[i]
    <3>1. ci # <<>>
      BY <1>2, <1>3, <2>1
    <3> QED  BY ONLY <1>2, <3>1, FrontOk
  <2>3. 1 \in 1 .. Len(ci) - 1
    BY ONLY <1>2, <1>3, <2>1
  <2> QED  BY <1>1, <1>2, <2>2, <2>3
<1>5. vals \in Seq(Slot) /\ \A j \in 1 .. Len(vals) : vals[j] # Message
  <2>1. \A j \in 1 .. Len(vals) : vals[j] \in Val
    BY ElementOfSeq
  <2> QED  BY <2>1, MessageDistinct DEF Val, Slot
<1>6. /\ stack' \in Seq(Slot)
      /\ \A i \in 1 .. Top.func - 1 : stack'[i] = stack[i]
      /\ Top.nresults # MULTRET => Len(stack') = Top.func - 1 + Top.nresults
      /\ \A i \in Top.func .. Len(stack') :
           stack'[i] = Plain \/ \E j \in 1 .. Len(vals) : stack'[i] = vals[j]
      /\ native' = Completed(native, OK)
  <2>1. /\ vals \in Seq(Slot) /\ Top = native[Len(native)] /\ stack \in Seq(Slot)
        /\ native \in Seq(Frame) /\ native # <<>> /\ Finish(native, vals)
        /\ Top.func >= 1 /\ Top.func <= Len(stack) + 1
    BY <1>1, <1>2, <1>3, <1>5
  <2> HIDE DEF n
  <2>2. Delivered(native, vals, Top)
    BY ONLY <2>1, FinishIs
  <2> QED  BY ONLY <2>2 DEF Delivered
<1>7. /\ Len(native') = n /\ \A i \in 1 .. n - 1 : native'[i] = native[i]
      /\ f.kind = Top.kind /\ f.func = Top.func /\ f.pops = Top.pops
      /\ f.nresults = Top.nresults
  <2>1. PICK status \in Statuses : native' = Completed(native, status)
    BY <1>6 DEF Statuses
  <2>2. native # <<>> /\ native \in Seq(Frame) /\ Top = native[n]
    BY <1>2
  <2>3. Ended(native', f, native, Top, n, status)
    BY ONLY <2>1, <2>2, CompletedIs
  <2> QED  BY ONLY <2>3 DEF Ended
<1>8. \A i \in 1 .. Len(stack') : stack'[i] # Message
  <2> DEFINE l == Len(stack')
             fn == Top.func
  <2>1. l \in Nat /\ fn \in Nat /\ fn >= 1 /\ fn <= Len(stack) + 1
    BY <1>3, <1>6, LenProperties
  <2> HIDE DEF l, fn
  <2>2. \A i \in 1 .. l : (i \in 1 .. fn - 1 /\ i \in 1 .. Len(stack)) \/ i \in fn .. l
    BY ONLY <1>2, <2>1
  <2>3. \A i \in 1 .. fn - 1 : stack'[i] = stack[i]
    BY <1>6 DEF fn
  <2>4. \A i \in fn .. l : stack'[i] # Message
    BY <1>5, <1>6, MessageDistinct DEF l, fn
  <2>5. \A i \in 1 .. l : stack'[i] # Message
    BY ONLY <1>2, <2>2, <2>3, <2>4
  <2> QED  BY <2>5 DEF l
<1>9. NothingDeferred'
  <2>1. \A i \in 1 .. n : i \in 1 .. n - 1 \/ i = n
    BY <1>2
  <2>2. \A i \in 1 .. n : native'[i].kind = native[i].kind /\ native'[i].pops = native[i].pops
    BY <1>2, <1>7, <2>1
  <2> QED  BY <1>2, <1>7, <2>2, DeferredKept
<1>10. Top' = f
  BY <1>7 DEF Top
<1>11. AsManyAsAsked' /\ NoMessage'
  BY <1>6, <1>7, <1>8, <1>10 DEF AsManyAsAsked, NoMessage
<1> QED  BY <1>4, <1>9, <1>11 DEF Tidy

(* an error that its guard catches, *)
LEMMA RaiseTidy ==
  ASSUME Reported, IInv, Tidy, PrecallRaises \/ LuaRaises
  PROVE  Tidy'
<1> DEFINE n == Len(native)
           f == native'[n]
           fn == Top.func
<1>1. PICK phase \in {"enter", "body"} : VmRuns(phase)
  BY RaiseIs
<1>2. /\ \A i \in 1 .. Len(stack) : stack[i] # Message
      /\ NothingDeferred /\ ci[1] = 0
      /\ native # <<>> /\ native \in Seq(Frame) /\ Top = native[n] /\ ~IsCallback(Top)
      /\ n \in Nat /\ n \in 1 .. n /\ 1 \in 1 .. Top.ci
      /\ Len(stack) \in Nat
  BY <1>1, VmClean
<1>3. /\ Top.kind = "call" /\ mode' = "run" /\ fn \in Nat /\ fn >= 1
      /\ Len(stack') = fn
      /\ \A i \in 1 .. fn - 1 : stack'[i] = stack[i]
      /\ ci'[1] = 0
  BY <1>2, RaiseIs
<1>4. PICK status \in Statuses : native' = Completed(native, status) /\ status # OK
  BY RaiseIs
<1>5. /\ Len(native') = n /\ \A i \in 1 .. n - 1 : native'[i] = native[i]
      /\ f.kind = Top.kind /\ f.pops = Top.pops /\ f.phase = "done" /\ f.status = status
  <2>1. Ended(native', f, native, Top, n, status)
    BY ONLY <1>2, <1>4, CompletedIs
  <2> QED  BY ONLY <2>1 DEF Ended
<1>6. Top' = f
  BY <1>5 DEF Top
<1>7. NothingDeferred'
  <2>1. \A i \in 1 .. n : i \in 1 .. n - 1 \/ i = n
    BY <1>2
  <2>2. \A i \in 1 .. n : native'[i].kind = native[i].kind /\ native'[i].pops = native[i].pops
    BY <1>2, <1>5, <2>1
  <2> QED  BY <1>2, <1>5, <2>2, DeferredKept
<1>8. VmRuns("done")' /\ Top'.status # OK
  <2>1. native' # <<>>
    BY <1>2, <1>5
  <2> QED  BY <1>3, <1>4, <1>5, <1>6, <2>1 DEF VmRuns, AtKotlin
<1>9. fn <= Len(stack) + 1
  BY <1>1, TopFacts
<1>10. \A i \in 1 .. fn : i = fn \/ (i \in 1 .. fn - 1 /\ i \in 1 .. Len(stack))
  <2> HIDE DEF fn
  <2> QED  BY ONLY <1>2, <1>3, <1>9
<1>11. NoMessage' /\ AsManyAsAsked'
  BY <1>2, <1>3, <1>8, <1>10 DEF NoMessage, AsManyAsAsked
<1> QED  BY <1>3, <1>7, <1>11 DEF Tidy

(* ... and the end of a request. *)
LEMMA ReturnTidy ==
  ASSUME Reported, IInv, Tidy, VmRuns("done"), native' = Front(native), ci' = ci,
         \A i \in 1 .. Len(stack') : stack'[i] # Message
  PROVE  Tidy'
<1>1. native # <<>> /\ native \in Seq(Frame) /\ mode = "run" /\ NothingDeferred
  BY VmFacts DEF VmRuns, Tidy
<1>2. Len(Front(native)) = Len(native) - 1 /\ \A i \in 1 .. Len(native) - 1 : Front(native)[i] = native[i]
  BY ONLY <1>1, FrontOk
<1>3. \A i \in 1 .. Len(native) - 1 : i \in 1 .. Len(native)
  BY <1>1, LenProperties
<1>4. NothingDeferred'
  BY <1>1, <1>2, <1>3, DeferredKept
<1> QED  BY <1>1, <1>4, BackInKotlin, TidyIf

(* the return of nativeCall, *)
LEMMA CallReturnsTidy ==
  ASSUME Reported, IInv, Told, Placed, Tidy, CallReturns
  PROVE  Tidy'
<1> DEFINE end == Top.func - 2
           l == Len(stack)
           m == Len(stack')
<1>1. /\ VmRuns("done") /\ native' = Front(native) /\ ci' = ci
      /\ Top.func \in Nat /\ end \in Nat /\ end <= l
      /\ \A i \in 1 .. end : stack'[i] = stack[i]
      /\ Top.status # OK => m = end
      /\ Top.status = OK => \A i \in Top.func - 1 .. m : stack'[i] \in Val
  BY CallReturnsIs
<1>2. l \in Nat /\ (Top.status # OK => l = Top.func) /\ mode = "run" /\ NoMessage
  BY <1>1, VmFacts DEF Told, MessageLeft, Tidy, VmRuns
<1>3. \A i \in 1 .. end : stack[i] # Message
  <2>1. \A i \in 1 .. end : i \in 1 .. l /\ (Top.status # OK => i # l)
    <3> DEFINE fn == Top.func
    <3>1. fn \in Nat /\ end = fn - 2 /\ end <= l /\ (Top.status # OK => l = fn)
      BY <1>1, <1>2
    <3> HIDE DEF fn, end, l
    <3> QED  BY ONLY <1>2, <3>1
  <2> QED  BY <1>2, <2>1 DEF NoMessage
<1>4. \A i \in 1 .. m : stack'[i] # Message
  <2>1. m \in Nat => \A i \in 1 .. m : i \in 1 .. end \/ i \in Top.func - 1 .. m
    BY <1>1
  <2>2. m \in Nat
    <3>1. stack' \in Seq(Slot)
      BY NextOk DEF Next, VmStep, IInv, TypeOK
    <3> QED  BY <3>1, LenProperties
  <2>3. \A v \in Val : v # Message
    BY MessageDistinct DEF Val
  <2>4. Top.status = OK => \A i \in Top.func - 1 .. m : stack'[i] # Message
    BY <1>1, <2>3
  <2>5. \A i \in 1 .. end : stack'[i] # Message
    BY <1>1, <1>3
  <2> QED  BY <1>1, <2>1, <2>2, <2>4, <2>5
<1> QED  BY <1>1, <1>4, ReturnTidy

(* and the return of a guarded operation. *)
LEMMA BarrierReturnsTidy ==
  ASSUME Reported, IInv, Told, Placed, Tidy, BarrierReturns
  PROVE  Tidy'
<1> DEFINE fn == Top.func
           p == Top.pops
           k == fn - 1 - p
           l == Len(stack)
           m == Len(stack')
<1>1. /\ VmRuns("done") /\ native' = Front(native) /\ ci' = ci
      /\ k \in Nat /\ k <= m /\ fn - 1 <= l
      /\ \A i \in 1 .. k : stack'[i] = stack[i]
      /\ \A i \in k + 1 .. m : stack'[i] \in Val
  BY BarrierReturnsIs
<1>2. Top.kind = "barrier"
  BY DEF BarrierReturns
<1>3. Top.status = OK
  BY <1>1, <1>2 DEF Told, MessageLeft
<1>4. l \in Nat /\ m \in Nat /\ p \in 0 .. 2 /\ fn \in Nat
  <2>1. stack' \in Seq(Slot)
    BY NextOk DEF Next, VmStep, IInv, TypeOK
  <2> QED  BY <1>1, <2>1, LenProperties, TopFacts
<1>5. \A i \in 1 .. l : stack[i] # Message
  BY <1>1, <1>3, VmClean
<1> HIDE DEF fn, p, l, m
<1>6. (\A i \in 1 .. k : i \in 1 .. l) /\ \A i \in 1 .. m : i \in 1 .. k \/ i \in k + 1 .. m
  BY ONLY <1>1, <1>4
<1> HIDE DEF k
<1>7. \A i \in 1 .. m : stack'[i] # Message
  <2>1. \A v \in Val : v # Message
    BY MessageDistinct DEF Val
  <2> QED  BY <1>1, <1>5, <1>6, <2>1
<1> QED  BY <1>1, <1>7, ReturnTidy DEF m

(* So it always is. *)
LEMMA TidyInit == Init => Tidy
<1> SUFFICES ASSUME Init
             PROVE  ci[1] = 0 /\ NoMessage /\ AsManyAsAsked /\ NothingDeferred
  BY DEF Tidy
<1>1. native = <<>> /\ stack = [i \in 1 .. LibSlots |-> Plain] /\ ci = <<0>> /\ LibSlots \in Nat
  BY ConstantsAssumption DEF Init
<1>2. Len(stack) = LibSlots /\ \A i \in 1 .. LibSlots : stack[i] # Message
  BY <1>1, MessageDistinct
<1>3. ~VmRuns("done")
  BY <1>1 DEF VmRuns, AtKotlin
<1> QED  BY <1>1, <1>2, <1>3 DEF NoMessage, AsManyAsAsked, NothingDeferred

(* Tidy, kept by every step while no exception escapes from a callback. *)
LEMMA TidyNext ==
  ASSUME Reported
  PROVE  IInv /\ Told /\ Placed /\ Tidy /\ [Next]_vars => Tidy'
<1> SUFFICES ASSUME IInv, Told, Placed, Tidy, [Next]_vars
             PROVE  Tidy'
  OBVIOUS
<1>1. CASE KotlinStep
  <2>1. CASE \/ \E v \in Val : Push(v) \/ UncheckedPush(v)
             \/ PushFunction
             \/ \E i \in 1 .. GetTop : PushValue(i) \/ RemoveSlot(i) \/ InsertSlot(i) \/ ReplaceSlot(i)
             \/ \E n \in 0 .. MaxStack : SetTop(n)
             \/ \E status \in {OK, ERRRUN} : SetMetaTable(status)
    <3>1. KotlinRuns /\ UNCHANGED <<ci, native>> /\ Clean(stack, stack', Base)
      BY Reported, <2>1, StackClean
    <3> QED  BY <3>1, LocalTidy
  <2>2. ASSUME NEW op \in CheckedOps, NEW v \in Val, NEW status \in {OK, ERRRUN, ERRMEM},
               CheckedOp(op, v, status)
        PROVE  Tidy'
    <3>1. status \in Statuses
      BY DEF Statuses
    <3>2. KotlinRuns /\ UNCHANGED <<ci, native>> /\ Clean(stack, stack', Base)
      BY Reported, <2>2, <3>1, CheckedClean
    <3> QED  BY <3>2, LocalTidy
  <2>3. ASSUME NEW op \in CheckedOps, OpCallsMetamethod(op)
        PROVE  Tidy'
    BY Reported, <2>3, MetamethodTidy
  <2>4. ASSUME NEW nargs \in 0 .. GetTop - 1, NEW nresults \in ResultCounts,
               NativeCall(nargs, nresults)
        PROVE  Tidy'
    BY Reported, <2>4, CallTidy
  <2>5. ASSUME NEW n \in 0 .. GetTop, CallbackReturns(n)
        PROVE  Tidy'
    BY Reported, <2>5, CallbackReturnsTidy
  <2>6. ~CallbackThrows /\ ~CallbackThrowsThrough
    BY Reported DEF CallbackThrows, CallbackThrowsThrough, Reported
  <2>7. CASE RawAllocFails
    <3>1. mode' \in {"aborted", "jumped"}
      BY <2>7, RawRaiseLands DEF RawAllocFails
    <3> QED  BY <3>1 DEF Tidy
  <2> QED  BY <1>1, <2>1, <2>2, <2>3, <2>4, <2>5, <2>6, <2>7 DEF KotlinStep
<1>2. CASE VmStep
  <2>1. CASE PrecallLua
    BY Reported, <2>1, PrecallLuaTidy
  <2>2. CASE PrecallKotlin
    BY Reported, <2>2, PrecallKotlinTidy
  <2>3. CASE PrecallRaises \/ LuaRaises
    BY Reported, <2>3, RaiseTidy
  <2>4. ASSUME NEW vals \in Lists, LuaCallsKotlin(vals) \/ LuaReturns(vals)
        PROVE  Tidy'
    <3>1. vals \in Seq(Val)
      BY ConstantsAssumption
    <3> QED  BY Reported, <2>4, <3>1, LuaCallsKotlinTidy, LuaReturnsTidy
  <2>5. CASE CallReturns
    BY Reported, <2>5, CallReturnsTidy
  <2>6. CASE BarrierReturns
    BY Reported, <2>6, BarrierReturnsTidy
  <2>7. ~LuaRunsOn
    BY Reported, NothingRunsOn
  <2> QED  BY <1>2, <2>1, <2>2, <2>3, <2>4, <2>5, <2>6, <2>7 DEF VmStep
<1>3. CASE UNCHANGED vars
  BY <1>3 DEF vars, Tidy, NoMessage, AsManyAsAsked, NothingDeferred, VmRuns, AtKotlin, Top
<1> QED  BY <1>1, <1>2, <1>3 DEF Next

-----------------------------------------------------------------------------
(* The refinement.                                                          *)
LEMMA ViewsInit == Init => Views!Init
<1> SUFFICES ASSUME Init
             PROVE  Views!Init
  OBVIOUS
<1>1. native = <<>> /\ IInv
  BY InitOk DEF Init
<1>2. Len(native) = 0 /\ InKotlin(native)
  BY <1>1 DEF InKotlin
<1>3. Depth(native) = 0 /\ Opened(native) = 0
  <2>1. Depth(native) \in Nat /\ Opened(native) \in Nat /\ Len(native) = Depth(native) + Opened(native)
    BY <1>1, Shape
  <2> QED  BY ONLY <1>2, <2>1
<1>4. Len(views) = 1 /\ waits = Awaited(native, 0)
  <2>1. Len(views) = Depth(native) + 1 /\ waits = Awaited(native, Opened(native))
    BY <1>1, Shape
  <2> QED  BY ONLY <1>3, <2>1
<1>5. waits = <<>>
  BY <1>4 DEF Awaited
<1> QED  BY <1>4, <1>5 DEF Views!Init

(* What an activation sees and awaits is in the stacks and frames alone. *)
LEMMA ViewsKept ==
  ASSUME UNCHANGED <<stack, ci, native>>
  PROVE  UNCHANGED <<views, waits>>
BY DEF views, waits, ViewOf, Callbacks, Guards

(* Every step is a step of KotlinStacks, or shows nothing to Kotlin code. *)
LEMMA ViewsNext ==
  ASSUME Reported
  PROVE  IInv /\ Told /\ Placed /\ Tidy /\ [Next]_vars => [Views!Next]_Views!vars
<1> SUFFICES ASSUME IInv, Told, Placed, Tidy, [Next]_vars
             PROVE  Views!Next \/ UNCHANGED <<views, waits>>
  BY DEF Views!vars
<1>0. IInv'
  BY NextOk
<1>1. CASE KotlinStep
  <2>1. CASE \/ \E v \in Val : Push(v) \/ UncheckedPush(v)
             \/ PushFunction
             \/ \E i \in 1 .. GetTop : PushValue(i) \/ RemoveSlot(i) \/ InsertSlot(i) \/ ReplaceSlot(i)
             \/ \E n \in 0 .. MaxStack : SetTop(n)
             \/ \E status \in {OK, ERRRUN} : SetMetaTable(status)
    <3>1. KotlinRuns /\ UNCHANGED <<ci, native>> /\ Clean(stack, stack', Base)
      BY Reported, <2>1, StackClean
    <3>2. Views!Rearrange
      BY Reported, <1>0, <3>1, CleanSeen
    <3> QED  BY <3>2 DEF Views!Next
  <2>2. ASSUME NEW op \in CheckedOps, NEW v \in Val, NEW status \in {OK, ERRRUN, ERRMEM},
               CheckedOp(op, v, status)
        PROVE  Views!Next
    <3>1. status \in Statuses
      BY DEF Statuses
    <3>2. KotlinRuns /\ UNCHANGED <<ci, native>> /\ Clean(stack, stack', Base)
      BY Reported, <2>2, <3>1, CheckedClean
    <3>3. Views!Rearrange
      BY Reported, <1>0, <3>2, CleanSeen
    <3> QED  BY <3>3 DEF Views!Next
  <2>3. ASSUME NEW op \in CheckedOps, OpCallsMetamethod(op)
        PROVE  Views!Next
    BY Reported, <1>0, <2>3, MetamethodSeen
  <2>4. ASSUME NEW nargs \in 0 .. GetTop - 1, NEW nresults \in ResultCounts,
               NativeCall(nargs, nresults)
        PROVE  Views!Next
    BY Reported, <1>0, <2>4, CallSeen
  <2>5. ASSUME NEW n \in 0 .. GetTop, CallbackReturns(n)
        PROVE  Views!Next
    <3>1. Views!Leave
      BY Reported, <1>0, <2>5, CallbackReturnsSeen
    <3> QED  BY <3>1 DEF Views!Next
  <2>6. ~CallbackThrows /\ ~CallbackThrowsThrough
    BY Reported DEF CallbackThrows, CallbackThrowsThrough, Reported
  <2>7. CASE RawAllocFails
    <3>1. UNCHANGED <<stack, ci, native>>
      BY <2>7, RawRaiseLands DEF RawAllocFails
    <3> QED  BY <3>1, ViewsKept
  <2> QED  BY <1>1, <2>1, <2>2, <2>3, <2>4, <2>5, <2>6, <2>7 DEF KotlinStep
<1>2. CASE VmStep
  <2>1. CASE PrecallLua
    BY Reported, <1>0, <2>1, PrecallLuaSeen
  <2>2. CASE PrecallKotlin
    <3>1. Views!Enter
      BY Reported, <1>0, <2>2, PrecallKotlinSeen
    <3> QED  BY <3>1 DEF Views!Next
  <2>3. CASE PrecallRaises \/ LuaRaises
    BY Reported, <1>0, <2>3, RaiseSeen
  <2>4. ASSUME NEW vals \in Lists, LuaCallsKotlin(vals)
        PROVE  Views!Next
    <3>1. vals \in Seq(Val)
      BY ConstantsAssumption
    <3>2. Views!Enter
      BY Reported, <1>0, <2>4, <3>1, LuaCallsKotlinSeen
    <3> QED  BY <3>2 DEF Views!Next
  <2>5. ASSUME NEW vals \in Lists, LuaReturns(vals)
        PROVE  UNCHANGED <<views, waits>>
    <3>1. vals \in Seq(Val)
      BY ConstantsAssumption
    <3> QED  BY Reported, <1>0, <2>5, <3>1, LuaReturnsSeen
  <2>6. CASE CallReturns
    BY Reported, <1>0, <2>6, CallReturnsSeen
  <2>7. CASE BarrierReturns
    <3>1. Views!Succeed
      BY Reported, <1>0, <2>7, BarrierReturnsSeen
    <3> QED  BY <3>1 DEF Views!Next
  <2>8. ~LuaRunsOn
    BY Reported, NothingRunsOn
  <2> QED  BY <1>2, <2>1, <2>2, <2>3, <2>4, <2>5, <2>6, <2>7, <2>8 DEF VmStep
<1>3. CASE UNCHANGED vars
  BY <1>3, ViewsKept DEF vars
<1> QED  BY <1>1, <1>2, <1>3 DEF Next

(* Boundary implements KotlinStacks.  Seen through the stack indices of the  *)
(* bridge, every Kotlin activation has a stack that nobody else changes: a   *)
(* callback starts on its arguments alone and leaves nothing behind, and a   *)
(* call or an operation of LuaState leaves exactly the results that it was   *)
(* asked for in place of its operands, or throws and adds nothing.  It holds *)
(* for every nesting of calls, callbacks and metamethods, as long as no      *)
(* exception escapes from a callback and every failure is reported.          *)
THEOREM ImplementsViews ==
  ASSUME Reported
  PROVE  Spec => ViewsSpec
<1>1. IInv /\ Told /\ [Next]_vars => Told'
  BY Reported, ToldNext
<1>2. IInv /\ Placed /\ [Next]_vars => Placed'
  BY Reported, PlacedNext DEF Reported
<1>3. IInv /\ Told /\ Placed /\ Tidy /\ [Next]_vars => Tidy'
  BY Reported, TidyNext
<1>4. IInv /\ Told /\ Placed /\ Tidy /\ [Next]_vars => [Views!Next]_Views!vars
  BY Reported, ViewsNext
<1> QED  BY <1>1, <1>2, <1>3, <1>4, ToldInit, PlacedInit, TidyInit, ViewsInit, Invariant, PTL
        DEF Spec, ViewsSpec, Views!Spec
=============================================================================
