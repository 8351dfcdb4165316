--------------------------- MODULE BoundaryLemmas ---------------------------
(***************************************************************************)
(* The inductive invariant of Boundary, and lemmas about the sequences of  *)
(* frames and call infos that it speaks of.  Nothing here takes a step:    *)
(* BoundaryProofs applies the lemmas to the actions.                       *)
(***************************************************************************)
EXTENDS Boundary, SequenceTheorems, FiniteSetTheorems, TLAPS

(* No fault that leaves a call without unwinding the VM. *)
Tight == Faults \cap {"escape", "metamethod"} = {}

AtLeast(a, b) == a >= b /\ (Tight => a = b)

(* The faults that leave frames above those of Lua code that goes on. *)
Through == {"escape", "through"} \subseteq Faults

Within(a, b) == a >= b /\ (~Through => a = b)

IsCallback(f) == f.kind = "callback"
GuardsOf(nat) == {k \in 1 .. Len(nat) : ~IsCallback(nat[k])}
GuardsBelow(nat, i) == {k \in GuardsOf(nat) : k < i}

(* The C stack alternates between guards and callbacks, and each guard saved *)
(* as its predecessor the guard before the callback that it was called from. *)
Linked(nat, jmp) ==
  /\ nat \in Seq(Frame)
  /\ \A i \in 1 .. Len(nat) : IsCallback(nat[i]) <=> i > 1 /\ ~IsCallback(nat[i - 1])
  /\ \A i \in GuardsOf(nat) : nat[i].prev = IF i = 1 THEN 0 ELSE i - 2
  /\ jmp = IF nat = <<>> THEN 0
           ELSE IF IsCallback(nat[Len(nat)]) THEN Len(nat) - 1 ELSE Len(nat)

(* The call infos lie on the stack in the order they were made. *)
Rising(c) ==
  /\ c \in Seq(Nat)
  /\ Len(c) >= 1
  /\ \A j, k \in 1 .. Len(c) : j <= k => c[j] <= c[k]

(* A guard began in the call info of the callback that called it, and above *)
(* everything there that it keeps, a call right above its error handler; the *)
(* function that it runs is the next call info.                              *)
GuardAt(nat, c, i) ==
  LET g == nat[i]
  IN  /\ AtLeast(g.ci, IF i = 1 THEN 1 ELSE nat[i - 1].ci)
      /\ AtLeast(g.nCcalls, Cardinality(GuardsBelow(nat, i)))
      /\ g.func > c[g.ci] + g.pops
      /\ g.kind = "call" => g.errfunc >= 1 /\ g.func = c[g.ci] + g.errfunc + 1
      /\ g.phase \in {"direct", "body"} => c[g.ci + 1] = g.func
      /\ i < Len(nat) => g.phase \in {"direct", "body"}

(* A callback's call info is the function that the guard runs, or one that *)
(* this function called.                                                   *)
CallbackAt(nat, c, i) ==
  LET depth == IF nat[i - 1].phase = "direct" THEN 1 ELSE 2
  IN  /\ Within(nat[i].ci, nat[i - 1].ci + depth)
      /\ c[nat[i].ci] >= nat[i - 1].func + depth - 1

Nested(nat, c) ==
  /\ \A i, j \in 1 .. Len(nat) : i <= j => nat[i].ci <= nat[j].ci
  /\ \A i \in 1 .. Len(nat) :
        IF IsCallback(nat[i]) THEN CallbackAt(nat, c, i) ELSE GuardAt(nat, c, i)

(* The innermost frame, the VM's state while it runs, and the stack above *)
(* which it runs.                                                         *)
AtProgram(nat, c, calls) ==
  nat = <<>> => AtLeast(Len(c), 1) /\ AtLeast(calls, Cardinality(GuardsOf(nat)))

AtCallback(nat, c, calls, s) ==
  LET top == nat[Len(nat)]
  IN  nat # <<>> /\ IsCallback(top) =>
        /\ AtLeast(Len(c), top.ci)
        /\ AtLeast(calls, Cardinality(GuardsOf(nat)))
        /\ c[top.ci] <= Len(s)

AtGuard(nat, c, calls, s) ==
  LET top == nat[Len(nat)]
  IN  nat # <<>> /\ ~IsCallback(top) =>
        \/ /\ top.phase = "enter"
           /\ Len(c) = top.ci
           /\ AtLeast(calls, Cardinality(GuardsOf(nat)))
           /\ top.func <= Len(s)
           /\ top.kind = "barrier" => calls < MaxCCalls /\ s[top.func] = Fn
        \/ /\ top.phase = "body"
           /\ Within(Len(c), top.ci + 1)
           /\ AtLeast(calls, Cardinality(GuardsOf(nat)))
           /\ top.func <= Len(s)
           /\ c[Len(c)] <= Len(s) + 1
        \/ /\ top.phase = "done"
           /\ AtLeast(Len(c), top.ci)
           /\ AtLeast(calls, Cardinality(GuardsOf(nat)) - 1)
           /\ top.func <= Len(s) + 1

Ordered(nat, c, calls, s) ==
  /\ Rising(c)
  /\ Nested(nat, c)
  /\ AtProgram(nat, c, calls)
  /\ AtCallback(nat, c, calls, s)
  /\ AtGuard(nat, c, calls, s)

(* The inductive invariant.  The frames are in order as long as the program *)
(* runs; the jump buffers are linked even after it has left that state.     *)
IInv ==
  /\ TypeOK
  /\ Linked(native, errorjmp)
  /\ mode = "run" => Ordered(native, ci, nCcalls, stack)
-----------------------------------------------------------------------------
(* Sequences. *)

(* A piece of a sequence is a sequence over the same set. *)
LEMMA SubSeqOk ==
  ASSUME NEW S, NEW s \in Seq(S), NEW m \in Int, NEW n \in Int, m >= 1, n <= Len(s)
  PROVE  /\ SubSeq(s, m, n) \in Seq(S)
         /\ Len(SubSeq(s, m, n)) = IF m <= n THEN n - m + 1 ELSE 0
         /\ \A i \in 1 .. n - m + 1 : SubSeq(s, m, n)[i] = s[m + i - 1]
<1>1. \A i \in m .. n : s[i] \in S
  BY LenProperties, ElementOfSeq
<1> QED  BY <1>1, SubSeqProperties

(* All but the last element. *)
LEMMA FrontOk ==
  ASSUME NEW S, NEW s \in Seq(S)
  PROVE  /\ Front(s) \in Seq(S)
         /\ Len(Front(s)) = IF s = <<>> THEN 0 ELSE Len(s) - 1
         /\ \A i \in 1 .. Len(s) - 1 : Front(s)[i] = s[i]
<1>1. Len(s) \in Nat /\ (s = <<>> <=> Len(s) = 0)
  BY LenProperties, EmptySeq
<1> QED  BY <1>1, SubSeqOk DEF Front

(* One element exchanged. *)
LEMMA ReplaceAtOk ==
  ASSUME NEW S, NEW s \in Seq(S), NEW i \in 1 .. Len(s), NEW e \in S
  PROVE  /\ ReplaceAt(s, i, e) \in Seq(S)
         /\ Len(ReplaceAt(s, i, e)) = Len(s)
         /\ \A j \in 1 .. Len(s) : ReplaceAt(s, i, e)[j] = IF j = i THEN e ELSE s[j]
BY ExceptSeq DEF ReplaceAt

(* One element removed. *)
LEMMA RemoveAtOk ==
  ASSUME NEW S, NEW s \in Seq(S), NEW i \in 1 .. Len(s)
  PROVE  RemoveAt(s, i) \in Seq(S) /\ Len(RemoveAt(s, i)) = Len(s) - 1
<1> DEFINE before == SubSeq(s, 1, i - 1)
           after  == SubSeq(s, i + 1, Len(s))
<1>1. Len(s) \in Nat  BY LenProperties
<1>2. before \in Seq(S) /\ Len(before) = i - 1
  BY <1>1, SubSeqOk
<1>3. after \in Seq(S) /\ Len(after) = Len(s) - i
  BY <1>1, SubSeqOk
<1>4. RemoveAt(s, i) = before \o after
  BY DEF RemoveAt
<1> HIDE DEF before, after
<1>5. before \o after \in Seq(S) /\ Len(before \o after) = Len(before) + Len(after)
  BY <1>2, <1>3, ConcatProperties
<1> QED  BY <1>1, <1>2, <1>3, <1>4, <1>5

(* One element inserted. *)
LEMMA InsertAtOk ==
  ASSUME NEW S, NEW s \in Seq(S), NEW i \in 1 .. Len(s) + 1, NEW e \in S
  PROVE  InsertAt(s, i, e) \in Seq(S) /\ Len(InsertAt(s, i, e)) = Len(s) + 1
<1> DEFINE before == SubSeq(s, 1, i - 1)
           this   == <<e>>
           after  == SubSeq(s, i, Len(s))
<1>1. Len(s) \in Nat  BY LenProperties
<1>2. before \in Seq(S) /\ Len(before) = i - 1
  BY <1>1, SubSeqOk
<1>3. after \in Seq(S) /\ Len(after) = Len(s) - i + 1
  BY <1>1, SubSeqOk
<1>4. this \in Seq(S) /\ Len(this) = 1
  OBVIOUS
<1>5. InsertAt(s, i, e) = (before \o this) \o after
  BY DEF InsertAt
<1> HIDE DEF before, this, after
<1>6. before \o this \in Seq(S) /\ Len(before \o this) = Len(before) + Len(this)
  BY <1>2, <1>4, ConcatProperties
<1>7. /\ (before \o this) \o after \in Seq(S)
      /\ Len((before \o this) \o after) = Len(before \o this) + Len(after)
  BY <1>3, <1>6, ConcatProperties
<1> QED  BY <1>1, <1>2, <1>3, <1>4, <1>5, <1>6, <1>7

(* What is above the one removed moves down. *)
LEMMA RemoveAtElements ==
  ASSUME NEW S, NEW s \in Seq(S), NEW i \in 1 .. Len(s), NEW j \in 1 .. Len(s) - 1
  PROVE  RemoveAt(s, i)[j] = IF j < i THEN s[j] ELSE s[j + 1]
<1> DEFINE before == SubSeq(s, 1, i - 1)
           after  == SubSeq(s, i + 1, Len(s))
<1>1. Len(s) \in Nat
  BY LenProperties
<1>2. /\ before \in Seq(S) /\ Len(before) = i - 1
      /\ \A k \in 1 .. i - 1 : before[k] = s[k]
  <2>1. \A k \in 1 .. i - 1 : k \in 1 .. i - 1 - 1 + 1 /\ s[1 + k - 1] = s[k]
    OBVIOUS
  <2> QED  BY <1>1, <2>1, SubSeqOk
<1>3. /\ after \in Seq(S) /\ Len(after) = Len(s) - i
      /\ \A k \in 1 .. Len(s) - i : after[k] = s[k + i]
  <2>1. \A k \in 1 .. Len(s) - i : k \in 1 .. Len(s) - (i + 1) + 1 /\ s[i + 1 + k - 1] = s[k + i]
    BY <1>1
  <2> QED  BY <1>1, <2>1, SubSeqOk
<1>4. RemoveAt(s, i) = before \o after
  BY DEF RemoveAt
<1> HIDE DEF before, after
<1>5. (before \o after)[j] = IF j <= Len(before) THEN before[j] ELSE after[j - Len(before)]
  <2>1. j \in 1 .. Len(before) + Len(after)
    BY <1>1, <1>2, <1>3
  <2> QED  BY <1>2, <1>3, <2>1, ConcatProperties
<1>6. CASE j < i
  BY <1>1, <1>2, <1>4, <1>5, <1>6
<1>7. CASE ~(j < i)
  <2>1. j - Len(before) \in 1 .. Len(s) - i /\ j - Len(before) + i = j + 1
    BY <1>1, <1>2, <1>7
  <2> QED  BY <1>1, <1>2, <1>3, <1>4, <1>5, <1>7, <2>1
<1> QED  BY <1>6, <1>7

(* What is above the place of the new one moves up. *)
LEMMA InsertAtElements ==
  ASSUME NEW S, NEW s \in Seq(S), NEW i \in 1 .. Len(s) + 1, NEW e \in S,
         NEW j \in 1 .. Len(s) + 1
  PROVE  InsertAt(s, i, e)[j] = IF j < i THEN s[j] ELSE IF j = i THEN e ELSE s[j - 1]
<1> DEFINE before == SubSeq(s, 1, i - 1)
           this   == <<e>>
           after  == SubSeq(s, i, Len(s))
<1>1. Len(s) \in Nat
  BY LenProperties
<1>2. /\ before \in Seq(S) /\ Len(before) = i - 1
      /\ \A k \in 1 .. i - 1 : before[k] = s[k]
  <2>1. \A k \in 1 .. i - 1 : k \in 1 .. i - 1 - 1 + 1 /\ s[1 + k - 1] = s[k]
    OBVIOUS
  <2> QED  BY <1>1, <2>1, SubSeqOk
<1>3. /\ after \in Seq(S) /\ Len(after) = Len(s) - i + 1
      /\ \A k \in 1 .. Len(s) - i + 1 : after[k] = s[k + i - 1]
  <2>1. \A k \in 1 .. Len(s) - i + 1 : s[i + k - 1] = s[k + i - 1]
    BY <1>1
  <2> QED  BY <1>1, <2>1, SubSeqOk
<1>4. this \in Seq(S) /\ Len(this) = 1 /\ this[1] = e
  OBVIOUS
<1>5. InsertAt(s, i, e) = (before \o this) \o after
  BY DEF InsertAt
<1> HIDE DEF before, this, after
<1> DEFINE most == before \o this
<1>6. /\ most \in Seq(S) /\ Len(most) = i
      /\ \A k \in 1 .. i : most[k] = IF k < i THEN s[k] ELSE e
  <2>1. /\ most \in Seq(S) /\ Len(most) = Len(before) + Len(this)
        /\ \A k \in 1 .. Len(before) + Len(this) :
             most[k] = IF k <= Len(before) THEN before[k] ELSE this[k - Len(before)]
    BY <1>2, <1>4, ConcatProperties
  <2>2. Len(before) + Len(this) = i
    BY <1>1, <1>2, <1>4
  <2>3. ASSUME NEW k \in 1 .. i
        PROVE  most[k] = IF k < i THEN s[k] ELSE e
    <3>1. CASE k < i
      BY <1>1, <1>2, <2>1, <2>2, <3>1
    <3>2. CASE k = i
      <4>1. k - Len(before) = 1 /\ ~(k <= Len(before))
        BY <1>1, <1>2, <3>2
      <4>2. most[k] = this[k - Len(before)]
        BY <2>1, <2>2, <4>1
      <4> QED  BY <1>4, <3>2, <4>1, <4>2
    <3>3. k < i \/ k = i
      OBVIOUS
    <3> QED  BY <3>1, <3>2, <3>3
  <2> QED  BY <2>1, <2>2, <2>3
<1> HIDE DEF most
<1>7. (most \o after)[j] = IF j <= Len(most) THEN most[j] ELSE after[j - Len(most)]
  <2>1. j \in 1 .. Len(most) + Len(after)
    BY <1>1, <1>3, <1>6
  <2> QED  BY <1>3, <1>6, <2>1, ConcatProperties
<1>8. CASE j <= i
  BY <1>1, <1>5, <1>6, <1>7, <1>8 DEF most
<1>9. CASE ~(j <= i)
  <2>1. j - i \in 1 .. Len(s) - i + 1 /\ j - i + i - 1 = j - 1
    BY <1>1, <1>9
  <2> QED  BY <1>1, <1>3, <1>5, <1>6, <1>7, <1>9, <2>1 DEF most
<1> QED  BY <1>8, <1>9
-----------------------------------------------------------------------------
(* The chain of jump buffers. *)

(* A new frame of the C stack: nativeCall or a barrier saves errorjmp as its *)
(* predecessor and takes its place; a callback leaves errorjmp alone.        *)
LEMMA LinkedPush ==
  ASSUME NEW nat, NEW jmp, Linked(nat, jmp), NEW f \in Frame,
         IsCallback(f) <=> nat # <<>> /\ ~IsCallback(nat[Len(nat)]),
         ~IsCallback(f) => f.prev = jmp
  PROVE  Linked(Append(nat, f), IF IsCallback(f) THEN jmp ELSE Len(nat) + 1)
<1> DEFINE n == Len(nat)
           new == Append(nat, f)
<1>1. n \in Nat /\ (nat = <<>> <=> n = 0)
  BY LenProperties, EmptySeq DEF Linked
<1>2. /\ new \in Seq(Frame)
      /\ Len(new) = n + 1
      /\ \A i \in 1 .. n : new[i] = nat[i]
      /\ new[n + 1] = f
  BY <1>1, AppendProperties DEF Linked
<1>3. \A i \in 1 .. Len(new) : IsCallback(new[i]) <=> i > 1 /\ ~IsCallback(new[i - 1])
  BY <1>1, <1>2 DEF Linked
<1>4. ASSUME NEW i \in GuardsOf(new)
      PROVE  new[i].prev = IF i = 1 THEN 0 ELSE i - 2
  <2>1. CASE i <= n
    BY <1>1, <1>2, <2>1 DEF Linked, GuardsOf
  <2>2. CASE i = n + 1
    BY <1>1, <1>2, <2>2 DEF Linked, GuardsOf
  <2> QED  BY <1>1, <1>2, <2>1, <2>2 DEF GuardsOf
<1> HIDE DEF new
<1>5. (IF IsCallback(f) THEN jmp ELSE n + 1)
        = IF new = <<>> THEN 0
          ELSE IF IsCallback(new[Len(new)]) THEN Len(new) - 1 ELSE Len(new)
  <2>1. new # <<>>
    BY <1>1, <1>2
  <2>2. IsCallback(f) => jmp = n
    BY <1>1 DEF Linked
  <2> QED  BY <1>1, <1>2, <2>1, <2>2
<1>6. Linked(new, IF IsCallback(f) THEN jmp ELSE n + 1)
  BY <1>2, <1>3, <1>4, <1>5 DEF Linked
<1> QED  BY <1>6 DEF new

(* The innermost frame goes on to another phase. *)
LEMMA LinkedTouch ==
  ASSUME NEW nat, NEW jmp, Linked(nat, jmp), nat # <<>>, NEW f \in Frame,
         f.kind = nat[Len(nat)].kind, f.prev = nat[Len(nat)].prev
  PROVE  Linked(ReplaceAt(nat, Len(nat), f), jmp)
<1> DEFINE n == Len(nat)
           new == ReplaceAt(nat, n, f)
<1>0. nat \in Seq(Frame)
  BY DEF Linked
<1>1. n \in Nat /\ n >= 1
  BY <1>0, LenProperties, EmptySeq
<1>2. /\ new \in Seq(Frame)
      /\ Len(new) = n
      /\ \A i \in 1 .. n : new[i] = IF i = n THEN f ELSE nat[i]
  <2>1. n \in 1 .. Len(nat)
    BY <1>1
  <2>2. \A i \in 1 .. Len(nat) :
          /\ ReplaceAt(nat, i, f) \in Seq(Frame)
          /\ Len(ReplaceAt(nat, i, f)) = Len(nat)
          /\ \A j \in 1 .. Len(nat) : ReplaceAt(nat, i, f)[j] = IF j = i THEN f ELSE nat[j]
    BY <1>0, ReplaceAtOk
  <2> QED  BY <2>1, <2>2
<1> HIDE DEF new
<1>3. \A i \in 1 .. n : new[i].kind = nat[i].kind /\ new[i].prev = nat[i].prev
  BY <1>1, <1>2
<1>4. GuardsOf(new) = GuardsOf(nat)
  BY <1>2, <1>3 DEF GuardsOf, IsCallback
<1>5. new # <<>>
  BY <1>1, <1>2
<1>6. \A i \in 1 .. n : IsCallback(new[i]) <=> IsCallback(nat[i])
  BY <1>3 DEF IsCallback
<1>7. \A i \in 1 .. Len(new) : IsCallback(new[i]) <=> i > 1 /\ ~IsCallback(new[i - 1])
  BY <1>1, <1>2, <1>6 DEF Linked
<1>8. \A i \in GuardsOf(new) : new[i].prev = IF i = 1 THEN 0 ELSE i - 2
  BY <1>3, <1>4 DEF Linked, GuardsOf
<1>9. jmp = IF new = <<>> THEN 0
            ELSE IF IsCallback(new[Len(new)]) THEN Len(new) - 1 ELSE Len(new)
  BY <1>1, <1>2, <1>5, <1>6 DEF Linked
<1>10. Linked(new, jmp)
  BY <1>2, <1>7, <1>8, <1>9 DEF Linked
<1> QED  BY <1>10 DEF new

(* The innermost frame returns: a guard puts its predecessor back. *)
LEMMA LinkedPop ==
  ASSUME NEW nat, NEW jmp, Linked(nat, jmp), nat # <<>>
  PROVE  LET top == nat[Len(nat)]
         IN  Linked(Front(nat), IF IsCallback(top) THEN jmp ELSE top.prev)
<1> DEFINE n == Len(nat)
           new == Front(nat)
<1>1. n \in Nat /\ n >= 1
  BY LenProperties, EmptySeq DEF Linked
<1>2. /\ new \in Seq(Frame)
      /\ Len(new) = n - 1
      /\ \A i \in 1 .. n - 1 : new[i] = nat[i]
  BY <1>1, FrontOk DEF Linked
<1>3. new = <<>> <=> n = 1
  BY <1>1, <1>2, EmptySeq
<1> HIDE DEF new
<1>4. \A i \in 1 .. Len(new) : IsCallback(new[i]) <=> i > 1 /\ ~IsCallback(new[i - 1])
  BY <1>1, <1>2 DEF Linked
<1>5. \A i \in GuardsOf(new) : new[i].prev = IF i = 1 THEN 0 ELSE i - 2
  BY <1>1, <1>2 DEF Linked, GuardsOf
<1>6. CASE IsCallback(nat[n])
  <2>1. n > 1 /\ ~IsCallback(new[n - 1])
    BY <1>1, <1>2, <1>6 DEF Linked
  <2>2. jmp = n - 1
    BY <1>6, <1>1 DEF Linked
  <2>3. jmp = IF new = <<>> THEN 0
              ELSE IF IsCallback(new[Len(new)]) THEN Len(new) - 1 ELSE Len(new)
    BY <1>1, <1>2, <1>3, <2>1, <2>2
  <2>4. Linked(new, jmp)
    BY <1>2, <1>4, <1>5, <2>3 DEF Linked
  <2> QED  BY <1>6, <2>4 DEF new
<1>7. CASE ~IsCallback(nat[n])
  <2>1. nat[n].prev = IF n = 1 THEN 0 ELSE n - 2
    BY <1>1, <1>7 DEF Linked, GuardsOf
  <2>2. n > 1 => IsCallback(new[n - 1])
    BY <1>1, <1>2, <1>7 DEF Linked
  <2>3. nat[n].prev = IF new = <<>> THEN 0
                      ELSE IF IsCallback(new[Len(new)]) THEN Len(new) - 1 ELSE Len(new)
    BY <1>1, <1>2, <1>3, <2>1, <2>2
  <2>4. Linked(new, nat[n].prev)
    BY <1>2, <1>4, <1>5, <2>3 DEF Linked
  <2> QED  BY <1>7, <2>4 DEF new
<1> QED  BY <1>6, <1>7
-----------------------------------------------------------------------------
(* Counting guards. *)

(* There are finitely many guards. *)
LEMMA GuardsFinite ==
  ASSUME NEW nat \in Seq(Frame)
  PROVE  /\ IsFiniteSet(GuardsOf(nat))
         /\ Cardinality(GuardsOf(nat)) \in Nat
         /\ \A i : Cardinality(GuardsBelow(nat, i)) \in Nat
<1>1. Len(nat) \in Nat
  BY LenProperties
<1>2. IsFiniteSet(1 .. Len(nat))
  BY <1>1, FS_Interval
<1>3. GuardsOf(nat) \in SUBSET (1 .. Len(nat))
  BY DEF GuardsOf
<1>4. \A i : GuardsBelow(nat, i) \in SUBSET (1 .. Len(nat))
  BY <1>3 DEF GuardsBelow
<1> QED  BY <1>2, <1>3, <1>4, FS_Subset, FS_CardinalityType

(* A new frame adds one guard, or none if it is a callback. *)
LEMMA GuardsPush ==
  ASSUME NEW nat \in Seq(Frame), NEW f \in Frame
  PROVE  LET new == Append(nat, f)
         IN  /\ Cardinality(GuardsOf(new)) =
                  IF IsCallback(f) THEN Cardinality(GuardsOf(nat))
                  ELSE Cardinality(GuardsOf(nat)) + 1
             /\ \A i \in 1 .. Len(nat) : GuardsBelow(new, i) = GuardsBelow(nat, i)
             /\ GuardsBelow(new, Len(nat) + 1) = GuardsOf(nat)
<1> DEFINE n == Len(nat)
           new == Append(nat, f)
<1>1. n \in Nat
  BY LenProperties
<1>2. /\ Len(new) = n + 1
      /\ \A i \in 1 .. n : new[i] = nat[i]
      /\ new[n + 1] = f
  BY <1>1, AppendProperties
<1> HIDE DEF new
<1>3. GuardsOf(new) = IF IsCallback(f) THEN GuardsOf(nat) ELSE GuardsOf(nat) \cup {n + 1}
  BY <1>1, <1>2 DEF GuardsOf
<1>4. n + 1 \notin GuardsOf(nat)
  BY <1>1 DEF GuardsOf
<1>5. Cardinality(GuardsOf(nat) \cup {n + 1}) = Cardinality(GuardsOf(nat)) + 1
  BY <1>4, GuardsFinite, FS_AddElement
<1>6. \A i \in 1 .. n : GuardsBelow(new, i) = GuardsBelow(nat, i)
  BY <1>1, <1>3 DEF GuardsBelow
<1>7. GuardsBelow(new, n + 1) = GuardsOf(nat)
  <2>1. \A k \in GuardsOf(nat) : k \in Nat /\ k < n + 1
    BY <1>1 DEF GuardsOf
  <2> QED  BY <1>1, <1>3, <2>1 DEF GuardsBelow
<1>8. Cardinality(GuardsOf(new)) =
        IF IsCallback(f) THEN Cardinality(GuardsOf(nat)) ELSE Cardinality(GuardsOf(nat)) + 1
  BY <1>3, <1>5
<1> QED  BY <1>6, <1>7, <1>8 DEF new

(* A frame that stays what it is leaves the guards alone. *)
LEMMA GuardsTouch ==
  ASSUME NEW nat \in Seq(Frame), NEW f \in Frame, nat # <<>>,
         f.kind = nat[Len(nat)].kind
  PROVE  LET new == ReplaceAt(nat, Len(nat), f)
         IN  /\ new \in Seq(Frame)
             /\ Len(new) = Len(nat)
             /\ \A i \in 1 .. Len(nat) : new[i] = IF i = Len(nat) THEN f ELSE nat[i]
             /\ GuardsOf(new) = GuardsOf(nat)
             /\ \A i : GuardsBelow(new, i) = GuardsBelow(nat, i)
<1> DEFINE n == Len(nat)
           new == ReplaceAt(nat, n, f)
<1>1. n \in Nat /\ n \in 1 .. Len(nat)
  BY LenProperties, EmptySeq
<1>2. /\ new \in Seq(Frame)
      /\ Len(new) = n
      /\ \A i \in 1 .. n : new[i] = IF i = n THEN f ELSE nat[i]
  <2>1. \A i \in 1 .. Len(nat) :
          /\ ReplaceAt(nat, i, f) \in Seq(Frame)
          /\ Len(ReplaceAt(nat, i, f)) = Len(nat)
          /\ \A j \in 1 .. Len(nat) : ReplaceAt(nat, i, f)[j] = IF j = i THEN f ELSE nat[j]
    BY ReplaceAtOk
  <2> QED  BY <1>1, <2>1
<1> HIDE DEF new
<1>3. GuardsOf(new) = GuardsOf(nat)
  BY <1>1, <1>2 DEF GuardsOf, IsCallback
<1>4. \A i : GuardsBelow(new, i) = GuardsBelow(nat, i)
  BY <1>3 DEF GuardsBelow
<1> QED  BY <1>2, <1>3, <1>4 DEF new

(* A frame that returns takes one guard with it, or none. *)
LEMMA GuardsPop ==
  ASSUME NEW nat \in Seq(Frame), nat # <<>>
  PROVE  /\ Front(nat) \in Seq(Frame)
         /\ Len(Front(nat)) = Len(nat) - 1
         /\ \A i \in 1 .. Len(nat) - 1 : Front(nat)[i] = nat[i]
         /\ Cardinality(GuardsOf(Front(nat))) =
               IF IsCallback(nat[Len(nat)]) THEN Cardinality(GuardsOf(nat))
               ELSE Cardinality(GuardsOf(nat)) - 1
         /\ \A i \in 1 .. Len(nat) : GuardsBelow(Front(nat), i) = GuardsBelow(nat, i)
<1> DEFINE n == Len(nat)
           new == Front(nat)
<1>1. n \in Nat /\ n >= 1
  BY LenProperties, EmptySeq
<1>2. /\ new \in Seq(Frame)
      /\ Len(new) = n - 1
      /\ \A i \in 1 .. n - 1 : new[i] = nat[i]
  BY FrontOk
<1> HIDE DEF new
<1>3. GuardsOf(new) = GuardsOf(nat) \ {n}
  BY <1>1, <1>2 DEF GuardsOf
<1>4. n \in GuardsOf(nat) <=> ~IsCallback(nat[n])
  BY <1>1 DEF GuardsOf
<1>5. Cardinality(GuardsOf(nat) \ {n}) =
        IF n \in GuardsOf(nat) THEN Cardinality(GuardsOf(nat)) - 1
        ELSE Cardinality(GuardsOf(nat))
  BY GuardsFinite, FS_RemoveElement
<1>6. \A i \in 1 .. n : GuardsBelow(new, i) = GuardsBelow(nat, i)
  BY <1>1, <1>3 DEF GuardsBelow
<1>7. Cardinality(GuardsOf(new)) =
        IF IsCallback(nat[n]) THEN Cardinality(GuardsOf(nat))
        ELSE Cardinality(GuardsOf(nat)) - 1
  BY <1>3, <1>4, <1>5
<1> QED  BY <1>2, <1>6, <1>7 DEF new
-----------------------------------------------------------------------------
(* The order of the frames. *)

(* The frame g in another phase. *)
Rephased(f, g, p) ==
  /\ f.kind = g.kind /\ f.ci = g.ci /\ f.nCcalls = g.nCcalls /\ f.prev = g.prev
  /\ f.func = g.func /\ f.pops = g.pops /\ f.errfunc = g.errfunc
  /\ f.phase = p

InKotlin(nat) == nat # <<>> => IsCallback(nat[Len(nat)])

(* Every frame's call info is one that exists. *)
LEMMA Heights ==
  ASSUME NEW nat \in Seq(Frame), NEW c, NEW calls, NEW s, Ordered(nat, c, calls, s)
  PROVE  \A i \in 1 .. Len(nat) : nat[i].ci \in Nat /\ nat[i].ci <= Len(c)
<1>1. Len(nat) \in Nat /\ Len(c) \in Nat /\ (nat # <<>> <=> Len(nat) >= 1)
  BY LenProperties, EmptySeq DEF Ordered, Rising
<1>2. \A i \in 1 .. Len(nat) : nat[i] \in Frame
  BY ElementOfSeq
<1>3. \A i \in 1 .. Len(nat) : nat[i].ci \in Nat
  BY <1>2 DEF Frame
<1>4. nat # <<>> => nat[Len(nat)].ci <= Len(c)
  BY <1>1, <1>3 DEF Ordered, AtCallback, AtGuard, AtLeast, Within
<1>5. \A i \in 1 .. Len(nat) : nat[i].ci <= nat[Len(nat)].ci
  BY <1>1 DEF Ordered, Nested
<1> QED  BY <1>1, <1>3, <1>4, <1>5

(* The first frame is a guard that began in the program's call info. *)
LEMMA Grounded ==
  ASSUME NEW nat \in Seq(Frame), NEW jmp, NEW c, NEW calls, NEW s,
         Linked(nat, jmp), Ordered(nat, c, calls, s)
  PROVE  \A i \in 1 .. Len(nat) : nat[i].ci >= 1
<1> SUFFICES ASSUME NEW i \in 1 .. Len(nat)
             PROVE  nat[i].ci >= 1
  OBVIOUS
<1>1. Len(nat) \in Nat /\ 1 \in 1 .. Len(nat)
  BY LenProperties
<1>2. ~IsCallback(nat[1])
  BY <1>1 DEF Linked
<1>3. GuardAt(nat, c, 1)
  BY <1>1, <1>2 DEF Ordered, Nested
<1>4. nat[1].ci >= 1
  BY <1>3 DEF GuardAt, AtLeast
<1>5. nat[1].ci <= nat[i].ci
  BY <1>1 DEF Ordered, Nested
<1> QED  BY <1>1, <1>4, <1>5, Heights

(* Kotlin code changes its own stack, but not below its base. *)
LEMMA OrderedLocal ==
  ASSUME NEW nat \in Seq(Frame), NEW jmp, NEW c, NEW calls, NEW s, NEW s2 \in Seq(Slot),
         Linked(nat, jmp), Ordered(nat, c, calls, s), s \in Seq(Slot), InKotlin(nat),
         Len(s2) >= Len(s) \/ Len(s2) >= c[Len(c)]
  PROVE  Ordered(nat, c, calls, s2)
<1>1. /\ Len(nat) \in Nat /\ Len(c) \in Nat /\ Len(s) \in Nat /\ Len(s2) \in Nat
      /\ nat # <<>> <=> Len(nat) >= 1
  BY LenProperties, EmptySeq DEF Ordered, Rising
<1>2. AtCallback(nat, c, calls, s2)
  <2> SUFFICES ASSUME nat # <<>>, IsCallback(nat[Len(nat)])
               PROVE  /\ AtLeast(Len(c), nat[Len(nat)].ci)
                      /\ AtLeast(calls, Cardinality(GuardsOf(nat)))
                      /\ c[nat[Len(nat)].ci] <= Len(s2)
    BY DEF AtCallback
  <2>1. AtCallback(nat, c, calls, s)
    BY DEF Ordered
  <2> DEFINE k == nat[Len(nat)].ci
  <2>2. k \in 1 .. Len(c)
    BY <1>1, Heights, Grounded
  <2>3. c[k] <= c[Len(c)] /\ c[k] \in Nat /\ c[Len(c)] \in Nat
    BY <1>1, <2>2, ElementOfSeq DEF Ordered, Rising
  <2> QED  BY <1>1, <2>1, <2>3 DEF AtCallback
<1>3. AtGuard(nat, c, calls, s2)
  BY DEF InKotlin, AtGuard
<1> QED  BY <1>2, <1>3 DEF Ordered

(* Kotlin code hands a request to the VM. *)
LEMMA OrderedRequest ==
  ASSUME NEW nat \in Seq(Frame), NEW jmp, NEW c, NEW calls \in Nat, NEW s, NEW s2,
         Linked(nat, jmp), Ordered(nat, c, calls, s), InKotlin(nat),
         NEW f \in Frame, ~IsCallback(f), f.ci = Len(c), f.nCcalls = calls,
         f.phase = "enter", f.func > c[Len(c)] + f.pops, f.func <= Len(s2),
         f.kind = "call" => f.errfunc >= 1 /\ f.func = c[Len(c)] + f.errfunc + 1,
         f.kind = "barrier" => calls + 1 < MaxCCalls /\ s2[f.func] = Fn
  PROVE  Ordered(Append(nat, f), c, calls + 1, s2)
<1> DEFINE n == Len(nat)
           new == Append(nat, f)
<1>1. n \in Nat /\ Len(c) \in Nat /\ (nat # <<>> <=> n >= 1)
  BY LenProperties, EmptySeq DEF Ordered, Rising
<1>2. /\ new \in Seq(Frame)
      /\ Len(new) = n + 1
      /\ \A i \in 1 .. n : new[i] = nat[i]
      /\ new[n + 1] = f
  BY <1>1, AppendProperties
<1>3. /\ Cardinality(GuardsOf(new)) = Cardinality(GuardsOf(nat)) + 1
      /\ \A i \in 1 .. n : GuardsBelow(new, i) = GuardsBelow(nat, i)
      /\ GuardsBelow(new, n + 1) = GuardsOf(nat)
  BY GuardsPush
<1>4. Cardinality(GuardsOf(nat)) \in Nat
  BY GuardsFinite
<1> HIDE DEF new
<1>5. \A i, j \in 1 .. Len(new) : i <= j => new[i].ci <= new[j].ci
  BY <1>1, <1>2, Heights DEF Ordered, Nested
<1>6. /\ AtLeast(Len(c), IF n = 0 THEN 1 ELSE nat[n].ci)
      /\ AtLeast(calls, Cardinality(GuardsOf(nat)))
  BY <1>1 DEF Ordered, AtProgram, AtCallback, InKotlin
<1>7. ASSUME NEW i \in 1 .. Len(new)
      PROVE  IF IsCallback(new[i]) THEN CallbackAt(new, c, i) ELSE GuardAt(new, c, i)
  <2>1. CASE i = n + 1
    BY <1>1, <1>2, <1>3, <1>6, <2>1 DEF GuardAt
  <2>2. CASE i <= n /\ IsCallback(nat[i])
    <3>1. i > 1 /\ CallbackAt(nat, c, i)
      BY <1>1, <2>2 DEF Linked, Ordered, Nested
    <3> QED  BY <1>1, <1>2, <2>2, <3>1 DEF CallbackAt
  <2>3. CASE i <= n /\ ~IsCallback(nat[i])
    <3>1. GuardAt(nat, c, i) /\ i < n
      BY <1>1, <2>3 DEF Ordered, Nested, InKotlin
    <3>2. new[i] = nat[i] /\ (i # 1 => new[i - 1] = nat[i - 1])
      <4>1. i \in 1 .. n /\ (i # 1 => i - 1 \in 1 .. n)
        BY <1>1, <1>2, <3>1
      <4> QED  BY ONLY <1>2, <4>1
    <3>3. nat[i].phase \in {"direct", "body"} /\ ~IsCallback(new[i])
      BY <1>1, <2>3, <3>1, <3>2 DEF GuardAt
    <3>4. GuardsBelow(new, i) = GuardsBelow(nat, i)
      BY <1>1, <1>3, <3>1
    <3>5. GuardAt(new, c, i)
      BY ONLY <3>1, <3>2, <3>3, <3>4 DEF GuardAt
    <3> QED  BY <3>3, <3>5
  <2> QED  BY <1>1, <1>2, <2>1, <2>2, <2>3
<1>8. AtGuard(new, c, calls + 1, s2)
  BY <1>1, <1>2, <1>3, <1>4, <1>6 DEF AtGuard, AtLeast, Within
<1>9. AtProgram(new, c, calls + 1) /\ AtCallback(new, c, calls + 1, s2)
  BY <1>1, <1>2 DEF AtProgram, AtCallback
<1>10. Rising(c)
  BY DEF Ordered
<1>11. Ordered(new, c, calls + 1, s2)
  BY <1>5, <1>7, <1>8, <1>9, <1>10 DEF Ordered, Nested
<1> QED  BY <1>11 DEF new

(* A guard that is not the innermost frame has called a callback. *)
LEMMA Steps ==
  ASSUME NEW nat \in Seq(Frame), NEW jmp, NEW c,
         Linked(nat, jmp), Nested(nat, c)
  PROVE  \A i \in 1 .. Len(nat) - 1 :
           ~IsCallback(nat[i]) => /\ IsCallback(nat[i + 1])
                                  /\ nat[i].phase \in {"direct", "body"}
                                  /\ nat[i].ci + 1 <= nat[i + 1].ci
<1> SUFFICES ASSUME NEW i \in 1 .. Len(nat) - 1, ~IsCallback(nat[i])
             PROVE  /\ IsCallback(nat[i + 1])
                    /\ nat[i].phase \in {"direct", "body"}
                    /\ nat[i].ci + 1 <= nat[i + 1].ci
  OBVIOUS
<1>1. Len(nat) \in Nat
  BY LenProperties
<1>2. nat[i].ci \in Nat
  <2>1. nat[i] \in Frame
    BY <1>1, ElementOfSeq
  <2> QED  BY <2>1 DEF Frame
<1>3. IsCallback(nat[i + 1])
  BY <1>1 DEF Linked
<1>4. GuardAt(nat, c, i)
  BY <1>1 DEF Nested
<1>5. CallbackAt(nat, c, i + 1)
  BY <1>1, <1>3 DEF Nested
<1>6. nat[i + 1].ci >= nat[i].ci + 1
  <2> DEFINE depth == IF nat[i].phase = "direct" THEN 1 ELSE 2
  <2>1. i + 1 - 1 = i
    BY <1>1
  <2>2. Within(nat[i + 1].ci, nat[i].ci + depth)
    BY <1>5, <2>1 DEF CallbackAt
  <2>3. nat[i + 1].ci >= nat[i].ci + depth
    BY <2>2 DEF Within
  <2>4. nat[i + 1].ci \in Nat
    <3>1. nat[i + 1] \in Frame
      BY <1>1, ElementOfSeq
    <3> QED  BY <3>1 DEF Frame
  <2> QED  BY <1>2, <2>3, <2>4
<1> QED  BY <1>1, <1>2, <1>3, <1>4, <1>6 DEF GuardAt

(* Guards are counted by their kind only. *)
LEMMA GuardsSame ==
  ASSUME NEW nat \in Seq(Frame), NEW new \in Seq(Frame), NEW m \in Nat,
         m <= Len(nat), m <= Len(new),
         \A i \in 1 .. m : new[i].kind = nat[i].kind
  PROVE  \A i \in 1 .. m + 1 : GuardsBelow(new, i) = GuardsBelow(nat, i)
<1>1. Len(nat) \in Nat /\ Len(new) \in Nat
  BY LenProperties
<1> QED  BY <1>1 DEF GuardsBelow, GuardsOf, IsCallback

(* The guards are those below the innermost frame, and that frame. *)
LEMMA GuardsTop ==
  ASSUME NEW nat \in Seq(Frame), nat # <<>>
  PROVE  Cardinality(GuardsOf(nat)) =
           Cardinality(GuardsBelow(nat, Len(nat)))
             + IF IsCallback(nat[Len(nat)]) THEN 0 ELSE 1
<1> DEFINE n == Len(nat)
<1>1. n \in Nat /\ n >= 1
  BY LenProperties, EmptySeq
<1>2. GuardsBelow(nat, n) = GuardsOf(nat) \ {n}
  BY <1>1 DEF GuardsBelow, GuardsOf
<1>3. n \in GuardsOf(nat) <=> ~IsCallback(nat[n])
  BY <1>1 DEF GuardsOf
<1>4. Cardinality(GuardsOf(nat) \ {n}) =
        IF n \in GuardsOf(nat) THEN Cardinality(GuardsOf(nat)) - 1
        ELSE Cardinality(GuardsOf(nat))
  BY GuardsFinite, FS_RemoveElement
<1>5. Cardinality(GuardsOf(nat)) \in Nat
  BY GuardsFinite
<1> QED  BY <1>2, <1>3, <1>4, <1>5

(* The first m frames are kept, with the call infos that they refer to, and *)
(* one frame follows them.                                                  *)
Kept(nat, c, new, c2, m) ==
  /\ m <= Len(nat)
  /\ Len(new) = m + 1
  /\ \A i \in 1 .. m : new[i] = nat[i]
  /\ \A i \in 1 .. m : c2[nat[i].ci] = c[nat[i].ci]
  /\ \A i \in 1 .. m : ~IsCallback(nat[i]) => c2[nat[i].ci + 1] = c[nat[i].ci + 1]

(* The last frame fits on the ones below it. *)
Fits(new, c2, m) ==
  /\ m > 0 => new[m].ci <= new[m + 1].ci
  /\ IF IsCallback(new[m + 1]) THEN CallbackAt(new, c2, m + 1) ELSE GuardAt(new, c2, m + 1)

(* A guard under a callback is where it can have called it. *)
Calling(nat, m) ==
  m = Len(nat) /\ m > 0 /\ ~IsCallback(nat[m]) => nat[m].phase \in {"direct", "body"}

(* A new innermost frame on frames that keep their place. *)
LEMMA NestedPrefix ==
  ASSUME NEW nat \in Seq(Frame), NEW jmp, NEW c, Linked(nat, jmp), Nested(nat, c),
         NEW new \in Seq(Frame), NEW c2, NEW m \in Nat,
         Kept(nat, c, new, c2, m), Calling(nat, m), Fits(new, c2, m)
  PROVE  Nested(new, c2)
<1>0. /\ m <= Len(nat)
      /\ Len(new) = m + 1
      /\ \A i \in 1 .. m : new[i] = nat[i]
      /\ \A i \in 1 .. m : c2[nat[i].ci] = c[nat[i].ci]
      /\ \A i \in 1 .. m : ~IsCallback(nat[i]) => c2[nat[i].ci + 1] = c[nat[i].ci + 1]
      /\ m = Len(nat) /\ m > 0 /\ ~IsCallback(nat[m]) => nat[m].phase \in {"direct", "body"}
      /\ m > 0 => nat[m].ci <= new[m + 1].ci
      /\ IF IsCallback(new[m + 1]) THEN CallbackAt(new, c2, m + 1)
         ELSE GuardAt(new, c2, m + 1)
  BY DEF Kept, Calling, Fits
<1>1. Len(nat) \in Nat
  BY <1>0, LenProperties
<1>2. \A i \in 1 .. m : nat[i].ci \in Nat
  <2>1. \A i \in 1 .. m : nat[i] \in Frame
    BY <1>0, <1>1, ElementOfSeq
  <2> QED  BY <1>0, <2>1 DEF Frame
<1>3. new[m + 1].ci \in Nat
  <2>1. new[m + 1] \in Frame
    BY <1>0, ElementOfSeq
  <2> QED  BY <1>0, <2>1 DEF Frame
<1>4. ASSUME NEW i \in 1 .. Len(new), NEW j \in 1 .. Len(new), i <= j
      PROVE  new[i].ci <= new[j].ci
  <2>1. CASE j <= m
    <3>1. i \in 1 .. m /\ j \in 1 .. m /\ i \in 1 .. Len(nat) /\ j \in 1 .. Len(nat)
      BY <1>0, <1>1, <1>4, <2>1
    <3>2. nat[i].ci <= nat[j].ci
      BY <1>4, <3>1 DEF Nested
    <3> QED  BY <1>0, <3>1, <3>2
  <2>2. CASE j = m + 1 /\ i <= m
    <3>1. nat[i].ci <= nat[m].ci
      BY <1>0, <1>1, <2>2 DEF Nested
    <3> QED  BY <1>0, <1>1, <1>2, <1>3, <2>2, <3>1
  <2>3. CASE i = m + 1 /\ j = m + 1
    BY <1>0, <1>3, <2>3
  <2> QED  BY <1>0, <1>4, <2>1, <2>2, <2>3
<1>5. \A i \in 1 .. m + 1 : GuardsBelow(new, i) = GuardsBelow(nat, i)
  <2>1. m <= Len(nat) /\ m <= Len(new) /\ \A i \in 1 .. m : new[i].kind = nat[i].kind
    BY <1>0, <1>1
  <2> QED  BY <1>0, <2>1, GuardsSame
<1>6. ASSUME NEW i \in 1 .. Len(new)
      PROVE  IF IsCallback(new[i]) THEN CallbackAt(new, c2, i) ELSE GuardAt(new, c2, i)
  <2>1. CASE i = m + 1
    BY <1>0, <2>1
  <2>2. CASE i <= m /\ IsCallback(nat[i])
    <3>1. i > 1 /\ CallbackAt(nat, c, i)
      BY <1>0, <1>1, <2>2 DEF Linked, Nested
    <3>2. i \in 1 .. m /\ i - 1 \in 1 .. m
      BY <1>0, <1>1, <2>2, <3>1
    <3>3. new[i] = nat[i] /\ new[i - 1] = nat[i - 1] /\ c2[nat[i].ci] = c[nat[i].ci]
      BY <1>0, <3>2
    <3> QED  BY <1>0, <2>2, <3>1, <3>3 DEF CallbackAt
  <2>3. CASE i <= m /\ ~IsCallback(nat[i])
    <3>1. GuardAt(nat, c, i)
      BY <1>0, <1>1, <2>3 DEF Nested
    <3>0. i \in 1 .. m /\ i \in 1 .. m + 1 /\ (i # 1 => i - 1 \in 1 .. m)
      BY <1>0, <1>1, <2>3
    <3>2. /\ new[i] = nat[i]
          /\ i # 1 => new[i - 1] = nat[i - 1]
          /\ c2[nat[i].ci] = c[nat[i].ci]
          /\ c2[nat[i].ci + 1] = c[nat[i].ci + 1]
          /\ GuardsBelow(new, i) = GuardsBelow(nat, i)
      BY <1>0, <1>5, <2>3, <3>0
    <3>3. nat[i].phase \in {"direct", "body"}
      BY <1>0, <1>1, <2>3, Steps
    <3> QED  BY <1>0, <2>3, <3>1, <3>2, <3>3 DEF GuardAt
  <2> QED  BY <1>0, <1>1, <2>1, <2>2, <2>3
<1> QED  BY <1>0, <1>4, <1>6 DEF Nested

(* The guard's function begins or calls a callback: the frames of the two. *)
LEMMA OrderedCallback ==
  ASSUME NEW nat \in Seq(Frame), NEW jmp, NEW c, NEW calls, NEW s,
         Linked(nat, jmp), Ordered(nat, c, calls, s),
         nat # <<>>, ~IsCallback(nat[Len(nat)]),
         NEW f \in Frame, NEW p \in {"direct", "body"},
         Rephased(f, nat[Len(nat)], p),
         nat[Len(nat)].phase = IF p = "direct" THEN "enter" ELSE "body",
         NEW g \in Frame, IsCallback(g), g.ci = Len(c) + 1,
         NEW k \in Nat, NEW s2 \in Seq(Slot), k <= Len(s2),
         IF p = "direct" THEN k = f.func ELSE k = Len(s) + 1,
         s \in Seq(Slot)
  PROVE  Ordered(Append(ReplaceAt(nat, Len(nat), f), g), Append(c, k), calls, s2)
<1> DEFINE n   == Len(nat)
           mid == ReplaceAt(nat, n, f)
           new == Append(mid, g)
           c2  == Append(c, k)
<1>1. n \in Nat /\ n >= 1 /\ Len(c) \in Nat /\ Len(s) \in Nat /\ Len(s2) \in Nat
  BY LenProperties, EmptySeq DEF Ordered, Rising
<1>2. nat[n] \in Frame
  BY <1>1, ElementOfSeq
<1>3. /\ f.kind = nat[n].kind /\ f.ci = nat[n].ci /\ f.nCcalls = nat[n].nCcalls
      /\ f.func = nat[n].func /\ f.pops = nat[n].pops /\ f.errfunc = nat[n].errfunc
      /\ f.prev = nat[n].prev /\ f.phase = p
      /\ f.ci \in Nat /\ f.func \in Nat /\ f.pops \in Nat
  <2>1. f.ci \in Nat /\ f.func \in Nat
    BY f \in Frame DEF Frame
  <2>2. f.pops \in 0 .. 2
    BY f \in Frame DEF Frame
  <2> QED  BY <2>1, <2>2 DEF Rephased
<1>4. /\ mid \in Seq(Frame)
      /\ Len(mid) = n
      /\ \A i \in 1 .. n : mid[i] = IF i = n THEN f ELSE nat[i]
      /\ GuardsOf(mid) = GuardsOf(nat)
      /\ \A i : GuardsBelow(mid, i) = GuardsBelow(nat, i)
  BY <1>3, GuardsTouch
<1>5. Linked(mid, jmp)
  BY <1>3, LinkedTouch
<1> HIDE DEF mid
<1>41. n \in 1 .. n /\ mid[n] = f /\ ~IsCallback(mid[n]) /\ (n # 1 => mid[n - 1] = nat[n - 1])
  <2>1. n \in 1 .. n
    BY <1>1
  <2>2. mid[n] = f
    BY <1>4, <2>1
  <2>3. n # 1 => mid[n - 1] = nat[n - 1]
    BY <1>1, <1>4
  <2> QED  BY <1>3, <2>1, <2>2, <2>3 DEF IsCallback
<1>6. /\ new \in Seq(Frame)
      /\ Len(new) = n + 1
      /\ \A i \in 1 .. n : new[i] = mid[i]
      /\ new[n + 1] = g
      /\ Cardinality(GuardsOf(new)) = Cardinality(GuardsOf(nat))
  <2>1. Len(mid) \in Nat
    BY <1>1, <1>4
  <2>2. Cardinality(GuardsOf(new)) = Cardinality(GuardsOf(mid))
    BY <1>4, GuardsPush
  <2> QED  BY <1>4, <2>1, <2>2, AppendProperties
<1>7. /\ c \in Seq(Nat) /\ c2 \in Seq(Nat)
      /\ Len(c2) = Len(c) + 1
      /\ \A i \in 1 .. Len(c) : c2[i] = c[i]
      /\ c2[Len(c) + 1] = k
  BY <1>1, AppendProperties DEF Ordered, Rising
<1> HIDE DEF new, c2
<1>8. /\ p = "direct" => Len(c) = f.ci
      /\ p = "body" => Within(Len(c), f.ci + 1) /\ c[Len(c)] <= Len(s) + 1
      /\ f.func <= Len(s)
      /\ AtLeast(calls, Cardinality(GuardsOf(nat)))
  BY <1>1, <1>3 DEF Ordered, AtGuard
<1>81. Len(c) >= f.ci
  BY <1>1, <1>3, <1>8 DEF AtLeast, Within
<1>9. GuardAt(nat, c, n)
  BY <1>1 DEF Ordered, Nested
<1>10. \A i \in 1 .. n : nat[i].ci \in 1 .. Len(c)
  BY <1>1, Heights, Grounded
<1>11. f.ci \in 1 .. Len(c)
  BY <1>1, <1>3, <1>10
<1>12. \A i \in 1 .. Len(c) : c[i] \in Nat /\ c[i] <= k
  <2>1. c[Len(c)] <= k
    <3>1. CASE p = "direct"
      <4>1. f.func > c[f.ci] + f.pops
        BY <1>3, <1>9 DEF GuardAt
      <4>2. c[f.ci] \in Nat /\ f.ci = Len(c) /\ k = f.func
        <5>1. c[f.ci] \in Nat
          BY <1>7, <1>11, ElementOfSeq
        <5>2. f.ci = Len(c) /\ k = f.func
          BY <1>1, <1>3, <1>8, <3>1
        <5> QED  BY <5>1, <5>2
      <4> QED  BY <1>3, <4>1, <4>2
    <3>2. CASE p = "body"
      BY <1>8, <3>2
    <3> QED  BY <3>1, <3>2
  <2>2. \A i \in 1 .. Len(c) : c[i] \in Nat /\ c[i] <= c[Len(c)]
    BY <1>1, <1>7, ElementOfSeq DEF Ordered, Rising
  <2>3. c[Len(c)] \in Nat
    BY <1>1, <1>11, <2>2
  <2> QED  BY <2>1, <2>2, <2>3
<1>13. Rising(c2)
  <2>1. ASSUME NEW i \in 1 .. Len(c2), NEW j \in 1 .. Len(c2), i <= j
        PROVE  c2[i] <= c2[j]
    <3>1. CASE j <= Len(c)
      <4>1. i \in 1 .. Len(c) /\ j \in 1 .. Len(c)
        BY <1>1, <1>7, <2>1, <3>1
      <4>2. c[i] <= c[j]
        BY <2>1, <4>1 DEF Ordered, Rising
      <4> QED  BY <1>7, <4>1, <4>2
    <3>2. CASE j = Len(c) + 1 /\ i <= Len(c)
      <4>1. i \in 1 .. Len(c)
        BY <1>1, <1>7, <3>2
      <4> QED  BY <1>7, <1>12, <3>2, <4>1
    <3>3. CASE j = Len(c) + 1 /\ i = Len(c) + 1
      BY <1>7, <3>3
    <3> QED  BY <1>1, <1>7, <3>1, <3>2, <3>3
  <2> QED  BY <1>1, <1>7, <2>1 DEF Rising
<1>14. \A i \in 1 .. n - 1 : ~IsCallback(nat[i]) => nat[i].ci + 1 \in 1 .. Len(c)
  <2>1. \A i \in 1 .. n - 1 : ~IsCallback(nat[i]) => nat[i].ci + 1 <= nat[i + 1].ci
    BY Steps DEF Ordered
  <2>2. \A i \in 1 .. n - 1 : i \in 1 .. n /\ i + 1 \in 1 .. n
    BY <1>1
  <2>3. \A a, b \in 1 .. Len(c) : a + 1 <= b => a + 1 \in 1 .. Len(c)
    BY ONLY <1>1
  <2> QED  BY ONLY <1>10, <2>1, <2>2, <2>3
<1>15. Nested(mid, c2)
  <2>1. GuardAt(mid, c2, n)
    <3>1. c2[f.ci] = c[f.ci]
      BY <1>7, <1>11
    <3>2. c2[f.ci + 1] = f.func
      <4>1. CASE p = "direct"
        BY <1>1, <1>3, <1>7, <1>8, <4>1
      <4>2. CASE p = "body"
        <5>1. c[f.ci + 1] = f.func
          BY <1>3, <1>9, <4>2 DEF GuardAt
        <5>2. f.ci + 1 \in 1 .. Len(c)
          BY <1>1, <1>3, <1>8, <4>2 DEF Within
        <5> QED  BY <1>7, <5>1, <5>2
      <4> QED  BY <4>1, <4>2
    <3> QED  BY <1>1, <1>3, <1>4, <1>41, <1>9, <3>1, <3>2 DEF GuardAt
  <2>2. PICK m \in Nat : n = m + 1
    BY <1>1
  <2>3. \A i \in 1 .. m : i \in 1 .. n /\ i # n
    BY <2>2
  <2>4. \A i \in 1 .. m : mid[i] = nat[i]
    BY <1>4, <2>3
  <2>5. \A i \in 1 .. m : c2[nat[i].ci] = c[nat[i].ci]
    BY <1>7, <1>10, <2>3
  <2>6. \A i \in 1 .. m : ~IsCallback(nat[i]) => c2[nat[i].ci + 1] = c[nat[i].ci + 1]
    <3>1. m = n - 1
      BY <2>2
    <3> QED  BY <1>7, <1>14, <3>1
  <2>7. m > 0 => nat[m].ci <= mid[m + 1].ci
    <3>1. m > 0 => nat[m].ci <= nat[n].ci
      BY <1>1, <2>2 DEF Ordered, Nested
    <3> QED  BY <1>3, <1>41, <2>2, <3>1
  <2>8. Fits(mid, c2, m)
    <3>1. m > 0 => mid[m].ci <= mid[m + 1].ci
      BY <2>4, <2>7
    <3> QED  BY <1>41, <2>1, <2>2, <3>1 DEF Fits
  <2>9. Kept(nat, c, mid, c2, m)
    BY <1>4, <2>2, <2>4, <2>5, <2>6 DEF Kept
  <2>10. Calling(nat, m) /\ Nested(nat, c)
    BY <2>2 DEF Calling, Ordered
  <2> QED  BY <1>4, <2>8, <2>9, <2>10, NestedPrefix
<1>16. Nested(new, c2)
  <2>0. new[n] = f /\ new[n + 1] = g /\ n + 1 - 1 = n
    BY <1>1, <1>41, <1>6
  <2>1. CallbackAt(new, c2, n + 1)
    <3>1. c2[g.ci] = k
      BY <1>7
    <3>2. CASE p = "direct"
      <4>1. Within(g.ci, f.ci + 1)
        BY <1>3, <1>8, <3>2 DEF Within
      <4>2. k >= f.func + 1 - 1 /\ f.phase = "direct"
        BY <1>3, <3>2
      <4> QED  BY ONLY <2>0, <3>1, <4>1, <4>2 DEF CallbackAt
    <3>3. CASE p = "body"
      <4>1. Within(g.ci, f.ci + 2)
        BY <1>1, <1>3, <1>8, <3>3 DEF Within
      <4>2. k >= f.func + 1
        BY <1>1, <1>3, <1>8, <3>3
      <4>3. f.phase # "direct" /\ f.func + 1 = f.func + 2 - 1
        BY <1>3, <3>3
      <4> QED  BY ONLY <2>0, <3>1, <4>1, <4>2, <4>3 DEF CallbackAt
    <3> QED  BY <3>2, <3>3
  <2>2. mid[n].ci <= new[n + 1].ci
    BY <1>1, <1>3, <1>41, <1>81, <2>0
  <2>3. mid[n].phase \in {"direct", "body"}
    BY <1>3, <1>41
  <2>4. Fits(new, c2, n)
    BY <1>41, <1>6, <2>0, <2>1, <2>2 DEF Fits
  <2>5. Kept(mid, c2, new, c2, n)
    BY <1>4, <1>6 DEF Kept
  <2>6. Calling(mid, n)
    BY <2>3 DEF Calling
  <2> QED  BY <1>1, <1>4, <1>5, <1>6, <1>15, <2>4, <2>5, <2>6, NestedPrefix
<1>17. AtCallback(new, c2, calls, s2)
  BY <1>1, <1>6, <1>7, <1>8 DEF AtCallback, AtLeast
<1>18. AtProgram(new, c2, calls) /\ AtGuard(new, c2, calls, s2)
  <2>1. new # <<>>
    BY <1>1, <1>6
  <2> QED  BY <1>6, <2>1 DEF AtProgram, AtGuard
<1>19. Ordered(new, c2, calls, s2)
  BY <1>13, <1>16, <1>17, <1>18 DEF Ordered
<1> QED  BY <1>19 DEF new, mid, c2

(* The guard's function is a Lua function, which gets a call info. *)
LEMMA OrderedEnterLua ==
  ASSUME NEW nat \in Seq(Frame), NEW jmp, NEW c, NEW calls, NEW s \in Seq(Slot),
         Linked(nat, jmp), Ordered(nat, c, calls, s),
         nat # <<>>, ~IsCallback(nat[Len(nat)]), nat[Len(nat)].phase = "enter",
         NEW f \in Frame, Rephased(f, nat[Len(nat)], "body")
  PROVE  Ordered(ReplaceAt(nat, Len(nat), f), Append(c, f.func), calls, s)
<1> DEFINE n   == Len(nat)
           new == ReplaceAt(nat, n, f)
           c2  == Append(c, f.func)
<1>1. n \in Nat /\ n >= 1 /\ Len(c) \in Nat /\ Len(s) \in Nat
  BY LenProperties, EmptySeq DEF Ordered, Rising
<1>2. /\ f.kind = nat[n].kind /\ f.ci = nat[n].ci /\ f.nCcalls = nat[n].nCcalls
      /\ f.func = nat[n].func /\ f.pops = nat[n].pops /\ f.errfunc = nat[n].errfunc
      /\ f.prev = nat[n].prev /\ f.phase = "body"
      /\ f.ci \in Nat /\ f.func \in Nat /\ f.pops \in Nat
  <2>1. f.ci \in Nat /\ f.func \in Nat
    BY f \in Frame DEF Frame
  <2>2. f.pops \in 0 .. 2
    BY f \in Frame DEF Frame
  <2> QED  BY <2>1, <2>2 DEF Rephased
<1>3. /\ new \in Seq(Frame)
      /\ Len(new) = n
      /\ \A i \in 1 .. n : new[i] = IF i = n THEN f ELSE nat[i]
      /\ GuardsOf(new) = GuardsOf(nat)
      /\ \A i : GuardsBelow(new, i) = GuardsBelow(nat, i)
  BY <1>2, GuardsTouch
<1>4. /\ c \in Seq(Nat) /\ c2 \in Seq(Nat)
      /\ Len(c2) = Len(c) + 1
      /\ \A i \in 1 .. Len(c) : c2[i] = c[i]
      /\ c2[Len(c) + 1] = f.func
  BY <1>1, <1>2, AppendProperties DEF Ordered, Rising
<1> HIDE DEF new, c2
<1>5. n \in 1 .. n /\ new[n] = f /\ ~IsCallback(new[n]) /\ (n # 1 => new[n - 1] = nat[n - 1])
  <2>1. n \in 1 .. n
    BY <1>1
  <2>2. new[n] = f
    BY <1>3, <2>1
  <2>3. n # 1 => new[n - 1] = nat[n - 1]
    BY <1>1, <1>3
  <2> QED  BY <1>2, <2>1, <2>2, <2>3 DEF IsCallback
<1>6. Len(c) = f.ci /\ f.func <= Len(s) /\ AtLeast(calls, Cardinality(GuardsOf(nat)))
  BY <1>1, <1>2 DEF Ordered, AtGuard
<1>7. GuardAt(nat, c, n)
  BY <1>1 DEF Ordered, Nested
<1>8. \A i \in 1 .. n : nat[i].ci \in 1 .. Len(c)
  BY <1>1, Heights, Grounded
<1>9. f.ci \in 1 .. Len(c)
  BY <1>1, <1>2, <1>8
<1>10. \A i \in 1 .. Len(c) : c[i] \in Nat /\ c[i] <= f.func
  <2>1. f.func > c[f.ci] + f.pops
    BY <1>2, <1>7 DEF GuardAt
  <2>2. \A i \in 1 .. Len(c) : c[i] \in Nat /\ c[i] <= c[Len(c)]
    BY <1>1, <1>4, ElementOfSeq DEF Ordered, Rising
  <2>3. c[f.ci] \in Nat
    BY <1>9, <2>2
  <2> QED  BY <1>2, <1>6, <2>1, <2>2, <2>3
<1>11. Rising(c2)
  <2>1. ASSUME NEW i \in 1 .. Len(c2), NEW j \in 1 .. Len(c2), i <= j
        PROVE  c2[i] <= c2[j]
    <3>1. CASE j <= Len(c)
      <4>1. i \in 1 .. Len(c) /\ j \in 1 .. Len(c)
        BY <1>1, <1>4, <2>1, <3>1
      <4>2. c[i] <= c[j]
        BY <2>1, <4>1 DEF Ordered, Rising
      <4> QED  BY <1>4, <4>1, <4>2
    <3>2. CASE j = Len(c) + 1 /\ i <= Len(c)
      <4>1. i \in 1 .. Len(c)
        BY <1>1, <1>4, <3>2
      <4> QED  BY <1>4, <1>10, <3>2, <4>1
    <3>3. CASE j = Len(c) + 1 /\ i = Len(c) + 1
      BY <1>2, <1>4, <3>3
    <3> QED  BY <1>1, <1>4, <3>1, <3>2, <3>3
  <2> QED  BY <1>1, <1>4, <2>1 DEF Rising
<1>12. Nested(new, c2)
  <2>1. GuardAt(new, c2, n)
    <3>1. c2[f.ci] = c[f.ci] /\ c2[f.ci + 1] = f.func
      BY <1>4, <1>6, <1>9
    <3> QED  BY <1>1, <1>2, <1>3, <1>5, <1>7, <3>1 DEF GuardAt
  <2>2. PICK m \in Nat : n = m + 1
    BY <1>1
  <2>3. \A i \in 1 .. m : i \in 1 .. n /\ i # n /\ i \in 1 .. n - 1
    BY <2>2
  <2>4. \A i \in 1 .. m : new[i] = nat[i]
    BY <1>3, <2>3
  <2>5. \A i \in 1 .. m : c2[nat[i].ci] = c[nat[i].ci]
    BY <1>4, <1>8, <2>3
  <2>6. \A i \in 1 .. m : ~IsCallback(nat[i]) => c2[nat[i].ci + 1] = c[nat[i].ci + 1]
    <3>1. \A i \in 1 .. n - 1 : ~IsCallback(nat[i]) => nat[i].ci + 1 <= nat[i + 1].ci
      BY Steps DEF Ordered
    <3>2. \A i \in 1 .. n - 1 : i \in 1 .. n /\ i + 1 \in 1 .. n
      BY <1>1
    <3>3. \A i \in 1 .. n - 1 : ~IsCallback(nat[i]) => nat[i].ci + 1 \in 1 .. Len(c)
      <4>1. \A a, b \in 1 .. Len(c) : a + 1 <= b => a + 1 \in 1 .. Len(c)
        BY ONLY <1>1
      <4> QED  BY ONLY <1>8, <3>1, <3>2, <4>1
    <3> QED  BY <1>4, <2>3, <3>3
  <2>7. Fits(new, c2, m)
    <3>1. m > 0 => nat[m].ci <= nat[n].ci
      BY <1>1, <2>2 DEF Ordered, Nested
    <3>2. m > 0 => new[m].ci <= new[m + 1].ci
      BY <1>2, <1>5, <2>2, <2>4, <3>1
    <3> QED  BY <1>5, <2>1, <2>2, <3>2 DEF Fits
  <2>8. Kept(nat, c, new, c2, m)
    BY <1>3, <2>2, <2>4, <2>5, <2>6 DEF Kept
  <2>9. Calling(nat, m) /\ Nested(nat, c)
    BY <2>2 DEF Calling, Ordered
  <2> QED  BY <1>3, <2>7, <2>8, <2>9, NestedPrefix
<1>13. AtGuard(new, c2, calls, s)
  <2>1. Within(Len(c2), f.ci + 1) /\ c2[Len(c2)] <= Len(s) + 1
    BY <1>1, <1>2, <1>4, <1>6 DEF Within
  <2> QED  BY <1>2, <1>3, <1>5, <1>6, <2>1 DEF AtGuard
<1>14. AtProgram(new, c2, calls) /\ AtCallback(new, c2, calls, s)
  <2>1. new # <<>>
    BY <1>1, <1>3
  <2> QED  BY <1>3, <1>5, <2>1 DEF AtProgram, AtCallback
<1>15. Ordered(new, c2, calls, s)
  BY <1>11, <1>12, <1>13, <1>14 DEF Ordered
<1> QED  BY <1>15 DEF new, c2

(* The lowest h call infos. *)
Lowered(c, c2, h) ==
  /\ h \in Nat
  /\ h <= Len(c)
  /\ c2 \in Seq(Nat)
  /\ Len(c2) = h
  /\ \A i \in 1 .. h : c2[i] = c[i]

(* Returning from a function leaves the call infos below the last one. *)
LEMMA LoweredToFront ==
  ASSUME NEW c \in Seq(Nat), NEW c2 \in Seq(Nat), NEW h \in Nat,
         Len(c) \in Nat, Len(c) = h + 1, Len(c2) = Len(c) - 1,
         \A i \in 1 .. Len(c) - 1 : c2[i] = c[i]
  PROVE  Lowered(c, c2, h)
<1>1. Len(c) - 1 = h /\ h <= Len(c)
  OBVIOUS
<1> QED  BY ONLY <1>1, c2 \in Seq(Nat), h \in Nat, Len(c2) = Len(c) - 1,
                 \A i \in 1 .. Len(c) - 1 : c2[i] = c[i] DEF Lowered

(* The frames up to the m-th, with f in its place. *)
Unwound(nat, new, m, f) ==
  /\ new \in Seq(Frame)
  /\ Len(new) = m
  /\ \A i \in 1 .. m - 1 : new[i] = nat[i]
  /\ new[m] = f

(* Call infos that are popped were above those that remain. *)
LEMMA RisingLowered ==
  ASSUME NEW c, Rising(c), NEW c2, NEW h, Lowered(c, c2, h), h >= 1
  PROVE  Rising(c2)
<1>1. Len(c) \in Nat
  BY LenProperties DEF Rising
<1>2. ASSUME NEW i \in 1 .. Len(c2), NEW j \in 1 .. Len(c2), i <= j
      PROVE  c2[i] <= c2[j]
  <2>1. i \in 1 .. Len(c) /\ j \in 1 .. Len(c) /\ i \in 1 .. h /\ j \in 1 .. h
    BY <1>1 DEF Lowered
  <2>2. c[i] <= c[j]
    BY <1>2, <2>1 DEF Rising
  <2> QED  BY <2>1, <2>2 DEF Lowered
<1> QED  BY <1>2 DEF Rising, Lowered

(* The frames that are unwound to stand as they stood. *)
LEMMA NestedUnwound ==
  ASSUME NEW nat \in Seq(Frame), NEW jmp, NEW c, NEW calls, NEW s,
         Linked(nat, jmp), Ordered(nat, c, calls, s),
         NEW m \in Nat, m >= 1, m <= Len(nat), ~IsCallback(nat[m]),
         NEW f \in Frame, Rephased(f, nat[m], f.phase),
         NEW new, Unwound(nat, new, m, f),
         NEW c2, NEW h, Lowered(c, c2, h), h >= f.ci,
         f.phase = "done" \/ (f.phase = "body" /\ c2[f.ci + 1] = f.func)
  PROVE  Nested(new, c2) /\ f.ci \in 1 .. h /\ c2[f.ci] = c[f.ci]
<1>1. Len(nat) \in Nat /\ Len(c) \in Nat /\ h \in Nat /\ m \in 1 .. Len(nat)
  BY LenProperties DEF Ordered, Rising, Lowered
<1>2. \A i \in 1 .. Len(nat) : nat[i].ci \in 1 .. Len(c)
  BY <1>1, Heights, Grounded
<1>3. /\ f.kind = nat[m].kind /\ f.ci = nat[m].ci /\ f.nCcalls = nat[m].nCcalls
      /\ f.func = nat[m].func /\ f.pops = nat[m].pops /\ f.errfunc = nat[m].errfunc
  BY DEF Rephased
<1>4. f.ci \in 1 .. h
  BY <1>1, <1>2, <1>3
<1>5. c2[f.ci] = c[f.ci]
  BY <1>4 DEF Lowered
<1>6. \A i \in 1 .. m - 1 : i \in 1 .. Len(nat) /\ i \in 1 .. Len(nat) - 1 /\ i + 1 \in 1 .. Len(nat)
  BY <1>1
<1>7. ASSUME NEW i \in 1 .. m - 1
      PROVE  /\ nat[i].ci \in 1 .. h
             /\ ~IsCallback(nat[i]) => nat[i].ci + 1 \in 1 .. h
             /\ nat[i].ci <= f.ci
  <2>1. nat[i].ci <= nat[m].ci /\ nat[i + 1].ci <= nat[m].ci
    BY <1>1, <1>6 DEF Ordered, Nested
  <2>2. ~IsCallback(nat[i]) => nat[i].ci + 1 <= nat[i + 1].ci
    BY <1>6, Steps DEF Ordered
  <2>3. nat[i].ci \in 1 .. Len(c) /\ nat[i + 1].ci \in 1 .. Len(c)
    BY <1>2, <1>6
  <2> QED  BY <1>1, <1>3, <1>4, <2>1, <2>2, <2>3
<1>8. PICK k \in Nat : m = k + 1
  BY <1>1
<1>9. \A i \in 1 .. k : i \in 1 .. m - 1
  BY <1>8
<1>10. Kept(nat, c, new, c2, k)
  <2>1. \A i \in 1 .. k : new[i] = nat[i]
    BY <1>9 DEF Unwound
  <2>2. \A i \in 1 .. k : c2[nat[i].ci] = c[nat[i].ci]
    BY <1>7, <1>9 DEF Lowered
  <2>3. \A i \in 1 .. k : ~IsCallback(nat[i]) => c2[nat[i].ci + 1] = c[nat[i].ci + 1]
    BY <1>7, <1>9 DEF Lowered
  <2>4. k <= Len(nat) /\ Len(new) = k + 1
    BY <1>1, <1>8 DEF Unwound
  <2> QED  BY <2>1, <2>2, <2>3, <2>4 DEF Kept
<1>11. new \in Seq(Frame) /\ Len(new) = m /\ new[m] = f /\ ~IsCallback(new[m])
  BY <1>3 DEF Unwound, IsCallback
<1>12. GuardAt(new, c2, m)
  <2>1. GuardAt(nat, c, m)
    BY <1>1 DEF Ordered, Nested
  <2>2. m # 1 => new[m - 1] = nat[m - 1]
    <3>1. m # 1 => m - 1 \in 1 .. m - 1
      BY <1>1
    <3> QED  BY <3>1 DEF Unwound
  <2>3. GuardsBelow(new, m) = GuardsBelow(nat, m)
    <3>1. \A i \in 1 .. k : new[i].kind = nat[i].kind
      BY <1>10 DEF Kept
    <3>2. k <= Len(nat) /\ k <= Len(new) /\ m \in 1 .. k + 1
      BY <1>1, <1>8, <1>11
    <3>3. \A i \in 1 .. k + 1 : GuardsBelow(new, i) = GuardsBelow(nat, i)
      BY <1>11, <3>1, <3>2, GuardsSame
    <3> QED  BY <3>2, <3>3
  <2> QED  BY <1>1, <1>3, <1>5, <1>11, <2>1, <2>2, <2>3 DEF GuardAt
<1>13. Fits(new, c2, k)
  <2>1. k > 0 => k \in 1 .. m - 1 /\ new[k] = nat[k]
    BY <1>8, <1>9 DEF Unwound
  <2>2. k > 0 => new[k].ci <= new[k + 1].ci
    BY <1>7, <1>8, <1>11, <2>1
  <2> QED  BY <1>8, <1>11, <1>12, <2>2 DEF Fits
<1>14. Calling(nat, k) /\ Nested(nat, c)
  BY <1>1, <1>8 DEF Calling, Ordered
<1> QED  BY <1>4, <1>5, <1>10, <1>11, <1>13, <1>14, NestedPrefix

(* What lies within its bound lies at or above it. *)
LEMMA WithinAtLeast ==
  ASSUME NEW a, NEW b, Within(a, b)
  PROVE  AtLeast(a, b)
BY DEF Within, AtLeast, Through, Tight

(* What is at least at least as much is at least as much. *)
LEMMA AtLeastTransitive ==
  ASSUME NEW a \in Int, NEW b \in Int, NEW d \in Int, AtLeast(a, b), AtLeast(b, d)
  PROVE  AtLeast(a, d)
BY DEF AtLeast

(* A guard's call has ended, normally or by a raise that landed there. *)
LEMMA OrderedDone ==
  ASSUME NEW nat \in Seq(Frame), NEW jmp, NEW c, NEW calls, NEW s,
         Linked(nat, jmp), Ordered(nat, c, calls, s),
         NEW m \in Nat, m >= 1, m <= Len(nat), ~IsCallback(nat[m]),
         NEW f \in Frame, Rephased(f, nat[m], "done"),
         NEW new, Unwound(nat, new, m, f),
         NEW c2, NEW h, Lowered(c, c2, h), AtLeast(h, f.ci),
         NEW calls2, AtLeast(calls2, Cardinality(GuardsBelow(nat, m))),
         NEW s2, f.func <= Len(s2) + 1
  PROVE  Ordered(new, c2, calls2, s2)
<1>1. f.phase = "done" /\ h >= f.ci /\ Rephased(f, nat[m], f.phase) /\ f.kind = nat[m].kind
  BY DEF Rephased, AtLeast
<1>2. Nested(new, c2) /\ f.ci \in 1 .. h
  BY <1>1, NestedUnwound
<1>3. h >= 1
  BY <1>2 DEF Lowered
<1>4. Rising(c2)
  BY <1>3, RisingLowered DEF Ordered
<1>5. new \in Seq(Frame) /\ Len(new) = m /\ new[m] = f /\ ~IsCallback(new[m])
  BY <1>1 DEF Unwound, IsCallback
<1>6. new # <<>>
  BY <1>5
<1>7. GuardsBelow(new, m) = GuardsBelow(nat, m)
  <2>1. PICK k \in Nat : m = k + 1
    OBVIOUS
  <2>2. \A i \in 1 .. k : new[i].kind = nat[i].kind
    BY <2>1 DEF Unwound
  <2>3. k <= Len(nat) /\ k <= Len(new) /\ m \in 1 .. k + 1
    BY <1>5, <2>1, LenProperties
  <2>4. \A i \in 1 .. k + 1 : GuardsBelow(new, i) = GuardsBelow(nat, i)
    BY <1>5, <2>2, <2>3, GuardsSame
  <2> QED  BY <2>3, <2>4
<1>8. Cardinality(GuardsOf(new)) - 1 = Cardinality(GuardsBelow(nat, m))
  <2>1. Cardinality(GuardsOf(new)) = Cardinality(GuardsBelow(new, m)) + 1
    BY <1>5, <1>6, GuardsTop
  <2>2. Cardinality(GuardsBelow(new, m)) \in Nat
    BY <1>5, GuardsFinite
  <2> QED  BY <1>7, <2>1, <2>2
<1>9. AtGuard(new, c2, calls2, s2)
  <2>1. Len(c2) = h
    BY DEF Lowered
  <2> QED  BY <1>1, <1>5, <1>8, <2>1 DEF AtGuard
<1>10. AtProgram(new, c2, calls2) /\ AtCallback(new, c2, calls2, s2)
  BY <1>5, <1>6 DEF AtProgram, AtCallback
<1> QED  BY <1>2, <1>4, <1>9, <1>10 DEF Ordered

(* A callback has returned to the Lua function that called it. *)
LEMMA OrderedBack ==
  ASSUME NEW nat \in Seq(Frame), NEW jmp, NEW c, NEW calls, NEW s,
         Linked(nat, jmp), Ordered(nat, c, calls, s),
         nat # <<>>, IsCallback(nat[Len(nat)]), nat[Len(nat) - 1].phase = "body",
         Len(c) = nat[Len(nat)].ci,
         NEW s2, Len(s2) = c[Len(c)] - 1
  PROVE  Ordered(Front(nat), Front(c), calls, s2)
<1> DEFINE n   == Len(nat)
           new == Front(nat)
           c2  == Front(c)
           f   == nat[n - 1]
<1>1. n \in Nat /\ n >= 2 /\ ~IsCallback(f) /\ n - 1 \in 1 .. n /\ Len(c) \in Nat
  <2>1. n \in Nat /\ n >= 1 /\ Len(c) \in Nat
    BY LenProperties, EmptySeq DEF Ordered, Rising
  <2>2. n > 1 /\ ~IsCallback(nat[n - 1])
    BY <2>1 DEF Linked
  <2> QED  BY <2>1, <2>2
<1>2. CallbackAt(nat, c, n) /\ GuardAt(nat, c, n - 1)
  BY <1>1 DEF Ordered, Nested
<1>3. f \in Frame /\ f.ci \in Nat /\ f.func \in Nat
  <2>1. f \in Frame
    BY <1>1, ElementOfSeq
  <2> QED  BY <2>1 DEF Frame
<1>4. Within(Len(c), f.ci + 2) /\ c[Len(c)] >= f.func + 1 /\ c[f.ci + 1] = f.func
  BY <1>2, <1>3 DEF CallbackAt, GuardAt
<1> DEFINE h == Len(c) - 1
<1>41. h \in Nat /\ h >= 1 /\ h >= f.ci + 1 /\ h >= f.ci /\ Within(h, f.ci + 1)
  BY <1>1, <1>3, <1>4 DEF Within
<1>5. Lowered(c, c2, h)
  <2>1. c \in Seq(Nat) /\ c # <<>>
    BY <1>1, <1>41 DEF Ordered, Rising
  <2>2. c2 \in Seq(Nat) /\ Len(c2) = Len(c) - 1 /\ \A i \in 1 .. Len(c) - 1 : c2[i] = c[i]
    BY <2>1, FrontOk
  <2>3. Len(c) \in Nat /\ Len(c) = h + 1
    BY <1>1
  <2> HIDE DEF c2, h
  <2> QED  BY <1>41, <2>1, <2>2, <2>3, LoweredToFront
<1>6. /\ new \in Seq(Frame)
      /\ Len(new) = n - 1
      /\ \A i \in 1 .. n - 1 : new[i] = nat[i]
      /\ Cardinality(GuardsOf(new)) = Cardinality(GuardsOf(nat))
  BY GuardsPop
<1> HIDE DEF new, c2
<1>7. new[n - 1] = f
  BY <1>1, <1>6
<1>8. Unwound(nat, new, n - 1, f)
  BY <1>1, <1>6, <1>7 DEF Unwound
<1>9. f.phase = "body" /\ Rephased(f, nat[n - 1], f.phase)
  BY DEF Rephased
<1>10. c2[f.ci + 1] = f.func
  <2>1. f.ci + 1 \in 1 .. h
    BY <1>3, <1>41
  <2>2. c2[f.ci + 1] = c[f.ci + 1]
    BY <1>5, <2>1 DEF Lowered
  <2> QED  BY <1>4, <2>2
<1>11. Nested(new, c2)
  <2> DEFINE m == n - 1
  <2>1. m \in Nat /\ m >= 1 /\ m <= Len(nat) /\ ~IsCallback(nat[m]) /\ Rephased(f, nat[m], f.phase)
    BY <1>1, <1>9
  <2>2. Unwound(nat, new, m, f) /\ Lowered(c, c2, h) /\ h >= f.ci
    BY <1>41, <1>5, <1>8
  <2> HIDE DEF f, m, h
  <2> QED  BY <1>3, <1>41, <1>9, <1>10, <2>1, <2>2, NestedUnwound
<1>12. Rising(c2)
  <2>1. h >= 1 /\ Lowered(c, c2, h)
    BY <1>41, <1>5
  <2> HIDE DEF h
  <2> QED  BY <2>1, RisingLowered DEF Ordered
<1>13. ~IsCallback(new[n - 1]) /\ new # <<>>
  BY <1>1, <1>6, <1>7
<1>14. AtLeast(calls, Cardinality(GuardsOf(nat)))
  BY <1>1 DEF Ordered, AtCallback
<1>15. AtGuard(new, c2, calls, s2)
  <2>1. Len(c2) = h /\ Within(Len(c2), f.ci + 1)
    BY <1>5, <1>41 DEF Lowered
  <2>2. f.func <= Len(s2)
    <3>1. c[Len(c)] \in Nat
      <4>1. Len(c) \in 1 .. Len(c) /\ c \in Seq(Nat)
        BY <1>1, <1>41 DEF Ordered, Rising
      <4> QED  BY <4>1, ElementOfSeq
    <3>2. Len(s2) = c[Len(c)] - 1
      OBVIOUS
    <3>3. \A a, b, d : a \in Nat /\ b \in Nat /\ b >= a + 1 /\ d = b - 1 => a <= d
      OBVIOUS
    <3> QED  BY ONLY <1>3, <1>4, <3>1, <3>2, <3>3
  <2>3. c2[Len(c2)] <= Len(s2) + 1
    <3>0. c2[h] = c[h]
      <4> HIDE DEF h
      <4>1. h \in 1 .. h
        BY <1>41
      <4> QED  BY <1>5, <4>1 DEF Lowered
    <3>1. c2[h] = c[h] /\ h \in 1 .. Len(c) /\ Len(c) \in 1 .. Len(c) /\ h <= Len(c)
      BY <1>1, <1>41, <3>0
    <3>2. c[h] <= c[Len(c)] /\ c[h] \in Nat /\ c[Len(c)] \in Nat
      BY <3>1, ElementOfSeq DEF Ordered, Rising
    <3> QED  BY <2>1, <3>1, <3>2
  <2> HIDE DEF h
  <2> QED  BY <1>6, <1>7, <1>9, <1>14, <2>1, <2>2, <2>3 DEF AtGuard
<1>16. AtProgram(new, c2, calls) /\ AtCallback(new, c2, calls, s2)
  BY <1>6, <1>13 DEF AtProgram, AtCallback
<1>17. Ordered(new, c2, calls, s2)
  BY <1>11, <1>12, <1>15, <1>16 DEF Ordered
<1> QED  BY <1>17 DEF new, c2

(* A callback has thrown into the Lua code above whose frame its own stays. *)
LEMMA OrderedThrough ==
  ASSUME NEW nat \in Seq(Frame), NEW jmp, NEW c, NEW calls, NEW s,
         Linked(nat, jmp), Ordered(nat, c, calls, s), Through,
         nat # <<>>, IsCallback(nat[Len(nat)]), nat[Len(nat) - 1].phase = "body",
         NEW s2, Len(s2) = c[Len(c)]
  PROVE  Ordered(Front(nat), c, calls, s2)
<1> DEFINE n   == Len(nat)
           new == Front(nat)
           f   == nat[n - 1]
           h   == Len(c)
<1>1. n \in Nat /\ n >= 2 /\ ~IsCallback(f) /\ n - 1 \in 1 .. n /\ n \in 1 .. n /\ h \in Nat
  <2>1. n \in Nat /\ n >= 1 /\ h \in Nat
    BY LenProperties, EmptySeq DEF Ordered, Rising
  <2>2. n > 1 /\ ~IsCallback(nat[n - 1])
    BY <2>1 DEF Linked
  <2> QED  BY <2>1, <2>2
<1>2. CallbackAt(nat, c, n) /\ GuardAt(nat, c, n - 1)
  BY <1>1 DEF Ordered, Nested
<1>3. f \in Frame /\ f.ci \in Nat /\ f.func \in Nat /\ nat[n].ci \in 1 .. h
  <2>1. f \in Frame
    BY <1>1, ElementOfSeq
  <2>2. \A i \in 1 .. n : nat[i].ci \in 1 .. h
    BY Heights, Grounded
  <2> QED  BY <1>1, <2>1, <2>2 DEF Frame
<1>4. nat[n].ci >= f.ci + 2 /\ c[nat[n].ci] >= f.func + 1 /\ c[f.ci + 1] = f.func
  BY <1>2, <1>3 DEF CallbackAt, GuardAt, AtLeast, Within
<1>5. h >= f.ci + 1 /\ h >= f.ci /\ h >= 1
  BY <1>1, <1>3, <1>4
<1>6. c[h] >= f.func + 1 /\ c[h] \in Nat
  <2>1. c \in Seq(Nat) /\ h \in 1 .. h /\ nat[n].ci <= h
    BY <1>1, <1>3, <1>5 DEF Ordered, Rising
  <2>2. c[nat[n].ci] <= c[h] /\ c[h] \in Nat /\ c[nat[n].ci] \in Nat
    BY <1>3, <2>1, ElementOfSeq DEF Ordered, Rising
  <2> QED  BY <1>3, <1>4, <2>2
<1>7. /\ new \in Seq(Frame)
      /\ Len(new) = n - 1
      /\ \A i \in 1 .. n - 1 : new[i] = nat[i]
      /\ Cardinality(GuardsOf(new)) = Cardinality(GuardsOf(nat))
  BY GuardsPop
<1> HIDE DEF new
<1>8. new[n - 1] = f
  BY <1>1, <1>7
<1>9. f.phase = "body" /\ Rephased(f, nat[n - 1], f.phase)
  BY DEF Rephased
<1>10. Nested(new, c)
  <2> DEFINE m == n - 1
  <2>1. m \in Nat /\ m >= 1 /\ m <= Len(nat) /\ ~IsCallback(nat[m]) /\ Rephased(f, nat[m], f.phase)
    BY <1>1, <1>9
  <2>2. Unwound(nat, new, m, f)
    BY <1>1, <1>7, <1>8 DEF Unwound
  <2>3. Lowered(c, c, h) /\ h >= f.ci
    BY <1>1, <1>5 DEF Lowered, Ordered, Rising
  <2> HIDE DEF f, m, h
  <2> QED  BY <1>3, <1>4, <1>9, <2>1, <2>2, <2>3, NestedUnwound
<1>11. ~IsCallback(new[n - 1]) /\ new # <<>>
  BY <1>1, <1>7, <1>8
<1>12. AtLeast(calls, Cardinality(GuardsOf(nat)))
  BY <1>1 DEF Ordered, AtCallback
<1>13. AtGuard(new, c, calls, s2)
  <2>1. Within(Len(c), f.ci + 1)
    BY <1>5 DEF Within
  <2>2. f.func <= Len(s2) /\ c[Len(c)] <= Len(s2) + 1
    BY <1>3, <1>6
  <2> HIDE DEF h
  <2> QED  BY <1>7, <1>8, <1>9, <1>12, <2>1, <2>2 DEF AtGuard
<1>14. AtProgram(new, c, calls) /\ AtCallback(new, c, calls, s2)
  BY <1>7, <1>11 DEF AtProgram, AtCallback
<1>15. Ordered(new, c, calls, s2)
  BY <1>10, <1>13, <1>14 DEF Ordered
<1> QED  BY <1>15 DEF new

(* The Lua code pops a frame that was left above its own. *)
LEMMA OrderedRunsOn ==
  ASSUME NEW nat \in Seq(Frame), NEW jmp, NEW c \in Seq(Nat), NEW calls,
         NEW s \in Seq(Slot), Linked(nat, jmp), Ordered(nat, c, calls, s),
         nat # <<>>, ~IsCallback(nat[Len(nat)]), nat[Len(nat)].phase = "body",
         Len(c) > nat[Len(nat)].ci + 1
  PROVE  Ordered(nat, Front(c), calls, s)
<1> DEFINE n  == Len(nat)
           f  == nat[n]
           c2 == Front(c)
           h  == Len(c) - 1
<1>1. n \in Nat /\ n >= 1 /\ n \in 1 .. n /\ Len(c) \in Nat
  BY LenProperties, EmptySeq
<1>2. f \in Frame /\ f.ci \in Nat
  <2>1. f \in Frame
    BY <1>1, ElementOfSeq
  <2> QED  BY <2>1 DEF Frame
<1>3. GuardAt(nat, c, n) /\ f.phase = "body" /\ ~IsCallback(f)
  BY <1>1 DEF Ordered, Nested
<1>4. h \in Nat /\ h >= 1 /\ h >= f.ci + 1 /\ h >= f.ci
  BY <1>1, <1>2
<1>5. /\ Within(Len(c), f.ci + 1) /\ AtLeast(calls, Cardinality(GuardsOf(nat)))
      /\ f.func <= Len(s) /\ c[Len(c)] <= Len(s) + 1
  BY <1>3 DEF Ordered, AtGuard
<1>6. Through
  BY <1>1, <1>2, <1>5 DEF Within
<1>7. Lowered(c, c2, h)
  <2>1. c # <<>>
    BY <1>1, <1>4
  <2>2. c2 \in Seq(Nat) /\ Len(c2) = Len(c) - 1 /\ \A i \in 1 .. Len(c) - 1 : c2[i] = c[i]
    BY <2>1, FrontOk
  <2>3. Len(c) = h + 1
    BY <1>1
  <2> HIDE DEF c2, h
  <2> QED  BY <1>1, <1>4, <2>2, <2>3, LoweredToFront
<1> HIDE DEF c2
<1>8. c2[f.ci + 1] = f.func
  <2>1. f.ci + 1 \in 1 .. h
    BY <1>2, <1>4
  <2>2. c2[f.ci + 1] = c[f.ci + 1]
    BY <1>7, <2>1 DEF Lowered
  <2> QED  BY <1>3, <2>2 DEF GuardAt
<1>9. Nested(nat, c2)
  <2> DEFINE m == n
  <2>1. m \in Nat /\ m >= 1 /\ m <= Len(nat) /\ ~IsCallback(nat[m]) /\ Rephased(f, nat[m], f.phase)
    BY <1>1, <1>3 DEF Rephased
  <2>2. Unwound(nat, nat, m, f)
    BY <1>1 DEF Unwound
  <2>3. Lowered(c, c2, h) /\ h >= f.ci
    BY <1>4, <1>7
  <2> HIDE DEF f, m, h
  <2> QED  BY <1>2, <1>3, <1>8, <2>1, <2>2, <2>3, NestedUnwound
<1>10. Rising(c2)
  <2>1. h >= 1 /\ Lowered(c, c2, h)
    BY <1>4, <1>7
  <2> HIDE DEF h
  <2> QED  BY <2>1, RisingLowered DEF Ordered
<1>11. AtGuard(nat, c2, calls, s)
  <2>1. Len(c2) = h /\ Within(Len(c2), f.ci + 1)
    BY <1>4, <1>6, <1>7 DEF Lowered, Within
  <2>2. c2[Len(c2)] <= Len(s) + 1
    <3>1. h \in 1 .. h /\ h \in 1 .. Len(c) /\ Len(c) \in 1 .. Len(c) /\ h <= Len(c)
      BY <1>1, <1>4
    <3>2. c2[h] = c[h]
      <4> HIDE DEF h
      <4> QED  BY <1>7, <3>1 DEF Lowered
    <3>3. c[h] <= c[Len(c)] /\ c[h] \in Nat /\ c[Len(c)] \in Nat
      <4> HIDE DEF h
      <4> QED  BY <3>1, ElementOfSeq DEF Ordered, Rising
    <3>4. Len(s) \in Nat
      BY LenProperties
    <3> HIDE DEF h
    <3> QED  BY <1>5, <2>1, <3>2, <3>3, <3>4
  <2> HIDE DEF h
  <2> QED  BY <1>3, <1>5, <2>1, <2>2 DEF AtGuard
<1>12. AtProgram(nat, c2, calls) /\ AtCallback(nat, c2, calls, s)
  BY <1>3 DEF AtProgram, AtCallback
<1>13. Ordered(nat, c2, calls, s)
  BY <1>9, <1>10, <1>11, <1>12 DEF Ordered
<1> QED  BY <1>13 DEF c2

(* The guard whose call has ended returns to Kotlin. *)
LEMMA OrderedReturn ==
  ASSUME NEW nat \in Seq(Frame), NEW jmp, NEW c, NEW calls \in Nat, NEW s,
         Linked(nat, jmp), Ordered(nat, c, calls, s),
         nat # <<>>, ~IsCallback(nat[Len(nat)]), nat[Len(nat)].phase = "done",
         NEW s2 \in Seq(Slot), Len(s2) >= c[nat[Len(nat)].ci]
  PROVE  Ordered(Front(nat), c, calls, s2)
<1> DEFINE n   == Len(nat)
           new == Front(nat)
           f   == nat[n]
<1>1. n \in Nat /\ n >= 1 /\ Len(c) \in Nat /\ n \in 1 .. n
  BY LenProperties, EmptySeq DEF Ordered, Rising
<1>0. n = 1 \/ n > 1
  <2>1. \A k \in Nat : k >= 1 => k = 1 \/ k > 1
    OBVIOUS
  <2> QED  BY ONLY <1>1, <2>1
<1>2. /\ new \in Seq(Frame)
      /\ Len(new) = n - 1
      /\ \A i \in 1 .. n - 1 : new[i] = nat[i]
      /\ Cardinality(GuardsOf(new)) = Cardinality(GuardsOf(nat)) - 1
      /\ \A i \in 1 .. n : GuardsBelow(new, i) = GuardsBelow(nat, i)
  BY GuardsPop
<1> HIDE DEF new
<1>3. /\ AtLeast(Len(c), f.ci)
      /\ AtLeast(calls, Cardinality(GuardsOf(new)))
  BY <1>1, <1>2 DEF Ordered, AtGuard
<1>4. GuardAt(nat, c, n)
  BY <1>1 DEF Ordered, Nested
<1>5. \A i \in 1 .. n : nat[i].ci \in 1 .. Len(c)
  BY <1>1, Heights, Grounded
<1>6. new = <<>> <=> n = 1
  BY <1>1, <1>2, EmptySeq
<1>7. n > 1 => new[n - 1] = nat[n - 1] /\ IsCallback(new[n - 1])
  BY <1>1, <1>2 DEF Linked
<1>8. Nested(new, c)
  <2>1. CASE n = 1
    BY <1>2, <2>1 DEF Nested
  <2>2. CASE n > 1
    <3>1. PICK m \in Nat : n = m + 2
      BY <1>1, <2>2
    <3>2. Kept(nat, c, new, c, m)
      <4>1. m <= n /\ n - 1 = m + 1 /\ \A i \in 1 .. m : i \in 1 .. n - 1
        BY <1>1, <3>1
      <4>2. Len(new) = m + 1 /\ \A i \in 1 .. m : new[i] = nat[i]
        BY <1>2, <4>1
      <4> QED  BY <4>1, <4>2 DEF Kept
    <3>3. Calling(nat, m)
      BY <3>1 DEF Calling
    <3>4. Fits(new, c, m)
      <4>1. CallbackAt(nat, c, m + 1)
        BY <1>1, <1>7, <2>2, <3>1 DEF Ordered, Nested
      <4>2. m >= 1 /\ new[m] = nat[m] /\ new[m + 1] = nat[m + 1] /\ IsCallback(new[m + 1])
        <5>1. new[m + 1] = nat[m + 1] /\ IsCallback(new[m + 1])
          BY <1>7, <2>2, <3>1
        <5>2. m + 1 > 1
          BY <1>1, <3>1, <5>1 DEF Linked
        <5> QED  BY <1>2, <3>1, <5>1, <5>2
      <4>3. nat[m].ci <= nat[m + 1].ci
        BY <1>1, <3>1, <4>2 DEF Ordered, Nested
      <4>4. CallbackAt(new, c, m + 1)
        BY <4>1, <4>2 DEF CallbackAt
      <4> QED  BY <4>2, <4>3, <4>4 DEF Fits
    <3>5. Nested(nat, c)
      BY DEF Ordered
    <3> QED  BY <1>2, <3>2, <3>3, <3>4, <3>5, NestedPrefix
  <2> QED  BY <1>0, <2>1, <2>2
<1>9. AtProgram(new, c, calls)
  <2> SUFFICES ASSUME n = 1
               PROVE  AtLeast(Len(c), 1) /\ AtLeast(calls, Cardinality(GuardsOf(new)))
    BY <1>6 DEF AtProgram
  <2>1. AtLeast(f.ci, 1)
    BY <1>4 DEF GuardAt
  <2>2. f.ci \in 1 .. Len(c)
    BY <1>1, <1>5
  <2>3. f.ci \in Int /\ Len(c) \in Int /\ 1 \in Int
    BY <1>1, <2>2
  <2>4. AtLeast(Len(c), 1)
    BY <1>3, <2>1, <2>3, AtLeastTransitive
  <2> QED  BY <1>3, <2>4
<1>10. AtCallback(new, c, calls, s2)
  <2>1. CASE n = 1
    BY <1>6, <2>1 DEF AtCallback
  <2>2. CASE n > 1
    <3>1. n - 1 \in 1 .. n /\ Len(new) = n - 1 /\ new[n - 1].ci = nat[n - 1].ci
      BY <1>1, <1>2, <1>7, <2>2
    <3>2. nat[n - 1].ci \in 1 .. Len(c) /\ f.ci \in 1 .. Len(c) /\ nat[n - 1].ci <= f.ci
      BY <1>1, <1>5, <3>1 DEF Ordered, Nested
    <3>3. c[nat[n - 1].ci] <= c[f.ci] /\ c[nat[n - 1].ci] \in Nat /\ c[f.ci] \in Nat
      BY <3>2, ElementOfSeq DEF Ordered, Rising
    <3>4. AtLeast(f.ci, nat[n - 1].ci)
      BY <1>1, <1>4, <2>2 DEF GuardAt
    <3>5. AtLeast(Len(c), nat[n - 1].ci)
      BY <1>1, <1>3, <3>2, <3>4 DEF AtLeast
    <3>6. c[nat[n - 1].ci] <= Len(s2)
      <4>1. Len(s2) \in Nat
        BY LenProperties
      <4> QED  BY <3>3, <4>1
    <3> QED  BY <1>3, <3>1, <3>5, <3>6 DEF AtCallback
  <2> QED  BY <1>0, <2>1, <2>2
<1>11. AtGuard(new, c, calls, s2)
  BY <1>1, <1>2, <1>6, <1>7 DEF AtGuard
<1>12. Rising(c)
  BY DEF Ordered
<1>13. Ordered(new, c, calls, s2)
  BY <1>8, <1>9, <1>10, <1>11, <1>12 DEF Ordered
<1> QED  BY <1>13 DEF new
=============================================================================
