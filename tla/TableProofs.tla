---------------------------- MODULE TableProofs ----------------------------
(***************************************************************************)
(* A table keeps what is assigned to it, for all keys, values and hash     *)
(* functions: the chains of the hash part stay chains through collisions,  *)
(* deaths and removals, a rehash makes room for what it moves, and lastfree *)
(* and its other use as a hint never contradict the array part.  So # gives *)
(* a boundary, and next finds its way.                                     *)
(*                                                                         *)
(* The proofs go from the links alone over nodes to whole tables: a lemma  *)
(* for each operator of Tables says what it does, one for each action that *)
(* the invariant TableInv is kept.                                         *)
(***************************************************************************)
EXTENDS Traversal, TLAPS, FiniteSetTheorems, WellFoundedInduction, SequenceTheorems

(* A set of naturals has a least element.                                    *)
LEMMA Least ==
  ASSUME NEW S \in SUBSET Nat, S # {}
  PROVE  \E n \in S : \A m \in S : n <= m
<1>1. PICK n \in S : \A m \in S : ~(<<m, n>> \in OpToRel(<, Nat))
  BY WFMin, NatLessThanWellFounded
<1>2. \A m \in S : n <= m
  <2> TAKE m \in S
  <2>1. ~(m < n)
    BY <1>1 DEF OpToRel
  <2> QED
    BY <2>1
<1> QED
  BY <1>2

(* A bounded set of naturals has a greatest element.                         *)
LEMMA Greatest ==
  ASSUME NEW b \in Nat, NEW S \in SUBSET (0 .. b), S # {}
  PROVE  \E n \in S : \A m \in S : n >= m
<1> DEFINE T == {m \in Nat : b - m \in S}
<1>1. PICK s \in S : TRUE
  OBVIOUS
<1>2. b - s \in Nat /\ b - (b - s) = s
  OBVIOUS
<1>3. T # {}
  BY <1>2
<1>4. PICK n \in T : \A m \in T : n <= m
  BY <1>3, Least
<1>5. \A m \in S : b - n >= m
  <2> TAKE m \in S
  <2>1. b - m \in Nat /\ b - (b - m) = m
    OBVIOUS
  <2>2. b - m \in T
    BY <2>1
  <2> QED
    BY <1>4, <2>1, <2>2
<1> QED
  BY <1>4, <1>5

(* The links as a function from positions to positions.                      *)
To(nd) == [i \in DOMAIN nd |-> IF nd[i].next = 0 THEN 0 ELSE i + nd[i].next]

Shut(to, S)     == \A i \in S : to[i] # 0 => to[i] \in S
Leads(to, i, j) == \A S \in SUBSET DOMAIN to : i \in S /\ Shut(to, S) => j \in S
Falls(to, rank) == \A i \in DOMAIN to : to[i] # 0 => rank[to[i]] < rank[i]

Links(to) ==
  /\ 0 \notin DOMAIN to /\ to \in [DOMAIN to -> DOMAIN to \cup {0}]
  /\ \A i, j \in DOMAIN to : to[i] # 0 /\ to[i] = to[j] => i = j
  /\ \E rank \in [DOMAIN to -> Nat] : Falls(to, rank)

(* The links lead from a position to itself,                                 *)
LEMMA LeadsSelf == ASSUME NEW to, NEW i PROVE Leads(to, i, i)
BY DEF Leads

(* to positions only,                                                        *)
LEMMA LeadsIn ==
  ASSUME NEW to, Links(to), NEW i \in DOMAIN to, NEW j, Leads(to, i, j)
  PROVE  j \in DOMAIN to
<1>1. Shut(to, DOMAIN to)
  BY DEF Links, Shut
<1> QED
  BY <1>1 DEF Leads

(* on from wherever they lead,                                               *)
LEMMA LeadsTrans ==
  ASSUME NEW to, NEW i, NEW j, NEW m, Leads(to, i, j), Leads(to, j, m)
  PROVE  Leads(to, i, m)
BY DEF Leads

(* to where a link points,                                                   *)
LEMMA LeadsLink ==
  ASSUME NEW to, NEW i \in DOMAIN to, to[i] # 0
  PROVE  Leads(to, i, to[i])
BY DEF Leads, Shut

(* and to another position only over the link.                               *)
LEMMA LeadsOn ==
  ASSUME NEW to, Links(to), NEW i \in DOMAIN to, NEW j, Leads(to, i, j), i # j
  PROVE  to[i] # 0 /\ Leads(to, to[i], j)
<1>1. CASE to[i] = 0
  <2>1. Shut(to, {i})
    BY <1>1 DEF Shut
  <2> QED
    BY <2>1 DEF Leads
<1>2. CASE to[i] # 0
  <2> SUFFICES ASSUME NEW S \in SUBSET DOMAIN to, to[i] \in S, Shut(to, S)
               PROVE  j \in S
    BY <1>2 DEF Leads
  <2>1. Shut(to, S \cup {i})
    BY DEF Shut
  <2> QED
    BY <2>1 DEF Leads
<1> QED
  BY <1>1, <1>2

(* What falls along each link falls along the chain.                         *)
LEMMA LeadsFalls ==
  ASSUME NEW to, Links(to), NEW rank \in [DOMAIN to -> Nat], Falls(to, rank),
         NEW i \in DOMAIN to, NEW j, Leads(to, i, j), i # j
  PROVE  j \in DOMAIN to /\ rank[j] < rank[i]
<1> DEFINE S == {m \in DOMAIN to : m = i \/ rank[m] < rank[i]}
<1>1. Shut(to, S)
  <2> SUFFICES ASSUME NEW m \in S, to[m] # 0
               PROVE  to[m] \in S
    BY DEF Shut
  <2>1. to[m] \in DOMAIN to /\ rank[to[m]] < rank[m]
    BY DEF Links, Falls
  <2>2. rank[to[m]] \in Nat /\ rank[m] \in Nat /\ rank[i] \in Nat
    BY <2>1
  <2> QED
    BY <2>1, <2>2
<1> QED
  BY <1>1 DEF Leads

(* Links do not lead back: a chain is no circle.                             *)
LEMMA LeadsAnti ==
  ASSUME NEW to, Links(to), NEW i \in DOMAIN to, NEW j \in DOMAIN to, Leads(to, i, j), Leads(to, j, i)
  PROVE  i = j
<1>1. PICK rank \in [DOMAIN to -> Nat] : Falls(to, rank)
  BY DEF Links
<1> QED
  BY <1>1, LeadsFalls

(* Of two positions of a chain one leads to the other.                       *)
LEMMA LeadsEither ==
  ASSUME NEW to, Links(to), NEW i \in DOMAIN to, NEW j, NEW m, Leads(to, i, j), Leads(to, i, m)
  PROVE  Leads(to, j, m) \/ Leads(to, m, j)
<1> DEFINE S == {p \in DOMAIN to : Leads(to, p, j) \/ Leads(to, j, p)}
<1>0. j \in DOMAIN to
  BY LeadsIn
<1>1. Shut(to, S)
  <2> SUFFICES ASSUME NEW p \in S, to[p] # 0
               PROVE  to[p] \in S
    BY DEF Shut
  <2>1. to[p] \in DOMAIN to
    BY DEF Links
  <2>2. Leads(to, p, to[p])
    BY LeadsLink
  <2>3. CASE Leads(to, j, p)
    BY <2>1, <2>2, <2>3, LeadsTrans
  <2>4. CASE Leads(to, p, j) /\ p # j
    BY <2>1, <2>4, LeadsOn
  <2>5. CASE p = j
    BY <2>1, <2>2, <2>5
  <2> QED
    BY <2>3, <2>4, <2>5
<1>2. m \in S
  BY <1>1 DEF Leads
<1> QED
  BY <1>2

(* The first of the positions sought, as the one that leads to the others.   *)
Met(to, i, sought) == {j \in sought : Leads(to, i, j)}
First(to, i, sought) ==
  IF Met(to, i, sought) = {} THEN 0
  ELSE CHOOSE j \in Met(to, i, sought) : \A m \in Met(to, i, sought) : Leads(to, j, m)

(* The first of the positions sought is one of them, and leads to the others. *)
LEMMA FirstIs ==
  ASSUME NEW to, Links(to), NEW i \in DOMAIN to, NEW sought, Met(to, i, sought) # {}
  PROVE  /\ First(to, i, sought) \in Met(to, i, sought)
         /\ \A m \in Met(to, i, sought) : Leads(to, First(to, i, sought), m)
<1> DEFINE M == Met(to, i, sought)
<1>1. PICK rank \in [DOMAIN to -> Nat] : Falls(to, rank)
  BY DEF Links
<1> DEFINE R == {n \in Nat : \E j \in M : n = rank[i] - rank[j]}
<1>2. \A j \in M : j \in DOMAIN to /\ Leads(to, i, j)
  BY LeadsIn DEF Met
<1>3. \A j \in M : rank[j] \in Nat /\ rank[i] \in Nat /\ rank[j] <= rank[i]
  BY <1>1, <1>2, LeadsFalls
<1>4. \A j \in M : rank[i] - rank[j] \in R
  BY <1>3
<1>5. R # {}
  BY <1>4
<1>6. PICK n \in R : \A m \in R : n <= m
  BY <1>5, Least
<1>7. PICK j \in M : n = rank[i] - rank[j]
  OBVIOUS
<1>8. \A m \in M : Leads(to, j, m)
  <2> TAKE m \in M
  <2>1. rank[m] <= rank[j]
    <3>1. n <= rank[i] - rank[m]
      BY <1>4, <1>6
    <3> QED
      BY <3>1, <1>7, <1>3
  <2>2. CASE Leads(to, j, m)
    BY <2>2
  <2>3. CASE Leads(to, m, j)
    <3>1. m = j
      BY <1>1, <1>2, <1>3, <2>1, <2>3, LeadsFalls
    <3> QED
      BY <2>3, <3>1
  <2> QED
    BY <1>2, <2>2, <2>3, LeadsEither
<1> QED
  BY <1>7, <1>8 DEF First

(* What leads to the others is the first.                                    *)
LEMMA FirstBy ==
  ASSUME NEW to, Links(to), NEW i \in DOMAIN to, NEW sought,
         NEW j \in Met(to, i, sought), \A m \in Met(to, i, sought) : Leads(to, j, m)
  PROVE  First(to, i, sought) = j
<1>1. First(to, i, sought) \in Met(to, i, sought) /\ Leads(to, First(to, i, sought), j)
  BY FirstIs
<1>2. j \in DOMAIN to /\ First(to, i, sought) \in DOMAIN to
  BY <1>1, LeadsIn DEF Met
<1> QED
  BY <1>1, <1>2, LeadsAnti

(* The first is where the search stands, or the first from the next link on. *)
LEMMA FirstStep ==
  ASSUME NEW to, Links(to), NEW i \in DOMAIN to, NEW sought
  PROVE  First(to, i, sought) = IF i \in sought THEN i
                                ELSE IF to[i] = 0 THEN 0 ELSE First(to, to[i], sought)
<1>1. CASE i \in sought
  <2>1. i \in Met(to, i, sought)
    BY <1>1, LeadsSelf DEF Met
  <2>2. \A m \in Met(to, i, sought) : Leads(to, i, m)
    BY DEF Met
  <2> QED
    BY <1>1, <2>1, <2>2, FirstBy
<1>2. CASE i \notin sought /\ to[i] = 0
  <2>1. Met(to, i, sought) = {}
    BY <1>2, LeadsOn DEF Met
  <2> QED
    BY <1>2, <2>1 DEF First
<1>3. CASE i \notin sought /\ to[i] # 0
  <2>1. to[i] \in DOMAIN to /\ Leads(to, i, to[i])
    BY <1>3, LeadsLink DEF Links
  <2>2. Met(to, i, sought) = Met(to, to[i], sought)
    BY <1>3, <2>1, LeadsOn, LeadsTrans DEF Met
  <2> QED
    BY <1>3, <2>2 DEF First
<1> QED
  BY <1>1, <1>2, <1>3

(* Links that stay inside the vector of nodes.                               *)
Linked(nd) ==
  /\ DOMAIN nd \subseteq Nat \ {0}
  /\ \A i \in DOMAIN nd : nd[i].next \in Int /\ (nd[i].next # 0 => i + nd[i].next \in DOMAIN nd)
  /\ Links(To(nd))

(* Where the relative links of the nodes point.                              *)
LEMMA ToIs ==
  ASSUME NEW nd, Linked(nd)
  PROVE  /\ DOMAIN To(nd) = DOMAIN nd
         /\ \A i \in DOMAIN nd : To(nd)[i] = IF nd[i].next = 0 THEN 0 ELSE i + nd[i].next
         /\ \A i \in DOMAIN nd : To(nd)[i] # 0 <=> nd[i].next # 0
BY DEF To, Linked

(* Chase finds the first of the positions sought.                            *)
LEMMA ChaseFirst ==
  ASSUME NEW nd, Linked(nd), NEW sought
  PROVE  \A i \in DOMAIN nd : Chase(nd, sought)[i] = First(To(nd), i, sought)
<1> DEFINE to == To(nd)
           Body(f) == [i \in DOMAIN nd |-> IF i \in sought THEN i
                                           ELSE IF nd[i].next = 0 THEN 0
                                           ELSE f[i + nd[i].next]]
           g == [i \in DOMAIN nd |-> First(to, i, sought)]
           f == Chase(nd, sought)
<1>1. /\ DOMAIN to = DOMAIN nd /\ Links(to)
      /\ \A i \in DOMAIN nd : to[i] = IF nd[i].next = 0 THEN 0 ELSE i + nd[i].next
      /\ \A i \in DOMAIN nd : to[i] # 0 <=> nd[i].next # 0
  BY ToIs DEF Linked
<1> HIDE DEF to
<1>2. g = Body(g)
  <2>1. \A i \in DOMAIN nd : g[i] = IF i \in sought THEN i ELSE IF nd[i].next = 0 THEN 0 ELSE g[i + nd[i].next]
    <3> TAKE i \in DOMAIN nd
    <3>1. First(to, i, sought) = IF i \in sought THEN i ELSE IF to[i] = 0 THEN 0 ELSE First(to, to[i], sought)
      BY <1>1, FirstStep
    <3>2. to[i] # 0 => to[i] \in DOMAIN nd
      BY <1>1 DEF Links
    <3> QED
      BY <1>1, <3>1, <3>2
  <2> QED
    BY <2>1
<1>3. f = Body(f)
  <2>1. \E h : h = Body(h)
    BY <1>2
  <2> QED
    BY <2>1 DEF Chase
<1>4. \A i \in DOMAIN nd : f[i] = IF i \in sought THEN i ELSE IF nd[i].next = 0 THEN 0 ELSE f[i + nd[i].next]
  BY <1>3
<1>5. PICK rank \in [DOMAIN nd -> Nat] : Falls(to, rank)
  BY <1>1 DEF Links
<1> HIDE DEF f, Body
<1>6. SUFFICES ASSUME NEW i \in DOMAIN nd, f[i] # First(to, i, sought) PROVE FALSE
  BY DEF f, to
<1> DEFINE Wrong == {n \in Nat : \E j \in DOMAIN nd : n = rank[j] /\ f[j] # First(to, j, sought)}
<1>7. rank[i] \in Wrong
  BY <1>6
<1>8. PICK n \in Wrong : \A m \in Wrong : n <= m
  <2>1. Wrong \in SUBSET Nat /\ Wrong # {}
    BY <1>7
  <2> QED
    BY <2>1, Least
<1>9. PICK j \in DOMAIN nd : n = rank[j] /\ f[j] # First(to, j, sought)
  OBVIOUS
<1>10. First(to, j, sought) = IF j \in sought THEN j ELSE IF to[j] = 0 THEN 0 ELSE First(to, to[j], sought)
  BY <1>1, FirstStep
<1>11. j \notin sought /\ to[j] # 0 /\ f[j] = f[to[j]] /\ f[to[j]] # First(to, to[j], sought)
  BY <1>1, <1>4, <1>9, <1>10
<1>12. to[j] \in DOMAIN nd /\ rank[to[j]] < rank[j]
  BY <1>1, <1>5, <1>11 DEF Links, Falls
<1>13. rank[to[j]] \in Wrong
  BY <1>11, <1>12
<1> QED
  BY <1>8, <1>9, <1>12, <1>13

(* A position gives way: what led to it leads to the free one, which takes   *)
(* over its link.                                                            *)
Moved(m, free, i) == IF i = m THEN free ELSE i

GivenWay(to, un, before, m, free) ==
  /\ before \in DOMAIN to /\ m \in DOMAIN to /\ free \in DOMAIN to
  /\ before # m /\ before # free /\ m # free
  /\ to[before] = m /\ to[free] = 0 /\ \A i \in DOMAIN to : to[i] # free
  /\ DOMAIN un = DOMAIN to
  /\ un[before] = free /\ un[free] = to[m] /\ un[m] = 0
  /\ \A i \in DOMAIN to : i # before /\ i # m /\ i # free => un[i] = to[i]

(* After a node gave way there is still a link to each node from one at most, and no circle. *)
LEMMA GivenWayLinks ==
  ASSUME NEW to, NEW un, NEW before, NEW m, NEW free, Links(to), GivenWay(to, un, before, m, free),
         un \in [DOMAIN to -> DOMAIN to \cup {0}]
  PROVE  Links(un)
<1>1. PICK rank \in [DOMAIN to -> Nat] : Falls(to, rank)
  BY DEF Links
<1> DEFINE ran == [i \in DOMAIN to |-> IF i = free THEN rank[m] ELSE IF i = m THEN 0 ELSE rank[i]]
<1>2. ran \in [DOMAIN un -> Nat]
  BY DEF GivenWay
<1>3. Falls(un, ran)
  <2> SUFFICES ASSUME NEW i \in DOMAIN to, un[i] # 0
               PROVE  ran[un[i]] < ran[i]
    BY DEF Falls, GivenWay
  <2>0. m \in DOMAIN to /\ free \in DOMAIN to /\ before \in DOMAIN to /\ to[i] \in DOMAIN to \cup {0}
        /\ 0 \notin DOMAIN to /\ to[m] \in DOMAIN to \cup {0}
    BY DEF GivenWay, Links
  <2>1. CASE i = before
    <3>1. un[i] = free /\ to[i] = m /\ i # free /\ i # m
      BY <2>1 DEF GivenWay
    <3>2. rank[m] < rank[i]
      BY <1>1, <2>0, <3>1 DEF Falls
    <3> QED
      BY <2>0, <3>1, <3>2
  <2>2. CASE i = free
    <3>1. un[i] = to[m] /\ to[m] # 0 /\ to[m] # free
      BY <2>0, <2>2 DEF GivenWay
    <3>2. rank[to[m]] < rank[m] /\ to[m] \in DOMAIN to
      BY <1>1, <2>0, <3>1 DEF Falls
    <3>3. to[m] # m
      BY <3>2
    <3> QED
      BY <2>0, <2>2, <3>1, <3>2, <3>3
  <2>3. CASE i # before /\ i # free
    <3>1. i # m /\ un[i] = to[i] /\ to[i] # free
      BY <2>0, <2>3 DEF GivenWay
    <3>2. to[i] # m
      BY <2>0, <2>3, <3>1 DEF GivenWay, Links
    <3>3. rank[to[i]] < rank[i] /\ to[i] \in DOMAIN to
      BY <1>1, <2>0, <3>1 DEF Falls
    <3> QED
      BY <2>0, <2>3, <3>1, <3>2, <3>3
  <2> QED
    BY <2>1, <2>2, <2>3
<1>4. \A i, j \in DOMAIN un : un[i] # 0 /\ un[i] = un[j] => i = j
  <2>1. \A i, j \in DOMAIN to : to[i] # 0 /\ to[i] = to[j] => i = j
    BY DEF Links
  <2> QED
    BY <2>1 DEF GivenWay
<1> QED
  BY <1>2, <1>3, <1>4 DEF Links, GivenWay

(* The chains without the node that gave way lead where they led.            *)
LEMMA GivenWayLeads ==
  ASSUME NEW to, NEW un, NEW before, NEW m, NEW free, Links(to), GivenWay(to, un, before, m, free),
         un \in [DOMAIN to -> DOMAIN to \cup {0}],
         NEW i \in DOMAIN to, NEW j, i # free, Leads(to, i, j)
  PROVE  j # free /\ Leads(un, Moved(m, free, i), Moved(m, free, j))
<1>1. j # free
  <2>1. Shut(to, DOMAIN to \ {free})
    BY DEF Shut, GivenWay, Links
  <2> QED
    BY <2>1 DEF Leads
<1>2. SUFFICES ASSUME NEW T \in SUBSET DOMAIN un, Moved(m, free, i) \in T, Shut(un, T)
               PROVE  Moved(m, free, j) \in T
  BY <1>1 DEF Leads
<1> DEFINE S == {p \in DOMAIN to : p # free /\ Moved(m, free, p) \in T}
<1>3. Shut(to, S)
  <2> SUFFICES ASSUME NEW p \in S, to[p] # 0
               PROVE  to[p] \in S
    BY DEF Shut
  <2>0. to[p] \in DOMAIN to /\ to[p] # free /\ p # free
    BY DEF Links, GivenWay
  <2>1. CASE p = m
    <3>1. free \in T /\ un[free] = to[m]
      BY <2>1 DEF Moved, GivenWay
    <3>2. to[m] \in T
      BY <1>2, <2>1, <3>1 DEF Shut
    <3>3. to[m] # m
      BY <2>0, <2>1 DEF GivenWay, Links
    <3> QED
      BY <2>0, <2>1, <3>2, <3>3 DEF Moved
  <2>2. CASE p = before
    <3>1. p \in T /\ un[p] = free /\ to[p] = m /\ free # 0
      BY <2>2 DEF Moved, GivenWay, Links
    <3>2. free \in T
      BY <1>2, <3>1 DEF Shut
    <3> QED
      BY <2>0, <3>1, <3>2 DEF Moved
  <2>3. CASE p # m /\ p # before
    <3>1. p \in T /\ un[p] = to[p] /\ to[p] # m
      BY <2>0, <2>3 DEF Moved, GivenWay, Links
    <3>2. to[p] \in T
      BY <1>2, <3>1 DEF Shut
    <3> QED
      BY <2>0, <3>1, <3>2 DEF Moved
  <2> QED
    BY <2>1, <2>2, <2>3
<1>4. i \in S
  BY <1>2
<1>5. j \in S
  BY <1>3, <1>4 DEF Leads
<1> QED
  BY <1>5

(* A free position is linked in, second in its chain.                        *)
Chained(to, un, m, free) ==
  /\ m \in DOMAIN to /\ free \in DOMAIN to /\ m # free
  /\ to[free] = 0 /\ \A i \in DOMAIN to : to[i] # free
  /\ DOMAIN un = DOMAIN to
  /\ un[free] = to[m] /\ un[m] = free
  /\ \A i \in DOMAIN to : i # m /\ i # free => un[i] = to[i]

(* After a node was chained in there is still no circle.                     *)
LEMMA ChainedLinks ==
  ASSUME NEW to, NEW un, NEW m, NEW free, Links(to), Chained(to, un, m, free),
         un \in [DOMAIN to -> DOMAIN to \cup {0}]
  PROVE  Links(un)
<1>1. PICK rank \in [DOMAIN to -> Nat] : Falls(to, rank)
  BY DEF Links
<1> DEFINE ran == [i \in DOMAIN to |-> IF i = free THEN 2 * rank[m] ELSE 2 * rank[i] + 1]
<1>2. ran \in [DOMAIN un -> Nat]
  BY DEF Chained
<1>3. Falls(un, ran)
  <2> SUFFICES ASSUME NEW i \in DOMAIN to, un[i] # 0
               PROVE  ran[un[i]] < ran[i]
    BY DEF Falls, Chained
  <2>0. m \in DOMAIN to /\ free \in DOMAIN to /\ to[i] \in DOMAIN to \cup {0}
        /\ 0 \notin DOMAIN to /\ to[m] \in DOMAIN to \cup {0}
    BY DEF Chained, Links
  <2>1. CASE i = m
    <3>1. un[i] = free /\ i # free
      BY <2>1 DEF Chained
    <3> QED
      BY <2>0, <2>1, <3>1
  <2>2. CASE i = free
    <3>1. un[i] = to[m] /\ to[m] # 0 /\ to[m] # free
      BY <2>0, <2>2 DEF Chained
    <3>2. rank[to[m]] < rank[m] /\ to[m] \in DOMAIN to
      BY <1>1, <2>0, <3>1 DEF Falls
    <3>3. rank[to[m]] \in Nat /\ rank[m] \in Nat
      BY <2>0, <3>2
    <3>4. ran[un[i]] = 2 * rank[to[m]] + 1 /\ ran[i] = 2 * rank[m]
      BY <2>0, <2>2, <3>1, <3>2
    <3> QED
      BY <3>2, <3>3, <3>4
  <2>3. CASE i # m /\ i # free
    <3>1. un[i] = to[i] /\ to[i] # free
      BY <2>0, <2>3 DEF Chained
    <3>3. rank[to[i]] < rank[i] /\ to[i] \in DOMAIN to
      BY <1>1, <2>0, <3>1 DEF Falls
    <3> QED
      BY <2>0, <2>3, <3>1, <3>3
  <2> QED
    BY <2>1, <2>2, <2>3
<1>4. \A i, j \in DOMAIN un : un[i] # 0 /\ un[i] = un[j] => i = j
  <2>1. \A i, j \in DOMAIN to : to[i] # 0 /\ to[i] = to[j] => i = j
    BY DEF Links
  <2> QED
    BY <2>1 DEF Chained
<1> QED
  BY <1>2, <1>3, <1>4 DEF Links, Chained

(* The chains lead where they led, and to the new node.                      *)
LEMMA ChainedLeads ==
  ASSUME NEW to, NEW un, NEW m, NEW free, Links(to), Chained(to, un, m, free),
         un \in [DOMAIN to -> DOMAIN to \cup {0}],
         NEW i \in DOMAIN to, NEW j, i # free, Leads(to, i, j)
  PROVE  Leads(un, i, j)
<1> SUFFICES ASSUME NEW T \in SUBSET DOMAIN un, i \in T, Shut(un, T)
             PROVE  j \in T
  BY DEF Leads
<1> DEFINE S == T \ {free}
<1>3. Shut(to, S)
  <2> SUFFICES ASSUME NEW p \in S, to[p] # 0
               PROVE  to[p] \in S
    BY DEF Shut
  <2>0. to[p] \in DOMAIN to /\ to[p] # free /\ p # free /\ p \in T /\ 0 \notin DOMAIN to /\ free \in DOMAIN to
    BY DEF Links, Chained
  <2>1. CASE p = m
    <3>1. un[p] = free /\ un[free] = to[p]
      BY <2>1 DEF Chained
    <3>2. free \in T
      BY <2>0, <3>1 DEF Shut
    <3>3. to[p] \in T
      BY <3>1, <3>2 DEF Shut
    <3> QED
      BY <2>0, <3>3
  <2>3. CASE p # m
    BY <2>0, <2>3 DEF Chained, Shut
  <2> QED
    BY <2>1, <2>3
<1> QED
  BY <1>3 DEF Leads, Chained
-----------------------------------------------------------------------------
Home(n, hf, k) == (hf[k] % n) + 1

(* A main position is a position.                                            *)
LEMMA HomeIn ==
  ASSUME NEW n \in Nat \ {0}, NEW hf \in [Key -> Nat], NEW k \in Key
  PROVE  Home(n, hf, k) \in 1 .. n
<1>1. hf[k] \in Nat
  OBVIOUS
<1>2. \A a \in Nat : (a % n) + 1 \in 1 .. n
  OBVIOUS
<1> QED
  BY <1>1, <1>2 DEF Home

Vector(nd) == nd \in [1 .. Len(nd) -> Node] /\ Len(nd) \in Nat

(* Only nodes with a key are linked to; a node without a key is as new; the  *)
(* dead have no value; a key has at most one node that is not dead, ahead of *)
(* those that are.                                                           *)
Keyed(nd) ==
  /\ \A i \in DOMAIN nd : To(nd)[i] # 0 => nd[To(nd)[i]].key # Nil
  /\ \A i \in DOMAIN nd : nd[i].key = Nil => ~nd[i].dead /\ nd[i].val = Nil /\ nd[i].next = 0
  /\ \A i \in DOMAIN nd : nd[i].dead => nd[i].val = Nil
  /\ \A i, j \in DOMAIN nd :
        nd[i].key # Nil /\ nd[i].key = nd[j].key /\ ~nd[i].dead =>
           IF nd[j].dead THEN Leads(To(nd), i, j) ELSE i = j

(* The main position of a key that has a node is held by a key at home there *)
(* and leads to it.                                                          *)
AtHome(nd, hf, h, i) ==
  nd[h].key # Nil /\ Home(Len(nd), hf, nd[h].key) = h /\ Leads(To(nd), h, i)

Homed(nd, hf) ==
  \A i \in DOMAIN nd : nd[i].key # Nil => AtHome(nd, hf, Home(Len(nd), hf, nd[i].key), i)

NodesOk(nd, hf) == Vector(nd) /\ Linked(nd) /\ Keyed(nd) /\ Homed(nd, hf)

Bears(nd, k, w) == \E i \in DOMAIN nd : nd[i].key = k /\ nd[i].val = w
Absent(nd, k)   == \A i \in DOMAIN nd : nd[i].key = k => nd[i].dead
Valued(nd)      == \A i \in DOMAIN nd : nd[i].key # Nil => nd[i].val # Nil

(* So is that of the key of a node.                                          *)
LEMMA HomeOfKey ==
  ASSUME NEW hf \in [Key -> Nat], NEW nd, Vector(nd), NEW i \in DOMAIN nd, nd[i].key # Nil
  PROVE  Home(Len(nd), hf, nd[i].key) \in DOMAIN nd
<1>1. DOMAIN nd = 1 .. Len(nd) /\ Len(nd) \in Nat
  BY DEF Vector
<1>2. nd[i] \in Node /\ Len(nd) \in Nat \ {0}
  BY <1>1 DEF Vector
<1>3. nd[i].key \in Key
  BY <1>2 DEF Node
<1> QED
  BY <1>1, <1>2, <1>3, HomeIn

(* A link points to a position, or nowhere.                                  *)
LEMMA ToIn ==
  ASSUME NEW nd, Linked(nd), NEW i \in DOMAIN nd
  PROVE  To(nd)[i] \in DOMAIN nd \cup {0} /\ 0 \notin DOMAIN nd
BY ToIs DEF Linked, Links

(* What it means that a key is put into the nodes with a value.              *)
Puts(nd, new, k, v) ==
  /\ Len(new) = Len(nd)
  /\ \A q \in Key, w \in Val : Bears(new, q, w) <=> IF q = k THEN w = v ELSE Bears(nd, q, w)
  /\ Valued(nd) /\ v # Nil => Valued(new)
  /\ \A i \in DOMAIN nd : nd[i].key # Nil => new[i].key # Nil
  /\ \A i \in DOMAIN new : new[i].key = Nil \/ new[i].key = k
                            \/ \E j \in DOMAIN nd : new[i].key = nd[j].key

(* A main position without a value is taken with its link.                   *)
Takes(nd, new, m, k, v) ==
  /\ m \in DOMAIN nd /\ Len(new) = Len(nd) /\ Vector(new)
  /\ new[m].key = k /\ new[m].val = v /\ ~new[m].dead /\ new[m].next = nd[m].next
  /\ \A i \in DOMAIN nd : i # m => new[i] = nd[i]

(* The links are those of the nodes' next fields.                            *)
LEMMA SameTo ==
  ASSUME NEW nd, NEW new, DOMAIN new = DOMAIN nd, \A i \in DOMAIN nd : new[i].next = nd[i].next
  PROVE  To(new) = To(nd)
BY DEF To

(* Taking a main position without a value is sound.                          *)
LEMMA TakesOk ==
  ASSUME NEW hf \in [Key -> Nat], NEW nd, NEW new, NEW k \in Key, NEW v \in Val \cup {Nil},
         NodesOk(nd, hf), Nil \notin Key, Nil \notin Val,
         Takes(nd, new, Home(Len(nd), hf, k), k, v), Absent(nd, k), nd[Home(Len(nd), hf, k)].val = Nil
  PROVE  NodesOk(new, hf) /\ Puts(nd, new, k, v)
<1> DEFINE m == Home(Len(nd), hf, k)
<1>1. Vector(nd) /\ Linked(nd) /\ Keyed(nd) /\ Homed(nd, hf)
  BY DEF NodesOk
<1>2. DOMAIN nd = 1 .. Len(nd) /\ DOMAIN new = DOMAIN nd /\ Len(new) = Len(nd) /\ m \in DOMAIN nd /\ Vector(new)
  BY <1>1 DEF Vector, Takes
<1>3. /\ new[m].key = k /\ new[m].val = v /\ ~new[m].dead /\ new[m].next = nd[m].next
      /\ \A i \in DOMAIN nd : i # m => new[i] = nd[i]
  BY DEF Takes
<1>4. To(new) = To(nd)
  BY <1>2, <1>3, SameTo
<1>5. Linked(new)
  BY <1>1, <1>2, <1>3, <1>4 DEF Linked
<1> HIDE DEF m
<1>6. Homed(new, hf)
  <2> SUFFICES ASSUME NEW i \in DOMAIN nd, new[i].key # Nil
               PROVE  AtHome(new, hf, Home(Len(nd), hf, new[i].key), i)
    BY <1>2 DEF Homed
  <2>1. CASE i = m
    BY <1>2, <1>3, <2>1, LeadsSelf DEF AtHome, m
  <2>2. CASE i # m
    <3>1. AtHome(nd, hf, Home(Len(nd), hf, nd[i].key), i) /\ nd[i].key = new[i].key
      BY <1>1, <1>3, <2>2 DEF Homed
    <3>2. Home(Len(nd), hf, nd[i].key) \in DOMAIN nd
      BY <1>1, <2>2, <3>1, HomeOfKey
    <3>3. CASE Home(Len(nd), hf, nd[i].key) = m
      BY <1>2, <1>3, <1>4, <3>1, <3>3 DEF AtHome, m
    <3>4. CASE Home(Len(nd), hf, nd[i].key) # m
      BY <1>2, <1>3, <1>4, <3>1, <3>2, <3>4 DEF AtHome
    <3> QED
      BY <3>3, <3>4
  <2> QED
    BY <2>1, <2>2
<1>7. Keyed(new)
  <2>1. \A i \in DOMAIN new : To(new)[i] # 0 => new[To(new)[i]].key # Nil
    <3> TAKE i \in DOMAIN new
    <3> HAVE To(new)[i] # 0
    <3>1. nd[To(nd)[i]].key # Nil /\ To(nd)[i] \in DOMAIN nd
      BY <1>1, <1>2, <1>4, ToIn DEF Keyed
    <3> QED
      BY <1>2, <1>3, <1>4, <3>1
  <2>2. \A i \in DOMAIN new : /\ new[i].key = Nil => ~new[i].dead /\ new[i].val = Nil /\ new[i].next = 0
                              /\ new[i].dead => new[i].val = Nil
    BY <1>1, <1>2, <1>3 DEF Keyed
  <2>3. ASSUME NEW i \in DOMAIN new, NEW j \in DOMAIN new,
               new[i].key # Nil, new[i].key = new[j].key, ~new[i].dead
        PROVE  IF new[j].dead THEN Leads(To(new), i, j) ELSE i = j
    <3>1. CASE i = m /\ j # m
      <4>1. nd[j].key = k /\ nd[j].dead /\ new[j].dead
        BY <1>2, <1>3, <2>3, <3>1 DEF Absent
      <4>2. Leads(To(nd), m, j)
        BY <1>1, <1>2, <4>1 DEF Homed, AtHome, m
      <4> QED
        BY <1>4, <3>1, <4>1, <4>2
    <3>2. CASE i = m /\ j = m
      BY <1>3, <3>2
    <3>3. CASE i # m
      <4>1. new[i] = nd[i] /\ nd[i].key # k
        BY <1>2, <1>3, <2>3, <3>3 DEF Absent
      <4>2. j # m /\ new[j] = nd[j]
        BY <1>2, <1>3, <2>3, <4>1
      <4> QED
        BY <1>1, <1>2, <1>4, <2>3, <4>1, <4>2 DEF Keyed
    <3> QED
      BY <3>1, <3>2, <3>3
  <2> QED
    BY <2>1, <2>2, <2>3 DEF Keyed
<1>8. Puts(nd, new, k, v)
  <2>1. ASSUME NEW q \in Key, NEW w \in Val
        PROVE  Bears(new, q, w) <=> IF q = k THEN w = v ELSE Bears(nd, q, w)
    <3>1. CASE q = k
      <4>1. \A i \in DOMAIN nd : i # m /\ new[i].key = k => new[i].val = Nil
        BY <1>1, <1>3 DEF Absent, Keyed
      <4> QED
        BY <1>2, <1>3, <3>1, <4>1 DEF Bears
    <3>2. CASE q # k
      <4>1. nd[m].val # w /\ new[m].key # q
        BY <1>3, <3>2 DEF m
      <4> QED
        BY <1>2, <1>3, <3>2, <4>1 DEF Bears
    <3> QED
      BY <3>1, <3>2
  <2>2. Valued(nd) /\ v # Nil => Valued(new)
    BY <1>2, <1>3 DEF Valued
  <2>3. /\ \A i \in DOMAIN nd : nd[i].key # Nil => new[i].key # Nil
        /\ \A i \in DOMAIN new : new[i].key = Nil \/ new[i].key = k \/ \E j \in DOMAIN nd : new[i].key = nd[j].key
    BY <1>2, <1>3
  <2> QED
    BY <1>2, <2>1, <2>2, <2>3 DEF Puts
<1> QED
  BY <1>2, <1>5, <1>6, <1>7, <1>8 DEF NodesOk

SameEntry(a, b) == a.key = b.key /\ a.dead = b.dead /\ a.val = b.val

(* The node at a main position that is not its key's own gives way.          *)
GivesWay(nd, new, before, m, free, k, v) ==
  /\ before \in DOMAIN nd /\ m \in DOMAIN nd /\ free \in DOMAIN nd
  /\ Len(new) = Len(nd) /\ Vector(new)
  /\ nd[before].next # 0 /\ before + nd[before].next = m
  /\ nd[free].key = Nil /\ nd[m].val # Nil
  /\ SameEntry(new[before], nd[before]) /\ new[before].next = free - before
  /\ SameEntry(new[free], nd[m])
  /\ new[free].next = IF nd[m].next = 0 THEN 0 ELSE nd[m].next + m - free
  /\ new[m].key = k /\ new[m].val = v /\ ~new[m].dead /\ new[m].next = 0
  /\ \A i \in DOMAIN nd : i # m /\ i # before /\ i # free => new[i] = nd[i]

(* Brent's variation, seen as what it does to the links.                     *)
LEMMA GivesWayLinks ==
  ASSUME NEW nd, NEW new, NEW before, NEW m, NEW free, NEW k, NEW v,
         Vector(nd), Linked(nd), Keyed(nd), GivesWay(nd, new, before, m, free, k, v)
  PROVE  /\ GivenWay(To(nd), To(new), before, m, free)
         /\ To(new) \in [DOMAIN To(nd) -> DOMAIN To(nd) \cup {0}]
         /\ Linked(new)
<1>1. DOMAIN nd = 1 .. Len(nd) /\ DOMAIN new = DOMAIN nd /\ Len(nd) \in Nat
  BY DEF Vector, GivesWay
<1>2. /\ DOMAIN To(nd) = DOMAIN nd
      /\ \A i \in DOMAIN nd : To(nd)[i] = IF nd[i].next = 0 THEN 0 ELSE i + nd[i].next
      /\ \A i \in DOMAIN nd : To(nd)[i] # 0 <=> nd[i].next # 0
      /\ \A i \in DOMAIN nd : nd[i].next \in Int
  BY ToIs DEF Linked
<1>3. \A i \in DOMAIN nd : To(nd)[i] \in DOMAIN nd \cup {0} /\ 0 \notin DOMAIN nd
  BY ToIn
<1>4. before \in DOMAIN nd /\ m \in DOMAIN nd /\ free \in DOMAIN nd /\ before \in Nat /\ m \in Nat /\ free \in Nat
  BY <1>1 DEF GivesWay
<1>5. To(nd)[before] = m /\ To(nd)[free] = 0 /\ \A i \in DOMAIN nd : To(nd)[i] # free
  <2>1. To(nd)[before] = m
    BY <1>2, <1>4 DEF GivesWay
  <2>2. nd[free].next = 0 /\ nd[free].key = Nil
    BY <1>4 DEF GivesWay, Keyed
  <2>3. \A i \in DOMAIN nd : To(nd)[i] # 0 => nd[To(nd)[i]].key # Nil
    BY DEF Keyed
  <2> QED
    BY <1>1, <1>2, <1>4, <2>1, <2>2, <2>3
<1>6. before # free /\ before # m /\ m # free
  <2>1. nd[free].val = Nil /\ nd[m].val # Nil /\ nd[before].next # 0 /\ nd[free].next = 0
    BY <1>4 DEF GivesWay, Keyed
  <2>2. before + nd[before].next = m /\ nd[before].next \in Int
    BY <1>2, <1>4 DEF GivesWay
  <2> QED
    BY <1>4, <2>1, <2>2
<1>7. /\ \A i \in DOMAIN nd : i # before /\ i # m /\ i # free => new[i].next = nd[i].next
      /\ new[before].next = free - before /\ new[m].next = 0
      /\ new[free].next = IF nd[m].next = 0 THEN 0 ELSE nd[m].next + m - free
  BY DEF GivesWay
<1>8. DOMAIN To(new) = DOMAIN nd /\ \A i \in DOMAIN nd : To(new)[i] = IF new[i].next = 0 THEN 0 ELSE i + new[i].next
  BY <1>1 DEF To
<1>9. To(new)[before] = free /\ new[before].next # 0 /\ before + new[before].next = free /\ new[before].next \in Int
  BY <1>4, <1>6, <1>7, <1>8
<1>10. /\ To(new)[free] = To(nd)[m] /\ new[free].next \in Int
       /\ new[free].next # 0 => free + new[free].next = To(nd)[m] /\ To(nd)[m] # 0
  <2>1. CASE nd[m].next = 0
    BY <1>2, <1>4, <1>7, <1>8, <2>1
  <2>2. CASE nd[m].next # 0
    <3>1. To(nd)[m] = m + nd[m].next /\ To(nd)[m] # free /\ nd[m].next \in Int
      BY <1>2, <1>4, <1>5, <2>2
    <3>2. new[free].next # 0 /\ free + new[free].next = m + nd[m].next
      BY <1>4, <1>7, <2>2, <3>1
    <3>3. To(nd)[m] # 0 /\ new[free].next \in Int
      BY <1>2, <1>4, <1>7, <2>2, <3>1
    <3> QED
      BY <1>4, <1>8, <3>1, <3>2, <3>3
  <2> QED
    BY <2>1, <2>2
<1>11. To(new)[m] = 0
  BY <1>4, <1>7, <1>8
<1>12. \A i \in DOMAIN nd : i # before /\ i # m /\ i # free => To(new)[i] = To(nd)[i]
  BY <1>2, <1>7, <1>8
<1>13. GivenWay(To(nd), To(new), before, m, free)
  BY <1>2, <1>4, <1>5, <1>6, <1>8, <1>9, <1>10, <1>11, <1>12 DEF GivenWay
<1>14. To(new) \in [DOMAIN nd -> DOMAIN nd \cup {0}]
  <2>1. \A i \in DOMAIN nd : To(new)[i] \in DOMAIN nd \cup {0}
    BY <1>3, <1>4, <1>9, <1>10, <1>11, <1>12
  <2> QED
    BY <1>8, <2>1 DEF To
<1>15. Linked(new)
  <2>1. Links(To(new))
    BY <1>2, <1>13, <1>14, GivenWayLinks DEF Linked
  <2>2. \A i \in DOMAIN nd : new[i].next \in Int /\ (new[i].next # 0 => i + new[i].next \in DOMAIN nd)
    <3> TAKE i \in DOMAIN nd
    <3>1. CASE i = before
      BY <1>4, <1>9, <3>1
    <3>2. CASE i = m
      BY <1>7, <3>2
    <3>3. CASE i = free
      BY <1>3, <1>4, <1>10, <3>3
    <3>4. CASE i # before /\ i # m /\ i # free
      BY <1>7, <3>4 DEF Linked
    <3> QED
      BY <3>1, <3>2, <3>3, <3>4
  <2> QED
    BY <1>1, <2>1, <2>2 DEF Linked
<1> QED
  BY <1>2, <1>13, <1>14, <1>15

(* Brent's variation is sound: no key gets lost, and each stays in its chain. *)
LEMMA GivesWayOk ==
  ASSUME NEW hf \in [Key -> Nat], NEW nd, NEW new, NEW k \in Key, NEW v \in Val \cup {Nil},
         NEW before, NEW free, Nil \notin Key, Nil \notin Val,
         NodesOk(nd, hf), Absent(nd, k),
         GivesWay(nd, new, before, Home(Len(nd), hf, k), free, k, v),
         Home(Len(nd), hf, nd[Home(Len(nd), hf, k)].key) # Home(Len(nd), hf, k)
  PROVE  NodesOk(new, hf) /\ Puts(nd, new, k, v) /\ new[free].key # Nil
<1> DEFINE m == Home(Len(nd), hf, k)
<1>1. Vector(nd) /\ Linked(nd) /\ Keyed(nd) /\ Homed(nd, hf)
  BY DEF NodesOk
<1>2. /\ DOMAIN nd = 1 .. Len(nd) /\ DOMAIN new = DOMAIN nd /\ Len(new) = Len(nd)
      /\ m \in DOMAIN nd /\ before \in DOMAIN nd /\ free \in DOMAIN nd /\ Vector(new)
  BY <1>1 DEF Vector, GivesWay
<1>3. /\ new[m].key = k /\ new[m].val = v /\ ~new[m].dead
      /\ SameEntry(new[free], nd[m])
      /\ \A i \in DOMAIN nd : i # m /\ i # free => SameEntry(new[i], nd[i])
  <2>1. \A i \in DOMAIN nd : i # m /\ i # free /\ i # before => SameEntry(new[i], nd[i])
    BY DEF GivesWay, SameEntry
  <2> QED
    BY <2>1 DEF GivesWay
<1>4. GivenWay(To(nd), To(new), before, m, free) /\ To(new) \in [DOMAIN nd -> DOMAIN nd \cup {0}] /\ Linked(new)
  <2>1. DOMAIN To(nd) = DOMAIN nd
    BY <1>1, ToIs
  <2> QED
    BY <1>1, <2>1, GivesWayLinks
<1>5. m # free /\ nd[free].key = Nil /\ nd[m].val # Nil /\ ~nd[m].dead /\ nd[m].key # Nil
  BY <1>1, <1>2, <1>4 DEF GivesWay, GivenWay, Keyed
<1>6. \A i, j \in DOMAIN nd : i # free /\ Leads(To(nd), i, j) =>
           j # free /\ Leads(To(new), Moved(m, free, i), Moved(m, free, j))
  <2>1. DOMAIN To(nd) = DOMAIN nd /\ Links(To(nd))
    BY <1>1, ToIs DEF Linked
  <2> QED
    BY <1>4, <2>1, GivenWayLeads
<1>7. Home(Len(nd), hf, nd[m].key) # m
  OBVIOUS
<1> HIDE DEF m
<1>8. \A i \in DOMAIN nd : nd[i].key # Nil =>
         LET h == Home(Len(nd), hf, nd[i].key)
         IN  h \in DOMAIN nd /\ h # m /\ h # free /\ AtHome(nd, hf, h, i)
  <2> TAKE i \in DOMAIN nd
  <2> HAVE nd[i].key # Nil
  <2> DEFINE h == Home(Len(nd), hf, nd[i].key)
  <2>1. h \in DOMAIN nd
    BY <1>1, HomeOfKey
  <2>2. AtHome(nd, hf, h, i)
    BY <1>1 DEF Homed
  <2> HIDE DEF h
  <2>3. h # m /\ h # free
    BY <1>5, <1>7, <2>2 DEF AtHome
  <2> QED
    BY <2>1, <2>2, <2>3 DEF h
<1>9. \A i \in DOMAIN nd : nd[i].key # k
  BY <1>8 DEF m
<1>10. \A i \in DOMAIN nd : i # m /\ i # free => new[i].key = nd[i].key /\ new[i].val = nd[i].val /\ new[i].dead = nd[i].dead
  BY <1>3 DEF SameEntry
<1>11. new[free].key = nd[m].key /\ new[free].val = nd[m].val /\ new[free].dead = nd[m].dead
  BY <1>3 DEF SameEntry
<1>12. Homed(new, hf)
  <2> SUFFICES ASSUME NEW i \in DOMAIN nd, new[i].key # Nil
               PROVE  AtHome(new, hf, Home(Len(nd), hf, new[i].key), i)
    BY <1>2 DEF Homed
  <2>1. CASE i = m
    BY <1>2, <1>3, <2>1, LeadsSelf DEF AtHome, m
  <2>2. CASE i = free
    <3> DEFINE h == Home(Len(nd), hf, nd[m].key)
    <3>1. h \in DOMAIN nd /\ h # m /\ h # free /\ AtHome(nd, hf, h, m)
      BY <1>2, <1>5, <1>8
    <3> HIDE DEF h
    <3>2. Leads(To(new), h, free)
      BY <1>2, <1>6, <3>1 DEF AtHome, Moved
    <3>3. AtHome(new, hf, h, free)
      BY <1>2, <1>10, <3>1, <3>2 DEF AtHome
    <3> QED
      BY <1>11, <2>2, <3>3 DEF h
  <2>3. CASE i # m /\ i # free
    <3> DEFINE h == Home(Len(nd), hf, nd[i].key)
    <3>1. h \in DOMAIN nd /\ h # m /\ h # free /\ AtHome(nd, hf, h, i)
      BY <1>8, <1>10, <2>3
    <3> HIDE DEF h
    <3>2. Leads(To(new), h, i)
      BY <1>2, <1>6, <2>3, <3>1 DEF AtHome, Moved
    <3>3. AtHome(new, hf, h, i)
      BY <1>2, <1>10, <3>1, <3>2 DEF AtHome
    <3> QED
      BY <1>10, <2>3, <3>3 DEF h
  <2> QED
    BY <2>1, <2>2, <2>3
<1>13. Keyed(new)
  <2>1. \A i \in DOMAIN new : To(new)[i] # 0 => new[To(new)[i]].key # Nil
    <3> TAKE i \in DOMAIN new
    <3> HAVE To(new)[i] # 0
    <3>1. \A j \in DOMAIN nd : j # free /\ nd[j].key # Nil => new[j].key # Nil
      BY <1>3, <1>10
    <3>2. \A j \in DOMAIN nd : To(nd)[j] # 0 => To(nd)[j] \in DOMAIN nd /\ nd[To(nd)[j]].key # Nil /\ To(nd)[j] # free
      BY <1>1, <1>5, ToIn DEF Keyed
    <3>3. To(new)[i] = free \/ To(new)[i] = To(nd)[m] \/ To(new)[i] = To(nd)[i]
      BY <1>2, <1>4, <1>5 DEF GivenWay
    <3> QED
      BY <1>2, <1>5, <1>11, <3>1, <3>2, <3>3
  <2>2. \A i \in DOMAIN new : new[i].key = Nil => ~new[i].dead /\ new[i].val = Nil /\ new[i].next = 0
    <3> TAKE i \in DOMAIN new
    <3> HAVE new[i].key = Nil
    <3>1. i # m /\ i # free /\ nd[i].key = Nil
      BY <1>2, <1>3, <1>5, <1>10, <1>11
    <3>2. nd[i].next = 0 /\ ~nd[i].dead /\ nd[i].val = Nil
      BY <1>1, <1>2, <3>1 DEF Keyed
    <3>3. i # before
      BY <3>2 DEF GivesWay
    <3>4. new[i] = nd[i]
      BY <1>2, <3>1, <3>3 DEF GivesWay, m
    <3> QED
      BY <3>2, <3>4
  <2>3. \A i \in DOMAIN new : new[i].dead => new[i].val = Nil
    BY <1>1, <1>2, <1>3, <1>5, <1>10, <1>11 DEF Keyed
  <2>4. ASSUME NEW i \in DOMAIN new, NEW j \in DOMAIN new,
               new[i].key # Nil, new[i].key = new[j].key, ~new[i].dead
        PROVE  IF new[j].dead THEN Leads(To(new), i, j) ELSE i = j
    <3> DEFINE Old(p) == IF p = free THEN m ELSE p
    <3>1. CASE i = m \/ j = m
      <4>1. \A p \in DOMAIN nd : p # m => new[p].key # k
        BY <1>2, <1>9, <1>10, <1>11
      <4>2. i = m /\ j = m
        BY <1>2, <1>3, <2>4, <3>1, <4>1
      <4> QED
        BY <1>3, <4>2
    <3>2. CASE i # m /\ j # m
      <4>0. /\ Old(i) \in DOMAIN nd /\ Old(j) \in DOMAIN nd /\ Old(i) # free /\ Old(j) # free
            /\ Moved(m, free, Old(i)) = i /\ Moved(m, free, Old(j)) = j
        BY <1>2, <1>5, <3>2 DEF Moved
      <4>1. /\ new[i].key = nd[Old(i)].key /\ new[i].dead = nd[Old(i)].dead
            /\ new[j].key = nd[Old(j)].key /\ new[j].dead = nd[Old(j)].dead
        BY <1>2, <1>10, <1>11, <3>2
      <4> HIDE DEF Old
      <4>2. IF nd[Old(j)].dead THEN Leads(To(nd), Old(i), Old(j)) ELSE Old(i) = Old(j)
        BY <1>1, <2>4, <4>0, <4>1 DEF Keyed
      <4>3. CASE nd[Old(j)].dead
        BY <1>6, <4>0, <4>1, <4>2, <4>3
      <4>4. CASE ~nd[Old(j)].dead
        BY <4>0, <4>1, <4>2, <4>4
      <4> QED
        BY <4>3, <4>4
    <3> QED
      BY <3>1, <3>2
  <2> QED
    BY <2>1, <2>2, <2>3, <2>4 DEF Keyed
<1>14. Puts(nd, new, k, v)
  <2>1. ASSUME NEW q \in Key, NEW w \in Val
        PROVE  Bears(new, q, w) <=> IF q = k THEN w = v ELSE Bears(nd, q, w)
    <3>1. CASE q = k
      <4>1. \A i \in DOMAIN nd : i # m => new[i].key # k
        BY <1>2, <1>9, <1>10, <1>11
      <4> QED
        BY <1>2, <1>3, <3>1, <4>1 DEF Bears
    <3>2. CASE q # k /\ Bears(nd, q, w)
      <4>1. PICK i \in DOMAIN nd : nd[i].key = q /\ nd[i].val = w
        BY <3>2 DEF Bears
      <4>2. i # free
        BY <1>5, <4>1
      <4>3. CASE i = m
        BY <1>2, <1>11, <3>2, <4>1, <4>3 DEF Bears
      <4>4. CASE i # m
        BY <1>2, <1>10, <3>2, <4>1, <4>2, <4>4 DEF Bears
      <4> QED
        BY <4>3, <4>4
    <3>3. CASE q # k /\ Bears(new, q, w)
      <4>1. PICK i \in DOMAIN nd : new[i].key = q /\ new[i].val = w
        BY <1>2, <3>3 DEF Bears
      <4>2. i # m
        BY <1>3, <3>3, <4>1
      <4>3. CASE i = free
        BY <1>2, <1>11, <3>3, <4>1, <4>3 DEF Bears
      <4>4. CASE i # free
        BY <1>2, <1>10, <3>3, <4>1, <4>2, <4>4 DEF Bears
      <4> QED
        BY <4>3, <4>4
    <3> QED
      BY <3>1, <3>2, <3>3
  <2>2. Valued(nd) /\ v # Nil => Valued(new)
    BY <1>2, <1>3, <1>5, <1>10, <1>11 DEF Valued
  <2>3. /\ \A i \in DOMAIN nd : nd[i].key # Nil => new[i].key # Nil
        /\ \A i \in DOMAIN new : new[i].key = Nil \/ new[i].key = k \/ \E j \in DOMAIN nd : new[i].key = nd[j].key
    BY <1>2, <1>3, <1>5, <1>10, <1>11
  <2> QED
    BY <1>2, <2>1, <2>2, <2>3 DEF Puts
<1> QED
  BY <1>2, <1>4, <1>5, <1>11, <1>12, <1>13, <1>14 DEF NodesOk

(* The key goes into the free node, second in the chain of its main position. *)
Chains(nd, new, m, free, k, v) ==
  /\ m \in DOMAIN nd /\ free \in DOMAIN nd
  /\ Len(new) = Len(nd) /\ Vector(new)
  /\ nd[free].key = Nil /\ nd[m].val # Nil
  /\ SameEntry(new[m], nd[m]) /\ new[m].next = free - m
  /\ new[free].key = k /\ new[free].val = v /\ ~new[free].dead
  /\ new[free].next = IF nd[m].next = 0 THEN 0 ELSE m + nd[m].next - free
  /\ \A i \in DOMAIN nd : i # m /\ i # free => new[i] = nd[i]

(* Chaining a key in, seen as what it does to the links.                     *)
LEMMA ChainsLinks ==
  ASSUME NEW nd, NEW new, NEW m, NEW free, NEW k, NEW v,
         Vector(nd), Linked(nd), Keyed(nd), Chains(nd, new, m, free, k, v)
  PROVE  /\ Chained(To(nd), To(new), m, free)
         /\ To(new) \in [DOMAIN To(nd) -> DOMAIN To(nd) \cup {0}]
         /\ Linked(new)
<1>1. DOMAIN nd = 1 .. Len(nd) /\ DOMAIN new = DOMAIN nd /\ Len(nd) \in Nat
  BY DEF Vector, Chains
<1>2. /\ DOMAIN To(nd) = DOMAIN nd
      /\ \A i \in DOMAIN nd : To(nd)[i] = IF nd[i].next = 0 THEN 0 ELSE i + nd[i].next
      /\ \A i \in DOMAIN nd : To(nd)[i] # 0 <=> nd[i].next # 0
      /\ \A i \in DOMAIN nd : nd[i].next \in Int
  BY ToIs DEF Linked
<1>3. \A i \in DOMAIN nd : To(nd)[i] \in DOMAIN nd \cup {0} /\ 0 \notin DOMAIN nd
  BY ToIn
<1>4. m \in DOMAIN nd /\ free \in DOMAIN nd /\ m \in Nat /\ free \in Nat
  BY <1>1 DEF Chains
<1>5. To(nd)[free] = 0 /\ \A i \in DOMAIN nd : To(nd)[i] # free
  <2>2. nd[free].next = 0 /\ nd[free].key = Nil
    BY <1>4 DEF Chains, Keyed
  <2>3. \A i \in DOMAIN nd : To(nd)[i] # 0 => nd[To(nd)[i]].key # Nil
    BY DEF Keyed
  <2> QED
    BY <1>1, <1>2, <1>4, <2>2, <2>3
<1>6. m # free
  BY <1>4 DEF Chains, Keyed
<1>7. /\ \A i \in DOMAIN nd : i # m /\ i # free => new[i].next = nd[i].next
      /\ new[m].next = free - m
      /\ new[free].next = IF nd[m].next = 0 THEN 0 ELSE m + nd[m].next - free
  BY DEF Chains
<1>8. DOMAIN To(new) = DOMAIN nd /\ \A i \in DOMAIN nd : To(new)[i] = IF new[i].next = 0 THEN 0 ELSE i + new[i].next
  BY <1>1 DEF To
<1>9. To(new)[m] = free /\ new[m].next # 0 /\ m + new[m].next = free /\ new[m].next \in Int
  BY <1>4, <1>6, <1>7, <1>8
<1>10. /\ To(new)[free] = To(nd)[m] /\ new[free].next \in Int
       /\ new[free].next # 0 => free + new[free].next = To(nd)[m] /\ To(nd)[m] # 0
  <2>1. CASE nd[m].next = 0
    BY <1>2, <1>4, <1>7, <1>8, <2>1
  <2>2. CASE nd[m].next # 0
    <3>1. To(nd)[m] = m + nd[m].next /\ To(nd)[m] # free /\ nd[m].next \in Int
      BY <1>2, <1>4, <1>5, <2>2
    <3>2. new[free].next # 0 /\ free + new[free].next = m + nd[m].next
      BY <1>4, <1>7, <2>2, <3>1
    <3>3. To(nd)[m] # 0 /\ new[free].next \in Int
      BY <1>2, <1>4, <1>7, <2>2, <3>1
    <3> QED
      BY <1>4, <1>8, <3>1, <3>2, <3>3
  <2> QED
    BY <2>1, <2>2
<1>12. \A i \in DOMAIN nd : i # m /\ i # free => To(new)[i] = To(nd)[i]
  BY <1>2, <1>7, <1>8
<1>13. Chained(To(nd), To(new), m, free)
  BY <1>2, <1>4, <1>5, <1>6, <1>8, <1>9, <1>10, <1>12 DEF Chained
<1>14. To(new) \in [DOMAIN nd -> DOMAIN nd \cup {0}]
  <2>1. \A i \in DOMAIN nd : To(new)[i] \in DOMAIN nd \cup {0}
    BY <1>3, <1>4, <1>9, <1>10, <1>12
  <2> QED
    BY <1>8, <2>1 DEF To
<1>15. Linked(new)
  <2>1. Links(To(new))
    BY <1>2, <1>13, <1>14, ChainedLinks DEF Linked
  <2>2. \A i \in DOMAIN nd : new[i].next \in Int /\ (new[i].next # 0 => i + new[i].next \in DOMAIN nd)
    <3> TAKE i \in DOMAIN nd
    <3>1. CASE i = m
      BY <1>4, <1>9, <3>1
    <3>3. CASE i = free
      BY <1>3, <1>4, <1>10, <3>3
    <3>4. CASE i # m /\ i # free
      BY <1>7, <3>4 DEF Linked
    <3> QED
      BY <3>1, <3>3, <3>4
  <2> QED
    BY <1>1, <2>1, <2>2 DEF Linked
<1> QED
  BY <1>2, <1>13, <1>14, <1>15

(* Chaining a key in is sound.                                               *)
LEMMA ChainsOk ==
  ASSUME NEW hf \in [Key -> Nat], NEW nd, NEW new, NEW k \in Key, NEW v \in Val \cup {Nil},
         NEW free, Nil \notin Key, Nil \notin Val,
         NodesOk(nd, hf), Absent(nd, k),
         Chains(nd, new, Home(Len(nd), hf, k), free, k, v),
         Home(Len(nd), hf, nd[Home(Len(nd), hf, k)].key) = Home(Len(nd), hf, k)
  PROVE  NodesOk(new, hf) /\ Puts(nd, new, k, v) /\ new[free].key # Nil
<1> DEFINE m == Home(Len(nd), hf, k)
<1>1. Vector(nd) /\ Linked(nd) /\ Keyed(nd) /\ Homed(nd, hf)
  BY DEF NodesOk
<1>2. /\ DOMAIN nd = 1 .. Len(nd) /\ DOMAIN new = DOMAIN nd /\ Len(new) = Len(nd)
      /\ m \in DOMAIN nd /\ free \in DOMAIN nd /\ Vector(new)
  BY <1>1 DEF Vector, Chains
<1>3. /\ new[free].key = k /\ new[free].val = v /\ ~new[free].dead
      /\ \A i \in DOMAIN nd : i # free => new[i].key = nd[i].key /\ new[i].val = nd[i].val /\ new[i].dead = nd[i].dead
  BY DEF Chains, SameEntry
<1>4. Chained(To(nd), To(new), m, free) /\ To(new) \in [DOMAIN nd -> DOMAIN nd \cup {0}] /\ Linked(new)
  <2>1. DOMAIN To(nd) = DOMAIN nd
    BY <1>1, ToIs
  <2> QED
    BY <1>1, <2>1, ChainsLinks
<1>5. m # free /\ nd[free].key = Nil /\ nd[m].val # Nil /\ ~nd[m].dead /\ nd[m].key # Nil /\ nd[free].val = Nil
  BY <1>1, <1>2, <1>4 DEF Chains, Chained, Keyed
<1>6. \A i, j \in DOMAIN nd : i # free /\ Leads(To(nd), i, j) => Leads(To(new), i, j)
  <2>1. DOMAIN To(nd) = DOMAIN nd /\ Links(To(nd))
    BY <1>1, ToIs DEF Linked
  <2> QED
    BY <1>4, <2>1, ChainedLeads
<1>7. Home(Len(nd), hf, nd[m].key) = m
  OBVIOUS
<1>7a. m = Home(Len(nd), hf, k)
  OBVIOUS
<1>7b. Leads(To(new), m, free) /\ To(new)[free] = To(nd)[m]
  <2>1. m \in DOMAIN To(new) /\ To(new)[m] = free /\ free # 0
    BY <1>2, <1>4 DEF Chained
  <2> QED
    BY <1>4, <2>1, LeadsLink DEF Chained
<1> HIDE DEF m
<1>8. \A i \in DOMAIN nd : nd[i].key # Nil =>
         LET h == Home(Len(nd), hf, nd[i].key)
         IN  h \in DOMAIN nd /\ h # free /\ AtHome(nd, hf, h, i)
  <2> TAKE i \in DOMAIN nd
  <2> HAVE nd[i].key # Nil
  <2> DEFINE h == Home(Len(nd), hf, nd[i].key)
  <2>1. h \in DOMAIN nd
    BY <1>1, HomeOfKey
  <2>2. AtHome(nd, hf, h, i)
    BY <1>1 DEF Homed
  <2> HIDE DEF h
  <2>3. h # free
    BY <1>5, <2>2 DEF AtHome
  <2> QED
    BY <2>1, <2>2, <2>3 DEF h
<1>12. Homed(new, hf)
  <2> SUFFICES ASSUME NEW i \in DOMAIN nd, new[i].key # Nil
               PROVE  AtHome(new, hf, Home(Len(nd), hf, new[i].key), i)
    BY <1>2 DEF Homed
  <2>2. CASE i = free
    BY <1>2, <1>3, <1>5, <1>7, <1>7a, <1>7b, <2>2 DEF AtHome
  <2>3. CASE i # free
    <3> DEFINE h == Home(Len(nd), hf, nd[i].key)
    <3>1. h \in DOMAIN nd /\ h # free /\ AtHome(nd, hf, h, i)
      BY <1>3, <1>8, <2>3
    <3> HIDE DEF h
    <3>2. Leads(To(new), h, i)
      BY <1>6, <2>3, <3>1 DEF AtHome
    <3>3. AtHome(new, hf, h, i)
      BY <1>2, <1>3, <3>1, <3>2 DEF AtHome
    <3> QED
      BY <1>3, <2>3, <3>3 DEF h
  <2> QED
    BY <2>2, <2>3
<1>13. Keyed(new)
  <2>1. \A i \in DOMAIN new : To(new)[i] # 0 => new[To(new)[i]].key # Nil
    <3> TAKE i \in DOMAIN new
    <3> HAVE To(new)[i] # 0
    <3>1. \A j \in DOMAIN nd : j # free /\ nd[j].key # Nil => new[j].key # Nil
      BY <1>3
    <3>2. \A j \in DOMAIN nd : To(nd)[j] # 0 => To(nd)[j] \in DOMAIN nd /\ nd[To(nd)[j]].key # Nil /\ To(nd)[j] # free
      BY <1>1, <1>5, ToIn DEF Keyed
    <3>3. To(new)[i] = free \/ To(new)[i] = To(nd)[m] \/ To(new)[i] = To(nd)[i]
      BY <1>2, <1>4, <1>5 DEF Chained
    <3> QED
      BY <1>2, <1>3, <1>5, <3>1, <3>2, <3>3
  <2>2. \A i \in DOMAIN new : new[i].key = Nil => ~new[i].dead /\ new[i].val = Nil /\ new[i].next = 0
    <3> TAKE i \in DOMAIN new
    <3> HAVE new[i].key = Nil
    <3>1. i # m /\ i # free /\ nd[i].key = Nil
      BY <1>2, <1>3, <1>5
    <3>4. new[i] = nd[i]
      BY <1>2, <3>1 DEF Chains, m
    <3> QED
      BY <1>1, <1>2, <3>1, <3>4 DEF Keyed
  <2>3. \A i \in DOMAIN new : new[i].dead => new[i].val = Nil
    BY <1>1, <1>2, <1>3 DEF Keyed
  <2>4. ASSUME NEW i \in DOMAIN new, NEW j \in DOMAIN new,
               new[i].key # Nil, new[i].key = new[j].key, ~new[i].dead
        PROVE  IF new[j].dead THEN Leads(To(new), i, j) ELSE i = j
    <3>1. CASE i = free /\ j = free
      BY <1>3, <3>1
    <3>2. CASE i = free /\ j # free
      <4>1. nd[j].key = k /\ nd[j].dead /\ new[j].dead /\ nd[j].key # Nil
        BY <1>2, <1>3, <2>4, <3>2 DEF Absent
      <4>2. Leads(To(nd), m, j)
        BY <1>1, <1>2, <1>7a, <4>1 DEF Homed, AtHome
      <4>3. m # j
        BY <1>5, <4>1
      <4>4. To(nd)[m] # 0 /\ Leads(To(nd), To(nd)[m], j)
        BY <1>1, <1>2, <4>2, <4>3, LeadsOn, ToIs DEF Linked
      <4>5. To(nd)[m] \in DOMAIN nd /\ To(nd)[m] # free
        BY <1>1, <1>2, <1>4, <4>4, ToIn, ToIs DEF Chained
      <4>6. Leads(To(new), To(nd)[m], j)
        BY <1>2, <1>6, <4>4, <4>5
      <4>7. Leads(To(new), free, To(nd)[m])
        BY <1>2, <1>4, <1>7b, <4>4, LeadsLink
      <4> QED
        BY <3>2, <4>1, <4>6, <4>7, LeadsTrans
    <3>3. CASE i # free
      <4>1. /\ new[i].key = nd[i].key /\ ~nd[i].dead /\ nd[i].key # k
        BY <1>2, <1>3, <2>4, <3>3 DEF Absent
      <4>2. j # free /\ new[j].key = nd[j].key /\ new[j].dead = nd[j].dead
        BY <1>2, <1>3, <2>4, <4>1
      <4>3. IF nd[j].dead THEN Leads(To(nd), i, j) ELSE i = j
        <5>1. i \in DOMAIN nd /\ j \in DOMAIN nd /\ nd[i].key # Nil /\ nd[i].key = nd[j].key /\ ~nd[i].dead
          BY <1>2, <2>4, <4>1, <4>2
        <5> QED
          BY <1>1, <5>1 DEF Keyed
      <4> QED
        BY <1>2, <1>6, <3>3, <4>2, <4>3
    <3> QED
      BY <3>1, <3>2, <3>3
  <2> QED
    BY <2>1, <2>2, <2>3, <2>4 DEF Keyed
<1>14. Puts(nd, new, k, v)
  <2>1. ASSUME NEW q \in Key, NEW w \in Val
        PROVE  Bears(new, q, w) <=> IF q = k THEN w = v ELSE Bears(nd, q, w)
    <3>0. nd[free].val # w
      BY <1>5
    <3>1. CASE q = k
      <4>1. \A i \in DOMAIN nd : i # free /\ new[i].key = k => new[i].val = Nil
        BY <1>1, <1>3 DEF Absent, Keyed
      <4> QED
        BY <1>2, <1>3, <3>1, <4>1 DEF Bears
    <3>2. CASE q # k
      BY <1>2, <1>3, <3>0, <3>2 DEF Bears
    <3> QED
      BY <3>1, <3>2
  <2>2. Valued(nd) /\ v # Nil => Valued(new)
    BY <1>2, <1>3 DEF Valued
  <2>3. /\ \A i \in DOMAIN nd : nd[i].key # Nil => new[i].key # Nil
        /\ \A i \in DOMAIN new : new[i].key = Nil \/ new[i].key = k \/ \E j \in DOMAIN nd : new[i].key = nd[j].key
    BY <1>2, <1>3
  <2> QED
    BY <1>2, <2>1, <2>2, <2>3 DEF Puts
<1> QED
  BY <1>2, <1>3, <1>4, <1>12, <1>13, <1>14 DEF NodesOk
-----------------------------------------------------------------------------
TableType == [array : Seq(Val \cup {Nil}), node : Seq(Node), lastfree : Int, nested : BOOLEAN]

Framed(tb) ==
  /\ tb \in TableType
  /\ tb.node = <<>> \/ Len(tb.node) \in PowersOfTwo
  /\ tb.lastfree <= Len(tb.node) /\ -tb.lastfree <= Len(tb.array)
  /\ \A i \in DOMAIN tb.node : i > tb.lastfree => tb.node[i].key # Nil
  /\ \A i \in DOMAIN tb.array : tb.array[i] # Nil => i \in Index
  /\ \A i \in DOMAIN tb.node : tb.node[i].key \in Index => tb.node[i].key > Len(tb.array) + 1

TableOk(tb, hf) == Framed(tb) /\ NodesOk(tb.node, hf)

Entry(tb, k, w) == IF InArray(tb, k) THEN tb.array[k] = w ELSE Bears(tb.node, k, w)

(* What keys are.                                                            *)
LEMMA KeyFacts == Nil \notin Key /\ Nil \notin Val /\ Index \subseteq Key /\ Object \subseteq Key /\ Nil \notin Index /\ Nil \notin Object
BY TablesAssumption DEF Key

(* What the parts of a table are.                                            *)
LEMMA SeqFacts ==
  ASSUME NEW tb \in TableType
  PROVE  /\ Vector(tb.node) /\ DOMAIN tb.node = 1 .. Len(tb.node) /\ Len(tb.node) \in Nat
         /\ (tb.node = <<>> <=> Len(tb.node) = 0)
         /\ tb.array \in [1 .. Len(tb.array) -> Val \cup {Nil}]
         /\ DOMAIN tb.array = 1 .. Len(tb.array) /\ Len(tb.array) \in Nat
         /\ \A i \in DOMAIN tb.node : tb.node[i] \in Node
<1>1. tb.node \in Seq(Node) /\ tb.array \in Seq(Val \cup {Nil})
  BY DEF TableType
<1>2. Len(<<>>) = 0 /\ (tb.node # <<>> => Len(tb.node) \in Nat \ {0})
  BY <1>1, EmptySeq
<1> QED
  BY <1>1, <1>2, LenProperties, ElementOfSeq DEF Vector

(* What a node is.                                                           *)
LEMMA NodeFacts ==
  ASSUME NEW n \in Node
  PROVE  n.key \in Key \cup {Nil} /\ n.dead \in BOOLEAN /\ n.val \in Val \cup {Nil} /\ n.next \in Int
BY DEF Node

(* A key that is not dead is found at its only such node.                    *)
LEMMA SearchIs ==
  ASSUME NEW tb, hash \in [Key -> Nat], TableOk(tb, hash), NEW k \in Key
  PROVE  /\ Search(tb, k) = 0 <=> Absent(tb.node, k)
         /\ Search(tb, k) # 0 => /\ Search(tb, k) \in DOMAIN tb.node
                                 /\ tb.node[Search(tb, k)].key = k
                                 /\ ~tb.node[Search(tb, k)].dead
<1> DEFINE nd == tb.node
           sought == {i \in DOMAIN nd : nd[i].key = k /\ ~nd[i].dead}
           h == Home(Len(nd), hash, k)
<1>1. /\ Vector(nd) /\ DOMAIN nd = 1 .. Len(nd) /\ Len(nd) \in Nat /\ (nd = <<>> <=> Len(nd) = 0)
      /\ Linked(nd) /\ Keyed(nd) /\ Homed(nd, hash)
  BY SeqFacts DEF TableOk, Framed, NodesOk
<1>2. Search(tb, k) = IF nd = <<>> THEN 0 ELSE Chase(nd, sought)[h]
  BY DEF Search, InChain, Main, Home
<1>3. CASE nd = <<>>
  BY <1>1, <1>2, <1>3 DEF Absent
<1>4. CASE nd # <<>>
  <2>1. h \in DOMAIN nd
    BY <1>1, <1>4, HomeIn
  <2>2. Search(tb, k) = First(To(nd), h, sought)
    BY <1>1, <1>2, <1>4, <2>1, ChaseFirst
  <2>3. CASE sought = {}
    <3>1. First(To(nd), h, sought) = 0
      BY <2>3 DEF First, Met
    <3>2. Absent(nd, k)
      BY <2>3 DEF Absent
    <3> QED
      BY <2>2, <3>1, <3>2
  <2>4. CASE sought # {}
    <3>1. PICK i \in DOMAIN nd : nd[i].key = k /\ ~nd[i].dead
      BY <2>4
    <3>2. \A j \in sought : j = i
      BY <1>1, <3>1, KeyFacts DEF Keyed
    <3>3. Leads(To(nd), h, i)
      BY <1>1, <3>1, KeyFacts DEF Homed, AtHome
    <3>4. i \in Met(To(nd), h, sought)
      BY <3>1, <3>3 DEF Met
    <3>5. \A j \in Met(To(nd), h, sought) : Leads(To(nd), i, j)
      BY <3>2, LeadsSelf DEF Met
    <3>6. h \in DOMAIN To(nd) /\ Links(To(nd))
      BY <1>1, <2>1, ToIs DEF Linked
    <3>7. First(To(nd), h, sought) = i
      BY <3>4, <3>5, <3>6, FirstBy
    <3>8. i # 0
      BY <1>1, <3>1
    <3> QED
      BY <2>2, <3>1, <3>7, <3>8 DEF Absent
  <2> QED
    BY <2>3, <2>4
<1> QED
  BY <1>3, <1>4

(* Get returns the value of a key.                                           *)
LEMMA GetIs ==
  ASSUME NEW tb, hash \in [Key -> Nat], TableOk(tb, hash), NEW k \in Key
  PROVE  Get(tb, k) \in Val \cup {Nil} /\ \A w \in Val : Get(tb, k) = w <=> Entry(tb, k, w)
<1>1. /\ Keyed(tb.node) /\ DOMAIN tb.array = 1 .. Len(tb.array) /\ Len(tb.array) \in Nat
      /\ tb.array \in [1 .. Len(tb.array) -> Val \cup {Nil}]
      /\ \A i \in DOMAIN tb.node : tb.node[i] \in Node
  BY SeqFacts DEF TableOk, Framed, NodesOk
<1>2. CASE InArray(tb, k)
  <2>1. k \in 1 .. Len(tb.array)
    BY <1>1, <1>2, TablesAssumption DEF InArray, Index
  <2> QED
    BY <1>1, <1>2, <2>1 DEF Get, Entry
<1>3. CASE ~InArray(tb, k) /\ Search(tb, k) = 0
  <2>1. Absent(tb.node, k)
    BY <1>3, SearchIs
  <2>2. \A w \in Val : ~Bears(tb.node, k, w)
    BY <1>1, <2>1, KeyFacts DEF Absent, Bears, Keyed
  <2> QED
    BY <1>3, <2>2, KeyFacts DEF Get, Entry
<1>4. CASE ~InArray(tb, k) /\ Search(tb, k) # 0
  <2>1. PICK i \in DOMAIN tb.node : i = Search(tb, k) /\ tb.node[i].key = k /\ ~tb.node[i].dead
    BY <1>4, SearchIs
  <2>2. Get(tb, k) = tb.node[i].val /\ tb.node[i].val \in Val \cup {Nil}
    BY <1>1, <1>4, <2>1, NodeFacts DEF Get
  <2>3. \A j \in DOMAIN tb.node : tb.node[j].key = k => j = i \/ tb.node[j].val = Nil
    BY <1>1, <2>1, KeyFacts DEF Keyed
  <2>4. \A w \in Val : Bears(tb.node, k, w) <=> tb.node[i].val = w
    BY <2>1, <2>3, KeyFacts DEF Bears
  <2> QED
    BY <1>4, <2>2, <2>4 DEF Entry
<1> QED
  BY <1>2, <1>3, <1>4

(* The search for a free node from lastfree down finds one, if there is any. *)
LEMMA FreePosIs ==
  ASSUME NEW tb \in TableType, tb.lastfree <= Len(tb.node)
  PROVE  /\ FreePos(tb) = 0 => \A i \in DOMAIN tb.node : i <= tb.lastfree => tb.node[i].key # Nil
         /\ FreePos(tb) # 0 => /\ FreePos(tb) \in DOMAIN tb.node /\ FreePos(tb) <= tb.lastfree
                               /\ tb.node[FreePos(tb)].key = Nil
                               /\ \A i \in DOMAIN tb.node : i > FreePos(tb) /\ i <= tb.lastfree => tb.node[i].key # Nil
<1> DEFINE free == {i \in 1 .. tb.lastfree : tb.node[i].key = Nil}
<1>1. DOMAIN tb.node = 1 .. Len(tb.node) /\ Len(tb.node) \in Nat /\ tb.lastfree \in Int
  BY SeqFacts DEF TableType
<1>2. FreePos(tb) = IF free = {} THEN 0 ELSE Max(free)
  BY DEF FreePos
<1>3. CASE free = {}
  BY <1>1, <1>2, <1>3
<1>4. CASE free # {}
  <2>1. free \in SUBSET (0 .. Len(tb.node))
    BY <1>1
  <2> HIDE DEF free
  <2>2. \E n \in free : \A m \in free : n >= m
    BY <1>1, <1>4, <2>1, Greatest
  <2>3. Max(free) \in free /\ \A m \in free : Max(free) >= m
    BY <2>2 DEF Max
  <2>4. FreePos(tb) \in free /\ \A m \in free : FreePos(tb) >= m
    BY <1>2, <1>4, <2>3
  <2> QED
    BY <1>1, <2>4 DEF free
<1> QED
  BY <1>3, <1>4

(* What gives way has a predecessor, and the walk from the main position of  *)
(* its key finds it.                                                         *)
LEMMA BeforeIs ==
  ASSUME NEW tb, hash \in [Key -> Nat], TableOk(tb, hash), NEW m \in DOMAIN tb.node,
         tb.node[m].key # Nil, Home(Len(tb.node), hash, tb.node[m].key) # m,
         NEW b, b = InChain(tb, tb.node[m].key, {i \in DOMAIN tb.node : i + tb.node[i].next = m})
  PROVE  b \in DOMAIN tb.node /\ tb.node[b].next # 0 /\ b + tb.node[b].next = m
<1> DEFINE nd == tb.node
           sought == {i \in DOMAIN nd : i + nd[i].next = m}
           h == Home(Len(nd), hash, nd[m].key)
           to == To(nd)
<1>1. /\ Vector(nd) /\ DOMAIN nd = 1 .. Len(nd) /\ Len(nd) \in Nat /\ (nd = <<>> <=> Len(nd) = 0)
      /\ Linked(nd) /\ Keyed(nd) /\ Homed(nd, hash)
  BY SeqFacts DEF TableOk, Framed, NodesOk
<1>2. h \in DOMAIN nd /\ nd # <<>>
  BY <1>1, HomeOfKey
<1>3. /\ DOMAIN to = DOMAIN nd /\ Links(to)
      /\ \A i \in DOMAIN nd : to[i] = IF nd[i].next = 0 THEN 0 ELSE i + nd[i].next
      /\ \A i \in DOMAIN nd : to[i] # 0 <=> nd[i].next # 0
  BY <1>1, ToIs DEF Linked
<1>4. InChain(tb, nd[m].key, sought) = First(to, h, sought)
  <2>1. InChain(tb, nd[m].key, sought) = Chase(nd, sought)[h]
    BY <1>2 DEF InChain, Main, Home
  <2> QED
    BY <1>1, <1>2, <2>1, ChaseFirst
<1>5. Leads(to, h, m) /\ h # m
  BY <1>1 DEF Homed, AtHome
<1> HIDE DEF to, h
<1>6. PICK p \in DOMAIN nd : Leads(to, h, p) /\ p # m /\ to[p] = m
  <2> SUFFICES ASSUME \A p \in DOMAIN nd : Leads(to, h, p) /\ p # m => to[p] # m
               PROVE  FALSE
    OBVIOUS
  <2> DEFINE S == {p \in DOMAIN nd : Leads(to, h, p) /\ p # m}
  <2>1. Shut(to, S)
    <3> SUFFICES ASSUME NEW p \in S, to[p] # 0 PROVE to[p] \in S
      BY DEF Shut
    <3>1. Leads(to, p, to[p]) /\ to[p] \in DOMAIN nd
      BY <1>3, LeadsLink DEF Links
    <3> QED
      BY <3>1, LeadsTrans
  <2>2. h \in S
    BY <1>2, <1>5, LeadsSelf
  <2>3. m \in S
    BY <1>3, <1>5, <2>1, <2>2 DEF Leads
  <2> QED
    BY <2>3
<1>7. m # 0 /\ nd[p].next # 0 /\ p + nd[p].next = m
  BY <1>1, <1>3, <1>6
<1>8. p \in Met(to, h, sought)
  BY <1>6, <1>7 DEF Met
<1>9. \A j \in Met(to, h, sought) : Leads(to, p, j)
  <2> TAKE j \in Met(to, h, sought)
  <2>1. j \in DOMAIN nd /\ j + nd[j].next = m
    BY DEF Met
  <2>2. CASE nd[j].next # 0
    <3>1. to[j] = m
      BY <1>3, <2>1, <2>2
    <3>2. j = p
      BY <1>3, <1>6, <1>7, <2>1, <3>1 DEF Links
    <3> QED
      BY <3>2, LeadsSelf
  <2>3. CASE nd[j].next = 0
    <3>1. j = m
      BY <1>1, <2>1, <2>3
    <3> QED
      BY <1>3, <1>6, <1>7, <3>1, LeadsLink
  <2> QED
    BY <2>2, <2>3
<1>10. First(to, h, sought) = p
  BY <1>2, <1>3, <1>8, <1>9, FirstBy
<1> QED
  BY <1>4, <1>7, <1>10

(* Writing the link of a node.                                               *)
LEMMA NodeNext ==
  ASSUME NEW n \in Node, NEW x \in Int
  PROVE  LET a == [n EXCEPT !.next = x]
         IN  a \in Node /\ a.key = n.key /\ a.dead = n.dead /\ a.val = n.val /\ a.next = x
BY DEF Node

(* Writing a node and lastfree.                                              *)
LEMMA NodeAdded ==
  ASSUME NEW k \in Key, NEW v \in Val \cup {Nil}
  PROVE  LET a == SetKey(FreeNode, k, v)
         IN  a \in Node /\ a.key = k /\ ~a.dead /\ a.val = v /\ a.next = 0
<1>1. FreeNode \in Node /\ FreeNode.next = 0
  BY DEF FreeNode, Node
<1>2. \A n \in Node : LET a == SetKey(n, k, v)
                      IN  a \in Node /\ a.key = k /\ ~a.dead /\ a.val = v /\ a.next = n.next
  BY DEF SetKey, Node
<1> QED
  BY <1>1, <1>2

Renewed(tb, w, l) == [tb EXCEPT !.node = w, !.lastfree = l]

(* What is written is what is there.                                         *)
LEMMA RenewedIs ==
  ASSUME NEW tb \in TableType, NEW w \in Seq(Node), NEW l \in Int,
         NEW new, new = Renewed(tb, w, l)
  PROVE  new \in TableType /\ new.node = w /\ new.lastfree = l /\ new.array = tb.array /\ new.nested = tb.nested
<1> DEFINE mid == [tb EXCEPT !.node = w]
<1>1. mid \in TableType /\ mid.node = w /\ mid.array = tb.array /\ mid.nested = tb.nested
  BY DEF TableType
<1>2. new = [mid EXCEPT !.lastfree = l]
  BY DEF TableType, Renewed
<1> HIDE DEF mid
<1> QED
  BY <1>1, <1>2 DEF TableType

(* newkey without a rehash.                                                  *)
LEMMA PlaceOk ==
  ASSUME NEW tb, hash \in [Key -> Nat], TableOk(tb, hash), NEW k \in Key, NEW v \in Val \cup {Nil},
         Absent(tb.node, k), ~NeedsRehash(tb, k), ~InArray(tb, k)
  PROVE  /\ TableOk(Place(tb, k, v), hash)
         /\ Puts(tb.node, Place(tb, k, v).node, k, v)
         /\ Place(tb, k, v).array = tb.array /\ Place(tb, k, v).nested = tb.nested
<1> DEFINE nd == tb.node
           n == Len(nd)
           m == Home(n, hash, k)
           new == Place(tb, k, v)
           free == FreePos(tb)
<1>1. /\ Vector(nd) /\ DOMAIN nd = 1 .. n /\ n \in Nat /\ (nd = <<>> <=> n = 0)
      /\ NodesOk(nd, hash) /\ Keyed(nd) /\ tb \in TableType /\ \A i \in DOMAIN nd : nd[i] \in Node
      /\ Len(tb.array) \in Nat
  BY SeqFacts DEF TableOk, Framed, NodesOk
<1>2. nd # <<>> /\ k # Len(tb.array) + 1 /\ Main(tb, k) = m
  BY DEF NeedsRehash, Main, Home
<1>3. m \in DOMAIN nd
  BY <1>1, <1>2, HomeIn
<1>4. k \in Index => k > Len(tb.array) + 1
  BY <1>1, <1>2, TablesAssumption DEF InArray, Index
<1>5. Framed(tb)
  BY DEF TableOk
(* What is left to show of each case.                                        *)
<1>6. ASSUME new \in TableType, new.array = tb.array, new.nested = tb.nested,
             NodesOk(new.node, hash), Puts(nd, new.node, k, v),
             new.lastfree = tb.lastfree \/ (new.lastfree = free - 1 /\ free # 0 /\ new.node[free].key # Nil)
      PROVE  TableOk(new, hash)
  <2>1. Len(new.node) = n /\ DOMAIN new.node = DOMAIN nd
    BY <1>1, <1>6, SeqFacts DEF Puts
  <2>2. new.node = <<>> \/ Len(new.node) \in PowersOfTwo
    BY <1>2, <1>5, <2>1 DEF Framed
  <2>3. free # 0 => /\ free \in DOMAIN nd /\ free <= tb.lastfree
                    /\ \A i \in DOMAIN nd : i > free /\ i <= tb.lastfree => nd[i].key # Nil
    BY <1>1, <1>5, FreePosIs DEF Framed
  <2>4. tb.lastfree \in Int /\ tb.lastfree <= n /\ -tb.lastfree <= Len(tb.array)
        /\ \A i \in DOMAIN nd : i > tb.lastfree => nd[i].key # Nil
    BY <1>5 DEF Framed, TableType
  <2> HIDE DEF free, new
  <2>5. new.lastfree <= Len(new.node) /\ -new.lastfree <= Len(new.array)
    BY <1>1, <1>6, <2>1, <2>3, <2>4
  <2>6. \A i \in DOMAIN new.node : i > new.lastfree => new.node[i].key # Nil
    <3> TAKE i \in DOMAIN new.node
    <3> HAVE i > new.lastfree
    <3>1. nd[i].key # Nil => new.node[i].key # Nil
      BY <1>6, <2>1 DEF Puts
    <3>2. CASE new.lastfree = tb.lastfree
      BY <2>1, <2>4, <3>1, <3>2
    <3>3. CASE new.lastfree = free - 1 /\ free # 0 /\ new.node[free].key # Nil
      BY <1>1, <2>1, <2>3, <2>4, <3>1, <3>3
    <3> QED
      BY <1>6, <3>2, <3>3
  <2>7. \A i \in DOMAIN new.node : new.node[i].key \in Index => new.node[i].key > Len(new.array) + 1
    <3> TAKE i \in DOMAIN new.node
    <3> HAVE new.node[i].key \in Index
    <3>1. new.node[i].key = k \/ \E j \in DOMAIN nd : new.node[i].key = nd[j].key
      BY <1>6, KeyFacts DEF Puts
    <3> QED
      BY <1>4, <1>5, <1>6, <3>1 DEF Framed
  <2> QED
    BY <1>5, <1>6, <2>2, <2>5, <2>6, <2>7 DEF TableOk, Framed
<1>7. CASE nd[m].val = Nil
  <2> DEFINE wn == [nd EXCEPT ![m] = SetKey(@, k, v)]
  <2>1. new = [tb EXCEPT !.node = wn]
    BY <1>1, <1>2, <1>7 DEF Place, TableType
  <2>2. /\ wn \in [1 .. n -> Node] /\ DOMAIN wn = 1 .. n
        /\ wn[m] = [nd[m] EXCEPT !.key = k, !.dead = FALSE, !.val = v]
        /\ \A i \in 1 .. n : i # m => wn[i] = nd[i]
    BY <1>1, <1>3 DEF SetKey, Node, Vector
  <2> HIDE DEF wn
  <2>3. wn \in Seq(Node) /\ Len(wn) = n
    BY <1>1, <2>2, SeqDef, LenProperties
  <2>4. new \in TableType /\ new.node = wn /\ new.array = tb.array /\ new.nested = tb.nested /\ new.lastfree = tb.lastfree
    BY <1>1, <2>1, <2>3 DEF TableType
  <2>5. Takes(nd, wn, m, k, v)
    BY <1>1, <1>3, <2>2, <2>3 DEF Takes, Vector, Node
  <2>6. NodesOk(wn, hash) /\ Puts(nd, wn, k, v)
    BY <1>1, <1>7, <2>5, TakesOk, KeyFacts
  <2> QED
    BY <1>6, <2>4, <2>6
<1>8. CASE nd[m].val # Nil
  <2>1. free # 0 /\ free \in DOMAIN nd /\ nd[free].key = Nil
    BY <1>1, <1>2, <1>5, <1>8, FreePosIs DEF NeedsRehash, Framed
  <2>2. nd[m].key # Nil /\ m # free /\ nd[free].next = 0 /\ m \in Nat /\ free \in Nat
    BY <1>1, <1>3, <1>8, <2>1 DEF Keyed
  <2>3. nd[m].key \in Key /\ nd[m] \in Node /\ nd[m].next \in Int
    BY <1>1, <1>3, <2>2, NodeFacts
  <2>4. CASE Home(n, hash, nd[m].key) # m
    <3> DEFINE b == InChain(tb, nd[m].key, {i \in DOMAIN nd : i + nd[i].next = m})
               moved == [nd[m] EXCEPT !.next = IF @ = 0 THEN 0 ELSE @ + m - free]
               added == SetKey(FreeNode, k, v)
               linked == [nd[b] EXCEPT !.next = free - b]
               wn == [[[nd EXCEPT ![b].next = free - b] EXCEPT ![free] = moved] EXCEPT ![m] = added]
    <3>0. b = InChain(tb, nd[m].key, {i \in DOMAIN nd : i + nd[i].next = m})
      OBVIOUS
    <3>00. new = Renewed(tb, wn, free - 1)
      BY <1>1, <1>2, <1>8, <2>4 DEF Place, Collides, GiveWay, Main, Home, TableType, Renewed
    <3> HIDE DEF b
    <3>1. b \in DOMAIN nd /\ nd[b].next # 0 /\ b + nd[b].next = m
      BY <1>3, <2>2, <2>4, <3>0, BeforeIs
    <3>2. b # m /\ b # free /\ b \in Nat
      <4>1. nd[b].next \in Int /\ b \in Nat
        BY <1>1, <3>1, NodeFacts
      <4> HIDE DEF nd, free, m
      <4> QED
        BY <2>1, <2>2, <3>1, <4>1
    <3>2a. free - b \in Int /\ (IF nd[m].next = 0 THEN 0 ELSE nd[m].next + m - free) \in Int
      BY <2>2, <2>3, <3>2
    <3>3. moved \in Node /\ added \in Node /\ linked \in Node
      BY <1>1, <2>3, <3>1, <3>2a, NodeNext, NodeAdded
    <3>4. /\ wn \in [1 .. n -> Node] /\ DOMAIN wn = 1 .. n
          /\ wn[b] = linked /\ wn[free] = moved /\ wn[m] = added
          /\ \A i \in 1 .. n : i # m /\ i # b /\ i # free => wn[i] = nd[i]
      BY <1>1, <1>3, <2>1, <2>2, <3>1, <3>2, <3>3 DEF Vector
    <3>5. /\ linked.key = nd[b].key /\ linked.dead = nd[b].dead /\ linked.val = nd[b].val /\ linked.next = free - b
          /\ moved.key = nd[m].key /\ moved.dead = nd[m].dead /\ moved.val = nd[m].val
          /\ moved.next = IF nd[m].next = 0 THEN 0 ELSE nd[m].next + m - free
          /\ added.key = k /\ ~added.dead /\ added.val = v /\ added.next = 0
      BY <1>1, <2>3, <3>1, <3>2a, NodeNext, NodeAdded
    <3> HIDE DEF wn, moved, added, linked
    <3>6. wn \in Seq(Node) /\ Len(wn) = n
      BY <1>1, <3>4, SeqDef, LenProperties
    <3>7. new \in TableType /\ new.node = wn /\ new.array = tb.array /\ new.nested = tb.nested /\ new.lastfree = free - 1
      <4>1. free - 1 \in Int
        BY <2>2
      <4>2. tb \in TableType /\ wn \in Seq(Node)
        BY <1>1, <3>6
      <4> HIDE DEF new, free
      <4>3. /\ new \in TableType /\ new.node = wn /\ new.lastfree = free - 1
            /\ new.array = tb.array /\ new.nested = tb.nested
        BY ONLY <3>00, <4>1, <4>2, RenewedIs
      <4> QED
        BY <4>3
    <3>8. GivesWay(nd, wn, b, m, free, k, v)
      BY <1>1, <1>3, <1>8, <2>1, <3>1, <3>4, <3>5, <3>6 DEF GivesWay, Vector, SameEntry
    <3>9. NodesOk(wn, hash) /\ Puts(nd, wn, k, v) /\ wn[free].key # Nil
      BY <1>1, <2>4, <3>8, GivesWayOk, KeyFacts
    <3> QED
      BY <1>6, <2>1, <3>7, <3>9
  <2>5. CASE Home(n, hash, nd[m].key) = m
    <3> DEFINE onward == IF nd[m].next = 0 THEN 0 ELSE m + nd[m].next - free
               added == [SetKey(FreeNode, k, v) EXCEPT !.next = onward]
               linked == [nd[m] EXCEPT !.next = free - m]
               wn == [[nd EXCEPT ![free] = added] EXCEPT ![m].next = free - m]
    <3>00. new = Renewed(tb, wn, free - 1)
      <4>1. new = ChainAfter(tb, m, free, k, v)
        BY <1>2, <1>8, <2>5 DEF Place, Collides, Main, Home
      <4> QED
        BY <1>1, <4>1 DEF ChainAfter, TableType, Renewed
    <3>2a. free - m \in Int /\ onward \in Int
      BY <2>2, <2>3
    <3> HIDE DEF onward
    <3>3. added \in Node /\ linked \in Node
      BY <1>1, <2>3, <3>2a, NodeNext, NodeAdded
    <3>4. /\ wn \in [1 .. n -> Node] /\ DOMAIN wn = 1 .. n
          /\ wn[m] = linked /\ wn[free] = added
          /\ \A i \in 1 .. n : i # m /\ i # free => wn[i] = nd[i]
      BY <1>1, <1>3, <2>1, <2>2, <3>3 DEF Vector
    <3>5. /\ linked.key = nd[m].key /\ linked.dead = nd[m].dead /\ linked.val = nd[m].val /\ linked.next = free - m
          /\ added.key = k /\ ~added.dead /\ added.val = v
          /\ added.next = IF nd[m].next = 0 THEN 0 ELSE m + nd[m].next - free
      BY <1>1, <2>3, <3>2a, NodeNext, NodeAdded DEF onward
    <3> HIDE DEF wn, added, linked
    <3>6. wn \in Seq(Node) /\ Len(wn) = n
      BY <1>1, <3>4, SeqDef, LenProperties
    <3>7. new \in TableType /\ new.node = wn /\ new.array = tb.array /\ new.nested = tb.nested /\ new.lastfree = free - 1
      <4>1. free - 1 \in Int
        BY <2>2
      <4>2. tb \in TableType /\ wn \in Seq(Node)
        BY <1>1, <3>6
      <4> HIDE DEF new, free
      <4>3. /\ new \in TableType /\ new.node = wn /\ new.lastfree = free - 1
            /\ new.array = tb.array /\ new.nested = tb.nested
        BY ONLY <3>00, <4>1, <4>2, RenewedIs
      <4> QED
        BY <4>3
    <3>8. Chains(nd, wn, m, free, k, v)
      BY <1>1, <1>3, <1>8, <2>1, <3>4, <3>5, <3>6 DEF Chains, Vector, SameEntry
    <3>9. NodesOk(wn, hash) /\ Puts(nd, wn, k, v) /\ wn[free].key # Nil
      BY <1>1, <2>5, <3>8, ChainsOk, KeyFacts
    <3> QED
      BY <1>6, <2>1, <3>7, <3>9
  <2> QED
    BY <2>4, <2>5
<1> QED
  BY <1>7, <1>8
-----------------------------------------------------------------------------
(* The table r holds what tb does, but v under the key k.                    *)
Holds(tb, r, k, v) ==
  \A q \in Key, w \in Val : Entry(r, q, w) <=> IF q = k THEN w = v ELSE Entry(tb, q, w)

Shaped(tb, r) ==
  Len(r.array) = Len(tb.array) /\ Len(r.node) = Len(tb.node) /\ r.nested = tb.nested

NodeKeys(nd) == {nd[i].key : i \in DOMAIN nd} \ {Nil}

(* The keys of the array part are its positions.                             *)
LEMMA InArrayIs ==
  ASSUME NEW tb \in TableType, NEW k
  PROVE  InArray(tb, k) <=> k \in Index /\ k \in DOMAIN tb.array
BY SeqFacts, TablesAssumption DEF InArray, Index

(* A write into the array part.                                              *)
LEMMA ArrayWrite ==
  ASSUME NEW tb, NEW hf, TableOk(tb, hf), NEW k \in Key, InArray(tb, k), NEW v \in Val \cup {Nil},
         NEW r, r = [tb EXCEPT !.array[k] = v]
  PROVE  TableOk(r, hf) /\ Holds(tb, r, k, v) /\ Shaped(tb, r) /\ r.node = tb.node
<1>1. /\ tb \in TableType /\ DOMAIN tb.array = 1 .. Len(tb.array) /\ Len(tb.array) \in Nat
      /\ tb.array \in [1 .. Len(tb.array) -> Val \cup {Nil}] /\ k \in Index /\ k \in DOMAIN tb.array
  BY SeqFacts, InArrayIs DEF TableOk, Framed
<1> DEFINE a == [tb.array EXCEPT ![k] = v]
<1>2. r = [tb EXCEPT !.array = a]
  BY <1>1 DEF TableType
<1>3. a \in [1 .. Len(tb.array) -> Val \cup {Nil}] /\ a[k] = v /\ \A i \in DOMAIN tb.array : i # k => a[i] = tb.array[i]
  BY <1>1
<1> HIDE DEF a
<1>4. a \in Seq(Val \cup {Nil}) /\ Len(a) = Len(tb.array) /\ DOMAIN a = DOMAIN tb.array
  BY <1>1, <1>3, SeqDef, LenProperties
<1>5. /\ r \in TableType /\ r.array = a /\ r.node = tb.node /\ r.lastfree = tb.lastfree /\ r.nested = tb.nested
  BY <1>1, <1>2, <1>4 DEF TableType
<1>6. TableOk(r, hf)
  <2>1. Framed(tb) /\ NodesOk(tb.node, hf)
    BY DEF TableOk
  <2>2. \A i \in DOMAIN r.array : r.array[i] # Nil => i \in Index
    BY <1>1, <1>3, <1>4, <1>5, <2>1 DEF Framed
  <2> QED
    BY <1>4, <1>5, <2>1, <2>2 DEF TableOk, Framed
<1>7. Holds(tb, r, k, v)
  <2>1. \A q : InArray(r, q) <=> InArray(tb, q)
    BY <1>4, <1>5 DEF InArray
  <2>2. \A q : InArray(tb, q) => q \in DOMAIN tb.array
    BY <1>1, InArrayIs
  <2> QED
    BY <1>3, <1>5, <2>1, <2>2 DEF Holds, Entry
<1> QED
  BY <1>4, <1>5, <1>6, <1>7 DEF Shaped

(* There is room where fewer keys have nodes than there are nodes.           *)
LEMMA Roomy ==
  ASSUME NEW tb, NEW hf, TableOk(tb, hf), Valued(tb.node), NEW H, IsFiniteSet(H), NEW k \in H,
         NodeKeys(tb.node) \subseteq H \ {k}, Cardinality(H) <= Len(tb.node), k # Len(tb.array) + 1
  PROVE  ~NeedsRehash(tb, k)
<1> DEFINE nd == tb.node
<1>1. /\ tb \in TableType /\ DOMAIN nd = 1 .. Len(nd) /\ Len(nd) \in Nat /\ (nd = <<>> <=> Len(nd) = 0)
      /\ Keyed(nd) /\ tb.lastfree <= Len(nd) /\ tb.lastfree \in Int
      /\ \A i \in DOMAIN nd : i > tb.lastfree => nd[i].key # Nil
  BY SeqFacts DEF TableOk, Framed, NodesOk, TableType
<1>2. Cardinality(H) \in Nat /\ IsFiniteSet(H \ {k}) /\ Cardinality(H \ {k}) = Cardinality(H) - 1
  BY FS_CardinalityType, FS_RemoveElement
<1>3. Cardinality(H \ {k}) \in Nat
  BY <1>2, FS_CardinalityType
<1>4. nd # <<>>
  BY <1>1, <1>2, <1>3
<1>5. FreePos(tb) # 0
  <2> SUFFICES ASSUME FreePos(tb) = 0 PROVE FALSE
    OBVIOUS
  <2>1. \A i \in DOMAIN nd : nd[i].key # Nil
    BY <1>1, FreePosIs
  <2> DEFINE f == [i \in 1 .. Len(nd) |-> nd[i].key]
  <2>2. f \in [1 .. Len(nd) -> H \ {k}]
    BY <1>1, <2>1 DEF NodeKeys
  <2>3. IsFiniteSet(1 .. Len(nd)) /\ Cardinality(1 .. Len(nd)) = Len(nd)
    BY <1>1, FS_Interval
  <2>4. Cardinality(H \ {k}) < Cardinality(1 .. Len(nd))
    BY <1>1, <1>2, <2>3
  <2> HIDE DEF f
  <2>5. PICK i \in 1 .. Len(nd), j \in 1 .. Len(nd) : i # j /\ f[i] = f[j]
    BY <1>2, <2>2, <2>3, <2>4, FS_PigeonHole
  <2>6. nd[i].key = nd[j].key /\ nd[i].val # Nil /\ nd[j].val # Nil /\ nd[i].key # Nil
    BY <1>1, <2>1, <2>5 DEF f, Valued
  <2>7. ~nd[i].dead /\ ~nd[j].dead
    BY <1>1, <2>6 DEF Keyed
  <2> QED
    BY <1>1, <2>5, <2>6, <2>7 DEF Keyed
<1> QED
  BY <1>4, <1>5 DEF NeedsRehash

(* arrayornewkey, where there is room.                                       *)
LEMMA ReinsertOk ==
  ASSUME NEW tb, hash \in [Key -> Nat], TableOk(tb, hash), NEW k \in Key, NEW v \in Val \cup {Nil},
         Absent(tb.node, k), ~NeedsRehash(tb, k) \/ InArray(tb, k),
         NEW r, r = Reinsert(tb, k, v)
  PROVE  /\ TableOk(r, hash) /\ Holds(tb, r, k, v) /\ Shaped(tb, r)
         /\ Valued(tb.node) /\ v # Nil => Valued(r.node)
         /\ NodeKeys(r.node) \subseteq NodeKeys(tb.node) \cup (IF InArray(tb, k) THEN {} ELSE {k})
<1>1. CASE InArray(tb, k)
  <2>1. r = [tb EXCEPT !.array[k] = v]
    BY <1>1 DEF Reinsert
  <2>2. TableOk(r, hash) /\ Holds(tb, r, k, v) /\ Shaped(tb, r) /\ r.node = tb.node
    BY <1>1, <2>1, ArrayWrite
  <2> QED
    BY <2>2
<1>2. CASE ~InArray(tb, k)
  <2>1. r = Place(tb, k, v) /\ ~NeedsRehash(tb, k)
    BY <1>2 DEF Reinsert
  <2>2. TableOk(r, hash) /\ Puts(tb.node, r.node, k, v) /\ r.array = tb.array /\ r.nested = tb.nested
    BY <1>2, <2>1, PlaceOk
  <2>3. \A q : InArray(r, q) <=> InArray(tb, q)
    BY <2>2 DEF InArray
  <2>4. Holds(tb, r, k, v)
    BY <1>2, <2>2, <2>3 DEF Holds, Puts, Entry
  <2>5. Shaped(tb, r)
    BY <2>2 DEF Shaped, Puts
  <2>6. NodeKeys(r.node) \subseteq NodeKeys(tb.node) \cup {k}
    BY <2>2 DEF Puts, NodeKeys
  <2> QED
    BY <1>2, <2>2, <2>4, <2>5, <2>6 DEF Puts
<1> QED
  BY <1>1, <1>2

(* Inserting the entries one after the other is well defined.                *)
LEMMA InsertingIs ==
  ASSUME NEW tb, NEW es, Len(es) \in Nat
  PROVE  /\ Inserting(tb, es)[0] = tb
         /\ \A n \in 1 .. Len(es) :
              Inserting(tb, es)[n] = IF es[n].val = Nil THEN Inserting(tb, es)[n - 1]
                                     ELSE Reinsert(Inserting(tb, es)[n - 1], es[n].key, es[n].val)
<1> DEFINE step(f, n) == IF n = 0 THEN tb
                         ELSE IF es[n].val = Nil THEN f[n - 1]
                         ELSE Reinsert(f[n - 1], es[n].key, es[n].val)
           body(f, m) == [n \in 0 .. m |-> step(f, n)]
           Bad == {m \in 0 .. Len(es) : ~\E f : f = body(f, m)}
<1>1. Bad = {}
  <2> SUFFICES ASSUME Bad # {} PROVE FALSE
    OBVIOUS
  <2>1. PICK m \in Bad : \A i \in Bad : m <= i
    <3>1. Bad \in SUBSET Nat
      OBVIOUS
    <3> HIDE DEF Bad
    <3> QED
      BY <3>1, Least
  <2>2. m # 0
    <3>1. [n \in 0 .. 0 |-> tb] = body([n \in 0 .. 0 |-> tb], 0)
      OBVIOUS
    <3> QED
      BY <3>1
  <2>3. m - 1 \in 0 .. Len(es) /\ m - 1 \notin Bad
    BY <2>1, <2>2
  <2>4. PICK f : f = body(f, m - 1)
    BY <2>3
  <2> DEFINE g == [n \in 0 .. m |-> IF n = m THEN step(f, m) ELSE f[n]]
  <2>5. g = body(g, m)
    <3>1. \A n \in 0 .. m : g[n] = step(g, n)
      <4> TAKE n \in 0 .. m
      <4>1. CASE n = 0
        BY <2>2, <2>3, <2>4, <4>1
      <4>2. CASE n # 0
        <5>1. n - 1 \in 0 .. m - 1 /\ n - 1 \in 0 .. m /\ n - 1 # m
          BY <2>3, <4>2
        <5>2. g[n - 1] = f[n - 1]
          BY <5>1
        <5>3. step(g, n) = step(f, n)
          BY <5>2
        <5>4. n # m => n \in 0 .. m - 1
          BY <2>3
        <5>5. n # m => f[n] = step(f, n)
          BY <2>4, <5>4
        <5> HIDE DEF step
        <5> QED
          BY <5>3, <5>5
      <4> QED
        BY <4>1, <4>2
    <3> HIDE DEF step
    <3> QED
      BY <3>1
  <2> QED
    BY <2>1, <2>5
<1>2. \E f : f = body(f, Len(es))
  <2>1. Len(es) \notin Bad
    BY <1>1
  <2> QED
    BY <2>1
<1>3. Inserting(tb, es) = body(Inserting(tb, es), Len(es))
  BY <1>2 DEF Inserting
<1> QED
  BY <1>3

(* What resize relies on: the entries have different keys, the ones that go  *)
(* to the hash part are in H, and H has room there.                          *)
Fillable(tb, es, H) ==
  /\ Len(es) \in Nat /\ IsFiniteSet(H) /\ Cardinality(H) <= Len(tb.node)
  /\ \A i \in DOMAIN tb.node : tb.node[i].key = Nil
  /\ \A m \in 1 .. Len(es) : es[m].val # Nil =>
        /\ es[m].key \in Key /\ es[m].val \in Val /\ es[m].key # Len(tb.array) + 1
        /\ InArray(tb, es[m].key) \/ es[m].key \in H
  /\ \A m, p \in 1 .. Len(es) :
        es[m].val # Nil /\ es[p].val # Nil /\ es[m].key = es[p].key => m = p

InFirst(es, n, k)    == \E m \in 1 .. n : es[m].val # Nil /\ es[m].key = k
Listed(es, n, k, w)  == \E m \in 1 .. n : es[m].key = k /\ es[m].val = w

Filled(tb, es, n, acc) ==
  /\ Shaped(tb, acc) /\ Valued(acc.node)
  /\ \A k \in NodeKeys(acc.node) : InFirst(es, n, k) /\ ~InArray(tb, k)
  /\ \A k \in Key, w \in Val :
        Entry(acc, k, w) <=> IF InFirst(es, n, k) THEN Listed(es, n, k, w) ELSE Entry(tb, k, w)

(* One more entry is inserted.                                               *)
LEMMA FillStep ==
  ASSUME NEW tb, NEW es, NEW H, NEW n \in 1 .. Len(es), NEW acc, NEW r,
         hash \in [Key -> Nat], Fillable(tb, es, H), Filled(tb, es, n - 1, acc), TableOk(acc, hash),
         es[n].val # Nil, r = Reinsert(acc, es[n].key, es[n].val)
  PROVE  TableOk(r, hash) /\ Filled(tb, es, n, r)
<1> DEFINE k == es[n].key
           v == es[n].val
<1>1. k \in Key /\ v \in Val /\ k # Len(tb.array) + 1 /\ (InArray(tb, k) \/ k \in H)
  BY DEF Fillable
<1>2. \A m \in 1 .. n - 1 : m \in 1 .. Len(es) /\ m # n
  BY DEF Fillable
<1>3. ~InFirst(es, n - 1, k)
  BY <1>2 DEF Fillable, InFirst
<1>4. k \notin NodeKeys(acc.node)
  BY <1>3 DEF Filled
<1>5. Absent(acc.node, k)
  BY <1>1, <1>4, KeyFacts DEF Absent, NodeKeys
<1>6. \A q : InArray(acc, q) <=> InArray(tb, q)
  BY DEF InArray, Filled, Shaped
<1>7. ~NeedsRehash(acc, k) \/ InArray(acc, k)
  <2> SUFFICES ASSUME ~InArray(acc, k) PROVE ~NeedsRehash(acc, k)
    OBVIOUS
  <2>1. k \in H
    BY <1>1, <1>6
  <2>2. NodeKeys(acc.node) \subseteq H \ {k}
    <3> SUFFICES ASSUME NEW q \in NodeKeys(acc.node) PROVE q \in H
      BY <1>4
    <3>1. PICK m \in 1 .. n - 1 : es[m].val # Nil /\ es[m].key = q
      BY DEF Filled, InFirst
    <3>2. ~InArray(tb, q)
      BY DEF Filled
    <3> QED
      BY <1>2, <3>1, <3>2 DEF Fillable
  <2>3. Cardinality(H) <= Len(acc.node) /\ k # Len(acc.array) + 1 /\ IsFiniteSet(H) /\ Valued(acc.node)
    BY <1>1 DEF Fillable, Filled, Shaped
  <2> QED
    BY <2>1, <2>2, <2>3, Roomy
<1>8. /\ TableOk(r, hash) /\ Holds(acc, r, k, v) /\ Shaped(acc, r) /\ Valued(r.node)
      /\ NodeKeys(r.node) \subseteq NodeKeys(acc.node) \cup (IF InArray(acc, k) THEN {} ELSE {k})
  <2>1. v \in Val \cup {Nil} /\ v # Nil /\ Valued(acc.node)
    BY <1>1 DEF Filled
  <2> HIDE DEF k, v
  <2>2. r = Reinsert(acc, k, v)
    BY DEF k, v
  <2> QED
    BY <1>1, <1>5, <1>7, <2>1, <2>2, ReinsertOk
<1>9. \A q : InFirst(es, n, q) <=> InFirst(es, n - 1, q) \/ q = k
  <2>1. 1 .. n = (1 .. n - 1) \cup {n}
    BY DEF Fillable
  <2> QED
    BY <2>1 DEF InFirst
<1>10. \A q : \A w \in Val : Listed(es, n, q, w) <=> Listed(es, n - 1, q, w) \/ (q = k /\ w = v)
  <2>1. 1 .. n = (1 .. n - 1) \cup {n}
    BY DEF Fillable
  <2> QED
    BY <2>1 DEF Listed
<1>11. \A w \in Val : ~Listed(es, n - 1, k, w)
  BY <1>3, KeyFacts DEF Listed, InFirst
<1>12. Shaped(tb, r)
  BY <1>8 DEF Filled, Shaped
<1> HIDE DEF k, v
<1>13. \A q \in NodeKeys(r.node) : InFirst(es, n, q) /\ ~InArray(tb, q)
  BY <1>6, <1>8, <1>9 DEF Filled
<1>14. ASSUME NEW q \in Key, NEW w \in Val
       PROVE  Entry(r, q, w) <=> IF InFirst(es, n, q) THEN Listed(es, n, q, w) ELSE Entry(tb, q, w)
  <2>1. Entry(r, q, w) <=> IF q = k THEN w = v ELSE Entry(acc, q, w)
    BY <1>8 DEF Holds
  <2>2. Entry(acc, q, w) <=> IF InFirst(es, n - 1, q) THEN Listed(es, n - 1, q, w) ELSE Entry(tb, q, w)
    BY DEF Filled
  <2> QED
    BY <1>9, <1>10, <1>11, <2>1, <2>2
<1> QED
  BY <1>8, <1>12, <1>13, <1>14 DEF Filled

(* So are all of them.                                                       *)
LEMMA FillAll ==
  ASSUME NEW tb, NEW es, NEW H, hash \in [Key -> Nat], TableOk(tb, hash), Fillable(tb, es, H)
  PROVE  TableOk(Inserting(tb, es)[Len(es)], hash) /\ Filled(tb, es, Len(es), Inserting(tb, es)[Len(es)])
<1> DEFINE good(n) == TableOk(Inserting(tb, es)[n], hash) /\ Filled(tb, es, n, Inserting(tb, es)[n])
           Bad == {n \in 0 .. Len(es) : ~good(n)}
<1>0. Len(es) \in Nat
  BY DEF Fillable
<1>1. /\ Inserting(tb, es)[0] = tb
      /\ \A n \in 1 .. Len(es) :
           Inserting(tb, es)[n] = IF es[n].val = Nil THEN Inserting(tb, es)[n - 1]
                                  ELSE Reinsert(Inserting(tb, es)[n - 1], es[n].key, es[n].val)
  BY <1>0, InsertingIs
<1>2. good(0)
  <2>1. Shaped(tb, tb) /\ Valued(tb.node) /\ NodeKeys(tb.node) = {}
    BY DEF Shaped, Valued, Fillable, NodeKeys
  <2>2. \A k : ~InFirst(es, 0, k)
    BY DEF InFirst
  <2> QED
    BY <1>1, <2>1, <2>2 DEF Filled
<1>3. ASSUME NEW n \in 1 .. Len(es), good(n - 1)
      PROVE  good(n)
  <2>1. CASE es[n].val = Nil
    <3>1. Inserting(tb, es)[n] = Inserting(tb, es)[n - 1]
      BY <1>1, <2>1
    <3>2. 1 .. n = (1 .. n - 1) \cup {n}
      BY <1>0
    <3>3. \A k : InFirst(es, n, k) <=> InFirst(es, n - 1, k)
      BY <2>1, <3>2 DEF InFirst
    <3>4. \A k : \A w \in Val : Listed(es, n, k, w) <=> Listed(es, n - 1, k, w)
      BY <2>1, <3>2, KeyFacts DEF Listed
    <3> QED
      BY <1>3, <3>1, <3>3, <3>4 DEF Filled
  <2>2. CASE es[n].val # Nil
    <3>1. Inserting(tb, es)[n] = Reinsert(Inserting(tb, es)[n - 1], es[n].key, es[n].val)
      BY <1>1, <2>2
    <3> QED
      BY <1>3, <2>2, <3>1, FillStep
  <2> QED
    BY <2>1, <2>2
<1> HIDE DEF good
<1>4. Bad = {}
  <2> SUFFICES ASSUME Bad # {} PROVE FALSE
    OBVIOUS
  <2>1. PICK m \in Bad : \A i \in Bad : m <= i
    <3>1. Bad \in SUBSET Nat
      OBVIOUS
    <3> HIDE DEF Bad
    <3> QED
      BY <3>1, Least
  <2>2. m \in 1 .. Len(es) /\ m - 1 \in 0 .. Len(es) /\ m - 1 \notin Bad
    BY <1>0, <1>2, <2>1
  <2> QED
    BY <1>3, <2>1, <2>2
<1> QED
  BY <1>0, <1>4 DEF good
-----------------------------------------------------------------------------
(* A node that setnodevector has made.                                       *)
LEMMA FreeNodeIs ==
  /\ FreeNode \in Node
  /\ FreeNode.key = Nil /\ ~FreeNode.dead /\ FreeNode.val = Nil /\ FreeNode.next = 0
BY DEF FreeNode, Node

(* Sizes of hash parts are positive.                                         *)
LEMMA PowersIn == PowersOfTwo \subseteq Nat \ {0} /\ PowersOfTwo \subseteq 1 .. MaxSize /\ MaxSize \in Nat
<1>1. MaxSize \in Nat
  BY TablesAssumption
<1>2. PowersOfTwo \subseteq 1 .. MaxSize
  BY DEF PowersOfTwo
<1> QED
  BY <1>1, <1>2

(* There is a size that is large enough.                                     *)
LEMMA LargerIs ==
  ASSUME NEW n \in Nat, \E p \in PowersOfTwo : n <= p
  PROVE  Larger(n) \in PowersOfTwo /\ Larger(n) \in Nat /\ Larger(n) >= n
<1> DEFINE S == {p \in PowersOfTwo : p >= n}
<1>1. S # {} /\ S \in SUBSET Nat /\ PowersOfTwo \subseteq Nat
  BY PowersIn
<1> HIDE DEF S
<1>2. \E p \in S : \A q \in S : p <= q
  BY <1>1, Least
<1>3. Min(S) \in S
  BY <1>2 DEF Min
<1> QED
  BY <1>1, <1>3 DEF Larger, S

(* A new hash part is as large as it is asked to be.                         *)
LEMMA NodeVectorIs ==
  ASSUME NEW n \in Nat, \E p \in PowersOfTwo : n <= p, NEW nd, nd = NodeVector(n)
  PROVE  /\ nd \in Seq(Node) /\ Len(nd) \in Nat /\ Len(nd) >= n /\ DOMAIN nd = 1 .. Len(nd)
         /\ nd = <<>> \/ Len(nd) \in PowersOfTwo
         /\ \A i \in DOMAIN nd : nd[i] = FreeNode
<1>1. CASE n = 0
  <2>1. nd = <<>>
    BY <1>1 DEF NodeVector
  <2>2. nd \in Seq(Node) /\ Len(nd) = 0
    BY <2>1, EmptySeq
  <2>3. DOMAIN nd = 1 .. 0
    BY <2>2, LenProperties
  <2> QED
    BY <1>1, <2>1, <2>2, <2>3
<1>2. CASE n # 0
  <2>1. nd = [i \in 1 .. Larger(n) |-> FreeNode] /\ Larger(n) \in Nat /\ Larger(n) >= n /\ Larger(n) \in PowersOfTwo
    BY <1>2, LargerIs DEF NodeVector
  <2>2. nd \in [1 .. Larger(n) -> Node]
    BY <2>1, FreeNodeIs
  <2>3. nd \in Seq(Node)
    BY <2>1, <2>2, SeqDef
  <2>4. DOMAIN nd = 1 .. Larger(n) /\ DOMAIN nd = 1 .. Len(nd) /\ Len(nd) \in Nat
    BY <2>2, <2>3, LenProperties
  <2>5. Len(nd) = Larger(n)
    BY <2>1, <2>4
  <2> QED
    BY <2>1, <2>3, <2>4, <2>5
<1> QED
  BY <1>1, <1>2

(* A new hash part is sound.                                                 *)
LEMMA FreshNodes ==
  ASSUME NEW nd, Vector(nd), NEW hf, \A i \in DOMAIN nd : nd[i] = FreeNode
  PROVE  NodesOk(nd, hf)
<1>1. DOMAIN nd = 1 .. Len(nd) /\ Len(nd) \in Nat /\ DOMAIN To(nd) = DOMAIN nd
  BY DEF Vector, To
<1>2. \A i \in DOMAIN nd : nd[i].key = Nil /\ ~nd[i].dead /\ nd[i].val = Nil /\ nd[i].next = 0
  BY FreeNodeIs
<1>3. \A i \in DOMAIN nd : To(nd)[i] = 0
  BY <1>2 DEF To
<1>4. Links(To(nd))
  <2>1. Falls(To(nd), [i \in DOMAIN nd |-> 0]) /\ [i \in DOMAIN nd |-> 0] \in [DOMAIN To(nd) -> Nat]
    BY <1>1, <1>3 DEF Falls
  <2>2. To(nd) \in [DOMAIN nd -> DOMAIN nd \cup {0}]
    BY <1>3 DEF To
  <2> QED
    BY <1>1, <1>3, <2>1, <2>2 DEF Links
<1>5. Linked(nd)
  BY <1>1, <1>2, <1>4 DEF Linked
<1>6. Keyed(nd)
  BY <1>2, <1>3 DEF Keyed
<1>7. Homed(nd, hf)
  BY <1>2 DEF Homed
<1> QED
  BY <1>5, <1>6, <1>7 DEF NodesOk

(* What the parts of a table hold is what the table holds.                   *)
LEMMA EntryOne ==
  ASSUME NEW tb, hash \in [Key -> Nat], TableOk(tb, hash), NEW k \in Key, NEW w \in Val, NEW u \in Val,
         Entry(tb, k, w), Entry(tb, k, u)
  PROVE  w = u
BY GetIs

(* A node with a value is an entry,                                          *)
LEMMA EntryOfNode ==
  ASSUME NEW tb, NEW hf, TableOk(tb, hf), NEW i \in DOMAIN tb.node, tb.node[i].val # Nil
  PROVE  /\ tb.node[i].key \in Key /\ tb.node[i].val \in Val /\ ~tb.node[i].dead
         /\ ~InArray(tb, tb.node[i].key) /\ Entry(tb, tb.node[i].key, tb.node[i].val)
<1>1. Framed(tb) /\ tb \in TableType /\ Keyed(tb.node)
  BY DEF TableOk, Framed, NodesOk
<1>2. tb.node[i] \in Node /\ tb.node[i].key # Nil /\ ~tb.node[i].dead
  BY <1>1, SeqFacts DEF Keyed
<1>3. tb.node[i].key \in Key /\ tb.node[i].val \in Val
  BY <1>2, NodeFacts
<1>4. ~InArray(tb, tb.node[i].key)
  <2>1. Len(tb.array) \in Nat
    BY <1>1, SeqFacts
  <2>2. tb.node[i].key \in Index => tb.node[i].key > Len(tb.array) + 1 /\ tb.node[i].key \in Nat
    BY <1>1, TablesAssumption DEF Framed, Index
  <2> QED
    BY <2>1, <2>2 DEF InArray
<1> QED
  BY <1>2, <1>3, <1>4 DEF Entry, Bears

(* and so is a position of the array part.                                   *)
LEMMA EntryOfArray ==
  ASSUME NEW tb, NEW hf, TableOk(tb, hf), NEW i \in DOMAIN tb.array, tb.array[i] # Nil
  PROVE  i \in Key /\ i \in Index /\ tb.array[i] \in Val /\ InArray(tb, i) /\ Entry(tb, i, tb.array[i])
<1>1. Framed(tb) /\ tb \in TableType
  BY DEF TableOk, Framed
<1>2. i \in Index /\ tb.array[i] \in Val
  BY <1>1, SeqFacts DEF Framed
<1>3. InArray(tb, i)
  BY <1>1, <1>2, InArrayIs
<1> QED
  BY <1>2, <1>3, KeyFacts DEF Entry

(* The entries that a resize inserts: those of the array part that are lost, *)
(* and those of the old nodes from the last to the first.                    *)
Entries(tb, nasize) ==
  [i \in DOMAIN tb.array |-> [key |-> i, val |-> IF i <= nasize THEN Nil ELSE tb.array[i]]] \o Reverse(tb.node)

LostThenNodes(tb, nasize, es) ==
  /\ Len(es) = Len(tb.array) + Len(tb.node)
  /\ \A m \in 1 .. Len(tb.array) :
       es[m].key = m /\ es[m].val = IF m <= nasize THEN Nil ELSE tb.array[m]
  /\ \A m \in 1 .. Len(tb.node) : es[Len(tb.array) + m] = tb.node[(Len(tb.node) - m) + 1]

(* The entries, position by position.                                        *)
LEMMA EntriesAt ==
  ASSUME NEW tb \in TableType, NEW nasize \in Nat, NEW es, es = Entries(tb, nasize)
  PROVE  LostThenNodes(tb, nasize, es)
<1> DEFINE N == Len(tb.array)
           M == Len(tb.node)
           lost == [i \in 1 .. N |-> [key |-> i, val |-> IF i <= nasize THEN Nil ELSE tb.array[i]]]
           rev == [i \in 1 .. M |-> tb.node[(M - i) + 1]]
           S == {lost[i] : i \in 1 .. N} \cup Node
<1>1. DOMAIN tb.array = 1 .. N /\ N \in Nat /\ M \in Nat /\ DOMAIN tb.node = 1 .. M /\ \A i \in 1 .. M : tb.node[i] \in Node
  BY SeqFacts
<1>2. es = lost \o rev
  BY <1>1 DEF Entries, Reverse
<1>3. lost \in [1 .. N -> S] /\ DOMAIN lost = 1 .. N
  OBVIOUS
<1>4. rev \in [1 .. M -> S]
  <2>1. \A i \in 1 .. M : (M - i) + 1 \in 1 .. M
    BY <1>1
  <2> QED
    BY <1>1, <2>1
<1>5. \A m \in 1 .. N : lost[m].key = m /\ lost[m].val = IF m <= nasize THEN Nil ELSE tb.array[m]
  OBVIOUS
<1>6. \A m \in 1 .. M : rev[m] = tb.node[(M - m) + 1]
  OBVIOUS
<1> HIDE DEF lost, rev, S, N, M
<1>7. lost \in Seq(S) /\ rev \in Seq(S)
  BY <1>1, <1>3, <1>4, SeqDef
<1>8. Len(lost) = N /\ Len(rev) = M
  BY <1>1, <1>3, <1>4, <1>7, LenProperties
<1>9. /\ Len(es) = N + M
      /\ \A i \in 1 .. N + M : es[i] = IF i <= N THEN lost[i] ELSE rev[i - N]
  BY ONLY <1>2, <1>7, <1>8, ConcatProperties
<1>10. \A m \in 1 .. N : es[m] = lost[m]
  BY <1>1, <1>9
<1>11. \A m \in 1 .. M : es[N + m] = rev[m]
  <2> TAKE m \in 1 .. M
  <2>1. PICK p \in 1 .. N + M : p = N + m
    BY <1>1
  <2>2. ~(p <= N) /\ p - N = m
    BY <1>1, <2>1
  <2> QED
    BY <1>9, <2>1, <2>2
<1> QED
  BY <1>5, <1>6, <1>9, <1>10, <1>11 DEF N, M, LostThenNodes

(* The entries are what the table holds, but for what stays in the array.    *)
LEMMA EntriesOk ==
  ASSUME NEW tb, hash \in [Key -> Nat], TableOk(tb, hash), NEW nasize \in Nat, NEW es, es = Entries(tb, nasize)
  PROVE  /\ Len(es) \in Nat
         /\ \A m \in 1 .. Len(es) : es[m].val # Nil =>
               /\ es[m].key \in Key /\ es[m].val \in Val /\ Entry(tb, es[m].key, es[m].val)
               /\ InArray(tb, es[m].key) => es[m].key > nasize
         /\ \A m, p \in 1 .. Len(es) :
               es[m].val # Nil /\ es[p].val # Nil /\ es[m].key = es[p].key => m = p
         /\ \A k \in Key, w \in Val : Entry(tb, k, w) =>
               \/ InArray(tb, k) /\ k <= nasize
               \/ \E m \in 1 .. Len(es) : es[m].key = k /\ es[m].val = w
<1> DEFINE N == Len(tb.array)
           M == Len(tb.node)
           nd == tb.node
<1>1. /\ N \in Nat /\ M \in Nat /\ DOMAIN tb.array = 1 .. N /\ DOMAIN nd = 1 .. M
      /\ tb \in TableType /\ Keyed(nd)
  BY SeqFacts DEF TableOk, Framed, NodesOk
<1>1a. N \in Nat /\ M \in Nat
  BY <1>1
<1>2. /\ Len(es) = N + M
      /\ \A m \in 1 .. N : es[m].key = m /\ es[m].val = IF m <= nasize THEN Nil ELSE tb.array[m]
      /\ \A m \in 1 .. M : es[N + m] = nd[(M - m) + 1]
  <2>1. tb \in TableType /\ nasize \in Nat /\ es = Entries(tb, nasize)
    BY <1>1
  <2>2. LostThenNodes(tb, nasize, es)
    BY ONLY <2>1, EntriesAt
  <2> QED
    BY <2>2 DEF LostThenNodes
<1> HIDE DEF N, M
<1>3. \A j \in 1 .. M : \E m \in 1 .. Len(es) : es[m] = nd[j]
  <2> TAKE j \in 1 .. M
  <2>1. (M - j) + 1 \in 1 .. M /\ (M - ((M - j) + 1)) + 1 = j /\ N + ((M - j) + 1) \in 1 .. N + M
    BY ONLY <1>1a, j \in 1 .. M
  <2>2. PICK m \in 1 .. M : m = (M - j) + 1
    BY <2>1
  <2>3. es[N + m] = nd[j] /\ N + m \in 1 .. Len(es)
    BY <1>2, <2>1, <2>2
  <2> QED
    BY <2>3
<1>4. \A m \in 1 .. Len(es) : m \in 1 .. N \/ \E j \in 1 .. M : es[m] = nd[j] /\ m = N + ((M - j) + 1)
  <2> TAKE m \in 1 .. Len(es)
  <2>0. m \in 1 .. N + M
    BY <1>2
  <2>1. CASE m <= N
    BY ONLY <1>1a, <2>0, <2>1
  <2>2. CASE m > N
    <3>1. m - N \in 1 .. M /\ N + (m - N) = m
      BY ONLY <1>1a, <2>0, <2>2
    <3>2. PICK p \in 1 .. M : N + p = m
      BY <3>1
    <3>3. es[m] = nd[(M - p) + 1]
      BY <1>2, <3>2
    <3>4. (M - p) + 1 \in 1 .. M /\ m = N + ((M - ((M - p) + 1)) + 1)
      BY ONLY <1>1a, p \in 1 .. M, <3>2
    <3> QED
      BY <3>3, <3>4
  <2>3. m <= N \/ m > N
    BY ONLY <1>1a, <2>0
  <2> QED
    BY <2>1, <2>2, <2>3
<1>5. ASSUME NEW m \in 1 .. N, es[m].val # Nil
      PROVE  /\ es[m].key = m /\ m \in Key /\ es[m].val = tb.array[m] /\ m > nasize /\ es[m].val \in Val
             /\ InArray(tb, m) /\ Entry(tb, m, es[m].val)
  <2>1. es[m].key = m /\ es[m].val = tb.array[m] /\ m > nasize /\ m \in DOMAIN tb.array
    BY <1>1, <1>2, <1>5
  <2> QED
    BY <1>5, <2>1, EntryOfArray
<1>6. ASSUME NEW m \in 1 .. Len(es), NEW j \in 1 .. M, es[m] = nd[j], es[m].val # Nil
      PROVE  /\ es[m].key \in Key /\ es[m].val \in Val /\ ~nd[j].dead
             /\ ~InArray(tb, es[m].key) /\ Entry(tb, es[m].key, es[m].val)
  BY <1>1, <1>6, EntryOfNode
<1>7. Len(es) \in Nat
  BY <1>1, <1>2
<1>8. ASSUME NEW m \in 1 .. Len(es), es[m].val # Nil
      PROVE  /\ es[m].key \in Key /\ es[m].val \in Val /\ Entry(tb, es[m].key, es[m].val)
             /\ InArray(tb, es[m].key) => es[m].key > nasize
  <2>1. CASE m \in 1 .. N
    BY <1>5, <1>8, <2>1
  <2>2. CASE \E j \in 1 .. M : es[m] = nd[j]
    <3>1. PICK j \in 1 .. M : es[m] = nd[j]
      BY <2>2
    <3> QED
      BY <1>6, <1>8, <3>1
  <2> QED
    BY <1>4, <2>1, <2>2
<1>9. ASSUME NEW m \in 1 .. Len(es), NEW p \in 1 .. Len(es),
             es[m].val # Nil, es[p].val # Nil, es[m].key = es[p].key
      PROVE  m = p
  <2>1. CASE m \in 1 .. N /\ p \in 1 .. N
    BY <1>5, <1>9, <2>1
  <2>2. CASE m \in 1 .. N /\ \E j \in 1 .. M : es[p] = nd[j]
    BY <1>5, <1>6, <1>9, <2>2
  <2>3. CASE p \in 1 .. N /\ \E j \in 1 .. M : es[m] = nd[j]
    BY <1>5, <1>6, <1>9, <2>3
  <2>4. CASE /\ \E j \in 1 .. M : es[m] = nd[j] /\ m = N + ((M - j) + 1)
             /\ \E j \in 1 .. M : es[p] = nd[j] /\ p = N + ((M - j) + 1)
    <3>1. PICK j \in 1 .. M : es[m] = nd[j] /\ m = N + ((M - j) + 1)
      BY <2>4
    <3>2. PICK i \in 1 .. M : es[p] = nd[i] /\ p = N + ((M - i) + 1)
      BY <2>4
    <3>3. ~nd[j].dead /\ ~nd[i].dead /\ nd[i].key = nd[j].key /\ nd[i].key # Nil
      BY <1>6, <1>9, <3>1, <3>2, KeyFacts
    <3>4. i = j
      BY <1>1, <3>3 DEF Keyed
    <3> QED
      BY <3>1, <3>2, <3>4
  <2> QED
    BY <1>4, <2>1, <2>2, <2>3, <2>4
<1>10. ASSUME NEW k \in Key, NEW w \in Val, Entry(tb, k, w)
       PROVE  \/ InArray(tb, k) /\ k <= nasize
              \/ \E m \in 1 .. Len(es) : es[m].key = k /\ es[m].val = w
  <2>1. CASE InArray(tb, k)
    <3>1. k \in 1 .. N /\ tb.array[k] = w
      BY <1>1, <1>10, <2>1, InArrayIs DEF Entry
    <3>2. k \in 1 .. Len(es)
      BY <1>1, <1>2, <3>1
    <3> QED
      BY <1>2, <2>1, <3>1, <3>2
  <2>2. CASE ~InArray(tb, k)
    <3>1. PICK j \in 1 .. M : nd[j].key = k /\ nd[j].val = w
      BY <1>1, <1>10, <2>2 DEF Entry, Bears
    <3> QED
      BY <1>3, <3>1
  <2> QED
    BY <2>1, <2>2
<1> QED
  BY <1>7, <1>8, <1>9, <1>10

(* The same keys have the same values.                                       *)
Same(tb, r) == \A k \in Key, w \in Val : Entry(r, k, w) <=> Entry(tb, k, w)

Held(tb, k) == \E w \in Val : Entry(tb, k, w)

(* A resize that has room keeps everything.                                  *)
LEMMA ResizeOk ==
  ASSUME NEW tb, hash \in [Key -> Nat], TableOk(tb, hash), NEW nasize \in Nat, NEW nh \in Nat,
         \E p \in PowersOfTwo : nh <= p, NEW H, IsFiniteSet(H), Cardinality(H) <= nh,
         \A k \in Key : Held(tb, k) => k # nasize + 1 /\ ((k \in Index /\ k <= nasize) \/ k \in H),
         NEW r, r = Resize(tb, nasize, nh)
  PROVE  /\ TableOk(r, hash) /\ Same(tb, r) /\ r.nested = tb.nested
         /\ Len(r.array) = nasize /\ Len(r.node) >= nh /\ Len(r.node) \in Nat /\ Valued(r.node)
         /\ \A k \in NodeKeys(r.node) : Held(tb, k) /\ ~InArray(r, k)
<1> DEFINE N == Len(tb.array)
           kept == [i \in 1 .. nasize |-> IF i <= N THEN tb.array[i] ELSE Nil]
           nv == NodeVector(nh)
           new == [array |-> kept, node |-> nv, lastfree |-> Len(nv), nested |-> tb.nested]
           es == Entries(tb, nasize)
<1>1. /\ N \in Nat /\ DOMAIN tb.array = 1 .. N /\ tb \in TableType /\ tb.nested \in BOOLEAN
      /\ tb.array \in [1 .. N -> Val \cup {Nil}] /\ Framed(tb)
  BY SeqFacts DEF TableOk, Framed, TableType
<1>2. r = Inserting(new, es)[Len(es)]
  BY DEF Resize, ResizeFrom, Entries
<1>3. /\ nv \in Seq(Node) /\ Len(nv) \in Nat /\ Len(nv) >= nh /\ DOMAIN nv = 1 .. Len(nv)
      /\ nv = <<>> \/ Len(nv) \in PowersOfTwo
      /\ \A i \in DOMAIN nv : nv[i] = FreeNode
  BY NodeVectorIs
<1> HIDE DEF nv
<1>4. kept \in Seq(Val \cup {Nil}) /\ Len(kept) = nasize /\ DOMAIN kept = 1 .. nasize
  <2>1. kept \in [1 .. nasize -> Val \cup {Nil}]
    BY <1>1
  <2>2. kept \in Seq(Val \cup {Nil})
    BY <2>1, SeqDef
  <2> QED
    BY <2>1, <2>2, LenProperties
<1>5. \A i \in 1 .. nasize : kept[i] = IF i <= N THEN tb.array[i] ELSE Nil
  OBVIOUS
<1> HIDE DEF kept
<1>6. new \in TableType
  BY <1>1, <1>3, <1>4 DEF TableType
<1>7. new.array = kept /\ new.node = nv /\ new.lastfree = Len(nv) /\ new.nested = tb.nested
  OBVIOUS
<1> HIDE DEF new
<1>8. TableOk(new, hash)
  <2>1. NodesOk(new.node, hash)
    BY <1>3, <1>6, <1>7, FreshNodes, SeqFacts
  <2>2. \A i \in DOMAIN new.array : new.array[i] # Nil => i \in Index
    BY <1>1, <1>4, <1>5, <1>7 DEF Framed
  <2>3. \A i \in DOMAIN new.node : new.node[i].key = Nil /\ ~(i > new.lastfree)
    BY <1>3, <1>7, FreeNodeIs
  <2>4. new.lastfree <= Len(new.node) /\ -new.lastfree <= Len(new.array)
    BY <1>3, <1>4, <1>7
  <2> QED
    BY <1>3, <1>6, <1>7, <2>1, <2>2, <2>3, <2>4, KeyFacts DEF TableOk, Framed
<1>9. /\ Len(es) \in Nat
      /\ \A m \in 1 .. Len(es) : es[m].val # Nil =>
            /\ es[m].key \in Key /\ es[m].val \in Val /\ Entry(tb, es[m].key, es[m].val)
            /\ InArray(tb, es[m].key) => es[m].key > nasize
      /\ \A m, p \in 1 .. Len(es) :
            es[m].val # Nil /\ es[p].val # Nil /\ es[m].key = es[p].key => m = p
      /\ \A k \in Key, w \in Val : Entry(tb, k, w) =>
            \/ InArray(tb, k) /\ k <= nasize
            \/ \E m \in 1 .. Len(es) : es[m].key = k /\ es[m].val = w
  BY EntriesOk
<1> HIDE DEF es
<1>10. \A k : InArray(new, k) <=> k \in Index /\ k <= nasize
  BY <1>4, <1>7 DEF InArray
<1>11. Fillable(new, es, H)
  <2>1. Cardinality(H) <= Len(new.node)
    <3>1. Cardinality(H) \in Nat
      BY FS_CardinalityType
    <3> QED
      BY <1>3, <1>7, <3>1
  <2>2. \A i \in DOMAIN new.node : new.node[i].key = Nil
    BY <1>3, <1>7, FreeNodeIs
  <2>3. ASSUME NEW m \in 1 .. Len(es), es[m].val # Nil
        PROVE  /\ es[m].key \in Key /\ es[m].val \in Val /\ es[m].key # Len(new.array) + 1
               /\ InArray(new, es[m].key) \/ es[m].key \in H
    <3>1. es[m].key \in Key /\ es[m].val \in Val /\ Held(tb, es[m].key)
      BY <1>9, <2>3 DEF Held
    <3> QED
      BY <1>4, <1>7, <1>10, <3>1
  <2> QED
    BY <1>9, <2>1, <2>2, <2>3 DEF Fillable
<1>12. TableOk(r, hash) /\ Filled(new, es, Len(es), r)
  BY <1>2, <1>8, <1>11, FillAll
<1>13. Same(tb, r)
  <2> SUFFICES ASSUME NEW k \in Key, NEW w \in Val
               PROVE  Entry(r, k, w) <=> Entry(tb, k, w)
    BY DEF Same
  <2>1. Entry(r, k, w) <=> IF InFirst(es, Len(es), k) THEN Listed(es, Len(es), k, w) ELSE Entry(new, k, w)
    BY <1>12 DEF Filled
  <2>2. Listed(es, Len(es), k, w) => Entry(tb, k, w)
    BY <1>9, KeyFacts DEF Listed
  <2>3. CASE InFirst(es, Len(es), k)
    <3>1. PICK m \in 1 .. Len(es) : es[m].val # Nil /\ es[m].key = k
      BY <2>3 DEF InFirst
    <3>2. es[m].val \in Val /\ Entry(tb, k, es[m].val)
      BY <1>9, <3>1
    <3>3. Entry(tb, k, w) => es[m].val = w
      BY <3>2, EntryOne
    <3>4. Entry(tb, k, w) => Listed(es, Len(es), k, w)
      BY <3>1, <3>3 DEF Listed
    <3> QED
      BY <2>1, <2>2, <2>3, <3>4
  <2>4. CASE ~InFirst(es, Len(es), k)
    <3>1. Entry(tb, k, w) => InArray(tb, k) /\ k <= nasize
      BY <1>9, <2>4, KeyFacts DEF InFirst
    <3>2. \A i \in DOMAIN new.node : new.node[i].val = Nil
      BY <1>3, <1>7, FreeNodeIs
    <3>3. Entry(new, k, w) <=> InArray(new, k) /\ kept[k] = w
      BY <1>7, <3>2, KeyFacts DEF Entry, Bears
    <3>4. InArray(new, k) => k \in 1 .. nasize
      BY <1>4, <1>6, <1>7, InArrayIs
    <3>5. InArray(tb, k) <=> k \in Index /\ k <= N
      BY DEF InArray
    <3>6. Entry(tb, k, w) => Entry(new, k, w)
      BY <1>5, <1>10, <3>1, <3>3, <3>4, <3>5 DEF Entry
    <3>7. Entry(new, k, w) => Entry(tb, k, w)
      BY <1>5, <1>10, <3>3, <3>4, <3>5, KeyFacts DEF Entry
    <3> QED
      BY <2>1, <2>4, <3>6, <3>7
  <2> QED
    BY <2>3, <2>4
<1>14. \A k \in NodeKeys(r.node) : Held(tb, k) /\ ~InArray(r, k)
  <2> TAKE k \in NodeKeys(r.node)
  <2>1. InFirst(es, Len(es), k) /\ ~InArray(new, k)
    BY <1>12 DEF Filled
  <2>2. Held(tb, k)
    BY <1>9, <2>1 DEF InFirst, Held
  <2>3. Len(r.array) = Len(new.array)
    BY <1>12 DEF Filled, Shaped
  <2> QED
    BY <2>1, <2>2, <2>3 DEF InArray
<1> QED
  BY <1>3, <1>4, <1>7, <1>12, <1>13, <1>14 DEF Filled, Shaped
-----------------------------------------------------------------------------
(* There are finitely many keys.                                             *)
LEMMA KeyFinite == IsFiniteSet(Key)
<1>1. IsFiniteSet(Index) /\ IsFiniteSet(Object)
  BY FS_Interval, TablesAssumption DEF Index
<1> QED
  BY <1>1, FS_Union DEF Key

(* Numbers that are keys are indices.                                        *)
LEMMA Numbers ==
  /\ MaxIndex \in Nat /\ Index = 1 .. MaxIndex /\ Nil \notin Int
  /\ \A k \in Key : k \in Int => k \in Index
BY TablesAssumption DEF Key, Index

(* The keys that have a value, for Get and for the entries.                  *)
LEMMA HeldIs ==
  ASSUME NEW tb, hash \in [Key -> Nat], TableOk(tb, hash)
  PROVE  /\ \A k \in Key : Held(tb, k) <=> Get(tb, k) # Nil
         /\ LiveKeys(tb) = {k \in Key : Held(tb, k)}
<1>1. \A k \in Key : Held(tb, k) <=> Get(tb, k) # Nil
  BY GetIs, KeyFacts DEF Held
<1> QED
  BY <1>1 DEF LiveKeys

(* The size ends before an absent key, and what it grew by is there.         *)
LEMMA AdjustASizeIs ==
  ASSUME NEW tb, hash \in [Key -> Nat], TableOk(tb, hash), NEW size \in Nat, NEW extra \in Key \cup {Nil},
         NEW s, s = AdjustASize(tb, size, extra)
  PROVE  /\ s \in Nat /\ s >= size /\ s + 1 # extra
         /\ \A k \in Key : Held(tb, k) => k # s + 1
         /\ \A i \in size + 1 .. s : i = extra \/ (i \in Index /\ Held(tb, i))
<1> DEFINE taken(i) == \/ i = extra
                       \/ (tb.node # <<>> \/ size < Len(tb.array)) /\ i \in Index /\ Get(tb, i) # Nil
           S == {m \in size .. size + MaxIndex + 1 : ~taken(m + 1)}
<1>1. S \in SUBSET Nat
  BY Numbers
<1>2. size + MaxIndex + 1 \in S
  <2>1. PICK m \in Nat : m = size + MaxIndex + 1
    BY Numbers
  <2>2. m + 1 \notin Index /\ m + 1 \in Int /\ m \in size .. size + MaxIndex + 1
    BY <2>1, Numbers
  <2>3. m + 1 # extra
    BY <2>2, Numbers
  <2> QED
    BY <2>1, <2>2, <2>3
<1>3. s = Min(S)
  BY DEF AdjustASize
<1> HIDE DEF S
<1>4. \E m \in S : \A n \in S : m <= n
  BY <1>1, <1>2, Least
<1>5. s \in S /\ \A n \in S : s <= n
  BY <1>3, <1>4 DEF Min
<1>6. s \in size .. size + MaxIndex + 1 /\ ~taken(s + 1)
  BY <1>5 DEF S
<1>7. s \in Nat /\ s >= size
  BY <1>6, Numbers
<1>8. ASSUME NEW k \in Key, Held(tb, k), k = s + 1
      PROVE  FALSE
  <2>1. k \in Index /\ Get(tb, k) # Nil
    BY <1>7, <1>8, Numbers, HeldIs
  <2>2. tb.node = <<>> /\ ~(size < Len(tb.array))
    BY <1>6, <1>8, <2>1
  <2>3. tb \in TableType /\ Len(tb.array) \in Nat /\ DOMAIN tb.node = {}
    BY <2>2, SeqFacts DEF TableOk, Framed
  <2>4. ~InArray(tb, k)
    BY <1>7, <1>8, <2>2, <2>3 DEF InArray
  <2> QED
    BY <1>8, <2>3, <2>4 DEF Held, Entry, Bears
<1>9. ASSUME NEW i \in size + 1 .. s
      PROVE  i = extra \/ (i \in Index /\ Held(tb, i))
  <2>1. PICK m \in size .. size + MaxIndex + 1 : m + 1 = i /\ m < s
    <3>1. i - 1 \in size .. size + MaxIndex + 1 /\ (i - 1) + 1 = i /\ i - 1 < s
      BY <1>6, <1>7, Numbers
    <3> QED
      BY <3>1
  <2>2. m \notin S
    BY <1>5, <1>6, <2>1, Numbers
  <2>3. taken(i)
    BY <2>1, <2>2 DEF S
  <2>4. i \in Index /\ Get(tb, i) # Nil => Held(tb, i)
    BY HeldIs, KeyFacts
  <2> QED
    BY <2>3, <2>4
<1>10. s + 1 # extra
  BY <1>6
<1> QED
  BY <1>7, <1>8, <1>9, <1>10

(* The size of the array part is a natural number.                           *)
LEMMA ComputeSizesIs == ASSUME NEW indices PROVE ComputeSizes(indices) \in Nat
<1> DEFINE below(p) == {i \in indices : i <= p}
           good == {p \in PowersOfTwo : /\ p \div 2 < Cardinality(indices)
                                        /\ below(p) # below(p \div 2) \/ (p = 1 /\ 1 \in indices)
                                        /\ Cardinality(below(p)) > p \div 2}
<1>1. ComputeSizes(indices) = IF good = {} THEN 0 ELSE Max(good)
  BY DEF ComputeSizes
<1>2. good \subseteq PowersOfTwo
  OBVIOUS
<1> HIDE DEF good
<1>3. CASE good = {}
  BY <1>1, <1>3
<1>4. CASE good # {}
  <2>1. good \in SUBSET (0 .. MaxSize) /\ good \subseteq Nat /\ MaxSize \in Nat
    BY <1>2, PowersIn
  <2>2. \E n \in good : \A m \in good : n >= m
    BY <1>4, <2>1, Greatest
  <2>3. Max(good) \in good
    BY <2>2 DEF Max
  <2> QED
    BY <1>1, <1>4, <2>1, <2>3
<1> QED
  BY <1>3, <1>4

UpTo(ind, n) == {i \in ind : i <= n}

(* Numbers up to A find room in an array of that size, at least those up to  *)
(* a and the ones from a + 1 to b.                                           *)
LEMMA Counting ==
  ASSUME NEW keys, IsFiniteSet(keys), NEW ind \in SUBSET keys, ind \subseteq Nat,
         NEW a \in Nat, NEW b \in Nat, NEW A \in Nat, a <= b, b <= A, a + 1 .. b \subseteq ind,
         NEW H, H = keys \ UpTo(ind, A),
         NEW nh, nh = Cardinality(keys) - Cardinality(UpTo(ind, a))
  PROVE  /\ IsFiniteSet(H) /\ Cardinality(H) \in Nat /\ nh \in Nat /\ nh - (b - a) \in Nat
         /\ Cardinality(H) <= nh - (b - a) /\ nh - (b - a) <= Cardinality(keys)
<1> DEFINE low == {i \in ind : i <= a}
           all == {i \in ind : i <= A}
           mid == a + 1 .. b
<1>1. /\ IsFiniteSet(low) /\ IsFiniteSet(all) /\ IsFiniteSet(mid) /\ Cardinality(mid) = b - a
      /\ Cardinality(low) <= Cardinality(keys)
  <2>1. low \in SUBSET keys /\ all \in SUBSET keys
    OBVIOUS
  <2>2. IsFiniteSet(mid) /\ Cardinality(mid) = IF a + 1 > b THEN 0 ELSE b - (a + 1) + 1
    BY FS_Interval
  <2> QED
    BY <2>1, <2>2, FS_Subset
<1>2. /\ Cardinality(low) \in Nat /\ Cardinality(all) \in Nat /\ Cardinality(keys) \in Nat
  BY <1>1, FS_CardinalityType
<1>3. Cardinality(low) + (b - a) <= Cardinality(all)
  <2>1. low \cap mid = {}
    OBVIOUS
  <2>2. IsFiniteSet(low \cup mid) /\ Cardinality(low \cup mid) = Cardinality(low) + (b - a)
    <3>1. Cardinality(low \cap mid) = 0
      BY <2>1, FS_EmptySet
    <3>2. Cardinality(low \cup mid) = Cardinality(low) + Cardinality(mid) - Cardinality(low \cap mid)
      BY <1>1, FS_Union
    <3>3. IsFiniteSet(low \cup mid)
      BY <1>1, FS_Union
    <3> HIDE DEF low, mid
    <3> QED
      BY <1>1, <1>2, <3>1, <3>2, <3>3
  <2>3. low \cup mid \in SUBSET all
    <3>0. \A i \in ind : i \in Nat
      OBVIOUS
    <3>0a. \A i \in Nat : i <= a => i <= A
      OBVIOUS
    <3>1. low \subseteq all
      BY <3>0, <3>0a
    <3>2. mid \subseteq all
      OBVIOUS
    <3> QED
      BY <3>1, <3>2
  <2>4. Cardinality(low \cup mid) <= Cardinality(all)
    BY <1>1, <2>3, FS_Subset
  <2> QED
    BY <2>2, <2>4
<1>4. IsFiniteSet(H) /\ Cardinality(H) = Cardinality(keys) - Cardinality(all)
  <2>1. keys \cap all = all
    OBVIOUS
  <2> HIDE DEF all
  <2>2. H = keys \ all
    BY DEF all, UpTo
  <2> QED
    BY <2>1, <2>2, FS_Difference
<1>5. Cardinality(H) \in Nat
  BY <1>4, FS_CardinalityType
<1>6. nh = Cardinality(keys) - Cardinality(low)
  BY DEF UpTo
<1> HIDE DEF low, all, mid
<1> QED
  BY <1>1, <1>2, <1>3, <1>4, <1>5, <1>6

(* A rehash keeps everything and makes room for the key that asked for it.   *)
LEMMA RehashOk ==
  ASSUME NEW tb, hash \in [Key -> Nat], TableOk(tb, hash), NEW extra \in Key, ~Held(tb, extra),
         NEW r, r = Rehash(tb, extra)
  PROVE  /\ TableOk(r, hash) /\ Same(tb, r) /\ r.nested = tb.nested
         /\ ~NeedsRehash(r, extra) \/ InArray(r, extra)
         /\ Absent(r.node, extra)
<1> DEFINE keys == LiveKeys(tb) \cup {extra}
           indices == keys \cap Index
           a == ComputeSizes(indices)
           nh == Cardinality(keys) - Cardinality({i \in indices : i <= a})
           b == AdjustASize(tb, a, extra)
           more == b - a
           A == IF more = 0 THEN a ELSE AdjustASize(tb, b + more, extra)
           H == keys \ {i \in indices : i <= A}
<1>1. keys = {k \in Key : Held(tb, k)} \cup {extra} /\ keys \subseteq Key
  BY HeldIs
<1>2. IsFiniteSet(keys) /\ indices \in SUBSET keys /\ indices \subseteq Nat
  <2>1. IsFiniteSet(keys)
    BY <1>1, KeyFinite, FS_Subset
  <2> QED
    BY <2>1, Numbers
<1>3. r = IF more = 0 THEN Resize(tb, a, nh) ELSE Resize(tb, A, nh - more)
  BY DEF Rehash, RehashFor
<1>4. a \in Nat
  BY ComputeSizesIs
<1> HIDE DEF a
<1>5. /\ b \in Nat /\ b >= a /\ b + 1 # extra
      /\ \A k \in Key : Held(tb, k) => k # b + 1
      /\ \A i \in a + 1 .. b : i = extra \/ (i \in Index /\ Held(tb, i))
  BY <1>4, AdjustASizeIs
<1> HIDE DEF b
<1>6. more \in Nat
  BY <1>4, <1>5
<1>7. /\ A \in Nat /\ A >= b /\ A + 1 # extra
      /\ \A k \in Key : Held(tb, k) => k # A + 1
  <2>1. CASE more = 0
    <3>1. A = a /\ a = b
      BY <1>4, <1>5, <2>1
    <3> QED
      BY <1>4, <1>5, <3>1
  <2>2. CASE more # 0
    <3>1. A = AdjustASize(tb, b + more, extra)
      BY <2>2
    <3>2. b + more \in Nat /\ b + more >= b
      BY <1>5, <1>6
    <3> HIDE DEF more, A
    <3>3. A \in Nat /\ A >= b + more /\ A + 1 # extra /\ \A k \in Key : Held(tb, k) => k # A + 1
      BY <3>1, <3>2, AdjustASizeIs
    <3>4. A >= b
      BY <1>5, <3>2, <3>3
    <3> QED
      BY <3>3, <3>4
  <2> QED
    BY <2>1, <2>2
<1> HIDE DEF A
<1>8. a + 1 .. b \subseteq indices
  <2> SUFFICES ASSUME NEW i \in a + 1 .. b PROVE i \in indices
    OBVIOUS
  <2>1. i \in Key /\ i \in Int
    BY <1>4, <1>5, Numbers, KeyFacts
  <2>2. i \in Index /\ i \in keys
    BY <1>1, <1>5, <2>1, Numbers
  <2> QED
    BY <2>2
<1>9. /\ IsFiniteSet(H) /\ Cardinality(H) \in Nat /\ nh \in Nat /\ nh - more \in Nat
      /\ Cardinality(H) <= nh - more /\ nh - more <= Cardinality(keys)
  <2>1. H = keys \ UpTo(indices, A) /\ nh = Cardinality(keys) - Cardinality(UpTo(indices, a))
    BY DEF UpTo
  <2>2. a <= b /\ b <= A /\ a \in Nat /\ b \in Nat /\ A \in Nat
    BY <1>4, <1>5, <1>7
  <2> HIDE DEF keys, indices, H, nh
  <2> QED
    BY ONLY <1>2, <1>8, <2>1, <2>2, Counting
<1>10. r = Resize(tb, A, nh - more)
  <2>1. CASE more = 0
    <3>1. A = a /\ nh - more = nh
      BY <1>9, <2>1 DEF A
    <3> QED
      BY <1>3, <2>1, <3>1
  <2>2. CASE more # 0
    BY <1>3, <2>2
  <2> QED
    BY <2>1, <2>2
<1>11. \E p \in PowersOfTwo : nh - more <= p
  <2>1. PICK p \in PowersOfTwo : Cardinality(Key) <= p
    BY TablesAssumption
  <2>2. Cardinality(keys) <= Cardinality(Key) /\ Cardinality(Key) \in Nat /\ Cardinality(keys) \in Nat
    BY <1>1, <1>2, KeyFinite, FS_Subset, FS_CardinalityType
  <2>3. p \in Nat
    BY PowersIn
  <2> HIDE DEF nh, more, keys
  <2> QED
    BY <1>9, <2>1, <2>2, <2>3
<1>12. \A k \in keys : k \in H \/ (k \in Index /\ k <= A)
  OBVIOUS
<1>13. \A k \in H : k \in keys /\ ~(k \in Index /\ k <= A)
  OBVIOUS
<1> DEFINE n == nh - more
<1>14. n \in Nat /\ Cardinality(H) <= n /\ r = Resize(tb, A, n) /\ \E p \in PowersOfTwo : n <= p
  BY <1>9, <1>10, <1>11
<1> HIDE DEF H, n, nh, more, keys, indices
<1>15. /\ TableOk(r, hash) /\ Same(tb, r) /\ r.nested = tb.nested
       /\ Len(r.array) = A /\ Len(r.node) >= n /\ Len(r.node) \in Nat /\ Valued(r.node)
       /\ \A k \in NodeKeys(r.node) : Held(tb, k) /\ ~InArray(r, k)
  <2>1. \A k \in Key : Held(tb, k) => k # A + 1 /\ ((k \in Index /\ k <= A) \/ k \in H)
    <3>1. \A k \in Key : Held(tb, k) => k \in keys
      BY <1>1
    <3> QED
      BY <1>7, <1>12, <3>1
  <2> QED
    BY <1>7, <1>9, <1>14, <2>1, ResizeOk
<1>16. ~NeedsRehash(r, extra) \/ InArray(r, extra)
  <2> SUFFICES ASSUME ~InArray(r, extra) PROVE ~NeedsRehash(r, extra)
    OBVIOUS
  <2>1. \A k : InArray(r, k) <=> k \in Index /\ k <= A
    BY <1>15 DEF InArray
  <2>2. extra \in H
    BY <1>1, <1>12, <2>1
  <2>3. NodeKeys(r.node) \subseteq H \ {extra}
    <3> SUFFICES ASSUME NEW k \in NodeKeys(r.node) PROVE k \in H /\ k # extra
      OBVIOUS
    <3>1. Held(tb, k) /\ ~InArray(r, k)
      BY <1>15
    <3>2. k \in Key
      <4>1. r \in TableType
        BY <1>15 DEF TableOk, Framed
      <4> QED
        BY <4>1, SeqFacts, NodeFacts DEF NodeKeys
    <3> QED
      BY <1>1, <1>12, <2>1, <3>1, <3>2
  <2>4. Cardinality(H) <= Len(r.node)
    BY <1>9, <1>14, <1>15
  <2>5. extra # Len(r.array) + 1
    BY <1>7, <1>15
  <2> QED
    BY <1>9, <1>15, <2>2, <2>3, <2>4, <2>5, Roomy
<1>17. Absent(r.node, extra)
  <2> SUFFICES ASSUME NEW i \in DOMAIN r.node, r.node[i].key = extra PROVE FALSE
    BY DEF Absent
  <2>1. r.node[i].val # Nil
    BY <1>15, KeyFacts DEF Valued
  <2>2. Held(r, extra)
    BY <1>15, <2>1, EntryOfNode DEF Held
  <2> QED
    BY <1>15, <2>2 DEF Same, Held
<1> QED
  BY <1>15, <1>16, <1>17

(* Assigning to a table of the same entries.                                 *)
LEMMA SameHolds ==
  ASSUME NEW tb, NEW u, NEW r, NEW k, NEW v, Same(tb, u), Holds(u, r, k, v)
  PROVE  Holds(tb, r, k, v)
BY DEF Same, Holds

(* A key that is found nowhere has no value.                                 *)
LEMMA AbsentHeld ==
  ASSUME NEW tb, NEW hf, TableOk(tb, hf), NEW k \in Key, ~InArray(tb, k)
  PROVE  Absent(tb.node, k) => ~Held(tb, k)
<1>1. Keyed(tb.node)
  BY DEF TableOk, NodesOk
<1> QED
  BY <1>1, KeyFacts DEF Absent, Held, Entry, Bears, Keyed

(* A key gets its place, after a rehash if that is needed.                   *)
LEMMA NewKeyOk ==
  ASSUME NEW tb, hash \in [Key -> Nat], TableOk(tb, hash), NEW k \in Key, NEW v \in Val \cup {Nil},
         Absent(tb.node, k), ~InArray(tb, k), NEW r, r = NewKey(tb, k, v)
  PROVE  TableOk(r, hash) /\ Holds(tb, r, k, v) /\ r.nested = tb.nested
<1>1. CASE ~NeedsRehash(tb, k)
  <2>1. r = Reinsert(tb, k, v)
    BY <1>1 DEF NewKey, Reinsert
  <2> QED
    BY <1>1, <2>1, ReinsertOk DEF Shaped
<1>2. CASE NeedsRehash(tb, k)
  <2>1. r = Reinsert(Rehash(tb, k), k, v)
    BY <1>2 DEF NewKey
  <2>2. PICK u : u = Rehash(tb, k)
    OBVIOUS
  <2>3. ~Held(tb, k)
    BY AbsentHeld
  <2>4. /\ TableOk(u, hash) /\ Same(tb, u) /\ u.nested = tb.nested
        /\ ~NeedsRehash(u, k) \/ InArray(u, k)
        /\ Absent(u.node, k)
    BY <2>2, <2>3, RehashOk
  <2>5. TableOk(r, hash) /\ Holds(u, r, k, v) /\ Shaped(u, r)
    BY <2>1, <2>2, <2>4, ReinsertOk
  <2> QED
    BY <2>4, <2>5, SameHolds DEF Shaped
<1> QED
  BY <1>1, <1>2
-----------------------------------------------------------------------------
(* Half of a number, rounded down.                                           *)
LEMMA HalfIs ==
  ASSUME NEW n \in Nat
  PROVE  /\ n \div 2 \in Nat /\ n \div 2 <= n
         /\ n - n \div 2 \in Nat
         /\ n >= 1 => n - n \div 2 >= 1
         /\ n >= 2 => n \div 2 >= 1
         /\ n \div 2 = 0 => n = 0 \/ n = 1
<1>1. PICK h \in Nat : h = n \div 2 /\ (n = 2 * h \/ n = 2 * h + 1)
  OBVIOUS
<1> QED
  BY <1>1

(* The search halves its interval, once in each round.                       *)
LEMMA HalvingIs ==
  ASSUME NEW tb, Len(tb.array) \in Nat
  PROVE  /\ Halving(tb)[0] = [base |-> 0, rest |-> Len(tb.array)]
         /\ \A n \in 1 .. Len(tb.array) : Halving(tb)[n] = Halved(tb, Halving(tb)[n - 1])
<1> DEFINE N == Len(tb.array)
           step(f, n) == IF n = 0 THEN [base |-> 0, rest |-> N] ELSE Halved(tb, f[n - 1])
           body(f, m) == [n \in 0 .. m |-> step(f, n)]
           Bad == {m \in 0 .. N : ~\E f : f = body(f, m)}
<1>1. Bad = {}
  <2> SUFFICES ASSUME Bad # {} PROVE FALSE
    OBVIOUS
  <2>1. PICK m \in Bad : \A i \in Bad : m <= i
    <3>1. Bad \in SUBSET Nat
      OBVIOUS
    <3> HIDE DEF Bad
    <3> QED
      BY <3>1, Least
  <2>2. m # 0
    <3>1. [n \in 0 .. 0 |-> [base |-> 0, rest |-> N]] = body([n \in 0 .. 0 |-> [base |-> 0, rest |-> N]], 0)
      OBVIOUS
    <3> QED
      BY <3>1
  <2>3. m - 1 \in 0 .. N /\ m - 1 \notin Bad
    <3>1. m \in 0 .. N /\ N \in Nat
      OBVIOUS
    <3>2. m - 1 \in 0 .. N /\ ~(m <= m - 1)
      BY <2>2, <3>1
    <3> HIDE DEF Bad, N
    <3> QED
      BY <2>1, <3>2
  <2>4. PICK f : f = body(f, m - 1)
    BY <2>3
  <2> DEFINE g == [n \in 0 .. m |-> IF n = m THEN step(f, m) ELSE f[n]]
  <2>5. g = body(g, m)
    <3>1. \A n \in 0 .. m : g[n] = step(g, n)
      <4> TAKE n \in 0 .. m
      <4>1. CASE n = 0
        BY <2>2, <2>3, <2>4, <4>1
      <4>2. CASE n # 0
        <5>1. n - 1 \in 0 .. m - 1 /\ n - 1 \in 0 .. m /\ n - 1 # m
          BY <2>3, <4>2
        <5>2. g[n - 1] = f[n - 1]
          BY <5>1
        <5>3. step(g, n) = step(f, n)
          BY <5>2
        <5>4. n # m => n \in 0 .. m - 1
          BY <2>3
        <5>5. n # m => f[n] = step(f, n)
          BY <2>4, <5>4
        <5> HIDE DEF step
        <5> QED
          BY <5>3, <5>5
      <4> QED
        BY <4>1, <4>2
    <3> HIDE DEF step
    <3> QED
      BY <3>1
  <2> QED
    BY <2>1, <2>5
<1>2. \E f : f = body(f, N)
  <2>1. N \notin Bad
    BY <1>1
  <2> QED
    BY <2>1
<1>3. Halving(tb) = body(Halving(tb), N)
  BY <1>2 DEF Halving
<1>4. \A n \in 0 .. N : Halving(tb)[n] = step(Halving(tb), n)
  <2> DEFINE f == Halving(tb)
  <2> HIDE DEF step, f
  <2>1. f = body(f, N)
    BY <1>3 DEF f
  <2>2. \A n \in 0 .. N : f[n] = step(f, n)
    BY <2>1
  <2> QED
    BY <2>2 DEF f
<1>5. \A n \in 1 .. N : n \in 0 .. N /\ n # 0
  OBVIOUS
<1>6. 0 \in 0 .. N
  OBVIOUS
<1> QED
  BY <1>4, <1>5, <1>6

(* What the interval stays: it starts at the beginning or at a value and     *)
(* ends at or before one that is absent.                                     *)
Between(tb, span, n) ==
  /\ span.base \in Nat /\ span.rest \in Nat /\ span.rest >= 1 /\ span.base + span.rest <= Len(tb.array)
  /\ span.base = 0 \/ tb.array[span.base + 1] # Nil
  /\ \/ tb.array[span.base + span.rest] = Nil
     \/ span.base + span.rest + 1 <= Len(tb.array) /\ tb.array[span.base + span.rest + 1] = Nil
  /\ span.rest <= 1 \/ span.rest <= Len(tb.array) - n

(* A round of the binary search keeps that.                                  *)
LEMMA HalvedBetween ==
  ASSUME NEW tb, Len(tb.array) \in Nat, NEW span, NEW n \in 1 .. Len(tb.array), Between(tb, span, n - 1)
  PROVE  Between(tb, Halved(tb, span), n)
<1>0. PICK N \in Nat : N = Len(tb.array)
  OBVIOUS
<1>1. PICK b \in Nat, r \in Nat : b = span.base /\ r = span.rest
  BY DEF Between
<1>2. /\ r >= 1 /\ b + r <= N /\ n \in 1 .. N
      /\ b = 0 \/ tb.array[b + 1] # Nil
      /\ tb.array[b + r] = Nil \/ (b + r + 1 <= N /\ tb.array[b + r + 1] = Nil)
      /\ r <= 1 \/ r <= N - (n - 1)
  BY <1>0, <1>1 DEF Between
<1>3. PICK half \in Nat : half = r \div 2 /\ (half + half = r \/ half + half + 1 = r)
  OBVIOUS
<1>4. PICK left \in Nat : left = r - half
  BY <1>3
<1>5. left >= 1 /\ (left = half \/ left = half + 1) /\ half + left = r /\ (left <= 1 \/ left <= N - n)
  BY <1>2, <1>3, <1>4
<1>6. /\ Halved(tb, span).rest = left
      /\ Halved(tb, span).base = IF tb.array[b + half + 1] = Nil THEN b ELSE b + half
  BY <1>1, <1>3, <1>4 DEF Halved
<1>7. CASE tb.array[b + half + 1] = Nil
  <2>1. Halved(tb, span).base = b
    BY <1>6, <1>7
  <2>2. CASE left = half + 1
    <3>0. half \in Nat /\ left \in Nat /\ b \in Nat /\ r \in Nat /\ half + left = r /\ b + r <= N
      BY <1>2, <1>5
    <3>1. b + left = b + half + 1 /\ b + left <= N
      BY ONLY <1>0, <2>2, <3>0
    <3>2. tb.array[b + left] = Nil
      BY <1>7, <3>1
    <3> QED
      BY <1>0, <1>2, <1>5, <1>6, <2>1, <3>1, <3>2 DEF Between
  <2>3. CASE left = half
    <3>1. b + left + 1 = b + half + 1 /\ b + left + 1 <= N /\ b + left <= N
      BY <1>2, <1>5, <2>3
    <3>2. tb.array[b + left + 1] = Nil
      BY <1>7, <3>1
    <3> QED
      BY <1>0, <1>2, <1>5, <1>6, <2>1, <3>1, <3>2 DEF Between
  <2> QED
    BY <1>5, <2>2, <2>3
<1>8. CASE tb.array[b + half + 1] # Nil
  <2>1. Halved(tb, span).base = b + half /\ b + half \in Nat
    BY <1>6, <1>8
  <2>2. (b + half) + left = b + r
    BY <1>5
  <2>3. PICK c \in Nat : c = b + half
    BY <2>1
  <2>4. Halved(tb, span).base = c /\ c + left = b + r /\ tb.array[c + 1] # Nil
    BY <1>8, <2>1, <2>2, <2>3
  <2> QED
    BY <1>0, <1>2, <1>5, <1>6, <2>4 DEF Between
<1> QED
  BY <1>7, <1>8

(* The binary search finds a boundary in the array.                          *)
LEMMA BinarySearchIs ==
  ASSUME NEW tb, Len(tb.array) \in Nat, Len(tb.array) > 0, tb.array[Len(tb.array)] = Nil,
         NEW b, b = BinarySearch(tb)
  PROVE  /\ b \in Nat /\ b + 1 <= Len(tb.array) /\ tb.array[b + 1] = Nil
         /\ b > 0 => tb.array[b] # Nil
<1> DEFINE N == Len(tb.array)
           Ok(n) == Between(tb, Halving(tb)[n], n)
           Bad == {m \in 0 .. N : ~Ok(m)}
<1>1. Ok(0)
  <2>0. PICK s : s = Halving(tb)[0]
    OBVIOUS
  <2>0a. s = [base |-> 0, rest |-> N]
    BY <2>0, HalvingIs
  <2>1. s = Halving(tb)[0] /\ s.base = 0 /\ s.rest = N
    BY <2>0, <2>0a
  <2>2. 0 + N = N /\ N >= 1 /\ N <= N - 0
    OBVIOUS
  <2>3. Between(tb, s, 0)
    BY <2>1, <2>2 DEF Between
  <2> QED
    BY <2>1, <2>3
<1>2. \A n \in 1 .. N : Ok(n - 1) => Ok(n)
  <2> SUFFICES ASSUME NEW n \in 1 .. N, Ok(n - 1) PROVE Ok(n)
    OBVIOUS
  <2>1. PICK s : s = Halving(tb)[n - 1]
    OBVIOUS
  <2>2. Between(tb, s, n - 1)
    BY <2>1
  <2>3. Between(tb, Halved(tb, s), n)
    BY <2>2, HalvedBetween
  <2>4. Halving(tb)[n] = Halved(tb, s)
    BY <2>1, HalvingIs
  <2> QED
    BY <2>3, <2>4
<1>3. N \in Nat /\ N > 0
  OBVIOUS
<1> HIDE DEF Ok, N
<1>4. Bad = {}
  <2> SUFFICES ASSUME Bad # {} PROVE FALSE
    OBVIOUS
  <2>1. PICK m \in Bad : \A i \in Bad : m <= i
    <3>1. Bad \in SUBSET Nat
      OBVIOUS
    <3> HIDE DEF Bad
    <3> QED
      BY <3>1, Least
  <2>2. m \in 1 .. N /\ m - 1 \in 0 .. N /\ ~(m <= m - 1)
    BY <1>1, <1>3
  <2>3. m - 1 \notin Bad
    BY <2>1, <2>2
  <2> QED
    BY <1>2, <2>2, <2>3
<1>5. Between(tb, Halving(tb)[N], N)
  <2>1. N \in 0 .. N
    BY <1>3
  <2>2. Ok(N)
    BY <1>4, <2>1
  <2> QED
    BY <2>2 DEF Ok
<1>6. PICK s : s = Halving(tb)[N]
  OBVIOUS
<1>7. /\ s.base \in Nat /\ s.rest = 1 /\ s.base + 1 <= N
      /\ s.base = 0 \/ tb.array[s.base + 1] # Nil
      /\ \/ tb.array[s.base + 1] = Nil
         \/ s.base + 2 <= N /\ tb.array[s.base + 2] = Nil
  <2>1. /\ s.base \in Nat /\ s.rest \in Nat /\ s.rest >= 1 /\ s.base + s.rest <= N
        /\ s.base = 0 \/ tb.array[s.base + 1] # Nil
        /\ \/ tb.array[s.base + s.rest] = Nil
           \/ s.base + s.rest + 1 <= N /\ tb.array[s.base + s.rest + 1] = Nil
        /\ s.rest <= 1 \/ s.rest <= N - N
    BY <1>5, <1>6 DEF Between, N
  <2>2. s.rest = 1
    BY <1>3, <2>1
  <2>3. s.base + 1 + 1 = s.base + 2
    BY <2>1
  <2> QED
    BY <2>1, <2>2, <2>3
<1>8. b = s.base + (IF tb.array[s.base + 1] = Nil THEN 0 ELSE 1)
  BY <1>6 DEF BinarySearch, N
<1>9. CASE tb.array[s.base + 1] = Nil
  <2>1. b = s.base /\ s.base = 0
    BY <1>7, <1>8, <1>9
  <2> QED
    BY <1>7, <1>9, <2>1 DEF N
<1>10. CASE tb.array[s.base + 1] # Nil
  <2>1. b = s.base + 1
    BY <1>8, <1>10
  <2>2. b \in Nat /\ b + 1 = s.base + 2 /\ b + 1 <= N
    BY <1>7, <1>10, <2>1
  <2> QED
    BY <1>7, <1>10, <2>1, <2>2 DEF N
<1> QED
  BY <1>9, <1>10

(* lastfree alone may be another place below which every free node is.       *)
LEMMA Relaid ==
  ASSUME NEW tb, NEW hf, TableOk(tb, hf), NEW f \in Int, f <= Len(tb.node), -f <= Len(tb.array),
         \A i \in DOMAIN tb.node : i > f => tb.node[i].key # Nil,
         NEW r, r = [tb EXCEPT !.lastfree = f]
  PROVE  TableOk(r, hf) /\ r.array = tb.array /\ r.node = tb.node /\ r.nested = tb.nested
<1>1. Framed(tb) /\ NodesOk(tb.node, hf) /\ tb \in TableType
  BY DEF TableOk, Framed
<1>2. /\ r \in TableType /\ r.array = tb.array /\ r.node = tb.node /\ r.nested = tb.nested
      /\ r.lastfree = f
  BY <1>1 DEF TableType
<1> QED
  BY <1>1, <1>2 DEF TableOk, Framed

(* The hint takes the place of lastfree only where nothing is free.          *)
LEMMA HintedOk ==
  ASSUME NEW tb, NEW hf, TableOk(tb, hf), NEW b \in 0 .. Len(tb.array), NEW r, r = Hinted(tb, b)
  PROVE  TableOk(r, hf) /\ r.array = tb.array /\ r.node = tb.node /\ r.nested = tb.nested
<1>1. /\ tb \in TableType /\ tb.lastfree \in Int /\ Len(tb.array) \in Nat /\ Len(tb.node) \in Nat
      /\ DOMAIN tb.node = 1 .. Len(tb.node)
      /\ \A i \in DOMAIN tb.node : i > tb.lastfree => tb.node[i].key # Nil
  BY SeqFacts DEF TableOk, Framed, TableType
<1>2. CASE tb.lastfree <= 0
  <2>1. r = [tb EXCEPT !.lastfree = -b]
    BY <1>2 DEF Hinted
  <2>2. -b \in Int /\ -b <= Len(tb.node) /\ -(-b) <= Len(tb.array)
    BY <1>1
  <2>3. \A i \in DOMAIN tb.node : i > -b => tb.node[i].key # Nil
    BY <1>1, <1>2
  <2>4. PICK f \in Int : f = -b
    BY <2>2
  <2> QED
    BY <2>1, <2>2, <2>3, <2>4, Relaid
<1>3. CASE ~(tb.lastfree <= 0)
  BY <1>3 DEF Hinted
<1> QED
  BY <1>2, <1>3

(* The hint is a size that the array part has reached.                       *)
LEMMA HintIs ==
  ASSUME NEW tb, NEW hf, TableOk(tb, hf)
  PROVE  Hint(tb) \in 0 .. Len(tb.array) /\ Hint(tb) \in Nat
<1>1. Len(tb.array) \in Nat /\ tb.lastfree \in Int /\ -tb.lastfree <= Len(tb.array)
  BY SeqFacts DEF TableOk, Framed, TableType
<1> QED
  BY <1>1 DEF Hint

(* n is a boundary of the array part. *)
Ends(tb, n) ==
  /\ n \in Nat /\ n <= Len(tb.array) /\ (n > 0 => tb.array[n] # Nil)
  /\ n + 1 <= Len(tb.array) => tb.array[n + 1] = Nil

(* What luaH_getn returns, and what it leaves behind.                        *)
LEMMA GetNIs ==
  ASSUME NEW tb, NEW hf, TableOk(tb, hf), NEW g, g = GetN(tb)
  PROVE  Ends(tb, g.n) /\ (g.tb = tb \/ \E b \in 0 .. Len(tb.array) : g.tb = Hinted(tb, b))
<1> DEFINE Found(n, new) == [n |-> n, tb |-> new]
           at(i) == tb.array[i] # Nil
<1>1. PICK size \in Nat : size = Len(tb.array)
  BY SeqFacts DEF TableOk, Framed
<1>2. PICK b \in Nat : b = Hint(tb) /\ b <= size
  BY <1>1, HintIs
<1>3. CASE b > 0 /\ at(size) /\ tb.node = <<>>
  <2>1. g = Found(size, tb)
    BY <1>1, <1>2, <1>3 DEF GetN
  <2>2. ~(size + 1 <= size)
    BY <1>1
  <2> QED
    BY <1>1, <1>2, <1>3, <2>1, <2>2 DEF Ends
<1>4. CASE ~(b > 0 /\ at(size) /\ tb.node = <<>>) /\ (b > 0 /\ b < size /\ at(b) /\ ~at(b + 1))
  <2>1. g = Found(b, tb)
    BY <1>1, <1>2, <1>4 DEF GetN
  <2> QED
    BY <1>1, <1>2, <1>4, <2>1 DEF Ends
<1>5. CASE /\ ~(b > 0 /\ at(size) /\ tb.node = <<>>) /\ ~(b > 0 /\ b < size /\ at(b) /\ ~at(b + 1))
           /\ b > 0 /\ b < size /\ ~at(b) /\ b >= 2 /\ at(b - 1)
  <2>1. g = Found(b - 1, Hinted(tb, b - 1))
    BY <1>1, <1>2, <1>5 DEF GetN
  <2>2. PICK n \in Nat : n = b - 1
    BY <1>5
  <2>3. n + 1 = b /\ n <= size /\ n \in 0 .. size
    BY <1>2, <2>2
  <2> QED
    BY <1>1, <1>2, <1>5, <2>1, <2>2, <2>3 DEF Ends
<1>6. CASE /\ ~(b > 0 /\ at(size) /\ tb.node = <<>>) /\ ~(b > 0 /\ b < size /\ at(b) /\ ~at(b + 1))
           /\ ~(b > 0 /\ b < size /\ ~at(b) /\ b >= 2 /\ at(b - 1))
           /\ b > 0 /\ ~(b < size /\ ~at(b)) /\ b + 1 < size /\ at(b + 1) /\ ~at(b + 2)
  <2>1. g = Found(b + 1, Hinted(tb, b + 1))
    BY <1>1, <1>2, <1>6 DEF GetN
  <2>2. PICK n \in Nat : n = b + 1
    OBVIOUS
  <2>3. n + 1 = b + 2 /\ n <= size /\ n \in 0 .. size
    BY <1>2, <1>6, <2>2
  <2> QED
    BY <1>1, <1>2, <1>6, <2>1, <2>2, <2>3 DEF Ends
<1> DEFINE other == /\ ~(b > 0 /\ at(size) /\ tb.node = <<>>) /\ ~(b > 0 /\ b < size /\ at(b) /\ ~at(b + 1))
                    /\ ~(b > 0 /\ b < size /\ ~at(b) /\ b >= 2 /\ at(b - 1))
                    /\ ~(b > 0 /\ ~(b < size /\ ~at(b)) /\ b + 1 < size /\ at(b + 1) /\ ~at(b + 2))
<1>7. CASE other /\ size > 0 /\ ~at(size)
  <2>1. g = Found(BinarySearch(tb), Hinted(tb, BinarySearch(tb)))
    BY <1>1, <1>2, <1>7 DEF GetN
  <2>2. PICK n : n = BinarySearch(tb)
    OBVIOUS
  <2>3. n \in Nat /\ n + 1 <= size /\ ~at(n + 1) /\ (n > 0 => at(n))
    BY <1>1, <1>7, <2>2, BinarySearchIs
  <2>4. n <= size /\ n \in 0 .. size
    BY <2>3
  <2> QED
    BY <1>1, <2>1, <2>2, <2>3, <2>4 DEF Ends
<1>8. CASE other /\ ~(size > 0 /\ ~at(size))
  <2>1. g = Found(size, tb)
    BY <1>1, <1>2, <1>8 DEF GetN
  <2>2. ~(size + 1 <= size)
    BY <1>1
  <2> QED
    BY <1>1, <1>8, <2>1, <2>2 DEF Ends
<1> QED
  BY <1>3, <1>4, <1>5, <1>6, <1>7, <1>8

(* # is a boundary of what the table holds. *)
LEMMA BoundaryIs ==
  ASSUME NEW tb, hash \in [Key -> Nat], TableOk(tb, hash), NEW n, Ends(tb, n)
  PROVE  /\ n > 0 => n \in Index /\ Get(tb, n) # Nil
         /\ ~(n + 1 \in Index /\ Get(tb, n + 1) # Nil)
<1>1. /\ Len(tb.array) \in Nat /\ DOMAIN tb.array = 1 .. Len(tb.array)
      /\ \A i \in DOMAIN tb.array : tb.array[i] # Nil => i \in Index
      /\ \A i \in DOMAIN tb.node : tb.node[i].key \in Index => tb.node[i].key > Len(tb.array) + 1
  BY SeqFacts DEF TableOk, Framed
<1>2. n \in Nat /\ n <= Len(tb.array)
  BY DEF Ends
<1>3. ASSUME n > 0 PROVE n \in Index /\ Get(tb, n) # Nil
  <2>1. n \in DOMAIN tb.array /\ tb.array[n] # Nil
    BY <1>1, <1>2, <1>3 DEF Ends
  <2>2. n \in Index
    BY <1>1, <2>1
  <2>3. InArray(tb, n)
    BY <1>2, <2>2 DEF InArray
  <2> QED
    BY <2>1, <2>2, <2>3 DEF Get
<1>4. ASSUME n + 1 \in Index, Get(tb, n + 1) # Nil PROVE FALSE
  <2>0. PICK m \in Nat : m = n + 1
    BY <1>2
  <2>1. Held(tb, m)
    BY <1>4, <2>0, HeldIs, KeyFacts
  <2>2. CASE m <= Len(tb.array)
    <3>1. InArray(tb, m)
      BY <1>4, <2>0, <2>2 DEF InArray
    <3>2. tb.array[m] = Nil
      BY <2>0, <2>2 DEF Ends
    <3> QED
      BY <1>4, <2>0, <3>1, <3>2 DEF Get
  <2>3. CASE ~(m <= Len(tb.array))
    <3>1. ~InArray(tb, m) /\ m = Len(tb.array) + 1
      BY <1>1, <1>2, <2>0, <2>3 DEF InArray
    <3>2. PICK i \in DOMAIN tb.node : tb.node[i].key = m
      BY <2>1, <3>1 DEF Held, Entry, Bears
    <3>3. m > Len(tb.array) + 1
      BY <1>1, <1>4, <2>0, <3>2
    <3> QED
      BY <1>1, <3>1, <3>3
  <2> QED
    BY <2>2, <2>3
<1> QED
  BY <1>3, <1>4
-----------------------------------------------------------------------------
(* Nodes that keep their keys and links, and of which some have died.        *)
Fades(nd, new) ==
  /\ Vector(new) /\ Len(new) = Len(nd)
  /\ \A i \in DOMAIN nd :
       /\ new[i].key = nd[i].key /\ new[i].next = nd[i].next
       /\ nd[i].dead => new[i].dead
       /\ new[i].dead => new[i].val = Nil
       /\ nd[i].key = Nil => new[i].val = Nil /\ ~new[i].dead

(* Chains stay sound when keys in them die.                                  *)
LEMMA FadesOk ==
  ASSUME NEW hf \in [Key -> Nat], NEW nd, NEW new, NodesOk(nd, hf), Fades(nd, new)
  PROVE  NodesOk(new, hf) /\ To(new) = To(nd) /\ DOMAIN new = DOMAIN nd
<1>1. Vector(nd) /\ Linked(nd) /\ Keyed(nd) /\ Homed(nd, hf)
  BY DEF NodesOk
<1>2. DOMAIN nd = 1 .. Len(nd) /\ DOMAIN new = DOMAIN nd /\ Len(new) = Len(nd) /\ Vector(new)
  BY <1>1 DEF Vector, Fades
<1>3. \A i \in DOMAIN nd :
        /\ new[i].key = nd[i].key /\ new[i].next = nd[i].next
        /\ nd[i].dead => new[i].dead
        /\ new[i].dead => new[i].val = Nil
        /\ nd[i].key = Nil => new[i].val = Nil /\ ~new[i].dead
  BY DEF Fades
<1>4. To(new) = To(nd)
  BY <1>2, <1>3, SameTo
<1>5. Linked(new)
  BY <1>1, <1>2, <1>3, <1>4 DEF Linked
<1>6. Homed(new, hf)
  <2> SUFFICES ASSUME NEW i \in DOMAIN nd, new[i].key # Nil
               PROVE  AtHome(new, hf, Home(Len(nd), hf, new[i].key), i)
    BY <1>2 DEF Homed
  <2>1. AtHome(nd, hf, Home(Len(nd), hf, nd[i].key), i) /\ nd[i].key = new[i].key
    BY <1>1, <1>3 DEF Homed
  <2>2. Home(Len(nd), hf, nd[i].key) \in DOMAIN nd
    BY <1>1, <1>3, HomeOfKey
  <2> QED
    BY <1>2, <1>3, <1>4, <2>1, <2>2 DEF AtHome
<1>7. Keyed(new)
  <2>1. \A i \in DOMAIN new : To(new)[i] # 0 => new[To(new)[i]].key # Nil
    BY <1>1, <1>2, <1>3, <1>4, ToIn DEF Keyed
  <2>2. \A i \in DOMAIN new : new[i].key = Nil => ~new[i].dead /\ new[i].val = Nil /\ new[i].next = 0
    BY <1>1, <1>2, <1>3 DEF Keyed
  <2>3. ASSUME NEW i \in DOMAIN nd, NEW j \in DOMAIN nd, new[i].key # Nil, new[i].key = new[j].key, ~new[i].dead
        PROVE  IF new[j].dead THEN Leads(To(new), i, j) ELSE i = j
    <3>1. nd[i].key # Nil /\ nd[i].key = nd[j].key /\ ~nd[i].dead
      BY <1>3, <2>3
    <3>2. IF nd[j].dead THEN Leads(To(nd), i, j) ELSE i = j
      BY <1>1, <3>1 DEF Keyed
    <3> QED
      BY <1>3, <1>4, <3>2, LeadsSelf
  <2> QED
    BY <1>2, <1>3, <2>1, <2>2, <2>3 DEF Keyed
<1> QED
  BY <1>2, <1>4, <1>5, <1>6, <1>7 DEF NodesOk

(* A table whose nodes fade, and whose array part holds other values.        *)
Faded(tb, r) ==
  /\ r \in TableType /\ Fades(tb.node, r.node) /\ Len(r.array) = Len(tb.array)
  /\ r.lastfree = tb.lastfree /\ r.nested = tb.nested
  /\ \A i \in DOMAIN r.array : r.array[i] # Nil => i \in Index

(* So does the table.                                                        *)
LEMMA FadedOk ==
  ASSUME NEW hf \in [Key -> Nat], NEW tb, NEW r, TableOk(tb, hf), Faded(tb, r)
  PROVE  TableOk(r, hf) /\ DOMAIN r.node = DOMAIN tb.node /\ DOMAIN r.array = DOMAIN tb.array
<1>1. Framed(tb) /\ NodesOk(tb.node, hf) /\ tb \in TableType
  BY DEF TableOk, Framed
<1>2. NodesOk(r.node, hf) /\ DOMAIN r.node = DOMAIN tb.node /\ Len(r.node) = Len(tb.node)
  BY <1>1, FadesOk DEF Faded, Fades
<1>3. \A i \in DOMAIN tb.node : r.node[i].key = tb.node[i].key
  BY DEF Faded, Fades
<1>4. r.node = <<>> \/ Len(r.node) \in PowersOfTwo
  BY <1>1, <1>2, SeqFacts DEF Framed, Faded
<1>5. DOMAIN r.array = DOMAIN tb.array
  BY <1>1, SeqFacts DEF Faded
<1>6. /\ \A i \in DOMAIN r.node : i > r.lastfree => r.node[i].key # Nil
      /\ \A i \in DOMAIN r.node : r.node[i].key \in Index => r.node[i].key > Len(r.array) + 1
  BY <1>1, <1>2, <1>3 DEF Framed, Faded
<1>7. r.lastfree <= Len(r.node) /\ -r.lastfree <= Len(r.array)
  BY <1>1, <1>2 DEF Framed, Faded
<1> QED
  BY <1>2, <1>4, <1>5, <1>6, <1>7 DEF Faded, TableOk, Framed

(* Nothing has to die.                                                       *)
LEMMA FadesSelf ==
  ASSUME NEW nd, NEW hf, NodesOk(nd, hf)
  PROVE  Fades(nd, nd)
BY DEF NodesOk, Keyed, Fades

(* An assignment to a key that has a node.                                   *)
LEMMA NodeWrite ==
  ASSUME NEW tb, hash \in [Key -> Nat], TableOk(tb, hash), NEW k \in Key, NEW v \in Val \cup {Nil},
         ~InArray(tb, k), Search(tb, k) # 0, NEW r, r = Assign(tb, k, v)
  PROVE  TableOk(r, hash) /\ Holds(tb, r, k, v) /\ Faded(tb, r)
<1>1. PICK j \in DOMAIN tb.node : j = Search(tb, k) /\ tb.node[j].key = k /\ ~tb.node[j].dead
  BY SearchIs
<1>2. /\ tb \in TableType /\ Vector(tb.node) /\ DOMAIN tb.node = 1 .. Len(tb.node) /\ Len(tb.node) \in Nat
      /\ NodesOk(tb.node, hash) /\ Keyed(tb.node) /\ Framed(tb)
      /\ \A i \in DOMAIN tb.node : tb.node[i] \in Node
  BY SeqFacts DEF TableOk, Framed, NodesOk
<1> DEFINE n == [tb.node[j] EXCEPT !.val = v]
           nd == [tb.node EXCEPT ![j] = n]
<1>3. r = [tb EXCEPT !.node = nd]
  <2>1. r = [tb EXCEPT !.node[j].val = v]
    BY <1>1 DEF Assign
  <2> QED
    BY <1>1, <1>2, <2>1 DEF TableType, Node
<1>4. n \in Node /\ n.key = k /\ n.dead = FALSE /\ n.val = v /\ n.next = tb.node[j].next
  BY <1>1, <1>2 DEF Node
<1> HIDE DEF n
<1>5. nd \in [1 .. Len(tb.node) -> Node] /\ nd[j] = n /\ \A i \in DOMAIN tb.node : i # j => nd[i] = tb.node[i]
  BY <1>1, <1>2, <1>4 DEF Vector
<1> HIDE DEF nd
<1>6. nd \in Seq(Node) /\ Len(nd) = Len(tb.node) /\ DOMAIN nd = DOMAIN tb.node
  BY <1>2, <1>5, SeqDef, LenProperties
<1>7. /\ r \in TableType /\ r.array = tb.array /\ r.node = nd /\ r.lastfree = tb.lastfree /\ r.nested = tb.nested
  BY <1>2, <1>3, <1>6 DEF TableType
<1>8. Fades(tb.node, nd)
  <2>1. Vector(nd)
    BY <1>2, <1>5, <1>6 DEF Vector
  <2>2. k # Nil
    BY KeyFacts
  <2> QED
    BY <1>1, <1>2, <1>4, <1>5, <1>6, <2>1, <2>2 DEF Fades, Keyed
<1>9. Faded(tb, r)
  BY <1>2, <1>7, <1>8 DEF Faded, Framed
<1>10. TableOk(r, hash)
  BY <1>9, FadedOk
<1>11. Holds(tb, r, k, v)
  <2>1. \A q : InArray(r, q) <=> InArray(tb, q)
    BY <1>7 DEF InArray
  <2>2. \A i \in DOMAIN tb.node : i # j /\ tb.node[i].key = k => tb.node[i].val = Nil
    BY <1>1, <1>2, KeyFacts DEF Keyed
  <2>3. ASSUME NEW w \in Val PROVE Bears(nd, k, w) <=> w = v
    BY <1>1, <1>4, <1>5, <1>6, <2>2, KeyFacts DEF Bears
  <2>4. ASSUME NEW q \in Key, q # k, NEW w \in Val PROVE Bears(nd, q, w) <=> Bears(tb.node, q, w)
    BY <1>1, <1>4, <1>5, <1>6, <2>4 DEF Bears
  <2> QED
    BY <1>7, <2>1, <2>3, <2>4 DEF Holds, Entry
<1> QED
  BY <1>9, <1>10, <1>11

(* An assignment changes the entry of its key alone, and does not rehash in a rehash. *)
LEMMA AssignOk ==
  ASSUME NEW tb, hash \in [Key -> Nat], TableOk(tb, hash), NEW k \in Key, NEW v \in Val \cup {Nil},
         NEW r, r = Assign(tb, k, v)
  PROVE  TableOk(r, hash) /\ Holds(tb, r, k, v) /\ r.nested = tb.nested
<1>1. CASE InArray(tb, k)
  <2>1. r = [tb EXCEPT !.array[k] = v]
    BY <1>1 DEF Assign
  <2> QED
    BY <1>1, <2>1, ArrayWrite DEF Shaped
<1>2. CASE ~InArray(tb, k) /\ Search(tb, k) # 0
  BY <1>2, NodeWrite DEF Faded
<1>3. CASE ~InArray(tb, k) /\ Search(tb, k) = 0
  <2>1. r = NewKey(tb, k, v)
    BY <1>3 DEF Assign
  <2>2. Absent(tb.node, k)
    BY <1>3, SearchIs
  <2> QED
    BY <1>3, <2>1, <2>2, NewKeyOk
<1> QED
  BY <1>1, <1>2, <1>3
-----------------------------------------------------------------------------
(* A table without entries.                                                  *)
Blank(r) ==
  /\ r \in TableType /\ (r.node = <<>> \/ Len(r.node) \in PowersOfTwo)
  /\ r.lastfree <= Len(r.node) /\ -r.lastfree <= Len(r.array)
  /\ r.node = <<>> \/ r.lastfree = Len(r.node)
  /\ \A i \in DOMAIN r.array : r.array[i] = Nil
  /\ \A i \in DOMAIN r.node : r.node[i] = FreeNode

(* It is sound, and holds nothing.                                           *)
LEMMA BlankOk ==
  ASSUME NEW r, NEW hf, Blank(r)
  PROVE  TableOk(r, hf) /\ \A k \in Key, w \in Val : ~Entry(r, k, w)
<1>1. /\ Vector(r.node) /\ DOMAIN r.node = 1 .. Len(r.node) /\ Len(r.node) \in Nat
      /\ (r.node = <<>> <=> Len(r.node) = 0) /\ r \in TableType
  BY SeqFacts DEF Blank
<1>2. NodesOk(r.node, hf)
  BY <1>1, FreshNodes DEF Blank
<1>3. \A i \in DOMAIN r.node : r.node[i].key = Nil /\ r.node[i].val = Nil /\ ~(i > r.lastfree)
  BY <1>1, FreeNodeIs DEF Blank
<1>4. TableOk(r, hf)
  BY <1>2, <1>3, KeyFacts DEF Blank, TableOk, Framed
<1>5. \A k \in Key, w \in Val : ~Bears(r.node, k, w)
  BY <1>3, KeyFacts DEF Bears
<1>6. \A k \in Key, w \in Val : InArray(r, k) => r.array[k] # w
  BY <1>1, InArrayIs, KeyFacts DEF Blank
<1> QED
  BY <1>4, <1>5, <1>6 DEF Entry

(* The keys of the nodes with a value are no more than those nodes.          *)
KeysWithValue(nd) == {nd[i].key : i \in {j \in DOMAIN nd : nd[j].val # Nil}}

(* There is one at most for each node.                                       *)
LEMMA KeysWithValueFew ==
  ASSUME NEW nd, DOMAIN nd = 1 .. Len(nd), Len(nd) \in Nat
  PROVE  LET S == {j \in DOMAIN nd : nd[j].val # Nil}
         IN  /\ IsFiniteSet(KeysWithValue(nd)) /\ Cardinality(KeysWithValue(nd)) <= Cardinality(S)
             /\ Cardinality(S) \in Nat /\ Cardinality(S) <= Len(nd)
             /\ Cardinality(KeysWithValue(nd)) \in Nat
<1> DEFINE S == {j \in DOMAIN nd : nd[j].val # Nil}
           f == [j \in S |-> nd[j].key]
<1>1. IsFiniteSet(S) /\ Cardinality(S) <= Len(nd)
  <2>1. PICK n \in Nat : n = Len(nd)
    OBVIOUS
  <2>2. S \in SUBSET (1 .. n)
    BY <2>1
  <2>3. IsFiniteSet(1 .. n) /\ Cardinality(1 .. n) = IF 1 > n THEN 0 ELSE n - 1 + 1
    BY FS_Interval
  <2>4. Cardinality(1 .. n) = n
    BY <2>3
  <2> HIDE DEF S
  <2>5. IsFiniteSet(S) /\ Cardinality(S) <= Cardinality(1 .. n)
    BY <2>2, <2>3, FS_Subset
  <2> QED
    BY <2>1, <2>4, <2>5
<1>2. f \in Surjection(S, KeysWithValue(nd))
  BY DEF Surjection, KeysWithValue
<1>3. Cardinality(S) \in Nat
  BY <1>1, FS_CardinalityType
<1> HIDE DEF f, S
<1>4. IsFiniteSet(KeysWithValue(nd)) /\ Cardinality(KeysWithValue(nd)) <= Cardinality(S)
  BY <1>1, <1>2, FS_Surjection
<1>5. Cardinality(KeysWithValue(nd)) \in Nat
  BY <1>4, FS_CardinalityType
<1> QED
  BY <1>1, <1>3, <1>4, <1>5 DEF S

(* A resize that keeps the array part at least as long as it is has room for *)
(* the keys with a value in the nodes.                                       *)
LEMMA GrowOk ==
  ASSUME NEW tb, hash \in [Key -> Nat], TableOk(tb, hash), NEW nasize \in Nat, nasize >= Len(tb.array),
         NEW nh \in Nat, nh <= Len(tb.node), Cardinality(KeysWithValue(tb.node)) <= nh,
         \A k \in Key : Held(tb, k) => k # nasize + 1,
         NEW r, r = Resize(tb, nasize, nh)
  PROVE  TableOk(r, hash) /\ Same(tb, r) /\ r.nested = tb.nested /\ Len(r.array) = nasize
<1>1. /\ tb \in TableType /\ DOMAIN tb.node = 1 .. Len(tb.node) /\ Len(tb.node) \in Nat
      /\ (tb.node = <<>> <=> Len(tb.node) = 0) /\ (tb.node = <<>> \/ Len(tb.node) \in PowersOfTwo)
      /\ Len(tb.array) \in Nat
  BY SeqFacts DEF TableOk, Framed
<1>2. IsFiniteSet(KeysWithValue(tb.node))
  BY <1>1, KeysWithValueFew
<1>3. \E p \in PowersOfTwo : nh <= p
  <2>1. PICK p \in PowersOfTwo : Cardinality(Key) <= p
    BY TablesAssumption
  <2>2. p \in Nat
    BY PowersIn
  <2> QED
    BY <1>1, <2>1, <2>2
<1>4. \A k \in Key : Held(tb, k) => (k \in Index /\ k <= nasize) \/ k \in KeysWithValue(tb.node)
  <2> SUFFICES ASSUME NEW k \in Key, Held(tb, k)
               PROVE  (k \in Index /\ k <= nasize) \/ k \in KeysWithValue(tb.node)
    OBVIOUS
  <2>1. CASE InArray(tb, k)
    <3>1. k \in Index /\ k \in 1 .. Len(tb.array)
      BY <1>1, <2>1, InArrayIs, SeqFacts
    <3> QED
      BY <1>1, <3>1
  <2>2. CASE ~InArray(tb, k)
    <3>1. PICK i \in DOMAIN tb.node : tb.node[i].key = k /\ tb.node[i].val # Nil
      BY <2>2, KeyFacts DEF Held, Entry, Bears
    <3> QED
      BY <3>1 DEF KeysWithValue
  <2> QED
    BY <2>1, <2>2
<1> QED
  BY <1>2, <1>3, <1>4, ResizeOk

(* What the table is to hold.                                                *)
Agrees(tb, m) ==
  m \in [Key -> Val \cup {Nil}] /\ \A k \in Key, w \in Val : Entry(tb, k, w) <=> m[k] = w

TableHolds(tb, hf, m) == TableOk(tb, hf) /\ ~tb.nested /\ hf \in Hashes /\ Agrees(tb, m)

TableInv == TableHolds(t, hash, map)

(* Hash values are natural numbers.                                          *)
LEMMA HashIs == ASSUME hash \in Hashes PROVE hash \in [Key -> Nat]
BY TablesAssumption

(* The four properties follow. *)
LEMMA InvGives == ASSUME TableInv PROVE TypeOK /\ NoRehashInRehash /\ BoundaryRight /\ MapKept
<1>1. /\ TableOk(t, hash) /\ ~t.nested /\ hash \in Hashes /\ hash \in [Key -> Nat] /\ Agrees(t, map)
      /\ t \in TableType /\ Framed(t)
  BY HashIs DEF TableInv, TableHolds, TableOk, Framed
<1>2. TypeOK
  BY <1>1 DEF TypeOK, TableType, Framed, Agrees
<1>3. NoRehashInRehash
  BY <1>1 DEF NoRehashInRehash
<1>4. BoundaryRight
  <2>1. PICK g : g = GetN(t)
    OBVIOUS
  <2>2. Ends(t, g.n)
    BY <1>1, <2>1, GetNIs
  <2>3. /\ g.n > 0 => g.n \in Index /\ Get(t, g.n) # Nil
        /\ ~(g.n + 1 \in Index /\ Get(t, g.n + 1) # Nil)
    BY <1>1, <2>2, BoundaryIs
  <2> QED
    BY <2>1, <2>3 DEF BoundaryRight
<1>5. MapKept
  <2> SUFFICES ASSUME NEW k \in Key PROVE Get(t, k) = map[k]
    BY DEF MapKept
  <2>1. Get(t, k) \in Val \cup {Nil} /\ \A w \in Val : Get(t, k) = w <=> Entry(t, k, w)
    BY <1>1, GetIs
  <2>2. map[k] \in Val \cup {Nil} /\ \A w \in Val : Entry(t, k, w) <=> map[k] = w
    BY <1>1 DEF Agrees
  <2> QED
    BY <2>1, <2>2
<1> QED
  BY <1>2, <1>3, <1>4, <1>5

(* The invariant holds of a new table.                                       *)
LEMMA InitOk == ASSUME Init PROVE TableInv
<1>1. PICK q \in Rooms : t = New(q[1], q[2])
  BY DEF Init
<1>2. /\ hash \in Hashes /\ map = [k \in Key |-> Nil]
      /\ q[1] \in Nat /\ q[2] \in Nat /\ \E p \in PowersOfTwo : q[2] <= p
  BY TablesAssumption DEF Init
<1> DEFINE a  == [i \in 1 .. q[1] |-> Nil]
           nv == NodeVector(q[2])
<1>3. t = [array |-> a, node |-> nv, lastfree |-> Len(nv), nested |-> FALSE]
  BY <1>1 DEF New
<1>4. a \in Seq(Val \cup {Nil}) /\ Len(a) \in Nat /\ \A i \in DOMAIN a : a[i] = Nil
  <2>1. a \in [1 .. q[1] -> Val \cup {Nil}]
    OBVIOUS
  <2> QED
    BY <1>2, <2>1, SeqDef, LenProperties
<1>5. /\ nv \in Seq(Node) /\ Len(nv) \in Nat /\ (nv = <<>> \/ Len(nv) \in PowersOfTwo)
      /\ \A i \in DOMAIN nv : nv[i] = FreeNode
  BY <1>2, NodeVectorIs
<1> HIDE DEF a, nv
<1>6. /\ t.array = a /\ t.node = nv /\ t.lastfree = Len(nv) /\ ~t.nested
      /\ t \in TableType
  BY <1>3, <1>4, <1>5 DEF TableType
<1>7. Blank(t)
  BY <1>4, <1>5, <1>6 DEF Blank
<1>8. TableOk(t, hash) /\ \A k \in Key, w \in Val : ~Entry(t, k, w)
  BY <1>7, BlankOk
<1>9. Agrees(t, map)
  BY <1>2, <1>8, KeyFacts DEF Agrees
<1> QED
  BY <1>2, <1>6, <1>8, <1>9 DEF TableInv, TableHolds
-----------------------------------------------------------------------------
(* Tables that differ in lastfree alone hold the same.                       *)
LEMMA SameBodies ==
  ASSUME NEW tb, NEW r, r.array = tb.array, r.node = tb.node
  PROVE  Same(tb, r)
BY DEF Same, Entry, InArray

(* A table that holds the same holds what it is to hold.                     *)
LEMMA SameAgrees ==
  ASSUME NEW tb, NEW r, NEW m, Same(tb, r), Agrees(tb, m)
  PROVE  Agrees(r, m)
BY DEF Same, Agrees

(* The key after the array part has no value.                                *)
LEMMA NextAbsent ==
  ASSUME NEW tb, NEW hf, TableOk(tb, hf), NEW k \in Key, Held(tb, k)
  PROVE  k # Len(tb.array) + 1
<1>1. /\ tb \in TableType /\ Len(tb.array) \in Nat
      /\ \A i \in DOMAIN tb.node : tb.node[i].key \in Index => tb.node[i].key > Len(tb.array) + 1
  BY SeqFacts DEF TableOk, Framed
<1> SUFFICES ASSUME k = Len(tb.array) + 1 PROVE FALSE
  OBVIOUS
<1>2. k \in Index
  BY <1>1, Numbers
<1>3. ~InArray(tb, k)
  BY <1>1 DEF InArray
<1>4. PICK i \in DOMAIN tb.node : tb.node[i].key = k
  BY <1>3 DEF Held, Entry, Bears
<1> QED
  BY <1>1, <1>2, <1>4

(* Each operation keeps the invariant: luaH_set and its kin,                 *)
LEMMA SetKeeps ==
  ASSUME TableInv, NEW k \in Key, NEW v \in Val \cup {Nil}, Set(k, v)
  PROVE  TableHolds(t', hash', map')
<1>1. TableOk(t, hash) /\ ~t.nested /\ hash \in Hashes /\ hash \in [Key -> Nat] /\ Agrees(t, map)
  BY HashIs DEF TableInv, TableHolds
<1>2. PICK r : r = Assign(t, k, v)
  OBVIOUS
<1>3. TableOk(r, hash) /\ Holds(t, r, k, v) /\ r.nested = t.nested
  BY <1>1, <1>2, AssignOk
<1>4. t' = r /\ hash' = hash /\ map' = [map EXCEPT ![k] = v]
  BY <1>2 DEF Set
<1>5. Agrees(r, map')
  BY <1>1, <1>3, <1>4 DEF Agrees, Holds
<1> QED
  BY <1>1, <1>3, <1>4, <1>5 DEF TableHolds

(* luaH_getn,                                                                *)
LEMMA LengthKeeps ==
  ASSUME TableInv, Length
  PROVE  TableHolds(t', hash', map') /\ t'.node = t.node /\ t'.array = t.array
<1>1. TableOk(t, hash) /\ ~t.nested /\ hash \in Hashes /\ Agrees(t, map)
  BY DEF TableInv, TableHolds
<1>2. PICK g : g = GetN(t)
  OBVIOUS
<1>3. g.tb = t \/ \E b \in 0 .. Len(t.array) : g.tb = Hinted(t, b)
  BY <1>1, <1>2, GetNIs
<1>4. TableOk(g.tb, hash) /\ g.tb.array = t.array /\ g.tb.node = t.node /\ g.tb.nested = t.nested
  BY <1>1, <1>3, HintedOk
<1>5. t' = g.tb /\ hash' = hash /\ map' = map
  BY <1>2 DEF Length
<1>6. Agrees(g.tb, map)
  BY <1>1, <1>4, SameBodies, SameAgrees
<1> QED
  BY <1>1, <1>4, <1>5, <1>6 DEF TableHolds

(* luaH_clone,                                                               *)
LEMMA CloneKeeps ==
  ASSUME TableInv, Clone
  PROVE  TableHolds(t', hash', map')
<1>1. TableOk(t, hash) /\ ~t.nested /\ hash \in Hashes /\ Agrees(t, map)
  BY DEF TableInv, TableHolds
<1>2. PICK f : f = IF t.node # <<>> THEN t.lastfree ELSE IF t.array = <<>> THEN 0 ELSE -Hint(t)
  OBVIOUS
<1>3. PICK r : r = [t EXCEPT !.lastfree = f]
  OBVIOUS
<1>4. t' = r /\ hash' = hash /\ map' = map
  BY <1>2, <1>3 DEF Clone
<1>5. /\ t \in TableType /\ Framed(t) /\ Len(t.array) \in Nat /\ Len(t.node) \in Nat /\ t.lastfree \in Int
      /\ DOMAIN t.node = 1 .. Len(t.node) /\ (t.node = <<>> <=> Len(t.node) = 0)
      /\ Hint(t) \in Nat /\ Hint(t) <= Len(t.array)
  <2>1. t \in TableType /\ Framed(t) /\ t.lastfree \in Int
    BY <1>1 DEF TableOk, Framed, TableType
  <2>2. Len(t.array) \in Nat
    BY <2>1, SeqFacts
  <2>3. Hint(t) \in 0 .. Len(t.array) /\ Hint(t) \in Nat
    BY <1>1, HintIs
  <2> QED
    BY <2>1, <2>2, <2>3, SeqFacts
<1>6. /\ f \in Int /\ f <= Len(t.node) /\ -f <= Len(t.array)
      /\ \A i \in DOMAIN t.node : i > f => t.node[i].key # Nil
  <2>1. CASE t.node # <<>>
    BY <1>2, <1>5, <2>1 DEF Framed
  <2>2. CASE t.node = <<>> /\ t.array = <<>>
    BY <1>2, <1>5, <2>2
  <2>3. CASE t.node = <<>> /\ t.array # <<>>
    <3>1. f = -Hint(t)
      BY <1>2, <2>3
    <3> QED
      BY <1>5, <2>3, <3>1
  <2> QED
    BY <2>1, <2>2, <2>3
<1>7. TableOk(r, hash) /\ r.array = t.array /\ r.node = t.node /\ r.nested = t.nested
  BY <1>1, <1>3, <1>6, Relaid
<1>8. Agrees(r, map)
  BY <1>1, <1>7, SameBodies, SameAgrees
<1> QED
  BY <1>1, <1>4, <1>7, <1>8 DEF TableHolds

(* luaH_clear,                                                               *)
LEMMA ClearKeeps ==
  ASSUME TableInv, Clear
  PROVE  TableHolds(t', hash', map')
<1>1. TableOk(t, hash) /\ ~t.nested /\ hash \in Hashes
  BY DEF TableInv, TableHolds
<1>2. /\ t \in TableType /\ Framed(t) /\ Len(t.array) \in Nat /\ Len(t.node) \in Nat
      /\ DOMAIN t.node = 1 .. Len(t.node) /\ (t.node = <<>> <=> Len(t.node) = 0)
      /\ DOMAIN t.array = 1 .. Len(t.array)
  BY <1>1, SeqFacts DEF TableOk, Framed
<1>3. PICK u : u = Hinted(t, 0)
  OBVIOUS
<1>4. TableOk(u, hash) /\ u.array = t.array /\ u.node = t.node /\ u.nested = t.nested
  BY <1>1, <1>2, <1>3, HintedOk
<1>5. /\ u \in TableType /\ u.lastfree \in Int /\ u.lastfree <= Len(t.node) /\ -u.lastfree <= Len(t.array)
  BY <1>4 DEF TableOk, Framed, TableType
<1> DEFINE a == [i \in DOMAIN t.array |-> Nil]
           nd == [i \in DOMAIN t.node |-> FreeNode]
           f == IF t.node = <<>> THEN u.lastfree ELSE Len(t.node)
<1>6. t' = [u EXCEPT !.array = a, !.node = nd, !.lastfree = f]
  BY <1>3, <1>4 DEF Clear
<1>7. a \in Seq(Val \cup {Nil}) /\ Len(a) = Len(t.array) /\ \A i \in DOMAIN a : a[i] = Nil
  <2>1. a \in [1 .. Len(t.array) -> Val \cup {Nil}]
    BY <1>2
  <2> QED
    BY <1>2, <2>1, SeqDef, LenProperties
<1>8. nd \in Seq(Node) /\ Len(nd) = Len(t.node) /\ \A i \in DOMAIN nd : nd[i] = FreeNode
  <2>1. nd \in [1 .. Len(t.node) -> Node]
    BY <1>2, FreeNodeIs
  <2> QED
    BY <1>2, <2>1, SeqDef, LenProperties
<1>9. f \in Int /\ f <= Len(t.node) /\ -f <= Len(t.array) /\ (t.node = <<>> \/ f = Len(t.node))
  BY <1>2, <1>5
<1>10. nd = <<>> <=> t.node = <<>>
  BY <1>2, <1>8, EmptySeq
<1> HIDE DEF a, nd, f
<1>11. /\ t'.array = a /\ t'.node = nd /\ t'.lastfree = f /\ t'.nested = t.nested
       /\ t' \in TableType
  BY <1>4, <1>5, <1>6, <1>7, <1>8, <1>9 DEF TableType
<1>12. PICK r : r = t'
  OBVIOUS
<1>13. Blank(r)
  BY <1>2, <1>7, <1>8, <1>9, <1>10, <1>11, <1>12 DEF Blank, Framed
<1>14. TableOk(r, hash) /\ \A k \in Key, w \in Val : ~Entry(r, k, w)
  BY <1>13, BlankOk
<1>15. hash' = hash /\ map' = [k \in Key |-> Nil]
  BY DEF Clear
<1>16. Agrees(r, map')
  BY <1>14, <1>15, KeyFacts DEF Agrees
<1> QED
  BY <1>1, <1>11, <1>12, <1>14, <1>15, <1>16 DEF TableHolds

(* removeentry marks the key as dead and changes nothing else.               *)
LEMMA RemoveEntryIs ==
  ASSUME NEW n \in Node
  PROVE  /\ RemoveEntry(n) \in Node
         /\ RemoveEntry(n).key = n.key /\ RemoveEntry(n).val = n.val /\ RemoveEntry(n).next = n.next
         /\ RemoveEntry(n).dead = (n.dead \/ n.key \in Object)
BY DEF RemoveEntry, Node

(* The collector's traversal keeps the invariant,                            *)
LEMMA TraverseKeeps ==
  ASSUME TableInv, Traverse
  PROVE  TableHolds(t', hash', map') /\ Faded(t, t') /\ Same(t, t') /\ t'.array = t.array
<1>1. TableOk(t, hash) /\ ~t.nested /\ hash \in Hashes /\ hash \in [Key -> Nat] /\ Agrees(t, map)
  BY HashIs DEF TableInv, TableHolds
<1>2. /\ t \in TableType /\ Vector(t.node) /\ DOMAIN t.node = 1 .. Len(t.node) /\ Len(t.node) \in Nat
      /\ Keyed(t.node) /\ Framed(t)
      /\ \A i \in DOMAIN t.node : t.node[i] \in Node
  BY <1>1, SeqFacts DEF TableOk, Framed, NodesOk
<1>3. PICK nd : nd = Removed(t.node)
  OBVIOUS
<1>4. nd = [i \in DOMAIN t.node |-> IF t.node[i].val = Nil THEN RemoveEntry(t.node[i]) ELSE t.node[i]]
  BY <1>3 DEF Removed
<1>5. nd \in [1 .. Len(t.node) -> Node]
  BY <1>2, <1>4, RemoveEntryIs
<1>6. nd \in Seq(Node) /\ Len(nd) = Len(t.node) /\ DOMAIN nd = DOMAIN t.node
  BY <1>2, <1>5, SeqDef, LenProperties
<1>7. \A i \in DOMAIN t.node :
        /\ nd[i].key = t.node[i].key /\ nd[i].next = t.node[i].next /\ nd[i].val = t.node[i].val
        /\ nd[i].dead = IF t.node[i].val = Nil THEN t.node[i].dead \/ t.node[i].key \in Object ELSE t.node[i].dead
  BY <1>2, <1>4, RemoveEntryIs
<1>8. Fades(t.node, nd)
  <2>1. Vector(nd)
    BY <1>2, <1>5, <1>6 DEF Vector
  <2>2. \A i \in DOMAIN t.node : t.node[i].dead \in BOOLEAN
    BY <1>2, NodeFacts
  <2> QED
    BY <1>2, <1>6, <1>7, <2>1, <2>2, KeyFacts DEF Fades, Keyed
<1>9. t' = [t EXCEPT !.node = nd] /\ hash' = hash /\ map' = map
  BY <1>3 DEF Traverse
<1>10. PICK r : r = t'
  OBVIOUS
<1>11. /\ r \in TableType /\ r.array = t.array /\ r.node = nd /\ r.lastfree = t.lastfree /\ r.nested = t.nested
  BY <1>2, <1>6, <1>9, <1>10 DEF TableType
<1>12. Faded(t, r)
  BY <1>2, <1>8, <1>11 DEF Faded, Framed
<1>13. TableOk(r, hash)
  BY <1>1, <1>12, FadedOk
<1>14. Same(t, r)
  <2>1. \A k \in Key, w \in Val : Bears(nd, k, w) <=> Bears(t.node, k, w)
    BY <1>6, <1>7 DEF Bears
  <2>2. \A k : InArray(r, k) <=> InArray(t, k)
    BY <1>11 DEF InArray
  <2> QED
    BY <1>11, <2>1, <2>2 DEF Same, Entry
<1>15. Agrees(r, map)
  BY <1>1, <1>14, SameAgrees
<1> QED
  BY <1>1, <1>9, <1>10, <1>11, <1>12, <1>13, <1>14, <1>15 DEF TableHolds

(* Clearing the keys in S leaves the others as they are.                     *)
LEMMA ClearedIs ==
  ASSUME hash \in [Key -> Nat], TableOk(t, hash), NEW S \in SUBSET Key, NEW r, r = Cleared(S)
  PROVE  /\ Faded(t, r) /\ TableOk(r, hash)
         /\ \A k \in Key, w \in Val : Entry(r, k, w) <=> k \notin S /\ Entry(t, k, w)
<1>2. /\ t \in TableType /\ Vector(t.node) /\ DOMAIN t.node = 1 .. Len(t.node) /\ Len(t.node) \in Nat
      /\ Keyed(t.node) /\ Framed(t)
      /\ \A i \in DOMAIN t.node : t.node[i] \in Node
      /\ t.array \in [1 .. Len(t.array) -> Val \cup {Nil}] /\ DOMAIN t.array = 1 .. Len(t.array)
      /\ Len(t.array) \in Nat
  BY SeqFacts DEF TableOk, Framed, NodesOk
<1> DEFINE nd == [i \in DOMAIN t.node |-> IF t.node[i].val # Nil /\ t.node[i].key \in S
                                          THEN RemoveEntry([t.node[i] EXCEPT !.val = Nil]) ELSE t.node[i]]
           a == [i \in DOMAIN t.array |-> IF i \in S THEN Nil ELSE t.array[i]]
<1>3. r = [t EXCEPT !.array = a, !.node = nd]
  BY DEF Cleared
<1>4. \A i \in DOMAIN t.node :
        /\ nd[i] \in Node
        /\ nd[i].key = t.node[i].key /\ nd[i].next = t.node[i].next
        /\ nd[i].val = (IF t.node[i].key \in S THEN Nil ELSE t.node[i].val)
        /\ t.node[i].dead => nd[i].dead
        /\ nd[i].dead => nd[i].val = Nil
        /\ ~(t.node[i].val # Nil /\ t.node[i].key \in S) => nd[i] = t.node[i]
  <2> TAKE i \in DOMAIN t.node
  <2>1. CASE t.node[i].val # Nil /\ t.node[i].key \in S
    <3>1. PICK n : n = [t.node[i] EXCEPT !.val = Nil]
      OBVIOUS
    <3>2. n \in Node /\ n.key = t.node[i].key /\ n.next = t.node[i].next /\ n.val = Nil /\ n.dead = t.node[i].dead
      BY <1>2, <3>1 DEF Node
    <3>3. nd[i] = RemoveEntry(n)
      BY <2>1, <3>1
    <3> HIDE DEF nd
    <3>4. /\ nd[i] \in Node /\ nd[i].key = t.node[i].key /\ nd[i].next = t.node[i].next /\ nd[i].val = Nil
      BY <3>2, <3>3, RemoveEntryIs
    <3>5. n.dead => nd[i].dead
      BY <3>2, <3>3, RemoveEntryIs
    <3> QED
      BY <2>1, <3>2, <3>4, <3>5
  <2>2. CASE ~(t.node[i].val # Nil /\ t.node[i].key \in S)
    <3>1. nd[i] = t.node[i]
      BY <2>2
    <3> HIDE DEF nd
    <3> QED
      BY <1>2, <2>2, <3>1 DEF Keyed
  <2> QED
    BY <2>1, <2>2
<1>5. DOMAIN nd = DOMAIN t.node /\ nd = [i \in DOMAIN t.node |-> nd[i]]
  OBVIOUS
<1>6. /\ a \in [1 .. Len(t.array) -> Val \cup {Nil}]
      /\ \A i \in DOMAIN t.array : a[i] = IF i \in S THEN Nil ELSE t.array[i]
  BY <1>2
<1> HIDE DEF nd, a
<1>7. nd \in [1 .. Len(t.node) -> Node]
  BY <1>2, <1>4, <1>5
<1>8. nd \in Seq(Node) /\ Len(nd) = Len(t.node)
  BY <1>2, <1>7, SeqDef, LenProperties
<1>9. a \in Seq(Val \cup {Nil}) /\ Len(a) = Len(t.array) /\ DOMAIN a = DOMAIN t.array
  BY <1>2, <1>6, SeqDef, LenProperties
<1>10. /\ r \in TableType /\ r.array = a /\ r.node = nd /\ r.lastfree = t.lastfree /\ r.nested = t.nested
  BY <1>2, <1>3, <1>8, <1>9 DEF TableType
<1>11. Fades(t.node, nd)
  <2>1. Vector(nd)
    BY <1>2, <1>7, <1>8 DEF Vector
  <2>2. Nil \notin S
    BY KeyFacts
  <2>3. \A i \in DOMAIN t.node : t.node[i].key = Nil => nd[i].val = Nil /\ ~nd[i].dead
    BY <1>2, <1>4, <2>2 DEF Keyed
  <2> QED
    BY <1>2, <1>4, <1>8, <2>1, <2>3 DEF Fades
<1>12. Faded(t, r)
  <2>1. \A i \in DOMAIN r.array : r.array[i] # Nil => i \in Index
    BY <1>2, <1>6, <1>9, <1>10 DEF Framed
  <2> QED
    BY <1>9, <1>10, <1>11, <2>1 DEF Faded
<1>13. TableOk(r, hash)
  BY <1>12, FadedOk
<1>14. \A k \in Key, w \in Val : Entry(r, k, w) <=> k \notin S /\ Entry(t, k, w)
  <2>1. \A k \in Key, w \in Val : Bears(nd, k, w) <=> k \notin S /\ Bears(t.node, k, w)
    <3> TAKE k \in Key, w \in Val
    <3>1. \A i \in DOMAIN t.node : nd[i].key = t.node[i].key
                                  /\ nd[i].val = (IF t.node[i].key \in S THEN Nil ELSE t.node[i].val)
      BY <1>4
    <3>2. w # Nil
      BY KeyFacts
    <3>3. CASE k \in S
      BY <1>5, <3>1, <3>2, <3>3 DEF Bears
    <3>4. CASE k \notin S
      BY <1>5, <3>1, <3>2, <3>4 DEF Bears
    <3> QED
      BY <3>3, <3>4
  <2>2. \A k : InArray(r, k) <=> InArray(t, k)
    BY <1>9, <1>10 DEF InArray
  <2>3. \A k, w : InArray(t, k) /\ w \in Val => (a[k] = w <=> k \notin S /\ t.array[k] = w)
    BY <1>2, <1>6, InArrayIs, KeyFacts
  <2> QED
    BY <1>10, <2>1, <2>2, <2>3 DEF Entry
<1> QED
  BY <1>12, <1>13, <1>14

(* What a cleared weak table is to hold.                                     *)
LEMMA LostAgrees ==
  ASSUME Agrees(t, map), NEW S \in SUBSET Key, NEW r,
         \A k \in Key, w \in Val : Entry(r, k, w) <=> k \notin S /\ Entry(t, k, w)
  PROVE  Agrees(r, Lost(S))
BY KeyFacts DEF Agrees, Lost

(* The clearing of a weak table keeps the invariant,                         *)
LEMMA ClearWeakKeeps ==
  ASSUME TableInv, NEW S \in SUBSET Key, ClearWeak(S)
  PROVE  TableHolds(t', hash', map')
<1>1. TableOk(t, hash) /\ ~t.nested /\ hash \in Hashes /\ hash \in [Key -> Nat] /\ Agrees(t, map)
  BY HashIs DEF TableInv, TableHolds
<1>2. PICK r : r = Cleared(S)
  OBVIOUS
<1>3. t' = r /\ hash' = hash /\ map' = Lost(S)
  BY <1>2 DEF ClearWeak
<1>4. /\ Faded(t, r) /\ TableOk(r, hash)
      /\ \A k \in Key, w \in Val : Entry(r, k, w) <=> k \notin S /\ Entry(t, k, w)
  BY <1>1, <1>2, ClearedIs
<1>5. Agrees(r, Lost(S))
  BY <1>1, <1>4, LostAgrees
<1> QED
  BY <1>1, <1>3, <1>4, <1>5 DEF TableHolds, Faded

(* and so does the resize after it.                                          *)
LEMMA ShrinkWeakKeeps ==
  ASSUME TableInv, NEW S \in SUBSET Key, ShrinkWeak(S)
  PROVE  TableHolds(t', hash', map')
<1>1. TableOk(t, hash) /\ ~t.nested /\ hash \in Hashes /\ hash \in [Key -> Nat] /\ Agrees(t, map)
  BY HashIs DEF TableInv, TableHolds
<1>2. PICK u : u = Cleared(S)
  OBVIOUS
<1>3. /\ Faded(t, u) /\ TableOk(u, hash)
      /\ \A k \in Key, w \in Val : Entry(u, k, w) <=> k \notin S /\ Entry(t, k, w)
  BY <1>1, <1>2, ClearedIs
<1>4. /\ DOMAIN u.node = DOMAIN t.node /\ DOMAIN u.node = 1 .. Len(u.node) /\ Len(u.node) \in Nat
      /\ Len(u.array) = Len(t.array) /\ Len(u.array) \in Nat /\ u.nested = t.nested
  <2>1. u \in TableType /\ Len(u.array) = Len(t.array) /\ u.nested = t.nested
    BY <1>3 DEF Faded
  <2>2. DOMAIN u.node = DOMAIN t.node
    BY <1>1, <1>3, FadedOk
  <2> QED
    BY <2>1, <2>2, SeqFacts
<1>5. PICK active : active = Cardinality({j \in DOMAIN u.node : u.node[j].val # Nil})
  OBVIOUS
<1>6. /\ active \in Nat /\ active <= Len(u.node) /\ Cardinality(KeysWithValue(u.node)) <= active
  BY <1>4, <1>5, KeysWithValueFew
<1>7. PICK r : r = Resize(u, Len(u.array), active)
  OBVIOUS
<1>8. t' = r /\ hash' = hash /\ map' = Lost(S)
  BY <1>2, <1>4, <1>5, <1>7 DEF ShrinkWeak
<1>9. \A k \in Key : Held(u, k) => k # Len(u.array) + 1
  BY <1>3, NextAbsent
<1>10. TableOk(r, hash) /\ Same(u, r) /\ r.nested = u.nested
  <2>1. PICK N \in Nat : N = Len(u.array)
    BY <1>4
  <2> QED
    BY <1>1, <1>3, <1>6, <1>7, <1>9, <2>1, GrowOk
<1>11. Agrees(u, Lost(S))
  BY <1>1, <1>3, LostAgrees
<1>12. Agrees(r, Lost(S))
  BY <1>10, <1>11, SameAgrees
<1> QED
  BY <1>1, <1>4, <1>8, <1>10, <1>12 DEF TableHolds

Written(a, first, last, v) == [i \in DOMAIN a |-> IF i \in first .. last THEN v ELSE a[i]]
Ranged(tb, first, last, v) == [tb EXCEPT !.array = Written(tb.array, first, last, v)]

(* Values are written into a range of the array part.                        *)
LEMMA RangeWrite ==
  ASSUME NEW tb, hash \in [Key -> Nat], TableOk(tb, hash), NEW first \in Index, NEW last \in Index,
         last <= Len(tb.array), NEW v \in Val \cup {Nil},
         NEW r, r = Ranged(tb, first, last, v)
  PROVE  /\ TableOk(r, hash) /\ r.nested = tb.nested
         /\ \A k \in Key, w \in Val :
               Entry(r, k, w) <=> IF k \in Index /\ k \in first .. last THEN w = v ELSE Entry(tb, k, w)
<1>1. /\ tb \in TableType /\ Framed(tb) /\ NodesOk(tb.node, hash) /\ Len(tb.array) \in Nat
      /\ tb.array \in [1 .. Len(tb.array) -> Val \cup {Nil}] /\ DOMAIN tb.array = 1 .. Len(tb.array)
  BY SeqFacts DEF TableOk, Framed
<1>2. PICK a : a = Written(tb.array, first, last, v)
  OBVIOUS
<1>3. /\ a \in [1 .. Len(tb.array) -> Val \cup {Nil}]
      /\ \A i \in DOMAIN tb.array : a[i] = IF i \in first .. last THEN v ELSE tb.array[i]
  BY <1>1, <1>2 DEF Written
<1>4. a \in Seq(Val \cup {Nil}) /\ Len(a) = Len(tb.array) /\ DOMAIN a = DOMAIN tb.array
  BY <1>1, <1>3, SeqDef, LenProperties
<1>5. /\ r \in TableType /\ r.array = a /\ r.node = tb.node /\ r.lastfree = tb.lastfree /\ r.nested = tb.nested
  BY <1>1, <1>2, <1>4 DEF TableType, Ranged
<1>6. first .. last \subseteq Index
  BY Numbers
<1>7. Faded(tb, r)
  <2>1. Fades(tb.node, r.node)
    BY <1>1, <1>5, FadesSelf
  <2>2. \A i \in DOMAIN r.array : r.array[i] # Nil => i \in Index
    BY <1>1, <1>3, <1>4, <1>5, <1>6 DEF Framed
  <2> QED
    BY <1>4, <1>5, <2>1, <2>2 DEF Faded
<1>8. TableOk(r, hash)
  BY <1>7, FadedOk
<1>9. \A k : InArray(r, k) <=> InArray(tb, k)
  BY <1>4, <1>5 DEF InArray
<1>10. ASSUME NEW k \in Key, NEW w \in Val
       PROVE  Entry(r, k, w) <=> IF k \in Index /\ k \in first .. last THEN w = v ELSE Entry(tb, k, w)
  <2>1. CASE InArray(tb, k)
    <3>1. k \in Index /\ k \in DOMAIN tb.array
      BY <1>1, <2>1, InArrayIs
    <3> QED
      BY <1>3, <1>5, <1>9, <2>1, <3>1 DEF Entry
  <2>2. CASE ~InArray(tb, k)
    <3>1. ~(k \in Index /\ k \in first .. last)
      BY <1>1, <2>2, Numbers DEF InArray
    <3> QED
      BY <1>5, <1>9, <2>2, <3>1 DEF Entry
  <2> QED
    BY <2>1, <2>2
<1> QED
  BY <1>5, <1>8, <1>10

(* A list constructor keeps the invariant.                                   *)
LEMMA SetListKeeps ==
  ASSUME TableInv, NEW first \in Index, NEW last \in Index, NEW v \in Val \cup {Nil}, SetList(first, last, v)
  PROVE  TableHolds(t', hash', map')
<1>1. TableOk(t, hash) /\ ~t.nested /\ hash \in Hashes /\ hash \in [Key -> Nat] /\ Agrees(t, map)
  BY HashIs DEF TableInv, TableHolds
<1>2. /\ t \in TableType /\ Len(t.array) \in Nat /\ Len(t.node) \in Nat /\ DOMAIN t.node = 1 .. Len(t.node)
      /\ last \in Nat
  BY <1>1, SeqFacts, Numbers DEF TableOk, Framed
<1>3. PICK g : g = IF last <= Len(t.array) THEN t ELSE Resize(t, AdjustASize(t, last, Nil), Len(t.node))
  OBVIOUS
<1>4. PICK r : r = Ranged(g, first, last, v)
  OBVIOUS
<1>5. /\ t' = r /\ hash' = hash
      /\ map' = [k \in Key |-> IF k \in Index /\ k \in first .. last THEN v ELSE map[k]]
  BY <1>3, <1>4 DEF SetList, Written, Ranged
<1>6. TableOk(g, hash) /\ Same(t, g) /\ g.nested = t.nested /\ last <= Len(g.array)
  <2>1. CASE last <= Len(t.array)
    <3>1. g = t
      BY <1>3, <2>1
    <3> QED
      BY <1>1, <2>1, <3>1 DEF Same
  <2>2. CASE ~(last <= Len(t.array))
    <3>1. PICK s : s = AdjustASize(t, last, Nil)
      OBVIOUS
    <3>2. s \in Nat /\ s >= last /\ \A k \in Key : Held(t, k) => k # s + 1
      BY <1>1, <1>2, <3>1, AdjustASizeIs
    <3>3. PICK nh \in Nat : nh = Len(t.node)
      BY <1>2
    <3>4. g = Resize(t, s, nh)
      BY <1>3, <2>2, <3>1, <3>3
    <3>5. Cardinality(KeysWithValue(t.node)) <= nh /\ nh <= Len(t.node)
      <4>1. PICK c : c = Cardinality({j \in DOMAIN t.node : t.node[j].val # Nil})
        OBVIOUS
      <4>2. Cardinality(KeysWithValue(t.node)) <= c /\ c \in Nat /\ c <= Len(t.node) /\ Cardinality(KeysWithValue(t.node)) \in Nat
        BY <1>2, <4>1, KeysWithValueFew
      <4> QED
        BY <3>3, <4>2
    <3>6. s >= Len(t.array)
      BY <1>2, <2>2, <3>2
    <3>7. TableOk(g, hash) /\ Same(t, g) /\ g.nested = t.nested /\ Len(g.array) = s
      BY <1>1, <3>2, <3>4, <3>5, <3>6, GrowOk
    <3> QED
      BY <3>2, <3>7
  <2> QED
    BY <2>1, <2>2
<1>7. /\ TableOk(r, hash) /\ r.nested = g.nested
      /\ \A k \in Key, w \in Val :
            Entry(r, k, w) <=> IF k \in Index /\ k \in first .. last THEN w = v ELSE Entry(g, k, w)
  BY <1>1, <1>4, <1>6, RangeWrite
<1>8. Agrees(r, map')
  BY <1>1, <1>5, <1>6, <1>7 DEF Agrees, Same
<1> QED
  BY <1>1, <1>5, <1>6, <1>7, <1>8 DEF TableHolds

(* Every step does.                                                          *)
LEMMA NextKeeps ==
  ASSUME TableInv, Next
  PROVE  TableHolds(t', hash', map')
<1>1. ASSUME NEW k \in Key, NEW v \in Val \cup {Nil}, Set(k, v)
      PROVE  TableHolds(t', hash', map')
  BY <1>1, SetKeeps
<1>2. ASSUME NEW first \in Index, NEW last \in Index, NEW v \in Val \cup {Nil}, SetList(first, last, v)
      PROVE  TableHolds(t', hash', map')
  BY <1>2, SetListKeeps
<1>3. CASE Length
  BY <1>3, LengthKeeps
<1>4. CASE Clear
  BY <1>4, ClearKeeps
<1>5. CASE Clone
  BY <1>5, CloneKeeps
<1>6. CASE Traverse
  BY <1>6, TraverseKeeps
<1>7. ASSUME NEW S \in SUBSET LiveKeys(t), ClearWeak(S)
      PROVE  TableHolds(t', hash', map')
  <2>1. S \in SUBSET Key
    BY DEF LiveKeys
  <2> QED
    BY <1>7, <2>1, ClearWeakKeeps
<1>8. ASSUME NEW S \in SUBSET LiveKeys(t), ShrinkWeak(S)
      PROVE  TableHolds(t', hash', map')
  <2>1. S \in SUBSET Key
    BY DEF LiveKeys
  <2> QED
    BY <1>8, <2>1, ShrinkWeakKeeps
<1> QED
  BY <1>1, <1>2, <1>3, <1>4, <1>5, <1>6, <1>7, <1>8 DEF Next

(* The inductive invariant of tables: sound chains, each key where it is      *)
(* looked for and not in both parts, and with the value assigned last.       *)
THEOREM TablesInvariant == Spec => []TableInv
<1>1. Init => TableInv
  BY InitOk
<1>2. ASSUME TableInv, [Next]_vars PROVE TableInv'
  <2>1. CASE Next
    BY <1>2, <2>1, NextKeeps DEF TableInv
  <2>2. CASE UNCHANGED vars
    BY <1>2, <2>2 DEF TableInv, vars
  <2> QED
    BY <1>2, <2>1, <2>2
<1> QED
  BY <1>1, <1>2, PTL DEF Spec
-----------------------------------------------------------------------------
(* Where luaH_next finds a key.                                              *)
NodeOf(nd, hf, k) ==
  IF nd = <<>> THEN 0 ELSE First(To(nd), Home(Len(nd), hf, k), {j \in DOMAIN nd : nd[j].key = k})

Find(tb, hf, k) ==
  IF k = Nil THEN 0
  ELSE IF InArray(tb, k) THEN k
  ELSE IF NodeOf(tb.node, hf, k) = 0 THEN -1 ELSE Len(tb.array) + NodeOf(tb.node, hf, k)

(* It is a position, if any.                                                 *)
LEMMA NodeOfIn ==
  ASSUME NEW hf \in [Key -> Nat], NEW nd, NodesOk(nd, hf), NEW k \in Key
  PROVE  NodeOf(nd, hf, k) \in DOMAIN nd \cup {0}
<1> DEFINE h == Home(Len(nd), hf, k)
           S == {j \in DOMAIN nd : nd[j].key = k}
<1>1. Linked(nd) /\ Vector(nd) /\ DOMAIN nd = 1 .. Len(nd) /\ Len(nd) \in Nat
  BY DEF NodesOk, Vector
<1>2. CASE nd # <<>> /\ Met(To(nd), h, S) # {}
  <2>1. nd \in Seq(Node) /\ Len(nd) \in Nat \ {0}
    <3>1. nd \in Seq(Node)
      BY <1>1, SeqDef DEF Vector
    <3> QED
      BY <1>1, <1>2, <3>1, EmptySeq
  <2>2. h \in DOMAIN To(nd) /\ Links(To(nd))
    BY <1>1, <2>1, HomeIn, ToIs DEF Linked
  <2>3. First(To(nd), h, S) \in S
    BY <1>2, <2>2, FirstIs DEF Met
  <2> QED
    BY <1>2, <2>3 DEF NodeOf
<1>3. CASE ~(nd # <<>> /\ Met(To(nd), h, S) # {})
  BY <1>3 DEF NodeOf, First
<1> QED
  BY <1>2, <1>3

(* findindex finds that.                                                     *)
LEMMA FindIs ==
  ASSUME NEW tb, hash \in [Key -> Nat], TableOk(tb, hash), NEW k \in Key \cup {Nil}
  PROVE  FindIndex(tb, k) = Find(tb, hash, k)
<1> DEFINE nd == tb.node
           S == {j \in DOMAIN nd : nd[j].key = k}
           i == InChain(tb, k, S)
<1>1. /\ Vector(nd) /\ DOMAIN nd = 1 .. Len(nd) /\ Len(nd) \in Nat /\ (nd = <<>> <=> Len(nd) = 0)
      /\ Linked(nd)
  BY SeqFacts DEF TableOk, Framed, NodesOk
<1>2. ASSUME k \in Key PROVE i = NodeOf(nd, hash, k)
  <2>1. CASE nd = <<>>
    BY <2>1 DEF InChain, NodeOf
  <2>2. CASE nd # <<>>
    <3>1. Home(Len(nd), hash, k) \in DOMAIN nd
      BY <1>1, <1>2, <2>2, HomeIn
    <3>2. i = Chase(nd, S)[Home(Len(nd), hash, k)]
      BY <2>2 DEF InChain, Main, Home
    <3>3. i = First(To(nd), Home(Len(nd), hash, k), S)
      BY <1>1, <3>1, <3>2, ChaseFirst
    <3> QED
      BY <2>2, <3>3 DEF NodeOf
  <2> QED
    BY <2>1, <2>2
<1>3. FindIndex(tb, k) = IF k = Nil THEN 0 ELSE IF InArray(tb, k) THEN k
                         ELSE IF i = 0 THEN -1 ELSE Len(tb.array) + i
  BY DEF FindIndex
<1> HIDE DEF i
<1> QED
  BY <1>2, <1>3 DEF Find

(* It is a natural number, if the key is found.                              *)
LEMMA FindIn ==
  ASSUME NEW hf \in [Key -> Nat], NEW tb, TableOk(tb, hf), NEW k \in Key \cup {Nil}, Find(tb, hf, k) # -1
  PROVE  Find(tb, hf, k) \in Nat
<1>1. /\ tb \in TableType /\ Len(tb.array) \in Nat /\ NodesOk(tb.node, hf) /\ DOMAIN tb.node = 1 .. Len(tb.node)
      /\ Len(tb.node) \in Nat
  BY SeqFacts DEF TableOk, Framed
<1>2. k # Nil => NodeOf(tb.node, hf, k) \in DOMAIN tb.node \cup {0}
  BY <1>1, NodeOfIn
<1>3. InArray(tb, k) => k \in Nat
  BY Numbers DEF InArray
<1> QED
  BY <1>1, <1>2, <1>3 DEF Find

(* The positions with a value, counted over both parts.                      *)
LEMMA AheadIs ==
  ASSUME NEW tb, NEW hf, TableOk(tb, hf)
  PROVE  /\ Len(tb.array) \in Nat /\ Len(tb.node) \in Nat
         /\ \A p \in Nat : Ahead(tb, p) = {i \in Ahead(tb, 0) : i > p}
         /\ \A i \in Ahead(tb, 0) : i \in Nat \ {0}
         /\ \A i \in Ahead(tb, 0) :
              \/ i \in DOMAIN tb.array /\ tb.array[i] # Nil /\ KeyAt(tb, i) = i
              \/ \E j \in DOMAIN tb.node : /\ i = Len(tb.array) + j /\ tb.node[j].val # Nil
                                           /\ KeyAt(tb, i) = tb.node[j].key
         /\ \A i \in DOMAIN tb.array : tb.array[i] # Nil => i \in Ahead(tb, 0) /\ KeyAt(tb, i) = i
         /\ \A j \in DOMAIN tb.node : tb.node[j].val # Nil =>
              Len(tb.array) + j \in Ahead(tb, 0) /\ KeyAt(tb, Len(tb.array) + j) = tb.node[j].key
<1>1. PICK N \in Nat : N = Len(tb.array) /\ DOMAIN tb.array = 1 .. N
  BY SeqFacts DEF TableOk, Framed
<1>2. PICK M \in Nat : M = Len(tb.node) /\ DOMAIN tb.node = 1 .. M
  BY SeqFacts DEF TableOk, Framed
<1> DEFINE full(i) == IF i <= N THEN tb.array[i] # Nil ELSE tb.node[i - N].val # Nil
<1>3. \A p \in Nat : Ahead(tb, p) = {i \in p + 1 .. N + M : full(i)}
  BY <1>1, <1>2 DEF Ahead
<1>4. \A i : KeyAt(tb, i) = IF i <= N THEN i ELSE tb.node[i - N].key
  BY <1>1 DEF KeyAt
<1>5. Ahead(tb, 0) = {i \in 1 .. N + M : full(i)}
  BY <1>3
<1>6. \A p \in Nat : Ahead(tb, p) = {i \in Ahead(tb, 0) : i > p}
  <2> TAKE p \in Nat
  <2> HIDE DEF full
  <2>1. \A i : i \in p + 1 .. N + M <=> i \in 1 .. N + M /\ i > p
    OBVIOUS
  <2> QED
    BY <1>3, <1>5, <2>1
<1>7. ASSUME NEW i \in Ahead(tb, 0)
      PROVE  \/ i \in DOMAIN tb.array /\ tb.array[i] # Nil /\ KeyAt(tb, i) = i
             \/ \E j \in DOMAIN tb.node : /\ i = N + j /\ tb.node[j].val # Nil
                                          /\ KeyAt(tb, i) = tb.node[j].key
  <2>1. i \in 1 .. N + M /\ full(i)
    BY <1>5
  <2>2. CASE i <= N
    BY <1>1, <1>4, <2>1, <2>2
  <2>3. CASE ~(i <= N)
    <3>1. PICK j \in 1 .. M : j = i - N
      BY <2>1, <2>3
    <3>2. i = N + j
      BY <2>1, <3>1
    <3> QED
      BY <1>2, <1>4, <2>1, <2>3, <3>1, <3>2
  <2> QED
    BY <2>2, <2>3
<1>8. ASSUME NEW i \in DOMAIN tb.array, tb.array[i] # Nil
      PROVE  i \in Ahead(tb, 0) /\ KeyAt(tb, i) = i
  BY <1>1, <1>4, <1>5, <1>8
<1>9. ASSUME NEW j \in DOMAIN tb.node, tb.node[j].val # Nil
      PROVE  N + j \in Ahead(tb, 0) /\ KeyAt(tb, N + j) = tb.node[j].key
  <2>1. PICK i \in 1 .. N + M : i = N + j /\ ~(i <= N) /\ i - N = j
    BY <1>2
  <2>2. full(i) /\ KeyAt(tb, i) = tb.node[j].key
    BY <1>4, <1>9, <2>1
  <2> QED
    BY <1>5, <2>1, <2>2
<1>10. \A i \in Ahead(tb, 0) : i \in Nat \ {0}
  BY <1>5
<1> QED
  BY <1>1, <1>2, <1>6, <1>7, <1>8, <1>9, <1>10

(* A key that has a value is found where it is.                              *)
LEMMA FindValued ==
  ASSUME NEW hf \in [Key -> Nat], NEW tb, TableOk(tb, hf), NEW i \in Ahead(tb, 0)
  PROVE  KeyAt(tb, i) \in Key /\ Held(tb, KeyAt(tb, i)) /\ Find(tb, hf, KeyAt(tb, i)) = i
<1>1. CASE i \in DOMAIN tb.array /\ tb.array[i] # Nil /\ KeyAt(tb, i) = i
  <2>1. i \in Key /\ tb.array[i] \in Val /\ InArray(tb, i) /\ Entry(tb, i, tb.array[i])
    BY <1>1, EntryOfArray
  <2> QED
    BY <1>1, <2>1, KeyFacts DEF Held, Find
<1>2. CASE \E j \in DOMAIN tb.node : /\ i = Len(tb.array) + j /\ tb.node[j].val # Nil
                                     /\ KeyAt(tb, i) = tb.node[j].key
  <2>1. PICK j \in DOMAIN tb.node : /\ i = Len(tb.array) + j /\ tb.node[j].val # Nil
                                    /\ KeyAt(tb, i) = tb.node[j].key
    BY <1>2
  <2>2. PICK k : k = tb.node[j].key
    OBVIOUS
  <2>3. /\ k \in Key /\ tb.node[j].val \in Val /\ ~tb.node[j].dead
        /\ ~InArray(tb, k) /\ Entry(tb, k, tb.node[j].val)
    BY <2>1, <2>2, EntryOfNode
  <2> DEFINE nd == tb.node
             S == {m \in DOMAIN nd : nd[m].key = k}
             h == Home(Len(nd), hf, k)
  <2>4. /\ Linked(nd) /\ Keyed(nd) /\ Homed(nd, hf) /\ Vector(nd) /\ DOMAIN nd = 1 .. Len(nd)
        /\ Len(nd) \in Nat /\ (nd = <<>> <=> Len(nd) = 0)
    BY SeqFacts DEF TableOk, Framed, NodesOk
  <2>5. nd # <<>> /\ h \in DOMAIN nd
    BY <2>3, <2>4, HomeIn
  <2>6. Leads(To(nd), h, j) /\ j \in S
    BY <2>2, <2>3, <2>4, KeyFacts DEF Homed, AtHome
  <2>7. \A m \in S : Leads(To(nd), j, m)
    BY <2>2, <2>3, <2>4, KeyFacts, LeadsSelf DEF Keyed
  <2>8. h \in DOMAIN To(nd) /\ Links(To(nd))
    BY <2>4, <2>5, ToIs DEF Linked
  <2>9. First(To(nd), h, S) = j
    <3>1. PICK T : T = S
      OBVIOUS
    <3>2. j \in Met(To(nd), h, T) /\ \A m \in Met(To(nd), h, T) : Leads(To(nd), j, m)
      BY <2>6, <2>7, <3>1 DEF Met
    <3> HIDE DEF S, h, nd
    <3>3. First(To(nd), h, T) = j
      BY <2>8, <3>2, FirstBy
    <3> QED
      BY <3>1, <3>3
  <2>10. NodeOf(nd, hf, k) = j /\ j # 0
    BY <2>4, <2>5, <2>9 DEF NodeOf
  <2>11. k # Nil
    BY <2>3, KeyFacts
  <2> QED
    BY <2>1, <2>2, <2>3, <2>10, <2>11 DEF Held, Find
<1> QED
  BY <1>1, <1>2, AheadIs

(* Every key that has a value is at a position that holds one.               *)
LEMMA HeldAhead ==
  ASSUME NEW hf \in [Key -> Nat], NEW tb, TableOk(tb, hf), NEW k \in Key, Held(tb, k)
  PROVE  \E i \in Ahead(tb, 0) : KeyAt(tb, i) = k
<1>1. tb \in TableType
  BY DEF TableOk, Framed
<1>2. CASE InArray(tb, k)
  <2>1. k \in DOMAIN tb.array /\ tb.array[k] # Nil
    BY <1>1, <1>2, InArrayIs, KeyFacts DEF Held, Entry
  <2> QED
    BY <2>1, AheadIs
<1>3. CASE ~InArray(tb, k)
  <2>1. PICK j \in DOMAIN tb.node : tb.node[j].key = k /\ tb.node[j].val # Nil
    BY <1>3, KeyFacts DEF Held, Entry, Bears
  <2> QED
    BY <2>1, AheadIs
<1> QED
  BY <1>2, <1>3

(* Where a traversal is, and what it has seen: exactly what holds a value up *)
(* to there.                                                                 *)
WalkHolds(tb, hf, w) ==
  w.on =>
    /\ w.key \in Key \cup {Nil} /\ Find(tb, hf, w.key) # -1
    /\ \A i \in Ahead(tb, 0) : KeyAt(tb, i) \in w.seen <=> i <= Find(tb, hf, w.key)

WalkInv == TableInv /\ WalkHolds(t, hash, walk)

(* What a step that a traversal lives through does to the table.             *)
Gently(tb, r) ==
  /\ r \in TableType /\ Fades(tb.node, r.node) /\ Len(r.array) = Len(tb.array)
  /\ \A i \in DOMAIN r.array : r.array[i] # Nil => tb.array[i] # Nil
  /\ \A j \in DOMAIN r.node : r.node[j].val # Nil => tb.node[j].val # Nil

(* Such a step leaves every key where it was.                                *)
LEMMA GentlyFinds ==
  ASSUME NEW hf \in [Key -> Nat], NEW tb, TableOk(tb, hf), NEW r, TableOk(r, hf), Gently(tb, r)
  PROVE  /\ \A k \in Key \cup {Nil} : Find(r, hf, k) = Find(tb, hf, k)
         /\ \A i \in Ahead(r, 0) : i \in Ahead(tb, 0) /\ KeyAt(r, i) = KeyAt(tb, i)
<1>1. /\ tb \in TableType /\ r \in TableType /\ NodesOk(tb.node, hf) /\ Fades(tb.node, r.node)
      /\ Len(r.array) = Len(tb.array)
  BY DEF TableOk, Framed, Gently
<1>2. /\ To(r.node) = To(tb.node) /\ DOMAIN r.node = DOMAIN tb.node /\ Len(r.node) = Len(tb.node)
      /\ DOMAIN r.array = DOMAIN tb.array
      /\ \A i \in DOMAIN tb.node : r.node[i].key = tb.node[i].key
  <2>1. To(r.node) = To(tb.node) /\ DOMAIN r.node = DOMAIN tb.node
    BY <1>1, FadesOk
  <2> QED
    BY <1>1, <2>1, SeqFacts DEF Fades
<1>3. r.node = <<>> <=> tb.node = <<>>
  BY <1>1, <1>2, SeqFacts
<1>4. \A k : InArray(r, k) <=> InArray(tb, k)
  BY <1>1 DEF InArray
<1>5. ASSUME NEW k PROVE NodeOf(r.node, hf, k) = NodeOf(tb.node, hf, k)
  <2>1. {j \in DOMAIN r.node : r.node[j].key = k} = {j \in DOMAIN tb.node : tb.node[j].key = k}
    BY <1>2
  <2> QED
    BY <1>2, <1>3, <2>1 DEF NodeOf
<1>6. \A k \in Key \cup {Nil} : Find(r, hf, k) = Find(tb, hf, k)
  BY <1>1, <1>4, <1>5 DEF Find
<1>7. ASSUME NEW i \in Ahead(r, 0) PROVE i \in Ahead(tb, 0) /\ KeyAt(r, i) = KeyAt(tb, i)
  <2>1. CASE i \in DOMAIN r.array /\ r.array[i] # Nil /\ KeyAt(r, i) = i
    <3>1. i \in DOMAIN tb.array /\ tb.array[i] # Nil
      BY <1>2, <2>1 DEF Gently
    <3> QED
      BY <2>1, <3>1, AheadIs
  <2>2. CASE \E j \in DOMAIN r.node : /\ i = Len(r.array) + j /\ r.node[j].val # Nil
                                      /\ KeyAt(r, i) = r.node[j].key
    <3>1. PICK j \in DOMAIN r.node : /\ i = Len(r.array) + j /\ r.node[j].val # Nil
                                     /\ KeyAt(r, i) = r.node[j].key
      BY <2>2
    <3>2. j \in DOMAIN tb.node /\ tb.node[j].val # Nil /\ tb.node[j].key = r.node[j].key
      BY <1>2, <3>1 DEF Gently
    <3> QED
      BY <1>1, <3>1, <3>2, AheadIs
  <2> QED
    BY <2>1, <2>2, AheadIs
<1> QED
  BY <1>6, <1>7

(* So the traversal is where it was.                                         *)
LEMMA GentlyWalks ==
  ASSUME NEW hf \in [Key -> Nat], NEW tb, TableOk(tb, hf), NEW r, TableOk(r, hf), Gently(tb, r),
         NEW w, WalkHolds(tb, hf, w)
  PROVE  WalkHolds(r, hf, w)
BY GentlyFinds DEF WalkHolds

(* A step of the traversal goes to the first value ahead.                    *)
LEMMA StepWalks ==
  ASSUME hash \in [Key -> Nat], TableOk(t, hash), WalkHolds(t, hash, walk), WalkStep
  PROVE  WalkHolds(t, hash, walk')
<1>1. /\ walk.on /\ walk.key \in Key \cup {Nil} /\ Find(t, hash, walk.key) # -1
      /\ \A i \in Ahead(t, 0) : KeyAt(t, i) \in walk.seen <=> i <= Find(t, hash, walk.key)
  BY DEF WalkHolds, WalkStep
<1>2. PICK p \in Nat : p = Find(t, hash, walk.key)
  BY <1>1, FindIn
<1>3. FindIndex(t, walk.key) = p
  BY <1>1, <1>2, FindIs
<1>4. Ahead(t, p) = {i \in Ahead(t, 0) : i > p} /\ \A i \in Ahead(t, 0) : i \in Nat
  BY <1>2, AheadIs
<1>5. CASE Ahead(t, p) = {}
  <2>1. walk' = NoWalk
    BY <1>3, <1>5 DEF WalkStep
  <2> QED
    BY <2>1 DEF WalkHolds, NoWalk
<1>6. CASE Ahead(t, p) # {}
  <2>1. PICK A : A = Ahead(t, p)
    OBVIOUS
  <2>2. A \in SUBSET Nat /\ A # {}
    BY <1>4, <1>6, <2>1
  <2>3. \E m \in A : \A n \in A : m <= n
    BY <2>2, Least
  <2>4. PICK m : m = Min(A)
    OBVIOUS
  <2>5. m \in A /\ \A n \in A : m <= n
    BY <2>3, <2>4 DEF Min
  <2>6. m \in Ahead(t, 0) /\ m > p
    BY <1>4, <2>1, <2>5
  <2>7. PICK k : k = KeyAt(t, m)
    OBVIOUS
  <2>8. k \in Key /\ Find(t, hash, k) = m /\ m \in Nat
    BY <1>4, <2>6, <2>7, FindValued
  <2>9. walk' = [on |-> TRUE, key |-> k, seen |-> walk.seen \cup {k}]
    BY <1>3, <1>6, <2>1, <2>4, <2>7 DEF WalkStep
  <2>10. ASSUME NEW i \in Ahead(t, 0)
         PROVE  KeyAt(t, i) \in walk.seen \cup {k} <=> i <= m
    <3>1. KeyAt(t, i) = k <=> i = m
      BY <2>7, <2>8, FindValued
    <3>2. KeyAt(t, i) \in walk.seen <=> i <= p
      BY <1>1, <1>2
    <3>3. i \in Nat /\ (i > p => i \in A)
      BY <1>4, <2>1
    <3>4. i > p => m <= i
      BY <2>5, <3>3
    <3> QED
      BY <1>2, <2>6, <2>8, <3>1, <3>2, <3>3, <3>4
  <2> QED
    BY <2>8, <2>9, <2>10 DEF WalkHolds
<1> QED
  BY <1>5, <1>6

(* A traversal starts before everything.                                     *)
LEMMA StartWalks ==
  ASSUME TableOk(t, hash), StartWalk
  PROVE  WalkHolds(t, hash, walk')
<1>1. walk' = [on |-> TRUE, key |-> Nil, seen |-> {}]
  BY DEF StartWalk
<1>2. Find(t, hash, Nil) = 0
  BY DEF Find
<1>3. \A i \in Ahead(t, 0) : ~(i <= 0)
  BY AheadIs
<1> QED
  BY <1>1, <1>2, <1>3 DEF WalkHolds

(* The assignments and the collector's steps that a traversal lives through. *)
LEMMA GentleIs ==
  ASSUME TableInv, Gentle
  PROVE  TableHolds(t', hash', map') /\ hash' = hash /\ Gently(t, t')
<1>1. TableOk(t, hash) /\ hash \in Hashes /\ hash \in [Key -> Nat] /\ t \in TableType /\ NodesOk(t.node, hash)
  BY HashIs DEF TableInv, TableHolds, TableOk, Framed
<1>2. ASSUME NEW k \in LiveKeys(t), NEW v \in Val \cup {Nil}, Set(k, v)
      PROVE  TableHolds(t', hash', map') /\ hash' = hash /\ Gently(t, t')
  <2>1. k \in Key /\ Get(t, k) # Nil /\ Held(t, k)
    BY <1>1, HeldIs DEF LiveKeys
  <2>2. PICK r : r = Assign(t, k, v)
    OBVIOUS
  <2>3. t' = r /\ hash' = hash
    BY <1>2, <2>2 DEF Set
  <2>4. TableHolds(t', hash', map')
    BY <1>2, <2>1, SetKeeps
  <2>5. CASE InArray(t, k)
    <3>1. k \in DOMAIN t.array /\ t.array[k] # Nil
      BY <1>1, <2>1, <2>5, InArrayIs DEF Get
    <3>2. r = [t EXCEPT !.array[k] = v]
      BY <2>2, <2>5 DEF Assign
    <3>3. r.node = t.node /\ Len(r.array) = Len(t.array) /\ TableOk(r, hash)
      BY <1>1, <2>1, <2>5, <3>2, ArrayWrite DEF Shaped
    <3>4. r \in TableType /\ DOMAIN r.array = DOMAIN t.array
      BY <1>1, <3>3, SeqFacts DEF TableOk, Framed
    <3>5. \A i \in DOMAIN t.array : i # k => r.array[i] = t.array[i]
      BY <1>1, <3>2 DEF TableType
    <3>6. Fades(t.node, r.node)
      BY <1>1, <3>3, FadesSelf
    <3>7. Gently(t, r)
      BY <3>1, <3>3, <3>4, <3>5, <3>6 DEF Gently
    <3> QED
      BY <2>3, <2>4, <3>7
  <2>6. CASE ~InArray(t, k)
    <3>1. Search(t, k) # 0 /\ Get(t, k) = t.node[Search(t, k)].val
      BY <2>1, <2>6 DEF Get
    <3>2. TableOk(r, hash) /\ Holds(t, r, k, v) /\ Faded(t, r)
      BY <1>1, <2>1, <2>2, <2>6, <3>1, NodeWrite
    <3>3. PICK j \in DOMAIN t.node : j = Search(t, k) /\ t.node[j].val # Nil
      BY <1>1, <2>1, <3>1, SearchIs
    <3>4. r = [t EXCEPT !.node[j].val = v]
      BY <2>2, <2>6, <3>1, <3>3 DEF Assign
    <3>5. DOMAIN r.node = DOMAIN t.node /\ DOMAIN r.array = DOMAIN t.array
      BY <1>1, <3>2, FadedOk
    <3>6. r.array = t.array /\ \A i \in DOMAIN t.node : i # j => r.node[i] = t.node[i]
      BY <1>1, <3>4 DEF TableType
    <3>7. Gently(t, r)
      BY <3>2, <3>3, <3>5, <3>6 DEF Gently, Faded
    <3> QED
      BY <2>3, <2>4, <3>7
  <2> QED
    BY <2>5, <2>6
<1>3. CASE Length
  <2>1. TableHolds(t', hash', map') /\ t'.node = t.node /\ t'.array = t.array /\ hash' = hash
    BY <1>3, LengthKeeps DEF Length
  <2>2. t' \in TableType
    BY <2>1 DEF TableHolds, TableOk, Framed
  <2> QED
    BY <1>1, <2>1, <2>2, FadesSelf DEF Gently
<1>4. CASE Traverse
  <2>1. TableHolds(t', hash', map') /\ Faded(t, t') /\ t'.array = t.array /\ hash' = hash
    BY <1>4, TraverseKeeps DEF Traverse
  <2>2. PICK r : r = t'
    OBVIOUS
  <2>3. DOMAIN r.node = DOMAIN t.node
    BY <1>1, <2>1, <2>2, FadedOk
  <2>4. r.node = Removed(t.node)
    BY <1>1, <1>4, <2>2 DEF Traverse, TableType
  <2>5. \A i \in DOMAIN t.node : t.node[i] \in Node
    BY <1>1, SeqFacts
  <2>6. \A i \in DOMAIN t.node : r.node[i].val = t.node[i].val
    BY <2>4, <2>5, RemoveEntryIs DEF Removed
  <2>7. Gently(t, r)
    BY <2>1, <2>2, <2>3, <2>6 DEF Gently, Faded
  <2> QED
    BY <2>1, <2>2, <2>7
<1>5. ASSUME NEW S \in SUBSET LiveKeys(t), ClearWeak(S)
      PROVE  TableHolds(t', hash', map') /\ hash' = hash /\ Gently(t, t')
  <2>1. S \in SUBSET Key
    BY DEF LiveKeys
  <2>2. TableHolds(t', hash', map') /\ hash' = hash
    BY <1>5, <2>1, ClearWeakKeeps DEF ClearWeak
  <2>3. PICK r : r = Cleared(S)
    OBVIOUS
  <2>4. t' = r
    BY <1>5, <2>3 DEF ClearWeak
  <2>5. Faded(t, r)
    BY <1>1, <2>1, <2>3, ClearedIs
  <2>6. DOMAIN r.node = DOMAIN t.node /\ DOMAIN r.array = DOMAIN t.array
    BY <1>1, <2>5, FadedOk
  <2>7. \A i \in DOMAIN t.array : r.array[i] # Nil => t.array[i] # Nil
    <3>1. r.array = [i \in DOMAIN t.array |-> IF i \in S THEN Nil ELSE t.array[i]]
      BY <1>1, <2>3 DEF Cleared, TableType
    <3> QED
      BY <3>1
  <2>8. \A i \in DOMAIN t.node : r.node[i].val # Nil => t.node[i].val # Nil
    <3>1. r.node = [i \in DOMAIN t.node |-> IF t.node[i].val # Nil /\ t.node[i].key \in S
                                            THEN RemoveEntry([t.node[i] EXCEPT !.val = Nil]) ELSE t.node[i]]
      BY <1>1, <2>3 DEF Cleared, TableType
    <3>2. \A i \in DOMAIN t.node : t.node[i].val = Nil => r.node[i] = t.node[i]
      BY <3>1
    <3> QED
      BY <3>2
  <2>9. Gently(t, r)
    BY <2>5, <2>6, <2>7, <2>8 DEF Gently, Faded
  <2> QED
    BY <2>2, <2>4, <2>9
<1> QED
  BY <1>2, <1>3, <1>4, <1>5 DEF Gentle

(* Every step keeps the traversal in its place.                              *)
LEMMA WalkNextKeeps ==
  ASSUME WalkInv, WalkNext
  PROVE  TableHolds(t', hash', map') /\ WalkHolds(t', hash', walk')
<1>1. /\ TableInv /\ TableHolds(t, hash, map) /\ TableOk(t, hash) /\ hash \in [Key -> Nat]
      /\ WalkHolds(t, hash, walk)
  BY HashIs DEF WalkInv, TableInv, TableHolds
<1>2. CASE Gentle /\ UNCHANGED walk
  <2>1. TableHolds(t', hash', map') /\ hash' = hash /\ Gently(t, t')
    BY <1>1, <1>2, GentleIs
  <2>2. PICK r : r = t'
    OBVIOUS
  <2>3. TableOk(r, hash) /\ Gently(t, r)
    BY <2>1, <2>2 DEF TableHolds
  <2>4. PICK w : w = walk
    OBVIOUS
  <2>5. WalkHolds(r, hash, w)
    BY <1>1, <2>3, <2>4, GentlyWalks
  <2> QED
    BY <1>2, <2>1, <2>2, <2>4, <2>5
<1>3. CASE Next /\ walk' = NoWalk
  <2>1. WalkHolds(t', hash', walk')
    BY <1>3 DEF WalkHolds, NoWalk
  <2> QED
    BY <1>1, <1>3, <2>1, NextKeeps
<1>4. CASE StartWalk
  <2>1. t' = t /\ hash' = hash /\ map' = map
    BY <1>4 DEF StartWalk, vars
  <2>2. WalkHolds(t, hash, walk')
    BY <1>1, <1>4, StartWalks
  <2> QED
    BY <1>1, <2>1, <2>2
<1>5. CASE WalkStep
  <2>1. t' = t /\ hash' = hash /\ map' = map
    BY <1>5 DEF WalkStep, vars
  <2>2. WalkHolds(t, hash, walk')
    BY <1>1, <1>5, StepWalks
  <2> QED
    BY <1>1, <2>1, <2>2
<1> QED
  BY <1>2, <1>3, <1>4, <1>5 DEF WalkNext

(* What is ahead is what has not been seen.                                  *)
LEMMA WalkGives == ASSUME WalkInv PROVE TraversalExact
<1>1. TableOk(t, hash) /\ hash \in [Key -> Nat] /\ WalkHolds(t, hash, walk)
  BY HashIs DEF WalkInv, TableInv, TableHolds
<1> SUFFICES ASSUME walk.on
             PROVE  LET p == FindIndex(t, walk.key)
                    IN  p # -1 /\ {KeyAt(t, i) : i \in Ahead(t, p)} = LiveKeys(t) \ walk.seen
  BY DEF TraversalExact
<1>2. /\ walk.key \in Key \cup {Nil} /\ Find(t, hash, walk.key) # -1
      /\ \A i \in Ahead(t, 0) : KeyAt(t, i) \in walk.seen <=> i <= Find(t, hash, walk.key)
  BY <1>1 DEF WalkHolds
<1>3. PICK p \in Nat : p = Find(t, hash, walk.key)
  BY <1>1, <1>2, FindIn
<1>4. FindIndex(t, walk.key) = p
  BY <1>1, <1>2, <1>3, FindIs
<1>5. Ahead(t, p) = {i \in Ahead(t, 0) : i > p} /\ \A i \in Ahead(t, 0) : i \in Nat
  BY <1>1, <1>3, AheadIs
<1>6. LiveKeys(t) = {k \in Key : Held(t, k)}
  BY <1>1, HeldIs
<1>7. \A i \in Ahead(t, p) : KeyAt(t, i) \in LiveKeys(t) /\ KeyAt(t, i) \notin walk.seen
  <2> TAKE i \in Ahead(t, p)
  <2>1. i \in Ahead(t, 0) /\ ~(i <= p)
    BY <1>3, <1>5
  <2>2. KeyAt(t, i) \in Key /\ Held(t, KeyAt(t, i))
    BY <1>1, <2>1, FindValued
  <2> QED
    BY <1>2, <1>3, <1>6, <2>1, <2>2
<1>8. \A k \in LiveKeys(t) : k \notin walk.seen => \E i \in Ahead(t, p) : KeyAt(t, i) = k
  <2> SUFFICES ASSUME NEW k \in LiveKeys(t), k \notin walk.seen
               PROVE  \E i \in Ahead(t, p) : KeyAt(t, i) = k
    OBVIOUS
  <2>1. k \in Key /\ Held(t, k)
    BY <1>6
  <2>2. PICK i \in Ahead(t, 0) : KeyAt(t, i) = k
    BY <1>1, <2>1, HeldAhead
  <2>3. ~(i <= p) /\ i \in Nat
    BY <1>2, <1>3, <1>5, <2>2
  <2>4. i > p
    BY <1>3, <2>3
  <2> QED
    BY <1>5, <2>2, <2>4
<1>9. {KeyAt(t, i) : i \in Ahead(t, p)} = LiveKeys(t) \ walk.seen
  BY <1>7, <1>8
<1> QED
  BY <1>3, <1>4, <1>9

(* The same with a traversal.                                                *)
THEOREM WalkInvariant == WalkSpec => []WalkInv
<1>1. WalkInit => WalkInv
  <2> SUFFICES ASSUME WalkInit PROVE WalkInv
    OBVIOUS
  <2>1. TableInv
    BY InitOk DEF WalkInit
  <2> QED
    BY <2>1 DEF WalkInit, WalkInv, WalkHolds, NoWalk
<1>2. ASSUME WalkInv, [WalkNext]_<<vars, walk>> PROVE WalkInv'
  <2>1. CASE WalkNext
    BY <1>2, <2>1, WalkNextKeeps DEF WalkInv, TableInv
  <2>2. CASE UNCHANGED <<vars, walk>>
    BY <1>2, <2>2 DEF WalkInv, TableInv, vars
  <2> QED
    BY <1>2, <2>1, <2>2
<1> QED
  BY <1>1, <1>2, PTL DEF WalkSpec

(* A traversal is only a reader: with it the table takes the steps that it    *)
(* takes without it, so that what is proved of Spec holds of WalkSpec.       *)
THEOREM TraversalReads == WalkSpec => Spec
<1>1. WalkInit => Init
  BY DEF WalkInit
<1>2. ASSUME [WalkNext]_<<vars, walk>> PROVE [Next]_vars
  <2>1. CASE Gentle /\ UNCHANGED walk
    <3>1. LiveKeys(t) \subseteq Key
      BY DEF LiveKeys
    <3> QED
      BY <2>1, <3>1 DEF Gentle, Next
  <2>2. CASE Next /\ walk' = NoWalk
    BY <2>2
  <2>3. CASE StartWalk
    BY <2>3 DEF StartWalk
  <2>4. CASE WalkStep
    BY <2>4 DEF WalkStep
  <2>5. CASE UNCHANGED <<vars, walk>>
    BY <2>5
  <2> QED
    BY <1>2, <2>1, <2>2, <2>3, <2>4, <2>5 DEF WalkNext
<1> QED
  BY <1>1, <1>2, PTL DEF WalkSpec, Spec

(* A table is well formed in every state; lastfree never runs past the nodes. *)
THEOREM TablesTyped == Spec => []TypeOK
<1>1. TableInv => TypeOK
  BY InvGives
<1> QED
  BY <1>1, TablesInvariant, PTL

(* A migration finds room for whatever it moves, and for the key that asked   *)
(* for it: the assertion at the end of resize is never wrong.                *)
THEOREM RehashesOnce == Spec => []NoRehashInRehash
<1>1. TableInv => NoRehashInRehash
  BY InvGives
<1> QED
  BY <1>1, TablesInvariant, PTL

(* The length operator returns a boundary, by whichever of its ways: the hint, *)
(* a neighbour of it, the end of the array part, the binary search.          *)
THEOREM LengthIsBoundary == Spec => []BoundaryRight
<1>1. TableInv => BoundaryRight
  BY InvGives
<1> QED
  BY <1>1, TablesInvariant, PTL

(* A lookup returns the value assigned last, or nil, wherever assignments,    *)
(* rehashes, clears, clones and the collector have left the key.             *)
THEOREM TablesKeepMap == Spec => []MapKept
<1>1. TableInv => MapKept
  BY InvGives
<1> QED
  BY <1>1, TablesInvariant, PTL

(* A traversal that only sees changed and removed fields visits every key     *)
(* that stays, once, although it knows nothing but its last key.             *)
THEOREM TraversalsExact == WalkSpec => []TraversalExact
<1>1. WalkInv => TraversalExact
  BY WalkGives
<1> QED
  BY <1>1, WalkInvariant, PTL
=============================================================================
