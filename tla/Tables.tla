------------------------------- MODULE Tables -------------------------------
(***************************************************************************)
(* A Luau table: the array part, which holds the values of the keys 1, 2,  *)
(* ..., the hash part, in which the nodes that hold colliding keys are     *)
(* chained by relative distances, and the moves between the two when one   *)
(* of them is full.                                                        *)
(*                                                                         *)
(* Positions count from 1 here and from 0 in the code.                     *)
(***************************************************************************)
EXTENDS Integers, Sequences, FiniteSets, SequencesExt

CONSTANTS
  MaxIndex,  \* bound of the model: the largest number used as a key
  Object,    \* the other keys; all of them are collectable
  Val,
  Nil,
  Hashes,    \* hash functions, of which the program has one
  MaxSize,   \* MAXSIZE; what would need more nodes (table overflow) is left out
  Rooms      \* what a table is made with: a length of the array part and how
             \* many keys the hash part is to have room for

Index == 1 .. MaxIndex
Key == Index \cup Object

PowersOfTwo == {p \in 1 .. MaxSize : \E i \in 0 .. 26 : p = 2 ^ i}

ASSUME TablesAssumption ==
  /\ MaxIndex \in Nat
  /\ Nil \notin Val \cup Key
  /\ \A o \in Object \cup {Nil} : o \notin Int
  /\ Hashes \subseteq [Key -> Nat]
  /\ MaxSize \in Nat
  /\ IsFiniteSet(Object) /\ \E p \in PowersOfTwo : Cardinality(Key) <= p
  /\ Rooms \subseteq Nat \X Nat /\ \A r \in Rooms : \E p \in PowersOfTwo : r[2] <= p

VARIABLES
  t,     \* the table: array, node, lastfree (with aboundary in the same
         \* place) and whether a rehash ran inside a rehash
  hash,  \* the hash function
  map    \* what the table is to hold: the value assigned last to each key

vars == <<t, hash, map>>
-----------------------------------------------------------------------------
FreeNode == [key |-> Nil, dead |-> FALSE, val |-> Nil, next |-> 0]

Main(tb, k) == (hash[k] % Len(tb.node)) + 1

(* The first of the positions sought to which the links lead from each      *)
(* position, or 0; and from the main position of a key.                      *)
Chase(nodes, sought) ==
  LET from[i \in DOMAIN nodes] ==
        IF i \in sought THEN i
        ELSE IF nodes[i].next = 0 THEN 0
        ELSE from[i + nodes[i].next]
  IN  from

InChain(tb, k, sought) ==
  IF tb.node = <<>> THEN 0 ELSE Chase(tb.node, sought)[Main(tb, k)]

Search(tb, k) ==
  InChain(tb, k, {i \in DOMAIN tb.node : tb.node[i].key = k /\ ~tb.node[i].dead})

InArray(tb, k) == k \in Index /\ k <= Len(tb.array)

Get(tb, k) ==
  IF InArray(tb, k) THEN tb.array[k]
  ELSE IF Search(tb, k) = 0 THEN Nil
  ELSE tb.node[Search(tb, k)].val

LiveKeys(tb) == {k \in Key : Get(tb, k) # Nil}
-----------------------------------------------------------------------------
(* The highest node without a key below lastfree, or 0. *)
FreePos(tb) ==
  LET free == {i \in 1 .. tb.lastfree : tb.node[i].key = Nil}
  IN  IF free = {} THEN 0 ELSE Max(free)

SetKey(n, k, v) == [n EXCEPT !.key = k, !.dead = FALSE, !.val = v]

(* Brent's variation.  The node that holds the key's main position by       *)
(* belonging to another chain gives way: it moves to the free node, its      *)
(* predecessor and its own link are corrected.  (A bug: its predecessor is   *)
(* forgotten.)                                                               *)
GiveWayUnlinked(tb, mp, free, k, v) ==
  [tb EXCEPT !.node[free] = [tb.node[mp] EXCEPT !.next = IF @ = 0 THEN 0 ELSE @ + mp - free],
             !.node[mp] = SetKey(FreeNode, k, v),
             !.lastfree = free - 1]

GiveWay(tb, mp, free, k, v) ==
  LET before == InChain(tb, tb.node[mp].key,
                        {i \in DOMAIN tb.node : i + tb.node[i].next = mp})
  IN  [tb EXCEPT !.node[before].next = free - before,
                 !.node[free] = [tb.node[mp] EXCEPT !.next = IF @ = 0 THEN 0 ELSE @ + mp - free],
                 !.node[mp] = SetKey(FreeNode, k, v),
                 !.lastfree = free - 1]

(* Otherwise the new key goes into the free node, second in the chain. *)
ChainAfter(tb, mp, free, k, v) ==
  [tb EXCEPT !.node[free] = [SetKey(FreeNode, k, v) EXCEPT !.next =
                               IF tb.node[mp].next = 0 THEN 0 ELSE mp + tb.node[mp].next - free],
             !.node[mp].next = free - mp,
             !.lastfree = free - 1]

(* newkey, where it needs no rehash: a main position without a value is     *)
(* taken with its link, whatever key it had.  (A bug: the key after the      *)
(* array goes to the hash part like any other.)                              *)
NeedsRehashWhenFull(tb, k) ==
  \/ tb.node = <<>>
  \/ tb.node[Main(tb, k)].val # Nil /\ FreePos(tb) = 0

NeedsRehash(tb, k) ==
  \/ k = Len(tb.array) + 1
  \/ tb.node = <<>>
  \/ tb.node[Main(tb, k)].val # Nil /\ FreePos(tb) = 0

Collides(tb, k, v) ==
  LET mp == Main(tb, k)
  IN  IF Main(tb, tb.node[mp].key) # mp THEN GiveWay(tb, mp, FreePos(tb), k, v)
      ELSE ChainAfter(tb, mp, FreePos(tb), k, v)

Place(tb, k, v) ==
  LET mp == Main(tb, k)
  IN  IF tb.node[mp].val = Nil THEN [tb EXCEPT !.node[mp] = SetKey(@, k, v)]
      ELSE Collides(tb, k, v)

(* arrayornewkey, in and after a resize, which should have made room. *)
Reinsert(tb, k, v) ==
  IF InArray(tb, k) THEN [tb EXCEPT !.array[k] = v]
  ELSE IF NeedsRehash(tb, k) THEN [tb EXCEPT !.nested = TRUE]
  ELSE Place(tb, k, v)
-----------------------------------------------------------------------------
Larger(n) == Min({p \in PowersOfTwo : p >= n})

(* The empty sequence stands for the dummynode. *)
NodeVector(n) == IF n = 0 THEN <<>> ELSE [i \in 1 .. Larger(n) |-> FreeNode]

(* luaH_new *)
New(narray, nhash) ==
  [array |-> [i \in 1 .. narray |-> Nil], node |-> NodeVector(nhash),
   lastfree |-> Len(NodeVector(nhash)), nested |-> FALSE]


(* Entries that have a value are inserted one after the other. *)
Inserting(tb, entries) ==
  LET upTo[n \in 0 .. Len(entries)] ==
        IF n = 0 THEN tb
        ELSE IF entries[n].val = Nil THEN upTo[n - 1]
        ELSE Reinsert(upTo[n - 1], entries[n].key, entries[n].val)
  IN  upTo

(* The array part takes the first nasize values; the values it loses are    *)
(* inserted from the first to the last, then those of the old nodes from     *)
(* the last to the first.  (A bug: lastfree is not reset.)                   *)
ResizeFrom(tb, nasize, nhsize, lastfree) ==
  LET kept == [i \in 1 .. nasize |-> IF i <= Len(tb.array) THEN tb.array[i] ELSE Nil]
      lost == [i \in DOMAIN tb.array |-> [key |-> i, val |-> IF i <= nasize THEN Nil ELSE tb.array[i]]]
      entries == lost \o Reverse(tb.node)
      new == [array |-> kept, node |-> NodeVector(nhsize), lastfree |-> lastfree,
              nested |-> tb.nested]
  IN  Inserting(new, entries)[Len(entries)]

ResizeKeepsFree(tb, nasize, nhsize) == ResizeFrom(tb, nasize, nhsize, tb.lastfree)
Resize(tb, nasize, nhsize) == ResizeFrom(tb, nasize, nhsize, Len(NodeVector(nhsize)))

(* The array must end before an absent key: the boundary that # returns is  *)
(* in the array part.                                                        *)
AdjustASize(tb, size, extra) ==
  LET taken(i) == \/ i = extra
                  \/ (tb.node # <<>> \/ size < Len(tb.array)) /\ i \in Index /\ Get(tb, i) # Nil
  IN  Min({s \in size .. size + MaxIndex + 1 : ~taken(s + 1)})

(* The array part gets the largest power of two of which more than half     *)
(* would be in use.                                                          *)
ComputeSizes(indices) ==
  LET below(p) == {i \in indices : i <= p}
      good == {p \in PowersOfTwo : /\ p \div 2 < Cardinality(indices)
                                   /\ below(p) # below(p \div 2) \/ (p = 1 /\ 1 \in indices)
                                   /\ Cardinality(below(p)) > p \div 2}
  IN  IF good = {} THEN 0 ELSE Max(good)

(* The sizes for the keys that are there and the one that finds no place.   *)
(* (A bug: that one is not counted.)                                         *)
RehashFor(tb, extra, keys) ==
  LET indices   == keys \cap Index
      nasize    == ComputeSizes(indices)
      nh        == Cardinality(keys) - Cardinality({i \in indices : i <= nasize})
      nadjusted == AdjustASize(tb, nasize, extra)
      aextra    == nadjusted - nasize
  IN  IF aextra = 0 THEN Resize(tb, nasize, nh)
      ELSE Resize(tb, AdjustASize(tb, nadjusted + aextra, extra), nh - aextra)

RehashForgetsKey(tb, extra) == RehashFor(tb, extra, LiveKeys(tb))
Rehash(tb, extra) == RehashFor(tb, extra, LiveKeys(tb) \cup {extra})

NewKey(tb, k, v) ==
  IF NeedsRehash(tb, k) THEN Reinsert(Rehash(tb, k), k, v) ELSE Place(tb, k, v)

Assign(tb, k, v) ==
  IF InArray(tb, k) THEN [tb EXCEPT !.array[k] = v]
  ELSE IF Search(tb, k) # 0 THEN [tb EXCEPT !.node[Search(tb, k)].val = v]
  ELSE NewKey(tb, k, v)
-----------------------------------------------------------------------------
(* luaH_getn: the boundary it returns, and the hint it keeps for the next   *)
(* call where lastfree is not needed any more.                               *)
Hinted(tb, b) == IF tb.lastfree <= 0 THEN [tb EXCEPT !.lastfree = -b] ELSE tb

Hint(tb) == IF tb.lastfree < 0 THEN -tb.lastfree ELSE Len(tb.array)

(* The binary search halves an interval that starts below a boundary, until *)
(* it has one position, which Len(tb.array) rounds are enough for.           *)
Halved(tb, span) ==
  LET half == span.rest \div 2
  IN  [base |-> IF tb.array[span.base + half + 1] = Nil THEN span.base ELSE span.base + half,
       rest |-> span.rest - half]

Halving(tb) ==
  LET after[n \in 0 .. Len(tb.array)] ==
        IF n = 0 THEN [base |-> 0, rest |-> Len(tb.array)] ELSE Halved(tb, after[n - 1])
  IN  after

BinarySearch(tb) ==
  LET base == Halving(tb)[Len(tb.array)].base
  IN  base + (IF tb.array[base + 1] = Nil THEN 0 ELSE 1)

GetN(tb) ==
  LET size == Len(tb.array)
      b    == Hint(tb)
      at(i) == tb.array[i] # Nil
      Found(n, new) == [n |-> n, tb |-> new]
  IN  IF b > 0 /\ at(size) /\ tb.node = <<>> THEN Found(size, tb)
      ELSE IF b > 0 /\ b < size /\ at(b) /\ ~at(b + 1) THEN Found(b, tb)
      ELSE IF b > 0 /\ b < size /\ ~at(b) /\ b >= 2 /\ at(b - 1) THEN Found(b - 1, Hinted(tb, b - 1))
      ELSE IF /\ b > 0 /\ ~(b < size /\ ~at(b)) /\ b + 1 < size /\ at(b + 1) /\ ~at(b + 2)
           THEN Found(b + 1, Hinted(tb, b + 1))
      ELSE IF size > 0 /\ ~at(size) THEN Found(BinarySearch(tb), Hinted(tb, BinarySearch(tb)))
      ELSE Found(size, tb)
-----------------------------------------------------------------------------
Init ==
  /\ \E r \in Rooms : t = New(r[1], r[2])
  /\ hash \in Hashes
  /\ map = [k \in Key |-> Nil]

(* A table is assigned to by luaH_set and its kin. *)
Set(k, v) ==
  /\ t' = Assign(t, k, v)
  /\ map' = [map EXCEPT ![k] = v]
  /\ UNCHANGED hash

(* A list constructor and table.move make the array part long enough for    *)
(* the values and write them into it.                                        *)
SetList(first, last, v) ==
  /\ first <= Len(t.array) + 1 /\ first <= last
  /\ LET grown == IF last <= Len(t.array) THEN t
                  ELSE Resize(t, AdjustASize(t, last, Nil), Len(t.node))
     IN  t' = [grown EXCEPT !.array = [i \in DOMAIN @ |-> IF i \in first .. last THEN v ELSE @[i]]]
  /\ map' = [k \in Key |-> IF k \in Index /\ k \in first .. last THEN v ELSE map[k]]
  /\ UNCHANGED hash

Length ==
  /\ t' = GetN(t).tb
  /\ UNCHANGED <<hash, map>>

Clear ==
  /\ t' = [Hinted(t, 0) EXCEPT !.array = [i \in DOMAIN @ |-> Nil],
                               !.node = [i \in DOMAIN @ |-> FreeNode],
                               !.lastfree = IF t.node = <<>> THEN @ ELSE Len(t.node)]
  /\ map' = [k \in Key |-> Nil]
  /\ UNCHANGED hash

(* The program goes on with a clone, whose hint is set only while it has no *)
(* nodes.                                                                    *)
Clone ==
  /\ t' = [t EXCEPT !.lastfree = IF t.node # <<>> THEN @
                                 ELSE IF t.array = <<>> THEN 0 ELSE -Hint(t)]
  /\ UNCHANGED <<hash, map>>

(* The collector traverses the table: keys without a value are dead, but    *)
(* their nodes and links stay.  (A bug: the key is wiped out.)               *)
RemoveEntryWipes(n) == IF n.key \in Object THEN FreeNode ELSE n
RemoveEntry(n) == [n EXCEPT !.dead = @ \/ n.key \in Object]

Removed(nodes) == [i \in DOMAIN nodes |-> IF nodes[i].val = Nil THEN RemoveEntry(nodes[i]) ELSE nodes[i]]

Traverse ==
  /\ t' = [t EXCEPT !.node = Removed(@)]
  /\ UNCHANGED <<hash, map>>

(* The collector clears a weak table in which the objects in S, as keys or   *)
(* as values, are garbage, and may shrink its hash part.                     *)
Cleared(S) ==
  [t EXCEPT !.array = [i \in DOMAIN @ |-> IF i \in S THEN Nil ELSE @[i]],
            !.node = [i \in DOMAIN @ |-> IF @[i].val # Nil /\ @[i].key \in S
                                          THEN RemoveEntry([@[i] EXCEPT !.val = Nil]) ELSE @[i]]]

Lost(S) == [k \in Key |-> IF k \in S THEN Nil ELSE map[k]]

ClearWeak(S) ==
  /\ t' = Cleared(S)
  /\ map' = Lost(S)
  /\ UNCHANGED hash

ShrinkWeak(S) ==
  LET active == Cardinality({n \in DOMAIN t.node : Cleared(S).node[n].val # Nil})
      sizenode == IF t.node = <<>> THEN 1 ELSE Len(t.node)
  IN  /\ active < (sizenode * 3) \div 8
      /\ t' = Resize(Cleared(S), Len(t.array), active)
      /\ map' = Lost(S)
      /\ UNCHANGED hash
-----------------------------------------------------------------------------
Next ==
  \/ \E k \in Key, v \in Val \cup {Nil} : Set(k, v)
  \/ \E first, last \in Index, v \in Val \cup {Nil} : SetList(first, last, v)
  \/ Length \/ Clear \/ Clone \/ Traverse
  \/ \E S \in SUBSET LiveKeys(t) : ClearWeak(S) \/ ShrinkWeak(S)

Spec == Init /\ [][Next]_vars
-----------------------------------------------------------------------------
Node == [key : Key \cup {Nil}, dead : BOOLEAN, val : Val \cup {Nil}, next : Int]

(* lastfree is never past the end of the hash part: getfreepos trusts it. *)
TypeOK ==
  /\ t.array \in Seq(Val \cup {Nil})
  /\ t.node \in Seq(Node)
  /\ t.node = <<>> \/ Len(t.node) \in PowersOfTwo
  /\ t.lastfree \in Int /\ t.lastfree <= Len(t.node)
  /\ t.nested \in BOOLEAN
  /\ hash \in Hashes
  /\ map \in [Key -> Val \cup {Nil}]

(* A rehash makes room for every key that it moves and for the one that      *)
(* asked for it: the migration never rehashes again (the assertion at the    *)
(* end of resize).                                                           *)
NoRehashInRehash == ~t.nested

(* # gives a boundary: the key before it is there and the key after it is    *)
(* absent, in the array or in the hash part.                                 *)
BoundaryRight ==
  LET n == GetN(t).n
      at(i) == i \in Index /\ Get(t, i) # Nil
  IN  (n > 0 => at(n)) /\ ~at(n + 1)

(* Wherever its keys are kept and moved to, the table holds what the program *)
(* has assigned: no key is lost, doubled, or changed by an assignment to     *)
(* another, a rehash, a clone or the collector.                              *)
MapKept == \A k \in Key : Get(t, k) = map[k]
=============================================================================
