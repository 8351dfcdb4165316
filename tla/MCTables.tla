------------------------------ MODULE MCTables ------------------------------
(* Tables with hash functions that collide everywhere, pairwise and nowhere, *)
(* made empty, with a longer array part, and with room in both parts.        *)
EXTENDS Traversal

CONSTANT x  \* one of the objects

OneChain  == [k \in Key |-> 0]
Spread    == [k \in Key |-> IF k \in Index THEN k ELSE IF k = x THEN 0 ELSE 2]
Clustered == [k \in Key |-> IF k \in Index THEN k \div 2 ELSE IF k = x THEN 1 ELSE 3]

SomeHashes == {OneChain, Spread, Clustered}

SomeRooms == {<<0, 0>>, <<3, 0>>, <<2, 5>>}
=============================================================================
