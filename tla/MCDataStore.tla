---------------------------- MODULE MCDataStore ----------------------------
EXTENDS DataStore, TLC

CONSTANTS x, y, m1, m2, m3

MCHashes == {x, y}
MCNumber == (x :> 1) @@ (y :> 2)
dx == [hash |-> x, number |-> 1]
dy == [hash |-> y, number |-> 2]
wrong == [hash |-> y, number |-> 1]   \* not the number of y
MCMessages == {m1, m2, m3}
MCIncluded == (m1 :> <<dx, dy>>) @@ (m2 :> <<wrong>>) @@ (m3 :> <<dy>>)
\* Units proposed by different nodes may well have the same best block.
MCRepeated == (m1 :> <<dx, dx>>) @@ (m2 :> <<wrong>>) @@ (m3 :> <<dy>>)
=============================================================================
