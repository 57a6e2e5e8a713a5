-------------------------- MODULE MCAlephFinality --------------------------
(***************************************************************************)
(* Sessions of two blocks.  b1 and a1 compete for the last block of        *)
(* session 0, b2 and c2 for the first of session 1, over b1.  b2 may be    *)
(* ordered before a node has imported it.                                  *)
(***************************************************************************)
EXTENDS AlephFinality, TLC

CONSTANTS g, a1, b1, b2, c2, n1, n2, n3, byz

MCBlocks == {g, a1, b1, b2, c2}
MCNumber == (g :> 0) @@ (a1 :> 1) @@ (b1 :> 1) @@ (b2 :> 2) @@ (c2 :> 2)
MCAncestors == (g :> {g}) @@ (a1 :> {g, a1}) @@ (b1 :> {g, b1})
               @@ (b2 :> {g, b1, b2}) @@ (c2 :> {g, b1, c2})
MCData == (0 :> {[hash |-> a1, number |-> 1], [hash |-> b2, number |-> 2]})
          @@ (1 :> {[hash |-> b2, number |-> 2], [hash |-> c2, number |-> 2]})
MCMaxOrdered == (0 :> 2) @@ (1 :> 1)
MCHonest == {n1, n2, n3}
MCCommittee == {n1, n2, n3, byz}
MCNextAuthorities == [b \in MCBlocks |-> IF b = a1 THEN MCHonest ELSE MCCommittee]
MCImported == MCBlocks \ {b2}
Symmetry == Permutations(MCHonest)
=============================================================================
