----------------------------- MODULE MCRestart -----------------------------
(***************************************************************************)
(* One session of three blocks, with a restart.  a2 and c2 compete for its *)
(* last block, over a1; b1 is a fork at its first.  c2 is imported late,   *)
(* and also ordered under a number that is not its own.                    *)
(***************************************************************************)
EXTENDS AlephFinality, TLC

CONSTANTS g, a1, b1, a2, c2, n1, n2, n3, byz

MCBlocks == {g, a1, b1, a2, c2}
MCNumber == (g :> 0) @@ (a1 :> 1) @@ (b1 :> 1) @@ (a2 :> 2) @@ (c2 :> 2)
MCAncestors == (g :> {g}) @@ (a1 :> {g, a1}) @@ (b1 :> {g, b1})
               @@ (a2 :> {g, a1, a2}) @@ (c2 :> {g, a1, c2})
MCData == 0 :> {[hash |-> a1, number |-> 1], [hash |-> b1, number |-> 1],
                [hash |-> a2, number |-> 2], [hash |-> c2, number |-> 2],
                [hash |-> c2, number |-> 1]}
MCMaxOrdered == (0 :> 2)
MCHonest == {n1, n2, n3}
MCCommittee == {n1, n2, n3, byz}
MCNextAuthorities == [b \in MCBlocks |-> MCCommittee]
MCImported == {g, a1, b1, a2}
Symmetry == Permutations(MCHonest)
=============================================================================
