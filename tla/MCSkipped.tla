----------------------------- MODULE MCSkipped -----------------------------
(***************************************************************************)
(* Four sessions of one block, of which the last has not begun: leaving    *)
(* session 2 prunes the keybox of session 0, and the third session's       *)
(* keybox is still taken.  The runtime call of n1 for session 1 may fail:  *)
(* then n1 passes over that session.  On the branch of b1 it is the only   *)
(* authority of session 2, and runs that aggregator from the genesis; on   *)
(* the branch of a1 it is none and follows the chain.  One node restarts.  *)
(***************************************************************************)
EXTENDS AlephFinality, TLC

CONSTANTS g, a1, b1, a2, b2, n1, n2, n3, byz

MCBlocks == {g, a1, b1, a2, b2}
MCNumber == (g :> 0) @@ (a1 :> 1) @@ (b1 :> 1) @@ (a2 :> 2) @@ (b2 :> 2)
MCAncestors == (g :> {g}) @@ (a1 :> {g, a1}) @@ (b1 :> {g, b1})
               @@ (a2 :> {g, a1, a2}) @@ (b2 :> {g, b1, b2})
MCData == [s \in 0..3 |-> IF s = 3 THEN {}
                          ELSE {[hash |-> a2, number |-> 2], [hash |-> b2, number |-> 2]}]
MCHonest == {n1, n2, n3}
MCCommittee == {n1, n2, n3, byz}
MCNextAuthorities == (g :> MCCommittee) @@ (a1 :> {n2, n3}) @@ (b1 :> {n1})
                     @@ (a2 :> {n1}) @@ (b2 :> {n1})
MCApiFails == {<<n1, 1>>}
MCMaxOrdered == [s \in 0..3 |-> IF s = 3 THEN 0 ELSE 1]
Symmetry == Permutations({n2, n3})
=============================================================================
