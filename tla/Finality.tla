------------------------------ MODULE Finality ------------------------------
(***************************************************************************)
(* What the finality gadget promises, without sessions, committees or      *)
(* votes: every node has a finalised block, replaces it only by one of its *)
(* descendants, and only by a block on one chain with what every other     *)
(* node has finalised.                                                     *)
(***************************************************************************)
EXTENDS BlockTree

CONSTANT Nodes

VARIABLE finalized   \* finalized[n] is the highest block n has finalised

Init == finalized = [n \in Nodes |-> Genesis]

Finalize(n, b) ==
    /\ b # finalized[n]
    /\ finalized[n] \in Ancestors[b]
    /\ \A m \in Nodes : Comparable(finalized[m], b)
    /\ finalized' = [finalized EXCEPT ![n] = b]

Next == \E n \in Nodes, b \in Blocks : Finalize(n, b)

Spec == Init /\ [][Next]_finalized

TypeOK == finalized \in [Nodes -> Blocks]

Agreement == \A m, n \in Nodes : Comparable(finalized[m], finalized[n])
=============================================================================
