------------------------- MODULE MCConsensusNetwork -------------------------
(***************************************************************************)
(* p1 is one validator; p2 and p3 have the key of another.                 *)
(***************************************************************************)
EXTENDS ConsensusNetwork

CONSTANTS p1, p2, p3, n1, n2

MCTwoPeers == {p1, p2}
MCThreePeers == {p1, p2, p3}
MCNodes == {n1, n2}
MCIndex == [s \in Sessions |-> [p \in Peers |-> IF p = p1 THEN n1 ELSE n2]]
=============================================================================
