--------------------------- MODULE MCAlephPallet ---------------------------
(***************************************************************************)
(* Three accounts, of which two are validators at the genesis; sessions of *)
(* two blocks.                                                             *)
(***************************************************************************)
EXTENDS AlephPallet, TLC

CONSTANTS a1, a2, a3, k1, k2

MCGenesisKeys == [a \in Accounts |-> k1]
MCLists == {{a1}, {a2, a3}}
=============================================================================
