---------------------- MODULE MCBlockSignatureAggregator ----------------------
(***************************************************************************)
(* A session whose last block is 5, of which block 1 is final when the     *)
(* task starts, and one block ordered past its end.                        *)
(***************************************************************************)
EXTENDS BlockSignatureAggregator
=============================================================================
