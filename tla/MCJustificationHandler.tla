---------------------- MODULE MCJustificationHandler ----------------------
(***************************************************************************)
(* Sessions of two blocks; the cadence is one unit of time.                *)
(***************************************************************************)
EXTENDS JustificationHandler
=============================================================================
