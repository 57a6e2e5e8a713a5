-------------------------- MODULE SessionArithmetic --------------------------
(***************************************************************************)
(* The division of the chain into sessions of SessionPeriod blocks         *)
(* (finality-aleph/src/lib.rs).  Sessions are numbered from 0, and session *)
(* 0 starts with block 0.                                                  *)
(***************************************************************************)
EXTENDS Integers

CONSTANT SessionPeriod  \* blocks in a session

\* session_id_from_block_num
SessionOf(num) == num \div SessionPeriod

\* last_block_of_session
LastBlockOf(s) == (s + 1) * SessionPeriod - 1
=============================================================================
