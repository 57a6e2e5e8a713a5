-------------------------- MODULE MCAuthorityTasks --------------------------
(***************************************************************************)
(* One message in every channel.                                           *)
(***************************************************************************)
EXTENDS AuthorityTasks
=============================================================================
