---------------------------- MODULE MCConnection ----------------------------
(***************************************************************************)
(* Connection on a small instance.                                         *)
(***************************************************************************)
EXTENDS Connection

=============================================================================
