-------------------------- MODULE MCSessionMachine --------------------------
(* Instance of SessionMachine for TLC; the values are in the .cfg. *)
EXTENDS SessionMachine
=============================================================================
