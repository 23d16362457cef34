---------------------------- MODULE MCEventIngest ----------------------------
(* Instance of EventIngest for TLC; the values are in the .cfg files.      *)
EXTENDS EventIngest
=============================================================================
