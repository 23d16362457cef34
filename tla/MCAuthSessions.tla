--------------------------- MODULE MCAuthSessions ---------------------------
(* Instance of AuthSessions for TLC; the values are in the .cfg file.      *)
EXTENDS AuthSessions, TLC

\* Handlers and passwords are interchangeable: no definition names one.
Symmetry == Permutations(Call) \cup Permutations(Password)
=============================================================================
