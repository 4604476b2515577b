--------------------------- MODULE MC_ClientTests ---------------------------
(* ClientTests with one user at a time, for TLC. *)
EXTENDS ClientTests

ASSUME OneUser == Cardinality(Requests) = 1
=============================================================================
