-------------------------- MODULE MC_RequestSender --------------------------
(* RequestSender on small sets, for TLC. *)
EXTENDS RequestSender, TLC

\* retire_connection always finds a fresh Arc: the current one and one for each
\* request are the most that can be in use.
ASSUME EnoughFlags == Cardinality(Flags) >= Cardinality(Requests) + 2

\* Identifiers are interchangeable; used by the safety run only.
Symm == Permutations(Requests) \cup Permutations(Conns) \cup Permutations(Flags)
=============================================================================
