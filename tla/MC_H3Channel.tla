---------------------------- MODULE MC_H3Channel ----------------------------
(* H3Channel on small sets, for TLC. *)
EXTENDS H3Channel

ASSUME EnoughFlags == Cardinality(Flags) >= Cardinality(Requests) + 2
=============================================================================
