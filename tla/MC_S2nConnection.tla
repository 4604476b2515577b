-------------------------- MODULE MC_S2nConnection --------------------------
(* S2nConnection with a header chunk and two payload chunks, for TLC. *)
EXTENDS S2nConnection

MCWrites == {<<"header">>, <<"header", "a">>, <<"header", "b">>}
=============================================================================
