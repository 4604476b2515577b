---------------------------- MODULE MC_Exchange ----------------------------
(* Exchange with short bodies, for TLC. *)
EXTENDS Exchange

\* Empty, plain, with trailers, longer than the window, and failing bodies.
MCBodies ==
    {<<>>, <<"data", "data">>, <<"data", "trailers">>, <<"data", "error">>}
=============================================================================
