----------------------------- MODULE MC_Connect -----------------------------
(* Connect with short address lists, for TLC. *)
EXTENDS Connect

CONSTANTS v4, v6, other

\* No address, one, two in both orders, and a list with a repeated address.
MCLists == {<<>>, <<v4>>, <<v6, v4>>, <<v4, v6>>, <<v6, other, v4>>, <<v6, v6, v4>>}
=============================================================================
