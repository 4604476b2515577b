---------------------------- MODULE OrderedPipe ----------------------------
(***************************************************************************)
(* What the sending half of a QUIC stream promises to HTTP/3: what was      *)
(* written is delivered in order, without loss or repetition, and the       *)
(* stream is finished only when nothing is left to deliver.                 *)
(***************************************************************************)
EXTENDS Sequences

CONSTANT Writes   \* what may be written at once: sequences of chunks

VARIABLES pending, delivered, ended

vars == <<pending, delivered, ended>>

Write == /\ ended = "open"
         /\ \E w \in Writes : pending' = pending \o w
         /\ UNCHANGED <<delivered, ended>>

Deliver == /\ ended = "open"
           /\ pending # <<>>
           /\ delivered' = Append(delivered, Head(pending))
           /\ pending' = Tail(pending)
           /\ UNCHANGED ended

Finish == /\ ended = "open"
          /\ pending = <<>>
          /\ ended' = "fin"
          /\ UNCHANGED <<pending, delivered>>

Reset == /\ ended = "open"
         /\ ended' = "reset"
         /\ UNCHANGED <<pending, delivered>>

Init == pending = <<>> /\ delivered = <<>> /\ ended = "open"

Next == Write \/ Deliver \/ Finish \/ Reset

Spec == Init /\ [][Next]_vars
=============================================================================
