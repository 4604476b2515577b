---------------------------- MODULE BodyDelivery ----------------------------
(***************************************************************************)
(* What the two halves of an exchange promise each other about a body.  The *)
(* fate of a message is decided once, by its sender: whole, which only a    *)
(* body that did not fail can be, or cut short with a code.  The receiver   *)
(* is given the frames in order; trailers and the end of the message it is  *)
(* given only if the message is whole, and the end after every frame.       *)
(***************************************************************************)
EXTENDS Naturals, Sequences

CONSTANTS
    Halves,   \* the messages
    Bodies,   \* sequences of "data", "trailers", "error" and "pending"
    Codes     \* why a message may be cut short

VARIABLES
    body,     \* of each message, what its source yields
    fate,     \* "open", "fin", or a code
    got,      \* frames that the receiver was given
    verdict   \* "reading", "whole" and "failed" are what the receiver knows;
              \* "left" says that it is gone

vars == <<body, fate, got, verdict>>

Sendable(b) == \A i \in 1 .. Len(b) : b[i] \in {"data", "trailers"}

Commit(h) ==
    /\ fate[h] = "open"
    /\ Sendable(body[h])
    /\ fate' = [fate EXCEPT ![h] = "fin"]
    /\ UNCHANGED <<body, got, verdict>>

Abort(h) ==
    /\ fate[h] = "open"
    /\ \E code \in Codes : fate' = [fate EXCEPT ![h] = code]
    /\ UNCHANGED <<body, got, verdict>>

Give(h) ==
    /\ verdict[h] = "reading"
    /\ got[h] < Len(body[h])
    /\ \/ body[h][got[h] + 1] = "data"
       \/ body[h][got[h] + 1] = "trailers" /\ fate[h] = "fin"
    /\ got' = [got EXCEPT ![h] = @ + 1]
    /\ UNCHANGED <<body, fate, verdict>>

\* The receiver is told that the message is complete.
End(h) ==
    /\ verdict[h] = "reading"
    /\ fate[h] = "fin"
    /\ got[h] = Len(body[h])
    /\ verdict' = [verdict EXCEPT ![h] = "whole"]
    /\ UNCHANGED <<body, fate, got>>

\* A message may be lost after it was sent whole.
Fail(h) ==
    /\ verdict[h] = "reading"
    /\ verdict' = [verdict EXCEPT ![h] = "failed"]
    /\ UNCHANGED <<body, fate, got>>

Leave(h) ==
    /\ verdict[h] # "left"
    /\ verdict' = [verdict EXCEPT ![h] = "left"]
    /\ UNCHANGED <<body, fate, got>>

Init ==
    /\ body \in [Halves -> Bodies]
    /\ fate = [h \in Halves |-> "open"]
    /\ got = [h \in Halves |-> 0]
    /\ verdict = [h \in Halves |-> "reading"]

Next ==
    \E h \in Halves :
        Commit(h) \/ Abort(h) \/ Give(h) \/ End(h) \/ Fail(h) \/ Leave(h)

Spec == Init /\ [][Next]_vars
=============================================================================
