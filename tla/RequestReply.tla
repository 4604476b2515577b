---------------------------- MODULE RequestReply ----------------------------
(***************************************************************************)
(* What a client channel promises its users: a request that was handed in   *)
(* is answered once, with a response or an error, unless the user drops it  *)
(* first.                                                                   *)
(***************************************************************************)
CONSTANT Requests

VARIABLE state   \* of each request: "idle", "pending" or "answered"

Submit(r) == state[r] = "idle" /\ state' = [state EXCEPT ![r] = "pending"]

Answer(r) == state[r] = "pending" /\ state' = [state EXCEPT ![r] = "answered"]

\* The user drops a pending request, or takes an answer.
Leave(r) == state[r] # "idle" /\ state' = [state EXCEPT ![r] = "idle"]

Init == state = [r \in Requests |-> "idle"]

Next == \E r \in Requests : Submit(r) \/ Answer(r) \/ Leave(r)

\* A pending request is answered or dropped, whatever the others do.
Fairness == \A r \in Requests : WF_state(Answer(r) \/ Leave(r))

Spec == Init /\ [][Next]_state /\ Fairness
=============================================================================
