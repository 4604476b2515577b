---------------------------- MODULE ServerProofs ----------------------------
(***************************************************************************)
(* The server, for any number of clients and requests: its types, and that  *)
(* no client can stop it.  The conjunction of the two is inductive.         *)
(***************************************************************************)
EXTENDS Server, TLAPS

HsStates == {"none", "incoming", "handshake", "done", "failed", "accepted", "over"}
TaskStates == {"none", "setup", "accepting", "over"}
RequestStates == {"none", "arrived", "resolving", "serving", "served", "failed"}

\* The parts of TypeOK that the steps of a connection disturb.
TasksFollow ==
    \A c \in Peers :
        /\ task[c] = "none" <=> hs[c] # "accepted"
        /\ task[c] = "none" => \A s \in Streams : request[c][s] = "none"

Typed ==
    /\ acceptor \in {"quinn", "s2n", "bridge"}
    /\ hs \in [Peers -> HsStates]
    /\ serve \in {"running", "ok", "err"}
    /\ signal \in BOOLEAN
    /\ endpoint \in {"open", "closed"}
    /\ task \in [Peers -> TaskStates]
    /\ gone \in [Peers -> BOOLEAN]
    /\ request \in [Peers -> [Streams -> RequestStates]]

IInv == Typed /\ TasksFollow /\ StopsOnlyOnDemand

LEMMA TypeParts == TypeOK <=> Typed /\ TasksFollow
  BY DEF TypeOK, Typed, TasksFollow, HsStates, TaskStates, RequestStates

-----------------------------------------------------------------------------
\* A request that moves between two states of its life keeps the invariant.
LEMMA RequestMoves ==
    ASSUME IInv, NEW c \in Peers, NEW s \in Streams, NEW new \in RequestStates,
           task[c] # "none",
           request' = [request EXCEPT ![c][s] = new],
           UNCHANGED <<acceptor, hs, serve, signal, endpoint, task, gone>>
    PROVE  IInv'
<1>1. Typed'
  BY DEF IInv, Typed
<1>2. \A d \in Peers : d # c => request'[d] = request[d]
  BY DEF IInv, Typed
<1>3. TasksFollow'
  BY <1>2 DEF IInv, TasksFollow
<1>4. StopsOnlyOnDemand'
  BY DEF IInv, StopsOnlyOnDemand
<1> QED
  BY <1>1, <1>3, <1>4 DEF IInv

\* A connection that moves on its way through the acceptor keeps it.
LEMMA HandshakeMoves ==
    ASSUME IInv, NEW c \in Peers, NEW new \in HsStates \ {"accepted"},
           hs[c] # "accepted",
           hs' = [hs EXCEPT ![c] = new],
           UNCHANGED <<acceptor, serve, signal, endpoint, task, gone, request>>
    PROVE  IInv'
<1>1. Typed'
  BY DEF IInv, Typed
<1>2. TasksFollow'
  BY DEF IInv, Typed, TasksFollow
<1>3. StopsOnlyOnDemand'
  BY DEF IInv, StopsOnlyOnDemand
<1> QED
  BY <1>1, <1>2, <1>3 DEF IInv

\* So does a step of a connection's task.
LEMMA TaskMoves ==
    ASSUME IInv, NEW c \in Peers, NEW new \in TaskStates \ {"none"},
           task[c] # "none",
           task' = [task EXCEPT ![c] = new],
           gone' \in [Peers -> BOOLEAN],
           UNCHANGED <<acceptor, hs, serve, signal, endpoint, request>>
    PROVE  IInv'
<1>1. Typed'
  BY DEF IInv, Typed
<1>2. TasksFollow'
  BY DEF IInv, Typed, TasksFollow
<1>3. StopsOnlyOnDemand'
  BY DEF IInv, StopsOnlyOnDemand
<1> QED
  BY <1>1, <1>2, <1>3 DEF IInv

\* And the return of serve_inner, which drops the acceptor.
LEMMA ReturnKeeps ==
    ASSUME IInv, NEW res \in {"ok", "err"}, Return(res),
           res = "ok" => signal \/ endpoint = "closed",
           res = "err" => acceptor = "bridge"
    PROVE  IInv'
<1>1. Typed'
  BY DEF IInv, Typed, Return, HsStates
<1>2. TasksFollow'
  <2>1. \A c \in Peers : hs'[c] = "accepted" <=> hs[c] = "accepted"
    BY DEF IInv, Typed, Return, Tasks
  <2> QED
    BY <2>1 DEF IInv, TasksFollow, Return
<1>3. StopsOnlyOnDemand'
  BY DEF IInv, StopsOnlyOnDemand, Return
<1> QED
  BY <1>1, <1>2, <1>3 DEF IInv

-----------------------------------------------------------------------------
LEMMA InitIInv == Init => IInv
<1> SUFFICES ASSUME Init PROVE IInv
  OBVIOUS
<1>1. Typed
  BY DEF Init, Typed, HsStates, TaskStates, RequestStates
<1>2. TasksFollow
  BY DEF Init, TasksFollow
<1>3. StopsOnlyOnDemand
  BY DEF Init, StopsOnlyOnDemand
<1> QED
  BY <1>1, <1>2, <1>3 DEF IInv

LEMMA NextIInv == IInv /\ [Next]_vars => IInv'
<1> SUFFICES ASSUME IInv, [Next]_vars PROVE IInv'
  OBVIOUS
<1> USE DEF HsStates, TaskStates, RequestStates
<1>1. ASSUME NEW c \in Peers, Arrive(c) PROVE IInv'
  BY <1>1, HandshakeMoves DEF Arrive
<1>2. ASSUME NEW c \in Peers, HandshakeEnds(c) PROVE IInv'
  BY <1>2, HandshakeMoves DEF HandshakeEnds
<1>3. ASSUME NEW c \in Peers, LibraryHandshake(c) PROVE IInv'
  BY <1>3, HandshakeMoves DEF LibraryHandshake
<1>4. ASSUME NEW c \in Peers, PeerGone(c) PROVE IInv'
  BY <1>4 DEF PeerGone, IInv, Typed, TasksFollow, StopsOnlyOnDemand
<1>5. ASSUME NEW c \in Peers, NEW s \in Streams, NewStream(c, s) PROVE IInv'
  <2>1. task[c] # "none"
    BY <1>5 DEF NewStream, IInv, TasksFollow
  <2> QED
    BY <1>5, <2>1, RequestMoves DEF NewStream
<1>6. CASE Shutdown
  BY <1>6 DEF Shutdown, IInv, Typed, TasksFollow, StopsOnlyOnDemand
<1>7. CASE CloseEndpoint
  <2>1. \A c \in Peers : hs'[c] = hs[c] \/ (hs[c] = "incoming" /\ hs'[c] = "over")
    BY <1>7 DEF CloseEndpoint
  <2>2. Typed'
    <3>1. hs' \in [Peers -> HsStates]
      BY <1>7 DEF CloseEndpoint, IInv, Typed
    <3>2. gone' \in [Peers -> BOOLEAN]
      <4>1. \A c \in Peers : (gone[c] \/ hs[c] # "none") \in BOOLEAN
        OBVIOUS
      <4> QED
        BY <1>7, <4>1, Zenon DEF CloseEndpoint
    <3> QED
      BY <1>7, <3>1, <3>2 DEF CloseEndpoint, IInv, Typed
  <2>3. TasksFollow'
    BY <1>7, <2>1 DEF CloseEndpoint, IInv, TasksFollow
  <2>4. StopsOnlyOnDemand'
    BY <1>7 DEF CloseEndpoint, IInv, StopsOnlyOnDemand
  <2> QED
    BY <2>2, <2>3, <2>4 DEF IInv
<1>8. ASSUME NEW c \in Peers, AcceptIncoming(c) PROVE IInv'
  BY <1>8, HandshakeMoves DEF AcceptIncoming
<1>9. ASSUME NEW c \in Peers, AcceptErr(c) PROVE IInv'
  BY <1>9, HandshakeMoves DEF AcceptErr
<1>10. ASSUME NEW c \in Peers, AcceptConn(c) PROVE IInv'
  <2>1. Typed'
    BY <1>10 DEF AcceptConn, IInv, Typed
  <2>2. TasksFollow'
    BY <1>10 DEF AcceptConn, IInv, Typed, TasksFollow
  <2>3. StopsOnlyOnDemand'
    BY <1>10 DEF AcceptConn, IInv, StopsOnlyOnDemand
  <2> QED
    BY <2>1, <2>2, <2>3 DEF IInv
<1>11. CASE AcceptDone \/ AcceptNone
  BY <1>11, ReturnKeeps DEF AcceptDone, AcceptNone
<1>12. CASE AcceptFails
  BY <1>12, ReturnKeeps DEF AcceptFails
<1>13. CASE ServeStops
  BY <1>13, ReturnKeeps DEF ServeStops
<1>14. ASSUME NEW c \in Peers, Setup(c) \/ ConnectionEnds(c) PROVE IInv'
  <2>1. gone' \in [Peers -> BOOLEAN]
    BY <1>14 DEF Setup, ConnectionEnds, IInv, Typed
  <2>2. PICK new \in {"accepting", "over"} : task' = [task EXCEPT ![c] = new]
    BY <1>14 DEF Setup, ConnectionEnds
  <2>3. task[c] # "none"
    BY <1>14 DEF Setup, ConnectionEnds
  <2>4. UNCHANGED <<acceptor, hs, serve, signal, endpoint, request>>
    BY <1>14 DEF Setup, ConnectionEnds
  <2> QED
    BY <2>1, <2>2, <2>3, <2>4, TaskMoves
<1>15. ASSUME NEW c \in Peers, NEW s \in Streams,
              AcceptRequest(c, s) \/ ResolveRequest(c, s) \/ ServeRequest(c, s)
       PROVE  IInv'
  <2>1. request[c][s] # "none"
    BY <1>15 DEF AcceptRequest, ResolveRequest, ServeRequest
  <2>2. task[c] # "none"
    BY <2>1 DEF IInv, TasksFollow
  <2>3. PICK new \in RequestStates : request' = [request EXCEPT ![c][s] = new]
    BY <1>15 DEF AcceptRequest, ResolveRequest, ServeRequest
  <2>4. UNCHANGED <<acceptor, hs, serve, signal, endpoint, task, gone>>
    BY <1>15 DEF AcceptRequest, ResolveRequest, ServeRequest
  <2> QED
    BY <2>2, <2>3, <2>4, RequestMoves
<1>16. CASE UNCHANGED vars
  BY <1>16 DEF vars, IInv, Typed, TasksFollow, StopsOnlyOnDemand
<1> QED
  BY <1>1, <1>2, <1>3, <1>4, <1>5, <1>6, <1>7, <1>8, <1>9, <1>10, <1>11, <1>12,
     <1>13, <1>14, <1>15, <1>16 DEF Next, ServerStep

\* The invariant holds in every reachable state of the server.
THEOREM IInvHolds == Spec => []IInv
  BY InitIInv, NextIInv, PTL DEF Spec

\* The state is well typed, and only an accepted connection has a task and
\* requests, with any number of clients.
THEOREM TypeCorrect == Spec => []TypeOK
<1>1. IInv => TypeOK
  BY TypeParts DEF IInv
<1> QED
  BY <1>1, IInvHolds, PTL

\* No number of failing handshakes, connections and requests stops the server.
THEOREM StopsOnlyOnDemandHolds == Spec => []StopsOnlyOnDemand
<1>1. IInv => StopsOnlyOnDemand
  BY DEF IInv
<1> QED
  BY <1>1, IInvHolds, PTL
=============================================================================
