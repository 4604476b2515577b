-------------------------------- MODULE Server --------------------------------
(***************************************************************************)
(* The server: the accept loop of axum-h3 (serve_inner) over an acceptor of *)
(* h3-util; one detached task per connection, and one per request.  The     *)
(* quinn acceptor runs the handshakes of incoming connections in a JoinSet; *)
(* the others forward to their libraries, which run them inside.            *)
(* What a request task does is in Exchange.                                 *)
(*                                                                          *)
(* A suffixed name is a wrong variant of the operator it stands next to.    *)
(***************************************************************************)

CONSTANTS
    Peers,    \* connections that clients open
    Streams   \* requests on a connection

VARIABLES
    acceptor,  \* "quinn", "s2n" or "bridge" (quiche_h3 and msquic_h3)
    hs,        \* a connection on its way through the acceptor
    serve,     \* serve_with_shutdown: running, or what it returned
    signal,    \* the shutdown signal has fired
    endpoint,  \* the endpoint or listener: open, or closed by its owner
    task,      \* the task of a connection
    gone,      \* the connection is closed, by either side, or lost
    request    \* the task of a request

vars == <<acceptor, hs, serve, signal, endpoint, task, gone, request>>

\* The JoinSet: handshakes that run or that ended and were not joined yet.
Tasks ==
    {c \in Peers : acceptor = "quinn" /\ hs[c] \in {"handshake", "done", "failed"}}

-----------------------------------------------------------------------------
(* Clients, the transport and the owner of the server. *)

Arrive(c) ==
    /\ hs[c] = "none"
    /\ endpoint = "open"
    /\ hs' = [hs EXCEPT ![c] = "incoming"]
    /\ UNCHANGED <<acceptor, serve, signal, endpoint, task, gone, request>>

\* The spawned handshake ends; with a closed endpoint or a lost peer it fails.
HandshakeEnds(c) ==
    /\ hs[c] = "handshake"
    /\ \/ hs' = [hs EXCEPT ![c] = "failed"]
       \/ /\ endpoint = "open"
          /\ ~gone[c]
          /\ hs' = [hs EXCEPT ![c] = "done"]
    /\ UNCHANGED <<acceptor, serve, signal, endpoint, task, gone, request>>

\* A library runs the handshake itself, and reports only those that succeed.
LibraryHandshake(c) ==
    /\ acceptor # "quinn"
    /\ hs[c] = "incoming"
    /\ \/ hs' = [hs EXCEPT ![c] = "over"]
       \/ /\ endpoint = "open"
          /\ ~gone[c]
          /\ hs' = [hs EXCEPT ![c] = "done"]
    /\ UNCHANGED <<acceptor, serve, signal, endpoint, task, gone, request>>

PeerGone(c) ==
    /\ hs[c] # "none"
    /\ ~gone[c]
    /\ gone' = [gone EXCEPT ![c] = TRUE]
    /\ UNCHANGED <<acceptor, hs, serve, signal, endpoint, task, request>>

Shutdown ==
    /\ ~signal
    /\ signal' = TRUE
    /\ UNCHANGED <<acceptor, hs, serve, endpoint, task, gone, request>>

\* Endpoint::close ends every connection, and what waited to be accepted.
CloseEndpoint ==
    /\ endpoint = "open"
    /\ endpoint' = "closed"
    /\ hs' = [c \in Peers |-> IF hs[c] = "incoming" THEN "over" ELSE hs[c]]
    /\ gone' = [c \in Peers |-> gone[c] \/ hs[c] # "none"]
    /\ UNCHANGED <<acceptor, serve, signal, task, request>>

NewStream(c, s) ==
    /\ hs[c] = "accepted"
    /\ ~gone[c]
    /\ request[c][s] = "none"
    /\ request' = [request EXCEPT ![c][s] = "arrived"]
    /\ UNCHANGED <<acceptor, hs, serve, signal, endpoint, task, gone>>

-----------------------------------------------------------------------------
(* H3Acceptor::accept, awaited by serve_inner *)

AcceptIncoming_one_at_a_time(c) ==
    /\ serve = "running"
    /\ acceptor = "quinn"
    /\ hs[c] = "incoming"
    /\ Tasks = {}
    /\ hs' = [hs EXCEPT ![c] = "handshake"]
    /\ UNCHANGED <<acceptor, serve, signal, endpoint, task, gone, request>>

\* select_conn yields NewIncoming: its handshake is spawned, and the loop goes
\* on.
AcceptIncoming(c) ==
    /\ serve = "running"
    /\ acceptor = "quinn"
    /\ hs[c] = "incoming"
    /\ hs' = [hs EXCEPT ![c] = "handshake"]
    /\ UNCHANGED <<acceptor, serve, signal, endpoint, task, gone, request>>

\* select_conn yields NewConn, or the library a connection: accept returns it,
\* and serve_inner spawns the task of the connection.
AcceptConn(c) ==
    /\ serve = "running"
    /\ hs[c] = "done"
    /\ hs' = [hs EXCEPT ![c] = "accepted"]
    /\ task' = [task EXCEPT ![c] = "setup"]
    /\ UNCHANGED <<acceptor, serve, signal, endpoint, gone, request>>

AcceptErr_fatal(c) ==
    /\ serve = "running"
    /\ hs[c] = "failed"
    /\ hs' = [hs EXCEPT ![c] = "over"]
    /\ serve' = "err"
    /\ UNCHANGED <<acceptor, signal, endpoint, task, gone, request>>

\* select_conn yields ConnErr: ignored.
AcceptErr(c) ==
    /\ serve = "running"
    /\ hs[c] = "failed"
    /\ hs' = [hs EXCEPT ![c] = "over"]
    /\ UNCHANGED <<acceptor, serve, signal, endpoint, task, gone, request>>

\* serve_inner returns and drops the acceptor, and the JoinSet aborts its tasks.
\* What waits in the endpoint is no longer looked at.
Return(res) ==
    /\ serve' = res
    /\ hs' = [c \in Peers |-> IF c \in Tasks THEN "over" ELSE hs[c]]
    /\ UNCHANGED <<acceptor, signal, endpoint, task, gone, request>>

\* select_conn yields Done: the quinn endpoint is closed, and what is left in the
\* JoinSet is not waited for.
AcceptDone ==
    serve = "running" /\ acceptor = "quinn" /\ endpoint = "closed" /\ Return("ok")

\* The other libraries yield None on a closed endpoint.
AcceptNone ==
    serve = "running" /\ acceptor # "quinn" /\ endpoint = "closed" /\ Return("ok")

\* The accept of quiche_h3 and msquic_h3 may fail: serve_inner returns the error.
AcceptFails == serve = "running" /\ acceptor = "bridge" /\ Return("err")

ServeStops_joins == serve = "running" /\ signal /\ Tasks = {} /\ Return("ok")

\* The shutdown branch of the select!.
ServeStops == serve = "running" /\ signal /\ Return("ok")

-----------------------------------------------------------------------------
(* The task of a connection, and of a request. *)

\* h3::server::Connection::new succeeds, or fails and ends the task.  A task that
\* ends drops its connection, which closes it.
Setup(c) ==
    /\ task[c] = "setup"
    /\ \/ /\ ~gone[c]
          /\ task' = [task EXCEPT ![c] = "accepting"]
          /\ UNCHANGED gone
       \/ /\ task' = [task EXCEPT ![c] = "over"]
          /\ gone' = [gone EXCEPT ![c] = TRUE]
    /\ UNCHANGED <<acceptor, hs, serve, signal, endpoint, request>>

AcceptRequest_resolves(c, s) ==
    /\ task[c] = "accepting"
    /\ request[c][s] = "arrived"
    /\ \A t \in Streams : request[c][t] # "resolving"
    /\ request' = [request EXCEPT ![c][s] = "resolving"]
    /\ UNCHANGED <<acceptor, hs, serve, signal, endpoint, task, gone>>

\* conn.accept yields a request: its task is spawned, and resolves it.
AcceptRequest(c, s) ==
    /\ task[c] = "accepting"
    /\ request[c][s] = "arrived"
    /\ request' = [request EXCEPT ![c][s] = "resolving"]
    /\ UNCHANGED <<acceptor, hs, serve, signal, endpoint, task, gone>>

\* conn.accept yields None, or an error, benign or not (the connection is lost,
\* or the peer broke the protocol): the loop breaks.
ConnectionEnds(c) ==
    /\ task[c] = "accepting"
    /\ task' = [task EXCEPT ![c] = "over"]
    /\ gone' = [gone EXCEPT ![c] = TRUE]
    /\ UNCHANGED <<acceptor, hs, serve, signal, endpoint, request>>

\* resolve_request succeeds, or fails and ends the task.  Nothing limits the time
\* that the headers take.
ResolveRequest(c, s) ==
    /\ request[c][s] = "resolving"
    /\ \/ ~gone[c] /\ request' = [request EXCEPT ![c][s] = "serving"]
       \/ request' = [request EXCEPT ![c][s] = "failed"]
    /\ UNCHANGED <<acceptor, hs, serve, signal, endpoint, task, gone>>

\* serve_request ends, if handler and client let it: nothing limits the time that
\* they take.  Only on a connection that lives can it succeed.
ServeRequest(c, s) ==
    /\ request[c][s] = "serving"
    /\ \/ ~gone[c] /\ request' = [request EXCEPT ![c][s] = "served"]
       \/ request' = [request EXCEPT ![c][s] = "failed"]
    /\ UNCHANGED <<acceptor, hs, serve, signal, endpoint, task, gone>>

-----------------------------------------------------------------------------
Init ==
    /\ acceptor \in {"quinn", "s2n", "bridge"}
    /\ hs = [c \in Peers |-> "none"]
    /\ serve = "running"
    /\ signal = FALSE
    /\ endpoint = "open"
    /\ task = [c \in Peers |-> "none"]
    /\ gone = [c \in Peers |-> FALSE]
    /\ request = [c \in Peers |-> [s \in Streams |-> "none"]]

ServerStep(c) ==
    \/ AcceptIncoming(c) \/ AcceptConn(c) \/ AcceptErr(c)
    \/ Setup(c) \/ ConnectionEnds(c)
    \/ \E s \in Streams :
        AcceptRequest(c, s) \/ ResolveRequest(c, s) \/ ServeRequest(c, s)

Next ==
    \/ \E c \in Peers :
        \/ ServerStep(c) \/ Arrive(c) \/ HandshakeEnds(c) \/ LibraryHandshake(c)
        \/ PeerGone(c)
        \/ \E s \in Streams : NewStream(c, s)
    \/ AcceptDone \/ AcceptNone \/ AcceptFails \/ ServeStops \/ Shutdown \/ CloseEndpoint

Spec == Init /\ [][Next]_vars

\* The runtime runs every task, and select! does not starve a branch.  No
\* handshake is obliged to end, no live connection, and no request: its headers may
\* never come, its handler never return and its client never read.
Fairness ==
    /\ \A c \in Peers :
        /\ WF_vars(AcceptIncoming(c)) /\ WF_vars(AcceptConn(c))
        /\ WF_vars(AcceptErr(c)) /\ WF_vars(Setup(c))
        /\ WF_vars(gone[c] /\ ConnectionEnds(c))
        /\ \A s \in Streams : WF_vars(AcceptRequest(c, s))
    /\ WF_vars(AcceptDone) /\ WF_vars(AcceptNone) /\ WF_vars(ServeStops)

FairSpec == Spec /\ Fairness

-----------------------------------------------------------------------------
\* The types; a connection has a task, and its requests theirs, only once it
\* was accepted.
TypeOK ==
    /\ acceptor \in {"quinn", "s2n", "bridge"}
    /\ hs \in [Peers -> {"none", "incoming", "handshake", "done", "failed",
                         "accepted", "over"}]
    /\ serve \in {"running", "ok", "err"}
    /\ signal \in BOOLEAN
    /\ endpoint \in {"open", "closed"}
    /\ task \in [Peers -> {"none", "setup", "accepting", "over"}]
    /\ gone \in [Peers -> BOOLEAN]
    /\ request \in [Peers -> [Streams -> {"none", "arrived", "resolving",
                                          "serving", "served", "failed"}]]
    /\ \A c \in Peers :
        /\ task[c] = "none" <=> hs[c] # "accepted"
        /\ task[c] = "none" => \A s \in Streams : request[c][s] = "none"

\* No client can stop the server, whatever handshakes, connections and requests
\* fail: it returns Ok only because its owner shut it down or closed the
\* endpoint, and an error only if the acceptor's library lets accept fail.
StopsOnlyOnDemand ==
    /\ serve = "ok" => signal \/ endpoint = "closed"
    /\ serve = "err" => acceptor = "bridge"

\* A stalled handshake holds up nobody: a connection that waits in the quinn
\* endpoint gets its handshake started, and one whose handshake is done its task,
\* unless the server stops first.
NobodyWaitsForHandshakes ==
    \A c \in Peers :
        /\ (hs[c] = "incoming" /\ acceptor = "quinn")
              ~> (hs[c] # "incoming" \/ serve # "running")
        /\ (hs[c] = "done") ~> (hs[c] # "done" \/ serve # "running")

\* A request that hangs holds up nobody: while its connection is served a request
\* is taken up, although others on the connection wait for their headers, their
\* handler or their client for ever, and although the server was shut down.
RequestsTakenUp ==
    \A c \in Peers, s \in Streams :
        (request[c][s] = "arrived") ~> (request[c][s] # "arrived" \/ task[c] = "over")

\* The shutdown signal ends the server even if no client ever connects.
ShutdownEnds == signal ~> (serve # "running")
=============================================================================
