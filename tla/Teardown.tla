------------------------------ MODULE Teardown ------------------------------
(***************************************************************************)
(* Who closes what, and in which order: a server of each QUIC library is    *)
(* stopped under a connected client, its port is bound again, the same      *)
(* client is served by the new server, and both are taken down.  This is    *)
(* reconnect_test, with the servers and clients of tonic-h3-tests/lib.rs,   *)
(* the shared listener of H3MsQuicAcceptor and the handles that             *)
(* H3MsQuicConnector owns.  (s2n cannot release its port: its test is       *)
(* switched off.)                                                           *)
(*                                                                          *)
(* A suffixed name is a wrong variant of the operator it stands next to.    *)
(***************************************************************************)
EXTENDS Naturals

VARIABLES
    kind,      \* the library under the server and the client
    test,      \* where the test stands
    gen,       \* 1 for the first server, 2 for the second
    server,    \* the task that runs the server, and then its teardown
    token,     \* the server's CancellationToken
    lock,      \* "accept" while an accept is under way; with msquic that call
               \* holds the listener's mutex
    acceptor,  \* who owns the acceptor: "serve", and "cp" for msquic
    svc,       \* the server's end of the connection
    sconf,     \* config_cp of the msquic server
    sreg,      \* the server's msquic Registration
    cli,       \* the client's end of the connection; "ended": its driver has
               \* ended, and the sender in the channel still keeps it
    client,    \* the task of run_*_client
    channel,   \* the H3Channel and the RequestSender in its worker
    cconf,     \* the Configuration that the connector owns
    creg       \* who owns the client's msquic Registration

srv  == <<server, token, lock, acceptor, svc, sconf, sreg>>
clnt == <<cli, client, channel, cconf, creg>>
vars == <<kind, test, gen, srv, clnt>>

Kinds == {"quinn", "quiche", "msquic"}
MsQuic == kind = "msquic"

\* The socket lives as long as the acceptor or the teardown task holds its
\* endpoint, and with quinn and quiche as long as a connection uses it.
PortBound ==
    \/ acceptor # {}
    \/ ~MsQuic /\ (server \notin {"none", "ended"} \/ svc \notin {"none", "dropped"})

-----------------------------------------------------------------------------
(* run_test_*_server and serve_inner *)

\* Binding a port that is in use panics the test.
RunServer ==
    /\ test \in {"start", "slept"}
    /\ gen' = gen + 1
    /\ IF PortBound
       THEN test' = "panicked" /\ UNCHANGED srv
       ELSE /\ test' = "hello"
            /\ server' = "serving" /\ token' = FALSE /\ lock' = "free"
            /\ acceptor' = IF MsQuic THEN {"serve", "cp"} ELSE {"serve"}
            /\ svc' = "none"
            /\ sconf' = MsQuic /\ sreg' = IF MsQuic THEN "open" ELSE "none"
    /\ UNCHANGED <<kind, clnt>>

\* accept begins; msquic's locks the listener, and keeps it while it waits for a
\* connection.
AcceptLocks ==
    /\ server = "serving"
    /\ lock = "free"
    /\ lock' = "accept"
    /\ UNCHANGED <<kind, test, gen, server, token, acceptor, svc, sconf, sreg, clnt>>

Accept ==
    /\ server = "serving"
    /\ lock = "accept"
    /\ svc = "pending"
    /\ svc' = "open"
    /\ lock' = "free"
    /\ UNCHANGED <<kind, test, gen, server, token, acceptor, sconf, sreg, clnt>>

\* The shutdown branch of the select!: the accept future is dropped, and its
\* lock with it, and then the acceptor.
ServeReturns ==
    /\ server = "serving"
    /\ token
    /\ server' = "returned"
    /\ lock' = "free"
    /\ acceptor' = acceptor \ {"serve"}
    /\ UNCHANGED <<kind, test, gen, token, svc, sconf, sreg, clnt>>

-----------------------------------------------------------------------------
(* The teardown behind it *)

\* Closing an endpoint, or shutting a registration down, closes connections.
Shut(c) == IF c \in {"pending", "open"} THEN "closed" ELSE c

CloseEndpoint_drops ==
    /\ server = "returned"
    /\ ~MsQuic
    /\ server' = "ended"
    /\ UNCHANGED <<kind, test, gen, token, lock, acceptor, svc, sconf, sreg, clnt>>

\* quinn and quiche: endpoint.close, then endpoint.wait_idle.
CloseEndpoint ==
    /\ server = "returned"
    /\ ~MsQuic
    /\ server' = "idling"
    /\ svc' = Shut(svc)
    /\ UNCHANGED <<kind, test, gen, token, lock, acceptor, sconf, sreg, clnt>>

EndpointIdle ==
    /\ server = "idling"
    /\ ~MsQuic
    /\ svc \in {"none", "closed", "dropped"}
    /\ server' = "ended"
    /\ UNCHANGED <<kind, test, gen, token, lock, acceptor, svc, sconf, sreg, clnt>>

\* msquic: acceptor_cp.shutdown locks the listener.
AcceptorShutdown ==
    /\ server = "returned"
    /\ MsQuic
    /\ lock = "free"
    /\ server' = "stopped"
    /\ UNCHANGED <<kind, test, gen, token, lock, acceptor, svc, sconf, sreg, clnt>>

\* reg.shutdown, and the last owner of the listener is dropped.
RegShutdown ==
    /\ server = "stopped"
    /\ server' = "idling"
    /\ svc' = Shut(svc)
    /\ acceptor' = acceptor \ {"cp"}
    /\ UNCHANGED <<kind, test, gen, token, lock, sconf, sreg, clnt>>

RegIdle ==
    /\ server = "idling"
    /\ MsQuic
    /\ acceptor = {}
    /\ svc \in {"none", "dropped"}
    /\ server' = "closing"
    /\ UNCHANGED <<kind, test, gen, token, lock, acceptor, svc, sconf, sreg, clnt>>

\* drop(config_cp) ...
ConfigClosed ==
    /\ server = "closing"
    /\ server' = "bare"
    /\ sconf' = FALSE
    /\ UNCHANGED <<kind, test, gen, token, lock, acceptor, svc, sreg, clnt>>

\* ... and then drop(reg).
RegClosed ==
    /\ server = "bare"
    /\ server' = "ended"
    /\ sreg' = "closed"
    /\ UNCHANGED <<kind, test, gen, token, lock, acceptor, svc, sconf, clnt>>

\* The task of a closed connection ends, and drops its end of it.
ServerConnEnds ==
    /\ svc = "closed"
    /\ svc' = "dropped"
    /\ UNCHANGED <<kind, test, gen, server, token, lock, acceptor, sconf, sreg, clnt>>

-----------------------------------------------------------------------------
(* The client *)

\* poll_ready of a channel without a connection, or with one whose driver has
\* ended, which it drops.
ClientConnects ==
    /\ test = "hello"
    /\ cli \in {"none", "ended"}
    /\ server = "serving"
    /\ cli' = "open"
    /\ svc' = "pending"
    /\ UNCHANGED <<kind, test, gen, server, token, lock, acceptor, sconf, sreg,
                   client, channel, cconf, creg>>

\* The peer is gone, or the connection closed at this end.
DriverDone == cli = "closed" \/ (cli = "open" /\ svc \in {"closed", "dropped"})

\* The driver ends; the connection is dropped with the last of it and the sender.
ClientConnEnds ==
    /\ DriverDone
    /\ cli' = IF channel = "gone" THEN "dropped" ELSE "ended"
    /\ UNCHANGED <<kind, test, gen, srv, client, channel, cconf, creg>>

\* The worker ends once the last handle is gone, and drops the RequestSender in
\* the order in which fields are declared: of its connector the configuration ...
WorkerDropsConfig ==
    /\ channel = "dropping"
    /\ channel' = "half"
    /\ cconf' = FALSE
    /\ UNCHANGED <<kind, test, gen, srv, cli, client, creg>>

\* ... and the registration ...
WorkerDropsReg ==
    /\ channel = "half"
    /\ channel' = "sender"
    /\ creg' = creg \ {"connector"}
    /\ UNCHANGED <<kind, test, gen, srv, cli, client, cconf>>

\* ... and only then the cached sender, which closes the connection.
WorkerDropsSender ==
    /\ channel = "sender"
    /\ channel' = "gone"
    /\ cli' = CASE cli = "open" -> "closed" [] cli = "ended" -> "dropped" [] OTHER -> cli
    /\ UNCHANGED <<kind, test, gen, srv, client, cconf, creg>>

\* run_*_client: the token closes the client.  quiche has nothing to close.
ClientCloses ==
    /\ client = "cancelled"
    /\ client' = IF MsQuic THEN "idling" ELSE "ended"
    /\ cli' = IF cli = "open" /\ kind # "quiche" THEN "closed" ELSE cli
    /\ UNCHANGED <<kind, test, gen, srv, channel, cconf, creg>>

ClientIdle_at_once ==
    /\ client = "idling"
    /\ client' = "ended"
    /\ creg' = creg \ {"task"}
    /\ UNCHANGED <<kind, test, gen, srv, cli, channel, cconf>>

\* msquic: wait_idle, and the task's owner of the registration is dropped.
ClientIdle ==
    /\ client = "idling"
    /\ cli \in {"none", "dropped"}
    /\ client' = "ended"
    /\ creg' = creg \ {"task"}
    /\ UNCHANGED <<kind, test, gen, srv, cli, channel, cconf>>

-----------------------------------------------------------------------------
(* reconnect_test *)

\* A response, or the unwrap of an error on a connection that is gone.
Hello ==
    /\ test = "hello"
    /\ cli = "open"
    /\ svc # "pending"
    /\ test' = IF svc = "open" THEN "greeted" ELSE "panicked"
    /\ UNCHANGED <<kind, gen, srv, clnt>>

\* The first server is cancelled while the client holds its connection.
CancelServer ==
    /\ test = "greeted" \/ (test = "closing" /\ client = "ended")
    /\ test = "greeted" => gen = 1
    /\ token' = TRUE
    /\ test' = "awaiting"
    /\ UNCHANGED <<kind, gen, server, lock, acceptor, svc, sconf, sreg, clnt>>

\* What the sleep of three seconds waits for, though nothing but its length says so:
\* the tasks of a closed connection end, at both ends.
Settled == svc # "closed" /\ ~DriverDone

\* h_svr.await, and behind the first server the sleep.
Joined ==
    /\ test = "awaiting"
    /\ server = "ended"
    /\ IF gen = 1 THEN Settled /\ test' = "slept" ELSE test' = "passed"
    /\ UNCHANGED <<kind, gen, srv, clnt>>

CloseClient_keeps_channel ==
    /\ test = "greeted"
    /\ gen = 2
    /\ test' = "closing"
    /\ client' = "cancelled"
    /\ UNCHANGED <<kind, gen, srv, cli, channel, cconf, creg>>

\* client_token.cancel, drop(client).
CloseClient ==
    /\ test = "greeted"
    /\ gen = 2
    /\ test' = "closing"
    /\ client' = "cancelled"
    /\ channel' = "dropping"
    /\ UNCHANGED <<kind, gen, srv, cli, cconf, creg>>

-----------------------------------------------------------------------------
Init ==
    /\ kind \in Kinds
    /\ test = "start" /\ gen = 0
    /\ server = "none" /\ token = FALSE /\ lock = "free" /\ acceptor = {}
    /\ svc = "none" /\ sconf = FALSE /\ sreg = "none"
    /\ cli = "none" /\ client = "waiting" /\ channel = "open"
    /\ cconf = MsQuic
    /\ creg = IF MsQuic THEN {"task", "connector"} ELSE {}

\* Nothing obliges an idle connection to time out.
IdleTimeout ==
    /\ cli = "open"
    /\ svc = "open"
    /\ test # "hello"
    /\ svc' = "closed"
    /\ UNCHANGED <<kind, test, gen, server, token, lock, acceptor, sconf, sreg, clnt>>

Step ==
    \/ RunServer \/ AcceptLocks \/ Accept \/ ServeReturns
    \/ CloseEndpoint \/ EndpointIdle
    \/ AcceptorShutdown \/ RegShutdown \/ RegIdle \/ ConfigClosed \/ RegClosed
    \/ ServerConnEnds \/ ClientConnects \/ ClientConnEnds
    \/ WorkerDropsConfig \/ WorkerDropsReg \/ WorkerDropsSender \/ ClientCloses \/ ClientIdle
    \/ Hello \/ CancelServer \/ Joined \/ CloseClient

Next == Step \/ IdleTimeout

Spec == Init /\ [][Next]_vars

\* Every task runs.
FairSpec == Spec /\ WF_vars(Step)

-----------------------------------------------------------------------------
\* The types; only the msquic server and client own registrations, and take the
\* steps of their teardown.
TypeOK ==
    /\ kind \in Kinds
    /\ test \in {"start", "hello", "greeted", "awaiting", "slept", "closing",
                 "passed", "panicked"}
    /\ gen \in 0 .. 2
    /\ server \in {"none", "serving", "returned", "stopped", "idling", "closing",
                   "bare", "ended"}
    /\ token \in BOOLEAN
    /\ lock \in {"free", "accept"}
    /\ acceptor \subseteq {"serve", "cp"}
    /\ svc \in {"none", "pending", "open", "closed", "dropped"}
    /\ cli \in {"none", "open", "closed", "ended", "dropped"}
    /\ sreg \in {"none", "open", "closed"}
    /\ client \in {"waiting", "cancelled", "idling", "ended"}
    /\ channel \in {"open", "dropping", "half", "sender", "gone"}
    /\ creg \subseteq {"task", "connector"}
    /\ {sconf, cconf} \subseteq BOOLEAN
    /\ ~MsQuic => sreg = "none" /\ creg = {} /\ server \notin {"stopped", "closing", "bare"}

\* The assertions of the test hold: three seconds after its task ended a stopped
\* server has given its port back, although the client never let go of the
\* connection, and the client's next request reaches the new server.
TestPasses == test # "panicked"

\* msquic closes a registration last: RegistrationClose, whoever drops the last
\* owner, finds no listener, configuration or connection that it would wait for.
RegistrationClosedLast ==
    MsQuic =>
        /\ sreg = "closed" => acceptor = {} /\ ~sconf /\ svc \in {"none", "dropped"}
        /\ creg = {} => ~cconf /\ cli = "dropped"

\* Every teardown ends: shutdown gets the listener's lock, nobody waits for a
\* connection that only the other side could close, and by the time msquic's client
\* waits for its connections nothing but tasks that end keeps one.
TestEnds == <>(test \in {"passed", "panicked"})
=============================================================================
