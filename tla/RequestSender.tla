---------------------------- MODULE RequestSender ----------------------------
(***************************************************************************)
(* The reconnecting HTTP/3 client of h3-util (client_conn.rs): the service *)
(* RequestSender, the request futures that its `call` creates               *)
(* (send_request_inner), and, as the environment, the h3 connections it     *)
(* dials with their driver tasks.                                           *)
(*                                                                          *)
(* A connection identifier and a flag identifier stand for heap objects     *)
(* (the h3 connection, the Arc<AtomicBool>): like an address, an identifier *)
(* may be used again once nothing refers to it.  So the sender reconnects   *)
(* without end in a finite state space, and no counter of generations is    *)
(* needed.                                                                  *)
(*                                                                          *)
(* An operator whose name is that of another one with a suffix (for         *)
(* example retire_flag_reused) is no part of the specification: it is a     *)
(* deliberately wrong variant, defined next to the right one, with which    *)
(* the properties are shown to notice the mistake.                          *)
(***************************************************************************)
EXTENDS Naturals, FiniteSets

CONSTANTS
    Requests,   \* request futures that may exist at the same time
    Conns,      \* h3 connections
    Flags,      \* Arc<AtomicBool> objects, the generation tags
    None        \* Option::None of an identifier

ASSUME NoneAssumption == None \notin Conns \cup Flags

VARIABLES
    baseUriOk,      \* base_scheme and base_authority are both present
    sendRequest,    \* Option<SendRequest>: the cached connection
    driverRx,       \* Option<oneshot::Receiver>: the connection it watches
    makeFut,        \* make_send_request_fut.is_some(): a connect is under way
    connectError,   \* connect_error.is_some()
    closing,        \* the Arc of the current generation
    flag,           \* the value behind each Arc<AtomicBool>
    conn,           \* what the peer and the transport did to a connection
    driver,         \* the task that polls a connection's driver
    req,            \* where a request future stands, or how it ended
    reqConn,        \* the SendRequest clone the future owns
    reqFlag,        \* the Arc the future captured
    ready           \* caller: poll_ready said Ready(Ok) and no call since

sender == <<baseUriOk, sendRequest, driverRx, makeFut, connectError, closing>>
reqs   == <<req, reqConn, reqFlag>>
vars   == <<sender, flag, conn, driver, reqs, ready>>

InFlightStates == {"created", "awaiting"}
Outcomes == {"response", "connect_error", "uri_error", "not_ready",
             "closing_error", "stream_error", "body_error"}

InFlight == {r \in Requests : req[r] \in InFlightStates}

-----------------------------------------------------------------------------
(* Errors of an h3 stream.  The code can tell the variants apart only by the *)
(* text that they display.                                                   *)

\* The leading words of Display for StreamError (h3 0.0.8).
Display == [RemoteClosing   |-> "Remote is closing the connection",
            ConnectionError |-> "Connection error:",
            StreamError     |-> "Stream error:",
            RemoteTerminate |-> "Remote reset:",
            HeaderTooBig    |-> "Header too big:",
            Undefined       |-> "Undefined error:"]

is_connection_closing_any_remote(err) ==
    Display[err] \in {"Remote is closing the connection", "Connection error:",
                      "Remote reset:"}

is_connection_closing_no_goaway(err) == Display[err] = "Connection error:"

is_connection_closing(err) ==
    Display[err] \in {"Remote is closing the connection", "Connection error:"}

\* What SendRequest::send_request may report: the handle looks at the state
\* that it shares with the driver before it opens a stream.
SendErrors(c) ==
    CASE conn[c] = "closed" -> {"ConnectionError"}
      [] conn[c] = "goaway" -> {"RemoteClosing"}
      [] OTHER -> {"StreamError", "RemoteTerminate", "HeaderTooBig", "Undefined"}

\* What recv_response may report: a GOAWAY leaves the open streams alone.
RecvErrors(c) ==
    IF conn[c] = "closed" THEN {"ConnectionError"}
    ELSE {"StreamError", "RemoteTerminate", "HeaderTooBig", "Undefined"}

-----------------------------------------------------------------------------
(* poll_ready *)

DriverEnded_ok_only == driverRx # None /\ driver[driverRx] = "ended"

\* try_recv returns Ok(()) when the driver task sent, and Closed when the task
\* was dropped before it could.
DriverEnded == driverRx # None /\ driver[driverRx] # "running"

\* poll_ready retires the connection when its driver ended, and then when the
\* flag of the current generation is set.  The first retirement installs a
\* flag that is not set, so at most one of the two takes effect.
Retiring == DriverEnded \/ flag[closing]

FreshFlags == Flags \ ({closing} \cup {reqFlag[r] : r \in Requests})

retire_flag_reused ==
    /\ closing' = closing
    /\ flag' = [flag EXCEPT ![closing] = FALSE]

\* retire_connection, the part that concerns the flag.
retire_flag ==
    /\ closing' \in FreshFlags
    /\ flag' = [flag EXCEPT ![closing'] = FALSE]

\* retire_connection, the part that concerns the sender: what is cached in
\* the rest of this poll_ready.
CachedAfterRetire == IF Retiring THEN None ELSE sendRequest
RxAfterRetire     == IF Retiring THEN None ELSE driverRx

\* A connection nobody refers to: the identifier of a new one.
FreshConns ==
    {c \in Conns : /\ driver[c] # "running"
                   /\ c \notin {sendRequest, driverRx}
                   /\ \A r \in Requests : reqConn[r] # c}

\* The two early returns: a deferred connect error, or the cached sender.
PollCached ==
    /\ connectError \/ CachedAfterRetire # None
    /\ sendRequest' = CachedAfterRetire
    /\ driverRx' = RxAfterRetire
    /\ ready' = TRUE
    /\ UNCHANGED <<makeFut, connectError, conn, driver>>

\* Otherwise a connect future exists or is created, and is polled ...
Connecting == ~connectError /\ CachedAfterRetire = None

\* ... it is still pending,
PollPending ==
    /\ Connecting
    /\ makeFut' = TRUE
    /\ sendRequest' = CachedAfterRetire
    /\ driverRx' = RxAfterRetire
    /\ ready' = FALSE
    /\ UNCHANGED <<connectError, conn, driver>>

\* ... or it connected, and spawned the driver task of the connection,
PollConnected ==
    /\ Connecting
    /\ \E c \in FreshConns :
        /\ sendRequest' = c
        /\ driverRx' = c
        /\ conn' = [conn EXCEPT ![c] = "live"]
        /\ driver' = [driver EXCEPT ![c] = "running"]
    /\ makeFut' = FALSE
    /\ ready' = TRUE
    /\ UNCHANGED connectError

PollFailed_kept_future ==
    /\ Connecting
    /\ connectError' = TRUE
    /\ makeFut' = TRUE
    /\ sendRequest' = CachedAfterRetire
    /\ driverRx' = RxAfterRetire
    /\ ready' = TRUE
    /\ UNCHANGED <<conn, driver>>

PollFailed_error_lost ==
    /\ Connecting
    /\ makeFut' = FALSE
    /\ sendRequest' = CachedAfterRetire
    /\ driverRx' = RxAfterRetire
    /\ ready' = TRUE
    /\ UNCHANGED <<connectError, conn, driver>>

\* ... or it failed: the error waits for the next call.
PollFailed ==
    /\ Connecting
    /\ connectError' = TRUE
    /\ makeFut' = FALSE
    /\ sendRequest' = CachedAfterRetire
    /\ driverRx' = RxAfterRetire
    /\ ready' = TRUE
    /\ UNCHANGED <<conn, driver>>

PollReady ==
    /\ IF Retiring THEN retire_flag ELSE UNCHANGED <<closing, flag>>
    /\ PollCached \/ PollPending \/ PollConnected \/ PollFailed
    /\ UNCHANGED <<baseUriOk, reqs>>

-----------------------------------------------------------------------------
(* call *)

\* The branches of `call`, in the order in which it tries them.
CallOutcome ==
    CASE connectError                -> "connect_error"
      [] ~connectError /\ ~baseUriOk -> "uri_error"
      [] ~connectError /\ baseUriOk /\ sendRequest = None -> "not_ready"
      [] OTHER                       -> "created"

Call_keeps_error(r) ==
    /\ req[r] = "idle"
    /\ req' = [req EXCEPT ![r] = CallOutcome]
    /\ IF CallOutcome = "created"
       THEN /\ reqConn' = [reqConn EXCEPT ![r] = sendRequest]
            /\ reqFlag' = [reqFlag EXCEPT ![r] = closing]
       ELSE UNCHANGED <<reqConn, reqFlag>>
    /\ ready' = FALSE
    /\ UNCHANGED <<sender, flag, conn, driver>>

Call(r) ==
    /\ req[r] = "idle"
    /\ req' = [req EXCEPT ![r] = CallOutcome]
    /\ IF CallOutcome = "created"
       THEN /\ reqConn' = [reqConn EXCEPT ![r] = sendRequest]
            /\ reqFlag' = [reqFlag EXCEPT ![r] = closing]
       ELSE UNCHANGED <<reqConn, reqFlag>>
    /\ connectError' = FALSE
    /\ ready' = FALSE
    /\ UNCHANGED <<baseUriOk, sendRequest, driverRx, makeFut, closing, flag,
                   conn, driver>>

-----------------------------------------------------------------------------
(* send_request_inner *)

Finish_keeps_handle(r, outcome) ==
    /\ req' = [req EXCEPT ![r] = outcome]
    /\ reqConn' = [reqConn EXCEPT ![r] = IF outcome = "closing_error" THEN @ ELSE None]
    /\ reqFlag' = [reqFlag EXCEPT ![r] = None]

\* The future is over: its SendRequest clone and its Arc are dropped.
Finish(r, outcome) ==
    /\ req' = [req EXCEPT ![r] = outcome]
    /\ reqConn' = [reqConn EXCEPT ![r] = None]
    /\ reqFlag' = [reqFlag EXCEPT ![r] = None]

FailStream(r, err) ==
    /\ flag' = IF is_connection_closing(err)
               THEN [flag EXCEPT ![reqFlag[r]] = TRUE]
               ELSE flag
    /\ Finish(r, IF is_connection_closing(err) THEN "closing_error"
                 ELSE "stream_error")

\* The headers are refused: by the connection, or on this stream only.
SendHeaderFails(r) ==
    /\ req[r] = "created"
    /\ \E err \in SendErrors(reqConn[r]) : FailStream(r, err)
    /\ UNCHANGED <<sender, conn, driver, ready>>

\* The headers are sent, and the first poll of the body neither fails nor
\* keeps the future from going on to wait for the response.
SendHeader(r) ==
    /\ req[r] = "created"
    /\ conn[reqConn[r]] = "live"
    /\ req' = [req EXCEPT ![r] = "awaiting"]
    /\ UNCHANGED <<sender, flag, conn, driver, reqConn, reqFlag, ready>>

\* The headers are sent but the eager poll of the body fails.
EagerBodyFails(r) ==
    /\ req[r] = "created"
    /\ conn[reqConn[r]] = "live"
    /\ Finish(r, "body_error")
    /\ UNCHANGED <<sender, flag, conn, driver, ready>>

RecvResponse(r) ==
    /\ req[r] = "awaiting"
    /\ Finish(r, "response")
    /\ UNCHANGED <<sender, flag, conn, driver, ready>>

RecvResponseFails(r) ==
    /\ req[r] = "awaiting"
    /\ \E err \in RecvErrors(reqConn[r]) : FailStream(r, err)
    /\ UNCHANGED <<sender, conn, driver, ready>>

\* The caller drops a future that is not over.
DropRequest(r) ==
    /\ r \in InFlight
    /\ Finish(r, "idle")
    /\ UNCHANGED <<sender, flag, conn, driver, ready>>

\* The caller takes the result; the slot may carry another request.
Collect(r) ==
    /\ req[r] \in Outcomes
    /\ req' = [req EXCEPT ![r] = "idle"]
    /\ UNCHANGED <<sender, flag, conn, driver, reqConn, reqFlag, ready>>

-----------------------------------------------------------------------------
(* The h3 connections and their drivers: the environment. *)

\* The peer announces that it takes no new request.
GoAway(c) ==
    /\ conn[c] = "live"
    /\ conn' = [conn EXCEPT ![c] = "goaway"]
    /\ UNCHANGED <<sender, flag, driver, reqs, ready>>

\* The connection is lost: peer close, idle timeout, transport error.
ConnLost(c) ==
    /\ conn[c] # "closed"
    /\ conn' = [conn EXCEPT ![c] = "closed"]
    /\ UNCHANGED <<sender, flag, driver, reqs, ready>>

\* h3 closes a connection when the last SendRequest handle is dropped.
NoHandle(c) == sendRequest # c /\ \A r \in Requests : reqConn[r] # c

CloseUnused(c) == NoHandle(c) /\ ConnLost(c)

\* poll_close returned, and the task sends on the oneshot.
DriverEnds(c) ==
    /\ driver[c] = "running"
    /\ conn[c] = "closed"
    /\ driver' = [driver EXCEPT ![c] = "ended"]
    /\ UNCHANGED <<sender, flag, conn, reqs, ready>>

\* The executor drops the task, and with it the oneshot's sender.
DriverAborted(c) ==
    /\ driver[c] = "running"
    /\ driver' = [driver EXCEPT ![c] = "aborted"]
    /\ conn' = [conn EXCEPT ![c] = "closed"]
    /\ UNCHANGED <<sender, flag, reqs, ready>>

-----------------------------------------------------------------------------
Init ==
    /\ baseUriOk \in BOOLEAN
    /\ sendRequest = None
    /\ driverRx = None
    /\ makeFut = FALSE
    /\ connectError = FALSE
    /\ closing \in Flags
    /\ flag = [f \in Flags |-> FALSE]
    /\ conn = [c \in Conns |-> "closed"]
    /\ driver = [c \in Conns |-> "ended"]
    /\ req = [r \in Requests |-> "idle"]
    /\ reqConn = [r \in Requests |-> None]
    /\ reqFlag = [r \in Requests |-> None]
    /\ ready = FALSE

RequestStep(r) ==
    \/ SendHeader(r) \/ SendHeaderFails(r) \/ EagerBodyFails(r)
    \/ RecvResponse(r) \/ RecvResponseFails(r)

ConnStep(c) ==
    \/ GoAway(c) \/ ConnLost(c) \/ DriverEnds(c) \/ DriverAborted(c)

Next ==
    \/ PollReady
    \/ \E r \in Requests :
        Call(r) \/ RequestStep(r) \/ DropRequest(r) \/ Collect(r)
    \/ \E c \in Conns : ConnStep(c)

Spec == Init /\ [][Next]_vars

-----------------------------------------------------------------------------
(* Fairness, for liveness only. *)

\* The caller polls until it is told Ready, and a connect attempt ends.
PollResolves == PollReady /\ ready'

\* Traffic goes on: a ready caller with a free slot sends a request.
CallWhenReady == ready /\ \E r \in Requests : Call(r)

\* A connect attempt succeeds.
PollConnects == PollReady /\ sendRequest' # None /\ sendRequest' # sendRequest

Fairness ==
    /\ WF_vars(PollResolves)
    /\ WF_vars(CallWhenReady)
    /\ \A r \in Requests : SF_vars(RequestStep(r)) /\ WF_vars(Collect(r))
    /\ \A c \in Conns : WF_vars(DriverEnds(c)) /\ WF_vars(CloseUnused(c))

FairSpec == Spec /\ Fairness

-----------------------------------------------------------------------------
(* Safety *)

\* The types; a request future owns a handle and a flag exactly while it runs,
\* so `call` never clones a sender that is not there.
TypeOK ==
    /\ baseUriOk \in BOOLEAN
    /\ sendRequest \in Conns \cup {None}
    /\ driverRx \in Conns \cup {None}
    /\ makeFut \in BOOLEAN
    /\ connectError \in BOOLEAN
    /\ closing \in Flags
    /\ flag \in [Flags -> BOOLEAN]
    /\ conn \in [Conns -> {"live", "goaway", "closed"}]
    /\ driver \in [Conns -> {"running", "ended", "aborted"}]
    /\ req \in [Requests -> {"idle"} \cup InFlightStates \cup Outcomes]
    /\ reqConn \in [Requests -> Conns \cup {None}]
    /\ reqFlag \in [Requests -> Flags \cup {None}]
    /\ ready \in BOOLEAN
    /\ \A r \in Requests :
        IF r \in InFlight THEN reqConn[r] \in Conns /\ reqFlag[r] \in Flags
                         ELSE reqConn[r] = None /\ reqFlag[r] = None

\* poll_ready's `assert!`s on the cache-hit path cannot fail, and it never
\* returns early with an error while it also holds a connection or dials one:
\* the cached sender comes with the receiver of its own driver, and of a cached
\* sender, a connect in progress and a deferred error at most one exists.
OnePhase ==
    /\ driverRx = sendRequest
    /\ sendRequest # None => ~makeFut /\ ~connectError
    /\ connectError => ~makeFut

\* The Arc of the current generation is a generation tag: a request that holds
\* it owns a clone of the sender that is cached now, and two requests hold the
\* same Arc only if they run on the same connection.
GenerationTag ==
    /\ \A r \in InFlight : reqFlag[r] = closing => reqConn[r] = sendRequest
    /\ \A r, q \in InFlight : reqFlag[r] = reqFlag[q] => reqConn[r] = reqConn[q]

\* A set flag tells the truth: the connection of the request that holds it, and
\* the cached one if it is the current flag, takes no new request; and the
\* driver of a connection that takes them still runs.
FlagMeansClosing ==
    /\ \A r \in InFlight : flag[reqFlag[r]] => conn[reqConn[r]] # "live"
    /\ flag[closing] => sendRequest # None /\ conn[sendRequest] # "live"
    /\ \A c \in Conns : conn[c] = "live" => driver[c] = "running"

\* A healthy cached connection is never given up: neither a late error from a
\* connection retired before, nor an error of a single stream, nor a dropped
\* request makes poll_ready retire a sender whose connection accepts requests.
HealthySenderKept ==
    [][sendRequest # None /\ sendRequest' # sendRequest
          => conn[sendRequest] # "live"]_vars

\* No request is spent on a connection whose driver had ended, or had been dropped by
\* its executor, when the sender became ready: such a connection opens no stream, and
\* the driver's end may reach poll_ready before the flag of any request.
EndedDriverNotReused ==
    [][~ready /\ ready' /\ ~connectError' => driver'[sendRequest'] = "running"]_vars

\* Only a caller that skips poll_ready meets call's defensive "not ready"
\* error: between a Ready(Ok) and the next call the sender or the deferred
\* error cannot get lost.
ReadyIsHonoured ==
    [][\A r \in Requests : req[r] = "idle" /\ req'[r] = "not_ready" => ~ready]_vars

-----------------------------------------------------------------------------
(* Liveness *)

\* A cached connection that the peer is closing, or that is gone, is replaced:
\* a GOAWAY, which does not end the driver, is discovered by a request that it
\* rejects, and poll_ready then drops the sender.  (Without a base URI no
\* request reaches the connection, and a GOAWAY goes unnoticed.)
StaleSenderReplaced ==
    \A c \in Conns :
        (baseUriOk /\ sendRequest = c /\ conn[c] # "live") ~> (sendRequest # c)

\* Neither a failed connect nor a lost connection is terminal: while a server
\* can be reached again and again (not every connect attempt fails), the sender
\* holds a connection again and again.
SenderRecovers == SF_vars(PollConnects) => []<>(sendRequest # None)

\* A retired connection does not leak its driver task: once the sender is
\* dropped and the requests on it are over, the task ends.
RetiredDriverEnds ==
    \A c \in Conns :
        (driver[c] = "running" /\ sendRequest # c)
            ~> (driver[c] # "running" \/ sendRequest = c)
=============================================================================
