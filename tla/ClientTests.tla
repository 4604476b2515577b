----------------------------- MODULE ClientTests -----------------------------
(***************************************************************************)
(* The regression tests of the reconnecting client as models: the           *)
(* connectors and the servers that they inject, one user that sends         *)
(* request after request, by H3Client::send (no buffer) or through an       *)
(* H3Channel, and what they assert.  The client is that of H3Channel and    *)
(* RequestSender; a test is one environment for it, and TLC takes every     *)
(* interleaving where the test relies on sleeps.                            *)
(*                                                                          *)
(* A suffixed name is a wrong variant of the operator it stands next to.    *)
(***************************************************************************)
EXTENDS H3Channel

CONSTANT MaxProbes   \* probes after the GOAWAY; 20 in the test

\* With fewer a test may end before its client has been told and has reconnected.
ASSUME MaxProbesAssumption == MaxProbes \in Nat /\ MaxProbes >= 3

VARIABLES
    scenario,   \* the test
    connects,   \* CountConnect: how often connect was called
    results     \* what the user got so far

testVars == <<allVars, scenario, connects, results>>

\* What each test asserts: the results in order, and the number of connects (which
\* only the first two tests count).
\* A probe may overtake the GOAWAY and time out.
GoawayAsserts ==
    {<< <<"response", "closing_error", "response">>, 2 >>,
     << <<"response", "timeout", "closing_error", "response">>, 2 >>}

\* The test relies on the response being faster than the failing body; here the
\* reset may also win.
StreamErrorAsserts ==
    {<< <<"response", "response">>, 1 >>, << <<"stream_error", "response">>, 1 >>}

FailOnceAsserts    == {<< <<"connect_error", "response">>, 2 >>}

\* The third request is sent by a clone of the channel.
BufferedAsserts    == {<< <<"connect_error", "response", "response">>, 2 >>}

CertErrorAsserts   == {<< <<"connect_error", "connect_error">>, 2 >>}

\* Without a scheme, and without an authority.
BaseUriAsserts     == {<< <<"uri_error">>, 1 >>}

RequestUriAsserts  == {<< <<"response">>, 1 >>}

Asserted ==
    [goaway |-> GoawayAsserts, stream_error |-> StreamErrorAsserts,
     fail_once |-> FailOnceAsserts, fail_once_buffered |-> BufferedAsserts,
     cert_error |-> CertErrorAsserts, base_uri |-> BaseUriAsserts,
     request_uri |-> RequestUriAsserts]

Scenarios == DOMAIN Asserted
Buffered  == scenario \in {"fail_once_buffered", "cert_error"}

\* The test sends no more: its fixed number of requests, or a probe answered.
Over ==
    IF scenario = "goaway"
    THEN \/ Len(results) > MaxProbes
         \/ Len(results) > 1 /\ results[Len(results)] = "response"
    ELSE \E a \in Asserted[scenario] : Len(results) = Len(a[1])

Sending == ~Over /\ \A r \in Requests : req[r] = "idle" /\ chan[r] = "none"

-----------------------------------------------------------------------------
(* The connectors *)

\* connect is called when poll_ready makes a new future.
CountConnect == connects' = IF Connecting /\ ~makeFut THEN connects + 1 ELSE connects

\* FailOnce fails its first call at once; a strict client rejects the server's
\* certificate each time; the others get through.
Connector ==
    /\ CountConnect
    /\ CASE scenario \in {"fail_once", "fail_once_buffered"} /\ connects = 0 -> connectError'
         [] scenario = "cert_error" -> sendRequest' = None
         [] OTHER -> connectError' = connectError

-----------------------------------------------------------------------------
(* The user *)

\* H3Client::send: poll until ready, then call.
SendPolls ==
    /\ ~Buffered /\ Sending /\ ~ready
    /\ PollReady
    /\ Connector
    /\ UNCHANGED <<chanVars, scenario, results>>

SendCalls(r) ==
    /\ ~Buffered /\ Sending /\ ready
    /\ Call(r)
    /\ UNCHANGED <<chanVars, scenario, connects, results>>

\* A tonic client on an H3Channel.
ChannelCall(r) ==
    /\ Buffered
    /\ (Sending /\ Reserve(r)) \/ Enqueue(r)
    /\ UNCHANGED <<scenario, connects, results>>

Worker ==
    \/ WorkerPoll /\ Connector /\ UNCHANGED <<scenario, results>>
    \/ (WorkerNext \/ WorkerCall) /\ UNCHANGED <<scenario, connects, results>>

TakesResult(r) ==
    /\ IF Buffered THEN TakeResult(r) ELSE Collect(r) /\ UNCHANGED chanVars
    /\ results' = Append(results, req[r])
    /\ UNCHANGED <<scenario, connects>>

ProbeTimesOut_unbounded(r) == FALSE

\* The probe's timeout of three seconds, in which a GOAWAY arrives.
ProbeTimesOut(r) ==
    /\ scenario = "goaway"
    /\ req[r] = "awaiting"
    /\ results # <<>> /\ connects = 1
    /\ conn[reqConn[r]] = "goaway"
    /\ DropRequest(r)
    /\ results' = Append(results, "timeout")
    /\ UNCHANGED <<chanVars, scenario, connects>>

-----------------------------------------------------------------------------
(* The servers *)

\* run_goaway_server answers one request on its first connection, sends GOAWAY and
\* takes no more there.
Answers == scenario # "goaway" \/ results = <<>> \/ connects = 2

\* A request on its way: the header is refused only by a closing connection, and
\* in the stream error test the first stream may be reset.
Request(r) ==
    /\ \/ SendHeader(r)
       \/ SendHeaderFails(r) /\ conn[reqConn[r]] = "goaway"
       \/ RecvResponse(r) /\ Answers
       \/ RecvResponseFails(r) /\ scenario = "stream_error" /\ results = <<>>
    /\ UNCHANGED <<chanVars, scenario, connects, results>>

ServerGoesAway(c) ==
    /\ scenario = "goaway" /\ connects = 1
    /\ results # <<>> \/ \E r \in Requests : req[r] = "awaiting"
    /\ GoAway(c)
    /\ UNCHANGED <<chanVars, scenario, connects, results>>

\* A retired connection closes, and its driver ends.
ConnectionCloses(c) ==
    /\ CloseUnused(c) \/ DriverEnds(c)
    /\ UNCHANGED <<chanVars, scenario, connects, results>>

-----------------------------------------------------------------------------
TestInit ==
    /\ ChanInit
    /\ scenario \in Scenarios
    /\ baseUriOk = (scenario # "base_uri")
    /\ connects = 0
    /\ results = <<>>

TestNext ==
    \/ SendPolls \/ Worker
    \/ \E r \in Requests :
        \/ SendCalls(r) \/ ChannelCall(r) \/ TakesResult(r)
        \/ ProbeTimesOut(r) \/ Request(r)
    \/ \E c \in Conns : ServerGoesAway(c) \/ ConnectionCloses(c)

TestSpec == TestInit /\ [][TestNext]_testVars /\ WF_testVars(TestNext)

-----------------------------------------------------------------------------
\* Every test passes, whenever the GOAWAY, the connects and the closing of retired
\* connections happen between its steps: a GOAWAY costs one rejected request and at
\* most one lost probe and makes one reconnect, a stream error makes none, a failed
\* connect is one request's error and is retried by the next.
AssertionsHold == Over => <<results, connects>> \in Asserted[scenario]

\* No test hangs: of all that a test waits for only a probe that overtakes the
\* GOAWAY stays without an answer, and it costs no more than its timeout.
TestsEnd == <>Over
=============================================================================
