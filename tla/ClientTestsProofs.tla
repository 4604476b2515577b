-------------------------- MODULE ClientTestsProofs --------------------------
(***************************************************************************)
(* The tests of the reconnecting client pass for any number of probes,      *)
(* connections and flags: the invariant follows the story that each test    *)
(* tells, from the first connect to the last result.                        *)
(***************************************************************************)
EXTENDS ClientTests, H3ChannelProofs

Busy(r) == req[r] # "idle" \/ chan[r] # "none"

AllIdle == \A r \in Requests : req[r] = "idle"

\* One request at a time, and none when the test is over.
OneUser ==
    \A r \in Requests :
        Busy(r) => ~Over /\ \A q \in Requests : Busy(q) => q = r

\* The client of a test: a channel, or a sender of its own.
Unused ==
    /\ queue = <<>> /\ current = None
    /\ \A r \in Requests : chan[r] = "none"
    /\ ready => AllIdle

Client == IF Buffered THEN CInv ELSE Unused

\* The cached connection serves, but for a GOAWAY, and the request runs on it.
Kept ==
    /\ sendRequest # None =>
        /\ driver[sendRequest] = "running"
        /\ \/ conn[sendRequest] = "live"
           \/ conn[sendRequest] = "goaway" /\ scenario = "goaway" /\ connects = 1
    /\ \A r \in InFlight : reqConn[r] = sendRequest /\ reqFlag[r] = closing

-----------------------------------------------------------------------------
(* The story of each test *)

Got(S) == \A r \in Requests : req[r] \in {"idle"} \cup S
Runs   == {"created", "awaiting", "response"}

\* One connect, which succeeds.
OneConnect ==
    /\ ~connectError
    /\ connects = IF makeFut \/ sendRequest # None THEN 1 ELSE 0
    /\ ~AllIdle \/ results # <<>> => sendRequest # None

BaseUriStory ==
    OneConnect /\ Got({"uri_error"}) /\ results \in {<<>>, <<"uri_error">>}

RequestUriStory ==
    OneConnect /\ Got(Runs) /\ results \in {<<>>, <<"response">>}

StreamErrorStory ==
    /\ OneConnect
    /\ Got(IF results = <<>> THEN Runs \cup {"stream_error"} ELSE Runs)
    /\ results \in {<<>>, <<"response">>, <<"stream_error">>,
                    <<"response", "response">>, <<"stream_error", "response">>}

\* The first connect fails and is the first request's error; the second succeeds.
FailOnceStory ==
    /\ connects \in {0, 1, 2}
    /\ connects < 2 => sendRequest = None /\ ~makeFut
    /\ connects = 0 => ~connectError /\ results = <<>> /\ AllIdle
    /\ connects = 1 =>
        \/ connectError /\ results = <<>> /\ AllIdle
        \/ ~connectError /\ results = <<>> /\ ~AllIdle /\ Got({"connect_error"})
        \/ ~connectError /\ results = <<"connect_error">> /\ AllIdle
    /\ connects = 2 =>
        /\ ~connectError
        /\ makeFut \/ sendRequest # None
        /\ Got(Runs)
        /\ ~AllIdle \/ results # <<"connect_error">> => sendRequest # None
        /\ results \in {<<"connect_error">>, <<"connect_error", "response">>,
                        <<"connect_error", "response", "response">>}
        /\ Len(results) = 3 => scenario = "fail_once_buffered"

\* Every connect fails, and is one request's error.
CertErrorStory ==
    /\ sendRequest = None
    /\ makeFut => current # None
    /\ Got({"connect_error"})
    /\ results \in {<<>>, <<"connect_error">>, <<"connect_error", "connect_error">>}
    /\ connects = Len(results)
                    + IF makeFut \/ connectError \/ ~AllIdle THEN 1 ELSE 0

\* Before the client has heard of the GOAWAY, and after.
Unaware == {<<>>, <<"response">>, <<"response", "timeout">>}
Told    == {<<"response", "closing_error">>, <<"response", "timeout", "closing_error">>}
Done    == {<<"response", "closing_error", "response">>,
            <<"response", "timeout", "closing_error", "response">>}

FirstConnection ==
    /\ results \in Unaware \cup Told
    /\ ~AllIdle \/ results # <<>> => sendRequest # None
    /\ results \in Told => flag[closing] /\ AllIdle /\ ~ready
    /\ flag[closing] => results \in Told \/ (Got({"closing_error"}) /\ ~AllIdle)
    /\ results = <<>> =>
        /\ Got(Runs)
        /\ sendRequest # None /\ conn[sendRequest] # "live"
              => \E r \in Requests : req[r] \in {"awaiting", "response"}
    /\ results = <<"response">> => Got({"created", "awaiting", "closing_error"})
    /\ results = <<"response", "timeout">> =>
        Got({"created", "closing_error"}) /\ conn[sendRequest] = "goaway"
    /\ \A r \in Requests : req[r] = "closing_error" => flag[closing]

SecondConnection ==
    /\ results \in Told \cup Done
    /\ Got(Runs)
    /\ ~AllIdle \/ results \in Done => sendRequest # None

GoawayStory ==
    /\ ~connectError
    /\ connects \in {0, 1, 2}
    /\ connects = 0 => sendRequest = None /\ ~makeFut /\ results = <<>> /\ AllIdle
    /\ connects # 0 => makeFut \/ sendRequest # None
    /\ connects = 1 => FirstConnection
    /\ connects = 2 => SecondConnection

Story ==
    /\ scenario \in Scenarios
    /\ baseUriOk = (scenario # "base_uri")
    /\ scenario = "base_uri" => BaseUriStory
    /\ scenario = "request_uri" => RequestUriStory
    /\ scenario = "stream_error" => StreamErrorStory
    /\ scenario \in {"fail_once", "fail_once_buffered"} => FailOnceStory
    /\ scenario = "cert_error" => CertErrorStory
    /\ scenario = "goaway" => GoawayStory

TInv == IInv /\ Client /\ OneUser /\ Kept /\ Story

USE MaxProbesAssumption

-----------------------------------------------------------------------------
(* Sequences of results *)

\* The sequence that one more element makes.
LEMMA AppendIs ==
    ASSUME NEW S, NEW s \in Seq(S), NEW t \in Seq(S), NEW x \in S,
           Len(t) = Len(s) + 1, \A i \in 1 .. Len(s) : t[i] = s[i], t[Len(t)] = x
    PROVE  Append(s, x) = t
<1>1. /\ Append(s, x) \in Seq(S)
      /\ Len(Append(s, x)) = Len(t)
      /\ \A i \in 1 .. Len(s) : Append(s, x)[i] = t[i]
      /\ Append(s, x)[Len(t)] = t[Len(t)]
  BY AppendProperties
<1>2. Len(s) \in Nat
  BY LenProperties
<1>3. \A i \in 1 .. Len(t) : Append(s, x)[i] = t[i]
  BY <1>1, <1>2
<1> QED
  BY <1>1, <1>3, SeqEqual

\* The sequences that the results run through.
LEMMA Appended ==
    /\ \A x : Append(<<>>, x) = <<x>>
    /\ \A x, y : Append(<<x>>, y) = <<x, y>>
    /\ \A x, y, z : Append(<<x, y>>, z) = <<x, y, z>>
    /\ \A x, y, z, u : Append(<<x, y, z>>, u) = <<x, y, z, u>>
<1>1. ASSUME NEW x PROVE Append(<<>>, x) = <<x>>
  OBVIOUS
<1>2. ASSUME NEW x, NEW y PROVE Append(<<x>>, y) = <<x, y>>
  <2>1. <<x>> \in Seq({x, y}) /\ <<x, y>> \in Seq({x, y})
    OBVIOUS
  <2>2. /\ Len(<<x, y>>) = Len(<<x>>) + 1
        /\ \A i \in 1 .. Len(<<x>>) : <<x, y>>[i] = <<x>>[i]
        /\ <<x, y>>[Len(<<x, y>>)] = y
    OBVIOUS
  <2>3. y \in {x, y}
    OBVIOUS
  <2> QED
    BY <2>1, <2>2, <2>3, AppendIs, Zenon
<1>3. ASSUME NEW x, NEW y, NEW z PROVE Append(<<x, y>>, z) = <<x, y, z>>
  <2>1. <<x, y>> \in Seq({x, y, z}) /\ <<x, y, z>> \in Seq({x, y, z})
    OBVIOUS
  <2>2. /\ Len(<<x, y, z>>) = Len(<<x, y>>) + 1
        /\ \A i \in 1 .. Len(<<x, y>>) : <<x, y, z>>[i] = <<x, y>>[i]
        /\ <<x, y, z>>[Len(<<x, y, z>>)] = z
    OBVIOUS
  <2>3. z \in {x, y, z}
    OBVIOUS
  <2> QED
    BY <2>1, <2>2, <2>3, AppendIs, Zenon
<1>4. ASSUME NEW x, NEW y, NEW z, NEW u
      PROVE  Append(<<x, y, z>>, u) = <<x, y, z, u>>
  <2>1. /\ <<x, y, z>> \in Seq({x, y, z, u})
        /\ <<x, y, z, u>> \in Seq({x, y, z, u})
    OBVIOUS
  <2>2. /\ Len(<<x, y, z, u>>) = Len(<<x, y, z>>) + 1
        /\ \A i \in 1 .. Len(<<x, y, z>>) : <<x, y, z, u>>[i] = <<x, y, z>>[i]
        /\ <<x, y, z, u>>[Len(<<x, y, z, u>>)] = u
    OBVIOUS
  <2>3. u \in {x, y, z, u}
    OBVIOUS
  <2> QED
    BY <2>1, <2>2, <2>3, AppendIs, Zenon
<1> QED
  BY <1>1, <1>2, <1>3, <1>4

\* What each test asserts.
LEMMA AssertedIs ==
    /\ Scenarios = {"goaway", "stream_error", "fail_once", "fail_once_buffered",
                    "cert_error", "base_uri", "request_uri"}
    /\ Asserted["goaway"] = GoawayAsserts
    /\ Asserted["stream_error"] = StreamErrorAsserts
    /\ Asserted["fail_once"] = FailOnceAsserts
    /\ Asserted["fail_once_buffered"] = BufferedAsserts
    /\ Asserted["cert_error"] = CertErrorAsserts
    /\ Asserted["base_uri"] = BaseUriAsserts
    /\ Asserted["request_uri"] = RequestUriAsserts
  BY DEF Scenarios, Asserted

\* When each test is over.
LEMMA OverMeans ==
    /\ scenario = "base_uri" => (Over <=> Len(results) = 1)
    /\ scenario = "request_uri" => (Over <=> Len(results) = 1)
    /\ scenario = "stream_error" => (Over <=> Len(results) = 2)
    /\ scenario = "fail_once" => (Over <=> Len(results) = 2)
    /\ scenario = "fail_once_buffered" => (Over <=> Len(results) = 3)
    /\ scenario = "cert_error" => (Over <=> Len(results) = 2)
<1>1. CASE scenario = "base_uri"
  BY <1>1, AssertedIs DEF Over, BaseUriAsserts
<1>2. CASE scenario = "request_uri"
  BY <1>2, AssertedIs DEF Over, RequestUriAsserts
<1>3. CASE scenario = "stream_error"
  BY <1>3, AssertedIs DEF Over, StreamErrorAsserts
<1>4. CASE scenario = "fail_once"
  BY <1>4, AssertedIs DEF Over, FailOnceAsserts
<1>5. CASE scenario = "fail_once_buffered"
  BY <1>5, AssertedIs DEF Over, BufferedAsserts
<1>6. CASE scenario = "cert_error"
  BY <1>6, AssertedIs DEF Over, CertErrorAsserts
<1> QED
  BY <1>1, <1>2, <1>3, <1>4, <1>5, <1>6

\* A told client with three probes or more is not done.
LEMMA GoawayOver ==
    ASSUME scenario = "goaway"
    PROVE  /\ results \in Unaware \cup Told => ~Over
           /\ results \in Done => Over
<1>1. Over <=> \/ Len(results) > MaxProbes
               \/ Len(results) > 1 /\ results[Len(results)] = "response"
  BY DEF Over
<1>2. ASSUME results \in Unaware \cup Told PROVE ~Over
  <2>1. Len(results) \in {0, 1, 2, 3}
    BY <1>2 DEF Unaware, Told
  <2>2. Len(results) > 1 => results[Len(results)] # "response"
    <3>1. CASE results \in {<<>>, <<"response">>}
      BY <3>1
    <3>2. CASE results = <<"response", "timeout">>
      BY <3>2
    <3>3. CASE results = <<"response", "closing_error">>
      BY <3>3
    <3>4. CASE results = <<"response", "timeout", "closing_error">>
      BY <3>4
    <3> QED
      BY <1>2, <3>1, <3>2, <3>3, <3>4 DEF Unaware, Told
  <2> QED
    BY <1>1, <2>1, <2>2
<1>3. ASSUME results \in Done PROVE Over
  <2>1. CASE results = <<"response", "closing_error", "response">>
    BY <1>1, <2>1
  <2>2. CASE results = <<"response", "timeout", "closing_error", "response">>
    BY <1>1, <2>2
  <2> QED
    BY <1>3, <2>1, <2>2 DEF Done
<1> QED
  BY <1>2, <1>3

\* The invariant is what the tests assert.
LEMMA StoryAsserts == Story /\ Client /\ OneUser => AssertionsHold
<1> SUFFICES ASSUME Story, Client, OneUser, Over
             PROVE  <<results, connects>> \in Asserted[scenario]
  BY DEF AssertionsHold
<1>0. AllIdle
  BY DEF OneUser, Busy, AllIdle
<1>1. CASE scenario = "base_uri"
  <2>1. Len(results) = 1
    BY <1>1, OverMeans
  <2>2. results = <<"uri_error">> /\ OneConnect
    BY <1>1, <2>1 DEF Story, BaseUriStory
  <2>3. connects = 1
    BY <2>2 DEF OneConnect
  <2> QED
    BY <1>1, <2>2, <2>3, AssertedIs DEF BaseUriAsserts
<1>2. CASE scenario = "request_uri"
  <2>1. Len(results) = 1
    BY <1>2, OverMeans
  <2>2. results = <<"response">> /\ OneConnect
    BY <1>2, <2>1 DEF Story, RequestUriStory
  <2>3. connects = 1
    BY <2>2 DEF OneConnect
  <2> QED
    BY <1>2, <2>2, <2>3, AssertedIs DEF RequestUriAsserts
<1>3. CASE scenario = "stream_error"
  <2>1. Len(results) = 2
    BY <1>3, OverMeans
  <2>2. results \in {<<"response", "response">>, <<"stream_error", "response">>}
    BY <1>3, <2>1 DEF Story, StreamErrorStory
  <2>3. connects = 1
    BY <1>3, <2>2 DEF Story, StreamErrorStory, OneConnect
  <2> QED
    BY <1>3, <2>2, <2>3, AssertedIs DEF StreamErrorAsserts
<1>4. CASE scenario = "fail_once"
  <2>1. Len(results) = 2
    BY <1>4, OverMeans
  <2>2. results = <<"connect_error", "response">> /\ connects = 2
    BY <1>4, <2>1 DEF Story, FailOnceStory
  <2> QED
    BY <1>4, <2>2, AssertedIs DEF FailOnceAsserts
<1>5. CASE scenario = "fail_once_buffered"
  <2>1. Len(results) = 3
    BY <1>5, OverMeans
  <2>2. results = <<"connect_error", "response", "response">> /\ connects = 2
    <3>1. results # <<>> /\ results # <<"connect_error">>
      BY <2>1
    <3>2. connects = 2
      BY <1>5, <3>1 DEF Story, FailOnceStory
    <3>3. results \in {<<"connect_error">>, <<"connect_error", "response">>,
                       <<"connect_error", "response", "response">>}
      BY <1>5, <3>2 DEF Story, FailOnceStory
    <3> QED
      BY <2>1, <3>2, <3>3
  <2> QED
    BY <1>5, <2>2, AssertedIs DEF BufferedAsserts
<1>6. CASE scenario = "cert_error"
  <2>1. current = None
    <3> SUFFICES ASSUME current # None PROVE FALSE
      OBVIOUS
    <3>1. CInv
      BY <1>6 DEF Client, Buffered
    <3>2. current \in Requests /\ chan[current] \in {"queued", "dropped"}
      BY <3>1 DEF CInv, ChanTyped, Placed
    <3> QED
      BY <3>2 DEF OneUser, Busy
  <2>2. ~connectError /\ ~makeFut
    BY <1>6, <2>1 DEF Client, Buffered, CInv, ErrorHasAnOwner, Story, CertErrorStory
  <2>3. Len(results) = 2
    BY <1>6, OverMeans
  <2>4. results = <<"connect_error", "connect_error">> /\ connects = 2
    <3>1. results = <<"connect_error", "connect_error">>
      BY <1>6, <2>3 DEF Story, CertErrorStory
    <3>2. connects = Len(results) + 0
      BY <1>0, <1>6, <2>2 DEF Story, CertErrorStory
    <3> QED
      BY <2>3, <3>1, <3>2
  <2> QED
    BY <1>6, <2>4, AssertedIs DEF CertErrorAsserts
<1>7. CASE scenario = "goaway"
  <2>1. results \in Done /\ connects = 2
    BY <1>7, GoawayOver DEF Story, GoawayStory, FirstConnection, SecondConnection, Unaware
  <2> QED
    BY <1>7, <2>1, AssertedIs DEF Done, GoawayAsserts
<1> QED
  BY <1>1, <1>2, <1>3, <1>4, <1>5, <1>6, <1>7, AssertedIs DEF Story

-----------------------------------------------------------------------------
(* Who may move *)

\* While the worker holds a request, no future runs.
LEMMA HandIdle ==
    ASSUME TInv, Buffered, current # None
    PROVE  AllIdle /\ ~Over /\ current \in Requests
<1>1. CInv
  BY DEF TInv, Client
<1>2. current \in Requests
  BY <1>1 DEF CInv, ChanTyped
<1>3. chan[current] \in {"queued", "dropped"} /\ req[current] = "idle"
  BY <1>1, <1>2 DEF CInv, Placed
<1> QED
  BY <1>2, <1>3 DEF TInv, OneUser, Busy, AllIdle

\* The client polls its sender.
Polls ==
    /\ PollReady /\ Connector
    /\ AllIdle /\ ~Over /\ ~ready
    /\ Buffered => current # None
    /\ UNCHANGED <<chanVars, scenario, results>>

\* The client calls its sender.
Calls(r) ==
    /\ Call(r) /\ ready
    /\ AllIdle /\ ~Over
    /\ UNCHANGED <<scenario, connects, results>>

LEMMA PollMoves ==
    ASSUME TInv, SendPolls \/ (WorkerPoll /\ Connector /\ UNCHANGED <<scenario, results>>)
    PROVE  Polls
<1>1. CASE SendPolls
  BY <1>1 DEF SendPolls, Polls, Sending, AllIdle
<1>2. CASE WorkerPoll /\ Connector /\ UNCHANGED <<scenario, results>>
  <2>1. Buffered /\ current # None
    BY <1>2 DEF WorkerPoll, TInv, Client, Unused
  <2> QED
    BY <1>2, <2>1, HandIdle DEF WorkerPoll, Polls
<1> QED
  BY <1>1, <1>2

LEMMA CallMoves ==
    ASSUME TInv
    PROVE  /\ \A r \in Requests : SendCalls(r) => Calls(r)
           /\ WorkerCall /\ UNCHANGED <<scenario, connects, results>>
                 => Buffered /\ current \in Requests /\ Calls(current)
<1>1. ASSUME NEW r \in Requests, SendCalls(r) PROVE Calls(r)
  BY <1>1 DEF SendCalls, Calls, Sending, AllIdle
<1>2. ASSUME WorkerCall, UNCHANGED <<scenario, connects, results>>
      PROVE  Buffered /\ current \in Requests /\ Calls(current)
  <2>1. Buffered /\ current # None
    BY <1>2 DEF WorkerCall, TInv, Client, Unused
  <2> QED
    BY <1>2, <2>1, HandIdle DEF WorkerCall, Calls
<1> QED
  BY <1>1, <1>2

-----------------------------------------------------------------------------
(* The sender and the channel *)

\* Every step of a test is a step of the sender, or leaves it alone.
LEMMA StepIsSenderStep ==
    ASSUME TInv, [TestNext]_testVars
    PROVE  [Next]_vars
<1>1. CASE SendPolls
  BY <1>1 DEF SendPolls, Next
<1>2. CASE Worker
  <2>1. CASE WorkerPoll
    BY <2>1 DEF WorkerPoll, Next
  <2>2. CASE WorkerNext
    BY <2>2 DEF WorkerNext
  <2>3. CASE WorkerCall /\ UNCHANGED <<scenario, connects, results>>
    BY <2>3, CallMoves DEF Calls, Next
  <2> QED
    BY <1>2, <2>1, <2>2, <2>3 DEF Worker
<1>3. ASSUME NEW r \in Requests,
             \/ SendCalls(r) \/ ChannelCall(r) \/ TakesResult(r)
             \/ ProbeTimesOut(r) \/ Request(r)
      PROVE  [Next]_vars
  <2>1. CASE ChannelCall(r)
    BY <2>1 DEF ChannelCall, Reserve, Enqueue
  <2> QED
    BY <1>3, <2>1 DEF SendCalls, TakesResult, TakeResult, ProbeTimesOut, Request,
                      RequestStep, Next
<1>4. ASSUME NEW c \in Conns, ServerGoesAway(c) \/ ConnectionCloses(c)
      PROVE  [Next]_vars
  BY <1>4 DEF ServerGoesAway, ConnectionCloses, CloseUnused, ConnStep, Next
<1>5. CASE UNCHANGED testVars
  BY <1>5 DEF testVars, allVars
<1> QED
  BY <1>1, <1>2, <1>3, <1>4, <1>5 DEF TestNext

\* A test through a channel keeps the invariant of the channel.
LEMMA ChannelStep ==
    ASSUME TInv, [TestNext]_testVars, Buffered
    PROVE  CInv'
<1>0. CInv /\ ~(scenario = "goaway")
  BY DEF TInv, Client, Buffered
<1>1. ASSUME UNCHANGED <<connectError, ready, req, queue, current, chan>> PROVE CInv'
  BY <1>0, <1>1, StepIsSenderStep, IInvStep, QuietStep DEF CInv
<1>2. CASE Worker
  BY <1>0, <1>2, WorkerKeeps DEF Worker, WorkerStep
<1>3. ASSUME NEW r \in Requests,
             \/ SendCalls(r) \/ ChannelCall(r) \/ TakesResult(r)
             \/ ProbeTimesOut(r) \/ Request(r)
      PROVE  CInv'
  <2>1. CASE ChannelCall(r)
    BY <1>0, <2>1, HandleStep DEF ChannelCall
  <2>2. CASE TakesResult(r)
    BY <1>0, <2>2, FutureStep DEF TakesResult
  <2>3. CASE Request(r)
    BY <1>0, <2>3, FutureStep DEF Request, RunRequest, RequestStep
  <2> QED
    BY <1>0, <1>3, <2>1, <2>2, <2>3 DEF SendCalls, ProbeTimesOut
<1>4. ASSUME NEW c \in Conns, ServerGoesAway(c) \/ ConnectionCloses(c) PROVE CInv'
  <2>1. UNCHANGED <<sender, reqs, ready, chanVars>>
    BY <1>4 DEF ServerGoesAway, ConnectionCloses, CloseUnused, ConnLost, GoAway, DriverEnds
  <2> QED
    BY <1>1, <2>1 DEF sender, reqs, chanVars
<1>5. CASE UNCHANGED testVars
  BY <1>1, <1>5 DEF testVars, allVars, vars, sender, reqs, chanVars
<1> QED
  BY <1>2, <1>3, <1>4, <1>5 DEF TestNext, SendPolls

\* A test without a channel leaves it alone, and is ready only between requests.
LEMMA UnusedStep ==
    ASSUME TInv, [TestNext]_testVars, ~Buffered
    PROVE  Unused'
<1>0. Unused
  BY DEF TInv, Client
<1>1. ASSUME UNCHANGED chanVars, ready' => AllIdle' PROVE Unused'
  BY <1>0, <1>1 DEF Unused, chanVars
<1>2. CASE SendPolls
  BY <1>1, <1>2, PollMoves DEF Polls, PollReady, reqs, AllIdle
<1>3. CASE Worker
  BY <1>0, <1>3 DEF Unused, Worker, WorkerPoll, WorkerNext, WorkerCall
<1>4. ASSUME NEW r \in Requests,
             \/ SendCalls(r) \/ ChannelCall(r) \/ TakesResult(r)
             \/ ProbeTimesOut(r) \/ Request(r)
      PROVE  Unused'
  <2>1. CASE SendCalls(r)
    BY <1>1, <2>1 DEF SendCalls, Call
  <2>2. ASSUME UNCHANGED <<chanVars, ready>>, req[r] # "idle" PROVE Unused'
    BY <1>0, <1>1, <2>2 DEF Unused, AllIdle
  <2>3. CASE TakesResult(r)
    BY <2>2, <2>3 DEF TakesResult, Collect, Outcomes
  <2>4. CASE ProbeTimesOut(r)
    BY <2>2, <2>4 DEF ProbeTimesOut, DropRequest, InFlight, InFlightStates
  <2>5. CASE Request(r)
    BY <2>2, <2>5 DEF Request, SendHeader, SendHeaderFails, RecvResponse, RecvResponseFails
  <2> QED
    BY <1>4, <2>1, <2>3, <2>4, <2>5 DEF ChannelCall
<1>5. ASSUME NEW c \in Conns, ServerGoesAway(c) \/ ConnectionCloses(c) PROVE Unused'
  <2>1. UNCHANGED <<reqs, ready, chanVars>>
    BY <1>5 DEF ServerGoesAway, ConnectionCloses, CloseUnused, ConnLost, GoAway, DriverEnds
  <2> QED
    BY <1>0, <1>1, <2>1 DEF reqs, Unused, AllIdle
<1>6. CASE UNCHANGED testVars
  BY <1>0, <1>1, <1>6 DEF testVars, allVars, vars, reqs, Unused, AllIdle
<1> QED
  BY <1>2, <1>3, <1>4, <1>5, <1>6 DEF TestNext

LEMMA ClientStep ==
    ASSUME TInv, [TestNext]_testVars
    PROVE  Client'
<1>1. scenario' = scenario
  BY DEF TestNext, SendPolls, Worker, SendCalls, ChannelCall, TakesResult, ProbeTimesOut,
         Request, ServerGoesAway, ConnectionCloses, testVars
<1>2. Buffered' <=> Buffered
  BY <1>1 DEF Buffered
<1> QED
  BY <1>2, ChannelStep, UnusedStep DEF Client

-----------------------------------------------------------------------------
(* One request at a time *)

LEMMA UserStays ==
    ASSUME OneUser, UNCHANGED <<scenario, results>>,
           \A r \in Requests : Busy(r)' => Busy(r)
    PROVE  OneUser'
<1>1. Over' <=> Over
  BY DEF Over
<1> QED
  BY <1>1 DEF OneUser

LEMMA UserStarts ==
    ASSUME Sending, NEW r \in Requests, UNCHANGED <<scenario, results>>,
           \A q \in Requests \ {r} : UNCHANGED <<req[q], chan[q]>>
    PROVE  OneUser'
<1>1. ~Over'
  BY DEF Sending, Over
<1> QED
  BY <1>1 DEF Sending, OneUser, Busy

LEMMA UserEnds ==
    ASSUME OneUser, NEW r \in Requests, Busy(r), ~Busy(r)',
           \A q \in Requests \ {r} : UNCHANGED <<req[q], chan[q]>>
    PROVE  OneUser'
  BY DEF OneUser, Busy

LEMMA OneUserStep ==
    ASSUME TInv, [TestNext]_testVars
    PROVE  OneUser'
<1>0. /\ OneUser
      /\ req \in [Requests -> {"idle"} \cup InFlightStates \cup Outcomes]
  BY DEF TInv, IInv, TypeOK
<1>1. ASSUME UNCHANGED <<scenario, results, req, chan>> PROVE OneUser'
  BY <1>0, <1>1, UserStays DEF Busy
<1>2. ASSUME Polls PROVE OneUser'
  BY <1>1, <1>2 DEF Polls, PollReady, reqs, chanVars
<1>3. CASE Worker
  <2>1. CASE WorkerPoll /\ Connector /\ UNCHANGED <<scenario, results>>
    BY <1>2, <2>1, PollMoves
  <2>2. CASE WorkerNext /\ UNCHANGED <<scenario, connects, results>>
    BY <1>1, <2>2 DEF WorkerNext, vars, reqs
  <2>3. CASE WorkerCall /\ UNCHANGED <<scenario, connects, results>>
    <3>1. Buffered /\ current \in Requests
      BY <2>3, CallMoves
    <3>2. /\ Busy(current)
          /\ chan \in [Requests -> {"none", "reserved", "queued", "dropped", "called"}]
      BY <2>3, <3>1 DEF WorkerCall, Busy, TInv, Client, CInv, ChanTyped
    <3>3. \A q \in Requests : Busy(q)' => Busy(q)
      BY <1>0, <2>3, <3>1, <3>2 DEF WorkerCall, Call, Busy
    <3> QED
      BY <1>0, <2>3, <3>3, UserStays
  <2> QED
    BY <1>3, <2>1, <2>2, <2>3 DEF Worker
<1>4. ASSUME NEW r \in Requests,
             \/ SendCalls(r) \/ ChannelCall(r) \/ TakesResult(r)
             \/ ProbeTimesOut(r) \/ Request(r)
      PROVE  OneUser'
  <2>1. CASE SendCalls(r)
    <3>1. \A q \in Requests \ {r} : UNCHANGED <<req[q], chan[q]>>
      BY <1>0, <2>1 DEF SendCalls, Call, chanVars
    <3> QED
      BY <2>1, <3>1, UserStarts DEF SendCalls
  <2>2. CASE ChannelCall(r)
    <3>1. chan \in [Requests -> {"none", "reserved", "queued", "dropped", "called"}]
      BY <2>2 DEF ChannelCall, TInv, Client, CInv, ChanTyped
    <3>2. CASE Sending /\ Reserve(r)
      <4>1. \A q \in Requests \ {r} : UNCHANGED <<req[q], chan[q]>>
        BY <3>1, <3>2 DEF Reserve, vars, reqs
      <4> QED
        BY <2>2, <3>2, <4>1, UserStarts DEF ChannelCall
    <3>3. CASE Enqueue(r)
      <4>1. \A q \in Requests : Busy(q)' => Busy(q)
        BY <3>1, <3>3 DEF Enqueue, vars, reqs, Busy
      <4> QED
        BY <1>0, <2>2, <4>1, UserStays DEF ChannelCall
    <3> QED
      BY <2>2, <3>2, <3>3 DEF ChannelCall
  <2>3. CASE TakesResult(r)
    <3>1. Busy(r)
      BY <2>3 DEF TakesResult, TakeResult, Collect, Outcomes, Busy
    <3>2. CASE Buffered
      <4>1. chan \in [Requests -> {"none", "reserved", "queued", "dropped", "called"}]
        BY <3>2 DEF TInv, Client, CInv, ChanTyped
      <4>2. ~Busy(r)' /\ \A q \in Requests \ {r} : UNCHANGED <<req[q], chan[q]>>
        BY <1>0, <2>3, <3>2, <4>1 DEF TakesResult, TakeResult, Collect, Busy
      <4> QED
        BY <1>0, <3>1, <4>2, UserEnds
    <3>3. CASE ~Buffered
      <4>1. ~Busy(r)' /\ \A q \in Requests \ {r} : UNCHANGED <<req[q], chan[q]>>
        BY <1>0, <2>3, <3>3 DEF TakesResult, Collect, Busy, TInv, Client, Unused, chanVars
      <4> QED
        BY <1>0, <3>1, <4>1, UserEnds
    <3> QED
      BY <3>2, <3>3
  <2>4. CASE ProbeTimesOut(r)
    <3>1. Busy(r)
      BY <2>4 DEF ProbeTimesOut, Busy
    <3>2. ~Buffered
      BY <2>4 DEF ProbeTimesOut, Buffered
    <3>3. ~Busy(r)' /\ \A q \in Requests \ {r} : UNCHANGED <<req[q], chan[q]>>
      BY <1>0, <2>4, <3>2 DEF ProbeTimesOut, DropRequest, Finish, Busy, TInv, Client, Unused,
                              chanVars
    <3> QED
      BY <1>0, <3>1, <3>3, UserEnds
  <2>5. CASE Request(r)
    <3>1. req[r] # "idle" /\ \A q \in Requests \ {r} : req'[q] = req[q]
      BY <1>0, <2>5 DEF Request, SendHeader, SendHeaderFails, RecvResponse,
                        RecvResponseFails, FailStream, Finish
    <3>2. \A q \in Requests : Busy(q)' => Busy(q)
      BY <2>5, <3>1 DEF Request, Busy, chanVars
    <3> QED
      BY <1>0, <2>5, <3>2, UserStays DEF Request
  <2> QED
    BY <1>4, <2>1, <2>2, <2>3, <2>4, <2>5
<1>5. ASSUME NEW c \in Conns, ServerGoesAway(c) \/ ConnectionCloses(c) PROVE OneUser'
  <2>1. UNCHANGED <<reqs, chanVars, scenario, results>>
    BY <1>5 DEF ServerGoesAway, ConnectionCloses, CloseUnused, ConnLost, GoAway, DriverEnds
  <2> QED
    BY <1>1, <2>1 DEF reqs, chanVars
<1>6. CASE UNCHANGED testVars
  BY <1>1, <1>6 DEF testVars, allVars, vars, reqs, chanVars
<1> QED
  BY <1>2, <1>3, <1>4, <1>5, <1>6, PollMoves DEF TestNext

-----------------------------------------------------------------------------
(* poll_ready *)

\* Only the flag of a connection that got a GOAWAY makes a test's client retire it.
LEMMA RetiringMeans ==
    ASSUME TInv, Retiring
    PROVE  /\ flag[closing] /\ sendRequest # None
           /\ scenario = "goaway" /\ connects = 1
<1>1. ~DriverEnded
  BY DEF DriverEnded, TInv, IInv, OnePhase, Kept
<1> QED
  BY <1>1 DEF Retiring, TInv, IInv, FlagMeansClosing, Kept

\* A poll finds a sender or an error, or it dials.
Dials ==
    /\ connects' = IF makeFut THEN connects ELSE connects + 1
    /\ \/ makeFut' /\ sendRequest' = None /\ ~connectError' /\ conn' = conn
       \/ ~makeFut' /\ sendRequest' = None /\ connectError' /\ conn' = conn
       \/ /\ ~makeFut' /\ ~connectError'
          /\ sendRequest' \in Conns
          /\ conn'[sendRequest'] = "live" /\ driver'[sendRequest'] = "running"

LEMMA PollEnds ==
    ASSUME TInv, Polls
    PROVE  \/ /\ ~Retiring
              /\ connectError \/ sendRequest # None
              /\ UNCHANGED <<sendRequest, makeFut, connectError, connects, conn, driver,
                             closing, flag>>
           \/ ~Retiring /\ ~connectError /\ sendRequest = None /\ Dials
              /\ UNCHANGED <<closing, flag>>
           \/ Retiring /\ ~connectError /\ ~makeFut /\ Dials
<1> USE DEF Dials
<1>0. TypeOK /\ OnePhase
  BY DEF TInv, IInv
<1>1. CASE PollCached
  <2>1. ~Retiring
    BY <1>0, <1>1, RetiringMeans DEF PollCached, CachedAfterRetire, OnePhase
  <2>2. ~Connecting
    BY <1>1 DEF PollCached, Connecting
  <2> QED
    BY <1>1, <2>1, <2>2 DEF PollCached, CachedAfterRetire, Polls, PollReady, Connector,
                            CountConnect
<1>2. CASE PollPending \/ PollConnected \/ PollFailed
  <2>1. Connecting
    BY <1>2 DEF PollPending, PollConnected, PollFailed
  <2>2. connects' = IF makeFut THEN connects ELSE connects + 1
    BY <2>1 DEF Polls, Connector, CountConnect
  <2>3. Dials
    <3>1. CASE PollPending
      BY <2>1, <2>2, <3>1 DEF PollPending, Connecting
    <3>2. CASE PollConnected
      BY <1>0, <2>1, <2>2, <3>2 DEF PollConnected, Connecting, FreshConns, TypeOK
    <3>3. CASE PollFailed
      BY <2>1, <2>2, <3>3 DEF PollFailed, Connecting
    <3> QED
      BY <1>2, <3>1, <3>2, <3>3
  <2>4. Retiring => ~makeFut
    BY <1>0, RetiringMeans DEF OnePhase
  <2> QED
    BY <2>1, <2>3, <2>4 DEF Connecting, CachedAfterRetire, Polls, PollReady
<1> QED
  BY <1>1, <1>2 DEF Polls, PollReady

\* What the connector of each test does.
LEMMA ConnectorMeans ==
    ASSUME Connector
    PROVE  /\ scenario \in {"base_uri", "request_uri", "stream_error", "goaway"}
                 => connectError' = connectError
           /\ scenario \in {"fail_once", "fail_once_buffered"} =>
                 IF connects = 0 THEN connectError' ELSE connectError' = connectError
           /\ scenario = "cert_error" => sendRequest' = None
  BY DEF Connector

LEMMA PollKept ==
    ASSUME TInv, Polls
    PROVE  Kept'
<1>1. InFlight' = {}
  BY DEF Polls, PollReady, reqs, AllIdle, InFlight, InFlightStates
<1>2. CASE UNCHANGED <<sendRequest, connects, conn, driver>>
  BY <1>1, <1>2 DEF TInv, Kept, Polls
<1>3. CASE Dials
  BY <1>1, <1>3 DEF Dials, Kept
<1> QED
  BY <1>2, <1>3, PollEnds

LEMMA PollStory ==
    ASSUME TInv, Polls
    PROVE  Story'
<1>0. /\ UNCHANGED <<scenario, results, baseUriOk, req, current>>
      /\ AllIdle /\ AllIdle'
      /\ Story /\ Connector /\ IInv
  BY DEF Polls, PollReady, reqs, chanVars, AllIdle, TInv
<1>1. \A S : Got(S)'
  BY <1>0 DEF Got, AllIdle
<1>2. None \notin Conns
  BY NoneAssumption
<1>3. ASSUME scenario \in {"base_uri", "request_uri", "stream_error"}, OneConnect
      PROVE  OneConnect'
  <2>1. ~Retiring /\ connectError' = connectError
    BY <1>0, <1>3, RetiringMeans, ConnectorMeans
  <2> QED
    BY <1>0, <1>2, <1>3, <2>1, PollEnds DEF OneConnect, Dials
<1>4. CASE scenario = "base_uri"
  BY <1>0, <1>1, <1>3, <1>4 DEF Story, BaseUriStory
<1>5. CASE scenario = "request_uri"
  BY <1>0, <1>1, <1>3, <1>5 DEF Story, RequestUriStory
<1>6. CASE scenario = "stream_error"
  BY <1>0, <1>1, <1>3, <1>6 DEF Story, StreamErrorStory
<1>7. CASE scenario \in {"fail_once", "fail_once_buffered"}
  <2>1. /\ ~Retiring /\ FailOnceStory
        /\ IF connects = 0 THEN connectError' ELSE connectError' = connectError
    BY <1>0, <1>7, RetiringMeans, ConnectorMeans DEF Story
  <2>2. FailOnceStory'
    <3>1. CASE connects = 0
      <4>1. /\ connects' = 1 /\ connectError'
            /\ sendRequest' = None /\ ~makeFut'
        <5>1. ~connectError /\ sendRequest = None /\ ~makeFut /\ connectError'
          BY <2>1, <3>1 DEF FailOnceStory
        <5>2. Dials
          BY <2>1, <5>1, PollEnds
        <5> QED
          BY <3>1, <5>1, <5>2 DEF Dials
      <4> QED
        BY <1>0, <2>1, <3>1, <4>1 DEF FailOnceStory
    <3>2. CASE connects = 1 /\ connectError
      <4>1. UNCHANGED <<sendRequest, makeFut, connectError, connects>>
        BY <2>1, <3>2, PollEnds
      <4> QED
        BY <1>0, <2>1, <3>2, <4>1 DEF FailOnceStory
    <3>3. CASE connects = 1 /\ ~connectError
      <4>1. /\ connects' = 2 /\ ~connectError'
            /\ makeFut' \/ sendRequest' # None
        BY <1>2, <2>1, <3>3, PollEnds DEF FailOnceStory, Dials
      <4>2. results = <<"connect_error">>
        BY <1>0, <2>1, <3>3 DEF FailOnceStory
      <4> QED
        BY <1>0, <1>1, <4>1, <4>2 DEF FailOnceStory
    <3>4. CASE connects = 2
      <4>1. /\ connects' = 2 /\ ~connectError'
            /\ makeFut' \/ sendRequest' # None
            /\ sendRequest # None => sendRequest' # None
        BY <1>2, <2>1, <3>4, PollEnds DEF FailOnceStory, Dials
      <4> QED
        BY <1>0, <1>1, <2>1, <3>4, <4>1 DEF FailOnceStory
    <3> QED
      BY <2>1, <3>1, <3>2, <3>3, <3>4 DEF FailOnceStory
  <2> QED
    BY <1>0, <1>7, <2>2 DEF Story
<1>8. CASE scenario = "cert_error"
  <2>1. ~Retiring /\ CertErrorStory /\ sendRequest' = None
    BY <1>0, <1>8, RetiringMeans, ConnectorMeans DEF Story
  <2>2. current # None
    BY <1>8 DEF Polls, Buffered
  <2>3. Len(results) \in Nat
    BY <2>1 DEF CertErrorStory
  <2>4. connects = Len(results) + IF makeFut \/ connectError THEN 1 ELSE 0
    BY <1>0, <2>1 DEF CertErrorStory
  <2>5. connects' = Len(results) + 1 /\ (makeFut' \/ connectError')
    BY <1>2, <2>1, <2>3, <2>4, PollEnds DEF Dials
  <2>6. CertErrorStory'
    BY <1>0, <1>1, <2>1, <2>2, <2>5 DEF CertErrorStory
  <2> QED
    BY <1>0, <1>8, <2>6 DEF Story
<1>9. CASE scenario = "goaway"
  <2>1. GoawayStory /\ ~connectError'
    BY <1>0, <1>9, ConnectorMeans DEF Story, GoawayStory
  <2>2. GoawayStory'
    <3>1. CASE Retiring
      <4>1. connects = 1 /\ flag[closing]
        BY <3>1, RetiringMeans
      <4>2. results \in Told
        BY <1>0, <2>1, <4>1 DEF GoawayStory, FirstConnection
      <4>3. connects' = 2 /\ (makeFut' \/ sendRequest' # None)
        BY <1>2, <2>1, <3>1, <4>1, PollEnds DEF Dials
      <4>4. results \notin Done
        BY <4>2 DEF Told, Done
      <4> QED
        BY <1>0, <1>1, <2>1, <4>2, <4>3, <4>4 DEF GoawayStory, SecondConnection
    <3>2. CASE ~Retiring /\ sendRequest # None
      <4>1. UNCHANGED <<sendRequest, makeFut, connectError, connects, conn, driver,
                        closing, flag>>
        BY <3>2, PollEnds
      <4>2. results \notin Told \/ connects # 1
        BY <2>1, <3>2 DEF GoawayStory, FirstConnection, Retiring
      <4>3. ASSUME FirstConnection, connects = 1 PROVE FirstConnection'
        BY <1>0, <1>1, <4>1, <4>2, <4>3 DEF FirstConnection
      <4>4. ASSUME SecondConnection PROVE SecondConnection'
        BY <1>0, <1>1, <4>1, <4>4 DEF SecondConnection
      <4> QED
        BY <1>0, <2>1, <4>1, <4>3, <4>4 DEF GoawayStory
    <3>3. CASE ~Retiring /\ sendRequest = None
      <4>1. Dials /\ UNCHANGED <<closing, flag>>
        BY <2>1, <3>3, PollEnds DEF GoawayStory
      <4>2. /\ connects' = IF connects = 0 THEN 1 ELSE connects
            /\ makeFut' \/ sendRequest' # None
        BY <1>2, <2>1, <3>3, <4>1 DEF GoawayStory, Dials
      <4>3. CASE connects \in {0, 1}
        <5>1. results = <<>> /\ connects' = 1 /\ ~flag'[closing']
          BY <2>1, <3>3, <4>1, <4>2, <4>3 DEF GoawayStory, FirstConnection, Retiring
        <5>2. sendRequest' # None => conn'[sendRequest'] = "live"
          BY <4>1 DEF Dials
        <5>3. <<>> \in Unaware /\ <<>> \notin Told
          BY DEF Unaware, Told
        <5>4. FirstConnection'
          <6>1. results' = <<>>
            BY <1>0, <5>1
          <6>2. results' # <<"response">> /\ results' # <<"response", "timeout">>
            BY <6>1
          <6>3. \A r \in Requests : req'[r] # "closing_error"
            BY <1>0 DEF AllIdle
          <6> QED
            BY <1>0, <1>1, <5>1, <5>2, <5>3, <6>1, <6>2, <6>3 DEF FirstConnection
        <5> QED
          BY <2>1, <4>2, <5>1, <5>4 DEF GoawayStory
      <4>4. CASE connects = 2
        <5>1. results \in Told
          BY <2>1, <3>3, <4>4 DEF GoawayStory, SecondConnection
        <5>2. results \notin Done
          BY <5>1 DEF Told, Done
        <5> QED
          BY <1>0, <1>1, <2>1, <4>2, <4>4, <5>1, <5>2 DEF GoawayStory, SecondConnection
      <4> QED
        BY <2>1, <4>3, <4>4 DEF GoawayStory
    <3> QED
      BY <3>1, <3>2, <3>3
  <2> QED
    BY <1>0, <1>9, <2>2 DEF Story
<1> QED
  BY <1>0, <1>4, <1>5, <1>6, <1>7, <1>8, <1>9, AssertedIs DEF Story

-----------------------------------------------------------------------------
(* call *)

LEMMA CallEnds ==
    ASSUME TInv, NEW r \in Requests, Calls(r)
    PROVE  /\ req' = [req EXCEPT ![r] = IF connectError THEN "connect_error"
                                       ELSE IF baseUriOk THEN "created" ELSE "uri_error"]
           /\ ~connectError => sendRequest # None
           /\ ~connectError /\ baseUriOk =>
                 /\ reqConn' = [reqConn EXCEPT ![r] = sendRequest]
                 /\ reqFlag' = [reqFlag EXCEPT ![r] = closing]
           /\ ~connectError' /\ ~ready'
           /\ UNCHANGED <<baseUriOk, sendRequest, makeFut, closing, flag, conn, driver>>
<1>1. ~connectError => sendRequest # None
  BY DEF Calls, TInv, IInv, ReadyBacked
<1>2. CallOutcome = IF connectError THEN "connect_error"
                    ELSE IF baseUriOk THEN "created" ELSE "uri_error"
  BY <1>1 DEF CallOutcome
<1> QED
  BY <1>1, <1>2 DEF Calls, Call

\* After a call only its future is there.
LEMMA CallGot ==
    ASSUME TInv, NEW r \in Requests, Calls(r), NEW S, req'[r] \in S
    PROVE  Got(S)'
<1>1. req \in [Requests -> {"idle"} \cup InFlightStates \cup Outcomes]
  BY DEF TInv, IInv, TypeOK
<1> QED
  BY <1>1, CallEnds DEF Calls, AllIdle, Got

LEMMA CallKept ==
    ASSUME TInv, NEW r \in Requests, Calls(r)
    PROVE  Kept'
<1>1. UNCHANGED <<sendRequest, closing, conn, driver, connects, scenario>>
  BY CallEnds DEF Calls
<1>2. TypeOK /\ Kept
  BY DEF TInv, IInv
<1>3. ASSUME NEW q \in InFlight' PROVE reqConn'[q] = sendRequest /\ reqFlag'[q] = closing
  <2>1. q = r /\ ~connectError /\ baseUriOk
    BY <1>2, <1>3, CallEnds DEF Calls, AllIdle, InFlight, InFlightStates, TypeOK
  <2> QED
    BY <1>2, <2>1, CallEnds DEF TypeOK
<1> QED
  BY <1>1, <1>2, <1>3 DEF Kept

LEMMA CallStory ==
    ASSUME TInv, NEW r \in Requests, Calls(r),
           makeFut => current' # None \/ scenario # "cert_error"
    PROVE  Story'
<1>0. /\ UNCHANGED <<scenario, connects, results, baseUriOk, sendRequest, makeFut,
                     closing, flag, conn>>
      /\ AllIdle /\ ready /\ Story
      /\ ~connectError => sendRequest # None
      /\ ~connectError'
      /\ baseUriOk = (scenario # "base_uri")
  BY CallEnds DEF Calls, TInv, Story
<1>1. /\ req'[r] = IF connectError THEN "connect_error"
                   ELSE IF baseUriOk THEN "created" ELSE "uri_error"
      /\ ~AllIdle'
  BY CallEnds DEF TInv, IInv, TypeOK, AllIdle
<1>2. ASSUME OneConnect PROVE OneConnect' /\ ~connectError
  BY <1>0, <1>2 DEF OneConnect
<1>3. CASE scenario = "base_uri"
  <2>1. Got({"uri_error"})'
    BY <1>0, <1>1, <1>2, <1>3, CallGot DEF Story, BaseUriStory
  <2> QED
    BY <1>0, <1>2, <1>3, <2>1 DEF Story, BaseUriStory
<1>4. CASE scenario = "request_uri"
  <2>1. Got(Runs)'
    BY <1>0, <1>1, <1>2, <1>4, CallGot DEF Story, RequestUriStory, Runs
  <2> QED
    BY <1>0, <1>2, <1>4, <2>1 DEF Story, RequestUriStory
<1>5. CASE scenario = "stream_error"
  <2>1. Got(Runs)'
    BY <1>0, <1>1, <1>2, <1>5, CallGot DEF Story, StreamErrorStory, Runs
  <2> QED
    BY <1>0, <1>2, <1>5, <2>1 DEF Story, StreamErrorStory, Got
<1>6. CASE scenario \in {"fail_once", "fail_once_buffered"}
  <2>1. FailOnceStory /\ baseUriOk
    BY <1>0, <1>6 DEF Story
  <2>2. connects \in {1, 2}
    BY <1>0, <2>1 DEF FailOnceStory
  <2>3. CASE connects = 1
    <3>1. connectError /\ results = <<>>
      BY <1>0, <2>1, <2>3 DEF FailOnceStory
    <3>2. Got({"connect_error"})'
      BY <1>1, <3>1, CallGot
    <3> QED
      BY <1>0, <1>1, <1>6, <2>1, <2>3, <3>1, <3>2 DEF Story, FailOnceStory
  <2>4. CASE connects = 2
    <3>1. Got(Runs)' /\ sendRequest # None
      BY <1>0, <1>1, <2>1, <2>4, CallGot DEF FailOnceStory, Runs
    <3> QED
      BY <1>0, <1>1, <1>6, <2>1, <2>4, <3>1 DEF Story, FailOnceStory
  <2> QED
    BY <2>2, <2>3, <2>4
<1>7. CASE scenario = "cert_error"
  <2>1. CertErrorStory /\ connectError
    BY <1>0, <1>7 DEF Story, CertErrorStory
  <2>2. Got({"connect_error"})'
    BY <1>1, <2>1, CallGot
  <2> QED
    BY <1>0, <1>1, <1>7, <2>1, <2>2 DEF Story, CertErrorStory
<1>8. CASE scenario = "goaway"
  <2>1. GoawayStory /\ baseUriOk /\ ~connectError /\ sendRequest # None
    BY <1>0, <1>8 DEF Story, GoawayStory
  <2>2. req'[r] = "created" /\ \A q \in Requests : req'[q] # "closing_error"
    BY <1>1, <2>1, CallEnds DEF Calls, AllIdle, TInv, IInv, TypeOK
  <2>3. Got({"created"})'
    BY <2>2, CallGot
  <2>4. CASE connects = 1
    <3>1. FirstConnection /\ results \notin Told /\ ~flag[closing]
      BY <1>0, <2>1, <2>4 DEF GoawayStory, FirstConnection
    <3>2. results = <<>> => conn[sendRequest] = "live"
      BY <1>0, <2>1, <3>1 DEF FirstConnection, AllIdle
    <3>3. FirstConnection'
      BY <1>0, <2>1, <2>2, <2>3, <3>1, <3>2 DEF FirstConnection, Got, Runs
    <3> QED
      BY <1>0, <1>8, <2>1, <2>4, <3>3 DEF Story, GoawayStory
  <2>5. CASE connects = 2
    <3>1. SecondConnection'
      BY <1>0, <2>1, <2>3, <2>5 DEF GoawayStory, SecondConnection, Got, Runs
    <3> QED
      BY <1>0, <1>8, <2>1, <2>5, <3>1 DEF Story, GoawayStory
  <2> QED
    BY <2>1, <2>4, <2>5 DEF GoawayStory
<1> QED
  BY <1>0, <1>3, <1>4, <1>5, <1>6, <1>7, <1>8, AssertedIs DEF Story

-----------------------------------------------------------------------------
(* Results *)

\* The request that is not idle is the only one.
LEMMA OnlyOne ==
    ASSUME TInv, NEW r \in Requests, req[r] # "idle"
    PROVE  ~Over /\ ~AllIdle /\ \A q \in Requests \ {r} : req[q] = "idle"
  BY DEF TInv, OneUser, Busy, AllIdle

LEMMA TakeStory ==
    ASSUME TInv, NEW r \in Requests, TakesResult(r)
    PROVE  Story' /\ Kept'
<1>0. /\ UNCHANGED <<scenario, connects, sender, flag, conn, driver, reqConn, reqFlag,
                     ready, current>>
      /\ results' = Append(results, req[r])
      /\ req[r] \in Outcomes
      /\ req' = [req EXCEPT ![r] = "idle"]
  BY DEF TakesResult, TakeResult, Collect, chanVars
<1>1. UNCHANGED <<baseUriOk, sendRequest, makeFut, connectError, closing>>
  BY <1>0 DEF sender
<1>2. ~Over /\ ~AllIdle /\ AllIdle'
  BY <1>0, OnlyOne DEF AllIdle, Outcomes, TInv, IInv, TypeOK
<1>3. \A S : Got(S)'
  BY <1>2 DEF AllIdle, Got
<1>4. Kept'
  BY <1>0, <1>1, <1>2 DEF Kept, TInv, AllIdle, InFlight, InFlightStates
<1>5. Story /\ \A S : Got(S) => req[r] \in {"idle"} \cup S
  BY DEF TInv, Got
<1>6. ASSUME OneConnect PROVE OneConnect'
  BY <1>0, <1>1, <1>2, <1>6 DEF OneConnect
<1>7. CASE scenario = "base_uri"
  <2>1. req[r] = "uri_error"
    BY <1>0, <1>5, <1>7 DEF Story, BaseUriStory, Outcomes
  <2>2. results = <<>>
    BY <1>2, <1>5, <1>7, OverMeans DEF Story, BaseUriStory
  <2>3. results' = <<"uri_error">>
    BY <1>0, <2>1, <2>2, Appended
  <2> QED
    BY <1>0, <1>1, <1>3, <1>4, <1>5, <1>6, <1>7, <2>3 DEF Story, BaseUriStory
<1>8. CASE scenario = "request_uri"
  <2>1. req[r] = "response"
    BY <1>0, <1>5, <1>8 DEF Story, RequestUriStory, Outcomes, Runs
  <2>2. results = <<>>
    BY <1>2, <1>5, <1>8, OverMeans DEF Story, RequestUriStory
  <2>3. results' = <<"response">>
    BY <1>0, <2>1, <2>2, Appended
  <2> QED
    BY <1>0, <1>1, <1>3, <1>4, <1>5, <1>6, <1>8, <2>3 DEF Story, RequestUriStory
<1>9. CASE scenario = "stream_error"
  <2>1. OneConnect' /\ \A q \in Requests : req'[q] = "idle"
    BY <1>2, <1>5, <1>6, <1>9 DEF Story, StreamErrorStory, AllIdle
  <2>2. Len(results) # 2
    BY <1>2, <1>9, OverMeans
  <2>3. CASE results = <<>>
    <3>1. req[r] \in {"response", "stream_error"}
      BY <1>0, <1>5, <1>9, <2>3 DEF Story, StreamErrorStory, Outcomes, Runs
    <3>2. results' \in {<<"response">>, <<"stream_error">>}
      BY <1>0, <2>3, <3>1, Appended
    <3> QED
      BY <1>0, <1>1, <1>4, <1>5, <1>9, <2>1, <3>2 DEF Story, StreamErrorStory, Got
  <2>4. CASE results # <<>>
    <3>1. req[r] = "response"
      BY <1>0, <1>5, <1>9, <2>4 DEF Story, StreamErrorStory, Outcomes, Runs
    <3>2. results \in {<<"response">>, <<"stream_error">>}
      BY <1>5, <1>9, <2>2, <2>4 DEF Story, StreamErrorStory
    <3>3. results' \in {<<"response", "response">>, <<"stream_error", "response">>}
      BY <1>0, <3>1, <3>2, Appended
    <3> QED
      BY <1>0, <1>1, <1>4, <1>5, <1>9, <2>1, <3>3 DEF Story, StreamErrorStory, Got
  <2> QED
    BY <2>3, <2>4
<1>10. CASE scenario \in {"fail_once", "fail_once_buffered"}
  <2>1. FailOnceStory /\ connects \in {1, 2}
    BY <1>2, <1>5, <1>10 DEF Story, FailOnceStory
  <2>2. CASE connects = 1
    <3>1. ~connectError /\ results = <<>> /\ Got({"connect_error"})
      BY <1>2, <2>1, <2>2 DEF FailOnceStory
    <3>2. req[r] = "connect_error"
      BY <1>0, <1>5, <3>1 DEF Outcomes
    <3>3. results' = <<"connect_error">>
      BY <1>0, <3>1, <3>2, Appended
    <3>4. FailOnceStory'
      BY <1>0, <1>1, <1>2, <2>1, <2>2, <3>1, <3>3 DEF FailOnceStory
    <3> QED
      BY <1>0, <1>1, <1>4, <1>5, <1>10, <3>4 DEF Story
  <2>3. CASE connects = 2
    <3>1. req[r] = "response" /\ sendRequest # None
      BY <1>0, <1>2, <1>5, <2>1, <2>3 DEF FailOnceStory, Outcomes, Runs
    <3>2. Len(results) # 3
      BY <1>2, <2>1, <2>3, OverMeans DEF FailOnceStory
    <3>3. results \in {<<"connect_error">>, <<"connect_error", "response">>}
      BY <2>1, <2>3, <3>2 DEF FailOnceStory
    <3>4. results' \in {<<"connect_error", "response">>,
                        <<"connect_error", "response", "response">>}
      BY <1>0, <3>1, <3>3, Appended
    <3>5. Len(results') = 3 => scenario = "fail_once_buffered"
      <4> SUFFICES ASSUME Len(results') = 3, scenario = "fail_once" PROVE FALSE
        BY <1>10
      <4>1. results = <<"connect_error", "response">>
        BY <1>0, <3>1, <3>3, Appended
      <4> QED
        BY <1>2, <4>1, OverMeans
    <3>6. FailOnceStory'
      BY <1>0, <1>1, <1>2, <1>3, <2>1, <2>3, <3>1, <3>4, <3>5 DEF FailOnceStory
    <3> QED
      BY <1>0, <1>1, <1>4, <1>5, <1>10, <3>6 DEF Story
  <2> QED
    BY <2>1, <2>2, <2>3
<1>11. CASE scenario = "cert_error"
  <2>1. CertErrorStory /\ req[r] = "connect_error"
    BY <1>0, <1>5, <1>11 DEF Story, CertErrorStory, Outcomes
  <2>2. current = None /\ ~makeFut /\ ~connectError
    <3>1. Buffered
      BY <1>11 DEF Buffered
    <3>2. current = None
      BY <1>2, <3>1, HandIdle
    <3> QED
      BY <2>1, <3>1, <3>2 DEF CertErrorStory, TInv, Client, CInv, ErrorHasAnOwner
  <2>3. results \in {<<>>, <<"connect_error">>}
    <3>1. Len(results) # 2
      BY <1>2, <1>11, OverMeans
    <3> QED
      BY <2>1, <3>1 DEF CertErrorStory
  <2>4. /\ results' \in {<<"connect_error">>, <<"connect_error", "connect_error">>}
        /\ Len(results') = Len(results) + 1 /\ Len(results) \in Nat
    <3>1. CASE results = <<>>
      <4>1. results' = <<"connect_error">>
        BY <1>0, <2>1, <3>1, Appended
      <4> QED
        BY <3>1, <4>1
    <3>2. CASE results = <<"connect_error">>
      <4>1. results' = <<"connect_error", "connect_error">>
        BY <1>0, <2>1, <3>2, Appended
      <4> QED
        BY <3>2, <4>1
    <3> QED
      BY <2>3, <3>1, <3>2
  <2>5. connects = Len(results) + 1
    BY <1>2, <2>1 DEF CertErrorStory
  <2>6. CertErrorStory'
    BY <1>0, <1>1, <1>2, <1>3, <2>1, <2>2, <2>4, <2>5 DEF CertErrorStory
  <2> QED
    BY <1>0, <1>1, <1>4, <1>5, <1>11, <2>6 DEF Story
<1>12. CASE scenario = "goaway"
  <2>1. GoawayStory /\ connects \in {1, 2}
    BY <1>2, <1>5, <1>12 DEF Story, GoawayStory
  <2>2. CASE connects = 1
    <3>1. FirstConnection /\ sendRequest # None /\ results \in Unaware
      BY <1>2, <2>1, <2>2 DEF GoawayStory, FirstConnection
    <3>2. ~ready
      BY <1>2, <1>12 DEF TInv, Client, Buffered, Unused
    <3>3. CASE results = <<>>
      <4>1. req[r] = "response" /\ ~flag[closing]
        BY <1>0, <1>5, <3>1, <3>3 DEF FirstConnection, Outcomes, Runs, Told
      <4>2. results' = <<"response">>
        BY <1>0, <3>3, <4>1, Appended
      <4>3. results' \in Unaware /\ results' \notin Told /\ results' # <<>>
            /\ results' # <<"response", "timeout">>
        BY <4>2 DEF Unaware, Told
      <4> QED
        BY <1>0, <1>1, <1>2, <1>3, <3>1, <4>1, <4>2, <4>3, <1>4, <1>5, <1>12, <2>1, <2>2
           DEF Story, GoawayStory, FirstConnection, AllIdle
    <3>4. CASE results # <<>>
      <4>1. req[r] = "closing_error" /\ flag[closing]
        BY <1>0, <1>5, <3>1, <3>4 DEF FirstConnection, Outcomes, Unaware
      <4>2. results' \in Told
        <5>1. CASE results = <<"response">>
          <6>1. results' = <<"response", "closing_error">>
            BY <1>0, <4>1, <5>1, Appended
          <6> QED
            BY <6>1 DEF Told
        <5>2. CASE results = <<"response", "timeout">>
          <6>1. results' = <<"response", "timeout", "closing_error">>
            BY <1>0, <4>1, <5>2, Appended
          <6> QED
            BY <6>1 DEF Told
        <5> QED
          BY <3>1, <3>4, <5>1, <5>2 DEF Unaware
      <4>3. results' # <<>> /\ results' # <<"response">>
            /\ results' # <<"response", "timeout">>
        BY <4>2 DEF Told
      <4> QED
        BY <1>0, <1>1, <1>2, <3>1, <3>2, <4>1, <4>2, <4>3, <1>4, <1>5, <1>12, <2>1, <2>2
           DEF Story, GoawayStory, FirstConnection, AllIdle
    <3> QED
      BY <3>3, <3>4
  <2>3. CASE connects = 2
    <3>1. SecondConnection /\ sendRequest # None /\ req[r] = "response"
      BY <1>0, <1>2, <1>5, <2>1, <2>3 DEF GoawayStory, SecondConnection, Outcomes, Runs
    <3>2. results \in Told
      BY <1>2, <1>12, <3>1, GoawayOver DEF SecondConnection
    <3>3. results' \in Done
      <4>1. CASE results = <<"response", "closing_error">>
        <5>1. results' = <<"response", "closing_error", "response">>
          BY <1>0, <3>1, <4>1, Appended
        <5> QED
          BY <5>1 DEF Done
      <4>2. CASE results = <<"response", "timeout", "closing_error">>
        <5>1. results' = <<"response", "timeout", "closing_error", "response">>
          BY <1>0, <3>1, <4>2, Appended
        <5> QED
          BY <5>1 DEF Done
      <4> QED
        BY <3>2, <4>1, <4>2 DEF Told
    <3> QED
      BY <1>0, <1>1, <1>3, <3>1, <3>3, <1>4, <1>5, <1>12, <2>1, <2>3
         DEF Story, GoawayStory, SecondConnection
  <2> QED
    BY <2>1, <2>2, <2>3
<1> QED
  BY <1>4, <1>5, <1>7, <1>8, <1>9, <1>10, <1>11, <1>12, AssertedIs DEF Story

\* A probe is given up: only while the client is unaware of the GOAWAY that its
\* connection got.
LEMMA TimeoutStory ==
    ASSUME TInv, NEW r \in Requests, ProbeTimesOut(r)
    PROVE  Story' /\ Kept'
<1>0. /\ UNCHANGED <<scenario, connects, sender, flag, conn, driver, ready>>
      /\ scenario = "goaway" /\ connects = 1
      /\ req[r] = "awaiting" /\ conn[reqConn[r]] = "goaway" /\ results # <<>>
      /\ results' = Append(results, "timeout")
      /\ req' = [req EXCEPT ![r] = "idle"]
  BY DEF ProbeTimesOut, DropRequest, Finish
<1>1. UNCHANGED <<baseUriOk, sendRequest, makeFut, connectError, closing>>
  BY <1>0 DEF sender
<1>2. ~AllIdle /\ AllIdle'
  BY <1>0, OnlyOne DEF AllIdle, TInv, IInv, TypeOK
<1>3. /\ Story /\ GoawayStory /\ FirstConnection
      /\ conn[sendRequest] = "goaway"
  BY <1>0 DEF TInv, Story, GoawayStory, Kept, InFlight, InFlightStates
<1>4. results = <<"response">>
  BY <1>0, <1>2, <1>3 DEF FirstConnection, Unaware, Got
<1>5. results' = <<"response", "timeout">>
  BY <1>0, <1>4, Appended
<1>6. results' \in Unaware /\ results' \notin Told /\ results' # <<>>
      /\ results' # <<"response">>
  BY <1>5 DEF Unaware, Told
<1>7. ~flag[closing]
  BY <1>0, <1>3, <1>4 DEF FirstConnection, Told, Got
<1>8. Kept'
  BY <1>0, <1>1, <1>2 DEF Kept, TInv, AllIdle, InFlight, InFlightStates
<1>9. FirstConnection'
  BY <1>0, <1>1, <1>2, <1>3, <1>6, <1>7 DEF FirstConnection, Got, AllIdle
<1> QED
  BY <1>0, <1>1, <1>3, <1>8, <1>9 DEF Story, GoawayStory

-----------------------------------------------------------------------------
(* The request on its way *)

\* What a step of a request does in a test: the connection lives but for a GOAWAY,
\* so a refusal is a closing error, and a reset is an error of the stream.
LEMMA RequestEnds ==
    ASSUME TInv, NEW r \in Requests, Request(r)
    PROVE  /\ UNCHANGED <<scenario, connects, results, sender, conn, driver, ready, current>>
           /\ \/ /\ req[r] = "created" /\ conn[sendRequest] = "live"
                 /\ req' = [req EXCEPT ![r] = "awaiting"]
                 /\ flag' = flag
              \/ /\ req[r] = "created" /\ conn[sendRequest] = "goaway"
                 /\ req' = [req EXCEPT ![r] = "closing_error"]
                 /\ flag' = [flag EXCEPT ![closing] = TRUE]
              \/ /\ req[r] = "awaiting" /\ Answers
                 /\ req' = [req EXCEPT ![r] = "response"]
                 /\ flag' = flag
              \/ /\ req[r] = "awaiting" /\ scenario = "stream_error" /\ results = <<>>
                 /\ req' = [req EXCEPT ![r] = "stream_error"]
                 /\ flag' = flag
           /\ \A q \in InFlight' : q \in InFlight /\ UNCHANGED <<reqConn[q], reqFlag[q]>>
<1>0. /\ TypeOK /\ req[r] \in InFlightStates
      /\ reqConn[r] = sendRequest /\ reqFlag[r] = closing /\ sendRequest # None
      /\ sendRequest \in Conns
  <2>1. TypeOK /\ req[r] \in InFlightStates
    BY DEF TInv, IInv, Request, SendHeader, SendHeaderFails, RecvResponse,
           RecvResponseFails, InFlightStates
  <2>2. r \in InFlight
    BY <2>1 DEF InFlight
  <2>3. reqConn[r] = sendRequest /\ reqFlag[r] = closing
    BY <2>2 DEF TInv, Kept
  <2>4. reqConn[r] \in Conns
    BY <2>1, <2>2 DEF TypeOK
  <2> QED
    BY <2>1, <2>3, <2>4, NoneAssumption
<1>1. UNCHANGED <<scenario, connects, results, sender, conn, driver, ready, current>>
  BY DEF Request, SendHeader, SendHeaderFails, RecvResponse, RecvResponseFails, chanVars
<1>2. CASE SendHeader(r)
  BY <1>0, <1>1, <1>2 DEF SendHeader, InFlight, InFlightStates, TypeOK
<1>3. ASSUME NEW o \in Outcomes, Finish(r, o)
      PROVE  \A q \in InFlight' : q \in InFlight /\ UNCHANGED <<reqConn[q], reqFlag[q]>>
  BY <1>0, <1>3 DEF Finish, InFlight, InFlightStates, Outcomes, TypeOK
<1>4. CASE SendHeaderFails(r) /\ conn[reqConn[r]] = "goaway"
  <2>1. SendErrors(reqConn[r]) = {"RemoteClosing"} /\ is_connection_closing("RemoteClosing")
    BY <1>4 DEF SendErrors, is_connection_closing, Display
  <2>2. FailStream(r, "RemoteClosing")
    BY <1>4, <2>1 DEF SendHeaderFails
  <2>3. Finish(r, "closing_error") /\ flag' = [flag EXCEPT ![reqFlag[r]] = TRUE]
    BY <2>1, <2>2 DEF FailStream
  <2> QED
    BY <1>0, <1>1, <1>3, <1>4, <2>3 DEF SendHeaderFails, Finish, Outcomes
<1>5. CASE RecvResponse(r) /\ Answers
  BY <1>0, <1>1, <1>3, <1>5 DEF RecvResponse, Finish, Outcomes
<1>6. CASE RecvResponseFails(r) /\ scenario = "stream_error" /\ results = <<>>
  <2>1. conn[reqConn[r]] = "live"
    BY <1>0, <1>6 DEF TInv, Kept
  <2>2. PICK err \in {"StreamError", "RemoteTerminate", "HeaderTooBig", "Undefined"} :
            FailStream(r, err)
    BY <1>6, <2>1 DEF RecvResponseFails, RecvErrors
  <2>3. ~is_connection_closing(err)
    <3>1. err \in DOMAIN Display
      BY DEF Display
    <3> QED
      BY <3>1, ClosingErrors
  <2>4. Finish(r, "stream_error") /\ flag' = flag
    BY <2>2, <2>3 DEF FailStream
  <2> QED
    BY <1>0, <1>1, <1>3, <1>6, <2>4 DEF RecvResponseFails, Finish, Outcomes
<1> QED
  BY <1>2, <1>4, <1>5, <1>6 DEF Request

LEMMA RequestStory ==
    ASSUME TInv, NEW r \in Requests, Request(r)
    PROVE  Story' /\ Kept'
<1>0. /\ UNCHANGED <<scenario, connects, results, baseUriOk, sendRequest, makeFut,
                     connectError, closing, conn, driver, ready, current>>
      /\ req[r] \in {"created", "awaiting"}
  BY RequestEnds DEF sender
<1>1. Kept'
  BY <1>0, RequestEnds DEF TInv, Kept
<1>2. PICK o \in {"awaiting", "closing_error", "response", "stream_error"} :
          req' = [req EXCEPT ![r] = o]
  BY RequestEnds
<1>3. /\ req \in [Requests -> {"idle"} \cup InFlightStates \cup Outcomes]
      /\ ~AllIdle /\ \A q \in Requests \ {r} : req[q] = "idle"
      /\ Story
  BY <1>0, OnlyOne DEF TInv, IInv, TypeOK
<1>4. req'[r] = o /\ ~AllIdle' /\ \A q \in Requests \ {r} : req'[q] = "idle"
  BY <1>2, <1>3 DEF AllIdle
<1>5. \A S : Got(S)' <=> o \in S
  BY <1>2, <1>4 DEF Got
<1>6. \A S : Got(S) => req[r] \in S
  BY <1>0 DEF Got
<1>7. ASSUME OneConnect PROVE OneConnect'
  BY <1>0, <1>3, <1>4, <1>7 DEF OneConnect
<1>8. scenario # "goaway" =>
          \/ o \in {"awaiting", "response"}
          \/ scenario = "stream_error" /\ results = <<>> /\ o = "stream_error"
  <2>1. scenario # "goaway" => ~(conn[sendRequest] = "goaway" /\ sendRequest # None)
    BY DEF TInv, Kept
  <2>2. sendRequest # None
    <3>1. r \in InFlight
      BY <1>0 DEF InFlight, InFlightStates
    <3> QED
      BY <3>1, NoneAssumption DEF TInv, Kept, IInv, TypeOK
  <2> QED
    BY <1>2, <1>4, <2>1, <2>2, RequestEnds, <1>3
<1>9. CASE scenario = "base_uri"
  BY <1>0, <1>3, <1>6, <1>9 DEF Story, BaseUriStory
<1>10. CASE scenario = "request_uri"
  <2>1. Got(Runs)'
    BY <1>5, <1>8, <1>10 DEF Runs
  <2> QED
    BY <1>0, <1>1, <1>3, <1>7, <1>10, <2>1 DEF Story, RequestUriStory
<1>11. CASE scenario = "stream_error"
  <2>1. Got(IF results = <<>> THEN Runs \cup {"stream_error"} ELSE Runs)'
    BY <1>0, <1>4, <1>8, <1>11 DEF Runs, Got
  <2> QED
    BY <1>0, <1>1, <1>3, <1>7, <1>11, <2>1 DEF Story, StreamErrorStory
<1>12. CASE scenario \in {"fail_once", "fail_once_buffered"}
  <2>1. FailOnceStory
    BY <1>3, <1>12 DEF Story
  <2>2. connects = 2
    BY <1>0, <1>3, <1>6, <2>1 DEF FailOnceStory
  <2>3. Got(Runs)'
    BY <1>5, <1>8, <1>12 DEF Runs
  <2> QED
    BY <1>0, <1>1, <1>3, <1>12, <2>1, <2>2, <2>3 DEF Story, FailOnceStory
<1>13. CASE scenario = "cert_error"
  BY <1>0, <1>3, <1>6, <1>13 DEF Story, CertErrorStory
<1>14. CASE scenario = "goaway"
  <2>1. GoawayStory /\ connects \in {1, 2}
    BY <1>3, <1>14 DEF Story, GoawayStory
  <2>2. CASE connects = 1
    <3>1. /\ FirstConnection /\ sendRequest # None /\ results \in Unaware
          /\ results \notin Told /\ ~flag[closing]
      <4>1. FirstConnection /\ results \in Unaware /\ results \notin Told
        BY <1>3, <2>1, <2>2 DEF GoawayStory, FirstConnection
      <4> QED
        BY <1>0, <1>3, <1>6, <4>1 DEF FirstConnection
    <3>2. FirstConnection'
      <4>1. CASE o = "awaiting"
        <5>1. flag' = flag /\ conn[sendRequest] = "live"
          BY <1>2, <1>4, <4>1, RequestEnds, <1>3
        <5>2. results # <<"response", "timeout">>
          BY <3>1, <5>1 DEF FirstConnection
        <5> QED
          BY <1>0, <1>3, <1>4, <1>5, <3>1, <4>1, <5>1, <5>2 DEF FirstConnection, Runs
      <4>2. CASE o = "closing_error"
        <5>1. /\ flag' = [flag EXCEPT ![closing] = TRUE] /\ req[r] = "created"
              /\ conn[sendRequest] # "live"
          BY <1>2, <1>4, <4>2, RequestEnds, <1>3
        <5>2. flag'[closing]
          BY <5>1 DEF TInv, IInv, TypeOK
        <5>3. results # <<>>
          BY <1>3, <3>1, <5>1 DEF FirstConnection
        <5> QED
          BY <1>0, <1>3, <1>4, <1>5, <3>1, <4>2, <5>2, <5>3 DEF FirstConnection
      <4>3. CASE o = "response"
        <5>1. flag' = flag /\ Answers
          BY <1>2, <1>4, <4>3, RequestEnds, <1>3
        <5>2. results = <<>>
          BY <1>14, <2>2, <5>1 DEF Answers
        <5>3. results # <<"response">> /\ results # <<"response", "timeout">>
          BY <5>2
        <5> QED
          BY <1>0, <1>3, <1>4, <1>5, <3>1, <4>3, <5>1, <5>2, <5>3 DEF FirstConnection, Runs
      <4>4. CASE o = "stream_error"
        BY <1>2, <1>3, <1>4, <1>14, <4>4, RequestEnds
      <4> QED
        BY <1>2, <4>1, <4>2, <4>3, <4>4
    <3> QED
      BY <1>0, <1>1, <1>3, <1>14, <2>1, <2>2, <3>2 DEF Story, GoawayStory
  <2>3. CASE connects = 2
    <3>1. o \in Runs
      <4>1. SecondConnection /\ sendRequest # None
        BY <1>3, <2>1, <2>3 DEF GoawayStory, SecondConnection
      <4>2. conn[sendRequest] = "live"
        BY <2>3, <4>1 DEF TInv, Kept
      <4> QED
        BY <1>2, <1>3, <1>4, <1>14, <4>2, RequestEnds DEF Runs
    <3>2. SecondConnection'
      BY <1>0, <1>3, <1>4, <1>5, <2>1, <2>3, <3>1 DEF GoawayStory, SecondConnection
    <3> QED
      BY <1>0, <1>1, <1>3, <1>14, <2>1, <2>3, <3>2 DEF Story, GoawayStory
  <2> QED
    BY <2>1, <2>2, <2>3
<1> QED
  BY <1>3, <1>9, <1>10, <1>11, <1>12, <1>13, <1>14, AssertedIs DEF Story

-----------------------------------------------------------------------------
(* The connections, and the whole step *)

\* A step that leaves alone what the story is about.
LEMMA StoryStays ==
    ASSUME TInv,
           UNCHANGED <<scenario, baseUriOk, connects, results, sendRequest, makeFut,
                       connectError, closing, flag, req, ready>>,
           sendRequest # None => conn'[sendRequest] = conn[sendRequest],
           makeFut => current' # None \/ scenario # "cert_error"
    PROVE  Story'
<1>0. AllIdle' = AllIdle /\ (\A S : Got(S)' <=> Got(S)) /\ (OneConnect' <=> OneConnect)
  BY DEF AllIdle, Got, OneConnect
<1>1. Story
  BY DEF TInv
<1>2. ASSUME FirstConnection PROVE FirstConnection'
  <2>1. results = <<"response", "timeout">> => sendRequest # None
    BY <1>2 DEF FirstConnection
  <2> QED
    BY <1>0, <1>2, <2>1 DEF FirstConnection
<1>3. BaseUriStory => BaseUriStory'
  BY <1>0 DEF BaseUriStory
<1>4. RequestUriStory => RequestUriStory'
  BY <1>0 DEF RequestUriStory
<1>5. StreamErrorStory => StreamErrorStory'
  BY <1>0 DEF StreamErrorStory
<1>6. FailOnceStory => FailOnceStory'
  BY <1>0 DEF FailOnceStory
<1>7. CertErrorStory /\ scenario = "cert_error" => CertErrorStory'
  BY <1>0 DEF CertErrorStory
<1>8. GoawayStory => GoawayStory'
  BY <1>0, <1>2 DEF GoawayStory, SecondConnection
<1> QED
  BY <1>1, <1>3, <1>4, <1>5, <1>6, <1>7, <1>8 DEF Story

LEMMA GoAwayStory ==
    ASSUME TInv, NEW c \in Conns, ServerGoesAway(c)
    PROVE  Story' /\ Kept'
<1>0. /\ UNCHANGED <<scenario, connects, results, baseUriOk, sendRequest, makeFut,
                     connectError, closing, flag, driver, req, reqConn, reqFlag, ready>>
      /\ scenario = "goaway" /\ connects = 1
      /\ results # <<>> \/ \E r \in Requests : req[r] = "awaiting"
      /\ conn' = [conn EXCEPT ![c] = "goaway"] /\ conn[c] = "live"
  BY DEF ServerGoesAway, GoAway, sender, reqs
<1>1. conn \in [Conns -> {"live", "goaway", "closed"}] /\ sendRequest \in Conns \cup {None}
  BY DEF TInv, IInv, TypeOK
<1>2. Kept'
  BY <1>0, <1>1 DEF TInv, Kept, InFlight
<1>3. Story /\ GoawayStory /\ FirstConnection
  BY <1>0 DEF TInv, Story, GoawayStory
<1>4. AllIdle' = AllIdle /\ \A S : Got(S)' <=> Got(S)
  BY <1>0 DEF AllIdle, Got
<1>5. results = <<"response", "timeout">> => conn'[sendRequest] = "goaway"
  BY <1>0, <1>1, <1>3 DEF FirstConnection
<1>6. FirstConnection'
  BY <1>0, <1>3, <1>4, <1>5 DEF FirstConnection
<1> QED
  BY <1>0, <1>2, <1>3, <1>6 DEF Story, GoawayStory

LEMMA CloseStory ==
    ASSUME TInv, NEW c \in Conns, ConnectionCloses(c)
    PROVE  Story' /\ Kept'
<1>0. /\ UNCHANGED <<scenario, connects, results, sender, flag, reqs, ready, chanVars>>
      /\ conn \in [Conns -> {"live", "goaway", "closed"}]
      /\ driver \in [Conns -> {"running", "ended", "aborted"}]
  BY DEF ConnectionCloses, CloseUnused, ConnLost, DriverEnds, TInv, IInv, TypeOK
<1>1. UNCHANGED <<baseUriOk, sendRequest, makeFut, connectError, closing, req, reqConn,
                  reqFlag, current>>
  BY <1>0 DEF sender, reqs, chanVars
<1>2. sendRequest # None =>
        UNCHANGED <<conn[sendRequest], driver[sendRequest]>>
  <2>1. CASE CloseUnused(c)
    BY <1>0, <1>1, <2>1 DEF CloseUnused, NoHandle, ConnLost, TInv, IInv, TypeOK
  <2>2. CASE DriverEnds(c)
    BY <1>0, <1>1, <2>2 DEF DriverEnds, TInv, Kept, IInv, TypeOK
  <2> QED
    BY <2>1, <2>2 DEF ConnectionCloses
<1>3. Kept'
  BY <1>0, <1>1, <1>2 DEF TInv, Kept, InFlight
<1>4. makeFut => current' # None \/ scenario # "cert_error"
  BY <1>1 DEF TInv, Story, CertErrorStory
<1> QED
  BY <1>0, <1>1, <1>2, <1>3, <1>4, StoryStays

\* The channel moves a request, or nothing happens.
LEMMA QuietStory ==
    ASSUME TInv, UNCHANGED <<vars, scenario, connects, results>>,
           current' = current \/ current = None
    PROVE  Story' /\ Kept'
<1>1. UNCHANGED <<baseUriOk, sendRequest, makeFut, connectError, closing, flag, conn, driver,
                  req, reqConn, reqFlag, ready>>
  BY DEF vars, sender, reqs
<1>2. makeFut => current' # None \/ scenario # "cert_error"
  BY DEF TInv, Story, CertErrorStory
<1> QED
  BY <1>1, <1>2, StoryStays DEF TInv, Kept, InFlight

LEMMA StoryStep ==
    ASSUME TInv, [TestNext]_testVars
    PROVE  Story' /\ Kept'
<1>1. CASE SendPolls
  BY <1>1, PollMoves, PollKept, PollStory
<1>2. CASE Worker
  <2>1. CASE WorkerPoll /\ Connector /\ UNCHANGED <<scenario, results>>
    BY <2>1, PollMoves, PollKept, PollStory
  <2>2. CASE WorkerNext /\ UNCHANGED <<scenario, connects, results>>
    BY <2>2, QuietStory DEF WorkerNext
  <2>3. CASE WorkerCall /\ UNCHANGED <<scenario, connects, results>>
    <3>1. Calls(current) /\ current \in Requests
      BY <2>3, CallMoves
    <3>2. ~makeFut
      BY <2>3 DEF WorkerCall, TInv, IInv, ReadyBacked, OnePhase
    <3> QED
      BY <3>1, <3>2, CallKept, CallStory
  <2> QED
    BY <1>2, <2>1, <2>2, <2>3 DEF Worker
<1>3. ASSUME NEW r \in Requests,
             \/ SendCalls(r) \/ ChannelCall(r) \/ TakesResult(r)
             \/ ProbeTimesOut(r) \/ Request(r)
      PROVE  Story' /\ Kept'
  <2>1. CASE SendCalls(r)
    <3>1. Calls(r) /\ scenario # "cert_error"
      BY <2>1, CallMoves DEF SendCalls, Buffered
    <3> QED
      BY <3>1, CallKept, CallStory
  <2>2. CASE ChannelCall(r)
    BY <2>2, QuietStory DEF ChannelCall, Reserve, Enqueue
  <2> QED
    BY <1>3, <2>1, <2>2, TakeStory, TimeoutStory, RequestStory
<1>4. ASSUME NEW c \in Conns, ServerGoesAway(c) \/ ConnectionCloses(c)
      PROVE  Story' /\ Kept'
  BY <1>4, GoAwayStory, CloseStory
<1>5. CASE UNCHANGED testVars
  BY <1>5, QuietStory DEF testVars, allVars, chanVars
<1> QED
  BY <1>1, <1>2, <1>3, <1>4, <1>5 DEF TestNext

LEMMA InitTInv == TestInit => TInv
<1> SUFFICES ASSUME TestInit PROVE TInv
  OBVIOUS
<1>1. CInv /\ IInv
  BY InitCInv DEF TestInit, CInv
<1>2. /\ AllIdle /\ \A r \in Requests : chan[r] = "none"
      /\ queue = <<>> /\ current = None /\ ~ready
      /\ sendRequest = None /\ ~makeFut /\ ~connectError
      /\ connects = 0 /\ results = <<>>
      /\ scenario \in Scenarios /\ baseUriOk = (scenario # "base_uri")
  BY DEF TestInit, ChanInit, Init, AllIdle
<1>3. Client /\ OneUser /\ Kept
  BY <1>1, <1>2 DEF Client, Unused, OneUser, Busy, AllIdle, Kept, InFlight, InFlightStates
<1>4. \A S : Got(S)
  BY <1>2 DEF AllIdle, Got
<1>5. OneConnect
  BY <1>2 DEF OneConnect
<1>6. Len(results) = 0
  BY <1>2
<1>7. BaseUriStory /\ RequestUriStory /\ StreamErrorStory
  BY <1>2, <1>4, <1>5 DEF BaseUriStory, RequestUriStory, StreamErrorStory
<1>8. FailOnceStory
  BY <1>2 DEF FailOnceStory
<1>9. CertErrorStory
  BY <1>2, <1>4, <1>6 DEF CertErrorStory
<1>10. GoawayStory
  BY <1>2 DEF GoawayStory
<1> QED
  BY <1>1, <1>2, <1>3, <1>7, <1>8, <1>9, <1>10 DEF TInv, Story

\* TInv is an inductive invariant of the tests.
THEOREM TInvHolds == TestSpec => []TInv
<1>1. TInv /\ [TestNext]_testVars => TInv'
  BY StepIsSenderStep, IInvStep, ClientStep, OneUserStep, StoryStep DEF TInv
<1> QED
  BY <1>1, InitTInv, PTL DEF TestSpec

\* Every run of a test is a run of RequestSender: what is proved of it, that a healthy
\* connection is kept above all, holds in the tests.
THEOREM TestsAreSenders == TestSpec => Spec
<1>1. TestInit => Init
  BY DEF TestInit, ChanInit
<1>2. TInv /\ [TestNext]_testVars => [Next]_vars
  BY StepIsSenderStep
<1> QED
  BY <1>1, <1>2, TInvHolds, PTL DEF TestSpec, Spec

\* Every test of the reconnecting client passes, in every interleaving of its GOAWAY,
\* its connects and the ends of retired connections, with any number of connections
\* and flags, any buffer and three probes or more.
THEOREM TestsPass == TestSpec => []AssertionsHold
<1>1. TInv => AssertionsHold
  BY StoryAsserts DEF TInv
<1> QED
  BY <1>1, TInvHolds, PTL
=============================================================================
