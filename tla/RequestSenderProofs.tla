------------------------- MODULE RequestSenderProofs -------------------------
(***************************************************************************)
(* Proofs about RequestSender for any sets of requests, connections and     *)
(* flags.                                                                   *)
(*                                                                          *)
(* HealthySenderKept rests on FlagMeansClosing (poll_ready reads the truth  *)
(* in the flag), which rests on GenerationTag (whoever can set the current  *)
(* flag runs on the cached connection), which needs OnePhase (nobody can    *)
(* have captured the current flag while nothing is cached).  Together with  *)
(* the caller's part, ReadyBacked, they are inductive.                      *)
(***************************************************************************)
EXTENDS RequestSender, TLAPS

\* A caller that was told Ready has a sender or a deferred error behind it.
ReadyBacked == ready => connectError \/ sendRequest # None

IInv == TypeOK /\ OnePhase /\ GenerationTag /\ FlagMeansClosing /\ ReadyBacked

USE NoneAssumption

-----------------------------------------------------------------------------
\* Initially nothing is cached, nothing is in flight and no flag is set.
LEMMA InitIInv == Init => IInv
<1> SUFFICES ASSUME Init PROVE IInv
  OBVIOUS
<1>1. InFlight = {}
  BY DEF Init, InFlight, InFlightStates
<1>2. TypeOK
  BY <1>1 DEF Init, TypeOK
<1>3. OnePhase /\ GenerationTag /\ ReadyBacked
  BY <1>1 DEF Init, OnePhase, GenerationTag, ReadyBacked
<1>4. FlagMeansClosing
  BY <1>1 DEF Init, FlagMeansClosing
<1> QED
  BY <1>2, <1>3, <1>4 DEF IInv

\* The text that an error displays tells the two connection-level variants from
\* all others.
LEMMA ClosingErrors ==
  \A err \in DOMAIN Display :
    is_connection_closing(err) => err \in {"RemoteClosing", "ConnectionError"}
<1> SUFFICES ASSUME NEW err \in DOMAIN Display, is_connection_closing(err),
                    err \notin {"RemoteClosing", "ConnectionError"}
             PROVE  FALSE
  OBVIOUS
<1>1. err \in {"StreamError", "RemoteTerminate", "HeaderTooBig", "Undefined"}
  BY DEF Display
<1>2. /\ Display["StreamError"] = "Stream error:"
      /\ Display["RemoteTerminate"] = "Remote reset:"
      /\ Display["HeaderTooBig"] = "Header too big:"
      /\ Display["Undefined"] = "Undefined error:"
  BY DEF Display
<1> QED
  BY <1>1, <1>2 DEF is_connection_closing

\* The end of a request future keeps the invariant, whatever its outcome.
LEMMA FinishStep ==
  ASSUME IInv, NEW r \in Requests, NEW o \in Outcomes \cup {"idle"},
         r \in InFlight, Finish(r, o),
         UNCHANGED <<sender, flag, conn, driver, ready>>
  PROVE  IInv'
  BY DEF IInv, TypeOK, OnePhase, GenerationTag, FlagMeansClosing, ReadyBacked,
         InFlight, InFlightStates, Outcomes, Finish, sender

\* The end of a request future that failed on its stream keeps the invariant:
\* if it sets its flag, its connection no longer takes requests, and everyone
\* who holds the same flag runs on the same connection.
LEMMA FailStreamStep ==
  ASSUME IInv, NEW r \in Requests, r \in InFlight, NEW err \in DOMAIN Display,
         FailStream(r, err),
         is_connection_closing(err) => conn[reqConn[r]] # "live",
         UNCHANGED <<sender, conn, driver, ready>>
  PROVE  IInv'
<1>1. CASE ~is_connection_closing(err)
  <2>1. Finish(r, "stream_error") /\ flag' = flag
    BY <1>1 DEF FailStream
  <2> QED
    BY <2>1, FinishStep DEF Outcomes
<1>2. CASE is_connection_closing(err)
  <2>1. /\ Finish(r, "closing_error")
        /\ flag' = [flag EXCEPT ![reqFlag[r]] = TRUE]
        /\ conn[reqConn[r]] # "live"
        /\ reqFlag[r] \in Flags /\ reqConn[r] \in Conns
    BY <1>2 DEF FailStream, IInv, TypeOK
  <2>2. InFlight' = InFlight \ {r} /\ InFlight \subseteq Requests
    BY <2>1 DEF Finish, IInv, TypeOK, InFlight, InFlightStates
  <2>3. TypeOK'
    BY <2>1, <2>2 DEF Finish, IInv, TypeOK, sender, Outcomes
  <2>4. OnePhase' /\ ReadyBacked'
    BY DEF IInv, OnePhase, ReadyBacked, sender
  <2>5. \A q \in InFlight' : /\ q \in InFlight
                            /\ reqFlag'[q] = reqFlag[q]
                            /\ reqConn'[q] = reqConn[q]
    BY <2>1, <2>2 DEF Finish, IInv, TypeOK
  <2>6. GenerationTag'
    BY <2>5 DEF IInv, GenerationTag, sender
  <2>7. FlagMeansClosing'
    <3>1. \A q \in InFlight' : flag'[reqFlag'[q]] => conn'[reqConn'[q]] # "live"
      BY <2>1, <2>5 DEF IInv, TypeOK, GenerationTag, FlagMeansClosing
    <3>2. flag'[closing'] => sendRequest' # None /\ conn'[sendRequest'] # "live"
      BY <2>1 DEF IInv, TypeOK, GenerationTag, FlagMeansClosing, sender
    <3> QED
      BY <3>1, <3>2 DEF IInv, FlagMeansClosing
  <2> QED
    BY <2>3, <2>4, <2>6, <2>7 DEF IInv
<1> QED
  BY <1>1, <1>2

\* poll_ready keeps the invariant: it retires only what is stale, and a fresh
\* flag is held by no request.
LEMMA PollReadyStep == IInv /\ PollReady => IInv'
<1> SUFFICES ASSUME IInv, PollReady PROVE IInv'
  OBVIOUS
<1>1. /\ InFlight' = InFlight /\ InFlight \subseteq Requests
      /\ UNCHANGED <<baseUriOk, req, reqConn, reqFlag>>
  BY DEF PollReady, reqs, InFlight
<1>2. \A r \in InFlight : reqConn[r] \in Conns /\ reqFlag[r] \in Flags
  BY <1>1 DEF IInv, TypeOK
<1>3. closing' \in Flags /\ flag' \in [Flags -> BOOLEAN] /\ ~flag'[closing']
  BY DEF PollReady, retire_flag, FreshFlags, Retiring, IInv, TypeOK
<1>4. \A r \in InFlight : flag'[reqFlag[r]] = flag[reqFlag[r]]
  BY <1>1, <1>2 DEF PollReady, retire_flag, FreshFlags, IInv, TypeOK
<1>5. \A r \in InFlight :
        reqFlag[r] = closing' => ~Retiring /\ reqConn[r] = sendRequest
  BY <1>1, <1>2 DEF PollReady, retire_flag, FreshFlags, IInv, GenerationTag
<1>6. CASE PollCached \/ PollPending \/ PollFailed
  <2>1. /\ sendRequest' = CachedAfterRetire /\ driverRx' = RxAfterRetire
        /\ UNCHANGED <<conn, driver>>
    BY <1>6 DEF PollCached, PollPending, PollFailed
  <2>2. driverRx' = sendRequest'
    BY <2>1 DEF CachedAfterRetire, RxAfterRetire, IInv, OnePhase
  <2>3. sendRequest' # None => ~Retiring /\ sendRequest' = sendRequest
    BY <2>1 DEF CachedAfterRetire
  <2>4. /\ makeFut' \in BOOLEAN /\ connectError' \in BOOLEAN
        /\ ready' \in BOOLEAN
        /\ sendRequest' # None => ~makeFut' /\ ~connectError'
        /\ connectError' => ~makeFut'
        /\ ready' => connectError' \/ sendRequest' # None
    <3>1. CASE PollCached
      BY <2>1, <2>3, <3>1 DEF PollCached, IInv, TypeOK, OnePhase
    <3>2. CASE PollPending
      BY <2>1, <3>2 DEF PollPending, Connecting, IInv, TypeOK
    <3>3. CASE PollFailed
      BY <2>1, <3>3 DEF PollFailed, Connecting
    <3> QED
      BY <1>6, <3>1, <3>2, <3>3
  <2>5. TypeOK'
    BY <1>1, <1>3, <2>1, <2>2, <2>3, <2>4 DEF IInv, TypeOK
  <2>6. GenerationTag'
    BY <1>1, <1>5, <2>1 DEF IInv, GenerationTag, CachedAfterRetire
  <2>7. FlagMeansClosing'
    BY <1>1, <1>3, <1>4, <2>1 DEF IInv, FlagMeansClosing
  <2> QED
    BY <2>2, <2>4, <2>5, <2>6, <2>7 DEF IInv, OnePhase, ReadyBacked
<1>7. CASE PollConnected
  <2>1. PICK c \in FreshConns :
          /\ sendRequest' = c /\ driverRx' = c
          /\ conn' = [conn EXCEPT ![c] = "live"]
          /\ driver' = [driver EXCEPT ![c] = "running"]
    BY <1>7 DEF PollConnected
  <2>2. /\ makeFut' = FALSE /\ ready' = TRUE /\ connectError' = FALSE
        /\ CachedAfterRetire = None
    BY <1>7 DEF PollConnected, Connecting, IInv, TypeOK
  <2>3. c \in Conns /\ \A r \in Requests : reqConn[r] # c
    BY DEF FreshConns
  <2>4. TypeOK'
    BY <1>1, <1>3, <2>1, <2>2, <2>3 DEF IInv, TypeOK
  <2>5. OnePhase' /\ ReadyBacked'
    BY <2>1, <2>2, <2>3 DEF OnePhase, ReadyBacked
  <2>6. \A r \in InFlight : reqFlag[r] # closing'
    BY <1>2, <1>5, <2>2 DEF CachedAfterRetire
  <2>7. GenerationTag'
    BY <1>1, <2>6 DEF IInv, GenerationTag
  <2>8. FlagMeansClosing'
    <3>1. \A r \in InFlight : conn'[reqConn[r]] = conn[reqConn[r]]
      BY <1>1, <1>2, <2>1, <2>3 DEF IInv, TypeOK
    <3>2. \A d \in Conns : conn'[d] = "live" => driver'[d] = "running"
      BY <2>1, <2>3 DEF IInv, TypeOK, FlagMeansClosing
    <3> QED
      BY <1>1, <1>3, <1>4, <3>1, <3>2 DEF IInv, FlagMeansClosing
  <2> QED
    BY <2>4, <2>5, <2>7, <2>8 DEF IInv
<1> QED
  BY <1>6, <1>7 DEF PollReady

\* `call` keeps the invariant: the new request holds the current flag and the
\* cached connection.
LEMMA CallStep == \A r \in Requests : IInv /\ Call(r) => IInv'
<1> SUFFICES ASSUME NEW r \in Requests, IInv, Call(r) PROVE IInv'
  OBVIOUS
<1>1. r \notin InFlight
  BY DEF Call, InFlight, InFlightStates
<1>2. CASE CallOutcome = "created"
  <2>1. ~connectError /\ sendRequest # None
    BY <1>2 DEF CallOutcome, IInv, TypeOK
  <2>2. InFlight' = InFlight \cup {r} /\ InFlight \subseteq Requests
    BY <1>2 DEF Call, InFlight, InFlightStates, IInv, TypeOK
  <2>3. /\ reqConn' = [reqConn EXCEPT ![r] = sendRequest]
        /\ reqFlag' = [reqFlag EXCEPT ![r] = closing]
        /\ req' = [req EXCEPT ![r] = "created"]
    BY <1>2 DEF Call
  <2>4. TypeOK'
    BY <2>1, <2>2, <2>3 DEF Call, IInv, TypeOK, InFlightStates
  <2>5. OnePhase' /\ ReadyBacked'
    BY DEF Call, IInv, OnePhase, ReadyBacked
  <2>6. \A q \in InFlight : reqFlag'[q] = reqFlag[q] /\ reqConn'[q] = reqConn[q]
    BY <1>1, <2>2, <2>3 DEF IInv, TypeOK
  <2>7. reqFlag'[r] = closing /\ reqConn'[r] = sendRequest
    BY <2>3 DEF IInv, TypeOK
  <2>8. GenerationTag'
    BY <2>2, <2>6, <2>7 DEF Call, IInv, GenerationTag
  <2>9. FlagMeansClosing'
    BY <2>2, <2>6, <2>7 DEF Call, IInv, FlagMeansClosing
  <2> QED
    BY <2>4, <2>5, <2>8, <2>9 DEF IInv
<1>3. CASE CallOutcome # "created"
  <2>1. CallOutcome \in {"connect_error", "uri_error", "not_ready"}
    BY <1>3 DEF CallOutcome, IInv, TypeOK
  <2>2. InFlight' = InFlight
    BY <1>1, <2>1 DEF Call, InFlight, InFlightStates, IInv, TypeOK
  <2>3. UNCHANGED <<reqConn, reqFlag>>
    BY <1>3 DEF Call
  <2>4. TypeOK'
    BY <2>1, <2>2, <2>3 DEF Call, IInv, TypeOK, Outcomes
  <2>5. OnePhase' /\ ReadyBacked'
    BY DEF Call, IInv, OnePhase, ReadyBacked
  <2>6. GenerationTag' /\ FlagMeansClosing'
    BY <2>2, <2>3 DEF Call, IInv, GenerationTag, FlagMeansClosing
  <2> QED
    BY <2>4, <2>5, <2>6 DEF IInv
<1> QED
  BY <1>2, <1>3

\* The steps of a request future keep the invariant.
LEMMA RequestStepStep == \A r \in Requests : IInv /\ RequestStep(r) => IInv'
<1> SUFFICES ASSUME NEW r \in Requests, IInv, RequestStep(r) PROVE IInv'
  OBVIOUS
<1>1. r \in InFlight
  BY DEF RequestStep, SendHeader, SendHeaderFails, EagerBodyFails,
         RecvResponse, RecvResponseFails, InFlight, InFlightStates
<1>2. CASE SendHeader(r)
  <2>1. InFlight' = InFlight
    BY <1>1, <1>2 DEF SendHeader, InFlight, InFlightStates, IInv, TypeOK
  <2>2. TypeOK'
    BY <1>2, <2>1 DEF SendHeader, sender, IInv, TypeOK, InFlightStates
  <2>3. OnePhase' /\ ReadyBacked'
    BY <1>2 DEF SendHeader, sender, IInv, OnePhase, ReadyBacked
  <2>4. GenerationTag' /\ FlagMeansClosing'
    BY <1>2, <2>1 DEF SendHeader, sender, IInv, GenerationTag, FlagMeansClosing
  <2> QED
    BY <2>2, <2>3, <2>4 DEF IInv
<1>3. CASE EagerBodyFails(r) \/ RecvResponse(r)
  BY <1>1, <1>3, FinishStep DEF EagerBodyFails, RecvResponse, Outcomes
<1>4. CASE SendHeaderFails(r)
  <2>1. PICK err \in SendErrors(reqConn[r]) : FailStream(r, err)
    BY <1>4 DEF SendHeaderFails
  <2>2. err \in DOMAIN Display
    BY DEF SendErrors, Display
  <2>3. is_connection_closing(err) => conn[reqConn[r]] # "live"
    BY <2>2, ClosingErrors DEF SendErrors
  <2> QED
    BY <1>1, <1>4, <2>1, <2>2, <2>3, FailStreamStep DEF SendHeaderFails
<1>5. CASE RecvResponseFails(r)
  <2>1. PICK err \in RecvErrors(reqConn[r]) : FailStream(r, err)
    BY <1>5 DEF RecvResponseFails
  <2>2. err \in DOMAIN Display
    BY DEF RecvErrors, Display
  <2>3. is_connection_closing(err) => conn[reqConn[r]] # "live"
    BY <2>2, ClosingErrors DEF RecvErrors
  <2> QED
    BY <1>1, <1>5, <2>1, <2>2, <2>3, FailStreamStep DEF RecvResponseFails
<1> QED
  BY <1>2, <1>3, <1>4, <1>5 DEF RequestStep

\* Taking a result keeps the invariant.
LEMMA CollectStep == \A r \in Requests : IInv /\ Collect(r) => IInv'
<1> SUFFICES ASSUME NEW r \in Requests, IInv, Collect(r) PROVE IInv'
  OBVIOUS
<1>1. InFlight' = InFlight
  BY DEF Collect, InFlight, InFlightStates, Outcomes, IInv, TypeOK
<1>2. TypeOK'
  BY <1>1 DEF Collect, sender, IInv, TypeOK
<1>3. OnePhase' /\ ReadyBacked'
  BY DEF Collect, sender, IInv, OnePhase, ReadyBacked
<1>4. GenerationTag' /\ FlagMeansClosing'
  BY <1>1 DEF Collect, sender, IInv, GenerationTag, FlagMeansClosing
<1> QED
  BY <1>2, <1>3, <1>4 DEF IInv

\* What happens to a connection or its driver keeps the invariant.
LEMMA ConnStepStep == \A c \in Conns : IInv /\ ConnStep(c) => IInv'
<1> SUFFICES ASSUME NEW c \in Conns, IInv, ConnStep(c) PROVE IInv'
  OBVIOUS
<1>1. UNCHANGED <<sender, flag, reqs, ready>>
  BY DEF ConnStep, GoAway, ConnLost, DriverEnds, DriverAborted
<1>2. InFlight' = InFlight /\ InFlight \subseteq Requests
  BY <1>1 DEF InFlight, reqs
<1>3. /\ conn' \in [Conns -> {"live", "goaway", "closed"}]
      /\ driver' \in [Conns -> {"running", "ended", "aborted"}]
      /\ \A d \in Conns : conn'[d] = "live" => conn[d] = "live"
      /\ \A d \in Conns : conn'[d] = "live" => driver'[d] = "running"
  BY DEF ConnStep, GoAway, ConnLost, DriverEnds, DriverAborted, IInv, TypeOK,
         FlagMeansClosing
<1>4. TypeOK'
  BY <1>1, <1>2, <1>3 DEF IInv, TypeOK, sender, reqs
<1>5. OnePhase' /\ ReadyBacked'
  BY <1>1 DEF IInv, OnePhase, ReadyBacked, sender
<1>6. GenerationTag'
  BY <1>1, <1>2 DEF IInv, GenerationTag, sender, reqs
<1>7. FlagMeansClosing'
  BY <1>1, <1>2, <1>3 DEF IInv, TypeOK, FlagMeansClosing, sender, reqs
<1> QED
  BY <1>4, <1>5, <1>6, <1>7 DEF IInv

-----------------------------------------------------------------------------
\* Every action, and a step that changes nothing, keeps IInv.
LEMMA IInvStep == IInv /\ [Next]_vars => IInv'
<1> SUFFICES ASSUME IInv, [Next]_vars PROVE IInv'
  OBVIOUS
<1>1. CASE PollReady
  BY <1>1, PollReadyStep
<1>2. ASSUME NEW r \in Requests,
             Call(r) \/ RequestStep(r) \/ DropRequest(r) \/ Collect(r)
      PROVE  IInv'
  <2>1. CASE DropRequest(r)
    BY <2>1, FinishStep DEF DropRequest
  <2> QED
    BY <1>2, <2>1, CallStep, RequestStepStep, CollectStep
<1>3. ASSUME NEW c \in Conns, ConnStep(c) PROVE IInv'
  BY <1>3, ConnStepStep
<1>4. CASE UNCHANGED vars
  BY <1>4 DEF vars, sender, reqs, IInv, TypeOK, OnePhase, GenerationTag,
              FlagMeansClosing, ReadyBacked, InFlight
<1> QED
  BY <1>1, <1>2, <1>3, <1>4 DEF Next

\* IInv is an inductive invariant.
THEOREM IInvHolds == Spec => []IInv
  BY InitIInv, IInvStep, PTL DEF Spec

\* Every reachable state is typed, and a request future owns a handle and a
\* flag exactly while it runs: `call` never clones a sender that is not there.
THEOREM TypeCorrect == Spec => []TypeOK
<1>1. IInv => TypeOK
  BY DEF IInv
<1> QED
  BY <1>1, IInvHolds, PTL

\* The assertions on the cache-hit path of poll_ready never fail.
THEOREM OnePhaseHolds == Spec => []OnePhase
<1>1. IInv => OnePhase
  BY DEF IInv
<1> QED
  BY <1>1, IInvHolds, PTL

\* The Arc captured by `call` is a generation tag, for any number of requests.
THEOREM GenerationTagHolds == Spec => []GenerationTag
<1>1. IInv => GenerationTag
  BY DEF IInv
<1> QED
  BY <1>1, IInvHolds, PTL

\* A set flag is true of the connection of everyone who reads it.
THEOREM FlagMeansClosingHolds == Spec => []FlagMeansClosing
<1>1. IInv => FlagMeansClosing
  BY DEF IInv
<1> QED
  BY <1>1, IInvHolds, PTL

\* A step that drops or replaces the cached sender is a poll_ready that retires: the
\* driver ended or the current flag is set, and by FlagMeansClosing both mean that
\* the cached connection is closing.
LEMMA OnlyClosingRetired ==
    ASSUME IInv, Next, sendRequest # None, sendRequest' # sendRequest
    PROVE  conn[sendRequest] # "live"
<1>1. PollReady
  BY DEF Next, Call, RequestStep, SendHeader, SendHeaderFails, EagerBodyFails,
         RecvResponse, RecvResponseFails, DropRequest, Collect, ConnStep, GoAway,
         ConnLost, DriverEnds, DriverAborted, sender
<1>2. ~connectError /\ sendRequest \in Conns
  BY DEF IInv, OnePhase, TypeOK
<1>3. Retiring
  BY <1>1, <1>2 DEF PollReady, PollCached, PollPending, PollConnected, PollFailed,
                    Connecting, CachedAfterRetire
<1> QED
  BY <1>2, <1>3 DEF Retiring, DriverEnded, IInv, OnePhase, FlagMeansClosing

\* poll_ready never gives up a connection that accepts requests.
THEOREM HealthySenderKeptHolds == Spec => HealthySenderKept
<1>1. IInv /\ [Next]_vars
        => [sendRequest # None /\ sendRequest' # sendRequest
               => conn[sendRequest] # "live"]_vars
  BY OnlyClosingRetired
<1> QED
  BY <1>1, IInvHolds, PTL DEF Spec, HealthySenderKept

\* Only poll_ready makes the caller ready, and what it leaves cached is a new
\* connection, or one that it did not retire because its driver still runs.
LEMMA ReadyOnRunning ==
    ASSUME IInv, Next, ~ready, ready', ~connectError'
    PROVE  driver'[sendRequest'] = "running"
<1>1. PollReady
  BY DEF Next, Call, RequestStep, SendHeader, SendHeaderFails, EagerBodyFails,
         RecvResponse, RecvResponseFails, DropRequest, Collect, ConnStep, GoAway,
         ConnLost, DriverEnds, DriverAborted
<1>2. CASE PollCached
  <2>1. sendRequest' = CachedAfterRetire /\ driver' = driver /\ CachedAfterRetire # None
    BY <1>2 DEF PollCached
  <2>2. ~DriverEnded /\ sendRequest' = driverRx /\ driverRx # None
    BY <2>1 DEF CachedAfterRetire, Retiring, IInv, OnePhase
  <2> QED
    BY <2>1, <2>2 DEF DriverEnded
<1>3. CASE PollConnected
  BY <1>3 DEF PollConnected, FreshConns, IInv, TypeOK
<1> QED
  BY <1>1, <1>2, <1>3 DEF PollReady, PollPending, PollFailed

\* A request is never handed to a connection whose driver had ended when the sender
\* became ready, in any number of connections.
THEOREM EndedDriverNotReusedHolds == Spec => EndedDriverNotReused
<1>1. IInv /\ [Next]_vars
        => [~ready /\ ready' /\ ~connectError'
               => driver'[sendRequest'] = "running"]_vars
  BY ReadyOnRunning
<1> QED
  BY <1>1, IInvHolds, PTL DEF Spec, EndedDriverNotReused

\* A caller that waits for Ready(Ok) never meets the "not ready" error.
THEOREM ReadyIsHonouredHolds == Spec => ReadyIsHonoured
<1> DEFINE Honoured == \A r \in Requests :
                         req[r] = "idle" /\ req'[r] = "not_ready" => ~ready
<1>1. IInv /\ [Next]_vars => [Honoured]_vars
  <2> SUFFICES ASSUME IInv, Next, NEW r \in Requests, req[r] = "idle",
                      req'[r] = "not_ready"
               PROVE  ~ready
    BY DEF vars, reqs
  <2>1. Call(r)
    <3>1. ~PollReady /\ \A c \in Conns : ~ConnStep(c)
      BY DEF PollReady, ConnStep, GoAway, ConnLost, DriverEnds, DriverAborted,
             reqs
    <3>2. ASSUME NEW q \in Requests,
                 RequestStep(q) \/ DropRequest(q) \/ Collect(q)
          PROVE  FALSE
      BY <3>2 DEF RequestStep, SendHeader, SendHeaderFails, EagerBodyFails,
           RecvResponse, RecvResponseFails, DropRequest, Collect, FailStream,
           Finish, InFlight, InFlightStates, IInv, TypeOK
    <3>3. ASSUME NEW q \in Requests, Call(q) PROVE q = r
      BY <3>3 DEF Call, IInv, TypeOK
    <3> QED
      BY <3>1, <3>2, <3>3 DEF Next
  <2>2. ~connectError /\ sendRequest = None
    BY <2>1 DEF Call, CallOutcome, IInv, TypeOK
  <2> QED
    BY <2>2 DEF IInv, ReadyBacked
<1> QED
  BY <1>1, IInvHolds, PTL DEF Spec, ReadyIsHonoured
=============================================================================
