----------------------------- MODULE UploadTests -----------------------------
(***************************************************************************)
(* The tests of interrupted uploads as models: what a server that reads a   *)
(* request body, at once or in the background, is told about its end, and   *)
(* what a client hears whose body nobody wants.  The two ends are those of  *)
(* Exchange; a test chooses the bodies, the handler and when the client     *)
(* drops its response.                                                      *)
(***************************************************************************)
EXTENDS Exchange

VARIABLES
    scenario,   \* the test
    outcome     \* what was reported to it: "clean", or an error code

testVars == <<vars, scenario, outcome>>

\* FailAfterOneFrame and OneFrameThenPending; the first waits before it fails, so
\* that the eager poll of the body finds it pending.
FailAfterOneFrame   == <<"data", "error">>
OneFrameThenPending == <<"data", "pending">>

\* Of each test the request body, the response body, the handler and the outcome
\* that it asserts.  The first is also the first request of the stream error test.
ClientBodyError ==
    [req |-> FailAfterOneFrame, resp |-> <<>>, route |-> "/spawn", want |-> Internal]

ClientCancel ==
    [req |-> OneFrameThenPending, resp |-> <<>>, route |-> "/spawn", want |-> Cancelled]

NormalUpload ==
    [req |-> <<"data">>, resp |-> <<>>, route |-> "/read", want |-> "clean"]

\* The client sends for ever; three frames are more than the window holds.
IgnoredBody ==
    [req |-> <<"data", "data", "data">>, resp |-> <<"data">>, route |-> "/",
     want |-> NoError]

Test == [body_error |-> ClientBodyError, cancel |-> ClientCancel,
         normal |-> NormalUpload, ignored |-> IgnoredBody]

Scenarios == DOMAIN Test
Route == Test[scenario].route

-----------------------------------------------------------------------------
(* The handlers *)

\* read_handler, spawn_read_handler, drain_handler: the loop over body.frame()
\* ends, and the outcome is sent to the test.
Report ==
    /\ Route # "/"
    /\ outcome = "none"
    /\ rcv["request"] \in {"ended", "failed"}
    /\ outcome' = IF rcv["request"] = "ended" THEN "clean" ELSE ending["request"]
    /\ UNCHANGED <<vars, scenario>>

\* The body is read in the handler, in a task, or not at all ...
Reads == Route # "/" /\ ServerPollFrame

\* ... and dropped when it was reported, or at once.
Drops == (Route = "/" \/ outcome # "none") /\ DropRequestBody

\* /read answers after it has read, "/" when axum has dropped the body, the others
\* at any time.
Responds == (Route = "/spawn" \/ rcv["request"] = "dropped") /\ SendResponse

ServerStep ==
    /\ ResolveRequest \/ Reads \/ Drops \/ Responds \/ ServerPull \/ ServerSendOk
       \/ ServerFinish
    /\ UNCHANGED <<scenario, outcome>>

-----------------------------------------------------------------------------
(* The clients *)

\* The raw client of the ignored body sends once it has read the response.
ClientMaySend == scenario = "ignored" => rcv["response"] \in {"trailers", "ended"}

SendsBody ==
    /\ \/ ClientMaySend /\ ClientPull
       \/ ClientSendOk \/ ClientFinish \/ SpawnBody \/ CancelBody \/ ClientSendFails
    /\ outcome' = IF scenario = "ignored" /\ cause'["request"] = "transport"
                  THEN stop["request"] ELSE outcome
    /\ UNCHANGED scenario

\* client_cancel_resets_stream drops its response early, the others when they have
\* their outcome.
HoldsResponse == scenario # "cancel" /\ outcome = "none"

Response ==
    /\ \/ RecvResponse
       \/ scenario = "ignored" /\ ClientPollFrame
       \/ ~HoldsResponse /\ DropResponseBody
    /\ UNCHANGED <<scenario, outcome>>

-----------------------------------------------------------------------------
TestInit ==
    /\ Init
    /\ scenario \in Scenarios
    /\ body = [request |-> Test[scenario].req, response |-> Test[scenario].resp]
    /\ outcome = "none"

TestNext == Report \/ ServerStep \/ SendsBody \/ Response

TestSpec ==
    TestInit /\ [][TestNext]_testVars
        /\ WF_testVars(Report \/ ServerStep)
        /\ WF_testVars(SendsBody)
        /\ WF_testVars(Response)

-----------------------------------------------------------------------------
\* Every upload test passes, in every interleaving of the two ends: a failed source is reported as H3_INTERNAL_ERROR and a cancelled upload
\* as H3_REQUEST_CANCELLED, never as a clean end, a complete one as a clean end after
\* all its frames, and a body that the handler ignores is stopped with H3_NO_ERROR.
OutcomeAsserted ==
    outcome # "none" =>
        /\ outcome = Test[scenario].want
        /\ outcome = "clean" => rcvd["request"] = Len(body["request"])

\* The test hears of the end of the upload: the drop of the response reaches a
\* sender whose source is silent, and the STOP_SENDING one that goes on.
OutcomeReported == <>(outcome # "none" /\ cpc = "over")
=============================================================================
