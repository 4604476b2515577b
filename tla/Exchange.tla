------------------------------ MODULE Exchange ------------------------------
(***************************************************************************)
(* One HTTP/3 request and its response, at both ends: the client's request  *)
(* future after its headers are sent (send_request_inner), the body sender  *)
(* it polls eagerly and then detaches (send_h3_client_body), the response   *)
(* body (H3IncomingClient); and the server's request task (serve_request),  *)
(* the request body (H3IncomingServer) and the response body sender         *)
(* (send_h3_server_body).  Both senders run under a SendResetGuard.         *)
(*                                                                          *)
(* The stream has two halves, "request" and "response".  A half carries the *)
(* frames of one body from its sender to its receiver; the frames are known *)
(* from the start, and `sent` and `rcvd` count how many of them the         *)
(* transport took and the receiver was given.  Everything outside the two   *)
(* crates (QUIC, h3, the handler, the application) is the environment.      *)
(*                                                                          *)
(* As in RequestSender, a suffixed name is a wrong variant of the operator  *)
(* it stands next to, and no part of the specification.                     *)
(***************************************************************************)
EXTENDS Naturals, Sequences

CONSTANTS
    Bodies,   \* bodies to send: frames "data" and "trailers", and a source that
              \* fails ("error") or never yields again ("pending")
    Window    \* frames the transport takes before the receiver reads one

ASSUME WindowAssumption == Window \in Nat \ {0}
ASSUME BodiesAssumption ==
    Bodies \subseteq Seq({"data", "trailers", "error", "pending"})

\* The contract of http_body::Body: no frame comes after the trailers.
ASSUME TrailersAssumption ==
    \A b \in Bodies : \A i, j \in 1 .. Len(b) :
        b[i] = "trailers" /\ i < j => b[j] \in {"error", "pending"}

VARIABLES
    body,     \* what the source of each half yields
    sent,     \* frames of the half that the transport accepted
    rcvd,     \* frames of the half that its receiver was given
    ending,   \* how the send side of the half ended, as the receiver sees it
    stop,     \* the code of STOP_SENDING on the half, if it was sent
    spc,      \* where the body sender of the half stands
    guard,    \* its SendResetGuard
    cause,    \* history: why the sender stopped
    rcv,      \* the incoming body: data_done, finished, or dropped
    cpc,      \* the client: request future, then response body
    result,   \* history: what the client's caller got
    vpc,      \* the server's request task
    header,   \* the response headers are on the stream
    lost      \* the connection is gone

halves == <<sent, rcvd, ending, stop, spc, guard, cause, rcv>>
vars == <<body, halves, cpc, result, vpc, header, lost>>

Half == {"request", "response"}
Cancelled == "H3_REQUEST_CANCELLED"
Internal  == "H3_INTERNAL_ERROR"
NoError   == "H3_NO_ERROR"
Reset     == {Cancelled, Internal}

-----------------------------------------------------------------------------
(* SendResetGuard *)

NewGuard_disarmed == [armed |-> FALSE, code |-> Cancelled]

NewGuard == [armed |-> TRUE, code |-> Cancelled]

set_error_code(g, code) == [g EXCEPT !.code = code]

disarm(g) == [g EXCEPT !.armed = FALSE]

\* Dropping the send half.  An armed guard resets the stream; without one the
\* transport finishes an open stream, which looks like a complete message.
\* Nothing happens to a stream that is finished or reset already.
DropSend(end, g) ==
    CASE end # "open" -> end
      [] end = "open" /\ g.armed -> g.code
      [] OTHER -> "fin"

\* The body sender returns, or is dropped, with the guard as g.
SenderOver(h, g, why) ==
    /\ spc' = [spc EXCEPT ![h] = "over"]
    /\ guard' = [guard EXCEPT ![h] = g]
    /\ ending' = [ending EXCEPT ![h] = DropSend(@, g)]
    /\ cause' = [cause EXCEPT ![h] = why]

-----------------------------------------------------------------------------
(* The loop of a body sender, the same at both ends. *)

NextFrame(h) == IF sent[h] < Len(body[h]) THEN body[h][sent[h] + 1] ELSE "end"

\* poll_frame yields a frame, and its send_data or send_trailers begins.
PullFrame(h) ==
    /\ spc[h] = "select"
    /\ NextFrame(h) \in {"data", "trailers"}
    /\ spc' = [spc EXCEPT ![h] = "send"]
    /\ UNCHANGED <<sent, rcvd, ending, stop, guard, cause, rcv>>

\* poll_frame yields None: finish begins.
PullEnd(h) ==
    /\ spc[h] = "select"
    /\ NextFrame(h) = "end"
    /\ spc' = [spc EXCEPT ![h] = "finish"]
    /\ UNCHANGED <<sent, rcvd, ending, stop, guard, cause, rcv>>

\* The send ends well: flow control has room.  A STOP_SENDING may be on its way.
SendOk(h) ==
    /\ spc[h] = "send"
    /\ ~lost
    /\ sent[h] - rcvd[h] < Window
    /\ sent' = [sent EXCEPT ![h] = @ + 1]
    /\ spc' = [spc EXCEPT ![h] = "select"]
    /\ UNCHANGED <<rcvd, ending, stop, guard, cause, rcv>>

SourceFails_default_code(h) ==
    /\ spc[h] = "select"
    /\ NextFrame(h) = "error"
    /\ SenderOver(h, guard[h], "source")

\* poll_frame yields an error: the local source failed.
SourceFails(h) ==
    /\ spc[h] = "select"
    /\ NextFrame(h) = "error"
    /\ SenderOver(h, set_error_code(guard[h], Internal), "source")

\* send_data, send_trailers or finish fails.
TransportFails(h) ==
    /\ spc[h] \in {"send", "finish"}
    /\ lost \/ stop[h] # "none"
    /\ SenderOver(h, set_error_code(guard[h], Internal), "transport")

\* finish succeeds; only then is the guard disarmed.
FinishOk(h) ==
    /\ spc[h] = "finish"
    /\ ~lost
    /\ spc' = [spc EXCEPT ![h] = "over"]
    /\ ending' = [ending EXCEPT ![h] = "fin"]
    /\ guard' = [guard EXCEPT ![h] = disarm(@)]
    /\ cause' = [cause EXCEPT ![h] = "completed"]
    /\ UNCHANGED <<sent, rcvd, stop, rcv>>

\* The task that runs the sender is dropped at an await.
SenderDropped(h) ==
    /\ spc[h] \in {"select", "send", "finish"}
    /\ SenderOver(h, guard[h], "abort")
    /\ UNCHANGED <<sent, rcvd, stop, rcv>>

-----------------------------------------------------------------------------
(* An incoming body, the same at both ends but for the code of its Drop.     *)
(* rcv is "data" before data_done, then "trailers", and "ended" or "failed"   *)
(* once `finished` is set.                                                    *)

Unread(h) == rcvd[h] < sent[h]
Eos(h)    == ending[h] = "fin" /\ ~Unread(h)

\* poll_recv_data yields a piece of data.
PollData(h) ==
    /\ rcv[h] = "data"
    /\ ~lost
    /\ Unread(h) /\ body[h][rcvd[h] + 1] = "data"
    /\ rcvd' = [rcvd EXCEPT ![h] = @ + 1]
    /\ UNCHANGED <<sent, ending, stop, spc, guard, cause, rcv>>

PollDataDone_finished(h) ==
    /\ rcv[h] = "data"
    /\ ~lost
    /\ Eos(h) \/ (Unread(h) /\ body[h][rcvd[h] + 1] = "trailers")
    /\ rcv' = [rcv EXCEPT ![h] = "ended"]
    /\ UNCHANGED <<sent, rcvd, ending, stop, spc, guard, cause>>

\* poll_recv_data yields None, before trailers or at the end of the stream;
\* poll_frame sets data_done and asks to be polled again.
PollDataDone(h) ==
    /\ rcv[h] = "data"
    /\ ~lost
    /\ Eos(h) \/ (Unread(h) /\ body[h][rcvd[h] + 1] = "trailers")
    /\ rcv' = [rcv EXCEPT ![h] = "trailers"]
    /\ UNCHANGED <<sent, rcvd, ending, stop, spc, guard, cause>>

\* poll_recv_trailers yields the trailers; h3 gives them out only when it has
\* seen the end of the stream behind them.  `finished` is not set.
PollTrailers(h) ==
    /\ rcv[h] = "trailers"
    /\ ~lost
    /\ Unread(h) /\ ending[h] = "fin"
    /\ rcvd' = [rcvd EXCEPT ![h] = @ + 1]
    /\ UNCHANGED <<sent, ending, stop, spc, guard, cause, rcv>>

\* poll_recv_trailers yields None.
PollEnd(h) ==
    /\ rcv[h] = "trailers"
    /\ ~lost
    /\ Eos(h)
    /\ rcv' = [rcv EXCEPT ![h] = "ended"]
    /\ UNCHANGED <<sent, rcvd, ending, stop, spc, guard, cause>>

\* Either poll fails: the peer reset the stream (what was not read yet may be
\* gone) or the connection is lost.
PollFails(h) ==
    /\ rcv[h] \in {"data", "trailers"}
    /\ lost \/ ending[h] \in Reset
    /\ rcv' = [rcv EXCEPT ![h] = "failed"]
    /\ UNCHANGED <<sent, rcvd, ending, stop, spc, guard, cause>>

PollFrame(h) ==
    \/ PollData(h) \/ PollDataDone(h) \/ PollTrailers(h) \/ PollEnd(h)
    \/ PollFails(h)

\* STOP_SENDING is ignored on a stream that was received to its end.
StopSending(h, code) == IF Eos(h) \/ stop[h] # "none" THEN stop[h] ELSE code

\* Drop of an incoming body: with its own code unless `finished` is set, and
\* then the transport's, with code 0, unless the stream failed.
DropIncoming(h, code) ==
    /\ rcv[h] \in {"data", "trailers", "ended", "failed"}
    /\ stop' = [stop EXCEPT ![h] =
          IF rcv[h] = "failed" THEN @
          ELSE StopSending(h, IF rcv[h] = "ended" THEN "0" ELSE code)]
    /\ rcv' = [rcv EXCEPT ![h] = "dropped"]
    /\ UNCHANGED <<sent, rcvd, ending, spc, guard, cause>>

\* Dropping a receive half that no incoming body wraps: the transport sends
\* STOP_SENDING with code 0.
DropBare(h) == stop' = [stop EXCEPT ![h] = StopSending(h, "0")]

-----------------------------------------------------------------------------
(* The client: send_request_inner from the split of the stream on. *)

CancelFired_future_only == cpc = "over" /\ result # "response"

\* The receiver `cancel` of the body sender fires: cancel_tx, owned by the
\* request future and then by the response body, is dropped.
CancelFired == cpc = "over"

\* The select! is biased: cancel_rx is looked at before the body is polled.
ClientPull ==
    /\ ~CancelFired
    /\ PullFrame("request") \/ PullEnd("request")
    /\ UNCHANGED <<body, cpc, result, vpc, header, lost>>

ClientSendOk ==
    /\ SendOk("request")
    /\ UNCHANGED <<body, cpc, result, vpc, header, lost>>

\* The body is sent.  During the eager poll the future goes on.
ClientFinish ==
    /\ FinishOk("request")
    /\ cpc' = IF cpc = "eager" THEN "awaiting" ELSE cpc
    /\ UNCHANGED <<body, result, vpc, header, lost>>

\* The sender fails in its own task: the error is logged.
ClientSendFails ==
    /\ cpc # "eager"
    /\ TransportFails("request") \/ (~CancelFired /\ SourceFails("request"))
    /\ UNCHANGED <<body, sent, rcvd, stop, rcv, cpc, result, vpc, header, lost>>

\* The sender fails during the eager poll: `res?` fails the request, and drops
\* the receive half.
EagerSendFails ==
    /\ cpc = "eager"
    /\ TransportFails("request") \/ SourceFails("request")
    /\ DropBare("response")
    /\ cpc' = "over"
    /\ result' = "error"
    /\ UNCHANGED <<body, sent, rcvd, rcv, vpc, header, lost>>

\* The eager poll is pending: the sender moves to a task of its own.
SpawnBody ==
    /\ cpc = "eager"
    /\ cpc' = "awaiting"
    /\ UNCHANGED <<body, halves, result, vpc, header, lost>>

CancelBody_disarms ==
    /\ CancelFired
    /\ spc["request"] = "select"
    /\ SenderOver("request", disarm(guard["request"]), "cancel")
    /\ UNCHANGED <<body, sent, rcvd, stop, rcv, cpc, result, vpc, header, lost>>

\* The cancel branch of the select!: return Ok with the guard still armed.
CancelBody ==
    /\ CancelFired
    /\ spc["request"] = "select"
    /\ SenderOver("request", guard["request"], "cancel")
    /\ UNCHANGED <<body, sent, rcvd, stop, rcv, cpc, result, vpc, header, lost>>

\* The executor drops the task of the sender.
ClientAbort ==
    /\ cpc # "eager"
    /\ SenderDropped("request")
    /\ UNCHANGED <<body, cpc, result, vpc, header, lost>>

\* recv_response gives the headers; the response body takes over cancel_tx.
RecvResponse ==
    /\ cpc = "awaiting"
    /\ ~lost
    /\ header
    /\ cpc' = "returned"
    /\ result' = "response"
    /\ rcv' = [rcv EXCEPT !["response"] = "data"]
    /\ UNCHANGED <<body, sent, rcvd, ending, stop, spc, guard, cause, vpc,
                   header, lost>>

\* recv_response fails: the connection is lost, the stream reset, or it ended
\* without headers.
RecvResponseFails ==
    /\ cpc = "awaiting"
    /\ \/ lost
       \/ ending["response"] \in Reset
       \/ ending["response"] = "fin" /\ ~header
    /\ cpc' = "over"
    /\ result' = "error"
    /\ DropBare("response")
    /\ UNCHANGED <<body, sent, rcvd, ending, spc, guard, cause, rcv, vpc,
                   header, lost>>

\* The caller drops the request future.
DropRequestFuture ==
    /\ cpc = "awaiting"
    /\ cpc' = "over"
    /\ result' = "dropped"
    /\ DropBare("response")
    /\ UNCHANGED <<body, sent, rcvd, ending, spc, guard, cause, rcv, vpc,
                   header, lost>>

\* The application reads the response body ...
ClientPollFrame ==
    /\ cpc = "returned"
    /\ PollFrame("response")
    /\ UNCHANGED <<body, cpc, result, vpc, header, lost>>

\* ... and drops it, and cancel_tx with it.
DropResponseBody ==
    /\ cpc = "returned"
    /\ DropIncoming("response", Cancelled)
    /\ cpc' = "over"
    /\ UNCHANGED <<body, result, vpc, header, lost>>

-----------------------------------------------------------------------------
(* The server: serve_request and the task around it. *)

\* resolve_request succeeds: the handler gets the request and its body.
ResolveRequest ==
    /\ vpc = "resolve"
    /\ ~lost
    /\ vpc' = "service"
    /\ rcv' = [rcv EXCEPT !["request"] = "data"]
    /\ UNCHANGED <<body, sent, rcvd, ending, stop, spc, guard, cause, cpc,
                   result, header, lost>>

\* The handler, or whoever it gave the request body to, reads the body ...
ServerPollFrame ==
    /\ PollFrame("request")
    /\ UNCHANGED <<body, cpc, result, vpc, header, lost>>

\* ... and drops it.
DropRequestBody ==
    /\ DropIncoming("request", NoError)
    /\ UNCHANGED <<body, cpc, result, vpc, header, lost>>

\* The handler returned and the response headers are sent; the guard is in
\* place before the next await.
SendResponse ==
    /\ vpc = "service"
    /\ ~lost
    /\ header' = TRUE
    /\ vpc' = "body"
    /\ spc' = [spc EXCEPT !["response"] = "select"]
    /\ guard' = [guard EXCEPT !["response"] = NewGuard]
    /\ UNCHANGED <<body, sent, rcvd, ending, stop, cause, rcv, cpc, result,
                   lost>>

\* The task ends before the response headers are out: resolve_request or
\* send_response fails, or the executor drops the task.  No guard protects the
\* send half yet.
ServerEndsEarly ==
    /\ vpc \in {"resolve", "service"}
    /\ vpc' = "over"
    /\ ending' = [ending EXCEPT !["response"] = "fin"]
    /\ IF vpc = "resolve" THEN DropBare("request") ELSE UNCHANGED stop
    /\ UNCHANGED <<body, sent, rcvd, spc, guard, cause, rcv, cpc, result,
                   header, lost>>

ServerPull ==
    /\ PullFrame("response") \/ PullEnd("response")
    /\ UNCHANGED <<body, cpc, result, vpc, header, lost>>

ServerSendOk ==
    /\ SendOk("response")
    /\ UNCHANGED <<body, cpc, result, vpc, header, lost>>

ServerFinish ==
    /\ FinishOk("response")
    /\ vpc' = "over"
    /\ UNCHANGED <<body, cpc, result, header, lost>>

ServerSendFails ==
    /\ TransportFails("response") \/ SourceFails("response")
    /\ vpc' = "over"
    /\ UNCHANGED <<body, sent, rcvd, stop, rcv, cpc, result, header, lost>>

ServerAbort ==
    /\ SenderDropped("response")
    /\ vpc' = "over"
    /\ UNCHANGED <<body, cpc, result, header, lost>>

-----------------------------------------------------------------------------
ConnectionLost ==
    /\ ~lost
    /\ lost' = TRUE
    /\ UNCHANGED <<body, halves, cpc, result, vpc, header>>

Init ==
    /\ body \in [Half -> Bodies]
    /\ sent = [h \in Half |-> 0]
    /\ rcvd = [h \in Half |-> 0]
    /\ ending = [h \in Half |-> "open"]
    /\ stop = [h \in Half |-> "none"]
    /\ spc = [request |-> "select", response |-> "none"]
    /\ guard = [h \in Half |-> NewGuard]
    /\ cause = [h \in Half |-> "none"]
    /\ rcv = [h \in Half |-> "none"]
    /\ cpc = "eager"
    /\ result = "none"
    /\ vpc = "resolve"
    /\ header = FALSE
    /\ lost = FALSE

ClientSenderStep ==
    \/ ClientSendOk \/ ClientFinish \/ ClientSendFails
    \/ EagerSendFails \/ SpawnBody \/ CancelBody

ClientStep ==
    \/ RecvResponse \/ RecvResponseFails \/ ClientPollFrame
    \/ DropResponseBody

ServerSenderStep ==
    \/ ServerPull \/ ServerSendOk \/ ServerFinish \/ ServerSendFails

Next ==
    \/ ClientPull \/ ClientSenderStep \/ ClientAbort
    \/ ClientStep \/ DropRequestFuture
    \/ ResolveRequest \/ ServerPollFrame \/ DropRequestBody \/ SendResponse
    \/ ServerEndsEarly \/ ServerSenderStep \/ ServerAbort
    \/ ConnectionLost

Spec == Init /\ [][Next]_vars

-----------------------------------------------------------------------------
(* Fairness, for liveness only. *)

\* Both runtimes run their tasks.  The client's body source (ClientPull) may
\* stall for ever; that of the server does not, for nothing wakes the server's
\* sender while it waits for the next frame.
TaskFairness ==
    /\ WF_vars(ClientSenderStep)
    /\ WF_vars(ServerSenderStep)
    /\ WF_vars(ResolveRequest \/ ServerEndsEarly)

FairSpec == Spec /\ TaskFairness

\* The applications are well behaved: a body that was handed out is read or
\* dropped, and the handler returns.
DrainedSpec ==
    /\ FairSpec
    /\ WF_vars(ClientStep)
    /\ WF_vars(ServerPollFrame \/ DropRequestBody)
    /\ WF_vars(SendResponse \/ ServerEndsEarly)

-----------------------------------------------------------------------------
(* Safety *)

\* The types.
TypeOK ==
    /\ body \in [Half -> Bodies]
    /\ sent \in [Half -> Nat] /\ rcvd \in [Half -> Nat]
    /\ \A h \in Half : rcvd[h] <= sent[h] /\ sent[h] <= Len(body[h])
    /\ ending \in [Half -> {"open", "fin"} \cup Reset]
    /\ stop \in [Half -> {"none", "0", NoError, Cancelled}]
    /\ spc \in [Half -> {"none", "select", "send", "finish", "over"}]
    /\ guard \in [Half -> [armed : BOOLEAN, code : Reset]]
    /\ cause \in [Half -> {"none", "completed", "source", "transport",
                           "cancel", "abort"}]
    /\ rcv \in [Half -> {"none", "data", "trailers", "ended", "failed",
                         "dropped"}]
    /\ cpc \in {"eager", "awaiting", "returned", "over"}
    /\ result \in {"none", "response", "error", "dropped"}
    /\ vpc \in {"resolve", "service", "body", "over"}
    /\ header \in BOOLEAN
    /\ lost \in BOOLEAN

\* What a receiver takes for the end of the message.
SeesEnd(h) ==
    \/ rcv[h] = "ended"
    \/ rcvd[h] > 0 /\ body[h][rcvd[h]] = "trailers"

\* No truncated message passes for a complete one: a receiver that reads to a
\* clean end, or to the trailers, was given every frame of a body whose source
\* did not fail, however the sender was cancelled, failed or was dropped.
NoTruncation ==
    \A h \in Half :
        SeesEnd(h) => rcvd[h] = Len(body[h]) /\ cause[h] = "completed"

\* The reset code tells why the body was cut short: a failing source or
\* transport is H3_INTERNAL_ERROR, H3_REQUEST_CANCELLED is only ever a cancelled
\* request or a dropped task, and a body that was sent whole is not reset.
ResetTellsWhy ==
    \A h \in Half :
        /\ cause[h] \in {"source", "transport"} => ending[h] = Internal
        /\ cause[h] \in {"cancel", "abort"} => ending[h] = Cancelled
        /\ cause[h] = "completed" => ending[h] = "fin"

\* STOP_SENDING with code 0, which is no HTTP/3 code, is left only to a stream
\* on which no body was handed to an application.
StopCodeIsHttp3 ==
    \A h \in Half : rcv[h] # "none" => stop[h] # "0"

\* What the receiver of a half knows of its message.
Verdict(r) ==
    IF r = "ended" THEN "whole"
    ELSE IF r = "failed" THEN "failed"
    ELSE IF r = "dropped" THEN "left" ELSE "reading"

\* A response whose headers were never sent has no fate.
fates == [h \in Half |-> IF spc[h] = "none" THEN "open" ELSE ending[h]]
verdicts == [h \in Half |-> Verdict(rcv[h])]

Delivery == INSTANCE BodyDelivery WITH
    Halves <- Half, Codes <- Reset, fate <- fates, got <- rcvd, verdict <- verdicts

\* Each half delivers its body as BodyDelivery promises: its fate is decided once
\* (no reset turns into a clean end or the other way round, whatever the guard, the
\* transport and a late finish do), and the receiver's view agrees with it.
BodiesDelivered == Delivery!Spec

-----------------------------------------------------------------------------
(* Liveness *)

\* Every exchange comes to an end on both sides.
ExchangeEnds == <>(cpc = "over" /\ vpc = "over" /\ spc["request"] = "over")

-----------------------------------------------------------------------------
(* What documents and comments of the repository say of the program, and the  *)
(* program does not do.                                                       *)

\* "When the response body is dropped, cancel_tx drops, triggering cancellation", and
\* the task that sends the body exits: once the user has dropped the response the
\* upload ends.  (Not while a send_data is awaited that the server's window blocks.)
CancelStopsUpload == (cpc = "over") ~> (spc["request"] = "over")

\* "H3_NO_ERROR so the client keeps the response": a client does not fail a
\* request whose whole response is there because the server stopped reading the
\* request body.
EarlyResponseKept ==
    [][EagerSendFails /\ ~lost /\ cause'["request"] = "transport"
          => ~(header /\ ending["response"] = "fin")]_vars
=============================================================================
