------------------------------ MODULE H3Channel ------------------------------
(***************************************************************************)
(* The cloneable client channel (client.rs): a RequestSender behind a       *)
(* tower Buffer.  Handles reserve a place and enqueue their request; one    *)
(* worker task takes the requests in order, polls the RequestSender until   *)
(* it is ready, calls it, and hands the request future back to the handle,  *)
(* whose task runs it.                                                      *)
(*                                                                          *)
(* The sender, its connections and the request futures are those of         *)
(* RequestSender; here poll_ready and call are taken by the worker alone.   *)
(***************************************************************************)
EXTENDS RequestSender, Sequences

CONSTANT BufferSize   \* DEFAULT_BUFFER_SIZE

ASSUME BufferSizeAssumption == BufferSize \in Nat \ {0}
ASSUME RequestsAssumption == None \notin Requests

VARIABLES
    queue,     \* the requests in the buffer's channel
    current,   \* the request the worker holds, or None
    chan       \* what the handle of a request waits for

chanVars == <<queue, current, chan>>
allVars  == <<vars, chanVars>>

Reserved == {r \in Requests : chan[r] = "reserved"}

-----------------------------------------------------------------------------
(* The handles *)

Reserve_off_by_one(r) ==
    /\ chan[r] = "none"
    /\ Len(queue) + Cardinality(Reserved) <= BufferSize
    /\ chan' = [chan EXCEPT ![r] = "reserved"]
    /\ UNCHANGED <<vars, queue, current>>

\* poll_ready of a handle reserves a place in the buffer.
Reserve(r) ==
    /\ chan[r] = "none"
    /\ Len(queue) + Cardinality(Reserved) < BufferSize
    /\ chan' = [chan EXCEPT ![r] = "reserved"]
    /\ UNCHANGED <<vars, queue, current>>

\* The handle is dropped with its reservation.
Release(r) ==
    /\ chan[r] = "reserved"
    /\ chan' = [chan EXCEPT ![r] = "none"]
    /\ UNCHANGED <<vars, queue, current>>

\* call of a handle.
Enqueue(r) ==
    /\ chan[r] = "reserved"
    /\ queue' = Append(queue, r)
    /\ chan' = [chan EXCEPT ![r] = "queued"]
    /\ UNCHANGED <<vars, current>>

\* The ResponseFuture is dropped before the worker called the service.
DropQueued(r) ==
    /\ chan[r] = "queued"
    /\ chan' = [chan EXCEPT ![r] = "dropped"]
    /\ UNCHANGED <<vars, queue, current>>

\* The handle runs the request future, drops it, or takes its result.
RunRequest(r) == RequestStep(r) /\ UNCHANGED chanVars

DropRunning(r) ==
    /\ DropRequest(r)
    /\ chan' = [chan EXCEPT ![r] = "none"]
    /\ UNCHANGED <<queue, current>>

TakeResult(r) ==
    /\ Collect(r)
    /\ chan' = [chan EXCEPT ![r] = "none"]
    /\ UNCHANGED <<queue, current>>

-----------------------------------------------------------------------------
(* The worker *)

WorkerNext_forgets_pending ==
    /\ ~ready
    /\ queue # <<>>
    /\ current' = Head(queue)
    /\ queue' = Tail(queue)
    /\ UNCHANGED <<vars, chan>>

\* Take the next message.
WorkerNext ==
    /\ current = None
    /\ queue # <<>>
    /\ current' = Head(queue)
    /\ queue' = Tail(queue)
    /\ UNCHANGED <<vars, chan>>

WorkerSkip_after_ready ==
    /\ current # None
    /\ chan[current] = "dropped"
    /\ current' = None
    /\ chan' = [chan EXCEPT ![current] = "none"]
    /\ ready' = FALSE
    /\ UNCHANGED <<sender, flag, conn, driver, reqs, queue>>

\* A message whose ResponseFuture is gone is skipped, when it is taken and
\* each time the worker comes back to it after a pending poll_ready.
WorkerSkip ==
    /\ current # None
    /\ ~ready
    /\ chan[current] = "dropped"
    /\ current' = None
    /\ chan' = [chan EXCEPT ![current] = "none"]
    /\ UNCHANGED <<vars, queue>>

\* Poll the service for the message in hand.
WorkerPoll ==
    /\ current # None
    /\ ~ready
    /\ PollReady
    /\ UNCHANGED chanVars

WorkerCall_keeps_message ==
    /\ current # None
    /\ ready
    /\ chan[current] = "queued"
    /\ Call(current)
    /\ chan' = [chan EXCEPT ![current] = "called"]
    /\ UNCHANGED <<queue, current>>

\* The service was ready: call it, and send the future to the handle.
WorkerCall ==
    /\ current # None
    /\ ready
    /\ chan[current] = "queued"
    /\ Call(current)
    /\ current' = None
    /\ chan' = [chan EXCEPT ![current] = "called"]
    /\ UNCHANGED queue

\* The handle gave up after the check: the future is made and dropped at once.
WorkerCallUnheard ==
    /\ current # None
    /\ ready
    /\ chan[current] = "dropped"
    /\ connectError' = FALSE
    /\ ready' = FALSE
    /\ current' = None
    /\ chan' = [chan EXCEPT ![current] = "none"]
    /\ UNCHANGED <<baseUriOk, sendRequest, driverRx, makeFut, closing, flag,
                   conn, driver, reqs, queue>>

WorkerStep ==
    WorkerNext \/ WorkerSkip \/ WorkerPoll \/ WorkerCall \/ WorkerCallUnheard

-----------------------------------------------------------------------------
ChanInit ==
    /\ Init
    /\ queue = <<>>
    /\ current = None
    /\ chan = [r \in Requests |-> "none"]

ChanNext ==
    \/ WorkerStep
    \/ \E r \in Requests :
        \/ Reserve(r) \/ Release(r) \/ Enqueue(r) \/ DropQueued(r)
        \/ RunRequest(r) \/ DropRunning(r) \/ TakeResult(r)
    \/ \E c \in Conns : ConnStep(c) /\ UNCHANGED chanVars

ChanSpec == ChanInit /\ [][ChanNext]_allVars

\* The worker's task runs, a connect attempt ends, and a handle polls the
\* request future it was given until it is over.
ChanFairness ==
    /\ WF_allVars(WorkerNext \/ WorkerSkip \/ WorkerCall \/ WorkerCallUnheard)
    /\ WF_allVars(WorkerPoll /\ ready')
    /\ \A r \in Requests : WF_allVars(RunRequest(r)) /\ WF_allVars(TakeResult(r))

ChanFairSpec == ChanSpec /\ ChanFairness

-----------------------------------------------------------------------------
\* The types.
ChanTypeOK ==
    /\ TypeOK
    /\ queue \in Seq(Requests)
    /\ Len(queue) + Cardinality(Reserved) <= BufferSize
    /\ current \in Requests \cup {None}
    /\ chan \in [Requests -> {"none", "reserved", "queued", "dropped", "called"}]

\* A connect error is charged to the request that waited for the connect: while
\* one is stored, the worker holds the request it will be given to.  It cannot
\* stay behind and fail a request that was sent later.
ErrorHasAnOwner == connectError => current # None /\ ready

\* A request is at one place at a time, so it is called at most once: in the
\* buffer, in the worker's hand, or in a future of its own.
OnePlace ==
    LET Places(r) == Cardinality({i \in DOMAIN queue : queue[i] = r})
                       + (IF current = r THEN 1 ELSE 0)
                       + (IF req[r] # "idle" THEN 1 ELSE 0)
    IN  \A r \in Requests :
            Places(r) = IF chan[r] \in {"queued", "dropped", "called"} THEN 1 ELSE 0

\* The worker keeps to the tower contract: no request of a channel ever meets
\* the sender's "not ready" error.
NeverNotReady == \A r \in Requests : req[r] # "not_ready"

\* What the user of a handle sees of its request.
Stage(handle, future) ==
    IF handle = "queued" \/ future \in InFlightStates THEN "pending"
    ELSE IF future \in Outcomes THEN "answered" ELSE "idle"

stages == [r \in Requests |-> Stage(chan[r], req[r])]

\* The channel keeps the promise of RequestReply, to the user of each handle: a
\* failed connect, a GOAWAY, a lost connection or a dropped neighbour leaves no
\* request unanswered and the channel usable.
Promise == INSTANCE RequestReply WITH state <- stages

ChannelAnswers == Promise!Spec
=============================================================================
