-------------------------- MODULE H3ChannelProofs --------------------------
(***************************************************************************)
(* The client channel, for any number of handles, connections and flags and *)
(* any size of the buffer: a connect error goes to the request that waited  *)
(* for the connect, a request is at one place at a time, and the worker     *)
(* keeps to the tower contract.  The invariant of RequestSender carries     *)
(* over; what is added is who holds what.                                   *)
(***************************************************************************)
EXTENDS H3Channel, RequestSenderProofs, FiniteSetTheorems, SequenceTheorems

ChanTyped ==
    /\ queue \in Seq(Requests)
    /\ current \in Requests \cup {None}
    /\ chan \in [Requests -> {"none", "reserved", "queued", "dropped", "called"}]

\* The places that are taken or promised fit into the buffer.
Bounded ==
    /\ IsFiniteSet(Reserved)
    /\ Len(queue) + Cardinality(Reserved) <= BufferSize

\* The worker was told Ready for the request in its hand.
ReadyForCurrent == ready => current # None

InQueue(r) == \E i \in 1 .. Len(queue) : queue[i] = r

\* OnePlace without counting.
Placed ==
    /\ \A i, j \in 1 .. Len(queue) : queue[i] = queue[j] => i = j
    /\ ~InQueue(current)
    /\ \A r \in Requests :
        /\ chan[r] \in {"queued", "dropped"} <=> (r = current \/ InQueue(r))
        /\ chan[r] = "called" <=> req[r] # "idle"

CInv ==
    /\ IInv
    /\ ChanTyped /\ Bounded
    /\ ReadyForCurrent /\ ErrorHasAnOwner
    /\ Placed
    /\ NeverNotReady

USE RequestsAssumption, BufferSizeAssumption

-----------------------------------------------------------------------------
(* The sender behind the channel *)

\* A step of the worker that makes a future and drops it keeps the sender's
\* invariant.
LEMMA UnheardStep == IInv /\ WorkerCallUnheard => IInv'
<1> SUFFICES ASSUME IInv, WorkerCallUnheard PROVE IInv'
  OBVIOUS
<1>1. InFlight' = InFlight
  BY DEF WorkerCallUnheard, InFlight, reqs
<1>2. TypeOK'
  BY <1>1 DEF WorkerCallUnheard, IInv, TypeOK, reqs
<1>3. OnePhase' /\ ReadyBacked'
  BY DEF WorkerCallUnheard, IInv, OnePhase, ReadyBacked
<1>4. GenerationTag' /\ FlagMeansClosing'
  BY <1>1 DEF WorkerCallUnheard, IInv, GenerationTag, FlagMeansClosing, reqs
<1> QED
  BY <1>2, <1>3, <1>4 DEF IInv

\* So does a step that leaves the sender alone.
LEMMA SenderIdle == IInv /\ UNCHANGED vars => IInv'
  BY DEF vars, sender, reqs, IInv, TypeOK, OnePhase, GenerationTag,
         FlagMeansClosing, ReadyBacked, InFlight

\* What a poll changes of what the channel looks at.
LEMMA PollEffect ==
    ASSUME PollReady
    PROVE  UNCHANGED reqs /\ (connectError' => connectError \/ ready')
  BY DEF PollReady, PollCached, PollPending, PollConnected, PollFailed, reqs

\* A future that runs stays one that runs, or one with a result.
LEMMA RunEffect ==
    ASSUME IInv, NEW r \in Requests, RequestStep(r)
    PROVE  /\ UNCHANGED <<connectError, ready>>
           /\ req[r] # "idle"
           /\ \E o \in {"awaiting", "response", "closing_error", "stream_error",
                        "body_error"} :
                 req' = [req EXCEPT ![r] = o]
  BY DEF RequestStep, SendHeader, SendHeaderFails, EagerBodyFails, RecvResponse,
         RecvResponseFails, FailStream, Finish, sender

-----------------------------------------------------------------------------
(* The buffer *)

\* Only the members of Reserved change: one is added, or one is removed.
LEMMA ReservedGrows ==
    ASSUME ChanTyped, Bounded, NEW r \in Requests, chan[r] # "reserved",
           chan' = [chan EXCEPT ![r] = "reserved"],
           queue' = queue,
           Len(queue) + Cardinality(Reserved) < BufferSize
    PROVE  Bounded'
<1>1. Reserved' = Reserved \cup {r} /\ r \notin Reserved
  BY DEF Reserved, ChanTyped
<1>2. /\ IsFiniteSet(Reserved \cup {r})
      /\ Cardinality(Reserved \cup {r}) = Cardinality(Reserved) + 1
  BY <1>1, FS_AddElement DEF Bounded
<1>3. Cardinality(Reserved) \in Nat /\ Len(queue) \in Nat
  BY FS_CardinalityType, LenProperties DEF Bounded, ChanTyped
<1> QED
  BY <1>1, <1>2, <1>3 DEF Bounded

\* A place is given back, or used.
LEMMA ReservedShrinks ==
    ASSUME ChanTyped, Bounded, NEW r \in Requests, chan[r] = "reserved",
           NEW new \in {"none", "queued"},
           chan' = [chan EXCEPT ![r] = new],
           queue' = queue \/ queue' = Append(queue, r)
    PROVE  Bounded'
<1>1. Reserved' = Reserved \ {r} /\ r \in Reserved
  BY DEF Reserved, ChanTyped
<1>2. /\ IsFiniteSet(Reserved \ {r})
      /\ Cardinality(Reserved \ {r}) = Cardinality(Reserved) - 1
  BY <1>1, FS_RemoveElement DEF Bounded
<1>3. Cardinality(Reserved) \in Nat /\ Len(queue) \in Nat
  BY FS_CardinalityType, LenProperties DEF Bounded, ChanTyped
<1>4. Len(queue') <= Len(queue) + 1
  BY <1>3, AppendProperties DEF ChanTyped
<1>5. Len(queue') \in Nat
  BY <1>3, AppendProperties DEF ChanTyped
<1> QED
  BY <1>1, <1>2, <1>3, <1>4, <1>5 DEF Bounded

\* Nobody reserves or gives back, and the queue does not grow.
LEMMA ReservedStays ==
    ASSUME ChanTyped, Bounded,
           \A r \in Requests : chan[r] = "reserved" <=> chan'[r] = "reserved",
           queue' = queue \/ (queue # <<>> /\ queue' = Tail(queue))
    PROVE  Bounded'
<1>1. Reserved' = Reserved
  BY DEF Reserved
<1>2. Cardinality(Reserved) \in Nat /\ Len(queue) \in Nat
  BY FS_CardinalityType, LenProperties DEF Bounded, ChanTyped
<1>3. Len(queue') \in Nat /\ Len(queue') <= Len(queue)
  BY <1>2, HeadTailProperties, LenProperties DEF ChanTyped
<1> QED
  BY <1>1, <1>2, <1>3 DEF Bounded

\* What is appended is in the queue, once, behind what was there.
LEMMA AppendQueue ==
    ASSUME ChanTyped, NEW r \in Requests, ~InQueue(r), queue' = Append(queue, r)
    PROVE  /\ queue' \in Seq(Requests)
           /\ \A x : InQueue(x)' <=> (InQueue(x) \/ x = r)
           /\ (\A i, j \in 1 .. Len(queue) : queue[i] = queue[j] => i = j)
                => (\A i, j \in 1 .. Len(queue') : queue'[i] = queue'[j] => i = j)
<1>1. /\ queue' \in Seq(Requests)
      /\ Len(queue') = Len(queue) + 1
      /\ \A i \in 1 .. Len(queue) : queue'[i] = queue[i]
      /\ queue'[Len(queue) + 1] = r
  BY AppendProperties DEF ChanTyped
<1>2. Len(queue) \in Nat
  BY LenProperties DEF ChanTyped
<1>3. 1 .. Len(queue') = 1 .. Len(queue) \cup {Len(queue) + 1}
  BY <1>1, <1>2
<1>4. \A x : InQueue(x)' <=> (InQueue(x) \/ x = r)
  BY <1>1, <1>3 DEF InQueue
<1>5. ASSUME \A i, j \in 1 .. Len(queue) : queue[i] = queue[j] => i = j
      PROVE  \A i, j \in 1 .. Len(queue') : queue'[i] = queue'[j] => i = j
  BY <1>1, <1>3, <1>5 DEF InQueue
<1> QED
  BY <1>1, <1>4, <1>5

\* What is taken out was there once.
LEMMA TakeQueue ==
    ASSUME ChanTyped, queue # <<>>, queue' = Tail(queue),
           \A i, j \in 1 .. Len(queue) : queue[i] = queue[j] => i = j
    PROVE  /\ queue' \in Seq(Requests)
           /\ Head(queue) \in Requests
           /\ InQueue(Head(queue))
           /\ \A x : InQueue(x)' <=> (InQueue(x) /\ x # Head(queue))
           /\ \A i, j \in 1 .. Len(queue') : queue'[i] = queue'[j] => i = j
<1>1. /\ queue' \in Seq(Requests)
      /\ Head(queue) \in Requests
      /\ Len(queue') = Len(queue) - 1
      /\ \A i \in 1 .. Len(queue') : queue'[i] = queue[i + 1]
  BY HeadTailProperties DEF ChanTyped
<1>2. Len(queue) \in Nat /\ Len(queue) # 0
  BY EmptySeq, LenProperties DEF ChanTyped
<1>3. Head(queue) = queue[1]
  BY DEF ChanTyped
<1>4. InQueue(Head(queue))
  BY <1>2, <1>3 DEF InQueue
<1>5. ASSUME NEW x PROVE InQueue(x)' <=> (InQueue(x) /\ x # Head(queue))
  <2>1. ASSUME InQueue(x)' PROVE InQueue(x) /\ x # Head(queue)
    <3>1. PICK i \in 1 .. Len(queue') : queue'[i] = x
      BY <2>1 DEF InQueue
    <3>2. i + 1 \in 1 .. Len(queue) /\ queue[i + 1] = x /\ i + 1 # 1
      BY <1>1, <1>2, <3>1
    <3>3. 1 \in 1 .. Len(queue)
      BY <1>2
    <3> QED
      BY <1>3, <3>2, <3>3 DEF InQueue
  <2>2. ASSUME InQueue(x), x # Head(queue) PROVE InQueue(x)'
    <3>1. PICK i \in 1 .. Len(queue) : queue[i] = x
      BY <2>2 DEF InQueue
    <3>2. i # 1
      BY <1>3, <2>2, <3>1
    <3>3. i - 1 \in 1 .. Len(queue') /\ (i - 1) + 1 = i
      BY <1>1, <1>2, <3>1, <3>2
    <3>4. queue'[i - 1] = x
      BY <1>1, <3>1, <3>3
    <3> QED
      BY <3>3, <3>4 DEF InQueue
  <2> QED
    BY <2>1, <2>2
<1>6. ASSUME NEW i \in 1 .. Len(queue'), NEW j \in 1 .. Len(queue'),
             queue'[i] = queue'[j]
      PROVE  i = j
  <2>1. i + 1 \in 1 .. Len(queue) /\ j + 1 \in 1 .. Len(queue)
    BY <1>1, <1>2
  <2>2. queue[i + 1] = queue[j + 1]
    BY <1>1, <1>6
  <2>3. i + 1 = j + 1
    BY <2>1, <2>2
  <2> QED
    BY <2>3
<1> QED
  BY <1>1, <1>4, <1>5, <1>6

-----------------------------------------------------------------------------
\* Initially the channel is empty.
LEMMA InitCInv == ChanInit => CInv
<1> SUFFICES ASSUME ChanInit PROVE CInv
  OBVIOUS
<1>1. IInv
  BY InitIInv DEF ChanInit
<1>2. ChanTyped
  BY DEF ChanInit, ChanTyped
<1>3. Len(queue) = 0
  BY DEF ChanInit
<1>4. Reserved = {}
  BY DEF ChanInit, Reserved
<1>5. Bounded
  BY <1>3, <1>4, FS_EmptySet DEF Bounded
<1>6. ReadyForCurrent /\ ErrorHasAnOwner /\ NeverNotReady
  BY DEF ChanInit, Init, ReadyForCurrent, ErrorHasAnOwner, NeverNotReady
<1>7. Placed
  BY <1>3 DEF ChanInit, Init, Placed, InQueue
<1> QED
  BY <1>1, <1>2, <1>5, <1>6, <1>7 DEF CInv

\* The steps of a handle that leave the sender and the worker alone.
LEMMA HandleStep ==
    ASSUME CInv, NEW r \in Requests,
           Reserve(r) \/ Release(r) \/ Enqueue(r) \/ DropQueued(r)
    PROVE  CInv'
<1>1. UNCHANGED <<vars, current>>
  BY DEF Reserve, Release, Enqueue, DropQueued
<1>2. IInv'
  BY <1>1, SenderIdle DEF CInv
<1>3. UNCHANGED <<connectError, ready, req>>
  BY <1>1 DEF vars, sender, reqs
<1>4. ReadyForCurrent' /\ ErrorHasAnOwner' /\ NeverNotReady'
  BY <1>1, <1>3 DEF CInv, ReadyForCurrent, ErrorHasAnOwner, NeverNotReady
<1>5. ~InQueue(r) \/ chan[r] \in {"queued", "dropped"}
  BY DEF CInv, Placed
<1>6. CASE Reserve(r)
  <2>1. Bounded'
    BY <1>6, ReservedGrows DEF Reserve, CInv
  <2>2. ChanTyped'
    BY <1>1, <1>6 DEF Reserve, CInv, ChanTyped
  <2>3. Placed'
    BY <1>1, <1>3, <1>6 DEF Reserve, CInv, ChanTyped, Placed, InQueue
  <2> QED
    BY <1>2, <1>4, <2>1, <2>2, <2>3 DEF CInv
<1>7. CASE Release(r)
  <2>1. Bounded'
    BY <1>7, ReservedShrinks DEF Release, CInv
  <2>2. ChanTyped'
    BY <1>1, <1>7 DEF Release, CInv, ChanTyped
  <2>3. Placed'
    BY <1>1, <1>3, <1>7 DEF Release, CInv, ChanTyped, Placed, InQueue
  <2> QED
    BY <1>2, <1>4, <2>1, <2>2, <2>3 DEF CInv
<1>8. CASE Enqueue(r)
  <2>1. ~InQueue(r) /\ r # current
    BY <1>8 DEF Enqueue, CInv, Placed
  <2>2. /\ queue' \in Seq(Requests)
        /\ \A x : InQueue(x)' <=> (InQueue(x) \/ x = r)
        /\ \A i, j \in 1 .. Len(queue') : queue'[i] = queue'[j] => i = j
    BY <1>8, <2>1, AppendQueue DEF Enqueue, CInv, Placed
  <2>3. Bounded'
    BY <1>8, ReservedShrinks DEF Enqueue, CInv
  <2>4. ChanTyped'
    BY <1>1, <1>8, <2>2 DEF Enqueue, CInv, ChanTyped
  <2>5. ~InQueue(current)'
    BY <1>1, <2>1, <2>2 DEF InQueue, CInv, Placed
  <2>6. Placed'
    BY <1>1, <1>3, <1>8, <2>1, <2>2, <2>5 DEF Enqueue, CInv, ChanTyped, Placed
  <2> QED
    BY <1>2, <1>4, <2>3, <2>4, <2>6 DEF CInv
<1>9. CASE DropQueued(r)
  <2>1. Bounded'
    BY <1>9, ReservedStays DEF DropQueued, CInv, ChanTyped
  <2>2. ChanTyped'
    BY <1>1, <1>9 DEF DropQueued, CInv, ChanTyped
  <2>3. Placed'
    BY <1>1, <1>3, <1>9 DEF DropQueued, CInv, ChanTyped, Placed, InQueue
  <2> QED
    BY <1>2, <1>4, <2>1, <2>2, <2>3 DEF CInv
<1> QED
  BY <1>6, <1>7, <1>8, <1>9

\* The steps of a request future and of what its handle does with it.
LEMMA FutureStep ==
    ASSUME CInv, NEW r \in Requests,
           RunRequest(r) \/ DropRunning(r) \/ TakeResult(r)
    PROVE  CInv'
<1>1. CASE RunRequest(r)
  <2>1. IInv'
    BY <1>1, RequestStepStep DEF RunRequest, CInv
  <2>2. /\ UNCHANGED <<connectError, ready, queue, current, chan>>
        /\ req[r] # "idle"
    BY <1>1, RunEffect DEF RunRequest, CInv, chanVars
  <2>3. PICK o \in {"awaiting", "response", "closing_error", "stream_error",
                    "body_error"} : req' = [req EXCEPT ![r] = o]
    BY <1>1, RunEffect DEF RunRequest, CInv
  <2>4. ChanTyped'
    BY <2>2 DEF CInv, ChanTyped
  <2>5. Bounded'
    BY <2>2 DEF CInv, Bounded, Reserved
  <2>6. ReadyForCurrent' /\ ErrorHasAnOwner'
    BY <2>2 DEF CInv, ReadyForCurrent, ErrorHasAnOwner
  <2>7. \A q \in Requests : /\ req'[q] # "idle" <=> req[q] # "idle"
                            /\ req'[q] = "not_ready" => req[q] = "not_ready"
    BY <2>2, <2>3 DEF CInv, IInv, TypeOK
  <2>8. NeverNotReady'
    BY <2>7 DEF CInv, NeverNotReady
  <2>9. Placed'
    BY <2>2, <2>7 DEF CInv, Placed, InQueue
  <2> QED
    BY <2>1, <2>4, <2>5, <2>6, <2>8, <2>9 DEF CInv
<1>2. CASE DropRunning(r) \/ TakeResult(r)
  <2>1. IInv'
    BY <1>2, FinishStep, CollectStep DEF DropRunning, TakeResult, DropRequest, CInv
  <2>2. /\ UNCHANGED <<connectError, ready, queue, current>>
        /\ req[r] # "idle"
        /\ req' = [req EXCEPT ![r] = "idle"]
        /\ chan' = [chan EXCEPT ![r] = "none"]
    BY <1>2 DEF DropRunning, TakeResult, DropRequest, Collect, Finish, InFlight,
                InFlightStates, Outcomes, sender
  <2>3. chan[r] = "called"
    BY <2>2 DEF CInv, Placed
  <2>4. ChanTyped'
    BY <2>2 DEF CInv, ChanTyped
  <2>5. Bounded'
    BY <2>2, <2>3, ReservedStays DEF CInv, ChanTyped
  <2>6. ReadyForCurrent' /\ ErrorHasAnOwner' /\ NeverNotReady'
    BY <2>2 DEF CInv, ReadyForCurrent, ErrorHasAnOwner, NeverNotReady, IInv, TypeOK
  <2>7. Placed'
    BY <2>2, <2>3 DEF CInv, Placed, InQueue, ChanTyped, IInv, TypeOK
  <2> QED
    BY <2>1, <2>4, <2>5, <2>6, <2>7 DEF CInv
<1> QED
  BY <1>1, <1>2

\* The steps of the worker.
LEMMA WorkerKeeps == ASSUME CInv, WorkerStep PROVE CInv'
<1>1. CASE WorkerNext
  <2>1. UNCHANGED <<connectError, ready, req, chan>>
    BY <1>1 DEF WorkerNext, vars, sender, reqs
  <2>2. IInv'
    BY <1>1, SenderIdle DEF WorkerNext, CInv
  <2>3. /\ queue' \in Seq(Requests)
        /\ Head(queue) \in Requests
        /\ InQueue(Head(queue))
        /\ \A x : InQueue(x)' <=> (InQueue(x) /\ x # Head(queue))
        /\ \A i, j \in 1 .. Len(queue') : queue'[i] = queue'[j] => i = j
    BY <1>1, TakeQueue DEF WorkerNext, CInv, Placed
  <2>4. current' = Head(queue) /\ current = None
    BY <1>1 DEF WorkerNext
  <2>5. ChanTyped'
    BY <2>1, <2>3, <2>4 DEF CInv, ChanTyped
  <2>6. Bounded'
    BY <1>1, <2>1, ReservedStays DEF WorkerNext, CInv
  <2>7. ReadyForCurrent' /\ ErrorHasAnOwner' /\ NeverNotReady'
    BY <2>1, <2>4 DEF CInv, ReadyForCurrent, ErrorHasAnOwner, NeverNotReady
  <2>8. ~InQueue(current)'
    BY <2>3, <2>4 DEF InQueue
  <2>9. Placed'
    BY <2>1, <2>3, <2>4, <2>8 DEF CInv, Placed
  <2> QED
    BY <2>2, <2>5, <2>6, <2>7, <2>9 DEF CInv
<1>2. CASE WorkerSkip \/ WorkerCallUnheard
  <2>1. /\ current \in Requests
        /\ chan[current] = "dropped"
        /\ current' = None
        /\ chan' = [chan EXCEPT ![current] = "none"]
        /\ UNCHANGED <<req, queue>>
    BY <1>2 DEF WorkerSkip, WorkerCallUnheard, CInv, ChanTyped, vars, reqs
  <2>2. IInv'
    BY <1>2, SenderIdle, UnheardStep DEF WorkerSkip, CInv
  <2>3. ~ready' /\ ~connectError'
    BY <1>2 DEF WorkerSkip, WorkerCallUnheard, CInv, ErrorHasAnOwner, vars, sender
  <2>4. ChanTyped'
    BY <2>1 DEF CInv, ChanTyped
  <2>5. Bounded'
    BY <2>1, ReservedStays DEF CInv, ChanTyped
  <2>6. ReadyForCurrent' /\ ErrorHasAnOwner' /\ NeverNotReady'
    BY <2>1, <2>3 DEF CInv, ReadyForCurrent, ErrorHasAnOwner, NeverNotReady
  <2>7. \A i \in 1 .. Len(queue) : queue[i] # None
    BY ElementOfSeq DEF CInv, ChanTyped
  <2>8. Placed'
    BY <2>1, <2>7 DEF CInv, Placed, InQueue, ChanTyped
  <2> QED
    BY <2>2, <2>4, <2>5, <2>6, <2>8 DEF CInv
<1>3. CASE WorkerPoll
  <2>1. UNCHANGED <<req, queue, current, chan>> /\ current # None
    BY <1>3, PollEffect DEF WorkerPoll, reqs, chanVars
  <2>2. IInv'
    BY <1>3, PollReadyStep DEF WorkerPoll, CInv
  <2>3. connectError' => ready'
    BY <1>3, PollEffect DEF WorkerPoll, CInv, ErrorHasAnOwner
  <2>4. ChanTyped'
    BY <2>1 DEF CInv, ChanTyped
  <2>5. Bounded'
    BY <2>1 DEF CInv, Bounded, Reserved
  <2>6. ReadyForCurrent' /\ ErrorHasAnOwner' /\ NeverNotReady'
    BY <2>1, <2>3 DEF CInv, ReadyForCurrent, ErrorHasAnOwner, NeverNotReady
  <2>7. Placed'
    BY <2>1 DEF CInv, Placed, InQueue
  <2> QED
    BY <2>2, <2>4, <2>5, <2>6, <2>7 DEF CInv
<1>4. CASE WorkerCall
  <2>1. /\ current \in Requests
        /\ chan[current] = "queued"
        /\ current' = None
        /\ chan' = [chan EXCEPT ![current] = "called"]
        /\ req' = [req EXCEPT ![current] = CallOutcome]
        /\ ~ready' /\ ~connectError'
        /\ UNCHANGED queue
    BY <1>4 DEF WorkerCall, Call, CInv, ChanTyped
  <2>2. IInv'
    BY <1>4, <2>1, CallStep DEF WorkerCall, CInv
  <2>3. connectError \/ sendRequest # None
    BY <1>4 DEF WorkerCall, CInv, IInv, ReadyBacked
  <2>4. CallOutcome \in {"connect_error", "uri_error", "created"}
    BY <2>3 DEF CallOutcome, CInv, IInv, TypeOK
  <2>5. ChanTyped'
    BY <2>1 DEF CInv, ChanTyped
  <2>6. Bounded'
    BY <2>1, ReservedStays DEF CInv, ChanTyped
  <2>7. ReadyForCurrent' /\ ErrorHasAnOwner'
    BY <2>1 DEF ReadyForCurrent, ErrorHasAnOwner
  <2>8. NeverNotReady'
    BY <2>1, <2>4 DEF CInv, NeverNotReady, IInv, TypeOK
  <2>9. \A i \in 1 .. Len(queue) : queue[i] # None
    BY ElementOfSeq DEF CInv, ChanTyped
  <2>10. Placed'
    BY <2>1, <2>4, <2>9 DEF CInv, Placed, InQueue, ChanTyped, IInv, TypeOK
  <2> QED
    BY <2>2, <2>5, <2>6, <2>7, <2>8, <2>10 DEF CInv
<1> QED
  BY <1>1, <1>2, <1>3, <1>4 DEF WorkerStep

\* What happens to a connection, or to nothing.
LEMMA QuietStep ==
    ASSUME CInv, IInv', UNCHANGED <<connectError, ready, req, queue, current, chan>>
    PROVE  CInv'
  BY DEF CInv, ChanTyped, Bounded, Reserved, ReadyForCurrent, ErrorHasAnOwner,
         NeverNotReady, Placed, InQueue

\* CInv is an inductive invariant.
THEOREM CInvHolds == ChanSpec => []CInv
<1>1. CInv /\ [ChanNext]_allVars => CInv'
  <2> SUFFICES ASSUME CInv, [ChanNext]_allVars PROVE CInv'
    OBVIOUS
  <2>1. CASE WorkerStep
    BY <2>1, WorkerKeeps
  <2>2. ASSUME NEW r \in Requests,
               \/ Reserve(r) \/ Release(r) \/ Enqueue(r) \/ DropQueued(r)
               \/ RunRequest(r) \/ DropRunning(r) \/ TakeResult(r)
        PROVE  CInv'
    BY <2>2, HandleStep, FutureStep
  <2>3. ASSUME NEW c \in Conns, ConnStep(c), UNCHANGED chanVars PROVE CInv'
    <3>1. IInv'
      BY <2>3, ConnStepStep DEF CInv
    <3>2. UNCHANGED <<sender, reqs, ready>>
      BY <2>3 DEF ConnStep, GoAway, ConnLost, DriverEnds, DriverAborted
    <3> QED
      BY <2>3, <3>1, <3>2, QuietStep DEF sender, reqs, chanVars
  <2>4. CASE UNCHANGED allVars
    <3>1. IInv'
      BY <2>4, SenderIdle DEF allVars, CInv
    <3> QED
      BY <2>4, <3>1, QuietStep DEF allVars, vars, sender, reqs, chanVars
  <2> QED
    BY <2>1, <2>2, <2>3, <2>4 DEF ChanNext
<1> QED
  BY <1>1, InitCInv, PTL DEF ChanSpec

-----------------------------------------------------------------------------
\* The channel is well typed, and its buffer is never overfull, however handles
\* reserve, release, enqueue and vanish.
THEOREM ChanTypeCorrect == ChanSpec => []ChanTypeOK
<1>1. CInv => ChanTypeOK
  BY DEF CInv, IInv, ChanTyped, Bounded, ChanTypeOK
<1> QED
  BY <1>1, CInvHolds, PTL

\* A deferred connect error always has the request it belongs to: it cannot stay
\* behind and fail a request that was sent later.
THEOREM ErrorHasAnOwnerHolds == ChanSpec => []ErrorHasAnOwner
<1>1. CInv => ErrorHasAnOwner
  BY DEF CInv
<1> QED
  BY <1>1, CInvHolds, PTL

\* No request sent through a channel meets the sender's "not ready" error.
THEOREM NeverNotReadyHolds == ChanSpec => []NeverNotReady
<1>1. CInv => NeverNotReady
  BY DEF CInv
<1> QED
  BY <1>1, CInvHolds, PTL

\* Behind a channel a sender does what it does alone, but for a future that is made
\* and dropped at once.
LEMMA StepOfSender ==
    CInv /\ [ChanNext]_allVars => [Next \/ WorkerCallUnheard]_vars
<1> SUFFICES ASSUME CInv, [ChanNext]_allVars PROVE [Next \/ WorkerCallUnheard]_vars
  OBVIOUS
<1>1. CASE WorkerStep
  <2>1. CASE WorkerNext \/ WorkerSkip
    BY <2>1 DEF WorkerNext, WorkerSkip
  <2>2. CASE WorkerPoll
    BY <2>2 DEF WorkerPoll, Next
  <2>3. CASE WorkerCall
    <3>1. Call(current)
      BY <2>3 DEF WorkerCall
    <3>2. current \in Requests
      BY <2>3 DEF WorkerCall, CInv, ChanTyped
    <3> QED
      BY <3>1, <3>2 DEF Next
  <2>4. CASE WorkerCallUnheard
    BY <2>4
  <2> QED
    BY <1>1, <2>1, <2>2, <2>3, <2>4 DEF WorkerStep
<1>2. ASSUME NEW r \in Requests,
             \/ Reserve(r) \/ Release(r) \/ Enqueue(r) \/ DropQueued(r)
             \/ RunRequest(r) \/ DropRunning(r) \/ TakeResult(r)
      PROVE  [Next]_vars
  BY <1>2 DEF Reserve, Release, Enqueue, DropQueued, RunRequest, DropRunning,
              TakeResult, Next
<1>3. ASSUME NEW c \in Conns, ConnStep(c) PROVE Next
  BY <1>3 DEF Next
<1>4. CASE UNCHANGED allVars
  BY <1>4 DEF allVars
<1> QED
  BY <1>1, <1>2, <1>3, <1>4 DEF ChanNext

\* What RequestSender promises its one caller holds for all handles of a channel: the
\* generation tag tells connections apart, a set flag tells the truth, and no error,
\* late answer or dropped request of one handle costs the others a healthy connection.
THEOREM SenderSafeInChannel ==
    ChanSpec => /\ [](OnePhase /\ GenerationTag /\ FlagMeansClosing)
                /\ HealthySenderKept
<1>1. CInv => OnePhase /\ GenerationTag /\ FlagMeansClosing
  BY DEF CInv, IInv
<1>2. CInv /\ [ChanNext]_allVars
        => [sendRequest # None /\ sendRequest' # sendRequest
               => conn[sendRequest] # "live"]_vars
  <2> SUFFICES ASSUME CInv, [ChanNext]_allVars, sendRequest # None,
                      sendRequest' # sendRequest
               PROVE  conn[sendRequest] # "live"
    BY DEF vars, sender
  <2>1. Next \/ WorkerCallUnheard
    BY StepOfSender DEF vars, sender
  <2>2. IInv /\ ~WorkerCallUnheard
    BY DEF CInv, WorkerCallUnheard
  <2> QED
    BY <2>1, <2>2, OnlyClosingRetired
<1> QED
  BY <1>1, <1>2, CInvHolds, PTL DEF ChanSpec, HealthySenderKept

\* A request is in the buffer, in the worker's hand, or in a future of its own,
\* and at one of these places only: it is called at most once.
THEOREM OnePlaceHolds == ChanSpec => []OnePlace
<1>1. CInv => OnePlace
  <2> SUFFICES ASSUME CInv, NEW r \in Requests
               PROVE  Cardinality({i \in DOMAIN queue : queue[i] = r})
                        + (IF current = r THEN 1 ELSE 0)
                        + (IF req[r] # "idle" THEN 1 ELSE 0)
                      = IF chan[r] \in {"queued", "dropped", "called"} THEN 1 ELSE 0
    BY DEF OnePlace
  <2> DEFINE At == {i \in DOMAIN queue : queue[i] = r}
  <2>1. DOMAIN queue = 1 .. Len(queue)
    BY LenProperties DEF CInv, ChanTyped
  <2>2. CASE InQueue(r)
    <3>1. PICK i \in 1 .. Len(queue) : queue[i] = r
      BY <2>2 DEF InQueue
    <3>2. At = {i}
      BY <2>1, <3>1 DEF CInv, Placed
    <3>3. Cardinality(At) = 1
      BY <3>2, FS_Singleton
    <3>4. current # r /\ req[r] = "idle" /\ chan[r] \in {"queued", "dropped"}
      BY <2>2 DEF CInv, Placed
    <3> QED
      BY <3>3, <3>4
  <2>3. CASE ~InQueue(r)
    <3>1. At = {}
      BY <2>1, <2>3 DEF InQueue
    <3>2. Cardinality(At) = 0
      BY <3>1, FS_EmptySet
    <3>3. /\ chan[r] \in {"queued", "dropped"} <=> current = r
          /\ chan[r] = "called" <=> req[r] # "idle"
      BY <2>3 DEF CInv, Placed
    <3> QED
      BY <3>2, <3>3
  <2> QED
    BY <2>2, <2>3
<1> QED
  BY <1>1, CInvHolds, PTL

-----------------------------------------------------------------------------
(* The promise of the channel, but for its fairness *)

\* A step that moves one request, from one stage to the next or back to idle, is
\* a step of RequestReply.
LEMMA OneMoves ==
    ASSUME NEW r \in Requests,
           \A q \in Requests \ {r} : stages'[q] = stages[q],
           \/ stages'[r] = stages[r]
           \/ stages[r] = "idle" /\ stages'[r] = "pending"
           \/ stages[r] = "pending" /\ stages'[r] = "answered"
           \/ stages[r] # "idle" /\ stages'[r] = "idle"
    PROVE  [Promise!Next]_stages
<1>1. stages' = [stages EXCEPT ![r] = stages'[r]]
  BY DEF stages
<1>2. CASE stages'[r] = stages[r]
  BY <1>1, <1>2 DEF stages
<1>3. CASE stages'[r] # stages[r]
  <2>1. Promise!Submit(r) \/ Promise!Answer(r) \/ Promise!Leave(r)
    BY <1>1, <1>3 DEF Promise!Submit, Promise!Answer, Promise!Leave
  <2> QED
    BY <2>1 DEF Promise!Next
<1> QED
  BY <1>2, <1>3

\* Only a future that is over or runs has left the buffer.
LEMMA StageOf ==
    ASSUME CInv, NEW r \in Requests
    PROVE  /\ stages[r] = Stage(chan[r], req[r])
           /\ stages'[r] = Stage(chan'[r], req'[r])
           /\ chan[r] # "called" => req[r] = "idle"
  BY DEF stages, CInv, Placed

LEMMA Stages ==
    /\ \A q : Stage("queued", q) = "pending"
    /\ \A c : \A q \in InFlightStates : Stage(c, q) = "pending"
    /\ \A c : \A q \in Outcomes : c # "queued" => Stage(c, q) = "answered"
    /\ \A c : c # "queued" => Stage(c, "idle") = "idle"
  BY DEF Stage, InFlightStates, Outcomes

\* Every step of the channel is a step of RequestReply or none.
LEMMA StepKeepsPromise == CInv /\ [ChanNext]_allVars => [Promise!Next]_stages
<1> SUFFICES ASSUME CInv, [ChanNext]_allVars PROVE [Promise!Next]_stages
  OBVIOUS
<1>1. ASSUME UNCHANGED <<chan, req>> PROVE [Promise!Next]_stages
  BY <1>1 DEF stages
<1>2. ASSUME NEW r \in Requests, NEW c, NEW q,
             chan' = [chan EXCEPT ![r] = c], req' = [req EXCEPT ![r] = q],
             \/ Stage(c, q) = stages[r]
             \/ stages[r] = "idle" /\ Stage(c, q) = "pending"
             \/ stages[r] = "pending" /\ Stage(c, q) = "answered"
             \/ stages[r] # "idle" /\ Stage(c, q) = "idle"
      PROVE  [Promise!Next]_stages
  <2>1. stages'[r] = Stage(c, q)
    BY <1>2 DEF stages, CInv, ChanTyped, IInv, TypeOK
  <2>2. \A p \in Requests \ {r} : stages'[p] = stages[p]
    BY <1>2 DEF stages, CInv, ChanTyped, IInv, TypeOK
  <2> QED
    BY <1>2, <2>1, <2>2, OneMoves
<1>3. chan \in [Requests -> {"none", "reserved", "queued", "dropped", "called"}]
  BY DEF CInv, ChanTyped
<1>4. req \in [Requests -> {"idle"} \cup InFlightStates \cup Outcomes]
  BY DEF CInv, IInv, TypeOK
<1>5. ASSUME NEW r \in Requests,
             Reserve(r) \/ Release(r) \/ Enqueue(r) \/ DropQueued(r)
      PROVE  [Promise!Next]_stages
  <2>1. UNCHANGED req /\ chan[r] # "called"
    BY <1>5 DEF Reserve, Release, Enqueue, DropQueued, vars, reqs
  <2>2. req' = [req EXCEPT ![r] = "idle"] /\ req[r] = "idle"
    BY <1>4, <2>1, StageOf
  <2>3. PICK c \in {"none", "reserved", "queued", "dropped"} :
            chan' = [chan EXCEPT ![r] = c]
    BY <1>5 DEF Reserve, Release, Enqueue, DropQueued
  <2>4. stages[r] \in {"idle", "pending"} /\ Stage(c, "idle") \in {"idle", "pending"}
    BY <2>2, Stages, StageOf
  <2> QED
    BY <1>2, <2>2, <2>3, <2>4
<1>6. ASSUME NEW r \in Requests, RunRequest(r) PROVE [Promise!Next]_stages
  <2>1. PICK o \in {"awaiting", "response", "closing_error", "stream_error",
                    "body_error"} : req' = [req EXCEPT ![r] = o]
    BY <1>6, RunEffect DEF RunRequest, CInv
  <2>2. req[r] \in InFlightStates
    BY <1>6 DEF RunRequest, RequestStep, SendHeader, SendHeaderFails, EagerBodyFails,
                RecvResponse, RecvResponseFails, InFlightStates
  <2>3. chan[r] = "called" /\ chan' = [chan EXCEPT ![r] = "called"]
    BY <1>3, <1>6, <2>2, StageOf DEF RunRequest, chanVars, InFlightStates
  <2>4. stages[r] = "pending"
    BY <2>2, Stages, StageOf
  <2>5. Stage("called", o) \in {"pending", "answered"}
    BY Stages DEF InFlightStates, Outcomes
  <2> QED
    BY <1>2, <2>1, <2>3, <2>4, <2>5
<1>7. ASSUME NEW r \in Requests, DropRunning(r) \/ TakeResult(r)
      PROVE  [Promise!Next]_stages
  <2>1. /\ req' = [req EXCEPT ![r] = "idle"]
        /\ chan' = [chan EXCEPT ![r] = "none"]
    BY <1>7 DEF DropRunning, TakeResult, DropRequest, Collect, Finish
  <2>2. Stage("none", "idle") = "idle"
    BY Stages
  <2>3. stages[r] \in {"idle", "pending", "answered"}
    BY StageOf DEF Stage
  <2> QED
    BY <1>2, <2>1, <2>2, <2>3
<1>8. CASE WorkerNext \/ WorkerPoll
  BY <1>1, <1>8, PollEffect DEF WorkerNext, WorkerPoll, vars, reqs, chanVars
<1>9. CASE WorkerSkip \/ WorkerCallUnheard
  <2>1. /\ current \in Requests
        /\ chan[current] = "dropped"
        /\ chan' = [chan EXCEPT ![current] = "none"]
        /\ req' = req
    BY <1>9 DEF WorkerSkip, WorkerCallUnheard, CInv, ChanTyped, vars, reqs
  <2>2. req[current] = "idle" /\ req' = [req EXCEPT ![current] = "idle"]
    BY <1>4, <2>1, StageOf
  <2>3. stages[current] = "idle" /\ Stage("none", "idle") = "idle"
    BY <2>1, <2>2, Stages, StageOf
  <2> QED
    BY <1>2, <2>1, <2>2, <2>3
<1>10. CASE WorkerCall
  <2>1. /\ current \in Requests
        /\ chan[current] = "queued"
        /\ chan' = [chan EXCEPT ![current] = "called"]
        /\ req' = [req EXCEPT ![current] = CallOutcome]
    BY <1>10 DEF WorkerCall, Call, CInv, ChanTyped
  <2>2. CallOutcome \in {"connect_error", "uri_error", "not_ready", "created"}
    BY DEF CallOutcome
  <2>3. stages[current] = "pending"
    BY <2>1, Stages, StageOf
  <2>4. Stage("called", CallOutcome) \in {"pending", "answered"}
    BY <2>2, Stages DEF InFlightStates, Outcomes
  <2> QED
    BY <1>2, <2>1, <2>3, <2>4
<1>11. ASSUME NEW c \in Conns, ConnStep(c), UNCHANGED chanVars
       PROVE  [Promise!Next]_stages
  BY <1>1, <1>11 DEF ConnStep, GoAway, ConnLost, DriverEnds, DriverAborted, reqs,
                     chanVars
<1>12. CASE UNCHANGED allVars
  BY <1>1, <1>12 DEF allVars, vars, reqs, chanVars
<1> QED
  BY <1>5, <1>6, <1>7, <1>8, <1>9, <1>10, <1>11, <1>12 DEF ChanNext, WorkerStep

\* The channel implements RequestReply without its fairness: no request is
\* answered twice, or answered that was not handed in or was dropped before.
THEOREM ChannelKeepsPromise == ChanSpec => Promise!Init /\ [][Promise!Next]_stages
<1>1. ChanInit => Promise!Init
  BY DEF ChanInit, Init, Promise!Init, stages, Stage, InFlightStates, Outcomes
<1>2. CInv /\ [ChanNext]_allVars => [Promise!Next]_stages
  BY StepKeepsPromise
<1> QED
  BY <1>1, <1>2, CInvHolds, PTL DEF ChanSpec
=============================================================================
