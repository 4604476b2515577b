--------------------------- MODULE ExchangeProofs ---------------------------
(***************************************************************************)
(* One exchange, for all bodies and every window: no truncated message      *)
(* passes for a complete one, a reset tells why, STOP_SENDING carries an     *)
(* HTTP/3 code, each half delivers its body as BodyDelivery promises, and   *)
(* every step brings the exchange nearer to its end.                        *)
(*                                                                          *)
(* The invariant has three parts: what a body sender and its guard keep     *)
(* (Sender), what an incoming body keeps (Receiver), and what the client    *)
(* and the server know of each other through the stream (Roles).            *)
(*                                                                          *)
(* The upload tests pass whatever the window of flow control: every run of  *)
(* a test is a run of Exchange, so what is proved first holds in it, and    *)
(* the outcome that is reported is the one that the test asserts.           *)
(***************************************************************************)
EXTENDS UploadTests, TLAPS

Frames == {"data", "trailers"}

\* The types of the two halves; `stop` belongs to the roles.
HalvesTyped ==
    /\ body \in [Half -> Bodies]
    /\ sent \in [Half -> Nat] /\ rcvd \in [Half -> Nat]
    /\ ending \in [Half -> {"open", "fin"} \cup Reset]
    /\ spc \in [Half -> {"none", "select", "send", "finish", "over"}]
    /\ guard \in [Half -> [armed : BOOLEAN, code : Reset]]
    /\ cause \in [Half -> {"none", "completed", "source", "transport",
                           "cancel", "abort"}]
    /\ rcv \in [Half -> {"none", "data", "trailers", "ended", "failed",
                         "dropped"}]

\* Where the sender stands tells what it has sent.
Progress(h) ==
    /\ sent[h] <= Len(body[h])
    /\ \A i \in 1 .. sent[h] : body[h][i] \in Frames
    /\ spc[h] = "none" => sent[h] = 0
    /\ spc[h] = "send" => sent[h] < Len(body[h]) /\ body[h][sent[h] + 1] \in Frames
    /\ spc[h] = "finish" \/ cause[h] = "completed" => sent[h] = Len(body[h])

\* The guard is armed and the stream open until the sender is over; then the
\* stream has ended in the way that `cause` asks for.
Guarded(h) ==
    /\ spc[h] # "over" => cause[h] = "none" /\ guard[h] = NewGuard
    /\ spc[h] \in {"select", "send", "finish"} => ending[h] = "open"
    /\ spc[h] = "none" => ending[h] \in {"open", "fin"}
    /\ spc[h] = "over" => cause[h] # "none"
    /\ cause[h] \in {"source", "transport"} => ending[h] = Internal
    /\ cause[h] \in {"cancel", "abort"} => ending[h] = Cancelled
    /\ cause[h] = "completed" => ending[h] = "fin"

\* An incoming body has seen the end of the stream before it says so, or gives
\* trailers out.
Receiver(h) ==
    /\ rcvd[h] <= sent[h]
    /\ rcv[h] = "ended" => Eos(h)
    /\ \A i \in 1 .. rcvd[h] : body[h][i] = "trailers" => ending[h] = "fin"

HalvesInv ==
    HalvesTyped /\ \A h \in Half : Progress(h) /\ Guarded(h) /\ Receiver(h)

RolesTyped ==
    /\ stop \in [Half -> {"none", "0", NoError, Cancelled}]
    /\ cpc \in {"eager", "awaiting", "returned", "over"}
    /\ result \in {"none", "response", "error", "dropped"}
    /\ vpc \in {"resolve", "service", "body", "over"}
    /\ header \in BOOLEAN
    /\ lost \in BOOLEAN

\* A sender of the response exists from the headers on, and only a client that
\* has them reads the response; a half is stopped bare only when no incoming body
\* wraps it.
Linked ==
    /\ spc["request"] # "none"
    /\ header <=> spc["response"] # "none"
    /\ vpc \in {"resolve", "service"}
          => spc["response"] = "none" /\ ending["response"] = "open"
    /\ rcv["response"] # "none" => header
    /\ cpc \in {"eager", "awaiting"}
          => rcv["response"] = "none" /\ stop["response"] = "none"
    /\ vpc = "resolve" => rcv["request"] = "none" /\ stop["request"] = "none"

Roles == RolesTyped /\ Linked /\ StopCodeIsHttp3

IInv == HalvesInv /\ Roles

-----------------------------------------------------------------------------
(* The two halves *)

\* What dropping the send half does to a stream that is still open.
LEMMA DropSendOpen ==
    ASSUME NEW g, g.armed = TRUE
    PROVE  DropSend("open", g) = g.code
  BY DEF DropSend

\* A step that moves one half keeps the invariant of the other.
LEMMA OneHalfMoves ==
    ASSUME HalvesInv, HalvesTyped', NEW h \in Half, body' = body,
           \A g \in Half \ {h} :
               /\ sent'[g] = sent[g] /\ rcvd'[g] = rcvd[g] /\ ending'[g] = ending[g]
               /\ spc'[g] = spc[g] /\ guard'[g] = guard[g] /\ cause'[g] = cause[g]
               /\ rcv'[g] = rcv[g],
           Progress(h)', Guarded(h)', Receiver(h)'
    PROVE  HalvesInv'
<1>1. ASSUME NEW g \in Half, g # h
      PROVE  Progress(g)' /\ Guarded(g)' /\ Receiver(g)'
  <2>1. Progress(g)'
    BY <1>1 DEF HalvesInv, Progress
  <2>2. Guarded(g)'
    BY <1>1 DEF HalvesInv, Guarded
  <2>3. Receiver(g)'
    BY <1>1 DEF HalvesInv, Receiver, Eos, Unread
  <2> QED
    BY <2>1, <2>2, <2>3
<1> QED
  BY <1>1 DEF HalvesInv

\* So does one that moves neither.
LEMMA HalvesStay ==
    ASSUME HalvesInv,
           UNCHANGED <<body, sent, rcvd, ending, spc, guard, cause, rcv>>
    PROVE  HalvesInv'
<1>1. HalvesTyped'
  BY DEF HalvesInv, HalvesTyped
<1>2. ASSUME NEW h \in Half PROVE Progress(h)' /\ Guarded(h)' /\ Receiver(h)'
  BY DEF HalvesInv, Progress, Guarded, Receiver, Eos, Unread
<1> QED
  BY <1>1, <1>2 DEF HalvesInv

\* poll_frame of the source is answered.
LEMMA PullKeeps ==
    ASSUME HalvesInv, NEW h \in Half, PullFrame(h) \/ PullEnd(h), body' = body
    PROVE  HalvesInv'
<1>1. /\ UNCHANGED <<sent, rcvd, ending, guard, cause, rcv>>
      /\ spc[h] = "select"
      /\ \/ spc' = [spc EXCEPT ![h] = "send"] /\ NextFrame(h) \in Frames
         \/ spc' = [spc EXCEPT ![h] = "finish"] /\ NextFrame(h) = "end"
  BY DEF PullFrame, PullEnd, Frames
<1>2. HalvesTyped'
  BY <1>1 DEF HalvesInv, HalvesTyped
<1>3. body[h] \in Seq(Frames \cup {"error", "pending"}) /\ sent[h] \in Nat
  BY BodiesAssumption DEF HalvesInv, HalvesTyped, Frames
<1>4. /\ NextFrame(h) \in Frames
            => sent[h] < Len(body[h]) /\ body[h][sent[h] + 1] \in Frames
      /\ NextFrame(h) = "end" /\ sent[h] <= Len(body[h]) => sent[h] = Len(body[h])
  BY <1>3 DEF NextFrame, Frames
<1>5. Progress(h)'
  BY <1>1, <1>4 DEF HalvesInv, HalvesTyped, Progress
<1>6. Guarded(h)' /\ Receiver(h)'
  BY <1>1 DEF HalvesInv, HalvesTyped, Guarded, Receiver, Eos, Unread
<1>7. \A g \in Half \ {h} : spc'[g] = spc[g]
  BY <1>1 DEF HalvesInv, HalvesTyped
<1> QED
  BY <1>1, <1>2, <1>5, <1>6, <1>7, OneHalfMoves

\* A frame is sent.
LEMMA SendOkKeeps ==
    ASSUME HalvesInv, NEW h \in Half, SendOk(h), body' = body
    PROVE  HalvesInv'
<1>1. /\ UNCHANGED <<rcvd, ending, guard, cause, rcv>>
      /\ spc[h] = "send"
      /\ sent' = [sent EXCEPT ![h] = sent[h] + 1]
      /\ spc' = [spc EXCEPT ![h] = "select"]
  BY DEF SendOk
<1>2. HalvesTyped'
  BY <1>1 DEF HalvesInv, HalvesTyped
<1>3. sent[h] \in Nat /\ rcvd[h] \in Nat /\ sent'[h] = sent[h] + 1 /\ spc'[h] = "select"
  BY <1>1 DEF HalvesInv, HalvesTyped
<1>4. Len(body[h]) \in Nat
  BY BodiesAssumption DEF HalvesInv, HalvesTyped
<1>5. cause[h] = "none" /\ ending[h] = "open"
  BY <1>1 DEF HalvesInv, Guarded
<1>6. Progress(h)'
  BY <1>1, <1>3, <1>4, <1>5 DEF HalvesInv, Progress
<1>7. Guarded(h)'
  BY <1>1, <1>3 DEF HalvesInv, Guarded
<1>8. Receiver(h)'
  BY <1>1, <1>3, <1>5 DEF HalvesInv, Receiver, Eos, Unread
<1>9. \A g \in Half \ {h} : spc'[g] = spc[g] /\ sent'[g] = sent[g]
  BY <1>1 DEF HalvesInv, HalvesTyped
<1> QED
  BY <1>1, <1>2, <1>6, <1>7, <1>8, <1>9, OneHalfMoves

\* The sender ends without a finish: the guard, still armed, resets the stream
\* with the code that belongs to the reason.
LEMMA CutKeeps ==
    ASSUME HalvesInv, NEW h \in Half, NEW g, NEW why,
           spc[h] \in {"select", "send", "finish"},
           \/ g = guard[h] /\ why \in {"cancel", "abort"}
           \/ g = set_error_code(guard[h], Internal) /\ why \in {"source", "transport"},
           SenderOver(h, g, why),
           UNCHANGED <<body, sent, rcvd, rcv>>
    PROVE  HalvesInv'
<1>1. guard[h] = NewGuard /\ cause[h] = "none" /\ ending[h] = "open"
  BY DEF HalvesInv, Guarded
<1>2. /\ g.armed = TRUE
      /\ g \in [armed : BOOLEAN, code : Reset]
      /\ why \in {"cancel", "abort"} => g.code = Cancelled
      /\ why \in {"source", "transport"} => g.code = Internal
  <2>1. guard[h] \in [armed : BOOLEAN, code : Reset]
    BY DEF HalvesInv, HalvesTyped
  <2>2. guard[h].armed = TRUE /\ guard[h].code = Cancelled
    BY <1>1 DEF NewGuard
  <2>3. CASE g = set_error_code(guard[h], Internal) /\ why \in {"source", "transport"}
    <3>1. g \in [armed : BOOLEAN, code : Reset]
      BY <2>1, <2>3 DEF set_error_code, Reset
    <3>2. g.armed = guard[h].armed /\ g.code = Internal
      BY <2>1, <2>3 DEF set_error_code
    <3> QED
      BY <2>2, <2>3, <3>1, <3>2
  <2> QED
    BY <2>1, <2>2, <2>3
<1>3. DropSend(ending[h], g) = g.code
  BY <1>1, <1>2, DropSendOpen
<1>4. /\ spc' = [spc EXCEPT ![h] = "over"]
      /\ guard' = [guard EXCEPT ![h] = g]
      /\ ending' = [ending EXCEPT ![h] = g.code]
      /\ cause' = [cause EXCEPT ![h] = why]
  BY <1>3 DEF SenderOver
<1>5. g.code \in Reset /\ why \in {"cancel", "abort", "source", "transport"}
  BY <1>2 DEF Reset
<1>6. HalvesTyped'
  BY <1>2, <1>4, <1>5 DEF HalvesInv, HalvesTyped
<1>7. /\ spc'[h] = "over" /\ ending'[h] = g.code /\ cause'[h] = why
  BY <1>4 DEF HalvesInv, HalvesTyped
<1>8. Progress(h)'
  BY <1>5, <1>7 DEF HalvesInv, Progress
<1>9. Guarded(h)'
  BY <1>2, <1>5, <1>7 DEF Guarded
<1>10. Receiver(h)'
  BY <1>1, <1>7 DEF HalvesInv, Receiver, Eos, Unread
<1>11. \A k \in Half \ {h} : /\ spc'[k] = spc[k] /\ guard'[k] = guard[k]
                             /\ ending'[k] = ending[k] /\ cause'[k] = cause[k]
  BY <1>4 DEF HalvesInv, HalvesTyped
<1> QED
  BY <1>6, <1>8, <1>9, <1>10, <1>11, OneHalfMoves

\* The three ways to get there.
LEMMA FailureKeeps ==
    ASSUME HalvesInv, NEW h \in Half, TransportFails(h) \/ SourceFails(h),
           UNCHANGED <<body, sent, rcvd, rcv>>
    PROVE  HalvesInv'
<1>1. CASE TransportFails(h)
  BY <1>1, CutKeeps DEF TransportFails
<1>2. CASE SourceFails(h)
  BY <1>2, CutKeeps DEF SourceFails
<1> QED
  BY <1>1, <1>2

LEMMA DroppedKeeps ==
    ASSUME HalvesInv, NEW h \in Half, SenderDropped(h), body' = body
    PROVE  HalvesInv'
  BY CutKeeps DEF SenderDropped

\* finish succeeds: every frame was sent.
LEMMA FinishKeeps ==
    ASSUME HalvesInv, NEW h \in Half, FinishOk(h), body' = body
    PROVE  HalvesInv'
<1>1. guard[h] = NewGuard /\ cause[h] = "none" /\ ending[h] = "open"
  BY DEF HalvesInv, Guarded, FinishOk
<1>2. /\ UNCHANGED <<sent, rcvd, rcv>>
      /\ spc[h] = "finish"
      /\ spc' = [spc EXCEPT ![h] = "over"]
      /\ guard' = [guard EXCEPT ![h] = disarm(guard[h])]
      /\ ending' = [ending EXCEPT ![h] = "fin"]
      /\ cause' = [cause EXCEPT ![h] = "completed"]
  BY DEF FinishOk
<1>3. disarm(guard[h]) \in [armed : BOOLEAN, code : Reset]
  BY DEF disarm, HalvesInv, HalvesTyped
<1>4. HalvesTyped'
  BY <1>2, <1>3 DEF HalvesInv, HalvesTyped
<1>5. spc'[h] = "over" /\ ending'[h] = "fin" /\ cause'[h] = "completed"
  BY <1>2 DEF HalvesInv, HalvesTyped
<1>6. Progress(h)'
  BY <1>2, <1>5 DEF HalvesInv, Progress
<1>7. Guarded(h)'
  BY <1>5 DEF Guarded
<1>8. Receiver(h)'
  BY <1>1, <1>2, <1>5 DEF HalvesInv, Receiver, Eos, Unread
<1>9. \A k \in Half \ {h} : /\ spc'[k] = spc[k] /\ guard'[k] = guard[k]
                            /\ ending'[k] = ending[k] /\ cause'[k] = cause[k]
  BY <1>2 DEF HalvesInv, HalvesTyped
<1> QED
  BY <1>2, <1>4, <1>6, <1>7, <1>8, <1>9, OneHalfMoves

\* The incoming body moves, without being given a frame.
LEMMA RcvMoves ==
    ASSUME HalvesInv, NEW h \in Half,
           NEW r \in {"none", "data", "trailers", "ended", "failed", "dropped"},
           rcv' = [rcv EXCEPT ![h] = r],
           r = "ended" => Eos(h),
           UNCHANGED <<body, sent, rcvd, ending, spc, guard, cause>>
    PROVE  HalvesInv'
<1>1. HalvesTyped'
  BY DEF HalvesInv, HalvesTyped
<1>2. rcv'[h] = r /\ \A k \in Half \ {h} : rcv'[k] = rcv[k]
  BY DEF HalvesInv, HalvesTyped
<1>3. Progress(h)' /\ Guarded(h)'
  BY DEF HalvesInv, Progress, Guarded
<1>4. Receiver(h)'
  BY <1>2 DEF HalvesInv, Receiver, Eos, Unread
<1> QED
  BY <1>1, <1>2, <1>3, <1>4, OneHalfMoves

\* It is given a frame.
LEMMA FrameGiven ==
    ASSUME HalvesInv, NEW h \in Half, Unread(h),
           body[h][rcvd[h] + 1] = "data" \/ ending[h] = "fin",
           rcvd' = [rcvd EXCEPT ![h] = rcvd[h] + 1],
           UNCHANGED <<body, sent, ending, spc, guard, cause, rcv>>
    PROVE  HalvesInv'
<1>1. HalvesTyped'
  BY DEF HalvesInv, HalvesTyped
<1>2. /\ rcvd[h] \in Nat /\ sent[h] \in Nat
      /\ rcvd'[h] = rcvd[h] + 1 /\ \A k \in Half \ {h} : rcvd'[k] = rcvd[k]
  BY DEF HalvesInv, HalvesTyped
<1>3. Progress(h)' /\ Guarded(h)'
  BY DEF HalvesInv, Progress, Guarded
<1>4. Receiver(h)'
  BY <1>2 DEF HalvesInv, Receiver, Eos, Unread
<1> QED
  BY <1>1, <1>2, <1>3, <1>4, OneHalfMoves

LEMMA PollFrameKeeps ==
    ASSUME HalvesInv, NEW h \in Half, PollFrame(h), body' = body
    PROVE  HalvesInv'
<1>1. CASE PollData(h)
  BY <1>1, FrameGiven DEF PollData
<1>2. CASE PollDataDone(h)
  BY <1>2, RcvMoves DEF PollDataDone
<1>3. CASE PollTrailers(h)
  BY <1>3, FrameGiven DEF PollTrailers
<1>4. CASE PollEnd(h)
  BY <1>4, RcvMoves DEF PollEnd
<1>5. CASE PollFails(h)
  BY <1>5, RcvMoves DEF PollFails
<1> QED
  BY <1>1, <1>2, <1>3, <1>4, <1>5 DEF PollFrame

-----------------------------------------------------------------------------
(* The two ends *)

\* A step that stops no half, and makes no sender or incoming body, keeps the roles.
LEMMA RolesKept ==
    ASSUME Roles, HalvesTyped', UNCHANGED <<stop, header>>,
           result' \in {"none", "response", "error", "dropped"},
           lost' \in BOOLEAN,
           cpc' = cpc \/ (cpc = "eager" /\ cpc' = "awaiting"),
           vpc' = vpc \/ vpc' = "over",
           \A h \in Half : /\ spc'[h] = "none" <=> spc[h] = "none"
                           /\ rcv'[h] = "none" <=> rcv[h] = "none"
                           /\ spc[h] = "none" => ending'[h] = ending[h]
    PROVE  Roles'
<1>1. RolesTyped'
  BY DEF Roles, RolesTyped
<1>2. "request" \in Half /\ "response" \in Half
  BY DEF Half
<1>3. Linked'
  BY <1>2 DEF Roles, RolesTyped, Linked
<1>4. StopCodeIsHttp3'
  BY DEF Roles, StopCodeIsHttp3
<1> QED
  BY <1>1, <1>3, <1>4 DEF Roles

\* What the steps of a sender and of an incoming body leave alone.
LEMMA SenderEffect ==
    ASSUME HalvesInv, NEW h \in Half,
           \/ PullFrame(h) \/ PullEnd(h) \/ SendOk(h) \/ FinishOk(h)
           \/ SenderDropped(h)
           \/ (TransportFails(h) \/ SourceFails(h)) /\ UNCHANGED <<sent, rcvd, rcv>>
    PROVE  /\ spc[h] # "none"
           /\ \A k \in Half : /\ spc'[k] = "none" <=> spc[k] = "none"
                              /\ spc[k] = "none" => ending'[k] = ending[k]
           /\ rcv' = rcv
<1>1. \E p \in {"select", "send", "finish", "over"} : \E e :
          /\ spc' = [spc EXCEPT ![h] = p]
          /\ ending' = ending \/ ending' = [ending EXCEPT ![h] = e]
          /\ spc[h] # "none"
          /\ rcv' = rcv
  <2>1. CASE PullFrame(h) \/ PullEnd(h) \/ SendOk(h)
    BY <2>1 DEF PullFrame, PullEnd, SendOk
  <2>2. CASE FinishOk(h)
    BY <2>2 DEF FinishOk
  <2>3. CASE SenderDropped(h)
    BY <2>3 DEF SenderDropped, SenderOver
  <2>4. CASE (TransportFails(h) \/ SourceFails(h)) /\ UNCHANGED <<sent, rcvd, rcv>>
    BY <2>4 DEF TransportFails, SourceFails, SenderOver
  <2> QED
    BY <2>1, <2>2, <2>3, <2>4
<1> QED
  BY <1>1 DEF HalvesInv, HalvesTyped

LEMMA PollEffect ==
    ASSUME HalvesInv, NEW h \in Half, PollFrame(h)
    PROVE  /\ \A k \in Half : rcv'[k] = "none" <=> rcv[k] = "none"
           /\ UNCHANGED <<spc, ending, stop>>
<1>1. /\ rcv[h] \in {"data", "trailers"}
      /\ rcv' = rcv \/ \E r \in {"trailers", "ended", "failed"} :
                           rcv' = [rcv EXCEPT ![h] = r]
      /\ UNCHANGED <<spc, ending, stop>>
  BY DEF PollFrame, PollData, PollDataDone, PollTrailers, PollEnd, PollFails
<1> QED
  BY <1>1 DEF HalvesInv, HalvesTyped

\* A receive half dropped bare is stopped with code 0, or was stopped or read to
\* its end before.
LEMMA DropBareStops ==
    ASSUME RolesTyped, NEW h \in Half, DropBare(h)
    PROVE  /\ stop' \in [Half -> {"none", "0", NoError, Cancelled}]
           /\ \A k \in Half \ {h} : stop'[k] = stop[k]
  BY DEF DropBare, StopSending, RolesTyped

\* An incoming body that is dropped stops its half with an HTTP/3 code, or not at
\* all.
LEMMA DropIncomingStops ==
    ASSUME IInv, NEW h \in Half, NEW code \in {NoError, Cancelled},
           DropIncoming(h, code)
    PROVE  /\ stop' \in [Half -> {"none", "0", NoError, Cancelled}]
           /\ \A k \in Half \ {h} : stop'[k] = stop[k]
           /\ stop'[h] # "0"
           /\ rcv[h] # "none"
           /\ \A k \in Half : rcv'[k] = "none" <=> rcv[k] = "none"
<1>1. rcv[h] # "none" /\ rcv[h] = "ended" => Eos(h)
  BY DEF IInv, HalvesInv, Receiver, DropIncoming
<1>2. stop[h] # "0" /\ stop[h] \in {"none", "0", NoError, Cancelled}
  BY <1>1 DEF DropIncoming, IInv, Roles, RolesTyped, StopCodeIsHttp3
<1>3. \E c \in {"none", NoError, Cancelled} : stop' = [stop EXCEPT ![h] = c]
  <2>1. CASE rcv[h] = "failed"
    BY <1>2, <2>1 DEF DropIncoming
  <2>2. CASE rcv[h] = "ended"
    BY <1>1, <1>2, <2>2 DEF DropIncoming, StopSending
  <2>3. CASE rcv[h] \notin {"failed", "ended"}
    BY <1>2, <2>3 DEF DropIncoming, StopSending
  <2> QED
    BY <2>1, <2>2, <2>3
<1>4. rcv[h] # "none" /\ rcv' = [rcv EXCEPT ![h] = "dropped"]
  BY DEF DropIncoming
<1>5. NoError # "0" /\ Cancelled # "0"
  BY DEF NoError, Cancelled
<1> QED
  BY <1>3, <1>4, <1>5 DEF IInv, Roles, RolesTyped, HalvesInv, HalvesTyped

-----------------------------------------------------------------------------
LEMMA InitIInv == Init => IInv
<1> SUFFICES ASSUME Init PROVE IInv
  OBVIOUS
<1>1. HalvesTyped
  <2>1. NewGuard \in [armed : BOOLEAN, code : Reset]
    BY DEF NewGuard, Reset
  <2> QED
    BY <2>1 DEF Init, HalvesTyped, Half
<1>2. ASSUME NEW h \in Half PROVE Progress(h) /\ Guarded(h) /\ Receiver(h)
  <2>1. /\ sent[h] = 0 /\ rcvd[h] = 0 /\ ending[h] = "open" /\ cause[h] = "none"
        /\ rcv[h] = "none" /\ guard[h] = NewGuard
    BY DEF Init
  <2>2. spc[h] \in {"select", "none"}
    BY DEF Init, Half
  <2>3. Len(body[h]) \in Nat
    BY BodiesAssumption DEF Init
  <2> QED
    BY <2>1, <2>2, <2>3 DEF Progress, Guarded, Receiver
<1>3. "request" \in Half /\ "response" \in Half
  BY DEF Half
<1>4. Roles
  BY <1>3 DEF Init, Roles, RolesTyped, Linked, StopCodeIsHttp3
<1> QED
  BY <1>1, <1>2, <1>4 DEF IInv, HalvesInv

\* The steps of the client's body sender.
LEMMA ClientSenderKeeps ==
    ASSUME IInv, ClientPull \/ ClientSenderStep \/ ClientAbort
    PROVE  IInv'
<1>1. "request" \in Half /\ "response" \in Half /\ HalvesInv /\ Roles
  BY DEF Half, IInv
<1>2. /\ result \in {"none", "response", "error", "dropped"}
      /\ lost \in BOOLEAN
  BY <1>1 DEF Roles, RolesTyped
<1>3. ASSUME HalvesInv', UNCHANGED <<stop, result, vpc, header, lost>>,
             cpc' = cpc \/ (cpc = "eager" /\ cpc' = "awaiting"),
             \A k \in Half : /\ spc'[k] = "none" <=> spc[k] = "none"
                             /\ spc[k] = "none" => ending'[k] = ending[k],
             rcv' = rcv
      PROVE  IInv'
  BY <1>1, <1>2, <1>3, RolesKept DEF IInv, HalvesInv
<1>4. CASE ClientPull
  <2>1. HalvesInv'
    BY <1>1, <1>4, PullKeeps DEF ClientPull
  <2> QED
    BY <1>1, <1>3, <1>4, <2>1, SenderEffect DEF ClientPull, PullFrame, PullEnd
<1>5. CASE ClientSendOk
  <2>1. HalvesInv'
    BY <1>1, <1>5, SendOkKeeps DEF ClientSendOk
  <2> QED
    BY <1>1, <1>3, <1>5, <2>1, SenderEffect DEF ClientSendOk, SendOk
<1>6. CASE ClientFinish
  <2>1. HalvesInv'
    BY <1>1, <1>6, FinishKeeps DEF ClientFinish
  <2> QED
    BY <1>1, <1>3, <1>6, <2>1, SenderEffect DEF ClientFinish, FinishOk
<1>7. CASE ClientSendFails
  <2>1. /\ TransportFails("request") \/ SourceFails("request")
        /\ UNCHANGED <<body, sent, rcvd, stop, rcv, cpc, result, vpc, header, lost>>
    BY <1>7 DEF ClientSendFails
  <2>2. HalvesInv'
    BY <1>1, <2>1, FailureKeeps
  <2> QED
    BY <1>1, <1>3, <2>1, <2>2, SenderEffect
<1>8. CASE EagerSendFails
  <2>1. /\ TransportFails("request") \/ SourceFails("request")
        /\ DropBare("response")
        /\ cpc = "eager" /\ cpc' = "over" /\ result' = "error"
        /\ UNCHANGED <<body, sent, rcvd, rcv, vpc, header, lost>>
    BY <1>8 DEF EagerSendFails
  <2>2. HalvesInv'
    BY <1>1, <2>1, FailureKeeps
  <2>3. \A k \in Half : /\ spc'[k] = "none" <=> spc[k] = "none"
                        /\ spc[k] = "none" => ending'[k] = ending[k]
    BY <1>1, <2>1, SenderEffect
  <2>4. /\ stop' \in [Half -> {"none", "0", NoError, Cancelled}]
        /\ \A k \in Half \ {"response"} : stop'[k] = stop[k]
    BY <1>1, <2>1, DropBareStops DEF Roles
  <2>5. rcv["response"] = "none"
    BY <1>1, <2>1 DEF Roles, Linked
  <2>6. RolesTyped'
    BY <1>1, <2>1, <2>4 DEF Roles, RolesTyped
  <2>7. Linked'
    BY <1>1, <2>1, <2>3, <2>4 DEF Roles, RolesTyped, Linked
  <2>8. StopCodeIsHttp3'
    BY <1>1, <2>1, <2>4, <2>5 DEF Roles, StopCodeIsHttp3
  <2> QED
    BY <2>2, <2>6, <2>7, <2>8 DEF IInv, Roles
<1>9. CASE SpawnBody
  <2>1. HalvesInv'
    BY <1>1, <1>9, HalvesStay DEF SpawnBody, halves
  <2> QED
    BY <1>1, <1>3, <1>9, <2>1 DEF SpawnBody, halves
<1>10. CASE CancelBody
  <2>1. HalvesInv'
    BY <1>1, <1>10, CutKeeps DEF CancelBody
  <2>2. /\ spc' = [spc EXCEPT !["request"] = "over"]
        /\ \E e : ending' = [ending EXCEPT !["request"] = e]
        /\ spc["request"] = "select"
        /\ UNCHANGED <<stop, rcv, cpc, result, vpc, header, lost>>
    BY <1>10 DEF CancelBody, SenderOver
  <2>3. \A k \in Half : /\ spc'[k] = "none" <=> spc[k] = "none"
                        /\ spc[k] = "none" => ending'[k] = ending[k]
    BY <1>1, <2>2 DEF HalvesInv, HalvesTyped
  <2> QED
    BY <1>3, <2>1, <2>2, <2>3
<1>11. CASE ClientAbort
  <2>1. HalvesInv'
    BY <1>1, <1>11, DroppedKeeps DEF ClientAbort
  <2> QED
    BY <1>1, <1>3, <1>11, <2>1, SenderEffect DEF ClientAbort, SenderDropped
<1> QED
  BY <1>4, <1>5, <1>6, <1>7, <1>8, <1>9, <1>10, <1>11 DEF ClientSenderStep

\* The steps of the request future and of the response body.
LEMMA ClientKeeps ==
    ASSUME IInv, ClientStep \/ DropRequestFuture
    PROVE  IInv'
<1>1. "request" \in Half /\ "response" \in Half /\ HalvesInv /\ Roles
  BY DEF Half, IInv
<1>2. CASE RecvResponse
  <2>1. HalvesInv'
    BY <1>1, <1>2, RcvMoves DEF RecvResponse
  <2>2. RolesTyped'
    BY <1>1, <1>2 DEF RecvResponse, Roles, RolesTyped
  <2>3. /\ rcv'["request"] = rcv["request"] /\ rcv'["response"] = "data"
        /\ stop["response"] = "none"
    BY <1>1, <1>2 DEF RecvResponse, Roles, Linked, HalvesInv, HalvesTyped
  <2>4. Linked'
    BY <1>1, <1>2, <2>3 DEF RecvResponse, Roles, Linked
  <2>5. StopCodeIsHttp3'
    BY <1>1, <1>2, <2>3 DEF RecvResponse, Roles, StopCodeIsHttp3, Half
  <2> QED
    BY <2>1, <2>2, <2>4, <2>5 DEF IInv, Roles
<1>3. CASE RecvResponseFails \/ DropRequestFuture
  <2>1. /\ cpc = "awaiting" /\ cpc' = "over" /\ DropBare("response")
        /\ result' \in {"error", "dropped"}
        /\ UNCHANGED <<body, sent, rcvd, ending, spc, guard, cause, rcv, vpc,
                       header, lost>>
    BY <1>3 DEF RecvResponseFails, DropRequestFuture
  <2>2. HalvesInv'
    BY <1>1, <2>1, HalvesStay
  <2>3. /\ stop' \in [Half -> {"none", "0", NoError, Cancelled}]
        /\ \A k \in Half \ {"response"} : stop'[k] = stop[k]
    BY <1>1, <2>1, DropBareStops DEF Roles
  <2>4. rcv["response"] = "none"
    BY <1>1, <2>1 DEF Roles, Linked
  <2>5. RolesTyped'
    BY <1>1, <2>1, <2>3 DEF Roles, RolesTyped
  <2>6. Linked'
    BY <1>1, <2>1, <2>3 DEF Roles, RolesTyped, Linked
  <2>7. StopCodeIsHttp3'
    BY <1>1, <2>1, <2>3, <2>4 DEF Roles, StopCodeIsHttp3
  <2> QED
    BY <2>2, <2>5, <2>6, <2>7 DEF IInv, Roles
<1>4. CASE ClientPollFrame
  <2>1. HalvesInv'
    BY <1>1, <1>4, PollFrameKeeps DEF ClientPollFrame
  <2>2. Roles'
    BY <1>1, <1>4, <2>1, PollEffect, RolesKept
    DEF ClientPollFrame, HalvesInv, Roles, RolesTyped
  <2> QED
    BY <2>1, <2>2 DEF IInv
<1>5. CASE DropResponseBody
  <2>1. DropIncoming("response", Cancelled) /\ cpc = "returned" /\ cpc' = "over"
        /\ UNCHANGED <<body, sent, rcvd, ending, spc, guard, cause, result, vpc,
                       header, lost>>
    BY <1>5 DEF DropResponseBody, DropIncoming
  <2>2. HalvesInv'
    BY <1>1, <2>1, RcvMoves DEF DropIncoming
  <2>3. /\ stop' \in [Half -> {"none", "0", NoError, Cancelled}]
        /\ \A k \in Half \ {"response"} : stop'[k] = stop[k]
        /\ stop'["response"] # "0"
        /\ rcv["response"] # "none"
        /\ \A k \in Half : rcv'[k] = "none" <=> rcv[k] = "none"
    BY <1>1, <2>1, DropIncomingStops
  <2>4. RolesTyped'
    BY <1>1, <2>1, <2>3 DEF Roles, RolesTyped
  <2>5. Linked'
    BY <1>1, <2>1, <2>3 DEF Roles, RolesTyped, Linked
  <2>6. StopCodeIsHttp3'
    BY <1>1, <2>1, <2>3 DEF Roles, StopCodeIsHttp3
  <2> QED
    BY <2>2, <2>4, <2>5, <2>6 DEF IInv, Roles
<1> QED
  BY <1>2, <1>3, <1>4, <1>5 DEF ClientStep

\* The steps of the server's task before the response, and of the request body.
LEMMA ServerKeeps ==
    ASSUME IInv,
           ResolveRequest \/ ServerPollFrame \/ DropRequestBody \/ SendResponse
               \/ ServerEndsEarly
    PROVE  IInv'
<1>1. "request" \in Half /\ "response" \in Half /\ HalvesInv /\ Roles
  BY DEF Half, IInv
<1>2. CASE ResolveRequest
  <2>1. HalvesInv'
    BY <1>1, <1>2, RcvMoves DEF ResolveRequest
  <2>2. RolesTyped'
    BY <1>1, <1>2 DEF ResolveRequest, Roles, RolesTyped
  <2>3. /\ rcv'["response"] = rcv["response"] /\ rcv'["request"] = "data"
        /\ stop["request"] = "none"
    BY <1>1, <1>2 DEF ResolveRequest, Roles, Linked, HalvesInv, HalvesTyped
  <2>4. Linked'
    BY <1>1, <1>2, <2>3 DEF ResolveRequest, Roles, Linked
  <2>5. StopCodeIsHttp3'
    BY <1>1, <1>2, <2>3 DEF ResolveRequest, Roles, StopCodeIsHttp3, Half
  <2> QED
    BY <2>1, <2>2, <2>4, <2>5 DEF IInv, Roles
<1>3. CASE ServerPollFrame
  <2>1. HalvesInv'
    BY <1>1, <1>3, PollFrameKeeps DEF ServerPollFrame
  <2>2. Roles'
    BY <1>1, <1>3, <2>1, PollEffect, RolesKept
    DEF ServerPollFrame, HalvesInv, Roles, RolesTyped
  <2> QED
    BY <2>1, <2>2 DEF IInv
<1>4. CASE DropRequestBody
  <2>1. DropIncoming("request", NoError)
        /\ UNCHANGED <<body, sent, rcvd, ending, spc, guard, cause, cpc, result, vpc,
                       header, lost>>
    BY <1>4 DEF DropRequestBody, DropIncoming
  <2>2. HalvesInv'
    BY <1>1, <2>1, RcvMoves DEF DropIncoming
  <2>3. /\ stop' \in [Half -> {"none", "0", NoError, Cancelled}]
        /\ \A k \in Half \ {"request"} : stop'[k] = stop[k]
        /\ stop'["request"] # "0"
        /\ rcv["request"] # "none"
        /\ \A k \in Half : rcv'[k] = "none" <=> rcv[k] = "none"
    BY <1>1, <2>1, DropIncomingStops
  <2>4. RolesTyped'
    BY <1>1, <2>1, <2>3 DEF Roles, RolesTyped
  <2>5. Linked'
    BY <1>1, <2>1, <2>3 DEF Roles, RolesTyped, Linked
  <2>6. StopCodeIsHttp3'
    BY <1>1, <2>1, <2>3 DEF Roles, StopCodeIsHttp3
  <2> QED
    BY <2>2, <2>4, <2>5, <2>6 DEF IInv, Roles
<1>5. CASE SendResponse
  <2>1. /\ vpc = "service" /\ vpc' = "body" /\ header' = TRUE
        /\ spc' = [spc EXCEPT !["response"] = "select"]
        /\ guard' = [guard EXCEPT !["response"] = NewGuard]
        /\ UNCHANGED <<body, sent, rcvd, ending, stop, cause, rcv, cpc, result, lost>>
    BY <1>5 DEF SendResponse
  <2>2. spc["response"] = "none" /\ ending["response"] = "open"
    BY <1>1, <2>1 DEF Roles, Linked
  <2>3. NewGuard \in [armed : BOOLEAN, code : Reset]
    BY DEF NewGuard, Reset
  <2>4. HalvesTyped'
    BY <1>1, <2>1, <2>3 DEF HalvesInv, HalvesTyped
  <2>5. /\ spc'["response"] = "select" /\ guard'["response"] = NewGuard
        /\ \A k \in Half \ {"response"} : spc'[k] = spc[k] /\ guard'[k] = guard[k]
    BY <1>1, <2>1 DEF HalvesInv, HalvesTyped
  <2>6. Progress("response")'
    BY <1>1, <2>1, <2>2, <2>5 DEF HalvesInv, Progress
  <2>7. Guarded("response")'
    BY <1>1, <2>1, <2>2, <2>5 DEF HalvesInv, Guarded, NewGuard
  <2>8. Receiver("response")'
    BY <1>1, <2>1 DEF HalvesInv, Receiver, Eos, Unread
  <2>9. HalvesInv'
    BY <1>1, <2>1, <2>4, <2>5, <2>6, <2>7, <2>8, OneHalfMoves
  <2>10. Roles'
    BY <1>1, <2>1, <2>5 DEF Roles, RolesTyped, Linked, StopCodeIsHttp3
  <2> QED
    BY <2>9, <2>10 DEF IInv
<1>6. CASE ServerEndsEarly
  <2>1. /\ vpc \in {"resolve", "service"} /\ vpc' = "over"
        /\ ending' = [ending EXCEPT !["response"] = "fin"]
        /\ (vpc = "resolve" /\ DropBare("request")) \/ stop' = stop
        /\ UNCHANGED <<body, sent, rcvd, spc, guard, cause, rcv, cpc, result,
                       header, lost>>
    BY <1>6 DEF ServerEndsEarly
  <2>2. /\ spc["response"] = "none" /\ ending["response"] = "open"
        /\ cause["response"] = "none"
    BY <1>1, <2>1 DEF Roles, Linked, HalvesInv, Guarded
  <2>3. HalvesTyped'
    BY <1>1, <2>1 DEF HalvesInv, HalvesTyped
  <2>4. /\ ending'["response"] = "fin"
        /\ \A k \in Half \ {"response"} : ending'[k] = ending[k]
    BY <1>1, <2>1 DEF HalvesInv, HalvesTyped
  <2>5. Progress("response")'
    BY <1>1, <2>1 DEF HalvesInv, Progress
  <2>6. Guarded("response")'
    BY <1>1, <2>1, <2>2, <2>4 DEF HalvesInv, Guarded
  <2>7. Receiver("response")'
    BY <1>1, <2>1, <2>4 DEF HalvesInv, Receiver, Eos, Unread
  <2>8. HalvesInv'
    BY <1>1, <2>1, <2>3, <2>4, <2>5, <2>6, <2>7, OneHalfMoves
  <2>9. /\ stop' \in [Half -> {"none", "0", NoError, Cancelled}]
        /\ stop'["response"] = stop["response"]
        /\ stop'["request"] = stop["request"] \/ vpc = "resolve"
    BY <1>1, <2>1, DropBareStops DEF Roles, RolesTyped
  <2>10. RolesTyped' /\ Linked'
    BY <1>1, <2>1, <2>9 DEF Roles, RolesTyped, Linked
  <2>11. StopCodeIsHttp3'
    BY <1>1, <2>1, <2>9 DEF Roles, Linked, StopCodeIsHttp3, Half
  <2> QED
    BY <2>8, <2>10, <2>11 DEF IInv, Roles
<1> QED
  BY <1>2, <1>3, <1>4, <1>5, <1>6

\* The steps of the server's body sender.
LEMMA ServerSenderKeeps ==
    ASSUME IInv, ServerSenderStep \/ ServerAbort
    PROVE  IInv'
<1>1. "response" \in Half /\ HalvesInv /\ Roles
  BY DEF Half, IInv
<1>2. ASSUME HalvesInv', UNCHANGED <<stop, cpc, result, header, lost>>,
             vpc' = vpc \/ vpc' = "over",
             \A k \in Half : /\ spc'[k] = "none" <=> spc[k] = "none"
                             /\ spc[k] = "none" => ending'[k] = ending[k],
             rcv' = rcv
      PROVE  IInv'
  <2>1. result \in {"none", "response", "error", "dropped"} /\ lost \in BOOLEAN
    BY <1>1 DEF Roles, RolesTyped
  <2> QED
    BY <1>1, <1>2, <2>1, RolesKept DEF IInv, HalvesInv
<1>3. CASE ServerPull
  <2>1. HalvesInv'
    BY <1>1, <1>3, PullKeeps DEF ServerPull
  <2> QED
    BY <1>1, <1>2, <1>3, <2>1, SenderEffect DEF ServerPull, PullFrame, PullEnd
<1>4. CASE ServerSendOk
  <2>1. HalvesInv'
    BY <1>1, <1>4, SendOkKeeps DEF ServerSendOk
  <2> QED
    BY <1>1, <1>2, <1>4, <2>1, SenderEffect DEF ServerSendOk, SendOk
<1>5. CASE ServerFinish
  <2>1. HalvesInv'
    BY <1>1, <1>5, FinishKeeps DEF ServerFinish
  <2> QED
    BY <1>1, <1>2, <1>5, <2>1, SenderEffect DEF ServerFinish, FinishOk
<1>6. CASE ServerSendFails
  <2>1. /\ TransportFails("response") \/ SourceFails("response")
        /\ vpc' = "over"
        /\ UNCHANGED <<body, sent, rcvd, stop, rcv, cpc, result, header, lost>>
    BY <1>6 DEF ServerSendFails
  <2>2. HalvesInv'
    BY <1>1, <2>1, FailureKeeps
  <2> QED
    BY <1>1, <1>2, <2>1, <2>2, SenderEffect
<1>7. CASE ServerAbort
  <2>1. HalvesInv'
    BY <1>1, <1>7, DroppedKeeps DEF ServerAbort
  <2> QED
    BY <1>1, <1>2, <1>7, <2>1, SenderEffect DEF ServerAbort, SenderDropped
<1> QED
  BY <1>3, <1>4, <1>5, <1>6, <1>7 DEF ServerSenderStep

\* A step of the connection, or none.
LEMMA QuietKeeps ==
    ASSUME IInv, ConnectionLost \/ UNCHANGED vars
    PROVE  IInv'
<1>1. UNCHANGED <<body, sent, rcvd, ending, stop, spc, guard, cause, rcv, cpc,
                  result, vpc, header>> /\ lost' \in BOOLEAN
  BY DEF ConnectionLost, vars, halves, IInv, Roles, RolesTyped
<1>2. HalvesInv'
  BY <1>1, HalvesStay DEF IInv
<1>3. Roles'
  BY <1>1, <1>2, RolesKept DEF IInv, HalvesInv, Roles, RolesTyped
<1> QED
  BY <1>2, <1>3 DEF IInv

\* IInv is an inductive invariant.
THEOREM IInvHolds == Spec => []IInv
<1>1. Init => IInv
  BY InitIInv
<1>2. IInv /\ [Next]_vars => IInv'
  BY ClientSenderKeeps, ClientKeeps, ServerKeeps, ServerSenderKeeps, QuietKeeps
  DEF Next
<1> QED
  BY <1>1, <1>2, PTL DEF Spec

-----------------------------------------------------------------------------
\* A stream whose body was handed to a reader ends cleanly only by finish.
LEMMA FinMeansCompleted ==
    ASSUME IInv, NEW h \in Half, ending[h] = "fin",
           rcv[h] # "none" \/ sent[h] # 0
    PROVE  cause[h] = "completed"
<1>1. spc[h] # "none"
  BY DEF IInv, HalvesInv, Progress, Roles, Linked, Half
<1>2. spc[h] = "over" /\ cause[h] # "none"
  BY <1>1 DEF IInv, HalvesInv, HalvesTyped, Guarded
<1>3. Internal # "fin" /\ Cancelled # "fin"
  BY DEF Internal, Cancelled
<1> QED
  BY <1>2, <1>3 DEF IInv, HalvesInv, HalvesTyped, Guarded

\* The trailers that a reader was given are the last frame of a body sent whole.
LEMMA TrailersLast ==
    ASSUME IInv, NEW h \in Half, cause[h] = "completed",
           NEW i \in 1 .. rcvd[h], body[h][i] = "trailers"
    PROVE  i = Len(body[h])
<1>1. body[h] \in Bodies /\ Len(body[h]) \in Nat /\ rcvd[h] \in Nat /\ sent[h] \in Nat
  BY BodiesAssumption DEF IInv, HalvesInv, HalvesTyped
<1>2. rcvd[h] <= sent[h] /\ sent[h] = Len(body[h])
  BY DEF IInv, HalvesInv, Progress, Receiver
<1>3. \A j \in 1 .. Len(body[h]) : body[h][j] \in Frames
  BY <1>2 DEF IInv, HalvesInv, Progress
<1>4. SUFFICES ASSUME i < Len(body[h]) PROVE FALSE
  BY <1>1, <1>2
<1>5. body[h][Len(body[h])] \in {"error", "pending"}
  BY <1>1, <1>2, <1>4, TrailersAssumption
<1> QED
  BY <1>1, <1>2, <1>3, <1>4, <1>5 DEF Frames

LEMMA NoTruncationInv == IInv => NoTruncation
<1> SUFFICES ASSUME IInv, NEW h \in Half, SeesEnd(h)
             PROVE  rcvd[h] = Len(body[h]) /\ cause[h] = "completed"
  BY DEF NoTruncation
<1>1. /\ Len(body[h]) \in Nat /\ rcvd[h] \in Nat /\ sent[h] \in Nat
      /\ rcvd[h] <= sent[h]
  BY BodiesAssumption DEF IInv, HalvesInv, HalvesTyped, Receiver
<1>2. CASE rcv[h] = "ended"
  <2>1. ending[h] = "fin" /\ rcvd[h] = sent[h]
    BY <1>1, <1>2 DEF IInv, HalvesInv, Receiver, Eos, Unread
  <2>2. cause[h] = "completed"
    BY <1>2, <2>1, FinMeansCompleted
  <2> QED
    BY <2>1, <2>2 DEF IInv, HalvesInv, Progress
<1>3. CASE rcvd[h] > 0 /\ body[h][rcvd[h]] = "trailers"
  <2>1. ending[h] = "fin"
    BY <1>1, <1>3 DEF IInv, HalvesInv, Receiver
  <2>2. cause[h] = "completed"
    BY <1>1, <1>3, <2>1, FinMeansCompleted
  <2> QED
    BY <1>1, <1>3, <2>2, TrailersLast
<1> QED
  BY <1>2, <1>3 DEF SeesEnd

\* The state of an exchange is well typed; nothing is received that was not sent,
\* and nothing sent that the body does not hold.
THEOREM TypeCorrect == Spec => []TypeOK
<1>1. IInv => TypeOK
  BY DEF IInv, HalvesInv, HalvesTyped, Progress, Receiver, Roles, RolesTyped, TypeOK
<1> QED
  BY <1>1, IInvHolds, PTL

\* For all bodies and every window: a reader that sees a clean end, or trailers,
\* has every frame of a body that was sent whole.
THEOREM NoTruncationHolds == Spec => []NoTruncation
  BY NoTruncationInv, IInvHolds, PTL

\* H3_INTERNAL_ERROR is a failing source or transport, H3_REQUEST_CANCELLED a
\* cancelled request or a dropped task, and a body sent whole is not reset.
THEOREM ResetTellsWhyHolds == Spec => []ResetTellsWhy
<1>1. IInv => ResetTellsWhy
  BY DEF IInv, HalvesInv, Guarded, ResetTellsWhy
<1> QED
  BY <1>1, IInvHolds, PTL

\* A body that was handed to an application is never stopped with code 0.
THEOREM StopCodeIsHttp3Holds == Spec => []StopCodeIsHttp3
<1>1. IInv => StopCodeIsHttp3
  BY DEF IInv, Roles
<1> QED
  BY <1>1, IInvHolds, PTL

-----------------------------------------------------------------------------
(* The promise of BodyDelivery *)

\* The steps of one half, as BodyDelivery sees them.
LEMMA Stays ==
    ASSUME UNCHANGED <<body, rcvd, ending, rcv>>,
           \A h \in Half : spc'[h] = "none" <=> spc[h] = "none"
    PROVE  UNCHANGED Delivery!vars
<1>1. fates' = fates
  BY DEF fates
<1>2. verdicts' = verdicts
  BY DEF verdicts
<1> QED
  BY <1>1, <1>2 DEF Delivery!vars

\* The sender ends: the fate is decided.
LEMMA Decides ==
    ASSUME IInv, NEW h \in Half, NEW e,
           spc[h] \notin {"none", "over"},
           spc' = [spc EXCEPT ![h] = "over"],
           ending' = [ending EXCEPT ![h] = e],
           e \in Reset \/ (e = "fin" /\ sent[h] = Len(body[h])),
           UNCHANGED <<body, rcvd, rcv>>
    PROVE  Delivery!Next
<1>1. verdicts' = verdicts
  BY DEF verdicts
<1>2. ending[h] = "open" /\ fates[h] = "open"
  BY DEF IInv, HalvesInv, HalvesTyped, Guarded, fates
<1>3. fates' = [fates EXCEPT ![h] = e]
  BY DEF fates, IInv, HalvesInv, HalvesTyped
<1>4. CASE e \in Reset
  BY <1>1, <1>2, <1>3, <1>4 DEF Delivery!Abort, Delivery!Next
<1>5. CASE e = "fin" /\ sent[h] = Len(body[h])
  <2>1. Delivery!Sendable(body[h])
    BY <1>5 DEF Delivery!Sendable, IInv, HalvesInv, Progress, Frames
  <2> QED
    BY <1>1, <1>2, <1>3, <1>5, <2>1 DEF Delivery!Commit, Delivery!Next
<1> QED
  BY <1>4, <1>5

LEMMA CutDecides ==
    ASSUME IInv, NEW h \in Half, NEW g, NEW why,
           spc[h] \in {"select", "send", "finish"},
           g = guard[h] \/ g = set_error_code(guard[h], Internal),
           SenderOver(h, g, why),
           UNCHANGED <<body, rcvd, rcv>>
    PROVE  Delivery!Next
<1>1. /\ guard[h] = NewGuard /\ ending[h] = "open"
      /\ guard[h] \in [armed : BOOLEAN, code : Reset]
  BY DEF IInv, HalvesInv, HalvesTyped, Guarded
<1>2. guard[h].armed = TRUE
  BY <1>1 DEF NewGuard
<1>3. g.armed = TRUE /\ g.code \in Reset
  BY <1>1, <1>2 DEF set_error_code, Reset
<1>4. DropSend(ending[h], g) = g.code
  BY <1>1, <1>3, DropSendOpen
<1> QED
  BY <1>3, <1>4, Decides DEF SenderOver

\* A sender's step decides the fate of its half, or nothing that is seen.
LEMMA SenderDelivers ==
    ASSUME IInv, NEW h \in Half, UNCHANGED <<body, rcvd, rcv>>,
           \/ PullFrame(h) \/ PullEnd(h) \/ SendOk(h) \/ FinishOk(h)
           \/ TransportFails(h) \/ SourceFails(h) \/ SenderDropped(h)
    PROVE  [Delivery!Next]_(Delivery!vars)
<1>1. CASE PullFrame(h) \/ PullEnd(h) \/ SendOk(h)
  <2>1. /\ ending' = ending
        /\ \A k \in Half : spc'[k] = "none" <=> spc[k] = "none"
    BY <1>1 DEF PullFrame, PullEnd, SendOk, IInv, HalvesInv, HalvesTyped
  <2> QED
    BY <2>1, Stays
<1>2. CASE FinishOk(h)
  <2>1. sent[h] = Len(body[h])
    BY <1>2 DEF FinishOk, IInv, HalvesInv, Progress
  <2> QED
    BY <1>2, <2>1, Decides DEF FinishOk
<1>3. CASE TransportFails(h)
  BY <1>3, CutDecides DEF TransportFails
<1>4. CASE SourceFails(h)
  BY <1>4, CutDecides DEF SourceFails
<1>5. CASE SenderDropped(h)
  BY <1>5, CutDecides DEF SenderDropped
<1> QED
  BY <1>1, <1>2, <1>3, <1>4, <1>5

\* A reader's step gives a frame, an end or a failure.
LEMMA ReaderDelivers ==
    ASSUME IInv, NEW h \in Half, PollFrame(h), body' = body
    PROVE  [Delivery!Next]_(Delivery!vars)
<1>1. /\ UNCHANGED <<spc, ending>> /\ fates' = fates
      /\ rcv[h] \in {"data", "trailers"} /\ verdicts[h] = "reading"
  BY DEF PollFrame, PollData, PollDataDone, PollTrailers, PollEnd, PollFails, fates,
         verdicts, Verdict
<1>2. ASSUME ending[h] = "fin" PROVE fates[h] = "fin" /\ sent[h] = Len(body[h])
  <2>1. cause[h] = "completed"
    BY <1>1, <1>2, FinMeansCompleted
  <2> QED
    BY <1>2, <2>1 DEF fates, IInv, HalvesInv, Guarded, Progress
<1>3. Len(body[h]) \in Nat /\ sent[h] \in Nat /\ rcvd[h] \in Nat
  BY BodiesAssumption DEF IInv, HalvesInv, HalvesTyped
<1>4. CASE PollData(h) \/ PollTrailers(h)
  <2>1. /\ rcvd' = [rcvd EXCEPT ![h] = rcvd[h] + 1] /\ rcv' = rcv
        /\ rcvd[h] < sent[h]
        /\ body[h][rcvd[h] + 1] = "data" \/ ending[h] = "fin"
    BY <1>4 DEF PollData, PollTrailers, Unread
  <2>2. verdicts' = verdicts
    BY <2>1 DEF verdicts
  <2>3. rcvd[h] < Len(body[h]) /\ body[h][rcvd[h] + 1] \in Frames
    BY <1>3, <2>1 DEF IInv, HalvesInv, Progress
  <2>4. Delivery!Give(h)
    BY <1>1, <1>2, <2>1, <2>2, <2>3 DEF Delivery!Give, Frames
  <2> QED
    BY <2>4 DEF Delivery!Next
<1>5. CASE PollDataDone(h)
  <2>1. /\ rcvd' = rcvd
        /\ rcv' = [rcv EXCEPT ![h] = "trailers"] /\ rcv[h] = "data"
    BY <1>5 DEF PollDataDone
  <2>2. verdicts' = verdicts
    BY <2>1 DEF verdicts, Verdict, IInv, HalvesInv, HalvesTyped
  <2> QED
    BY <1>1, <2>1, <2>2 DEF Delivery!vars
<1>6. CASE PollEnd(h)
  <2>1. /\ rcvd' = rcvd /\ rcv' = [rcv EXCEPT ![h] = "ended"]
        /\ ending[h] = "fin" /\ ~(rcvd[h] < sent[h])
    BY <1>6 DEF PollEnd, Eos, Unread
  <2>2. verdicts' = [verdicts EXCEPT ![h] = "whole"]
    BY <2>1 DEF verdicts, Verdict, IInv, HalvesInv, HalvesTyped
  <2>3. rcvd[h] = Len(body[h])
    BY <1>2, <1>3, <2>1 DEF IInv, HalvesInv, Receiver
  <2>4. Delivery!End(h)
    BY <1>1, <1>2, <2>1, <2>2, <2>3 DEF Delivery!End
  <2> QED
    BY <2>4 DEF Delivery!Next
<1>7. CASE PollFails(h)
  <2>1. rcvd' = rcvd /\ rcv' = [rcv EXCEPT ![h] = "failed"]
    BY <1>7 DEF PollFails
  <2>2. verdicts' = [verdicts EXCEPT ![h] = "failed"]
    BY <2>1 DEF verdicts, Verdict, IInv, HalvesInv, HalvesTyped
  <2>3. Delivery!Fail(h)
    BY <1>1, <2>1, <2>2 DEF Delivery!Fail
  <2> QED
    BY <2>3 DEF Delivery!Next
<1> QED
  BY <1>4, <1>5, <1>6, <1>7 DEF PollFrame

\* An incoming body is dropped.
LEMMA DropDelivers ==
    ASSUME IInv, NEW h \in Half, NEW code, DropIncoming(h, code), body' = body
    PROVE  [Delivery!Next]_(Delivery!vars)
<1>1. /\ UNCHANGED <<spc, ending, rcvd>> /\ fates' = fates
      /\ rcv' = [rcv EXCEPT ![h] = "dropped"] /\ rcv[h] # "dropped"
  BY DEF DropIncoming, fates
<1>2. verdicts[h] # "left" /\ verdicts' = [verdicts EXCEPT ![h] = "left"]
  BY <1>1 DEF verdicts, Verdict, IInv, HalvesInv, HalvesTyped
<1>3. Delivery!Leave(h)
  BY <1>1, <1>2 DEF Delivery!Leave
<1> QED
  BY <1>3 DEF Delivery!Next

\* An incoming body is made.
LEMMA ReceiverMade ==
    ASSUME IInv, NEW h \in Half, rcv[h] = "none",
           rcv' = [rcv EXCEPT ![h] = "data"],
           UNCHANGED <<body, rcvd, spc, ending>>
    PROVE  UNCHANGED Delivery!vars
<1>1. verdicts' = verdicts
  BY DEF verdicts, Verdict, IInv, HalvesInv, HalvesTyped
<1>2. fates' = fates
  BY DEF fates
<1> QED
  BY <1>1, <1>2 DEF Delivery!vars

\* Every step of the exchange is a step of one half, or none that is seen.
LEMMA StepDelivers == IInv /\ [Next]_vars => [Delivery!Next]_(Delivery!vars)
<1> SUFFICES ASSUME IInv, [Next]_vars PROVE [Delivery!Next]_(Delivery!vars)
  OBVIOUS
<1>1. "request" \in Half /\ "response" \in Half
  BY DEF Half
<1>2. CASE ClientPull \/ ClientSendOk \/ ClientFinish \/ ClientSendFails \/ ClientAbort
  <2>1. /\ UNCHANGED <<body, rcvd, rcv>>
        /\ \/ PullFrame("request") \/ PullEnd("request") \/ SendOk("request")
           \/ FinishOk("request") \/ TransportFails("request")
           \/ SourceFails("request") \/ SenderDropped("request")
    BY <1>2 DEF ClientPull, ClientSendOk, ClientFinish, ClientSendFails, ClientAbort,
                PullFrame, PullEnd, SendOk, FinishOk, SenderDropped
  <2> QED
    BY <1>1, <2>1, SenderDelivers
<1>3. CASE EagerSendFails
  BY <1>1, <1>3, SenderDelivers DEF EagerSendFails
<1>4. CASE CancelBody
  BY <1>1, <1>4, CutDecides DEF CancelBody
<1>5. CASE ServerSenderStep \/ ServerAbort
  <2>1. /\ UNCHANGED <<body, rcvd, rcv>>
        /\ \/ PullFrame("response") \/ PullEnd("response") \/ SendOk("response")
           \/ FinishOk("response") \/ TransportFails("response")
           \/ SourceFails("response") \/ SenderDropped("response")
    BY <1>5 DEF ServerSenderStep, ServerPull, ServerSendOk, ServerFinish,
                ServerSendFails, ServerAbort,
                PullFrame, PullEnd, SendOk, FinishOk, SenderDropped
  <2> QED
    BY <1>1, <2>1, SenderDelivers
<1>6. CASE SpawnBody \/ RecvResponseFails \/ DropRequestFuture \/ ConnectionLost
           \/ UNCHANGED vars
  BY <1>6, Stays DEF SpawnBody, RecvResponseFails, DropRequestFuture, ConnectionLost,
                     vars, halves
<1>7. CASE ClientPollFrame \/ ServerPollFrame
  BY <1>1, <1>7, ReaderDelivers DEF ClientPollFrame, ServerPollFrame
<1>8. CASE DropResponseBody \/ DropRequestBody
  BY <1>1, <1>8, DropDelivers DEF DropResponseBody, DropRequestBody
<1>9. CASE RecvResponse
  <2>1. rcv["response"] = "none"
    BY <1>9 DEF RecvResponse, IInv, Roles, Linked
  <2> QED
    BY <1>1, <1>9, <2>1, ReceiverMade DEF RecvResponse
<1>10. CASE ResolveRequest
  <2>1. rcv["request"] = "none"
    BY <1>10 DEF ResolveRequest, IInv, Roles, Linked
  <2> QED
    BY <1>1, <1>10, <2>1, ReceiverMade DEF ResolveRequest
<1>11. CASE SendResponse
  <2>1. spc["response"] = "none" /\ ending["response"] = "open"
    BY <1>11 DEF SendResponse, IInv, Roles, Linked
  <2>2. fates' = fates
    BY <1>11, <2>1 DEF SendResponse, fates, IInv, HalvesInv, HalvesTyped
  <2>3. verdicts' = verdicts
    BY <1>11 DEF SendResponse, verdicts
  <2> QED
    BY <1>11, <2>2, <2>3 DEF SendResponse, Delivery!vars
<1>12. CASE ServerEndsEarly
  <2>1. spc["response"] = "none"
    BY <1>12 DEF ServerEndsEarly, IInv, Roles, Linked
  <2>2. fates' = fates
    BY <1>12, <2>1 DEF ServerEndsEarly, fates, IInv, HalvesInv, HalvesTyped
  <2>3. verdicts' = verdicts
    BY <1>12 DEF ServerEndsEarly, verdicts
  <2> QED
    BY <1>12, <2>2, <2>3 DEF ServerEndsEarly, Delivery!vars
<1> QED
  BY <1>2, <1>3, <1>4, <1>5, <1>6, <1>7, <1>8, <1>9, <1>10, <1>11, <1>12
  DEF Next, ClientSenderStep, ClientStep

\* An exchange implements BodyDelivery, for all bodies and every window: the fate of
\* each message is decided once, and its reader is told nothing else.
THEOREM ExchangeDelivers == Spec => BodiesDelivered
<1>1. Init => Delivery!Init
  <2> SUFFICES ASSUME Init PROVE Delivery!Init
    OBVIOUS
  <2>1. fates = [h \in Half |-> "open"]
    BY DEF Init, fates, Half
  <2>2. verdicts = [h \in Half |-> "reading"]
    BY DEF Init, verdicts, Verdict
  <2> QED
    BY <2>1, <2>2 DEF Init, Delivery!Init
<1>2. IInv /\ [Next]_vars => [Delivery!Next]_(Delivery!vars)
  BY StepDelivers
<1> QED
  BY <1>1, <1>2, IInvHolds, PTL DEF Spec, BodiesDelivered, Delivery!Spec

-----------------------------------------------------------------------------
(* Every step brings the exchange nearer to its end *)

\* How far a sender, an incoming body, the client and the server are from their
\* ends: a frame is pulled and sent, and given to the reader.
SenderRank(s) ==
    CASE s = "none" -> 4 [] s = "select" -> 3 [] s \in {"send", "finish"} -> 2
      [] OTHER -> 0

ReaderRank(r) ==
    CASE r = "none" -> 4 [] r = "data" -> 3 [] r = "trailers" -> 2
      [] r \in {"ended", "failed"} -> 1 [] OTHER -> 0

ClientRank(c) ==
    CASE c = "eager" -> 3 [] c = "awaiting" -> 2 [] c = "returned" -> 1 [] OTHER -> 0

ServerRank(v) ==
    CASE v = "resolve" -> 3 [] v = "service" -> 2 [] v = "body" -> 1 [] OTHER -> 0

SenderWork(h) == 2 * (Len(body[h]) - sent[h]) + SenderRank(spc[h])
ReaderWork(h) == Len(body[h]) - rcvd[h] + ReaderRank(rcv[h])

Effort ==
    SenderWork("request") + SenderWork("response")
        + ReaderWork("request") + ReaderWork("response")
        + ClientRank(cpc) + ServerRank(vpc) + (IF lost THEN 0 ELSE 1)

Budget == 3 * (Len(body["request"]) + Len(body["response"])) + 23

\* What is left to do is a number, and bounded by the lengths of the bodies.
LEMMA WorkBounded ==
    ASSUME IInv, NEW h \in Half
    PROVE  /\ Len(body[h]) \in Nat
           /\ SenderWork(h) \in 0 .. 2 * Len(body[h]) + 4
           /\ ReaderWork(h) \in 0 .. Len(body[h]) + 4
<1>1. Len(body[h]) \in Nat /\ sent[h] \in Nat /\ rcvd[h] \in Nat
  BY BodiesAssumption DEF IInv, HalvesInv, HalvesTyped
<1>2. rcvd[h] <= sent[h] /\ sent[h] <= Len(body[h])
  BY DEF IInv, HalvesInv, Progress, Receiver
<1>3. SenderRank(spc[h]) \in 0 .. 4 /\ ReaderRank(rcv[h]) \in 0 .. 4
  BY DEF SenderRank, ReaderRank
<1>4. ASSUME NEW n \in Nat, NEW s \in Nat, s <= n, NEW k \in 0 .. 4
      PROVE  2 * (n - s) + k \in 0 .. 2 * n + 4 /\ n - s + k \in 0 .. n + 4
  BY <1>4
<1>5. rcvd[h] <= Len(body[h])
  BY <1>1, <1>2
<1> QED
  BY <1>1, <1>2, <1>3, <1>4, <1>5 DEF SenderWork, ReaderWork

\* A step of a sender lowers its own work and touches no other.
LEMMA SenderFalls ==
    ASSUME IInv, NEW h \in Half, body' = body,
           \/ PullFrame(h) \/ PullEnd(h) \/ SendOk(h) \/ FinishOk(h)
           \/ SenderDropped(h)
           \/ /\ TransportFails(h) \/ SourceFails(h)
              /\ UNCHANGED <<sent, rcvd, rcv>>
           \/ /\ spc[h] = "select" /\ spc' = [spc EXCEPT ![h] = "over"]
              /\ UNCHANGED <<sent, rcvd, rcv>>
    PROVE  /\ SenderWork(h)' < SenderWork(h)
           /\ \A k \in Half \ {h} : SenderWork(k)' = SenderWork(k)
           /\ \A k \in Half : ReaderWork(k)' = ReaderWork(k)
<1>1. /\ Len(body[h]) \in Nat /\ sent \in [Half -> Nat]
      /\ spc \in [Half -> {"none", "select", "send", "finish", "over"}]
  BY BodiesAssumption DEF IInv, HalvesInv, HalvesTyped
<1>2. UNCHANGED <<rcvd, rcv>>
  BY DEF PullFrame, PullEnd, SendOk, FinishOk, SenderDropped
<1>3. \/ /\ sent' = sent
         /\ \/ spc[h] = "select" /\ spc' = [spc EXCEPT ![h] = "send"]
            \/ spc[h] = "select" /\ spc' = [spc EXCEPT ![h] = "finish"]
            \/ /\ spc[h] \in {"select", "send", "finish"}
               /\ spc' = [spc EXCEPT ![h] = "over"]
      \/ /\ spc[h] = "send" /\ spc' = [spc EXCEPT ![h] = "select"]
         /\ sent' = [sent EXCEPT ![h] = @ + 1]
  BY DEF PullFrame, PullEnd, SendOk, FinishOk, SenderDropped, TransportFails,
         SourceFails, SenderOver
<1>4. SenderWork(h)' < SenderWork(h)
  BY <1>1, <1>3 DEF SenderWork, SenderRank
<1>5. \A k \in Half \ {h} : sent'[k] = sent[k] /\ spc'[k] = spc[k]
  BY <1>1, <1>3
<1> QED
  BY <1>2, <1>4, <1>5 DEF SenderWork, ReaderWork

\* So does a step of an incoming body.
LEMMA ReaderFalls ==
    ASSUME IInv, NEW h \in Half, body' = body,
           PollFrame(h) \/ \E code \in {NoError, Cancelled} : DropIncoming(h, code)
    PROVE  /\ ReaderWork(h)' < ReaderWork(h)
           /\ \A k \in Half \ {h} : ReaderWork(k)' = ReaderWork(k)
           /\ \A k \in Half : SenderWork(k)' = SenderWork(k)
<1>1. /\ Len(body[h]) \in Nat /\ rcvd \in [Half -> Nat]
      /\ rcv \in [Half -> {"none", "data", "trailers", "ended", "failed", "dropped"}]
  BY BodiesAssumption DEF IInv, HalvesInv, HalvesTyped
<1>2. UNCHANGED <<sent, spc>>
  BY DEF PollFrame, PollData, PollDataDone, PollTrailers, PollEnd, PollFails,
         DropIncoming
<1>3. \/ rcv' = rcv /\ rcvd' = [rcvd EXCEPT ![h] = @ + 1]
      \/ /\ rcvd' = rcvd
         /\ \/ rcv[h] = "data" /\ rcv' = [rcv EXCEPT ![h] = "trailers"]
            \/ rcv[h] = "trailers" /\ rcv' = [rcv EXCEPT ![h] = "ended"]
            \/ /\ rcv[h] \in {"data", "trailers"}
               /\ rcv' = [rcv EXCEPT ![h] = "failed"]
            \/ /\ rcv[h] \in {"data", "trailers", "ended", "failed"}
               /\ rcv' = [rcv EXCEPT ![h] = "dropped"]
  BY DEF PollFrame, PollData, PollDataDone, PollTrailers, PollEnd, PollFails,
         DropIncoming
<1>4. ReaderWork(h)' < ReaderWork(h)
  BY <1>1, <1>3 DEF ReaderWork, ReaderRank
<1>5. \A k \in Half \ {h} : rcvd'[k] = rcvd[k] /\ rcv'[k] = rcv[k]
  BY <1>1, <1>3
<1> QED
  BY <1>2, <1>4, <1>5 DEF SenderWork, ReaderWork

\* The terms of the effort are numbers, and so is their sum, before a step ...
Measured ==
    /\ SenderWork("request") \in Nat /\ SenderWork("response") \in Nat
    /\ ReaderWork("request") \in Nat /\ ReaderWork("response") \in Nat
    /\ ClientRank(cpc) \in 0 .. 3 /\ ServerRank(vpc) \in 0 .. 3
    /\ Effort \in 0 .. Budget

LEMMA EffortTyped == IInv => Measured
<1> SUFFICES ASSUME IInv PROVE Measured
  OBVIOUS
<1>1. "request" \in Half /\ "response" \in Half
  BY DEF Half
<1>2. ClientRank(cpc) \in 0 .. 3 /\ ServerRank(vpc) \in 0 .. 3
  BY DEF ClientRank, ServerRank
<1>3. ASSUME NEW n \in Nat, NEW m \in Nat,
             NEW a \in 0 .. 2 * n + 4, NEW b \in 0 .. 2 * m + 4,
             NEW c \in 0 .. n + 4, NEW d \in 0 .. m + 4,
             NEW x \in 0 .. 3, NEW y \in 0 .. 3, NEW z \in 0 .. 1
      PROVE  a + b + c + d + x + y + z \in 0 .. 3 * (n + m) + 23
  BY <1>3
<1>4. (IF lost THEN 0 ELSE 1) \in 0 .. 1
  OBVIOUS
<1>5. Effort \in 0 .. Budget
  BY <1>1, <1>2, <1>3, <1>4, WorkBounded DEF Effort, Budget
<1> QED
  BY <1>1, <1>2, <1>5, WorkBounded DEF Measured

\* ... and after it.
LEMMA EffortTypedNext == IInv' => Measured'
  BY EffortTyped, PTL

\* The sum falls when no term rises and one falls.
LEMMA SumFalls ==
    ASSUME Measured, Measured', lost' = lost,
           SenderWork("request")' <= SenderWork("request"),
           SenderWork("response")' <= SenderWork("response"),
           ReaderWork("request")' <= ReaderWork("request"),
           ReaderWork("response")' <= ReaderWork("response"),
           ClientRank(cpc)' <= ClientRank(cpc),
           ServerRank(vpc)' <= ServerRank(vpc),
           \/ SenderWork("request")' < SenderWork("request")
           \/ SenderWork("response")' < SenderWork("response")
           \/ ReaderWork("request")' < ReaderWork("request")
           \/ ReaderWork("response")' < ReaderWork("response")
           \/ ClientRank(cpc)' < ClientRank(cpc)
           \/ ServerRank(vpc)' < ServerRank(vpc)
    PROVE  Effort' < Effort
<1>1. (IF lost THEN 0 ELSE 1) \in Nat /\ (IF lost' THEN 0 ELSE 1) = IF lost THEN 0 ELSE 1
  OBVIOUS
<1> QED
  BY <1>1 DEF Measured, Effort

\* Every action lowers the effort.
LEMMA StepFalls ==
    ASSUME IInv, IInv', Next
    PROVE  Effort' < Effort
<1> USE EffortTyped, EffortTypedNext
<1>1. /\ "request" \in Half /\ "response" \in Half
      /\ "response" \in Half \ {"request"} /\ "request" \in Half \ {"response"}
  BY DEF Half
<1>2. /\ cpc \in {"eager", "awaiting", "returned", "over"}
      /\ vpc \in {"resolve", "service", "body", "over"}
      /\ rcv \in [Half -> {"none", "data", "trailers", "ended", "failed", "dropped"}]
      /\ spc \in [Half -> {"none", "select", "send", "finish", "over"}]
      /\ \A h \in Half : Len(body[h]) \in Nat /\ sent[h] \in Nat /\ rcvd[h] \in Nat
  BY BodiesAssumption DEF IInv, Roles, RolesTyped, HalvesInv, HalvesTyped
\* The sender of the request.
<1>3. CASE ClientPull \/ ClientSendOk \/ ClientSendFails \/ CancelBody \/ ClientAbort
  <2>1. UNCHANGED <<body, cpc, vpc, lost>>
    BY <1>3 DEF ClientPull, ClientSendOk, ClientSendFails, CancelBody, ClientAbort
  <2>2. /\ SenderWork("request")' < SenderWork("request")
        /\ SenderWork("response")' = SenderWork("response")
        /\ \A k \in Half : ReaderWork(k)' = ReaderWork(k)
    BY <1>1, <1>3, <2>1, SenderFalls
    DEF ClientPull, ClientSendOk, ClientSendFails, CancelBody, ClientAbort, SenderOver
  <2> QED
    BY <1>1, <2>1, <2>2, SumFalls DEF Measured
<1>4. CASE ClientFinish \/ EagerSendFails
  <2>1. UNCHANGED <<body, vpc, lost>> /\ ClientRank(cpc)' <= ClientRank(cpc)
    BY <1>2, <1>4 DEF ClientFinish, EagerSendFails, ClientRank
  <2>2. /\ SenderWork("request")' < SenderWork("request")
        /\ SenderWork("response")' = SenderWork("response")
        /\ \A k \in Half : ReaderWork(k)' = ReaderWork(k)
    BY <1>1, <1>4, <2>1, SenderFalls DEF ClientFinish, EagerSendFails
  <2> QED
    BY <1>1, <2>1, <2>2, SumFalls DEF Measured
\* The request future.
<1>5. CASE SpawnBody \/ RecvResponseFails \/ DropRequestFuture
  <2>1. UNCHANGED <<body, sent, rcvd, spc, rcv, vpc, lost>>
    BY <1>5 DEF SpawnBody, RecvResponseFails, DropRequestFuture, halves
  <2>2. ClientRank(cpc)' < ClientRank(cpc)
    BY <1>5 DEF SpawnBody, RecvResponseFails, DropRequestFuture, ClientRank
  <2> QED
    BY <2>1, <2>2, SumFalls DEF Measured, SenderWork, ReaderWork
<1>6. CASE RecvResponse
  <2>1. rcv["response"] = "none"
    BY <1>6 DEF RecvResponse, IInv, Roles, Linked
  <2>2. rcv'["response"] = "data" /\ rcv'["request"] = rcv["request"]
    BY <1>1, <1>2, <1>6 DEF RecvResponse
  <2>3. UNCHANGED <<body, sent, rcvd, spc, vpc, lost>>
    BY <1>6 DEF RecvResponse
  <2>4. ClientRank(cpc)' < ClientRank(cpc)
    BY <1>6 DEF RecvResponse, ClientRank
  <2>5. ReaderWork("response")' < ReaderWork("response")
    BY <1>1, <1>2, <2>1, <2>2, <2>3 DEF ReaderWork, ReaderRank
  <2>6. /\ ReaderWork("request")' = ReaderWork("request")
        /\ SenderWork("request")' = SenderWork("request")
        /\ SenderWork("response")' = SenderWork("response")
    BY <2>2, <2>3 DEF SenderWork, ReaderWork
  <2> QED
    BY <2>3, <2>4, <2>5, <2>6, SumFalls DEF Measured
\* The two incoming bodies.
<1>7. CASE ClientPollFrame \/ DropResponseBody
  <2>1. UNCHANGED <<body, vpc, lost>> /\ ClientRank(cpc)' <= ClientRank(cpc)
    BY <1>7 DEF ClientPollFrame, DropResponseBody, ClientRank
  <2>2. /\ ReaderWork("response")' < ReaderWork("response")
        /\ ReaderWork("request")' = ReaderWork("request")
        /\ \A k \in Half : SenderWork(k)' = SenderWork(k)
    BY <1>1, <1>7, <2>1, ReaderFalls DEF ClientPollFrame, DropResponseBody
  <2> QED
    BY <1>1, <2>1, <2>2, SumFalls DEF Measured
<1>8. CASE ServerPollFrame \/ DropRequestBody
  <2>1. UNCHANGED <<body, cpc, vpc, lost>>
    BY <1>8 DEF ServerPollFrame, DropRequestBody
  <2>2. /\ ReaderWork("request")' < ReaderWork("request")
        /\ ReaderWork("response")' = ReaderWork("response")
        /\ \A k \in Half : SenderWork(k)' = SenderWork(k)
    BY <1>1, <1>8, <2>1, ReaderFalls DEF ServerPollFrame, DropRequestBody
  <2> QED
    BY <1>1, <2>1, <2>2, SumFalls DEF Measured
\* The request task of the server.
<1>9. CASE ResolveRequest
  <2>1. rcv["request"] = "none"
    BY <1>9 DEF ResolveRequest, IInv, Roles, Linked
  <2>2. rcv'["request"] = "data" /\ rcv'["response"] = rcv["response"]
    BY <1>1, <1>2, <1>9 DEF ResolveRequest
  <2>3. UNCHANGED <<body, sent, rcvd, spc, cpc, lost>>
    BY <1>9 DEF ResolveRequest
  <2>4. ServerRank(vpc)' < ServerRank(vpc)
    BY <1>9 DEF ResolveRequest, ServerRank
  <2>5. ReaderWork("request")' < ReaderWork("request")
    BY <1>1, <1>2, <2>1, <2>2, <2>3 DEF ReaderWork, ReaderRank
  <2>6. /\ ReaderWork("response")' = ReaderWork("response")
        /\ SenderWork("request")' = SenderWork("request")
        /\ SenderWork("response")' = SenderWork("response")
    BY <2>2, <2>3 DEF SenderWork, ReaderWork
  <2> QED
    BY <2>3, <2>4, <2>5, <2>6, SumFalls DEF Measured
<1>10. CASE SendResponse
  <2>1. spc["response"] = "none"
    BY <1>10 DEF SendResponse, IInv, Roles, Linked
  <2>2. spc'["response"] = "select" /\ spc'["request"] = spc["request"]
    BY <1>1, <1>2, <1>10 DEF SendResponse
  <2>3. UNCHANGED <<body, sent, rcvd, rcv, cpc, lost>>
    BY <1>10 DEF SendResponse
  <2>4. ServerRank(vpc)' < ServerRank(vpc)
    BY <1>10 DEF SendResponse, ServerRank
  <2>5. SenderWork("response")' < SenderWork("response")
    BY <1>1, <1>2, <2>1, <2>2, <2>3 DEF SenderWork, SenderRank
  <2>6. /\ SenderWork("request")' = SenderWork("request")
        /\ ReaderWork("request")' = ReaderWork("request")
        /\ ReaderWork("response")' = ReaderWork("response")
    BY <2>2, <2>3 DEF SenderWork, ReaderWork
  <2> QED
    BY <2>3, <2>4, <2>5, <2>6, SumFalls DEF Measured
<1>11. CASE ServerEndsEarly
  <2>1. UNCHANGED <<body, sent, rcvd, spc, rcv, cpc, lost>>
    BY <1>11 DEF ServerEndsEarly
  <2>2. ServerRank(vpc)' < ServerRank(vpc)
    BY <1>11 DEF ServerEndsEarly, ServerRank
  <2> QED
    BY <2>1, <2>2, SumFalls DEF Measured, SenderWork, ReaderWork
\* The sender of the response.
<1>12. CASE ServerSenderStep \/ ServerAbort
  <2>1. UNCHANGED <<body, cpc, lost>> /\ ServerRank(vpc)' <= ServerRank(vpc)
    BY <1>2, <1>12 DEF ServerSenderStep, ServerPull, ServerSendOk, ServerFinish,
       ServerSendFails, ServerAbort, ServerRank
  <2>2. /\ SenderWork("response")' < SenderWork("response")
        /\ SenderWork("request")' = SenderWork("request")
        /\ \A k \in Half : ReaderWork(k)' = ReaderWork(k)
    BY <1>1, <1>12, <2>1, SenderFalls DEF ServerSenderStep, ServerPull, ServerSendOk,
       ServerFinish, ServerSendFails, ServerAbort
  <2> QED
    BY <1>1, <2>1, <2>2, SumFalls DEF Measured
<1>13. CASE ConnectionLost
  <2>1. UNCHANGED <<body, sent, rcvd, spc, rcv, cpc, vpc>> /\ ~lost /\ lost'
    BY <1>13 DEF ConnectionLost, halves
  <2>2. /\ SenderWork("request")' = SenderWork("request")
        /\ SenderWork("response")' = SenderWork("response")
        /\ ReaderWork("request")' = ReaderWork("request")
        /\ ReaderWork("response")' = ReaderWork("response")
    BY <2>1 DEF SenderWork, ReaderWork
  <2> QED
    BY <2>1, <2>2 DEF Effort, Measured
<1> QED
  BY <1>3, <1>4, <1>5, <1>6, <1>7, <1>8, <1>9, <1>10, <1>11, <1>12, <1>13
  DEF Next, ClientSenderStep, ClientStep

\* Nothing in an exchange goes round in circles, whatever the bodies, the window,
\* the losses and the order of its tasks: each step of any actor uses up some of a
\* budget that the lengths of the two bodies fix.  So an exchange is over after so
\* many steps, or stands still; the run adds that it does not stand still.
THEOREM ExchangeShrinks == Spec => [](Effort \in 0 .. Budget) /\ [][Effort' < Effort]_vars
<1>1. IInv => Effort \in 0 .. Budget
  BY EffortTyped DEF Measured
<1>2. IInv /\ IInv' /\ [Next]_vars => [Effort' < Effort]_vars
  BY StepFalls
<1> QED
  BY <1>1, <1>2, IInvHolds, PTL DEF Spec

-----------------------------------------------------------------------------
(* Flow control never jams *)

\* A reader that waits behind the data has the trailers before it, and one that has
\* gone has told the sender, or the connection is gone.
Heeded(h) ==
    /\ rcv[h] = "trailers" /\ ending[h] = "open"
          => Unread(h) /\ body[h][rcvd[h] + 1] = "trailers"
    /\ rcv[h] \in {"failed", "dropped"} /\ ending[h] = "open"
          => lost \/ stop[h] # "none"

\* A body that nobody wraps yet will be, or the sender was told.
Awaited ==
    /\ rcv["request"] = "none" /\ ending["request"] = "open"
          => vpc = "resolve" \/ stop["request"] # "none"
    /\ rcv["response"] = "none" /\ ending["response"] = "open"
          => cpc \in {"eager", "awaiting"} \/ stop["response"] # "none"

Listened == Awaited /\ \A h \in Half : Heeded(h)

\* Nobody waits for each other over a full window: a send that cannot go on finds a
\* reader with data before it, or one that is still to come.
NeverJams ==
    \A h \in Half : spc[h] = "send" =>
        \/ lost \/ stop[h] # "none"
        \/ sent[h] - rcvd[h] < Window
        \/ rcv[h] = "data" /\ Unread(h) /\ body[h][rcvd[h] + 1] = "data"
        \/ rcv[h] = "none" /\ IF h = "request" THEN vpc = "resolve"
                              ELSE header /\ cpc \in {"eager", "awaiting"}

\* What no step undoes.
Onward ==
    /\ body' = body
    /\ \A h \in Half : ending'[h] = "open" => ending[h] = "open"
    /\ \A h \in Half : stop[h] # "none" => stop'[h] # "none"
    /\ \A h \in Half : sent[h] <= sent'[h]
    /\ lost => lost'

\* Dropping the send half does not open a stream again.
LEMMA DropSendEnds ==
    ASSUME NEW e, NEW g, e # "open" PROVE DropSend(e, g) # "open"
  BY DEF DropSend

\* A STOP_SENDING is not taken back, and is sent on a stream that is open.
LEMMA StopSent ==
    ASSUME NEW h \in Half, NEW code \in {"0", NoError, Cancelled}
    PROVE  /\ stop[h] # "none" => StopSending(h, code) # "none"
           /\ ending[h] = "open" => StopSending(h, code) # "none"
  BY DEF StopSending, Eos, NoError, Cancelled

LEMMA StepOnward == ASSUME IInv, Next PROVE Onward
<1>1. /\ stop \in [Half -> {"none", "0", NoError, Cancelled}] /\ sent \in [Half -> Nat]
      /\ ending \in [Half -> {"open", "fin"} \cup Reset]
  BY DEF IInv, Roles, RolesTyped, HalvesInv, HalvesTyped
<1>2. /\ body' = body /\ (lost => lost')
      /\ \/ sent' = sent
         \/ \E h \in Half : sent' = [sent EXCEPT ![h] = @ + 1]
      /\ \/ stop' = stop
         \/ \E h \in Half : DropBare(h)
         \/ \E h \in Half, code \in {NoError, Cancelled} : DropIncoming(h, code)
      /\ \/ ending' = ending
         \/ \E h \in Half : ending' = [ending EXCEPT ![h] = "fin"]
         \/ \E h \in Half : \E g : ending' = [ending EXCEPT ![h] = DropSend(@, g)]
  <2> USE DEF Next, ClientPull, ClientSenderStep, ClientSendOk, ClientFinish,
         ClientSendFails, EagerSendFails, SpawnBody, CancelBody, ClientAbort,
         ClientStep, RecvResponse, RecvResponseFails, ClientPollFrame,
         DropResponseBody, DropRequestFuture, ResolveRequest, ServerPollFrame,
         DropRequestBody, SendResponse, ServerEndsEarly, ServerSenderStep, ServerPull,
         ServerSendOk, ServerFinish, ServerSendFails, ServerAbort, ConnectionLost,
         PullFrame, PullEnd, SendOk, FinishOk, SenderDropped, PollFrame, PollData,
         PollDataDone, PollTrailers, PollEnd, PollFails, halves, Half
  <2>1. body' = body /\ (lost => lost')
    OBVIOUS
  <2>2. sent' = sent \/ \E h \in Half : sent' = [sent EXCEPT ![h] = @ + 1]
    BY DEF DropIncoming
  <2>3. \/ stop' = stop
        \/ \E h \in Half : DropBare(h)
        \/ \E h \in Half, code \in {NoError, Cancelled} : DropIncoming(h, code)
    OBVIOUS
  <2>4. \/ ending' = ending
        \/ \E h \in Half : ending' = [ending EXCEPT ![h] = "fin"]
        \/ \E h \in Half : \E g : ending' = [ending EXCEPT ![h] = DropSend(@, g)]
    BY DEF DropIncoming, SenderOver, TransportFails, SourceFails
  <2> QED
    BY <2>1, <2>2, <2>3, <2>4
<1>3. \A h \in Half : sent[h] <= sent'[h]
  BY <1>1, <1>2
<1>4. \A h \in Half : stop[h] # "none" => stop'[h] # "none"
  BY <1>1, <1>2, StopSent DEF DropBare, DropIncoming
<1>5. \A h \in Half : ending'[h] = "open" => ending[h] = "open"
  BY <1>1, <1>2, DropSendEnds
<1> QED
  BY <1>2, <1>3, <1>4, <1>5 DEF Onward

\* A half whose reader does not move.
LEMMA HeededStays ==
    ASSUME IInv, IInv', Onward, NEW h \in Half, Heeded(h),
           rcv'[h] = rcv[h], rcvd'[h] = rcvd[h]
    PROVE  Heeded(h)'
<1>1. sent[h] \in Nat /\ rcvd[h] \in Nat /\ sent[h] <= sent'[h] /\ sent'[h] \in Nat
  BY DEF Onward, IInv, HalvesInv, HalvesTyped
<1> QED
  BY <1>1 DEF Heeded, Onward, Unread

\* A reader that takes a step, or leaves.
LEMMA ReaderHeeded ==
    ASSUME IInv, IInv', Onward, NEW h \in Half, Listened,
           \/ PollFrame(h) /\ lost' = lost
           \/ \E code \in {NoError, Cancelled} : DropIncoming(h, code)
    PROVE  /\ \A k \in Half : Heeded(k)'
           /\ \A k \in Half : rcv'[k] = "none" <=> rcv[k] = "none"
<1>1. /\ rcv \in [Half -> {"none", "data", "trailers", "ended", "failed", "dropped"}]
      /\ rcvd \in [Half -> Nat]
      /\ stop \in [Half -> {"none", "0", NoError, Cancelled}]
  BY DEF IInv, HalvesInv, HalvesTyped, Roles, RolesTyped
<1>2. \A k \in Half \ {h} : rcv'[k] = rcv[k] /\ rcvd'[k] = rcvd[k]
  BY <1>1 DEF PollFrame, PollData, PollDataDone, PollTrailers, PollEnd, PollFails,
              DropIncoming
<1>3. \A k \in Half \ {h} : Heeded(k)'
  BY <1>2, HeededStays DEF Listened
<1>4. rcv[h] # "none" /\ rcv'[h] # "none"
  BY <1>1 DEF PollFrame, PollData, PollDataDone, PollTrailers, PollEnd, PollFails,
              DropIncoming
<1>5. Heeded(h)'
  <2>1. CASE PollData(h)
    BY <1>1, <2>1 DEF PollData, Heeded
  <2>2. CASE PollDataDone(h)
    BY <1>1, <2>2 DEF PollDataDone, Heeded, Eos, Unread, Onward
  <2>3. CASE PollTrailers(h)
    BY <1>1, <2>3 DEF PollTrailers, Heeded
  <2>4. CASE PollEnd(h)
    BY <1>1, <2>4 DEF PollEnd, Heeded
  <2>5. CASE PollFails(h) /\ lost' = lost
    BY <1>1, <2>5 DEF PollFails, Heeded, Reset, Cancelled, Internal
  <2>6. ASSUME NEW code \in {NoError, Cancelled}, DropIncoming(h, code)
        PROVE  Heeded(h)'
    <3>1. rcv'[h] = "dropped" /\ ending' = ending
      BY <1>1, <2>6 DEF DropIncoming
    <3>2. CASE rcv[h] = "failed"
      BY <1>1, <2>6, <3>1, <3>2 DEF DropIncoming, Heeded, Listened, Onward
    <3>3. CASE rcv[h] # "failed"
      <4>1. PICK c \in {"0", NoError, Cancelled} : stop'[h] = StopSending(h, c)
        BY <1>1, <2>6, <3>3 DEF DropIncoming
      <4> QED
        BY <3>1, <4>1, StopSent DEF Heeded
    <3> QED
      BY <3>2, <3>3
  <2> QED
    BY <2>1, <2>2, <2>3, <2>4, <2>5, <2>6 DEF PollFrame
<1> QED
  BY <1>2, <1>3, <1>4, <1>5

LEMMA StepListened == ASSUME IInv, IInv', Listened, Next PROVE Listened'
<1>1. Onward /\ "request" \in Half /\ "response" \in Half
  BY StepOnward DEF Half
<1>2. /\ rcv \in [Half -> {"none", "data", "trailers", "ended", "failed", "dropped"}]
      /\ stop \in [Half -> {"none", "0", NoError, Cancelled}]
      /\ vpc \in {"resolve", "service", "body", "over"}
  BY DEF IInv, HalvesInv, HalvesTyped, Roles, RolesTyped
<1>3. ASSUME UNCHANGED <<rcv, rcvd>> PROVE \A h \in Half : Heeded(h)'
  BY <1>1, <1>3, HeededStays DEF Listened
\* Both bodies are left alone, and so are the client and the task of the server.
<1>4. CASE \/ ClientPull \/ ClientSendOk \/ ClientFinish \/ ClientSendFails
           \/ SpawnBody \/ CancelBody \/ ClientAbort \/ ConnectionLost
  <2>1. /\ UNCHANGED <<rcv, rcvd, vpc>>
        /\ cpc' = cpc \/ (cpc = "eager" /\ cpc' = "awaiting")
    BY <1>4 DEF ClientPull, ClientSendOk, ClientFinish, ClientSendFails, SpawnBody,
       CancelBody, ClientAbort, ConnectionLost, halves, PullFrame, PullEnd, SendOk,
       FinishOk, SenderDropped
  <2>2. Awaited'
    BY <1>1, <2>1 DEF Listened, Awaited, Onward
  <2> QED
    BY <1>3, <2>1, <2>2 DEF Listened
\* The request is over before there is a response body.
<1>5. CASE EagerSendFails \/ RecvResponseFails \/ DropRequestFuture
  <2>1. UNCHANGED <<rcv, rcvd, vpc>> /\ DropBare("response")
    BY <1>5 DEF EagerSendFails, RecvResponseFails, DropRequestFuture
  <2>2. ending["response"] = "open" => stop'["response"] # "none"
    BY <1>1, <1>2, <2>1, StopSent DEF DropBare
  <2>3. Awaited'
    BY <1>1, <2>1, <2>2 DEF Listened, Awaited, Onward
  <2> QED
    BY <1>3, <2>1, <2>3 DEF Listened
\* A body gets its reader.
<1>6. CASE RecvResponse
  <2>1. /\ rcv'["response"] = "data" /\ rcv'["request"] = rcv["request"]
        /\ UNCHANGED <<rcvd, vpc>>
    BY <1>1, <1>2, <1>6 DEF RecvResponse
  <2>2. Heeded("request")'
    BY <1>1, <2>1, HeededStays DEF Listened
  <2>3. Heeded("response")' /\ Awaited'
    BY <1>1, <2>1 DEF Heeded, Listened, Awaited, Onward
  <2> QED
    BY <2>2, <2>3 DEF Listened, Half
<1>7. CASE ResolveRequest
  <2>1. /\ rcv'["request"] = "data" /\ rcv'["response"] = rcv["response"]
        /\ UNCHANGED <<rcvd, cpc>>
    BY <1>1, <1>2, <1>7 DEF ResolveRequest
  <2>2. Heeded("response")'
    BY <1>1, <2>1, HeededStays DEF Listened
  <2>3. Heeded("request")' /\ Awaited'
    BY <1>1, <2>1 DEF Heeded, Listened, Awaited, Onward
  <2> QED
    BY <2>2, <2>3 DEF Listened, Half
\* A reader moves.
<1>8. CASE ClientPollFrame \/ DropResponseBody \/ ServerPollFrame \/ DropRequestBody
  <2>1. /\ UNCHANGED vpc
        /\ cpc' = cpc \/ (cpc = "returned" /\ cpc' = "over")
    BY <1>8 DEF ClientPollFrame, DropResponseBody, ServerPollFrame, DropRequestBody
  <2>2. /\ \A k \in Half : Heeded(k)'
        /\ \A k \in Half : rcv'[k] = "none" <=> rcv[k] = "none"
    BY <1>1, <1>8, ReaderHeeded
    DEF ClientPollFrame, DropResponseBody, ServerPollFrame, DropRequestBody
  <2>3. Awaited'
    BY <1>1, <2>1, <2>2 DEF Listened, Awaited, Onward
  <2> QED
    BY <2>2, <2>3 DEF Listened
\* The task of the server.
<1>9. CASE ServerEndsEarly
  <2>1. /\ UNCHANGED <<rcv, rcvd, cpc>> /\ vpc' = "over"
        /\ vpc = "resolve" => DropBare("request")
    BY <1>9 DEF ServerEndsEarly
  <2>2. vpc = "resolve" /\ ending["request"] = "open" => stop'["request"] # "none"
    BY <1>1, <1>2, <2>1, StopSent DEF DropBare
  <2>3. Awaited'
    BY <1>1, <2>1, <2>2 DEF Listened, Awaited, Onward
  <2> QED
    BY <1>3, <2>1, <2>3 DEF Listened
<1>10. CASE SendResponse \/ ServerSenderStep \/ ServerAbort
  <2>1. UNCHANGED <<rcv, rcvd, cpc>>
    BY <1>10 DEF SendResponse, ServerSenderStep, ServerPull, ServerSendOk, ServerFinish,
       ServerSendFails, ServerAbort, PullFrame, PullEnd, SendOk, FinishOk, SenderDropped
  <2>2. vpc = "service" \/ spc["response"] # "none"
    BY <1>10 DEF SendResponse, ServerSenderStep, ServerPull, ServerSendOk, ServerFinish,
       ServerSendFails, ServerAbort, PullFrame, PullEnd, SendOk, FinishOk, SenderDropped,
       TransportFails, SourceFails
  <2>3. vpc # "resolve"
    BY <2>2 DEF IInv, Roles, Linked
  <2>4. Awaited'
    BY <1>1, <2>1, <2>3 DEF Listened, Awaited, Onward
  <2> QED
    BY <1>3, <2>1, <2>4 DEF Listened
<1> QED
  BY <1>4, <1>5, <1>6, <1>7, <1>8, <1>9, <1>10 DEF Next, ClientSenderStep, ClientStep

\* Flow control never jams, for any window and any bodies: at each send that cannot go
\* on there is a reader that can, with data and not the trailers or the end before it,
\* or one that is still to be handed the body.  Neither end waits for the other.
THEOREM NeverJamsHolds == Spec => []NeverJams
<1>1. Init => Listened
  BY DEF Init, Listened, Awaited, Heeded, Half
<1>2. IInv /\ IInv' /\ Listened /\ [Next]_vars => Listened'
  <2> SUFFICES ASSUME IInv, IInv', Listened, [Next]_vars PROVE Listened'
    OBVIOUS
  <2>1. CASE UNCHANGED vars
    BY <2>1 DEF vars, halves, Listened, Awaited, Heeded, Unread
  <2> QED
    BY <2>1, StepListened
<1>3. ASSUME IInv, Listened, NEW h \in Half, spc[h] = "send", ~lost, stop[h] = "none",
             ~ (sent[h] - rcvd[h] < Window)
      PROVE  \/ rcv[h] = "data" /\ Unread(h) /\ body[h][rcvd[h] + 1] = "data"
             \/ rcv[h] = "none" /\ IF h = "request" THEN vpc = "resolve"
                                   ELSE header /\ cpc \in {"eager", "awaiting"}
  <2>1. /\ sent[h] \in Nat /\ rcvd[h] \in Nat /\ body[h] \in Bodies
        /\ rcv[h] \in {"none", "data", "trailers", "ended", "failed", "dropped"}
    BY <1>3 DEF IInv, HalvesInv, HalvesTyped
  <2>2. ending[h] = "open" /\ sent[h] < Len(body[h])
    BY <1>3 DEF IInv, HalvesInv, Progress, Guarded
  <2>3. rcvd[h] < sent[h]
    BY <1>3, <2>1, WindowAssumption
  <2>4. Len(body[h]) \in Nat
    BY <2>1, BodiesAssumption
  <2>5. body[h][rcvd[h] + 1] \in Frames /\ body[h][sent[h] + 1] \in Frames
    <3>1. rcvd[h] + 1 \in 1 .. sent[h]
      BY <2>1, <2>3
    <3> QED
      BY <1>3, <3>1 DEF IInv, HalvesInv, Progress
  <2>6. body[h][rcvd[h] + 1] = "data"
    <3>1. /\ rcvd[h] + 1 \in 1 .. Len(body[h]) /\ sent[h] + 1 \in 1 .. Len(body[h])
          /\ rcvd[h] + 1 < sent[h] + 1
      BY <2>1, <2>2, <2>3, <2>4
    <3>2. body[h][rcvd[h] + 1] = "trailers" => body[h][sent[h] + 1] \in {"error", "pending"}
      BY <2>1, <3>1, TrailersAssumption
    <3> QED
      BY <2>5, <3>2 DEF Frames
  <2>7. rcv[h] \in {"none", "data"}
    <3>1. Heeded(h) /\ Receiver(h)
      BY <1>3 DEF Listened, IInv, HalvesInv
    <3> QED
      BY <1>3, <2>1, <2>2, <2>6, <3>1 DEF Heeded, Receiver, Eos
  <2>8. CASE rcv[h] = "data"
    BY <2>1, <2>3, <2>6, <2>8 DEF Unread
  <2>9. CASE rcv[h] = "none"
    BY <1>3, <2>2, <2>9 DEF Listened, Awaited, IInv, Roles, Linked, Half
  <2> QED
    BY <2>7, <2>8, <2>9
<1>4. IInv /\ Listened => NeverJams
  BY <1>3 DEF NeverJams
<1> QED
  BY <1>1, <1>2, <1>4, IInvHolds, PTL DEF Spec

-----------------------------------------------------------------------------
(* The upload tests *)

\* What a test fixes, and what its servers and clients do not do.
Scripted ==
    /\ scenario \in Scenarios
    /\ body["request"] = Test[scenario].req
    /\ result \in {"none", "response"}
    /\ lost = FALSE
    /\ cause["request"] # "abort"

\* Who may end the upload before the outcome is known: only the test of the
\* cancelled upload drops its response early, only the ignored body is stopped
\* early, and only one source fails.
Undisturbed ==
    /\ scenario # "cancel" /\ outcome = "none"
          => cpc # "over" /\ cause["request"] # "cancel"
    /\ Route # "/" /\ outcome = "none"
          => stop["request"] = "none" /\ cause["request"] # "transport"
    /\ cause["request"] = "source" => scenario = "body_error"

\* What the handlers know.
Heard ==
    /\ rcv["request"] = "failed" => ending["request"] \in Reset
    /\ Route # "/" /\ outcome # "none"
          => rcv["request"] \in {"ended", "failed", "dropped"}
    /\ Route = "/" =>
        /\ rcv["request"] \in {"none", "data", "dropped"}
        /\ stop["request"] \in {"none", NoError}
        /\ cause["request"] = "transport" => stop["request"] = NoError

TInv == IInv /\ Scripted /\ Undisturbed /\ Heard /\ OutcomeAsserted

-----------------------------------------------------------------------------
\* The four tests.
LEMMA TestFacts ==
    /\ Scenarios = {"body_error", "cancel", "normal", "ignored"}
    /\ Test["body_error"] = ClientBodyError
    /\ Test["cancel"] = ClientCancel
    /\ Test["normal"] = NormalUpload
    /\ Test["ignored"] = IgnoredBody
    /\ \A s \in Scenarios : Test[s].route = "/" <=> s = "ignored"
  BY DEF Scenarios, Test, ClientBodyError, ClientCancel, NormalUpload, IgnoredBody

\* Which bodies fail, and which cannot be sent whole.
LEMMA BodyFacts ==
    ASSUME NEW s \in Scenarios
    PROVE  /\ \A i \in 1 .. Len(Test[s].req) :
                  Test[s].req[i] = "error" => s = "body_error"
           /\ (\A i \in 1 .. Len(Test[s].req) : Test[s].req[i] \in Frames)
                  => s \in {"normal", "ignored"}
<1>1. CASE s = "body_error"
  <2>1. Test[s].req = <<"data", "error">>
    BY <1>1, TestFacts DEF ClientBodyError, FailAfterOneFrame
  <2> QED
    BY <1>1, <2>1 DEF Frames
<1>2. CASE s = "cancel"
  <2>1. Test[s].req = <<"data", "pending">>
    BY <1>2, TestFacts DEF ClientCancel, OneFrameThenPending
  <2> QED
    BY <1>2, <2>1 DEF Frames
<1>3. CASE s = "normal"
  <2>1. Test[s].req = <<"data">>
    BY <1>3, TestFacts DEF NormalUpload
  <2> QED
    BY <1>3, <2>1
<1>4. CASE s = "ignored"
  <2>1. Test[s].req = <<"data", "data", "data">>
    BY <1>4, TestFacts DEF IgnoredBody
  <2> QED
    BY <1>4, <2>1
<1> QED
  BY <1>1, <1>2, <1>3, <1>4, TestFacts

-----------------------------------------------------------------------------
\* A step of a test is a step of the exchange, or only the report of the handler.
LEMMA TestStepIsStep == [TestNext]_testVars => [Next]_vars
<1> SUFFICES ASSUME [TestNext]_testVars PROVE [Next]_vars
  OBVIOUS
<1>1. CASE Report
  BY <1>1 DEF Report
<1>2. CASE ServerStep
  BY <1>2 DEF ServerStep, Reads, Drops, Responds, Next, ServerSenderStep
<1>3. CASE SendsBody
  BY <1>3 DEF SendsBody, Next, ClientSenderStep
<1>4. CASE Response
  BY <1>4 DEF Response, Next, ClientStep
<1>5. CASE UNCHANGED testVars
  BY <1>5 DEF testVars
<1> QED
  BY <1>1, <1>2, <1>3, <1>4, <1>5 DEF TestNext

\* Every run of an upload test is a run of Exchange: its theorems hold in the tests.
THEOREM TestsAreExchanges == TestSpec => Spec
<1>1. TestInit => Init
  BY DEF TestInit
<1>2. [TestNext]_testVars => [Next]_vars
  BY TestStepIsStep
<1> QED
  BY <1>1, <1>2, PTL DEF TestSpec, Spec

-----------------------------------------------------------------------------
\* A step that leaves the upload and its outcome alone keeps the invariant.
LEMMA UploadStays ==
    ASSUME TInv, IInv',
           UNCHANGED <<body, scenario, outcome, lost>>,
           result' \in {"none", "response"},
           cpc' = "over" /\ scenario # "cancel" => cpc = "over" \/ outcome # "none",
           UNCHANGED <<cause["request"], stop["request"], ending["request"],
                       rcv["request"], rcvd["request"]>>
    PROVE  TInv'
<1>1. Scripted'
  BY DEF TInv, Scripted
<1>2. Undisturbed'
  BY DEF TInv, Undisturbed, Route
<1>3. Heard'
  BY DEF TInv, Heard, Route
<1>4. OutcomeAsserted'
  BY DEF TInv, OutcomeAsserted
<1> QED
  BY <1>1, <1>2, <1>3, <1>4 DEF TInv

\* The handler reports the end that it was told.
LEMMA ReportKeeps == ASSUME TInv, IInv', Report PROVE TInv'
<1>1. /\ Route # "/" /\ outcome = "none" /\ rcv["request"] \in {"ended", "failed"}
      /\ outcome' = IF rcv["request"] = "ended" THEN "clean" ELSE ending["request"]
      /\ UNCHANGED <<body, sent, rcvd, ending, stop, spc, guard, cause, rcv, cpc,
                     result, vpc, header, lost, scenario>>
  BY DEF Report, vars, halves
<1>2. "request" \in Half /\ scenario \in Scenarios /\ scenario # "ignored"
  BY <1>1, TestFacts DEF Half, TInv, Scripted, Route
<1>3. /\ stop["request"] = "none"
      /\ cause["request"] \notin {"transport", "abort"}
      /\ cause["request"] = "source" => scenario = "body_error"
      /\ cause["request"] = "cancel" => scenario = "cancel"
  BY <1>1 DEF TInv, Scripted, Undisturbed
<1>4. CASE rcv["request"] = "ended"
  <2>1. rcvd["request"] = Len(body["request"]) /\ cause["request"] = "completed"
    BY <1>2, <1>4, NoTruncationInv DEF TInv, NoTruncation, SeesEnd
  <2>2. \A i \in 1 .. Len(body["request"]) : body["request"][i] \in Frames
    BY <1>2, <2>1 DEF TInv, IInv, HalvesInv, Progress
  <2>3. scenario = "normal"
    BY <1>2, <2>2, BodyFacts DEF TInv, Scripted
  <2>4. outcome' = "clean" /\ Test[scenario].want = "clean"
    BY <1>1, <1>4, <2>3, TestFacts DEF NormalUpload
  <2> QED
    BY <1>1, <1>4, <2>1, <2>4
    DEF TInv, Scripted, Undisturbed, Heard, OutcomeAsserted, Route
<1>5. CASE rcv["request"] = "failed"
  <2>1. ending["request"] \in Reset
    BY <1>5 DEF TInv, Heard
  <2>2. spc["request"] = "over" /\ cause["request"] \notin {"none", "completed"}
    <3>1. "open" \notin Reset /\ "fin" \notin Reset
      BY DEF Reset, Internal, Cancelled
    <3> QED
      BY <1>2, <2>1, <3>1 DEF TInv, IInv, HalvesInv, HalvesTyped, Guarded
  <2>3. cause["request"] \in {"source", "cancel"}
    BY <1>2, <1>3, <2>2 DEF TInv, IInv, HalvesInv, HalvesTyped
  <2>4. ending["request"] = Test[scenario].want
    <3>1. CASE cause["request"] = "source"
      BY <1>2, <1>3, <3>1, TestFacts
      DEF TInv, IInv, HalvesInv, Guarded, ClientBodyError
    <3>2. CASE cause["request"] = "cancel"
      BY <1>2, <1>3, <3>2, TestFacts
      DEF TInv, IInv, HalvesInv, Guarded, ClientCancel
    <3> QED
      BY <2>3, <3>1, <3>2
  <2>5. outcome' = ending["request"] /\ outcome' \notin {"none", "clean"}
    BY <1>1, <1>5, <2>1 DEF Reset, Internal, Cancelled
  <2> QED
    BY <1>1, <1>5, <2>4, <2>5
    DEF TInv, Scripted, Undisturbed, Heard, OutcomeAsserted, Route
<1> QED
  BY <1>1, <1>4, <1>5

\* The server's steps.
LEMMA ServerStepKeeps == ASSUME TInv, IInv', ServerStep PROVE TInv'
<1>1. /\ "request" \in Half /\ "response" \in Half /\ HalvesInv
      /\ UNCHANGED <<scenario, outcome>>
      /\ result \in {"none", "response"}
  BY DEF Half, TInv, IInv, Scripted, ServerStep
<1>2. CASE ResolveRequest
  <2>1. /\ UNCHANGED <<body, rcvd, ending, stop, cause, cpc, result, lost>>
        /\ rcv["request"] = "none" /\ rcv'["request"] = "data"
    BY <1>1, <1>2 DEF ResolveRequest, TInv, IInv, Roles, Linked, HalvesInv, HalvesTyped
  <2> QED
    BY <1>1, <2>1 DEF TInv, Scripted, Undisturbed, Heard, OutcomeAsserted, Route
<1>3. CASE Reads
  <2>1. /\ Route # "/" /\ PollFrame("request")
        /\ UNCHANGED <<body, cpc, result, lost>>
    BY <1>3 DEF Reads, ServerPollFrame
  <2>2. /\ rcv["request"] \in {"data", "trailers"}
        /\ UNCHANGED <<ending, stop, cause>>
        /\ rcv'["request"] = "failed" => lost \/ ending["request"] \in Reset
    BY <1>1, <2>1 DEF PollFrame, PollData, PollDataDone, PollTrailers, PollEnd,
                      PollFails, HalvesInv, HalvesTyped
  <2>3. outcome = "none"
    BY <2>1, <2>2 DEF TInv, Heard
  <2>4. Scripted' /\ Undisturbed' /\ OutcomeAsserted'
    BY <1>1, <2>1, <2>2, <2>3
    DEF TInv, Scripted, Undisturbed, OutcomeAsserted, Route
  <2>5. Heard'
    BY <1>1, <2>1, <2>2, <2>3 DEF TInv, Scripted, Heard, Route
  <2> QED
    BY <2>4, <2>5 DEF TInv
<1>4. CASE Drops
  <2>1. /\ Route = "/" \/ outcome # "none"
        /\ DropIncoming("request", NoError)
        /\ UNCHANGED <<body, rcvd, ending, cause, cpc, result, lost>>
    BY <1>4 DEF Drops, DropRequestBody, DropIncoming
  <2>2. rcv'["request"] = "dropped"
    BY <1>1, <2>1 DEF DropIncoming, HalvesInv, HalvesTyped
  <2>3. Route = "/" => stop'["request"] \in {stop["request"], NoError}
    BY <1>1, <2>1
    DEF DropIncoming, StopSending, TInv, Heard, IInv, Roles, RolesTyped
  <2>4. Scripted' /\ OutcomeAsserted'
    BY <1>1, <2>1 DEF TInv, Scripted, OutcomeAsserted
  <2>5. Undisturbed'
    BY <1>1, <2>1 DEF TInv, Undisturbed, Route
  <2>6. Heard'
    BY <1>1, <2>1, <2>2, <2>3 DEF TInv, Heard, Route
  <2> QED
    BY <2>4, <2>5, <2>6 DEF TInv
<1>5. CASE Responds
  BY <1>1, <1>5, UploadStays DEF Responds, SendResponse
<1>6. CASE ServerPull \/ ServerSendOk \/ ServerFinish
  <2>1. /\ UNCHANGED <<body, rcvd, stop, rcv, cpc, result, lost>>
        /\ UNCHANGED <<ending["request"], cause["request"]>>
    BY <1>1, <1>6 DEF ServerPull, PullFrame, PullEnd, ServerSendOk, SendOk,
                      ServerFinish, FinishOk, HalvesInv, HalvesTyped
  <2> QED
    BY <1>1, <2>1, UploadStays
<1> QED
  BY <1>2, <1>3, <1>4, <1>5, <1>6 DEF ServerStep

\* The steps of the upload.
LEMMA SendsBodyKeeps == ASSUME TInv, IInv', SendsBody PROVE TInv'
<1>1. /\ "request" \in Half /\ HalvesInv /\ scenario' = scenario
      /\ scenario \in Scenarios /\ (Route = "/" <=> scenario = "ignored")
      /\ result \in {"none", "response"} /\ lost = FALSE
      /\ outcome' = IF scenario = "ignored" /\ cause'["request"] = "transport"
                    THEN stop["request"] ELSE outcome
  BY TestFacts DEF Half, TInv, IInv, Scripted, SendsBody, Route
<1>2. ASSUME cause'["request"] = "transport",
             stop["request"] # "none" \/ cause["request"] = "transport",
             UNCHANGED <<stop, rcv, cpc, result, lost>>
      PROVE  /\ scenario = "ignored" => outcome' = NoError
             /\ scenario # "ignored" => outcome' = outcome /\ outcome # "none"
  BY <1>1, <1>2 DEF TInv, Heard, Undisturbed
<1>3. CASE ClientPull \/ ClientSendOk \/ ClientFinish \/ SpawnBody
  <2>1. /\ UNCHANGED <<body, rcvd, stop, rcv, result, lost>>
        /\ cpc' = cpc \/ cpc' = "awaiting"
        /\ \/ UNCHANGED <<cause, ending>>
           \/ /\ cause'["request"] = "completed" /\ cause["request"] = "none"
              /\ ending["request"] = "open"
    BY <1>1, <1>3 DEF ClientPull, PullFrame, PullEnd, ClientSendOk, SendOk,
                      ClientFinish, FinishOk, SpawnBody, halves, HalvesInv,
                      HalvesTyped, Guarded
  <2>2. "open" \notin Reset
    BY DEF Reset, Internal, Cancelled
  <2>3. Scripted' /\ Undisturbed' /\ Heard'
    <3>1. outcome' = outcome \/ (scenario = "ignored" /\ outcome' = NoError)
      BY <1>1, <2>1 DEF TInv, Heard
    <3> QED
      BY <1>1, <2>1, <2>2, <3>1
      DEF TInv, Scripted, Undisturbed, Heard, Route, NoError
  <2>4. OutcomeAsserted'
    <3>1. CASE outcome' = outcome
      BY <1>1, <2>1, <3>1 DEF TInv, OutcomeAsserted
    <3>2. CASE scenario = "ignored" /\ outcome' = stop["request"] /\ outcome' # outcome
      <4>1. outcome' = NoError /\ Test[scenario].want = NoError /\ NoError # "clean"
        BY <1>1, <2>1, <3>2, TestFacts DEF TInv, Heard, IgnoredBody, NoError
      <4> QED
        BY <1>1, <2>1, <4>1 DEF TInv, OutcomeAsserted
    <3> QED
      BY <1>1, <3>1, <3>2
  <2> QED
    BY <2>3, <2>4 DEF TInv
<1>4. CASE CancelBody
  <2>1. /\ UNCHANGED <<body, rcvd, stop, rcv, cpc, result, lost>>
        /\ cpc = "over" /\ cause'["request"] = "cancel" /\ ending["request"] = "open"
    BY <1>1, <1>4 DEF CancelBody, CancelFired, SenderOver, HalvesInv, HalvesTyped,
                      Guarded
  <2>2. outcome' = outcome /\ "open" \notin Reset
    BY <1>1, <2>1 DEF Reset, Internal, Cancelled
  <2>3. Scripted' /\ Heard' /\ OutcomeAsserted'
    BY <1>1, <2>1, <2>2 DEF TInv, Scripted, Heard, OutcomeAsserted, Route
  <2>4. Undisturbed'
    BY <1>1, <2>1, <2>2 DEF TInv, Undisturbed, Route
  <2> QED
    BY <2>3, <2>4 DEF TInv
<1>5. CASE ClientSendFails
  <2>1. /\ UNCHANGED <<body, sent, rcvd, stop, rcv, cpc, result, lost>>
        /\ spc["request"] \in {"select", "send", "finish"}
        /\ \/ TransportFails("request") \/ SourceFails("request")
    BY <1>5 DEF ClientSendFails, TransportFails, SourceFails
  <2>2. ending["request"] = "open" /\ "open" \notin Reset
    BY <1>1, <2>1 DEF HalvesInv, Guarded, Reset, Internal, Cancelled
  <2>3. CASE TransportFails("request")
    <3>1. /\ stop["request"] # "none" /\ cause'["request"] = "transport"
      BY <1>1, <2>3 DEF TransportFails, SenderOver, HalvesInv, HalvesTyped
    <3>2. /\ scenario = "ignored" => outcome' = NoError
          /\ scenario # "ignored" => outcome' = outcome /\ outcome # "none"
      BY <1>2, <2>1, <3>1
    <3>3. Scripted' /\ Undisturbed'
      BY <1>1, <2>1, <3>1, <3>2 DEF TInv, Scripted, Undisturbed, Route, NoError
    <3>4. Heard'
      BY <1>1, <2>1, <2>2, <3>1, <3>2 DEF TInv, Heard, Route
    <3>5. OutcomeAsserted'
      <4>1. Test["ignored"].want = NoError /\ NoError # "clean"
        BY TestFacts DEF IgnoredBody, NoError
      <4> QED
        BY <1>1, <2>1, <3>2, <4>1 DEF TInv, OutcomeAsserted
    <3> QED
      BY <3>3, <3>4, <3>5 DEF TInv
  <2>4. CASE SourceFails("request")
    <3>1. cause'["request"] = "source" /\ NextFrame("request") = "error"
      BY <1>1, <2>4 DEF SourceFails, SenderOver, HalvesInv, HalvesTyped
    <3>2. \E i \in 1 .. Len(body["request"]) : body["request"][i] = "error"
      <4>1. sent["request"] \in Nat /\ Len(body["request"]) \in Nat
        BY <1>1, BodiesAssumption DEF HalvesInv, HalvesTyped
      <4> QED
        BY <3>1, <4>1 DEF NextFrame
    <3>3. scenario = "body_error" /\ outcome' = outcome
      BY <1>1, <3>1, <3>2, BodyFacts DEF TInv, Scripted
    <3>4. Scripted' /\ Undisturbed' /\ OutcomeAsserted'
      BY <1>1, <2>1, <3>1, <3>3
      DEF TInv, Scripted, Undisturbed, OutcomeAsserted, Route
    <3>5. Heard'
      BY <1>1, <2>1, <2>2, <3>1, <3>3 DEF TInv, Heard, Route
    <3> QED
      BY <3>4, <3>5 DEF TInv
  <2> QED
    BY <2>1, <2>3, <2>4
<1> QED
  BY <1>3, <1>4, <1>5 DEF SendsBody

\* The client and its response.
LEMMA ResponseKeeps == ASSUME TInv, IInv', Response PROVE TInv'
<1>1. /\ "request" \in Half /\ "response" \in Half /\ HalvesInv
      /\ UNCHANGED <<scenario, outcome>> /\ result \in {"none", "response"}
  BY DEF Half, TInv, IInv, Scripted, Response
<1>2. CASE RecvResponse
  <2>1. rcv'["request"] = rcv["request"]
    BY <1>1, <1>2 DEF RecvResponse, HalvesInv, HalvesTyped
  <2> QED
    BY <1>1, <1>2, <2>1, UploadStays DEF RecvResponse
<1>3. CASE ClientPollFrame
  <2>1. /\ UNCHANGED <<body, ending, stop, cause, cpc, result, lost>>
        /\ rcv'["request"] = rcv["request"] /\ rcvd'["request"] = rcvd["request"]
    BY <1>1, <1>3 DEF ClientPollFrame, PollFrame, PollData, PollDataDone, PollTrailers,
                      PollEnd, PollFails, HalvesInv, HalvesTyped
  <2> QED
    BY <1>1, <2>1, UploadStays
<1>4. CASE ~HoldsResponse /\ DropResponseBody
  <2>1. /\ UNCHANGED <<body, rcvd, ending, cause, result, lost>>
        /\ rcv'["request"] = rcv["request"] /\ stop'["request"] = stop["request"]
    BY <1>1, <1>4 DEF DropResponseBody, DropIncoming, TInv, IInv, Roles, RolesTyped,
                      HalvesInv, HalvesTyped
  <2>2. scenario # "cancel" => outcome # "none"
    BY <1>4 DEF HoldsResponse
  <2> QED
    BY <1>1, <2>1, <2>2, UploadStays
<1> QED
  BY <1>2, <1>3, <1>4 DEF Response

\* Every upload test passes in every interleaving, for every window: the outcome that
\* is reported is the one that the test asserts.
THEOREM OutcomeAssertedHolds == TestSpec => []OutcomeAsserted
<1>1. TestInit => TInv
  <2> SUFFICES ASSUME TestInit PROVE TInv
    OBVIOUS
  <2>1. IInv /\ "request" \in Half
    BY InitIInv DEF TestInit, Half
  <2>2. body["request"] = Test[scenario].req
    BY DEF TestInit
  <2> QED
    BY <2>1, <2>2
    DEF TestInit, Init, TInv, Scripted, Undisturbed, Heard, OutcomeAsserted
<1>2. TInv /\ [TestNext]_testVars => TInv'
  <2> SUFFICES ASSUME TInv, [TestNext]_testVars PROVE TInv'
    OBVIOUS
  <2>1. IInv'
    BY TestStepIsStep, ClientSenderKeeps, ClientKeeps, ServerKeeps, ServerSenderKeeps,
       QuietKeeps DEF TInv, Next
  <2>2. CASE UNCHANGED testVars
    BY <2>1, <2>2, UploadStays DEF testVars, vars, halves, TInv, Scripted
  <2> QED
    BY <2>1, <2>2, ReportKeeps, ServerStepKeeps, SendsBodyKeeps, ResponseKeeps
    DEF TestNext
<1>3. TInv => OutcomeAsserted
  BY DEF TInv
<1> QED
  BY <1>1, <1>2, <1>3, PTL DEF TestSpec
=============================================================================
