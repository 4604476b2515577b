------------------------ MODULE S2nConnectionProofs ------------------------
(***************************************************************************)
(* The s2n adapter, for any chunks, any writes and any bound.  First its    *)
(* send stream alone: its invariants, and that every step of it is a step   *)
(* of OrderedPipe.  Then the connection: in it the send stream does only    *)
(* what S2nSendStream says of it alone, so its theorems carry over, and the *)
(* scope of every error is told truly.                                      *)
(***************************************************************************)
EXTENDS S2nConnection, SequenceTheorems, TLAPS

\* What a caller finds between two polls: an empty buffer is never kept.
BufNotEmpty == call = "none" /\ hasBuf => Pending # <<>>

\* A poll runs on an open stream, and has returned nothing yet.
PollsOpen == call # "none" => ended = "open" /\ last = "none"

IInv ==
    /\ TypeOK
    /\ NoSpuriousRefusal
    /\ BufNotEmpty
    /\ PollsOpen

-----------------------------------------------------------------------------
\* Nothing is pending when there is neither a chunk nor a rest.
LEMMA PendingEmpty ==
    ASSUME NEW s \in Seq(Chunks), NEW t \in Seq(Chunks)
    PROVE  s \o t = <<>> <=> s = <<>> /\ t = <<>>
  BY ConcatEqualIffEmpty

\* A chunk and the rest of its buffer make up the buffer.
LEMMA TakeKeepsPending ==
    ASSUME NEW s \in Seq(Chunks), s # <<>>
    PROVE  /\ Head(s) \in Chunks
           /\ Tail(s) \in Seq(Chunks)
           /\ <<Head(s)>> \in Seq(Chunks)
           /\ Len(<<Head(s)>>) = 1
           /\ <<Head(s)>> # <<>>
           /\ <<Head(s)>> \o Tail(s) = s
  OBVIOUS

\* A sequence of one element.
LEMMA Singleton ==
    ASSUME NEW s \in Seq(Chunks), s # <<>>, Len(s) <= 1
    PROVE  s = <<Head(s)>> /\ Head(s) \in Chunks
<1>1. Len(s) = 1 /\ Head(s) \in Chunks
  <2>1. Len(s) \in Nat \ {0}
    OBVIOUS
  <2>2. Head(s) \in Chunks
    OBVIOUS
  <2>3. \A n \in Nat \ {0} : n <= 1 => n = 1
    OBVIOUS
  <2> QED
    BY <2>1, <2>2, <2>3
<1>2. s[1] = Head(s)
  OBVIOUS
<1>3. /\ <<Head(s)>> \in Seq(Chunks) /\ Len(<<Head(s)>>) = 1
      /\ <<Head(s)>>[1] = Head(s)
  BY <1>1
<1> QED
  BY <1>1, <1>2, <1>3, SeqEqual

-----------------------------------------------------------------------------
\* A new stream has neither buffer nor chunk.
LEMMA InitIInv == Init => IInv
<1> SUFFICES ASSUME Init PROVE IInv
  OBVIOUS
<1>1. <<>> \in Seq(Chunks) /\ Len(<<>>) = 0
  OBVIOUS
<1>2. Pending = <<>>
  BY <1>1, PendingEmpty DEF Init, Pending
<1>3. hasBuf \in BOOLEAN /\ broken \in BOOLEAN
  BY Zenon DEF Init
<1>4. TypeOK
  BY <1>1, <1>2, <1>3 DEF Init, TypeOK
<1> QED
  BY <1>2, <1>4
  DEF Init, IInv, NoSpuriousRefusal, BufNotEmpty, PollsOpen

\* Every operation and every step of a poll keeps the invariant.
LEMMA NextIInv == IInv /\ [Next]_vars => IInv'
<1> SUFFICES ASSUME IInv, [Next]_vars PROVE IInv'
  OBVIOUS
<1> USE DEF IInv, NoSpuriousRefusal, BufNotEmpty, PollsOpen
<1>1. /\ rest \in Seq(Chunks) /\ chunk \in Seq(Chunks) /\ wire \in Seq(Chunks)
      /\ <<>> \in Seq(Chunks) /\ Len(<<>>) = 0
  BY DEF TypeOK
<1>2. Pending = <<>> <=> chunk = <<>> /\ rest = <<>>
  BY <1>1, PendingEmpty DEF Pending
<1>3. ASSUME rest' \in Seq(Chunks), chunk' \in Seq(Chunks)
      PROVE  Pending' = <<>> <=> chunk' = <<>> /\ rest' = <<>>
  BY <1>3, PendingEmpty DEF Pending
<1>4. ASSUME NEW w \in Writes, SendData(w) PROVE IInv'
  <2>1. w \in Seq(Chunks) /\ w # <<>>
    BY WritesAssumption
  <2>2. rest' \in Seq(Chunks) /\ chunk' \in Seq(Chunks)
    BY <1>1, <1>4, <2>1 DEF SendData
  <2>3. CASE hasBuf
    BY <1>1, <1>2, <1>3, <1>4, <2>2, <2>3 DEF SendData, TypeOK, Usable
  <2>4. CASE ~hasBuf
    <3>1. hasBuf' \in BOOLEAN
      BY <1>4, <2>4, Zenon DEF SendData
    <3>2. Pending' # <<>> /\ hasBuf' /\ last' = "ok"
      BY <1>3, <1>4, <2>1, <2>2, <2>4 DEF SendData
    <3> QED
      BY <1>1, <1>4, <2>1, <2>2, <2>4, <3>1, <3>2 DEF SendData, TypeOK, Usable
  <2> QED
    BY <2>3, <2>4
<1>5. CASE Poll("poll_ready") \/ Poll("poll_finish")
  BY <1>1, <1>2, <1>3, <1>5 DEF Poll, TypeOK, Usable
<1>6. CASE Flush
  <2>1. wire \o chunk \in Seq(Chunks)
    BY <1>1, ConcatProperties
  <2> QED
    BY <1>1, <1>2, <1>3, <1>6, <2>1 DEF Flush, TypeOK
<1>7. CASE FlushWaits
  BY <1>1, <1>2, <1>3, <1>7 DEF FlushWaits, TypeOK
<1>8. CASE TakeChunk
  <2>1. /\ <<Head(rest)>> \in Seq(Chunks) /\ Len(<<Head(rest)>>) = 1
        /\ <<Head(rest)>> # <<>> /\ Tail(rest) \in Seq(Chunks)
    BY <1>1, <1>8, TakeKeepsPending DEF TakeChunk
  <2> QED
    BY <1>1, <1>2, <1>3, <1>8, <2>1 DEF TakeChunk, TypeOK
<1>9. CASE PollReadyDone
  BY <1>1, <1>2, <1>3, <1>9 DEF PollReadyDone, TypeOK
<1>10. CASE PollFinishDone
  BY <1>1, <1>2, <1>3, <1>10 DEF PollFinishDone, TypeOK
<1>11. CASE ResetStream
  BY <1>1, <1>2, <1>3, <1>11 DEF ResetStream, TypeOK, Usable
<1>12. CASE Break
  BY <1>1, <1>2, <1>3, <1>12 DEF Break, TypeOK
<1>13. CASE UNCHANGED vars
  BY <1>1, <1>2, <1>3, <1>13 DEF vars, TypeOK
<1> QED
  BY <1>4, <1>5, <1>6, <1>7, <1>8, <1>9, <1>10, <1>11, <1>12, <1>13 DEF Next

\* The invariant holds in every reachable state of the send stream.
THEOREM IInvHolds == Spec => []IInv
<1>1. Init => IInv
  BY InitIInv
<1>2. IInv /\ [Next]_vars => IInv'
  BY NextIInv
<1> QED
  BY <1>1, <1>2, PTL DEF Spec

\* The state of the send stream is well typed, and a chunk or a rest is there only
\* while the buffer is kept.
THEOREM TypeCorrect == Spec => []TypeOK
<1>1. IInv => TypeOK
  BY DEF IInv
<1> QED
  BY <1>1, IInvHolds, PTL

\* send_data refuses a write only while an earlier one is not flushed.
THEOREM NoSpuriousRefusalHolds == Spec => []NoSpuriousRefusal
<1>1. IInv => NoSpuriousRefusal
  BY DEF IInv
<1> QED
  BY <1>1, IInvHolds, PTL

-----------------------------------------------------------------------------
\* Every step of the adapter is a step of the pipe or leaves the pipe as it is.
LEMMA StepIsPipeStep ==
    ASSUME IInv, [Next]_vars
    PROVE  [Pipe!Next]_(Pipe!vars)
<1>1. /\ rest \in Seq(Chunks) /\ chunk \in Seq(Chunks) /\ wire \in Seq(Chunks)
      /\ Len(chunk) <= 1 /\ <<>> \in Seq(Chunks)
  BY DEF IInv, TypeOK
<1>2. Pending = <<>> <=> chunk = <<>> /\ rest = <<>>
  BY <1>1, PendingEmpty DEF Pending
<1>3. ASSUME UNCHANGED <<rest, chunk, wire, ended>>
      PROVE  UNCHANGED Pipe!vars
  BY <1>3 DEF Pipe!vars, Pending
<1>4. ASSUME NEW w \in Writes, SendData(w) PROVE [Pipe!Next]_(Pipe!vars)
  <2>1. CASE hasBuf
    BY <1>3, <1>4, <2>1 DEF SendData
  <2>2. CASE ~hasBuf
    <3>1. chunk = <<>> /\ rest = <<>>
      BY <1>2, <2>2 DEF IInv, TypeOK
    <3>2. w \in Seq(Chunks)
      BY WritesAssumption
    <3>3. Pending = <<>> /\ Pending' = w
      BY <1>4, <2>2, <3>1, <3>2, ConcatEmptySeq DEF SendData, Pending
    <3>4. Pending' = Pending \o w
      BY <3>2, <3>3, ConcatEmptySeq
    <3>5. Pipe!Write
      BY <1>4, <3>4 DEF SendData, Usable, Pipe!Write
    <3> QED
      BY <3>5 DEF Pipe!Next
  <2> QED
    BY <2>1, <2>2
<1>5. CASE Poll("poll_ready") \/ Poll("poll_finish")
  BY <1>3, <1>5 DEF Poll
<1>6. CASE Flush
  <2>1. chunk = <<Head(chunk)>> /\ Head(chunk) \in Chunks
    BY <1>1, <1>6, Singleton DEF Flush
  <2>2. Pending # <<>> /\ Head(Pending) = Head(chunk) /\ Tail(Pending) = rest
    <3>1. ASSUME NEW e \in Chunks, NEW t \in Seq(Chunks)
          PROVE  /\ Head(<<e>> \o t) = e /\ Tail(<<e>> \o t) = t
                 /\ <<e>> \o t # <<>>
      OBVIOUS
    <3> QED
      BY <1>1, <2>1, <3>1 DEF Pending
  <2>3. Pending' = rest
    BY <1>1, <1>6, ConcatEmptySeq DEF Flush, Pending
  <2>4. wire' = Append(wire, Head(Pending))
    <3>1. ASSUME NEW s \in Seq(Chunks), NEW e \in Chunks
          PROVE  s \o <<e>> = Append(s, e)
      OBVIOUS
    <3> QED
      BY <1>1, <1>6, <2>1, <2>2, <3>1 DEF Flush
  <2>5. Pipe!Deliver
    BY <1>6, <2>2, <2>3, <2>4 DEF Flush, IInv, PollsOpen, Pipe!Deliver
  <2> QED
    BY <2>5 DEF Pipe!Next
<1>7. CASE FlushWaits
  BY <1>3, <1>7 DEF FlushWaits
<1>8. CASE TakeChunk
  <2>1. Pending' = Pending
    BY <1>1, <1>8, TakeKeepsPending, ConcatEmptySeq DEF TakeChunk, Pending
  <2> QED
    BY <1>8, <2>1 DEF TakeChunk, Pipe!vars
<1>9. CASE PollReadyDone
  BY <1>3, <1>9 DEF PollReadyDone
<1>10. CASE PollFinishDone
  <2>1. Pending' = Pending /\ Pending = <<>>
    BY <1>10 DEF PollFinishDone, Pending
  <2>2. CASE broken
    BY <1>3, <1>10, <2>2 DEF PollFinishDone
  <2>3. CASE ~broken
    BY <1>10, <2>1, <2>3 DEF PollFinishDone, IInv, PollsOpen, Pipe!Finish, Pipe!Next
  <2> QED
    BY <2>2, <2>3
<1>11. CASE ResetStream
  BY <1>11 DEF ResetStream, Usable, Pending, Pipe!Reset, Pipe!Next
<1>12. CASE Break
  BY <1>3, <1>12 DEF Break
<1>13. CASE UNCHANGED vars
  BY <1>3, <1>13 DEF vars
<1> QED
  BY <1>4, <1>5, <1>6, <1>7, <1>8, <1>9, <1>10, <1>11, <1>12, <1>13 DEF Next

\* The adapter implements the ordered pipe, whatever is written, however flow
\* control cuts it up, and wherever the stream breaks.
THEOREM AdapterImplementsPipe == Spec => ImplementsPipe
<1>1. Init => Pipe!Init
  <2>1. ASSUME Init PROVE Pending = <<>>
    BY <2>1 DEF Init, Pending
  <2> QED
    BY <2>1 DEF Init, Pipe!Init
<1>2. IInv /\ [Next]_vars => [Pipe!Next]_(Pipe!vars)
  BY StepIsPipeStep
<1> QED
  BY <1>1, <1>2, IInvHolds, PTL DEF Spec, ImplementsPipe, Pipe!Spec

-----------------------------------------------------------------------------
\* What a poll has before it: each chunk is taken and flushed, and the stream
\* breaks at most once meanwhile.
PollWork == 2 * Len(rest) + Len(chunk) + IF broken THEN 0 ELSE 1

\* The loop of poll_ready and poll_finish ends, however many chunks the buffer has:
\* each step of a poll ends it or leaves less to do.
THEOREM PollShrinks ==
    Spec => /\ [](PollWork \in Nat)
            /\ [][call # "none" => call' = "none" \/ PollWork' < PollWork]_vars
<1>1. IInv => PollWork \in Nat
  BY DEF IInv, TypeOK, PollWork
<1>2. IInv /\ [Next]_vars
        => [call # "none" => call' = "none" \/ PollWork' < PollWork]_vars
  <2> SUFFICES ASSUME IInv, Next, call # "none", call' # "none"
               PROVE  PollWork' < PollWork
    OBVIOUS
  <2>1. rest \in Seq(Chunks) /\ chunk \in Seq(Chunks) /\ broken \in BOOLEAN
    BY DEF IInv, TypeOK
  <2>2. CASE Flush
    <3>1. Len(chunk) > 0 /\ Len(chunk') = 0
      BY <2>1, <2>2 DEF Flush
    <3> QED
      BY <2>1, <2>2, <3>1 DEF Flush, PollWork
  <2>3. CASE TakeChunk
    <3>1. Len(rest) > 0 /\ Len(rest') = Len(rest) - 1 /\ Len(chunk) = 0
          /\ Len(chunk') = 1
      BY <2>1, <2>3 DEF TakeChunk
    <3> QED
      BY <2>1, <2>3, <3>1 DEF TakeChunk, PollWork
  <2>4. CASE Break
    BY <2>1, <2>4 DEF Break, PollWork
  <2> QED
    BY <2>2, <2>3, <2>4 DEF Next, SendData, Poll, Usable, FlushWaits, PollReadyDone,
       PollFinishDone, ResetStream
<1> QED
  BY <1>1, <1>2, IInvHolds, PTL DEF Spec

-----------------------------------------------------------------------------
(* The connection *)

\* Every step of the connection is a step of its send stream or none.
LEMMA ConnStepIsStreamStep == [ConnNext]_allVars => [Next]_vars
<1> SUFFICES ASSUME [ConnNext]_allVars PROVE [Next]_vars
  OBVIOUS
<1>1. CASE UNCHANGED vars
  BY <1>1
<1>2. ASSUME Broken PROVE [Next]_vars
  BY <1>2 DEF Broken, Next
<1>3. CASE PollAccept \/ PollOpen \/ PollData \/ StopSending \/ PeerSends
  BY <1>1, <1>3 DEF PollAccept, PollOpen, PollData, StopSending, PeerSends
<1>4. CASE Close \/ PeerStops \/ ConnectionEnds
  BY <1>2, <1>4 DEF Close, PeerStops, ConnectionEnds
<1>5. CASE SendHalf
  BY <1>5 DEF SendHalf, Next
<1>6. CASE UNCHANGED allVars
  BY <1>1, <1>6 DEF allVars
<1> QED
  BY <1>3, <1>4, <1>5, <1>6 DEF ConnNext

\* The adapter's connection implements its send stream: what is proved of the
\* stream alone holds of it in the connection, STOP_SENDING and loss included.
THEOREM ConnectionImplementsStream == ConnSpec => Spec
<1>1. ConnInit => Init
  BY DEF ConnInit
<1>2. [ConnNext]_allVars => [Next]_vars
  BY ConnStepIsStreamStep
<1> QED
  BY <1>1, <1>2, PTL DEF ConnSpec, Spec

-----------------------------------------------------------------------------
CInv == over \in Reasons \cup {"alive"} /\ ErrorTellsScope

\* What a conversion yields tells the scope.
LEMMA Conversions ==
    /\ \A e \in Reasons : convert_stream_error(e) = convert_connection_error(e)
    /\ \A e \in Reasons :
        /\ convert_connection_error(e) \in ConnectionErrors
        /\ convert_connection_error(e) = "Timeout" => e = "IdleTimerExpired"
        /\ convert_connection_error(e) = "ApplicationClose" => e = "Application"
    /\ convert_stream_error("StreamReset") = "StreamTerminated"
    /\ "StreamTerminated" \notin ConnectionErrors
    /\ "Unknown" \notin ConnectionErrors
    /\ "end" \notin ConnectionErrors
    /\ \A r \in {"none", "data", "stream", "end"} : r \notin ConnectionErrors
  BY DEF convert_stream_error, convert_connection_error, Reasons, ConnectionErrors

\* A half of the stream reports nothing but the two scopes.
LEMMA StreamErrorScope ==
    ASSUME NEW p \in BOOLEAN, over \in Reasons \cup {"alive"},
           NEW e \in StreamErrors(p)
    PROVE  \/ convert_stream_error(e) = "StreamTerminated" /\ p
           \/ /\ over # "alive"
              /\ convert_stream_error(e) = convert_connection_error(over)
              /\ convert_stream_error(e) \in ConnectionErrors
<1>1. CASE e = "StreamReset" /\ p
  BY <1>1, Conversions
<1>2. CASE e = over /\ over # "alive"
  <2>1. over \in Reasons
    BY <1>2
  <2> QED
    BY <1>2, <2>1, Conversions
<1> QED
  BY <1>1, <1>2 DEF StreamErrors

LEMMA NextCInv ==
    ASSUME CInv, NoSpuriousRefusal', stopped \in BOOLEAN, [ConnNext]_allVars
    PROVE  CInv'
<1> USE DEF CInv
<1>1. CASE PollAccept \/ PollOpen
  <2>1. /\ over' = over /\ peer' = peer /\ stopped' = stopped
        /\ \/ over = "alive" /\ report' = "stream"
           \/ /\ over \in Reasons
              /\ report' \in {convert_connection_error(over), "InternalError"}
    BY <1>1 DEF PollAccept, PollOpen
  <2>2. CASE over = "alive" /\ report' = "stream"
    BY <2>1, <2>2, Conversions DEF ErrorTellsScope
  <2>3. CASE /\ over \in Reasons
             /\ report' \in {convert_connection_error(over), "InternalError"}
    <3>1. report' \in ConnectionErrors /\ over # "alive"
      BY <2>3, Conversions DEF Reasons, ConnectionErrors
    <3> QED
      BY <2>1, <2>3, <3>1, Conversions DEF ErrorTellsScope, ConnectionErrors
  <2> QED
    BY <2>1, <2>2, <2>3
<1>2. CASE Close \/ StopSending
  <2>1. report' = "none" /\ over' \in Reasons \cup {"alive"}
    BY <1>2 DEF Close, StopSending, Reasons
  <2> QED
    BY <2>1, Conversions DEF ErrorTellsScope
<1>3. CASE SendHalf
  <2>1. over' = over /\ peer' = peer /\ stopped' = stopped
    BY <1>3 DEF SendHalf
  <2>2. CASE last' = "error"
    <3>1. PICK e \in StreamErrors(stopped) : report' = convert_stream_error(e)
      BY <1>3, <2>2 DEF SendHalf
    <3>2. over = "alive" \/ over \in Reasons
      OBVIOUS
    <3> QED
      BY <2>1, <3>1, <3>2, StreamErrorScope, Conversions DEF ErrorTellsScope,
         ConnectionErrors
  <2>3. CASE last' = "refused"
    <3>1. report' = "InternalError" /\ Pending' # <<>>
      BY <1>3, <2>3 DEF SendHalf, NoSpuriousRefusal
    <3> QED
      BY <2>1, <2>3, <3>1 DEF ErrorTellsScope
  <2>4. CASE last' \notin {"error", "refused"}
    <3>1. report' = "none"
      BY <1>3, <2>4 DEF SendHalf
    <3> QED
      BY <2>1, <3>1, Conversions DEF ErrorTellsScope
  <2> QED
    BY <2>2, <2>3, <2>4
<1>4. CASE PollData
  <2>1. over' = over /\ peer' = peer /\ stopped' = stopped
    BY <1>4 DEF PollData
  <2>2. \/ report' = "data"
        \/ report' = "end" /\ peer = "fin"
        \/ report' = convert_stream_error("StreamReset") /\ peer = "reset"
        \/ report' = convert_stream_error(over) /\ over # "alive"
    BY <1>4 DEF PollData, StreamErrors
  <2>3. over = "alive" \/ over \in Reasons
    OBVIOUS
  <2>4. over # "alive" => /\ convert_stream_error(over) = convert_connection_error(over)
                          /\ convert_connection_error(over) \in ConnectionErrors
    BY Conversions
  <2> QED
    BY <2>1, <2>2, <2>3, <2>4, Conversions DEF ErrorTellsScope, ConnectionErrors
<1>5. CASE PeerSends
  <2>1. /\ over = "alive" /\ over' = over /\ report' = report /\ last' = last
        /\ stopped' = stopped /\ Pending' = Pending /\ peer = "sending"
    BY <1>5 DEF PeerSends, vars, Pending
  <2> QED
    BY <2>1 DEF ErrorTellsScope
<1>6. CASE PeerStops \/ ConnectionEnds
  <2>1. /\ over = "alive" /\ over' \in Reasons \cup {"alive"}
        /\ report' = report /\ peer' = peer /\ (stopped => stopped')
    BY <1>6 DEF PeerStops, ConnectionEnds
  <2>2. last' = last /\ Pending' = Pending
    BY <1>6 DEF PeerStops, ConnectionEnds, Broken, Break, vars, Pending
  <2> QED
    BY <2>1, <2>2 DEF ErrorTellsScope
<1>7. CASE UNCHANGED allVars
  <2>1. /\ over' = over /\ report' = report /\ peer' = peer /\ stopped' = stopped
        /\ last' = last /\ Pending' = Pending
    BY <1>7 DEF allVars, connVars, vars, Pending
  <2> QED
    BY <2>1 DEF ErrorTellsScope
<1> QED
  BY <1>1, <1>2, <1>3, <1>4, <1>5, <1>6, <1>7 DEF ConnNext

\* h3 hears the truth about the scope of every failure: only a connection that is
\* over, or a write out of turn, makes the client retire the connection.
THEOREM ErrorTellsScopeHolds == ConnSpec => []ErrorTellsScope
<1>1. ConnInit => CInv /\ stopped \in BOOLEAN
  BY Conversions DEF ConnInit, CInv, ErrorTellsScope
<1>2. stopped \in BOOLEAN /\ [ConnNext]_allVars => (stopped \in BOOLEAN)'
  BY DEF ConnNext, allVars, connVars, PollAccept, PollOpen, Close, SendHalf, PollData,
         StopSending, PeerSends, PeerStops, ConnectionEnds
<1>3. CInv /\ stopped \in BOOLEAN /\ NoSpuriousRefusal' /\ [ConnNext]_allVars => CInv'
  BY NextCInv
<1>4. ConnSpec => []NoSpuriousRefusal
  BY ConnectionImplementsStream, NoSpuriousRefusalHolds, PTL
<1>5. CInv => ErrorTellsScope
  BY DEF CInv
<1> QED
  BY <1>1, <1>2, <1>3, <1>4, <1>5, PTL DEF ConnSpec
=============================================================================
