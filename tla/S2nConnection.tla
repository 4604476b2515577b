---------------------------- MODULE S2nConnection ----------------------------
(***************************************************************************)
(* The s2n-quic adapter as a whole: a connection with one bidirectional     *)
(* stream, whose sending half is that of S2nSendStream.  The adapter holds  *)
(* no state of its own here; what matters is what it makes of the errors of *)
(* s2n-quic, because h3 and then is_connection_closing (RequestSender) tell *)
(* by them whether a stream or its connection is over.                      *)
(*                                                                          *)
(* A suffixed name is a wrong variant of the operator it stands next to.    *)
(***************************************************************************)
EXTENDS S2nSendStream

VARIABLES
    over,      \* the QUIC connection: alive, or why it ended
    stopped,   \* the peer sent STOP_SENDING
    peer,      \* the peer's half of the stream: sending, fin or reset
    arrived,   \* data of the peer that was not received yet
    reading,   \* stop_sending was not called
    report     \* what the last call of the adapter told h3

connVars == <<over, stopped, peer, arrived, reading, report>>
allVars  == <<vars, connVars>>

\* s2n_quic::connection::Error
Reasons == {"Application", "IdleTimerExpired", "Closed", "Transport"}

-----------------------------------------------------------------------------
(* The conversions *)

convert_connection_error(e) ==
    CASE e = "Application" -> "ApplicationClose"
      [] e = "IdleTimerExpired" -> "Timeout"
      [] e = "Closed" -> "InternalError"
      [] OTHER -> "Undefined"

ConnectionErrors == {"ApplicationClose", "Timeout", "InternalError", "Undefined"}

convert_stream_error_flat(e) ==
    IF e = "StreamReset" \/ e \in Reasons THEN "StreamTerminated" ELSE "Unknown"

\* A connection error inside a stream error stays one.
convert_stream_error(e) ==
    CASE e = "StreamReset" -> "StreamTerminated"
      [] e \in Reasons -> convert_connection_error(e)
      [] OTHER -> "Unknown"

\* What s2n-quic may answer on a half of the stream that the peer ended, or whose
\* connection is over.
StreamErrors(ended_by_peer) ==
    (IF ended_by_peer THEN {"StreamReset"} ELSE {}) \cup ({over} \ {"alive"})

-----------------------------------------------------------------------------
(* Connection and OpenStreams *)

\* poll_accept_bidi and poll_accept_recv: a connection that is over yields its
\* error or Ok(None), as s2n-quic chooses, and the adapter makes an error of both.
PollAccept ==
    /\ IF over = "alive" THEN report' = "stream"
       ELSE report' \in {convert_connection_error(over), "InternalError"}
    /\ UNCHANGED <<vars, over, stopped, peer, arrived, reading>>

\* poll_open_bidi and poll_open_send.
PollOpen ==
    /\ report' = IF over = "alive" THEN "stream" ELSE convert_connection_error(over)
    /\ UNCHANGED <<vars, over, stopped, peer, arrived, reading>>

Broken == IF broken THEN UNCHANGED vars ELSE Break

\* close, by either handle.
Close ==
    /\ over = "alive"
    /\ over' = "Closed"
    /\ report' = "none"
    /\ Broken
    /\ UNCHANGED <<stopped, peer, arrived, reading>>

-----------------------------------------------------------------------------
(* BidiStream: both halves forward. *)

SendHalf ==
    /\ \/ \E w \in Writes : SendData(w)
       \/ Poll("poll_ready") \/ Poll("poll_finish")
       \/ Flush \/ FlushWaits \/ TakeChunk \/ PollReadyDone \/ PollFinishDone
       \/ ResetStream
    /\ CASE last' = "error" ->
              \E e \in StreamErrors(stopped) : report' = convert_stream_error(e)
         [] last' = "refused" -> report' = "InternalError"
         [] OTHER -> report' = "none"
    /\ UNCHANGED <<over, stopped, peer, arrived, reading>>

\* RecvStream::poll_data: data, the end, or an error.
PollData ==
    /\ reading
    /\ \/ /\ arrived
          /\ peer # "reset" /\ over = "alive"
          /\ arrived' = FALSE
          /\ report' = "data"
       \/ /\ peer = "fin" /\ ~arrived /\ over = "alive"
          /\ report' = "end"
          /\ UNCHANGED arrived
       \/ /\ \E e \in StreamErrors(peer = "reset") : report' = convert_stream_error(e)
          /\ UNCHANGED arrived
    /\ UNCHANGED <<vars, over, stopped, peer, reading>>

StopSending ==
    /\ reading
    /\ reading' = FALSE
    /\ report' = "none"
    /\ UNCHANGED <<vars, over, stopped, peer, arrived>>

-----------------------------------------------------------------------------
(* The peer and the transport *)

PeerSends ==
    /\ over = "alive"
    /\ peer = "sending"
    /\ \/ ~arrived /\ arrived' = TRUE /\ UNCHANGED peer
       \/ peer' \in {"fin", "reset"} /\ UNCHANGED arrived
    /\ UNCHANGED <<vars, over, stopped, reading, report>>

PeerStops ==
    /\ over = "alive"
    /\ ~stopped
    /\ stopped' = TRUE
    /\ Broken
    /\ UNCHANGED <<over, peer, arrived, reading, report>>

\* The peer closes, the idle timer expires, or the transport fails.
ConnectionEnds ==
    /\ over = "alive"
    /\ over' \in Reasons
    /\ Broken
    /\ UNCHANGED <<stopped, peer, arrived, reading, report>>

-----------------------------------------------------------------------------
ConnInit ==
    /\ Init
    /\ over = "alive" /\ stopped = FALSE /\ peer = "sending" /\ arrived = FALSE
    /\ reading = TRUE /\ report = "none"

ConnNext ==
    \/ PollAccept \/ PollOpen \/ Close
    \/ SendHalf \/ PollData \/ StopSending
    \/ PeerSends \/ PeerStops \/ ConnectionEnds

ConnSpec == ConnInit /\ [][ConnNext]_allVars

-----------------------------------------------------------------------------
\* h3 hears the truth about the scope of a failure.  A connection error, which
\* makes RequestSender retire the connection with all its requests, means that the
\* connection is over, or that h3 wrote before its last write was flushed; a
\* timeout was one, and a close with a code came from the peer; a terminated stream
\* was ended by the peer; nothing is reported as unknown; and the loss of the
\* connection never passes for the end of a body.
ErrorTellsScope ==
    /\ report \in ConnectionErrors =>
        \/ over # "alive"
        \/ report = "InternalError" /\ last = "refused" /\ Pending # <<>>
    /\ report = "Timeout" => over = "IdleTimerExpired"
    /\ report = "ApplicationClose" => over = "Application"
    /\ report = "StreamTerminated" => stopped \/ peer = "reset"
    /\ report = "end" => peer = "fin"
    /\ report # "Unknown"
=============================================================================
