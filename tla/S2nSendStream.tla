--------------------------- MODULE S2nSendStream ---------------------------
(***************************************************************************)
(* The send stream of the s2n-quic adapter: h3 hands it a WriteBuf at a     *)
(* time, poll_ready cuts the buffer into chunks and gives them to the QUIC  *)
(* stream, and poll_finish flushes before it finishes.  A poll is one call  *)
(* that runs its loop step by step; nobody else sees the stream meanwhile.  *)
(*                                                                          *)
(* A suffixed name is a wrong variant of the operator it stands next to.    *)
(***************************************************************************)
EXTENDS Naturals, Sequences

CONSTANTS
    Chunks,      \* contiguous pieces of a WriteBuf
    Writes,      \* the WriteBufs: a frame header, and perhaps a payload
    MaxChunks    \* bound on the chunks written to a stream

ASSUME WritesAssumption == Writes \subseteq Seq(Chunks) \ {<<>>}
ASSUME MaxChunksAssumption == MaxChunks \in Nat

VARIABLES
    hasBuf,   \* buf.is_some()
    rest,     \* what is left in the WriteBuf
    chunk,    \* Option<Bytes>: no chunk, or one that waits to be sent
    wire,     \* what the QUIC stream took
    ended,    \* the QUIC stream: open, finished or reset
    broken,   \* the peer stopped the stream, or the connection is lost
    call,     \* the poll under way
    last      \* what the last call returned

vars == <<hasBuf, rest, chunk, wire, ended, broken, call, last>>

Pending == chunk \o rest

\* h3 calls a stream that is open, and between two polls.
Usable == call = "none" /\ ended = "open"

-----------------------------------------------------------------------------
SendData_overwrites(w) ==
    /\ Usable
    /\ Len(wire) + Len(Pending) + Len(w) <= MaxChunks
    /\ hasBuf' = TRUE
    /\ rest' = w
    /\ last' = "ok"
    /\ UNCHANGED <<chunk, wire, ended, broken, call>>

\* send_data: refused while a buffer is there.
SendData(w) ==
    /\ Usable
    /\ Len(wire) + Len(Pending) + Len(w) <= MaxChunks
    /\ IF hasBuf
       THEN last' = "refused" /\ UNCHANGED <<hasBuf, rest>>
       ELSE last' = "ok" /\ hasBuf' = TRUE /\ rest' = w
    /\ UNCHANGED <<chunk, wire, ended, broken, call>>

Poll(which) ==
    /\ Usable
    /\ call' = which
    /\ last' = "none"
    /\ UNCHANGED <<hasBuf, rest, chunk, wire, ended, broken>>

\* poll_send takes the whole chunk ...
Flush ==
    /\ call # "none"
    /\ chunk # <<>>
    /\ ~broken
    /\ wire' = wire \o chunk
    /\ chunk' = <<>>
    /\ UNCHANGED <<hasBuf, rest, ended, broken, call, last>>

\* ... or has no room, or fails; the chunk stays.
FlushWaits ==
    /\ call # "none"
    /\ chunk # <<>>
    /\ call' = "none"
    /\ last' = IF broken THEN "error" ELSE "pending"
    /\ UNCHANGED <<hasBuf, rest, chunk, wire, ended, broken>>

\* The next chunk is taken out of the buffer.
TakeChunk ==
    /\ call # "none"
    /\ chunk = <<>>
    /\ rest # <<>>
    /\ chunk' = <<Head(rest)>>
    /\ rest' = Tail(rest)
    /\ UNCHANGED <<hasBuf, wire, ended, broken, call, last>>

PollReadyDone_keeps_buf ==
    /\ call = "poll_ready"
    /\ Pending = <<>>
    /\ call' = "none"
    /\ last' = "ready"
    /\ UNCHANGED <<hasBuf, rest, chunk, wire, ended, broken>>

PollReadyDone_one_chunk ==
    /\ call = "poll_ready"
    /\ chunk = <<>>
    /\ hasBuf' = FALSE
    /\ call' = "none"
    /\ last' = "ready"
    /\ UNCHANGED <<rest, chunk, wire, ended, broken>>

\* Nothing is left: the empty buffer is dropped and poll_ready returns.
PollReadyDone ==
    /\ call = "poll_ready"
    /\ Pending = <<>>
    /\ hasBuf' = FALSE
    /\ call' = "none"
    /\ last' = "ready"
    /\ UNCHANGED <<rest, chunk, wire, ended, broken>>

\* The same in poll_finish, which then finishes the stream.
PollFinishDone ==
    /\ call = "poll_finish"
    /\ Pending = <<>>
    /\ hasBuf' = FALSE
    /\ call' = "none"
    /\ IF broken THEN last' = "error" /\ UNCHANGED ended
                 ELSE last' = "ready" /\ ended' = "fin"
    /\ UNCHANGED <<rest, chunk, wire, broken>>

\* reset, at any time between two polls.
ResetStream ==
    /\ Usable
    /\ ended' = "reset"
    /\ last' = "none"
    /\ UNCHANGED <<hasBuf, rest, chunk, wire, broken, call>>

\* The peer sends STOP_SENDING, or the connection is lost.
Break ==
    /\ ~broken
    /\ broken' = TRUE
    /\ UNCHANGED <<hasBuf, rest, chunk, wire, ended, call, last>>

-----------------------------------------------------------------------------
Init ==
    /\ hasBuf = FALSE
    /\ rest = <<>>
    /\ chunk = <<>>
    /\ wire = <<>>
    /\ ended = "open"
    /\ broken = FALSE
    /\ call = "none"
    /\ last = "none"

Next ==
    \/ \E w \in Writes : SendData(w)
    \/ Poll("poll_ready") \/ Poll("poll_finish")
    \/ Flush \/ FlushWaits \/ TakeChunk \/ PollReadyDone \/ PollFinishDone
    \/ ResetStream \/ Break

Spec == Init /\ [][Next]_vars

-----------------------------------------------------------------------------
\* The types; a chunk is taken only out of a buffer that is still there.
TypeOK ==
    /\ hasBuf \in BOOLEAN
    /\ rest \in Seq(Chunks)
    /\ chunk \in Seq(Chunks) /\ Len(chunk) <= 1
    /\ wire \in Seq(Chunks)
    /\ ended \in {"open", "fin", "reset"}
    /\ broken \in BOOLEAN
    /\ call \in {"none", "poll_ready", "poll_finish"}
    /\ last \in {"none", "ok", "refused", "pending", "ready", "error"}
    /\ Pending # <<>> => hasBuf

\* send_data refuses only a caller that did not wait: a write is turned away
\* only while an earlier one is not flushed.
NoSpuriousRefusal == last = "refused" => Pending # <<>>

\* The adapter keeps the promise of a QUIC stream: through buffer, chunk and
\* polls cut short by flow control, everything is delivered once and in order,
\* and the stream is finished only when all of it was.
Pipe == INSTANCE OrderedPipe WITH pending <- Pending, delivered <- wire

ImplementsPipe == Pipe!Spec
=============================================================================
