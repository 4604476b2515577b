# A TLA+ model of tonic-h3

tonic-h3 runs gRPC (tonic) and HTTP (axum) over HTTP/3. This directory holds
TLA+ modules for the parts of it that carry its own logic, TLC configurations
that check them on small instances, and proofs, checked by TLAPS, of what
matters most for every instance. `PROJECT.json` maps every definition to the
lines it models and lists runs, hazards, findings and theorems.

## 1. The system

| Component | State | Operations | Correct when |
|---|---|---|---|
| `RequestSender` (h3-util/src/client_conn.rs) | cached `SendRequest`, receiver of its driver's end, connect future, deferred connect error, "closing" flag of the current connection generation, base URI | `poll_ready` (retire, connect), `call`, the request future `send_request_inner` | a stale connection is replaced, a healthy one is kept, no failure is terminal, `poll_ready`'s assertions hold |
| `H3Channel`, `H3Connection`, `H3Client` (client.rs) | a bounded queue and a worker task of tower's `Buffer` | reserve, enqueue, await; worker: poll, call, hand back | every request is answered once; an error reaches the request it belongs to |
| Body senders (client_body.rs, server_body.rs) and `SendResetGuard` (send_guard.rs) | send half, guard (armed, code), cancel receiver | pull a frame, send it, finish; cancel; drop | a truncated body never looks complete; the reset code says why |
| Incoming bodies (same files) | `data_done`, `finished` | `poll_frame`, `Drop` | early drop sends STOP_SENDING with a code of HTTP/3 |
| axum-h3 server (axum-h3/src/lib.rs) | accept loop, a task per connection and per request | accept, shutdown, `serve_request` | only its owner stops it; shutdown ends it; a request that hangs holds up no other |
| quinn acceptor (quinn/server.rs) | `JoinSet` of handshakes | `select_conn`, `accept` | a stalled or failed handshake holds up nobody |
| s2n adapter (s2n/s2n_quic_h3/s2n_quic.rs) | `buf`, `chunk` of a send stream | `send_data`, `poll_ready`, `poll_finish`, `reset`; accept, open, receive, close; conversion of errors | bytes in order, none lost, finish last; an error tells whether the stream or the connection is over |
| Connectors (quinn, s2n, quiche, msquic), `dns_resolve` | the list of addresses, the place in it, the last error | try the addresses of a name in turn | fails only if every address fails |
| Other acceptors | msquic: a listener under a mutex | `accept`, `shutdown` | shutdown is not held up by accept; a failing client is not an accept error |
| Integration tests (tonic-h3-tests) | the servers, clients, connectors and bodies that they inject; endpoints and msquic registrations | start, stop, rebind, probe, assert | they pass in every interleaving; taking down ends and frees what it should |
| tonic-h3, `SharedExec` | none | forwarding | - |
| tests/bench | counters, histograms | load generation, measurement | every request is counted once |

**Interaction.** A handle of `H3Channel` puts a request into the buffer. The
worker polls the `RequestSender`, which dials through a connector and spawns the
h3 driver in a task of its own, and calls it; the request future goes back to
the handle, which runs it in its own task. The future clones the cached sender
and the current flag, sends headers, polls the body sender once, detaches it if
it is pending, and returns a response body that owns the cancel switch of the
upload. On the server the accept loop spawns a task for each connection, and that
one a task for each request. Between the ends are QUIC streams with flow
control, RESET_STREAM, STOP_SENDING, GOAWAY and loss of the connection.

**What is hard.** Request futures of several connection generations report
errors at any time and in any order. A GOAWAY does not end the driver, so it is
noticed only through a rejected request. A future or task may be dropped at any
await. An upload and its response are in flight together, and each side may
stop, fail or vanish at any time. Errors are deferred from one call to another,
in a service shared by many handles. Detached tasks are joined by nobody.

## 2. Modules

    RequestReply                 OrderedPipe                  BodyDelivery
      ^ refined by                 ^ refined by (proved)        ^ refined by (proved)
    H3Channel                    S2nSendStream                Exchange
      | EXTENDS                    ^ EXTENDED by                ^ EXTENDED by
    RequestSender                S2nConnection                UploadTests

    ClientTests -EXTENDS-> H3Channel        Server        Connect        Teardown

The proofs are in `RequestSenderProofs`, `H3ChannelProofs`, `ClientTestsProofs` (each
extends the one before), `ExchangeProofs` (exchange and upload tests),
`S2nConnectionProofs` (stream and connection), `ServerProofs`, `ConnectProofs` and
`TeardownProofs`.
`MC_*` modules give the larger constants for TLC.

An operator with a suffix (`retire_flag_reused`, `NewGuard_disarmed`) is a
deliberately wrong variant of the operator it precedes. It is in no
specification; it is used to show that a property notices the mistake.

### RequestSender

Models client_conn.rs. A variable stands for each field of the struct
(`sendRequest`, `driverRx`, `makeFut`, `connectError`, `closing`, `baseUriOk`),
one for the value behind each `Arc<AtomicBool>` (`flag`), three for each request
future (`req`, `reqConn`, `reqFlag`); `ready` is the caller's side of the tower
contract. `PollReady` is the whole of `poll_ready`: retirement first, then one of
its four ends. `Call` is the whole of `call`, with its branches in order. The
steps of a request future are `SendHeader`, `SendHeaderFails`, `EagerBodyFails`,
`RecvResponse`, `RecvResponseFails`, `DropRequest`.

Environment: `conn` (live, goaway, closed) and `driver` of each h3 connection,
and what h3 0.0.8 reports for each state. Errors are told apart by what they
display, as in the code.

Connections and flags are heap objects: an identifier is free again when nothing
refers to it. The sender can therefore reconnect for ever in a finite model, and
the generation tag is tested under reuse of its identity. URI rebuilding is
reduced to "the base URI is complete or not". Callers may ignore the contract
and call without being ready.

### H3Channel and RequestReply

tower's `Buffer` is a library, modelled from how client.rs uses it: a permit is
taken before a request is enqueued, the worker takes requests in order, skips
those whose future is gone, keeps the one in hand while `poll_ready` is pending,
and calls. `poll_ready` never returns an error here, which is the point of the
deferred `connect_error`. `RequestReply` is what users rely on: a request handed
in is answered once unless its user drops it. The refinement mapping reads a
request as pending while it is queued or its future runs.

### Exchange

One request and its response at both ends. For each half, `sent` and `rcvd`
count frames of a body fixed at the start; `ending` is how the half ended for
its receiver; `stop` is a STOP_SENDING; `guard` is the `SendResetGuard`; `rcv` is
the incoming body's state. `cause` and `result` are history. The two senders
share one loop (`PullFrame`, `SendOk`, `FinishOk`, ...) and differ where the code
does: the client looks at `cancel` before each frame, is polled eagerly once, and
its error then either fails the request (`res?`) or is logged. The two incoming
bodies differ in the code of their `Drop`. `Window` frames fit into flow control
before the receiver reads. A send half dropped without an armed guard is
finished by the transport, which is why the guard exists; a receive half dropped
bare sends code 0.

`BodyDelivery` is what the two ends may rely on for each half: its fate is decided
once, whole or cut short with a code; the receiver is given the frames in order,
trailers and the end only of a message whose fate is to be whole. The mapping reads
`ending` as the fate, except that a response whose headers were never sent has none,
and the receiver's verdict off `rcv`. Bodies are arbitrary sequences; the one
assumption is the contract of `http_body::Body` that no frame follows the trailers
(an error or a stall may).

QUIC delivers a STOP_SENDING late: a send may still succeed after the peer
stopped. `finish` on a stopped stream may succeed or fail, which covers all four
transports.

### Server

The accept loop with each kind of acceptor: quinn's, with its `JoinSet` of
handshakes, and the others, whose libraries run the handshakes inside and report
only those that succeed. A closed endpoint yields `None`; the accept of quiche_h3
and msquic_h3 may also fail, which is the third way out of the loop. `hs` follows a connection through the acceptor; `task` and `request` are the detached
tasks.
`Return` includes what dropping the acceptor does to the `JoinSet`. A connection
task that ends drops its connection, which closes it. The inside of a request
task is `Exchange`. Nothing in the code limits the time of a request: headers may
never come, a handler never return, a client never read, and the task then stays
for ever. So no request is said to end; what is said is that it keeps no other from
being taken up. After a shutdown, connection and request tasks go on
(docs/deferred/README.md, SF-2); nothing is claimed about draining.

### S2nSendStream and OrderedPipe

`poll_ready` is a loop that alternates between flushing a chunk and taking the
next one out of the buffer; the model takes one step for each, and a poll ends
pending, ready or in error. `poll_finish` runs the same loop first. `OrderedPipe`
is what h3 expects of a QUIC send stream.

### S2nConnection

EXTENDS `S2nSendStream`: the rest of the adapter, a connection with one
bidirectional stream. It keeps no state of its own; the module follows what its
two conversions make of s2n-quic's errors, since h3, and behind it
`is_connection_closing` of client_conn.rs, decide by them whether to give up a
stream or the connection. `report` is what the last call told h3. An accept that
yields no stream is reported as an internal error, whatever ended the connection,
an accept that fails by the reason. The library
and the peer (`PeerSends`, `PeerStops`, `ConnectionEnds`) are external.

### Connect

One connect attempt: `dns_resolve`, then the loop over the addresses. `kind`
chooses the connector; quinn and quiche may refuse an address at once, s2n may
leave the loop by the `?` on `keep_alive`, msquic has no loop and unwraps host
and port. An address in `stable` always answers; any other may fail or succeed
each time. `errs` is history. In `RequestSender` the whole attempt is the future
behind `makeFut`.

### Teardown

`reconnect_test` with the servers and clients of tonic-h3-tests/src/lib.rs, for
quinn, quiche and msquic: a server is stopped under a connected client, its task is
joined, the test sleeps three seconds and binds the port again; the same channel is
used with the new server, and then client and server go. What is modelled is who owns
what: endpoint, listener and its mutex (`H3MsQuicAcceptor`), configuration and
registration, which the server's task drops one after the other, and the fields of
`RequestSender` and `H3MsQuicConnector`, which the channel's worker drops in their
order, the connector with its owner of the registration before the cached sender, in
a race with the client's task. A connection whose driver has ended (`cli = "ended"`)
is kept by that sender, and msquic's `wait_idle` waits for it.

The sleep is `Settled`: three seconds are taken to be enough for the tasks of a closed
connection to end, at both ends, and for nothing else; a peer's idle timeout is not
among it. The assumption is needed: quinn's and quiche's `wait_idle` may return a moment
before the last task has dropped the socket, so the model does not say that
the port is free when the server's task ends. The retry of msquic's bind is left
out, so the model asks for more than the test: the port must be free at the first try.

### ClientTests and UploadTests

The regression tests as environments of the models above: the injected
connectors (`FailOnce`, `CountConnect`, a client that rejects the certificate),
servers (`run_goaway_server`) and bodies (`FailAfterOneFrame`,
`OneFrameThenPending`), a user that sends one request after the other, and what
each test asserts. The tests order their steps by sleeps; the models take any
order, with three exceptions that rest on the times chosen: the GOAWAY arrives
within a probe's timeout of three seconds, a body that fails does so after the
eager poll, and the raw client of the ignored body sends when it has read the
response. `StreamErrorAsserts` also accepts a reset that overtakes the response,
which the test's delay excludes. `stringify_err` and the error texts are reduced
to the code they are searched for.

## 3. Runs

| Run | Instance | Checks |
|---|---|---|
| `sender_safety` | 2 requests, 3 connections, 4 flags, symmetry | `OnePhase`, `GenerationTag`, `FlagMeansClosing`, `HealthySenderKept`, `EndedDriverNotReused`, `ReadyIsHonoured` |
| `sender_live` | 1 request, 2 connections, 3 flags | `StaleSenderReplaced`, `RetiredDriverEnds`, `SenderRecovers` |
| `exchange` | 4 bodies on each side, window 1, bodies read or dropped | `NoTruncation`, `ResetTellsWhy`, `StopCodeIsHttp3`, `BodiesDelivered` (refinement of `BodyDelivery`), `ExchangeEnds` |
| `channel` | 2 requests, 1 connection, 4 flags, buffer of 1 | `ChanTypeOK`, `ErrorHasAnOwner`, `OnePlace`, `NeverNotReady`, `ChannelAnswers` (refinement of `RequestReply` with its fairness) |
| `server` | 2 clients, 2 requests each, each kind of acceptor | `StopsOnlyOnDemand`, `NobodyWaitsForHandshakes`, `RequestsTakenUp`, `ShutdownEnds` |
| `s2n` | 5 chunks, writes of 1 or 2 | `TypeOK`, `NoSpuriousRefusal`, `ErrorTellsScope`, `ImplementsPipe` |
| `connect` | 3 addresses, lists of up to 3, one with a repetition, every set of healthy ones | `EveryAddressTried`, `LastErrorReported`, `HealthyAddressWins`, `ConnectEnds` |
| `teardown` | 3 libraries | `TestPasses`, `RegistrationClosedLast`, `TestEnds` |
| `client_tests` | 7 tests, at most 4 probes | `AssertionsHold`, `TestsEnd` |
| `upload_tests` | 4 tests, window 1 | `OutcomeAsserted`, `OutcomeReported` |

The type invariants of `RequestSender`, `Exchange`, `Server`, `Connect` and `Teardown` are
theorems and are not run separately (`ChanTypeOK` contains the first).

Two runs state what a comment says and find the code doing something else:

* `exchange_blocked`: a cancelled upload that is blocked in `send_data` is not
  cancelled while the server neither reads nor drops the request body. In
  `exchange`, where it does one of the two, `ExchangeEnds` includes it.
* `exchange_early`: a STOP_SENDING that meets the eager poll fails the request
  and discards a complete response, although the server chose its code "so the
  client keeps the response". The window is one poll; it needs the connection to
  be driven by another thread meanwhile.

Other texts have been overtaken by the code, or say less than it does:

* docs/send-stream-reset-mf3.md says that both incoming bodies stop with
  `H3_REQUEST_CANCELLED`; the server's stops with `H3_NO_ERROR` (server_body.rs, rightly
  by RFC 9114, and as axum.rs tests).
* docs/quiche-reconnect-socket-release.md (lines 3, 104, 150) says that binding a quiche
  server's port again under a connected client is "not slow, impossible", and that
  `reconnect::h3_quiche_test` is ignored. Since then the server's task calls
  `endpoint.close` and `endpoint.wait_idle` (tonic-h3-tests/src/lib.rs:253-254, from
  `H3QuicheAcceptor::endpoint`), and the test runs (reconnect.rs:33-38). `TestPasses`
  holds for quiche because of these two calls: without them, the variant
  `CloseEndpoint_drops`, it fails as the document says.
* reconnect.rs:24 says of the msquic test that it "can stuck" sometimes; `TestEnds`
  finds that it ends. docs/msquic-registration-shutdown.md:75-82 gives the cause: the
  client waited for one connection, in a slot that a reconnect overwrote, and
  closed the registration under the others. Now `Registration::wait_idle` waits for
  all of them, which is the guard of `ClientIdle`; without it (`ClientIdle_at_once`)
  `RegistrationClosedLast` fails. What is left of the comment would lie in msquic
  or msquic_h3, which are not modelled. The document's own cure, `H3MsQuicClientWaiter` and
  a `Drop` of the connector, is no longer in msquic/client.rs either.
* docs/client-reconnect-failover-fixes.md (MF-1) made quinn's connector fail only after
  all addresses were tried; it is silent on the others. s2n's leaves the loop when `keep_alive` fails on a connection
  that was just established (the `?` at s2n/client.rs:49): a healthy address does not
  help then. `HealthyAddressWins` and `EveryAddressTried` name this exit.

**Bounds.** Two requests are enough for a late error of one generation to meet a
request of the next; three connections let one be retired, one be cached and one
be dialled. Flags: the current one, one held by each request, and a fresh one
(asserted in the MC modules). The single connection in `channel` still goes
through GOAWAY, loss and redial; two at a time behind a channel are in
`client_tests`, three behind a sender in `sender_safety`. Bodies of two frames
with a window of one block on flow control; they include an empty body, one with
trailers and one that fails. Two clients in `server` let a stalled or failed
handshake coexist with a good one, and two requests on a connection a hanging one with
another; the proofs cover any number. Five chunks are a
write cut in two, and the next one. `MaxProbes` is 4 where the test has 20: one
probe is lost to the timeout, one rejected, one answered, and a client that never
reconnects fails after any number; the proof covers every number from 3, the least
with which the test's own story fits. Symmetry is used only in `sender_safety`, which
has no temporal formulas other than action properties.

Deadlock is checked for the sender and the channel, which never stop. An
exchange, a stream, an attempt that panicked, a test and a server that was shut
down do stop, so it is off there.

**Fairness.**
* Sender: a caller polls until it is told Ready, a ready caller calls (traffic
  goes on), a driver whose connection is closed ends, and h3 closes a connection
  without handles. Strong fairness of a request's steps says that a request is not
  always dropped before it does anything; a GOAWAY can only be discovered by a
  request that runs. `SenderRecovers` assumes in its own statement that connects
  do not always fail.
* Exchange: both runtimes run their tasks. The client's body source may stall
  for ever, for `select!` must then still notice a cancel. The server's source may
  not: nothing wakes its sender while it waits. `DrainedSpec` adds applications
  that read or drop their bodies and handlers that return.
* Channel: the worker and the handles run; a connect attempt ends.
* Server: tasks run and `select!` (unbiased) starves no branch. No handshake has
  to end, no live connection, and no request: the code has no timeout on headers,
  handlers or responses that flow control holds up.
* Connect: lookups and handshakes end, since QUIC gives up on a silent peer. The
  liveness of the sender and the channel assumes what `ConnectEnds` says.
* Teardown: tasks run. The idle timeout of a connection is never relied on: it
  may happen, and is not in the fair part. This is what `TestEnds` is about.
* The tests: some step is taken while there is one; in `UploadTests` the server,
  the sender and the reader of the response are scheduled each for itself.

## 4. Proofs

**RequestSenderProofs**, for any sets of requests, connections and flags, from
the one assumption that `None` is no identifier. The inductive invariant is

    IInv == TypeOK /\ OnePhase /\ GenerationTag /\ FlagMeansClosing /\ ReadyBacked

`HealthySenderKept` is the goal: `poll_ready` drops the cached sender when its
driver ended or its flag is set, so both must imply that the connection takes no
requests. For the flag this is `FlagMeansClosing`. A failing request sets the
flag it captured, so `FlagMeansClosing` is kept only if everyone who shares that
flag shares its connection: that is `GenerationTag`, the comment's claim that the
`Arc` identity is a generation tag. `GenerationTag` in turn is kept by
`poll_ready` because a retirement installs a flag nobody holds, and by `call`
because flag and sender are cloned together. `ReadyBacked` (after Ready there is
a sender or an error) gives `ReadyIsHonoured`. `EndedDriverNotReused` is the opposite
of keeping: a connection whose driver ended, or was dropped without a word, is not
offered to a caller again. Theorems: `TypeCorrect`,
`OnePhaseHolds`, `GenerationTagHolds`, `FlagMeansClosingHolds`,
`HealthySenderKeptHolds`, `EndedDriverNotReusedHolds`, `ReadyIsHonouredHolds`.

**H3ChannelProofs**, on top of it, for any number of handles and any size of the
buffer, from the assumptions that the buffer has a place and `None` is no request:

    CInv == IInv /\ ChanTyped /\ Bounded /\ ReadyForCurrent
                 /\ ErrorHasAnOwner /\ Placed /\ NeverNotReady

`NeverNotReady` needs `ReadyForCurrent` (the worker was told Ready for the request
in its hand and nothing called in between) and `IInv`'s `ReadyBacked`.
`ErrorHasAnOwner` needs that the worker polls only with a request in hand.
`Placed` says `OnePlace` without counting: the queue has no duplicates, and its
members, the request in hand and the futures belong to different handles;
`OnePlaceHolds` derives the count. `Bounded` says that queued and reserved places
fit into the buffer. `ChannelKeepsPromise` is the refinement of `RequestReply`
without fairness: each step moves at most one request, from one stage to the next
or back to idle. `SenderSafeInChannel` carries the sender's results over: every
step of the channel moves the sender by one step of `RequestSender`, or not at all.

**S2nConnectionProofs**, for any chunks, any set of non-empty writes and any
bound. The invariant adds to the checked ones that no empty buffer is kept between
polls (else a write could be refused for nothing) and that a poll runs on an open
stream. `AdapterImplementsPipe` shows every step to be a step of `OrderedPipe` or
a stutter: taking a chunk leaves `chunk \o rest` as it was, flushing removes its
head, finishing finds it empty. `PollShrinks` is the reason why the loop of a poll
ends: each chunk has two steps before it, and a poll adds none.

`ConnectionImplementsStream` shows every step of the
connection to be one of the stream or a stutter (STOP_SENDING and the loss of the
connection are its `Break`), so the theorems above hold inside a connection.
`ErrorTellsScopeHolds` follows from what s2n-quic may answer in each state, through
both conversions: a stream error is converted into a connection error only where
the connection is over, and a connection that is over stays so, so that the last
report remains true; a refused write is told apart by `last`.

**ServerProofs**, for any sets of clients and requests. `StopsOnlyOnDemand` is
kept because neither quinn's acceptor nor s2n's ever returns an error, whatever
clients do, and `None` means a closed endpoint. The type invariant says that only
an accepted connection has a task and requests.

**ConnectProofs**, for any addresses and any lists, of any length. The inductive
invariant says that inside the loop there is one recorded error for each address
before `i`, the k-th of them at address k, which is not healthy, and that
`conn_err` is the last of them, or `AddrNotAvailable` at the first. When the loop
runs off the list this is the three properties; `HealthyAddressWins` has the exit of
s2n's `keep_alive` in its statement, the one way to leave the loop at a healthy
address without success. `LoopShrinks` measures what is
left of the list, two steps for each address: no place in it is tried twice.

**ExchangeProofs**, for any bodies and any window, from the three assumptions of
`Exchange`: the window is positive, bodies are sequences of the four kinds of item,
nothing is sent after trailers. The inductive invariant `IInv` has two layers. For
each half: `Progress` says what was sent in each state of the sender, `Guarded` that
the guard is armed and the stream open until the sender is over, and that the stream
then ended in the way its cause asks for, and `Receiver` that no more was given than
sent, and neither trailers nor the end before the stream was finished. Across the
halves, `Linked` ties the client's and the handler's program counters to the senders
and receivers they own: a sender of the response exists from the headers on, and only
a client that has them reads it. `NoTruncation` and `ResetTellsWhy` need `Guarded`,
since a sender may be dropped at any await and the transport finishes what is not
reset; `StopCodeIsHttp3` needs `Linked`, which says that a half is stopped bare only
while no incoming body wraps it.
`ExchangeDelivers` is the refinement: every step changes the fate of at most one half,
from open, or the verdict of one, or gives one frame.

Two more theorems are the reasons behind `ExchangeEnds`. `ExchangeShrinks` gives a
measure, `Effort`: two steps for each frame to be sent and one for each to be read,
and the stages that senders, readers, client and server have before them. Each
step lowers it, so an exchange is over after finitely many, whoever fails or is
dropped. `NeverJamsHolds` says that it does not stick before: at each send held up by
flow control the peer stopped or is lost, or its reader has data before it, or is still
to be handed the body. This needs the invariant `Listened` (a reader that waits for
trailers has them before it; one that left has told the sender, or the connection
is gone) and the contract that nothing is sent after trailers. What remains to fairness
is that the reader is polled, which `exchange_blocked` shows to matter.

For the upload tests, `TestsAreExchanges` shows every step of a test to be one of the
exchange, so the theorems above hold in the tests. `OutcomeAssertedHolds` is for any
window; the invariant says who may end the upload before the outcome is known: only
the cancel test drops its response early, only the ignored body is stopped, only one
source fails. An outcome is then traced back through `ResetTellsWhy` and
`NoTruncation` to the one cause that the test contains.

**ClientTestsProofs**, on top of `H3ChannelProofs`, for any connections, flags and
buffer and `MaxProbes >= 3`:

    TInv == IInv /\ Client /\ OneUser /\ Kept /\ Story

`Client` is `CInv` for a test through a channel, and "nothing in the buffer" for one
without. `OneUser`: one request at a time, none when the test is over. `Kept`: the
cached connection serves, but for the first one of the GOAWAY test, and the request
runs on it with the current flag. So only that test ever retires a connection, and
only when its flag is set. `Story` follows each test: how many connects there were,
which results came, and what may be under way; for the GOAWAY test, a set flag means
that the client was told, being told comes once, and the second connection is never
retired. `TestsPass` is the assertions of all seven tests; `TestsAreSenders` shows
that the tests are runs of `RequestSender`.

**TeardownProofs.** `Teardown` has no constants but the library, and its run explores
all its states; the proof gives the argument, which a change of the code could break.

    IInv == TypeOK /\ TestPasses /\ ServerOwns /\ ServerIdle
                   /\ ClientOwns /\ Script /\ Linked

What is owned is a function of where its owner stands: `ServerOwns` for acceptor, lock,
configuration and registration, `ClientOwns` for the handles that the client's task
and the channel's worker drop in a race. `ServerIdle` says what `wait_idle` has waited
for. `RegistrationClosedLast` follows from these: on the client the worker gives up its
owner of the registration before the cached sender, and what makes this harmless is
that the client's task keeps its own until the connection is dropped. `Script` and `Linked` tie servers,
connection and test together: nobody connects to a server that was told to stop, and
the old connection is gone at both ends when the port is bound again, after the sleep,
which is `TestPasses`.
`NeverWaitsForPeerHolds` is the reason behind `TestEnds`: the lock is free when
`shutdown` asks for it, and what an idle wait waits for is closed on its own side.

**Only model-checked:** liveness, the fairness of `ChannelAnswers` included: fairness is
about enabledness, which is out of the prover's reach. The measures above show that
exchanges, polls and connect loops have no endless runs; that their steps are taken is
what the runs check under fairness.

## 5. Not modelled

* tonic-h3 and `SharedExec` forward; `is_benign_connection_close` chooses a log
  level.
* Of the tests: mix.rs and dotnet.rs (a greeting across two libraries or
  processes), the greeting and the empty GET of axum.rs (a response, and no
  more), TLS and certificates, the retry of msquic's bind. s2n cannot release its
  port (its reconnect test is switched off), so it is not in `Teardown`.
* The benchmark harness measures: its workers share nothing and are joined in the
  end; the examples, the .NET peers and the deployment
  scripts are not part of the system.
* Unbounded task spawning (MF-4) has no bound to check.
* Whether a response body outlives the last handle of its connection is decided
  inside h3; the models let a connection be lost at any time instead.
* URI rebuilding is reduced to the parts that are missing.

## 6. Plan

The modules, runs and proofs planned are done: every invariant and action property
of a passing run, and each refinement without its fairness, is a theorem. When the code
changes, the places to look first are the generation tag of `RequestSender`, the guard of
the body senders, and the order in which msquic's owners go.
