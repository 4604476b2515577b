------------------------------- MODULE Connect -------------------------------
(***************************************************************************)
(* One connect attempt of an H3Connector: the resolution of the authority   *)
(* (dns_resolve), and the loop over the addresses that it gives, as the     *)
(* quinn, s2n and quiche connectors run it; the msquic connector leaves     *)
(* both to its library and tries once.  In RequestSender the whole attempt  *)
(* is the future behind makeFut.                                            *)
(*                                                                          *)
(* A suffixed name is a wrong variant of the operator it stands next to.    *)
(***************************************************************************)
EXTENDS Naturals, Sequences

CONSTANTS
    Addrs,    \* socket addresses
    Lists     \* what a lookup may return

ASSUME ListsAssumption == Lists \subseteq Seq(Addrs)

VARIABLES
    kind,      \* the connector
    uri,       \* its target: "none" (no authority), "portless", "literal" or
               \* "name"
    stable,    \* addresses where a server answers whenever it is tried
    pc,        \* "resolve", "next" (head of the loop), "handshake" or "done"
    addrs,     \* the addresses to try
    i,         \* the one that the loop is at
    connErr,   \* conn_err
    errs,      \* history: the error of each address that was tried
    result     \* what connect returned

target == <<kind, uri, stable>>
vars   == <<target, pc, addrs, i, connErr, errs, result>>

Looping == {"quinn", "s2n", "quiche"}
Uris    == {"none", "portless", "literal", "name"}
Kinds   == Looping \cup {"msquic"}

\* Errors: why, and for an error of an address its place in the list.
Error(why, at) == [why |-> why, at |-> at]
NotAvailable == Error("AddrNotAvailable", 0)
Pending == Error("pending", 0)
Connected == Error("connected", 0)
Panicked == Error("panic", 0)

Errors == [why : {"pending", "connected", "panic", "AddrNotAvailable", "InvalidInput",
                  "lookup", "refused", "handshake", "keep_alive"}, at : Nat]

Return(res) == pc' = "done" /\ result' = res

-----------------------------------------------------------------------------
(* dns_resolve *)

Loop(list) ==
    /\ addrs' = list
    /\ i' = 1
    /\ pc' = "next"
    /\ UNCHANGED result

Resolve ==
    /\ pc = "resolve"
    /\ kind \in Looping
    /\ connErr' = NotAvailable
    /\ \/ /\ uri = "none"
          /\ Return(Error("InvalidInput", 0)) /\ UNCHANGED <<addrs, i>>
       \/ uri = "literal" /\ \E a \in Addrs : Loop(<<a>>)
       \/ uri = "name" /\ \E list \in Lists : Loop(list)
       \/ /\ uri \in {"portless", "name"}
          /\ Return(Error("lookup", 0)) /\ UNCHANGED <<addrs, i>>
    /\ UNCHANGED <<target, errs>>

\* msquic: host and port are unwrapped, and there is one attempt.
MsQuicConnect ==
    /\ pc = "resolve"
    /\ kind = "msquic"
    /\ IF uri \in {"none", "portless"}
       THEN Return(Panicked) /\ UNCHANGED <<addrs, i>>
       ELSE /\ \E a \in Addrs : addrs' = <<a>>
            /\ i' = 1
            /\ pc' = "handshake"
            /\ UNCHANGED result
    /\ UNCHANGED <<target, connErr, errs>>

-----------------------------------------------------------------------------
(* The loop *)

Record_keeps_first(err) ==
    /\ connErr' = IF i = 1 THEN err ELSE connErr
    /\ errs' = Append(errs, err)
    /\ i' = i + 1
    /\ pc' = "next"
    /\ UNCHANGED result

\* conn_err = e, and the loop goes on.
Record(err) ==
    /\ connErr' = err
    /\ errs' = Append(errs, err)
    /\ i' = i + 1
    /\ pc' = "next"
    /\ UNCHANGED result

\* Endpoint::connect (quinn) or the constructor of the connector (quiche)
\* refuses the address at once.
Refused ==
    /\ pc = "next" /\ i <= Len(addrs)
    /\ kind \in {"quinn", "quiche"}
    /\ addrs[i] \notin stable
    /\ Record(Error("refused", i))
    /\ UNCHANGED <<target, addrs>>

StartHandshake ==
    /\ pc = "next" /\ i <= Len(addrs)
    /\ pc' = "handshake"
    /\ UNCHANGED <<target, addrs, i, connErr, errs, result>>

HandshakeFails_ends ==
    /\ pc = "handshake"
    /\ addrs[i] \notin stable
    /\ Return(Error("handshake", i))
    /\ errs' = Append(errs, Error("handshake", i))
    /\ UNCHANGED <<target, addrs, i, connErr>>

HandshakeFails_retries ==
    /\ pc = "handshake"
    /\ addrs[i] \notin stable
    /\ pc' = "next"
    /\ connErr' = Error("handshake", i)
    /\ UNCHANGED <<target, addrs, i, errs, result>>

\* The awaited handshake fails: recorded, but returned by msquic.
HandshakeFails ==
    /\ pc = "handshake"
    /\ addrs[i] \notin stable
    /\ IF kind = "msquic"
       THEN /\ Return(Error("handshake", i))
            /\ errs' = Append(errs, Error("handshake", i))
            /\ UNCHANGED <<i, connErr>>
       ELSE Record(Error("handshake", i))
    /\ UNCHANGED <<target, addrs>>

\* The handshake succeeds.  s2n then sets keep_alive, with a `?`.
HandshakeOk ==
    /\ pc = "handshake"
    /\ \/ Return(Connected)
       \/ kind = "s2n" /\ Return(Error("keep_alive", i))
    /\ UNCHANGED <<target, addrs, i, connErr, errs>>

\* Err(conn_err)
Exhausted ==
    /\ pc = "next" /\ i > Len(addrs)
    /\ Return(connErr)
    /\ UNCHANGED <<target, addrs, i, connErr, errs>>

\* poll_ready calls connect again after a failure, or when the connection that
\* this attempt made was retired.
Again ==
    /\ pc = "done"
    /\ result # Panicked
    /\ pc' = "resolve" /\ addrs' = <<>> /\ i' = 1 /\ connErr' = Pending
    /\ errs' = <<>> /\ result' = Pending
    /\ UNCHANGED target

-----------------------------------------------------------------------------
Init ==
    /\ kind \in Kinds
    /\ uri \in Uris
    /\ stable \in SUBSET Addrs
    /\ pc = "resolve" /\ addrs = <<>> /\ i = 1 /\ connErr = Pending
    /\ errs = <<>> /\ result = Pending

Step ==
    \/ Resolve \/ MsQuicConnect \/ Refused \/ StartHandshake \/ HandshakeFails
    \/ HandshakeOk \/ Exhausted

Next == Step \/ Again

Spec == Init /\ [][Next]_vars

\* The lookup and every handshake end: QUIC gives up on a silent peer.
FairSpec == Spec /\ WF_vars(Step)

-----------------------------------------------------------------------------
\* The types; the loop stands at one of its addresses, or behind the last, and
\* the attempt has one recorded error for each address before it.
TypeOK ==
    /\ kind \in Kinds
    /\ uri \in Uris
    /\ stable \subseteq Addrs
    /\ pc \in {"resolve", "next", "handshake", "done"}
    /\ addrs \in Seq(Addrs)
    /\ i \in 1 .. Len(addrs) + 1
    /\ pc = "handshake" => i <= Len(addrs)
    /\ connErr \in Errors
    /\ errs \in Seq(Errors)
    /\ result \in Errors

\* The loop is left with an error only when every address was tried and failed
\* (MF-1: a handshake that fails late does not end the attempt).  The one way out
\* is s2n's keep_alive, behind a handshake that succeeded.
EveryAddressTried ==
    result.why \in {"AddrNotAvailable", "refused", "handshake", "keep_alive"}
        => /\ Len(errs) = IF result.why = "keep_alive" THEN i - 1 ELSE Len(addrs)
           /\ result.why = "keep_alive" => kind = "s2n" /\ i <= Len(addrs)

\* The error reported is that of the last address; AddrNotAvailable stands for
\* an empty list, and for nothing else.
LastErrorReported ==
    /\ result = NotAvailable => addrs = <<>>
    /\ result.why \in {"refused", "handshake"} =>
        errs # <<>> /\ result = errs[Len(errs)] /\ result.at = Len(addrs)

\* With an address in the list where a server answers the attempt succeeds, wherever
\* it stands and however those before it fail.  Only s2n can miss it: the `?` behind
\* keep_alive (s2n/client.rs:49) returns the error of a connection that was lost
\* right after its handshake, at that address or at one before it.
HealthyAddressWins ==
    result # Pending /\ (\E k \in 1 .. Len(addrs) : addrs[k] \in stable) =>
        \/ result = Connected
        \/ /\ kind = "s2n" /\ result = Error("keep_alive", i)
           /\ \A k \in 1 .. i - 1 : addrs[k] \notin stable

\* Every attempt ends, whatever addresses fail and how: RequestSender's liveness
\* takes it for granted of the future behind makeFut.
ConnectEnds == (pc # "done") ~> (pc = "done")
=============================================================================
