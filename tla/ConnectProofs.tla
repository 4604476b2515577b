---------------------------- MODULE ConnectProofs ----------------------------
(***************************************************************************)
(* A connect attempt, for any addresses and any lists of them: no address   *)
(* is skipped, the last error is the one reported, and a healthy address    *)
(* wins unless s2n gives up behind a handshake that succeeded.  The three   *)
(* speak of the end of an attempt; LoopInv says what the loop over the      *)
(* addresses keeps on the way.                                              *)
(***************************************************************************)
EXTENDS Connect, SequenceTheorems, TLAPS

\* The address at place k was tried and failed.
Failed(k) ==
    /\ errs[k] \in Errors
    /\ errs[k].at = k
    /\ errs[k].why \in {"refused", "handshake"}
    /\ addrs[k] \notin stable

LoopInv ==
    pc # "done" =>
        /\ result = Pending
        /\ Len(errs) = i - 1
        /\ pc = "resolve" => i = 1 /\ addrs = <<>>
        /\ \A k \in 1 .. i - 1 : Failed(k)
        /\ kind = "msquic" => i = 1 /\ pc # "next"
        /\ kind = "msquic" /\ pc = "handshake" => Len(addrs) = 1
        /\ kind # "msquic" /\ pc # "resolve"
              => connErr = IF i = 1 THEN NotAvailable ELSE errs[i - 1]

Promises == EveryAddressTried /\ LastErrorReported /\ HealthyAddressWins

IInv == TypeOK /\ LoopInv /\ Promises

-----------------------------------------------------------------------------
\* The results that say nothing of the addresses: success, or an end before the
\* loop.
LEMMA Silent ==
    ASSUME \/ result' \in {Pending, Connected}
           \/ /\ result'.why \in {"panic", "InvalidInput", "lookup"}
              /\ addrs' = <<>>
    PROVE  Promises'
<1>1. result'.why \in {"pending", "connected", "panic", "InvalidInput", "lookup"}
  BY DEF Pending, Connected, Error
<1>2. EveryAddressTried' /\ LastErrorReported'
  BY <1>1 DEF EveryAddressTried, LastErrorReported, NotAvailable, Error
<1>3. HealthyAddressWins'
  <2>1. CASE result' \in {Pending, Connected}
    BY <2>1 DEF HealthyAddressWins, Pending, Connected
  <2>2. CASE addrs' = <<>>
    BY <2>2 DEF HealthyAddressWins
  <2> QED
    BY <2>1, <2>2
<1> QED
  BY <1>2, <1>3 DEF Promises

\* The errors of the connectors.
LEMMA ErrorTypes ==
    /\ Pending \in Errors /\ Pending.why = "pending"
    /\ Connected \in Errors /\ Connected.why = "connected"
    /\ Panicked \in Errors /\ Panicked.why = "panic"
    /\ NotAvailable \in Errors /\ NotAvailable.why = "AddrNotAvailable"
    /\ \A w \in {"InvalidInput", "lookup", "refused", "handshake", "keep_alive"},
          n \in Nat :
          /\ Error(w, n) \in Errors
          /\ Error(w, n).why = w /\ Error(w, n).at = n
  BY DEF Errors, Pending, Connected, Panicked, NotAvailable, Error

\* What a sequence is after Append.
LEMMA Appended ==
    ASSUME NEW s \in Seq(Errors), NEW e \in Errors
    PROVE  /\ Append(s, e) \in Seq(Errors)
           /\ Len(Append(s, e)) = Len(s) + 1
           /\ Append(s, e)[Len(s) + 1] = e
           /\ \A k \in 1 .. Len(s) : Append(s, e)[k] = s[k]
           /\ Append(s, e) # <<>>
  OBVIOUS

\* The first place of a list, or the place behind an empty one.
LEMMA FirstPlace == \A list \in Seq(Addrs) : 1 \in 1 .. Len(list) + 1
<1> TAKE list \in Seq(Addrs)
<1>1. Len(list) \in Nat
  BY LenProperties
<1> QED
  BY <1>1

-----------------------------------------------------------------------------
\* A step of the loop that fails at the current address keeps the invariant.
LEMMA RecordKeeps ==
    ASSUME IInv, pc \in {"next", "handshake"}, kind # "msquic", i <= Len(addrs),
           addrs[i] \notin stable, NEW w \in {"refused", "handshake"},
           Record(Error(w, i)), UNCHANGED <<target, addrs>>
    PROVE  IInv'
<1>1. /\ i \in Nat /\ i >= 1 /\ Len(addrs) \in Nat /\ errs \in Seq(Errors)
      /\ Len(errs) = i - 1 /\ result = Pending
      /\ \A k \in 1 .. i - 1 : Failed(k)
  BY DEF IInv, TypeOK, LoopInv
<1>2. /\ kind' = kind /\ uri' = uri /\ stable' = stable /\ addrs' = addrs
      /\ i' = i + 1 /\ pc' = "next" /\ result' = result
      /\ connErr' = Error(w, i) /\ errs' = Append(errs, Error(w, i))
  BY DEF Record, target
<1>3. Error(w, i) \in Errors /\ Error(w, i).why = w /\ Error(w, i).at = i
  BY <1>1, ErrorTypes
<1>4. /\ errs' \in Seq(Errors) /\ Len(errs') = i /\ errs'[i] = Error(w, i)
      /\ \A k \in 1 .. i - 1 : errs'[k] = errs[k]
  BY <1>1, <1>2, <1>3, Appended
<1>5. TypeOK'
  BY <1>1, <1>2, <1>3, <1>4 DEF IInv, TypeOK
<1>6. \A k \in 1 .. i : Failed(k)'
  <2> TAKE k \in 1 .. i
  <2>1. CASE k = i
    BY <1>2, <1>3, <1>4, <2>1 DEF Failed
  <2>2. CASE k # i
    <3>1. k \in 1 .. i - 1
      BY <1>1, <2>2
    <3>2. Failed(k) /\ errs'[k] = errs[k]
      BY <1>1, <1>4, <3>1
    <3> QED
      BY <1>2, <3>2 DEF Failed
  <2> QED
    BY <2>1, <2>2
<1>7. LoopInv'
  <2>1. i' - 1 = i /\ i' # 1
    BY <1>1, <1>2
  <2> QED
    BY <1>1, <1>2, <1>4, <1>6, <2>1 DEF LoopInv
<1>8. Promises'
  BY <1>1, <1>2, ErrorTypes, Silent
<1> QED
  BY <1>5, <1>7, <1>8 DEF IInv

\* So does the start of the loop, over any list.
LEMMA LoopKeeps ==
    ASSUME IInv, pc = "resolve", kind # "msquic", NEW list \in Seq(Addrs), Loop(list),
           connErr' = NotAvailable, UNCHANGED <<target, errs>>
    PROVE  IInv'
<1>1. /\ kind' = kind /\ uri' = uri /\ stable' = stable /\ errs' = errs
      /\ addrs' = list /\ i' = 1 /\ pc' = "next" /\ result' = result
  BY DEF Loop, target
<1>2. result = Pending /\ Len(errs) = 0
  BY DEF IInv, TypeOK, LoopInv
<1>3. TypeOK'
  <2>1. 1 \in 1 .. Len(list) + 1
    BY FirstPlace
  <2> QED
    BY <1>1, <2>1, ErrorTypes DEF IInv, TypeOK
<1>4. LoopInv'
  BY <1>1, <1>2 DEF LoopInv
<1>5. Promises'
  BY <1>1, <1>2, ErrorTypes, Silent
<1> QED
  BY <1>3, <1>4, <1>5 DEF IInv

\* The end of an attempt keeps what the promises say.
LEMMA ReturnKeeps ==
    ASSUME IInv, pc' = "done", TypeOK', Promises' PROVE IInv'
  BY DEF IInv, LoopInv

-----------------------------------------------------------------------------
LEMMA InitIInv == Init => IInv
<1> SUFFICES ASSUME Init PROVE IInv
  OBVIOUS
<1>1. TypeOK
  BY ErrorTypes DEF Init, TypeOK
<1>2. LoopInv
  BY DEF Init, LoopInv
<1>3. Promises
  BY ErrorTypes DEF Init, Promises, EveryAddressTried, LastErrorReported,
                    HealthyAddressWins, NotAvailable, Error
<1> QED
  BY <1>1, <1>2, <1>3 DEF IInv

LEMMA NextIInv == IInv /\ [Next]_vars => IInv'
<1> SUFFICES ASSUME IInv, [Next]_vars PROVE IInv'
  OBVIOUS
<1>1. CASE Resolve
  <2>1. /\ pc = "resolve" /\ kind # "msquic" /\ connErr' = NotAvailable
        /\ UNCHANGED <<target, errs>>
    BY <1>1 DEF Resolve, Looping
  <2>2. ASSUME NEW a \in Addrs, Loop(<<a>>) PROVE IInv'
    <3>1. <<a>> \in Seq(Addrs)
      OBVIOUS
    <3> QED
      BY <2>1, <2>2, <3>1, LoopKeeps
  <2>3. ASSUME NEW list \in Lists, Loop(list) PROVE IInv'
    BY <2>1, <2>3, LoopKeeps, ListsAssumption
  <2>4. ASSUME NEW w \in {"InvalidInput", "lookup"}, Return(Error(w, 0)),
               UNCHANGED <<addrs, i>>
        PROVE  IInv'
    <3>1. pc' = "done" /\ result' = Error(w, 0) /\ addrs' = <<>>
      BY <2>1, <2>4 DEF Return, IInv, LoopInv
    <3>2. Error(w, 0) \in Errors /\ Error(w, 0).why = w
      BY ErrorTypes
    <3>3. TypeOK'
      BY <2>1, <2>4, <3>1, <3>2, ErrorTypes DEF IInv, TypeOK, target
    <3>4. Promises'
      BY <3>1, <3>2, Silent
    <3> QED
      BY <3>1, <3>3, <3>4, ReturnKeeps
  <2> QED
    BY <1>1, <2>2, <2>3, <2>4 DEF Resolve
<1>2. CASE MsQuicConnect
  <2>1. CASE uri \in {"none", "portless"}
    <3>1. pc' = "done" /\ result' = Panicked /\ addrs' = <<>>
      BY <1>2, <2>1 DEF MsQuicConnect, Return, IInv, LoopInv
    <3>2. TypeOK'
      BY <1>2, <2>1, <3>1, ErrorTypes DEF MsQuicConnect, IInv, TypeOK, target
    <3>3. Promises'
      BY <3>1, ErrorTypes, Silent
    <3> QED
      BY <3>1, <3>2, <3>3, ReturnKeeps
  <2>2. CASE uri \notin {"none", "portless"}
    <3>1. PICK a \in Addrs : addrs' = <<a>>
      BY <1>2, <2>2 DEF MsQuicConnect
    <3>2. addrs' \in Seq(Addrs) /\ Len(addrs') = 1
      BY <3>1
    <3>3. /\ i' = 1 /\ pc' = "handshake" /\ kind' = kind /\ uri' = uri
          /\ stable' = stable /\ connErr' = connErr /\ errs' = errs
          /\ result' = result /\ kind = "msquic" /\ pc = "resolve"
      BY <1>2, <2>2 DEF MsQuicConnect, target
    <3>4. TypeOK'
      BY <3>2, <3>3 DEF IInv, TypeOK
    <3>5. result = Pending /\ Len(errs) = 0
      BY <3>3 DEF IInv, TypeOK, LoopInv
    <3>6. LoopInv'
      BY <3>2, <3>3, <3>5 DEF LoopInv
    <3>7. Promises'
      BY <3>3, <3>5, ErrorTypes, Silent
    <3> QED
      BY <3>4, <3>6, <3>7 DEF IInv
  <2> QED
    BY <2>1, <2>2
<1>3. CASE Refused
  BY <1>3, RecordKeeps DEF Refused
<1>4. CASE StartHandshake
  <2>1. /\ kind' = kind /\ uri' = uri /\ stable' = stable /\ addrs' = addrs
        /\ i' = i /\ connErr' = connErr /\ errs' = errs /\ result' = result
        /\ pc = "next" /\ pc' = "handshake" /\ i <= Len(addrs)
    BY <1>4 DEF StartHandshake, target
  <2>2. TypeOK'
    BY <2>1 DEF IInv, TypeOK
  <2>3. LoopInv'
    BY <2>1 DEF IInv, LoopInv, Failed
  <2>4. result = Pending
    BY <2>1 DEF IInv, LoopInv
  <2>5. Promises'
    BY <2>1, <2>4, ErrorTypes, Silent
  <2> QED
    BY <2>2, <2>3, <2>5 DEF IInv
<1>5. CASE HandshakeFails
  <2>1. i <= Len(addrs) /\ i \in Nat
    BY <1>5 DEF HandshakeFails, IInv, TypeOK
  <2>2. CASE kind # "msquic"
    BY <1>5, <2>1, <2>2, RecordKeeps DEF HandshakeFails
  <2>3. CASE kind = "msquic"
    <3>1. /\ i = 1 /\ Len(errs) = 0 /\ Len(addrs) = 1 /\ errs \in Seq(Errors)
      BY <1>5, <2>3 DEF HandshakeFails, IInv, TypeOK, LoopInv
    <3>2. /\ pc' = "done" /\ result' = Error("handshake", 1)
          /\ errs' = Append(errs, Error("handshake", 1))
          /\ addrs' = addrs /\ i' = i /\ connErr' = connErr
          /\ kind' = kind /\ uri' = uri /\ stable' = stable /\ addrs[1] \notin stable
      BY <1>5, <2>3, <3>1 DEF HandshakeFails, Return, target
    <3>3. /\ Error("handshake", 1) \in Errors
          /\ Error("handshake", 1).why = "handshake" /\ Error("handshake", 1).at = 1
      BY ErrorTypes
    <3>4. /\ errs' \in Seq(Errors) /\ Len(errs') = 1
          /\ errs'[1] = Error("handshake", 1) /\ errs' # <<>>
      BY <3>1, <3>2, <3>3, Appended
    <3>5. TypeOK'
      BY <3>1, <3>2, <3>3, <3>4 DEF IInv, TypeOK
    <3>6. EveryAddressTried' /\ LastErrorReported'
      BY <3>1, <3>2, <3>3, <3>4, ErrorTypes DEF EveryAddressTried, LastErrorReported
    <3>7. HealthyAddressWins'
      <4>1. \A k \in 1 .. Len(addrs) : k = 1
        BY <3>1
      <4> QED
        BY <3>2, <4>1 DEF HealthyAddressWins
    <3> QED
      BY <3>2, <3>5, <3>6, <3>7, ReturnKeeps DEF Promises
  <2> QED
    BY <2>2, <2>3
<1>6. CASE HandshakeOk
  <2>1. /\ kind' = kind /\ uri' = uri /\ stable' = stable /\ addrs' = addrs
        /\ i' = i /\ connErr' = connErr /\ errs' = errs /\ pc' = "done"
        /\ i \in Nat /\ i <= Len(addrs) /\ Len(errs) = i - 1
        /\ \/ result' = Connected
           \/ kind = "s2n" /\ result' = Error("keep_alive", i)
    BY <1>6 DEF HandshakeOk, Return, target, IInv, TypeOK, LoopInv
  <2>2. /\ Error("keep_alive", i) \in Errors /\ Error("keep_alive", i).why = "keep_alive"
        /\ Connected \in Errors /\ Connected.why = "connected"
        /\ NotAvailable.why = "AddrNotAvailable"
    BY <2>1, ErrorTypes
  <2>3. TypeOK'
    BY <2>1, <2>2 DEF IInv, TypeOK
  <2>4. EveryAddressTried' /\ LastErrorReported'
    BY <2>1, <2>2 DEF EveryAddressTried, LastErrorReported
  <2>5. HealthyAddressWins'
    <3>1. \A k \in 1 .. i - 1 : addrs[k] \notin stable
      BY <1>6 DEF HandshakeOk, IInv, LoopInv, Failed
    <3>2. Error("keep_alive", i)' = Error("keep_alive", i) /\ Connected' = Connected
      BY <2>1 DEF Error, Connected
    <3> QED
      BY <2>1, <3>1, <3>2 DEF HealthyAddressWins
  <2> QED
    BY <2>1, <2>3, <2>4, <2>5, ReturnKeeps DEF Promises
<1>7. CASE Exhausted
  <2>1. /\ kind' = kind /\ uri' = uri /\ stable' = stable /\ addrs' = addrs
        /\ i' = i /\ connErr' = connErr /\ errs' = errs /\ pc' = "done"
        /\ result' = connErr /\ pc = "next" /\ i > Len(addrs)
    BY <1>7 DEF Exhausted, Return, target
  <2>2. /\ i \in Nat /\ i >= 1 /\ Len(addrs) \in Nat /\ i = Len(addrs) + 1
        /\ Len(errs) = i - 1 /\ kind # "msquic" /\ addrs \in Seq(Addrs)
        /\ errs \in Seq(Errors)
        /\ connErr = IF i = 1 THEN NotAvailable ELSE errs[i - 1]
        /\ \A k \in 1 .. i - 1 : Failed(k)
    BY <2>1 DEF IInv, TypeOK, LoopInv
  <2>3. TypeOK'
    BY <2>1 DEF IInv, TypeOK
  <2>4. HealthyAddressWins'
    BY <2>1, <2>2 DEF HealthyAddressWins, Failed
  <2>5. CASE i = 1
    <3>1. addrs = <<>> /\ result' = NotAvailable /\ Len(errs) = Len(addrs)
      BY <2>1, <2>2, <2>5
    <3> QED
      BY <2>1, <2>3, <2>4, <3>1, ErrorTypes, ReturnKeeps DEF Promises,
         EveryAddressTried, LastErrorReported
  <2>6. CASE i # 1
    <3>1. /\ i - 1 \in 1 .. i - 1 /\ i - 1 = Len(addrs) /\ Len(errs) = Len(addrs)
          /\ Len(errs) # 0 /\ result' = errs[Len(errs)]
      BY <2>1, <2>2, <2>6
    <3>2. Failed(Len(errs)) /\ errs # <<>>
      BY <2>2, <3>1
    <3> QED
      BY <2>1, <2>3, <2>4, <3>1, <3>2, ErrorTypes, ReturnKeeps DEF Promises,
         EveryAddressTried, LastErrorReported, Failed
  <2> QED
    BY <2>5, <2>6
<1>8. CASE Again
  <2>1. /\ kind' = kind /\ uri' = uri /\ stable' = stable
        /\ pc' = "resolve" /\ addrs' = <<>> /\ i' = 1 /\ connErr' = Pending
        /\ errs' = <<>> /\ result' = Pending
    BY <1>8 DEF Again, target
  <2>2. TypeOK'
    BY <2>1, ErrorTypes DEF IInv, TypeOK
  <2>3. LoopInv'
    BY <2>1 DEF LoopInv
  <2>4. Promises'
    BY <2>1, ErrorTypes, Silent
  <2> QED
    BY <2>2, <2>3, <2>4 DEF IInv
<1>9. CASE UNCHANGED vars
  BY <1>9 DEF vars, target, IInv, TypeOK, LoopInv, Failed, Promises,
              EveryAddressTried, LastErrorReported, HealthyAddressWins
<1> QED
  BY <1>1, <1>2, <1>3, <1>4, <1>5, <1>6, <1>7, <1>8, <1>9 DEF Next, Step

\* The invariant holds throughout every attempt.
THEOREM IInvHolds == Spec => []IInv
  BY InitIInv, NextIInv, PTL DEF Spec

\* The state is well typed: the loop never stands outside its list.
THEOREM TypeCorrect == Spec => []TypeOK
<1>1. IInv => TypeOK
  BY DEF IInv
<1> QED
  BY <1>1, IInvHolds, PTL

\* A list of any length is left with an error only when all of it failed.
THEOREM EveryAddressTriedHolds == Spec => []EveryAddressTried
<1>1. IInv => EveryAddressTried
  BY DEF IInv, Promises
<1> QED
  BY <1>1, IInvHolds, PTL

\* The error reported is the last one of the list.
THEOREM LastErrorReportedHolds == Spec => []LastErrorReported
<1>1. IInv => LastErrorReported
  BY DEF IInv, Promises
<1> QED
  BY <1>1, IInvHolds, PTL

\* A healthy address anywhere in a list of any length makes the attempt succeed,
\* unless s2n gives up behind a handshake that succeeded at that address or before.
THEOREM HealthyAddressWinsHolds == Spec => []HealthyAddressWins
<1>1. IInv => HealthyAddressWins
  BY DEF IInv, Promises
<1> QED
  BY <1>1, IInvHolds, PTL

-----------------------------------------------------------------------------
\* What is left of the attempt: two steps for each address, and the way out.
LoopWork ==
    IF pc = "done" THEN 0
    ELSE 2 * (Len(addrs) + 1 - i) + IF pc = "next" THEN 2 ELSE 1

\* No place of the list is tried twice and the loop cannot go on for ever, however
\* addresses fail: each of its steps uses up some of a budget that the length of the
\* list fixes.  (That handshakes themselves end is the fairness of the run.)
THEOREM LoopShrinks ==
    Spec => /\ [](LoopWork \in 0 .. 2 * Len(addrs) + 2)
            /\ [][(pc \in {"next", "handshake"})
                     => LoopWork' < LoopWork /\ addrs' = addrs]_vars
<1>1. IInv => LoopWork \in 0 .. 2 * Len(addrs) + 2
  <2> SUFFICES ASSUME IInv PROVE LoopWork \in 0 .. 2 * Len(addrs) + 2
    OBVIOUS
  <2>1. Len(addrs) \in Nat /\ i \in 1 .. Len(addrs) + 1
    BY DEF IInv, TypeOK
  <2> QED
    BY <2>1 DEF LoopWork
<1>2. IInv /\ [Next]_vars
        => [(pc \in {"next", "handshake"}) => LoopWork' < LoopWork /\ addrs' = addrs]_vars
  <2> SUFFICES ASSUME IInv, Next, pc \in {"next", "handshake"}
               PROVE  LoopWork' < LoopWork /\ addrs' = addrs
    OBVIOUS
  <2>1. Len(addrs) \in Nat /\ i \in 1 .. Len(addrs) + 1
    BY DEF IInv, TypeOK
  <2>2. addrs' = addrs
    BY DEF Next, Step, Resolve, MsQuicConnect, Refused, StartHandshake, HandshakeFails,
           HandshakeOk, Exhausted, Again
  <2>3. \/ pc' = "done"
        \/ pc = "next" /\ pc' = "handshake" /\ i' = i
        \/ pc' = "next" /\ i' = i + 1
    BY DEF Next, Step, Resolve, MsQuicConnect, Refused, StartHandshake, HandshakeFails,
           HandshakeOk, Exhausted, Again, Return, Record
  <2> QED
    BY <2>1, <2>2, <2>3 DEF LoopWork
<1> QED
  BY <1>1, <1>2, IInvHolds, PTL DEF Spec
=============================================================================
