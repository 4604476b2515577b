--------------------------- MODULE TeardownProofs ---------------------------
(***************************************************************************)
(* The teardown of all three libraries, step by step.  The run of Teardown  *)
(* explores the same states; the proof gives the reason: what is owned is a *)
(* function of where its owner stands, an owner leaves in the order of its  *)
(* program, and nobody connects to a server that was told to stop.          *)
(***************************************************************************)
EXTENDS Teardown, TLAPS

\* Who holds the acceptor while the server's task is at s.
Held(s) ==
    CASE s = "serving" -> IF MsQuic THEN {"serve", "cp"} ELSE {"serve"}
      [] s \in {"returned", "stopped"} -> IF MsQuic THEN {"cp"} ELSE {}
      [] OTHER -> {}

\* What the server's task owns; only a server that accepts locks its listener.
ServerOwns ==
    /\ server # "serving" => lock = "free"
    /\ acceptor = Held(server)
    /\ sconf = (MsQuic /\ server \notin {"none", "bare", "ended"})
    /\ MsQuic => sreg = CASE server = "none"  -> "none"
                          [] server = "ended" -> "closed"
                          [] OTHER            -> "open"

\* What wait_idle waits for is closed already, and msquic's has waited until the
\* last handle was dropped.
ServerIdle ==
    /\ server \in {"idling", "closing", "bare", "ended"} => svc \in {"none", "closed", "dropped"}
    /\ MsQuic /\ server \in {"closing", "bare", "ended"} => svc # "closed"

\* What the client's task and the worker own, and what the task waited for.
ClientOwns ==
    /\ client = "waiting" <=> channel = "open"
    /\ client = "idling" => MsQuic
    /\ cconf = (MsQuic /\ channel \in {"open", "dropping"})
    /\ MsQuic => /\ "task" \in creg <=> client # "ended"
                 /\ "connector" \in creg <=> channel \in {"open", "dropping", "half"}
                 /\ client = "idling" => cli \in {"closed", "ended", "dropped"}
                 /\ client = "ended" => cli = "dropped"

\* Where the test stands tells which server there is: it is not cancelled while
\* the test talks to it, and its connection is gone when the next one binds.
Script ==
    /\ test = "start" <=> gen = 0
    /\ test = "start" => server = "none" /\ svc = "none" /\ cli = "none"
    /\ test \in {"hello", "greeted", "closing"} => server = "serving" /\ ~token
    /\ test = "slept" => /\ gen = 1 /\ server = "ended"
                         /\ svc \in {"none", "dropped"} /\ cli = "ended"
    /\ client # "waiting" => gen = 2 /\ test \in {"closing", "awaiting", "passed"}

\* The two ends of the connection.
Linked ==
    /\ cli = "dropped" => channel = "gone"
    /\ cli = "open" => svc # "none"
    /\ cli = "none" => test \in {"start", "hello"}
    /\ test = "hello" /\ cli = "open" => svc \in {"pending", "open"}

IInv ==
    /\ TypeOK /\ TestPasses
    /\ ServerOwns /\ ServerIdle /\ ClientOwns /\ Script /\ Linked

\* The steps, by who takes them.
ServerStep ==
    \/ RunServer \/ AcceptLocks \/ Accept \/ ServeReturns \/ CloseEndpoint
    \/ EndpointIdle \/ AcceptorShutdown \/ RegShutdown \/ RegIdle \/ ConfigClosed
    \/ RegClosed \/ ServerConnEnds

ClientStep ==
    \/ ClientConnects \/ ClientConnEnds \/ WorkerDropsConfig \/ WorkerDropsReg
    \/ WorkerDropsSender \/ ClientCloses \/ ClientIdle \/ IdleTimeout

TestStep == Hello \/ CancelServer \/ Joined \/ CloseClient

-----------------------------------------------------------------------------
\* Before the test nothing is bound, and the client's handles are its own.
LEMMA Start == Init => IInv
<1> SUFFICES ASSUME Init PROVE IInv
  OBVIOUS
<1> USE DEF MsQuic
<1>1. creg \subseteq {"task", "connector"} /\ (~MsQuic => creg = {})
  BY DEF Init
<1>2. TypeOK
  <2>1. {token, sconf, cconf} \subseteq BOOLEAN
    BY DEF Init
  <2>2. gen \in 0 .. 2
    BY DEF Init
  <2> QED
    BY <1>1, <2>1, <2>2 DEF Init, TypeOK
<1>3. ServerOwns
  BY DEF Init, ServerOwns, Held
<1>4. ClientOwns
  BY DEF Init, ClientOwns
<1> QED
  BY <1>2, <1>3, <1>4 DEF Init, IInv, TestPasses, ServerIdle, Script, Linked

\* The server and its teardown.
LEMMA ServerKeeps ==
    ASSUME IInv, ServerStep
    PROVE  IInv'
<1> USE DEF MsQuic
<1>0. TypeOK /\ TestPasses /\ ServerOwns /\ ServerIdle /\ ClientOwns /\ Script /\ Linked
  BY DEF IInv
<1>1. CASE RunServer
  <2>1. TypeOK'
    <3>1. gen' \in 0 .. 2
      BY <1>0, <1>1 DEF RunServer, Script, TypeOK
    <3>2. CASE PortBound
      <4>1. {token, sconf, cconf}' \subseteq BOOLEAN
        BY <1>0, <1>1, <3>2 DEF RunServer, TypeOK, srv, clnt
      <4>2. test' = "panicked" /\ kind' = kind /\ srv' = srv /\ clnt' = clnt
        BY <1>1, <3>2 DEF RunServer
      <4> QED
        BY <1>0, <3>1, <4>1, <4>2 DEF TypeOK, srv, clnt
    <3>3. CASE ~PortBound
      <4>1. acceptor' \subseteq {"serve", "cp"} /\ sconf' \in BOOLEAN
        BY <1>1, <3>3 DEF RunServer
      <4> QED
        BY <1>0, <1>1, <3>1, <3>3, <4>1 DEF RunServer, TypeOK, clnt
    <3> QED
      BY <3>2, <3>3
  <2>2. TestPasses'
    BY <1>0, <1>1 DEF RunServer, PortBound, TestPasses, ServerOwns, Script,
       Held, srv, clnt
  <2>3. ServerOwns'
    BY <1>0, <1>1 DEF RunServer, PortBound, ServerOwns, Held, srv, clnt
  <2>4. ServerIdle'
    BY <1>0, <1>1 DEF RunServer, PortBound, ServerIdle, srv, clnt
  <2>5. Script'
    BY <1>0, <1>1 DEF RunServer, PortBound, Script, srv, clnt
  <2>6. Linked'
    BY <1>0, <1>1 DEF RunServer, PortBound, ServerOwns, Script, Linked, Held,
       srv, clnt
  <2>7. ClientOwns'
    BY <1>0, <1>1 DEF RunServer, ClientOwns, srv, clnt
  <2> QED
    BY <2>1, <2>2, <2>3, <2>4, <2>5, <2>6, <2>7 DEF IInv
<1>2. CASE AcceptLocks
  <2>1. TypeOK'
    BY <1>0, <1>2 DEF AcceptLocks, TypeOK, clnt
  <2>2. ServerOwns'
    BY <1>0, <1>2 DEF AcceptLocks, ServerOwns, Held, clnt
  <2>3. TestPasses' /\ ServerIdle' /\ ClientOwns' /\ Script' /\ Linked'
    BY <1>0, <1>2 DEF AcceptLocks, TestPasses, ServerIdle, ClientOwns, Script,
       Linked, clnt
  <2> QED
    BY <2>1, <2>2, <2>3 DEF IInv
<1>3. CASE Accept
  <2>1. TypeOK'
    BY <1>0, <1>3 DEF Accept, TypeOK, clnt
  <2>2. ServerOwns'
    BY <1>0, <1>3 DEF Accept, ServerOwns, Held, clnt
  <2>3. ServerIdle'
    BY <1>0, <1>3 DEF Accept, ServerIdle, clnt
  <2>4. Script'
    BY <1>0, <1>3 DEF Accept, Script, clnt
  <2>5. Linked'
    BY <1>0, <1>3 DEF Accept, Linked, clnt
  <2>6. TestPasses' /\ ClientOwns'
    BY <1>0, <1>3 DEF Accept, TestPasses, ClientOwns, clnt
  <2> QED
    BY <2>1, <2>2, <2>3, <2>4, <2>5, <2>6 DEF IInv
<1>4. CASE ServeReturns
  <2>1. TypeOK'
    BY <1>0, <1>4 DEF ServeReturns, TypeOK, clnt
  <2>2. ServerOwns'
    BY <1>0, <1>4 DEF ServeReturns, ServerOwns, Held, clnt
  <2>3. ServerIdle'
    BY <1>0, <1>4 DEF ServeReturns, ServerIdle, clnt
  <2>4. Script'
    BY <1>0, <1>4 DEF ServeReturns, Script, clnt
  <2>5. TestPasses' /\ ClientOwns' /\ Linked'
    BY <1>0, <1>4 DEF ServeReturns, TestPasses, ClientOwns, Linked, clnt
  <2> QED
    BY <2>1, <2>2, <2>3, <2>4, <2>5 DEF IInv
<1>5. CASE CloseEndpoint
  <2>1. TypeOK'
    BY <1>0, <1>5 DEF CloseEndpoint, Shut, TypeOK, clnt
  <2>2. ServerOwns'
    BY <1>0, <1>5 DEF CloseEndpoint, Shut, ServerOwns, Held, clnt
  <2>3. ServerIdle'
    BY <1>0, <1>5 DEF CloseEndpoint, Shut, TypeOK, ServerIdle, clnt
  <2>4. Script'
    BY <1>0, <1>5 DEF CloseEndpoint, Shut, Script, clnt
  <2>5. Linked'
    BY <1>0, <1>5 DEF CloseEndpoint, Shut, Script, Linked, clnt
  <2>6. TestPasses' /\ ClientOwns'
    BY <1>0, <1>5 DEF CloseEndpoint, TestPasses, ClientOwns, clnt
  <2> QED
    BY <2>1, <2>2, <2>3, <2>4, <2>5, <2>6 DEF IInv
<1>6. CASE EndpointIdle
  <2>1. TypeOK'
    BY <1>0, <1>6 DEF EndpointIdle, TypeOK, clnt
  <2>2. ServerOwns'
    BY <1>0, <1>6 DEF EndpointIdle, ServerOwns, Held, clnt
  <2>3. ServerIdle'
    BY <1>0, <1>6 DEF EndpointIdle, ServerIdle, clnt
  <2>4. Script'
    BY <1>0, <1>6 DEF EndpointIdle, Script, clnt
  <2>5. TestPasses' /\ ClientOwns' /\ Linked'
    BY <1>0, <1>6 DEF EndpointIdle, TestPasses, ClientOwns, Linked, clnt
  <2> QED
    BY <2>1, <2>2, <2>3, <2>4, <2>5 DEF IInv
<1>7. CASE AcceptorShutdown
  <2>1. TypeOK'
    BY <1>0, <1>7 DEF AcceptorShutdown, TypeOK, clnt
  <2>2. ServerOwns'
    BY <1>0, <1>7 DEF AcceptorShutdown, ServerOwns, Held, clnt
  <2>3. ServerIdle'
    BY <1>0, <1>7 DEF AcceptorShutdown, ServerIdle, clnt
  <2>4. Script'
    BY <1>0, <1>7 DEF AcceptorShutdown, Script, clnt
  <2>5. TestPasses' /\ ClientOwns' /\ Linked'
    BY <1>0, <1>7 DEF AcceptorShutdown, TestPasses, ClientOwns, Linked, clnt
  <2> QED
    BY <2>1, <2>2, <2>3, <2>4, <2>5 DEF IInv
<1>8. CASE RegShutdown
  <2>1. TypeOK'
    BY <1>0, <1>8 DEF RegShutdown, Shut, TypeOK, clnt
  <2>2. ServerOwns'
    BY <1>0, <1>8 DEF RegShutdown, Shut, ServerOwns, Held, clnt
  <2>3. ServerIdle'
    BY <1>0, <1>8 DEF RegShutdown, Shut, TypeOK, ServerIdle, clnt
  <2>4. Script'
    BY <1>0, <1>8 DEF RegShutdown, Shut, Script, clnt
  <2>5. Linked'
    BY <1>0, <1>8 DEF RegShutdown, Shut, Script, Linked, clnt
  <2>6. TestPasses' /\ ClientOwns'
    BY <1>0, <1>8 DEF RegShutdown, TestPasses, ClientOwns, clnt
  <2> QED
    BY <2>1, <2>2, <2>3, <2>4, <2>5, <2>6 DEF IInv
<1>9. CASE RegIdle
  <2>1. TypeOK'
    BY <1>0, <1>9 DEF RegIdle, TypeOK, clnt
  <2>2. ServerOwns'
    BY <1>0, <1>9 DEF RegIdle, ServerOwns, Held, clnt
  <2>3. ServerIdle'
    BY <1>0, <1>9 DEF RegIdle, ServerIdle, clnt
  <2>4. Script'
    BY <1>0, <1>9 DEF RegIdle, Script, clnt
  <2>5. TestPasses' /\ ClientOwns' /\ Linked'
    BY <1>0, <1>9 DEF RegIdle, TestPasses, ClientOwns, Linked, clnt
  <2> QED
    BY <2>1, <2>2, <2>3, <2>4, <2>5 DEF IInv
<1>10. CASE RegClosed
  <2>1. TypeOK'
    BY <1>0, <1>10 DEF RegClosed, TypeOK, clnt
  <2>2. ServerOwns'
    BY <1>0, <1>10 DEF RegClosed, ServerOwns, Held, clnt
  <2>3. ServerIdle'
    BY <1>0, <1>10 DEF RegClosed, TypeOK, ServerIdle, clnt
  <2>4. Script'
    BY <1>0, <1>10 DEF RegClosed, Script, clnt
  <2>5. TestPasses' /\ ClientOwns' /\ Linked'
    BY <1>0, <1>10 DEF RegClosed, TestPasses, ClientOwns, Linked, clnt
  <2> QED
    BY <2>1, <2>2, <2>3, <2>4, <2>5 DEF IInv
<1>11. CASE ServerConnEnds
  <2>1. TypeOK'
    BY <1>0, <1>11 DEF ServerConnEnds, TypeOK, clnt
  <2>2. ServerIdle'
    BY <1>0, <1>11 DEF ServerConnEnds, ServerIdle, clnt
  <2>3. Script'
    BY <1>0, <1>11 DEF ServerConnEnds, Script, clnt
  <2>4. Linked'
    BY <1>0, <1>11 DEF ServerConnEnds, Linked, clnt
  <2>5. TestPasses' /\ ServerOwns' /\ ClientOwns'
    BY <1>0, <1>11 DEF ServerConnEnds, TestPasses, ServerOwns, ClientOwns, Held,
       clnt
  <2> QED
    BY <2>1, <2>2, <2>3, <2>4, <2>5 DEF IInv
<1>12. CASE ConfigClosed
  <2>1. TypeOK'
    <3>1. {token, sconf, cconf}' \subseteq BOOLEAN
      BY <1>0, <1>12 DEF ConfigClosed, TypeOK, clnt
    <3>2. ~MsQuic => server # "closing"
      BY <1>0 DEF TypeOK
    <3> QED
      BY <1>0, <1>12, <3>1, <3>2 DEF ConfigClosed, TypeOK, clnt
  <2>2. ServerOwns'
    BY <1>0, <1>12 DEF ConfigClosed, ServerOwns, Held, clnt
  <2>3. ServerIdle'
    BY <1>0, <1>12 DEF ConfigClosed, TypeOK, ServerIdle, clnt
  <2>4. Script'
    BY <1>0, <1>12 DEF ConfigClosed, Script, clnt
  <2>5. TestPasses' /\ ClientOwns' /\ Linked'
    BY <1>0, <1>12 DEF ConfigClosed, TestPasses, ClientOwns, Linked, clnt
  <2> QED
    BY <2>1, <2>2, <2>3, <2>4, <2>5 DEF IInv
<1> QED
  BY <1>1, <1>2, <1>3, <1>4, <1>5, <1>6, <1>7, <1>8, <1>9, <1>10, <1>11, <1>12 DEF
     ServerStep

\* The client, its worker and the idle timeout of its connection.
LEMMA ClientKeeps ==
    ASSUME IInv, ClientStep
    PROVE  IInv'
<1> USE DEF MsQuic
<1>0. TypeOK /\ TestPasses /\ ServerOwns /\ ServerIdle /\ ClientOwns /\ Script /\ Linked
  BY DEF IInv
<1>1. CASE ClientConnects
  <2>1. TypeOK'
    BY <1>0, <1>1 DEF ClientConnects, TypeOK
  <2>2. ServerIdle'
    BY <1>0, <1>1 DEF ClientConnects, ServerIdle
  <2>3. ClientOwns'
    BY <1>0, <1>1 DEF ClientConnects, ClientOwns, Script
  <2>4. Script'
    BY <1>0, <1>1 DEF ClientConnects, Script
  <2>5. Linked'
    BY <1>0, <1>1 DEF ClientConnects, Linked
  <2>6. TestPasses' /\ ServerOwns'
    BY <1>0, <1>1 DEF ClientConnects, TestPasses, ServerOwns, Held
  <2> QED
    BY <2>1, <2>2, <2>3, <2>4, <2>5, <2>6 DEF IInv
<1>2. CASE ClientConnEnds
  <2>1. TypeOK'
    BY <1>0, <1>2 DEF ClientConnEnds, DriverDone, TypeOK, srv
  <2>2. ClientOwns'
    BY <1>0, <1>2 DEF ClientConnEnds, DriverDone, ClientOwns, srv
  <2>3. Script'
    BY <1>0, <1>2 DEF ClientConnEnds, DriverDone, Script, srv
  <2>4. Linked'
    BY <1>0, <1>2 DEF ClientConnEnds, DriverDone, Linked, srv
  <2>5. TestPasses' /\ ServerOwns' /\ ServerIdle'
    BY <1>0, <1>2 DEF ClientConnEnds, DriverDone, TestPasses, ServerOwns, ServerIdle, Held,
       srv
  <2> QED
    BY <2>1, <2>2, <2>3, <2>4, <2>5 DEF IInv
<1>3. CASE WorkerDropsConfig
  <2>1. TypeOK'
    <3>1. {token, sconf, cconf}' \subseteq BOOLEAN
      BY <1>0, <1>3 DEF WorkerDropsConfig, TypeOK, srv
    <3> QED
      BY <1>0, <1>3, <3>1 DEF WorkerDropsConfig, TypeOK, srv
  <2>2. ClientOwns'
    BY <1>0, <1>3 DEF WorkerDropsConfig, ClientOwns, srv
  <2>3. Script'
    BY <1>0, <1>3 DEF WorkerDropsConfig, Script, srv
  <2>4. Linked'
    BY <1>0, <1>3 DEF WorkerDropsConfig, Linked, srv
  <2>5. TestPasses' /\ ServerOwns' /\ ServerIdle'
    BY <1>0, <1>3 DEF WorkerDropsConfig, TestPasses, ServerOwns, ServerIdle,
       Held, srv
  <2> QED
    BY <2>1, <2>2, <2>3, <2>4, <2>5 DEF IInv
<1>4. CASE WorkerDropsReg
  <2>1. TypeOK'
    BY <1>0, <1>4 DEF WorkerDropsReg, TypeOK, srv
  <2>2. ClientOwns'
    BY <1>0, <1>4 DEF WorkerDropsReg, ClientOwns, srv
  <2>3. TestPasses' /\ ServerOwns' /\ ServerIdle' /\ Script' /\ Linked'
    BY <1>0, <1>4 DEF WorkerDropsReg, TestPasses, ServerOwns, ServerIdle,
       Script, Linked, Held, srv
  <2> QED
    BY <2>1, <2>2, <2>3 DEF IInv
<1>5. CASE ClientCloses
  <2>1. TypeOK'
    BY <1>0, <1>5 DEF ClientCloses, TypeOK, srv
  <2>2. ClientOwns'
    BY <1>0, <1>5 DEF ClientCloses, TypeOK, ClientOwns, Script, Linked, srv
  <2>3. Script'
    BY <1>0, <1>5 DEF ClientCloses, Script, srv
  <2>4. Linked'
    BY <1>0, <1>5 DEF ClientCloses, Linked, srv
  <2>5. TestPasses' /\ ServerOwns' /\ ServerIdle'
    BY <1>0, <1>5 DEF ClientCloses, TestPasses, ServerOwns, ServerIdle, Held,
       srv
  <2> QED
    BY <2>1, <2>2, <2>3, <2>4, <2>5 DEF IInv
<1>6. CASE ClientIdle
  <2>1. TypeOK'
    BY <1>0, <1>6 DEF ClientIdle, TypeOK, srv
  <2>2. ClientOwns'
    BY <1>0, <1>6 DEF ClientIdle, ClientOwns, Script, Linked, srv
  <2>3. Script'
    BY <1>0, <1>6 DEF ClientIdle, Script, srv
  <2>4. TestPasses' /\ ServerOwns' /\ ServerIdle' /\ Linked'
    BY <1>0, <1>6 DEF ClientIdle, TestPasses, ServerOwns, ServerIdle, Linked,
       Held, srv
  <2> QED
    BY <2>1, <2>2, <2>3, <2>4 DEF IInv
<1>7. CASE IdleTimeout
  <2>1. TypeOK'
    BY <1>0, <1>7 DEF IdleTimeout, TypeOK, clnt
  <2>2. ServerIdle'
    BY <1>0, <1>7 DEF IdleTimeout, ServerIdle, clnt
  <2>3. Script'
    BY <1>0, <1>7 DEF IdleTimeout, Script, clnt
  <2>4. Linked'
    BY <1>0, <1>7 DEF IdleTimeout, Linked, clnt
  <2>5. TestPasses' /\ ServerOwns' /\ ClientOwns'
    BY <1>0, <1>7 DEF IdleTimeout, TestPasses, ServerOwns, ClientOwns, Held,
       clnt
  <2> QED
    BY <2>1, <2>2, <2>3, <2>4, <2>5 DEF IInv
<1>8. CASE WorkerDropsSender
  <2>1. TypeOK'
    BY <1>0, <1>8 DEF WorkerDropsSender, TypeOK, srv
  <2>2. ClientOwns'
    BY <1>0, <1>8 DEF WorkerDropsSender, ClientOwns, srv
  <2>3. Script'
    BY <1>0, <1>8 DEF WorkerDropsSender, ClientOwns, Script, srv
  <2>4. Linked'
    BY <1>0, <1>8 DEF WorkerDropsSender, Linked, srv
  <2>5. TestPasses' /\ ServerOwns' /\ ServerIdle'
    BY <1>0, <1>8 DEF WorkerDropsSender, TestPasses, ServerOwns, ServerIdle,
       Held, srv
  <2> QED
    BY <2>1, <2>2, <2>3, <2>4, <2>5 DEF IInv
<1> QED
  BY <1>1, <1>2, <1>3, <1>4, <1>5, <1>6, <1>7, <1>8 DEF ClientStep

\* The test itself.
LEMMA TestKeeps ==
    ASSUME IInv, TestStep
    PROVE  IInv'
<1> USE DEF MsQuic
<1>0. TypeOK /\ TestPasses /\ ServerOwns /\ ServerIdle /\ ClientOwns /\ Script /\ Linked
  BY DEF IInv
<1>1. CASE Hello
  <2>1. TypeOK'
    BY <1>0, <1>1 DEF Hello, TypeOK, srv, clnt
  <2>2. TestPasses'
    BY <1>0, <1>1 DEF Hello, TestPasses, Linked, srv, clnt
  <2>3. Script'
    BY <1>0, <1>1 DEF Hello, Script, srv, clnt
  <2>4. Linked'
    BY <1>0, <1>1 DEF Hello, Linked, srv, clnt
  <2>5. ServerOwns' /\ ServerIdle' /\ ClientOwns'
    BY <1>0, <1>1 DEF Hello, ServerOwns, ServerIdle, ClientOwns, Held, srv, clnt
  <2> QED
    BY <2>1, <2>2, <2>3, <2>4, <2>5 DEF IInv
<1>2. CASE CancelServer
  <2>1. TypeOK'
    BY <1>0, <1>2 DEF CancelServer, TypeOK, clnt
  <2>2. TestPasses'
    BY <1>0, <1>2 DEF CancelServer, TestPasses, clnt
  <2>3. Script'
    BY <1>0, <1>2 DEF CancelServer, Script, clnt
  <2>4. Linked'
    BY <1>0, <1>2 DEF CancelServer, Linked, clnt
  <2>5. ServerOwns' /\ ServerIdle' /\ ClientOwns'
    BY <1>0, <1>2 DEF CancelServer, ServerOwns, ServerIdle, ClientOwns, Held,
       clnt
  <2> QED
    BY <2>1, <2>2, <2>3, <2>4, <2>5 DEF IInv
<1>3. CASE Joined
  <2>1. TypeOK'
    BY <1>0, <1>3 DEF Joined, Settled, DriverDone, TypeOK, srv, clnt
  <2>2. TestPasses'
    BY <1>0, <1>3 DEF Joined, Settled, DriverDone, TestPasses, srv, clnt
  <2>3. Script'
    BY <1>0, <1>3 DEF Joined, Settled, DriverDone, TypeOK, ServerIdle, ClientOwns,
       Script, Linked, srv, clnt
  <2>4. Linked'
    BY <1>0, <1>3 DEF Joined, Settled, DriverDone, Linked, srv, clnt
  <2>5. ServerOwns' /\ ServerIdle' /\ ClientOwns'
    BY <1>0, <1>3 DEF Joined, Settled, DriverDone, ServerOwns, ServerIdle, ClientOwns, Held, srv,
       clnt
  <2> QED
    BY <2>1, <2>2, <2>3, <2>4, <2>5 DEF IInv
<1>4. CASE CloseClient
  <2>1. TypeOK'
    BY <1>0, <1>4 DEF CloseClient, TypeOK, srv
  <2>2. TestPasses'
    BY <1>0, <1>4 DEF CloseClient, TestPasses, srv
  <2>3. ClientOwns'
    BY <1>0, <1>4 DEF CloseClient, ClientOwns, Script, srv
  <2>4. Script'
    BY <1>0, <1>4 DEF CloseClient, Script, srv
  <2>5. Linked'
    BY <1>0, <1>4 DEF CloseClient, ClientOwns, Script, Linked, srv
  <2>6. ServerOwns' /\ ServerIdle'
    BY <1>0, <1>4 DEF CloseClient, ServerOwns, ServerIdle, Held, srv
  <2> QED
    BY <2>1, <2>2, <2>3, <2>4, <2>5, <2>6 DEF IInv
<1> QED
  BY <1>1, <1>2, <1>3, <1>4 DEF TestStep

-----------------------------------------------------------------------------
THEOREM Inductive == Spec => []IInv
<1>1. IInv /\ [Next]_vars => IInv'
  <2> SUFFICES ASSUME IInv, [Next]_vars PROVE IInv'
    OBVIOUS
  <2>1. CASE UNCHANGED vars
    BY <2>1 DEF vars, srv, clnt, IInv, TypeOK, TestPasses, ServerOwns, ServerIdle,
       ClientOwns, Script, Linked, Held, MsQuic
  <2> QED
    BY <2>1, ServerKeeps, ClientKeeps, TestKeeps
    DEF Next, Step, ServerStep, ClientStep, TestStep
<1> QED
  BY Start, <1>1, PTL DEF Spec

\* The types; of the libraries only msquic has registrations, and its teardown
\* only runs for its servers.
THEOREM TypeCorrect == Spec => []TypeOK
<1>1. IInv => TypeOK
  BY DEF IInv
<1> QED
  BY Inductive, <1>1, PTL

\* reconnect_test does not panic: once the sleep behind a stopped server's end has
\* let its connection's tasks end its port is free, with the client still there, and
\* the client's next request reaches the new server.
THEOREM TestPassesHolds == Spec => []TestPasses
<1>1. IInv => TestPasses
  BY DEF IInv
<1> QED
  BY Inductive, <1>1, PTL

\* Whoever drops the last owner of a registration, RegistrationClose finds
\* nothing left to wait for.  The connector gives its owner up before the sender that
\* keeps the connection, but never as the last: the client's task still waits then,
\* until the sender is gone too.
THEOREM RegistrationClosedLastHolds == Spec => []RegistrationClosedLast
<1>1. IInv => RegistrationClosedLast
  <2> SUFFICES ASSUME IInv, MsQuic PROVE RegistrationClosedLast
    BY DEF RegistrationClosedLast
  <2>1. sreg = "closed" => server = "ended"
    BY DEF IInv, ServerOwns
  <2>2. creg = {} => client = "ended" /\ channel \in {"sender", "gone"}
    BY DEF IInv, TypeOK, ClientOwns
  <2> QED
    BY <2>1, <2>2 DEF RegistrationClosedLast, IInv, ServerOwns, ServerIdle,
       ClientOwns, Held
<1> QED
  BY Inductive, <1>1, PTL

\* Neither teardown ever waits for the other side: the lock that msquic's shutdown
\* needs is free by then, and what wait_idle waits for, at the server and at the
\* client, is closed already and lacks only the end of tasks of its own, the worker of
\* the channel among them, whose last handle is dropped.
NeverWaitsForPeer ==
    /\ server = "returned" => lock = "free"
    /\ server = "idling" => acceptor = {} /\ svc \in {"none", "closed", "dropped"}
    /\ client = "idling" => cli \in {"closed", "ended", "dropped"} /\ channel # "open"

\* The reason behind TestEnds: a server goes down under a client that keeps its
\* connection, and a client under a server that does, with every library.
THEOREM NeverWaitsForPeerHolds == Spec => []NeverWaitsForPeer
<1>1. IInv => NeverWaitsForPeer
  BY DEF IInv, NeverWaitsForPeer, ServerOwns, ServerIdle, ClientOwns, Held
<1> QED
  BY Inductive, <1>1, PTL
=============================================================================
