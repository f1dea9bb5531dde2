------------------------------ MODULE RpcProofs ------------------------------
(***************************************************************************)
(* Proofs about the composition of WsClient and RpcServer, for any number  *)
(* of chains, sockets and calls.                                           *)
(*                                                                         *)
(* A step of Rpc is a step of WsClient or leaves the client as it is, so   *)
(* the theorems of WsClientProofs hold with the real server at the other   *)
(* end.  In turn, that a request is transmitted at most once over all      *)
(* sockets gives each call one place in the network or at the server       *)
(* (OnePlace): its method runs once, and once its response is sent it will *)
(* not run again.  A step of Rpc is a step of RpcServer too, so what is    *)
(* proved of the server alone, with events, holds end to end.              *)
(***************************************************************************)
EXTENDS Rpc, WsClientProofs, FiniteSetTheorems

(* Every id is on its way to one socket, or was received on one, never     *)
(* both, and only after it was transmitted.                                *)
OnePlace ==
    /\ \A s \in Socket : \A k \in 1 .. Len(toServer[s]) :
          /\ toServer[s][k] \in Range(wire)
          /\ \A q \in Socket : <<q, toServer[s][k]>> \notin received
    /\ \A s, q \in Socket :
          \A k \in 1 .. Len(toServer[s]), l \in 1 .. Len(toServer[q]) :
              toServer[s][k] = toServer[q][l] => s = q /\ k = l
    /\ \A s \in Socket, i \in Req : <<s, i>> \in received => i \in Range(wire)
    /\ \A s, q \in Socket, i \in Req :
          <<s, i>> \in received /\ <<q, i>> \in received => s = q

(* A method was called at most once, and not for a request that was not    *)
(* received.                                                               *)
RunsCounted ==
    \A i \in Req : /\ executed[i] <= 1
                   /\ executed[i] = 1 => \E s \in Socket : <<s, i>> \in received

(* A response is one to a request of the same socket that is finished, in  *)
(* an end that can be told.                                                *)
ResponsesFinal ==
    \A s \in Socket : \A k \in 1 .. Len(sent[s]) :
        /\ sent[s][k][1] # "event"
        /\ sent[s][k][2] # NoId =>
              <<s, sent[s][k][2]>> \in received \ (running \cup untold)

RInv == RpcTypeOK /\ OnePlace /\ RunsCounted /\ ResponsesFinal /\ AnswersAreGenuine

-----------------------------------------------------------------------------
(* The client in the composition.                                          *)

(* Every step of the composition is a step of the client or a stutter.     *)
LEMMA StepSimulation ==
    ASSUME RpcTypeOK, ResponsesFinal, RpcNext
    PROVE  [Next]_vars
<1>1. CASE ClientSends
    BY <1>1 DEF ClientSends, Next, Application
<1>2. CASE ClientAlone
    BY <1>2 DEF ClientAlone, Next, Application, Outcome
<1>3. ASSUME NEW c \in Conn, ClientOpens(c) PROVE Next
    BY <1>3 DEF ClientOpens, Next, Outcome
<1>4. ASSUME NEW c \in Conn, ClientCloses(c) PROVE Next
    BY <1>4 DEF ClientCloses, Next
<1>5. ASSUME NEW c \in Conn, Deliver(c) PROVE [Next]_vars
    <2> DEFINE s == peer[c]
               i == sent[s][read[s] + 1][2]
    <2>1. CASE i = NoId /\ UNCHANGED vars
        BY <2>1
    <2>2. CASE i # NoId /\ Response(i)
        <3>1. s \in Socket /\ read[s] \in Nat /\ Len(sent[s]) \in Nat
            BY <1>5 DEF Deliver, RpcTypeOK, ServerTypeOK
        <3>2. read[s] + 1 \in 1 .. Len(sent[s])
            BY <1>5, <3>1 DEF Deliver
        <3>3. <<s, i>> \in Socket \X Req
            BY <2>2, <3>1, <3>2 DEF ResponsesFinal, RpcTypeOK, ServerTypeOK
        <3> QED
            BY <2>2, <3>3, IdsAssumption DEF Next
    <2> QED
        BY <1>5, <2>1, <2>2 DEF Deliver
<1>6. ASSUME NEW s \in Socket, Receive(s) PROVE UNCHANGED vars
    BY <1>6 DEF Receive
<1> QED
    BY <1>1, <1>2, <1>3, <1>4, <1>5, <1>6 DEF RpcNext, ServerAlone

(* What a step of the client adds to the wire was never transmitted.       *)
LEMMA NewlySentFresh ==
    ASSUME IInv, IInv', [Next]_vars
    PROVE  /\ NewlySent \in Seq(CallId)
           /\ Range(wire) \subseteq Range(wire')
           /\ \A k \in 1 .. Len(NewlySent) :
                 NewlySent[k] \in Range(wire') \ Range(wire)
           /\ \A k, l \in 1 .. Len(NewlySent) :
                 NewlySent[k] = NewlySent[l] => k = l
<1>1. wire \in Seq(CallId) /\ wire' \in Seq(CallId)
    BY DEF IInv, TypeOK
<1>2. Calls!WireExtended \/ wire' = wire
    BY StepImplements
    DEF Calls!Next, Calls!Issue, Calls!Answer, Calls!Transmit, Calls!Abort,
        Calls!vars
<1> DEFINE m == Len(wire)  n == Len(wire')
<1>3. /\ m \in Nat /\ n \in Nat /\ n >= m
      /\ \A k \in 1 .. m : wire'[k] = wire[k]
      /\ \A k \in m + 1 .. n : \A l \in 1 .. k - 1 : wire'[l] # wire'[k]
    <2>1. m \in Nat /\ n \in Nat
        BY <1>1, LenProperties
    <2>2. CASE Calls!WireExtended
        BY <2>1, <2>2 DEF Calls!WireExtended
    <2>3. CASE wire' = wire
        BY <2>1, <2>3
    <2> QED
        BY <1>2, <2>1, <2>2, <2>3
<1>4. /\ NewlySent \in Seq(CallId) /\ Len(NewlySent) = n - m
      /\ \A k \in 1 .. n - m : NewlySent[k] = wire'[m + k]
    <2>1. \A k \in m + 1 .. n : wire'[k] \in CallId
        BY <1>1, <1>3, ElementOfSeq
    <2>2. /\ SubSeq(wire', m + 1, n) \in Seq(CallId)
          /\ Len(SubSeq(wire', m + 1, n)) = IF m + 1 <= n THEN n - (m + 1) + 1 ELSE 0
          /\ \A k \in 1 .. n - (m + 1) + 1 :
                SubSeq(wire', m + 1, n)[k] = wire'[(m + 1) + k - 1]
        BY <1>3, <2>1, SubSeqProperties
    <2> QED
        BY <1>3, <2>2 DEF NewlySent
<1>5. /\ Range(wire) = {wire[k] : k \in 1 .. m}
      /\ Range(wire') = {wire'[k] : k \in 1 .. n}
    BY <1>1, RangeEquality
<1> HIDE DEF m, n
<1>6. ASSUME NEW k \in 1 .. n - m
      PROVE  /\ NewlySent[k] = wire'[m + k]
             /\ m + k \in m + 1 .. n /\ m + k \in 1 .. n
             /\ \A l \in 1 .. m + k - 1 : wire'[l] # wire'[m + k]
    BY <1>3, <1>4
<1>7. ASSUME NEW k \in 1 .. n - m
      PROVE  NewlySent[k] \in Range(wire') \ Range(wire)
    <2>1. \A l \in 1 .. m : wire[l] # wire'[m + k]
        BY <1>3, <1>6, <1>7
    <2> QED
        BY <1>5, <1>6, <1>7, <2>1
<1>8. ASSUME NEW k \in 1 .. n - m, NEW l \in 1 .. n - m, k < l
      PROVE  NewlySent[k] # NewlySent[l]
    <2>1. m + k \in 1 .. m + l - 1
        BY <1>3, <1>8
    <2> QED
        BY <1>6, <2>1
<1>9. \A k, l \in 1 .. n - m : NewlySent[k] = NewlySent[l] => k = l
    <2> SUFFICES ASSUME NEW k \in 1 .. n - m, NEW l \in 1 .. n - m, k # l
                 PROVE  NewlySent[k] # NewlySent[l]
        OBVIOUS
    <2>1. k < l \/ l < k
        BY <1>3
    <2> QED
        BY <1>8, <2>1
<1>10. Range(wire) \subseteq Range(wire')
    BY <1>3, <1>5
<1> QED
    BY <1>4, <1>7, <1>9, <1>10

-----------------------------------------------------------------------------
(* The network.                                                            *)

(* Requests that were never transmitted before are put on a socket.        *)
LEMMA RequestsSent ==
    ASSUME RpcTypeOK, OnePlace, IInv, IInv', [Next]_vars, NEW p,
           \A s \in Socket : toServer'[s] =
               IF s = p THEN toServer[s] \o NewlySent ELSE toServer[s],
           received' = received
    PROVE  /\ OnePlace'
           /\ \A s \in Socket : toServer'[s] \in Seq(Req)
<1> DEFINE new == NewlySent
<1>1. \A s \in Socket : toServer[s] \in Seq(CallId) /\ Len(toServer[s]) \in Nat
    BY IdsAssumption, LenProperties DEF RpcTypeOK
<1>2. /\ new \in Seq(CallId) /\ Len(new) \in Nat
      /\ Range(wire) \subseteq Range(wire')
      /\ \A k \in 1 .. Len(new) : new[k] \in Range(wire') \ Range(wire)
      /\ \A k, l \in 1 .. Len(new) : new[k] = new[l] => k = l
    BY NewlySentFresh, LenProperties
<1> HIDE DEF new
<1>3. ASSUME NEW s \in Socket
      PROVE  /\ toServer'[s] \in Seq(CallId)
             /\ \A k \in 1 .. Len(toServer'[s]) :
                   \/ k \in 1 .. Len(toServer[s]) /\ toServer'[s][k] = toServer[s][k]
                   \/ /\ s = p /\ k - Len(toServer[s]) \in 1 .. Len(new)
                      /\ toServer'[s][k] = new[k - Len(toServer[s])]
    <2>1. CASE s = p
        <3>1. toServer'[s] = toServer[s] \o new
            BY <2>1 DEF new
        <3>2. /\ toServer[s] \o new \in Seq(CallId)
              /\ Len(toServer[s] \o new) = Len(toServer[s]) + Len(new)
              /\ \A k \in 1 .. Len(toServer[s]) + Len(new) :
                    (toServer[s] \o new)[k] =
                        IF k <= Len(toServer[s]) THEN toServer[s][k]
                        ELSE new[k - Len(toServer[s])]
            BY <1>1, <1>2, ConcatProperties
        <3> QED
            BY <1>1, <1>2, <2>1, <3>1, <3>2
    <2>2. CASE s # p
        BY <1>1, <2>2
    <2> QED
        BY <2>1, <2>2
<1>4. \A s \in Socket : /\ Len(toServer'[s]) \in Nat
                         /\ \A k \in 1 .. Len(toServer'[s]) : toServer'[s][k] \in Req
    BY <1>3, IdsAssumption, ElementOfSeq, LenProperties
<1>5. ASSUME NEW s \in Socket, NEW k \in 1 .. Len(toServer'[s])
      PROVE  /\ toServer'[s][k] \in Range(wire')
             /\ \A q \in Socket : <<q, toServer'[s][k]>> \notin received
    <2>1. CASE k \in 1 .. Len(toServer[s]) /\ toServer'[s][k] = toServer[s][k]
        BY <1>2, <2>1 DEF OnePlace
    <2>2. CASE /\ k - Len(toServer[s]) \in 1 .. Len(new)
               /\ toServer'[s][k] = new[k - Len(toServer[s])]
        <3>1. /\ toServer'[s][k] \in Range(wire') \ Range(wire)
              /\ toServer'[s][k] \in Req
            BY <1>2, <1>4, <1>5, <2>2
        <3> QED
            BY <3>1 DEF OnePlace
    <2> QED
        BY <1>3, <1>5, <2>1, <2>2
<1>6. ASSUME NEW s \in Socket, NEW q \in Socket,
             NEW k \in 1 .. Len(toServer'[s]), NEW l \in 1 .. Len(toServer'[q]),
             toServer'[s][k] = toServer'[q][l]
      PROVE  s = q /\ k = l
    <2> DEFINE Old(r, j) == /\ j \in 1 .. Len(toServer[r])
                            /\ toServer'[r][j] = toServer[r][j]
               New(r, j) == /\ r = p /\ j - Len(toServer[r]) \in 1 .. Len(new)
                            /\ toServer'[r][j] = new[j - Len(toServer[r])]
    <2>1. (Old(s, k) \/ New(s, k)) /\ (Old(q, l) \/ New(q, l))
        BY <1>3, <1>6
    <2>2. /\ Old(s, k) => toServer'[s][k] \in Range(wire)
          /\ Old(q, l) => toServer'[q][l] \in Range(wire)
        BY DEF OnePlace
    <2>3. /\ New(s, k) => toServer'[s][k] \notin Range(wire)
          /\ New(q, l) => toServer'[q][l] \notin Range(wire)
        BY <1>2
    <2>4. CASE Old(s, k) /\ Old(q, l)
        <3>1. /\ k \in 1 .. Len(toServer[s]) /\ l \in 1 .. Len(toServer[q])
              /\ toServer[s][k] = toServer[q][l]
            BY <1>6, <2>4
        <3> QED
            BY <3>1 DEF OnePlace
    <2>5. CASE New(s, k) /\ New(q, l)
        <3>1. s = q /\ toServer'[s][k] = toServer'[q][l]
            BY <1>6, <2>5
        <3>2. k - Len(toServer[s]) = l - Len(toServer[s])
            BY <1>2, <2>5, <3>1
        <3>3. k \in Int /\ l \in Int /\ Len(toServer[s]) \in Int
            BY <1>1, <1>4, <1>6
        <3> QED
            BY <3>1, <3>2, <3>3
    <2> QED
        BY <1>6, <2>1, <2>2, <2>3, <2>4, <2>5
<1> QED
    BY <1>2, <1>3, <1>5, <1>6, IdsAssumption DEF OnePlace

(* A step that puts nothing on the network.                                *)
LEMMA NothingOnWay ==
    ASSUME OnePlace, IInv, IInv', [Next]_vars, UNCHANGED <<toServer, received>>
    PROVE  OnePlace'
BY NewlySentFresh DEF OnePlace

(* What send() does to the messages of each socket.                        *)
LEMMA SendAppends ==
    ASSUME ServerTypeOK, NEW s \in Socket, NEW m \in Message, send(s, <<m>>)
    PROVE  /\ sent' \in [Socket -> Seq(Message)]
           /\ \A q \in Socket :
                 /\ Len(sent'[q]) \in Nat /\ Len(sent'[q]) >= Len(sent[q])
                 /\ \A k \in 1 .. Len(sent[q]) : sent'[q][k] = sent[q][k]
                 /\ \A k \in Len(sent[q]) + 1 .. Len(sent'[q]) :
                       q = s /\ sent'[q][k] = m
<1>1. \A q \in Socket : sent[q] \in Seq(Message) /\ Len(sent[q]) \in Nat
    BY LenProperties DEF ServerTypeOK
<1>2. <<m>> \in Seq(Message) /\ Len(<<m>>) = 1 /\ <<m>>[1] = m
    OBVIOUS
<1>3. /\ sent[s] \o <<m>> \in Seq(Message)
      /\ Len(sent[s] \o <<m>>) = Len(sent[s]) + 1
      /\ \A k \in 1 .. Len(sent[s]) + 1 : (sent[s] \o <<m>>)[k] =
            IF k <= Len(sent[s]) THEN sent[s][k] ELSE <<m>>[k - Len(sent[s])]
    BY <1>1, <1>2, ConcatProperties
<1>4. \A q \in Socket : sent'[q] =
          IF q = s /\ readyState[s] = "open" THEN sent[s] \o <<m>> ELSE sent[q]
    BY DEF send, ServerTypeOK
<1>5. sent' \in [Socket -> Seq(Message)]
    <2> DEFINE queue == IF readyState[s] = "open" THEN sent[s] \o <<m>> ELSE sent[s]
    <2>1. sent' = [sent EXCEPT ![s] = queue]
        BY DEF send
    <2>2. queue \in Seq(Message)
        BY <1>1, <1>3
    <2>3. sent \in [Socket -> Seq(Message)]
        BY DEF ServerTypeOK
    <2> HIDE DEF queue
    <2> QED
        BY <2>1, <2>2, <2>3
<1>6. ASSUME NEW q \in Socket
      PROVE  /\ Len(sent'[q]) \in Nat /\ Len(sent'[q]) >= Len(sent[q])
             /\ \A k \in 1 .. Len(sent[q]) : sent'[q][k] = sent[q][k]
             /\ \A k \in Len(sent[q]) + 1 .. Len(sent'[q]) :
                   q = s /\ sent'[q][k] = m
    <2>1. CASE sent'[q] = sent[q]
        BY <1>1, <2>1
    <2>2. CASE q = s /\ sent'[q] = sent[s] \o <<m>>
        BY <1>1, <1>2, <1>3, <2>2
    <2> QED
        BY <1>4, <2>1, <2>2
<1> QED
    BY <1>5, <1>6

(* A response of a finished request, or one without id, is sent.           *)
LEMMA ResponseSent ==
    ASSUME RInv, NEW s \in Socket, NEW m \in Message, send(s, <<m>>),
           m[1] # "event", m[2] # NoId => <<s, m[2]>> \in received' \ (running' \cup untold'),
           received \ (running \cup untold)
              \subseteq received' \ (running' \cup untold'),
           UNCHANGED <<read, call>>
    PROVE  /\ ResponsesFinal' /\ AnswersAreGenuine'
           /\ \A q \in Socket : read'[q] <= Len(sent'[q])
<1>1. /\ \A q \in Socket : Len(sent[q]) \in Nat /\ read[q] \in Nat
      /\ \A q \in Socket : read[q] <= Len(sent[q])
    BY LenProperties DEF RInv, RpcTypeOK, ServerTypeOK
<1>2. \A q \in Socket :
          /\ Len(sent'[q]) \in Nat /\ Len(sent'[q]) >= Len(sent[q])
          /\ \A k \in 1 .. Len(sent[q]) : sent'[q][k] = sent[q][k]
          /\ \A k \in Len(sent[q]) + 1 .. Len(sent'[q]) :
                q = s /\ sent'[q][k] = m
    BY SendAppends DEF RInv, RpcTypeOK
<1>3. ASSUME NEW q \in Socket, NEW k \in 1 .. Len(sent'[q])
      PROVE  /\ sent'[q][k][1] # "event"
             /\ sent'[q][k][2] # NoId =>
                   <<q, sent'[q][k][2]>> \in received' \ (running' \cup untold')
    <2>1. CASE k \in 1 .. Len(sent[q])
        BY <1>2, <2>1 DEF RInv, ResponsesFinal
    <2>2. CASE k \notin 1 .. Len(sent[q])
        BY <1>1, <1>2, <2>2
    <2> QED
        BY <2>1, <2>2
<1>4. ASSUME NEW i \in CallId, call[i] = "answered"
      PROVE  \E q \in Socket :
                /\ <<q, i>> \in received' \ (running' \cup untold')
                /\ \E k \in 1 .. read[q] : sent'[q][k] \in {"result", "error"} \X {i}
    <2>1. PICK q \in Socket :
              /\ <<q, i>> \in received \ (running \cup untold)
              /\ \E k \in 1 .. read[q] : sent[q][k] \in {"result", "error"} \X {i}
        BY <1>4 DEF RInv, AnswersAreGenuine
    <2>2. PICK k \in 1 .. read[q] : sent[q][k] \in {"result", "error"} \X {i}
        BY <2>1
    <2>3. sent'[q][k] \in {"result", "error"} \X {i}
        BY <1>1, <1>2, <2>2
    <2> QED
        BY <2>1, <2>3
<1>5. ResponsesFinal'
    BY <1>3 DEF ResponsesFinal
<1>6. AnswersAreGenuine'
    <2> SUFFICES ASSUME NEW i \in CallId, call'[i] = "answered"
                 PROVE  \E q \in Socket :
                           /\ <<q, i>> \in received' \ (running' \cup untold')
                           /\ \E k \in 1 .. read'[q] :
                                 sent'[q][k] \in {"result", "error"} \X {i}
        BY DEF AnswersAreGenuine
    <2>1. call' = call /\ read' = read
        OBVIOUS
    <2> QED
        BY <2>1, <1>4
<1> QED
    BY <1>1, <1>2, <1>5, <1>6

-----------------------------------------------------------------------------
(* Type correctness and the invariant, one group of steps at a time.       *)

(* Nothing is under way, received or sent at first.                        *)
LEMMA RInit == RpcInit => RInv
<1> SUFFICES ASSUME RpcInit PROVE RInv
    OBVIOUS
<1>1. \A S : <<>> \in Seq(S) /\ Len(<<>>) = 0
    BY EmptySeq
<1>2. RpcTypeOK
    BY <1>1, EventsAssumption DEF RpcInit, ServerInit, RpcTypeOK, ServerTypeOK
<1>3. OnePlace /\ ResponsesFinal
    BY <1>1 DEF RpcInit, ServerInit, OnePlace, ResponsesFinal
<1>4. RunsCounted
    BY DEF RpcInit, ServerInit, RunsCounted
<1>5. AnswersAreGenuine
    BY DEF RpcInit, Init, AnswersAreGenuine
<1> QED
    BY <1>2, <1>3, <1>4, <1>5 DEF RInv

(* Only a response makes a call answered.                                  *)
LEMMA AnsweredOnlyByResponse ==
    ASSUME IInv, NEW i \in CallId, call'[i] = "answered",
           \/ Application
           \/ \E c \in Conn : \/ Outcome(c) \/ RetryTimer(c) \/ CloseBegins(c)
                              \/ CloseEvent(c) \/ ReconnectTimer(c)
    PROVE  call[i] = "answered"
<1>1. call \in [CallId -> CallStatus]
    BY DEF IInv, TypeOK
<1>2. CASE Application
    BY <1>1, <1>2
    DEF Application, Connect, Disconnect, CallSent, CallQueued, CallRefused,
        NewCall, HandleClose, rpcVars
<1>3. ASSUME NEW c \in Conn, Outcome(c) PROVE call[i] = "answered"
    BY <1>1, <1>3
    DEF Outcome, Opened, OpenedListenerCalls, OpenedClosing, ConnectFailed,
        ConnectGivesUp, NewCall, HandleClose, rpcVars
<1>4. ASSUME NEW c \in Conn,
             \/ RetryTimer(c) \/ CloseBegins(c) \/ CloseEvent(c)
             \/ ReconnectTimer(c)
      PROVE  call[i] = "answered"
    BY <1>1, <1>4
    DEF RetryTimer, CloseBegins, CloseEvent, CloseIgnored, CloseReconnects,
        CloseForGood, ReconnectTimer, HandleClose, rpcVars
<1> QED
    BY <1>2, <1>3, <1>4

(* A step of the client other than a response, with what it transmits.     *)
LEMMA ClientStep ==
    ASSUME RInv, IInv, IInv', [Next]_vars, NEW p,
           \/ Application
           \/ \E c \in Conn : \/ Outcome(c) \/ RetryTimer(c) \/ CloseBegins(c)
                              \/ CloseEvent(c) \/ ReconnectTimer(c),
           \/ toServer' = toServer
           \/ toServer' = [toServer EXCEPT ![p] = @ \o NewlySent],
           ServerTypeOK', peer' \in [Conn -> Socket \cup {None}],
           UNCHANGED <<received, running, untold, executed, sent, read>>
    PROVE  RInv'
<1>1. OnePlace' /\ toServer' \in [Socket -> Seq(Req)]
    <2>1. CASE toServer' = toServer
        BY <2>1, NothingOnWay DEF RInv, RpcTypeOK
    <2>2. CASE toServer' = [toServer EXCEPT ![p] = @ \o NewlySent]
        <3>1. \A s \in Socket : toServer'[s] =
                 IF s = p THEN toServer[s] \o NewlySent ELSE toServer[s]
            BY <2>2 DEF RInv, RpcTypeOK
        <3>2. OnePlace' /\ \A s \in Socket : toServer'[s] \in Seq(Req)
            BY <3>1, RequestsSent DEF RInv
        <3>3. toServer' = [s \in Socket |-> toServer'[s]]
            BY <2>2 DEF RInv, RpcTypeOK
        <3> QED
            BY <3>2, <3>3
    <2> QED
        BY <2>1, <2>2
<1>2. RpcTypeOK'
    BY <1>1 DEF RInv, RpcTypeOK
<1>3. AnswersAreGenuine'
    BY AnsweredOnlyByResponse DEF RInv, AnswersAreGenuine
<1>4. RunsCounted' /\ ResponsesFinal'
    BY DEF RInv, RunsCounted, ResponsesFinal
<1> QED
    BY <1>1, <1>2, <1>3, <1>4 DEF RInv

(* A response reaches the client: it is of a finished request of the       *)
(* socket, by ResponsesFinal.                                              *)
LEMMA DeliverStep ==
    ASSUME RInv, IInv, IInv', [Next]_vars, NEW c \in Conn, Deliver(c)
    PROVE  RInv'
<1> DEFINE s == peer[c]
           m == sent[s][read[s] + 1]
<1>1. /\ s \in Socket /\ read \in [Socket -> Nat]
      /\ read[s] \in Nat /\ Len(sent[s]) \in Nat /\ sent[s] \in Seq(Message)
      /\ read[s] + 1 \in 1 .. Len(sent[s])
    <2>1. s \in Socket /\ read \in [Socket -> Nat] /\ sent[s] \in Seq(Message)
        BY DEF Deliver, RInv, RpcTypeOK, ServerTypeOK
    <2>2. Len(sent[s]) \in Nat /\ read[s] \in Nat /\ read[s] < Len(sent[s])
        BY <2>1, LenProperties DEF Deliver
    <2> QED
        BY <2>1, <2>2
<1>2. /\ UNCHANGED <<serverVars, peer, toServer>>
      /\ read' = [read EXCEPT ![s] = @ + 1]
      /\ \A q \in Socket : read'[q] = IF q = s THEN read[s] + 1 ELSE read[q]
    BY <1>1 DEF Deliver
<1>3. wire' = wire
    BY DEF Deliver, Response, vars
<1>4. RpcTypeOK'
    <2>1. ServerTypeOK' /\ sent' = sent
        BY <1>2 DEF RInv, RpcTypeOK, ServerTypeOK, serverVars
    <2> QED
        BY <1>1, <1>2, <2>1 DEF RInv, RpcTypeOK
<1>5. OnePlace' /\ RunsCounted' /\ ResponsesFinal'
    BY <1>2, <1>3 DEF RInv, OnePlace, RunsCounted, ResponsesFinal, serverVars
<1>6. ASSUME NEW i \in CallId, call'[i] = "answered"
      PROVE  \E q \in Socket :
                /\ <<q, i>> \in received \ (running \cup untold)
                /\ \E k \in 1 .. read'[q] : sent[q][k] \in {"result", "error"} \X {i}
    <2>1. CASE call[i] = "answered"
        <3>1. PICK q \in Socket :
                  /\ <<q, i>> \in received \ (running \cup untold)
                  /\ \E k \in 1 .. read[q] : sent[q][k] \in {"result", "error"} \X {i}
            BY <2>1 DEF RInv, AnswersAreGenuine
        <3>2. 1 .. read[q] \subseteq 1 .. read'[q]
            BY <1>1, <1>2
        <3> QED
            BY <3>1, <3>2
    <2>2. CASE call[i] # "answered"
        <3>1. m[2] # NoId /\ Response(m[2]) /\ call \in [CallId -> CallStatus]
            BY <1>6, <2>2 DEF Deliver, vars, IInv, TypeOK
        <3>2. m[2] = i
            BY <1>6, <2>2, <3>1 DEF Response
        <3>3. m \in Message /\ m[1] # "event" /\ <<s, i>> \in received \ (running \cup untold)
            BY <1>1, <3>1, <3>2, ElementOfSeq DEF RInv, ResponsesFinal
        <3>4. m \in {"result", "error"} \X {i}
            BY <3>2, <3>3 DEF Message
        <3>5. read[s] + 1 \in 1 .. read'[s]
            BY <1>1, <1>2
        <3> QED
            BY <1>1, <3>3, <3>4, <3>5
    <2> QED
        BY <2>1, <2>2
<1>7. AnswersAreGenuine'
    BY <1>2, <1>6 DEF AnswersAreGenuine, serverVars
<1> QED
    BY <1>4, <1>5, <1>7 DEF RInv

(* A request that arrives keeps its one place: it is no longer under way.  *)
LEMMA RequestReceived ==
    ASSUME RInv, UNCHANGED wire, NEW s \in Socket, toServer[s] # <<>>,
           toServer' = [toServer EXCEPT ![s] = Tail(@)],
           received' = received \cup {<<s, Head(toServer[s])>>}
    PROVE  /\ OnePlace'
           /\ toServer' \in [Socket -> Seq(Req)]
           /\ Head(toServer[s]) \in Req
           /\ \A q \in Socket : <<q, Head(toServer[s])>> \notin received
<1> DEFINE r == Head(toServer[s])
<1>1. \A q \in Socket : toServer[q] \in Seq(Req) /\ Len(toServer[q]) \in Nat
    BY LenProperties DEF RInv, RpcTypeOK
<1>2. /\ r \in Req /\ r = toServer[s][1]
      /\ Tail(toServer[s]) \in Seq(Req)
      /\ Len(Tail(toServer[s])) = Len(toServer[s]) - 1 /\ Len(toServer[s]) >= 1
      /\ \A k \in 1 .. Len(Tail(toServer[s])) :
            Tail(toServer[s])[k] = toServer[s][k + 1]
    BY <1>1, HeadTailProperties, LenProperties
<1>3. ASSUME NEW q \in Socket
      PROVE  /\ toServer'[q] \in Seq(Req)
             /\ \A k \in 1 .. Len(toServer'[q]) :
                   \E j \in 1 .. Len(toServer[q]) :
                      /\ toServer'[q][k] = toServer[q][j]
                      /\ j = IF q = s THEN k + 1 ELSE k
    <2>1. toServer'[q] = IF q = s THEN Tail(toServer[s]) ELSE toServer[q]
        BY DEF RInv, RpcTypeOK
    <2>2. CASE q = s
        <3>1. toServer'[q] = Tail(toServer[s]) /\ Len(toServer'[q]) = Len(toServer[s]) - 1
            BY <1>2, <2>1, <2>2
        <3>2. ASSUME NEW k \in 1 .. Len(toServer'[q])
              PROVE  /\ k + 1 \in 1 .. Len(toServer[q])
                     /\ toServer'[q][k] = toServer[q][k + 1]
            BY <1>1, <1>2, <2>2, <3>1
        <3> QED
            BY <1>2, <2>2, <3>1, <3>2
    <2>3. CASE q # s
        BY <1>1, <2>1, <2>3
    <2> QED
        BY <2>2, <2>3
<1>4. r \in Range(wire) /\ \A q \in Socket : <<q, r>> \notin received
    BY <1>1, <1>2 DEF RInv, OnePlace
<1>5. ASSUME NEW q \in Socket, NEW k \in 1 .. Len(toServer'[q])
      PROVE  /\ toServer'[q][k] \in Range(wire)
             /\ toServer'[q][k] # r
             /\ \A t \in Socket : <<t, toServer'[q][k]>> \notin received
    <2>1. PICK j \in 1 .. Len(toServer[q]) :
              /\ toServer'[q][k] = toServer[q][j]
              /\ j = IF q = s THEN k + 1 ELSE k
        BY <1>3
    <2>2. Len(toServer'[q]) \in Nat /\ 1 \in 1 .. Len(toServer[s])
        BY <1>1, <1>2, <1>3, LenProperties
    <2>3. q # s \/ j # 1
        <3>1. k \in Nat /\ k >= 1
            BY <1>5, <2>2
        <3> QED
            BY <2>1, <3>1
    <2>4. toServer[q][j] # toServer[s][1]
        BY <2>2, <2>3 DEF RInv, OnePlace
    <2>5. /\ toServer[q][j] \in Range(wire)
          /\ \A t \in Socket : <<t, toServer[q][j]>> \notin received
        BY DEF RInv, OnePlace
    <2> QED
        BY <1>2, <2>1, <2>4, <2>5
<1>6. ASSUME NEW q \in Socket, NEW t \in Socket,
             NEW k \in 1 .. Len(toServer'[q]), NEW l \in 1 .. Len(toServer'[t]),
             toServer'[q][k] = toServer'[t][l]
      PROVE  q = t /\ k = l
    <2>1. PICK j \in 1 .. Len(toServer[q]) :
              /\ toServer'[q][k] = toServer[q][j]
              /\ j = IF q = s THEN k + 1 ELSE k
        BY <1>3
    <2>2. PICK h \in 1 .. Len(toServer[t]) :
              /\ toServer'[t][l] = toServer[t][h]
              /\ h = IF t = s THEN l + 1 ELSE l
        BY <1>3
    <2>3. q = t /\ j = h
        BY <1>6, <2>1, <2>2 DEF RInv, OnePlace
    <2>4. Len(toServer'[q]) \in Nat /\ Len(toServer'[t]) \in Nat
        BY <1>3, LenProperties
    <2> QED
        BY <2>1, <2>2, <2>3, <2>4
<1>7. /\ \A q \in Socket, i \in Req : <<q, i>> \in received' => i \in Range(wire)
      /\ \A q, t \in Socket, i \in Req :
            <<q, i>> \in received' /\ <<t, i>> \in received' => q = t
    BY <1>4 DEF RInv, OnePlace
<1>8. OnePlace'
    <2>1. \A q \in Socket : \A k \in 1 .. Len(toServer'[q]) :
             /\ toServer'[q][k] \in Range(wire')
             /\ \A t \in Socket : <<t, toServer'[q][k]>> \notin received'
        <3> SUFFICES ASSUME NEW q \in Socket, NEW k \in 1 .. Len(toServer'[q]),
                            NEW t \in Socket
                     PROVE  /\ toServer'[q][k] \in Range(wire')
                            /\ <<t, toServer'[q][k]>> \notin received'
            OBVIOUS
        <3>1. Range(wire') = Range(wire)
            OBVIOUS
        <3>2. <<t, toServer'[q][k]>> \notin received /\ toServer'[q][k] # r
            BY <1>5
        <3>3. <<t, toServer'[q][k]>> \notin received'
            BY <3>2
        <3> QED
            BY <1>5, <3>1, <3>3
    <2>2. \A q \in Socket, i \in Req : <<q, i>> \in received' => i \in Range(wire')
        BY <1>7
    <2>3. \A q, t \in Socket :
             \A k \in 1 .. Len(toServer'[q]), l \in 1 .. Len(toServer'[t]) :
                toServer'[q][k] = toServer'[t][l] => q = t /\ k = l
        BY <1>6
    <2>4. \A q, t \in Socket, i \in Req :
             <<q, i>> \in received' /\ <<t, i>> \in received' => q = t
        BY <1>7
    <2> QED
        BY ONLY <2>1, <2>2, <2>3, <2>4 DEF OnePlace
<1>9. toServer' \in [Socket -> Seq(Req)]
    <2>1. toServer' = [q \in Socket |-> toServer'[q]]
        BY DEF RInv, RpcTypeOK
    <2> QED
        BY <1>3, <2>1
<1> QED
    BY <1>2, <1>4, <1>8, <1>9

(* The server takes a request: it was received nowhere before, so its      *)
(* method has not run, and none of the responses sent so far is its own.   *)
LEMMA ReceiveStep ==
    ASSUME RInv, NEW s \in Socket, Receive(s)
    PROVE  RInv'
<1> DEFINE r == Head(toServer[s])
<1>1. /\ UNCHANGED wire /\ UNCHANGED <<read, call>> /\ peer' = peer
      /\ toServer[s] # <<>> /\ toServer' = [toServer EXCEPT ![s] = Tail(@)]
      /\ received' = received \cup {<<s, r>>}
    BY DEF Receive, Undecodable, NotRun, Run, Receives, vars
<1>2. /\ OnePlace' /\ toServer' \in [Socket -> Seq(Req)] /\ r \in Req
      /\ \A q \in Socket : <<q, r>> \notin received
    BY <1>1, RequestReceived
<1>3. /\ received \in SUBSET (Socket \X Req) /\ received' \in SUBSET (Socket \X Req)
      /\ running \in SUBSET received /\ executed \in [Req -> Nat]
      /\ untold \in SUBSET (received \ running)
    BY <1>1, <1>2 DEF RInv, RpcTypeOK, ServerTypeOK
<1> HIDE DEF r
<1>4. CASE Undecodable(s, r) \/ NotRun(s, r)
    <2>1. PICK m \in Message :
              /\ send(s, <<m>>) /\ m[1] # "event"
              /\ m[2] # NoId => <<s, m[2]>> \in received' \ (running' \cup untold')
        <3>1. CASE Undecodable(s, r)
            <4>1. <<"error", NoId>> \in Message
                BY DEF Message
            <4> QED
                BY <3>1, <4>1 DEF Undecodable
        <3>2. CASE NotRun(s, r)
            <4>1. <<"error", r>> \in Message
                BY <1>2 DEF Message
            <4>2. <<s, r>> \in received' \ (running' \cup untold')
                BY <1>1, <1>2, <1>3, <3>2 DEF NotRun
            <4> QED
                BY <3>2, <4>1, <4>2 DEF NotRun
        <3> QED
            BY <1>4, <3>1, <3>2
    <2>2. UNCHANGED <<readyState, busListeners, implListeners, running, untold,
                      executed, emitted>>
        BY <1>4 DEF Undecodable, NotRun
    <2>3. received \ (running \cup untold) \subseteq received' \ (running' \cup untold')
        BY <1>1, <2>2
    <2>4. /\ ResponsesFinal' /\ AnswersAreGenuine'
          /\ \A q \in Socket : read'[q] <= Len(sent'[q])
        BY <1>1, <2>1, <2>3, ResponseSent
    <2>5. sent' \in [Socket -> Seq(Message)]
        BY <2>1, SendAppends DEF RInv, RpcTypeOK
    <2>6. RpcTypeOK'
        BY <1>1, <1>2, <1>3, <2>2, <2>4, <2>5 DEF RInv, RpcTypeOK, ServerTypeOK
    <2>7. RunsCounted'
        BY <1>1, <2>2 DEF RInv, RunsCounted
    <2> QED
        BY <1>2, <2>4, <2>6, <2>7 DEF RInv
<1>5. CASE Run(s, r)
    <2>1. /\ running' = running \cup {<<s, r>>}
          /\ executed' = [executed EXCEPT ![r] = @ + 1]
          /\ UNCHANGED <<readyState, busListeners, implListeners, untold, sent,
                         emitted>>
        BY <1>5 DEF Run
    <2>2. received \ (running \cup untold) \subseteq received' \ (running' \cup untold')
        BY <1>1, <1>2, <2>1
    <2>3. RpcTypeOK'
        <3>1. executed[r] + 1 \in Nat
            BY <1>2, <1>3
        <3>2. executed' \in [Req -> Nat]
            BY <1>3, <2>1, <3>1
        <3>3. running' \in SUBSET received' /\ untold' \in SUBSET (received' \ running')
            BY <1>1, <1>2, <1>3, <2>1
        <3> QED
            BY <1>1, <1>2, <1>3, <2>1, <3>2, <3>3 DEF RInv, RpcTypeOK, ServerTypeOK
    <2>4. RunsCounted'
        <3>1. executed[r] \in Nat /\ executed[r] <= 1 /\ executed[r] # 1
            BY <1>2, <1>3 DEF RInv, RunsCounted
        <3>2. executed[r] = 0
            BY <3>1
        <3>3. ASSUME NEW i \in Req
              PROVE  executed'[i] = IF i = r THEN 1 ELSE executed[i]
            BY <1>3, <2>1, <3>2
        <3>4. ASSUME NEW i \in Req
              PROVE  /\ executed'[i] <= 1
                     /\ executed'[i] = 1 => \E q \in Socket : <<q, i>> \in received'
            <4>1. CASE i = r
                BY <1>1, <3>3, <4>1
            <4>2. CASE i # r
                BY <1>1, <3>3, <4>2 DEF RInv, RunsCounted
            <4> QED
                BY <4>1, <4>2
        <3> QED
            BY <3>4 DEF RunsCounted
    <2>5. ResponsesFinal'
        <3> SUFFICES ASSUME NEW q \in Socket, NEW k \in 1 .. Len(sent[q])
                     PROVE  /\ sent[q][k][1] # "event"
                            /\ sent[q][k][2] # NoId =>
                                  <<q, sent[q][k][2]>> \in received' \ (running' \cup untold')
            BY <2>1 DEF ResponsesFinal
        <3> QED
            BY <2>2 DEF RInv, ResponsesFinal
    <2>6. AnswersAreGenuine'
        <3> SUFFICES ASSUME NEW i \in CallId, call[i] = "answered"
                     PROVE  \E q \in Socket :
                               /\ <<q, i>> \in received' \ (running' \cup untold')
                               /\ \E k \in 1 .. read[q] :
                                     sent[q][k] \in {"result", "error"} \X {i}
            BY <1>1, <2>1 DEF AnswersAreGenuine
        <3> QED
            BY <2>2 DEF RInv, AnswersAreGenuine
    <2> QED
        BY <1>2, <2>3, <2>4, <2>5, <2>6 DEF RInv
<1> QED
    BY <1>4, <1>5 DEF Receive, r

(* A method ends: its response is sent, or its error cannot be told.       *)
LEMMA MethodEndsStep ==
    ASSUME RInv, NEW s \in Socket, NEW r \in Req, MethodEnds(s, r),
           UNCHANGED <<vars, netVars>>
    PROVE  RInv'
<1>1. /\ <<s, r>> \in running /\ running' = running \ {<<s, r>>}
      /\ UNCHANGED <<readyState, busListeners, implListeners, received, executed,
                     emitted>>
      /\ UNCHANGED <<wire, call, peer, toServer, read>>
    BY DEF MethodEnds, vars, rpcVars, netVars
<1>2. OnePlace' /\ RunsCounted'
    BY <1>1 DEF RInv, OnePlace, RunsCounted
<1>3. ASSUME NEW kind \in {"result", "error"}, send(s, << <<kind, r>> >>),
             UNCHANGED untold
      PROVE  RInv'
    <2> DEFINE m == <<kind, r>>
    <2>1. m \in Message /\ m[1] # "event" /\ m[2] = r
        BY DEF Message
    <2>2. <<s, r>> \in received' \ (running' \cup untold')
        BY <1>1, <1>3 DEF RInv, RpcTypeOK, ServerTypeOK
    <2>3. received \ (running \cup untold) \subseteq received' \ (running' \cup untold')
        BY <1>1, <1>3
    <2> HIDE DEF m
    <2>4. send(s, <<m>>)
        BY <1>3 DEF m
    <2>5. /\ ResponsesFinal' /\ AnswersAreGenuine'
          /\ \A q \in Socket : read'[q] <= Len(sent'[q])
        BY <1>1, <2>1, <2>2, <2>3, <2>4, ResponseSent
    <2>6. sent' \in [Socket -> Seq(Message)]
        BY <2>1, <2>4, SendAppends DEF RInv, RpcTypeOK
    <2>7. RpcTypeOK'
        BY <1>1, <1>3, <2>5, <2>6 DEF RInv, RpcTypeOK, ServerTypeOK
    <2> QED
        BY <1>2, <2>5, <2>7 DEF RInv
<1>4. CASE EndsUntold(s, r)
    <2>1. sent' = sent /\ untold' = untold \cup {<<s, r>>}
        BY <1>4 DEF EndsUntold
    <2>2. RpcTypeOK'
        BY <1>1, <2>1 DEF RInv, RpcTypeOK, ServerTypeOK
    <2>3. \A x \in received \ (running \cup untold) : x # <<s, r>>
        BY <1>1
    <2>4. ResponsesFinal'
        BY <1>1, <2>1, <2>3 DEF RInv, ResponsesFinal
    <2>5. AnswersAreGenuine'
        BY <1>1, <2>1, <2>3 DEF RInv, AnswersAreGenuine
    <2> QED
        BY <1>2, <2>2, <2>4, <2>5 DEF RInv
<1> QED
    BY <1>3, <1>4 DEF MethodEnds

(* A connection of the server closes.                                      *)
LEMMA ServerClosesStep ==
    ASSUME RInv, NEW s \in Socket, Closing(s) \/ Closed(s),
           UNCHANGED <<vars, netVars>>
    PROVE  RInv'
<1>1. /\ UNCHANGED <<implListeners, received, running, untold, executed, sent,
                     emitted>>
      /\ UNCHANGED <<wire, call, peer, toServer, read>>
    BY DEF Closing, Closed, vars, rpcVars, netVars
<1>2. RpcTypeOK'
    BY <1>1 DEF RInv, RpcTypeOK, ServerTypeOK, Closing, Closed
<1> QED
    BY <1>1, <1>2
    DEF RInv, OnePlace, RunsCounted, ResponsesFinal, AnswersAreGenuine

-----------------------------------------------------------------------------
(* The theorems.                                                           *)

(* Every step of client, server or network keeps RInv.                     *)
LEMMA RStep ==
    ASSUME RInv, IInv, IInv', [Next]_vars, RpcNext
    PROVE  RInv'
<1>1. CASE ClientSends
    <2>1. ServerTypeOK' /\ peer' \in [Conn -> Socket \cup {None}]
        BY <1>1 DEF ClientSends, RInv, RpcTypeOK, ServerTypeOK, serverVars
    <2> QED
        BY <1>1, <2>1, ClientStep DEF ClientSends, Application, serverVars
<1>2. CASE ClientAlone
    <2>1. ServerTypeOK' /\ peer' \in [Conn -> Socket \cup {None}]
        BY <1>2 DEF ClientAlone, RInv, RpcTypeOK, ServerTypeOK, serverVars, netVars
    <2> QED
        BY <1>2, <2>1, ClientStep
        DEF ClientAlone, Application, Outcome, serverVars, netVars
<1>3. ASSUME NEW c \in Conn, ClientOpens(c) PROVE RInv'
    <2>1. PICK s \in Socket :
              /\ Accept(s)
              /\ peer' = [peer EXCEPT ![c] = s]
              /\ toServer' = [toServer EXCEPT ![s] = @ \o NewlySent]
        BY <1>3 DEF ClientOpens
    <2>2. ServerTypeOK' /\ peer' \in [Conn -> Socket \cup {None}]
        BY <2>1 DEF Accept, RInv, RpcTypeOK, ServerTypeOK
    <2>3. Outcome(c) /\ UNCHANGED read
        BY <1>3 DEF ClientOpens, Outcome
    <2> QED
        BY <2>1, <2>2, <2>3, ClientStep DEF Accept
<1>4. ASSUME NEW c \in Conn, ClientCloses(c) PROVE RInv'
    <2>1. ServerTypeOK' /\ peer' \in [Conn -> Socket \cup {None}]
        BY <1>4 DEF ClientCloses, RInv, RpcTypeOK, ServerTypeOK, serverVars
    <2> QED
        BY <1>4, <2>1, ClientStep DEF ClientCloses, serverVars
<1>5. ASSUME NEW c \in Conn, Deliver(c) PROVE RInv'
    BY <1>5, DeliverStep
<1>6. ASSUME NEW s \in Socket, Receive(s) PROVE RInv'
    BY <1>6, ReceiveStep
<1>7. ASSUME ServerAlone(\E s \in Socket, r \in Req : MethodEnds(s, r))
      PROVE  RInv'
    BY <1>7, MethodEndsStep DEF ServerAlone
<1>8. ASSUME ServerAlone(\E s \in Socket : Closing(s) \/ Closed(s))
      PROVE  RInv'
    BY <1>8, ServerClosesStep DEF ServerAlone
<1> QED
    BY <1>1, <1>2, <1>3, <1>4, <1>5, <1>6, <1>7, <1>8 DEF RpcNext

(* The invariants of the client and of the composition hold together.      *)
THEOREM RpcInvariance == RpcSpec => [](IInv /\ RInv)
<1>1. RpcInit => IInv /\ RInv
    BY RInit, TypeInit, FreshInit, DrainedInit, LineInit, AccountedInit
    DEF RpcInit, IInv
<1>2. IInv /\ RInv /\ [RpcNext]_rpcAllVars => (IInv /\ RInv)'
    <2> SUFFICES ASSUME IInv, RInv, [RpcNext]_rpcAllVars PROVE IInv' /\ RInv'
        OBVIOUS
    <2>1. [Next]_vars
        BY StepSimulation DEF RInv, rpcAllVars
    <2>2. IInv'
        BY <2>1, TypeStep, FreshStep, DrainedStep, LineStep, AccountedStep
        DEF IInv, LineInv
    <2>3. CASE RpcNext
        BY <2>1, <2>2, <2>3, RStep
    <2>4. CASE UNCHANGED rpcAllVars
        <3>1. /\ call' = call /\ wire' = wire /\ peer' = peer
              /\ toServer' = toServer /\ read' = read
              /\ received' = received /\ running' = running /\ untold' = untold
              /\ executed' = executed /\ sent' = sent
              /\ UNCHANGED <<readyState, busListeners, implListeners, emitted>>
            BY <2>4 DEF rpcAllVars, vars, rpcVars, serverVars, netVars
        <3>2. RpcTypeOK'
            BY <3>1 DEF RInv, RpcTypeOK, ServerTypeOK
        <3>3. OnePlace'
            BY <3>1 DEF RInv, OnePlace
        <3>4. RunsCounted' /\ ResponsesFinal'
            BY <3>1 DEF RInv, RunsCounted, ResponsesFinal
        <3>5. AnswersAreGenuine'
            <4>1. AnswersAreGenuine
                BY DEF RInv
            <4> QED
                BY <3>1, <4>1 DEF AnswersAreGenuine
        <3> QED
            BY <2>2, <3>2, <3>3, <3>4, <3>5 DEF RInv
    <2> QED
        BY <2>2, <2>3, <2>4
<1> QED
    BY <1>1, <1>2, PTL DEF RpcSpec

(* WsClient with the real server at the other end is WsClient: the server  *)
(* and the network add nothing that its own environment, a response at any *)
(* moment to whatever is in flight, leaves out.                            *)
THEOREM RpcImplementsClient == RpcSpec => Spec
<1>1. RpcInit => Init
    BY DEF RpcInit
<1>2. RInv /\ [RpcNext]_rpcAllVars => [Next]_vars
    BY StepSimulation DEF RInv, rpcAllVars
<1> QED
    BY <1>1, <1>2, RpcInvariance, PTL DEF RpcSpec, Spec

(* End to end, the callers are promised what RpcCalls states.              *)
THEOREM RpcImplementsCalls == RpcSpec => CallsImplemented
BY RpcImplementsClient, ClientImplementsCalls, PTL

(* An answer is that of the server to this call, finished there.           *)
THEOREM GenuineAnswers == RpcSpec => []AnswersAreGenuine
<1>1. RInv => AnswersAreGenuine
    BY DEF RInv
<1> QED
    BY <1>1, RpcInvariance, PTL

(* No method is executed twice for a call, over any number of              *)
(* reconnections, and none for a call that was never transmitted.          *)
THEOREM AtMostOneExecution == RpcSpec => []ExecutedAtMostOnce
<1>1. RInv => ExecutedAtMostOnce
    BY IdsAssumption DEF RInv, RunsCounted, OnePlace, ExecutedAtMostOnce
<1> QED
    BY <1>1, RpcInvariance, PTL

-----------------------------------------------------------------------------
(* The server, with clients that send what they like.                      *)

(* A message to a request that is told of its end, or one without id, is the only one.    *)
Answered(s) ==
    \A k \in 1 .. Len(sent[s]) :
        sent[s][k][1] # "event" /\ sent[s][k][2] # NoId =>
            /\ <<s, sent[s][k][2]>> \in received \ (running \cup untold)
            /\ \A l \in 1 .. Len(sent[s]) :
                  sent[s][l][1] # "event" /\ sent[s][l][2] = sent[s][k][2] => l = k

(* On an open connection there are as many responses as requests told of,  *)
(* those without id included.                                              *)
Counted(s) ==
    /\ IsFiniteSet(ToldOn(s))
    /\ readyState[s] = "open" =>
          Cardinality(ToldOn(s)) = Cardinality(ResponsesOn(s))

(* A connection that was not made has no past.                             *)
NotYetOpen(s) ==
    readyState[s] = "none" =>
        /\ sent[s] = <<>>
        /\ \A r \in Req : <<s, r>> \notin received
        /\ \A n \in 1 .. Len(emitted) : s \notin emitted[n]

(* What an open connection was sent of the events, and where.              *)
EventsInOrder(s) ==
    readyState[s] = "open" =>
        /\ s \in busListeners \cap implListeners
        /\ \A k \in 1 .. Len(sent[s]) : sent[s][k][1] = "event" =>
              /\ sent[s][k][2] \in 1 .. Len(emitted)
              /\ s \in emitted[sent[s][k][2]]
              /\ \A l \in k + 1 .. Len(sent[s]) :
                    sent[s][l][1] = "event" => sent[s][k][2] < sent[s][l][2]
        /\ \A n \in 1 .. Len(emitted) : s \in emitted[n] =>
              \E k \in 1 .. Len(sent[s]) : sent[s][k] = <<"event", n>>

SocketInv(s) == Answered(s) /\ Counted(s) /\ NotYetOpen(s) /\ EventsInOrder(s)

(* The inductive invariant of the server.                                  *)
ServerInv == ServerTypeOK /\ \A s \in Socket : SocketInv(s)

(* What was sent on s grows by a message.                                  *)
Grows(s, m) ==
    /\ sent'[s] \in Seq(Message)
    /\ Len(sent'[s]) = Len(sent[s]) + 1
    /\ \A k \in 1 .. Len(sent[s]) : sent'[s][k] = sent[s][k]
    /\ sent'[s][Len(sent[s]) + 1] = m

LEMMA ServerFacts ==
    ASSUME ServerTypeOK
    PROVE  /\ \A s \in Socket : /\ sent[s] \in Seq(Message) /\ Len(sent[s]) \in Nat
                                /\ DOMAIN sent[s] = 1 .. Len(sent[s])
                                /\ \A k \in 1 .. Len(sent[s]) : sent[s][k] \in Message
           /\ emitted \in Seq(SUBSET Socket) /\ Len(emitted) \in Nat
           /\ DOMAIN emitted = 1 .. Len(emitted)
           /\ running \subseteq received
BY DEF ServerTypeOK

LEMMA MessageFacts ==
    ASSUME NEW m \in Message
    PROVE  /\ m[1] # "event" => m[2] \in Req \cup {NoId}
           /\ m[1] = "event" => m[2] \in 1 .. MaxEvents
BY DEF Message

LEMMA AppendGrows ==
    ASSUME ServerTypeOK, NEW s \in Socket, NEW m \in Message,
           sent'[s] = Append(sent[s], m) \/ sent'[s] = sent[s] \o <<m>>
    PROVE  Grows(s, m)
<1>1. sent[s] \in Seq(Message) /\ <<m>> \in Seq(Message) /\ Len(<<m>>) = 1 /\ <<m>>[1] = m
  BY ServerFacts
<1>2. CASE sent'[s] = Append(sent[s], m)
  BY <1>1, <1>2 DEF Grows
<1>3. CASE sent'[s] = sent[s] \o <<m>>
  BY <1>1, <1>3 DEF Grows
<1> QED
  BY <1>2, <1>3

(* send() and the messages of each socket.                                 *)
LEMMA SendGrows ==
    ASSUME ServerTypeOK, NEW s \in Socket, NEW m \in Message, send(s, <<m>>)
    PROVE  /\ sent' \in [Socket -> Seq(Message)]
           /\ readyState[s] = "open" => Grows(s, m)
           /\ \A q \in Socket : q # s \/ readyState[q] # "open" => sent'[q] = sent[q]
<1> DEFINE queue == IF readyState[s] = "open" THEN sent[s] \o <<m>> ELSE sent[s]
<1>1. sent' = [sent EXCEPT ![s] = queue] /\ sent \in [Socket -> Seq(Message)]
  BY DEF send, ServerTypeOK
<1>2. <<m>> \in Seq(Message)
  OBVIOUS
<1>3. queue \in Seq(Message)
  BY <1>1, <1>2
<1>4. readyState[s] = "open" => queue = sent[s] \o <<m>>
  OBVIOUS
<1>5. readyState[s] # "open" => queue = sent[s]
  OBVIOUS
<1> HIDE DEF queue
<1> QED
  BY <1>1, <1>3, <1>4, <1>5, AppendGrows

(* The places of the responses.                                            *)
LEMMA ResponsePlaces ==
    ASSUME ServerTypeOK, NEW s \in Socket
    PROVE  /\ IsFiniteSet(ResponsesOn(s))
           /\ ResponsesOn(s) = {k \in 1 .. Len(sent[s]) : sent[s][k][1] # "event"}
           /\ Len(sent[s]) + 1 \notin ResponsesOn(s)
<1>1. ResponsesOn(s) = {k \in 1 .. Len(sent[s]) : sent[s][k][1] # "event"}
  BY ServerFacts DEF ResponsesOn, EventsOn
<1>2. IsFiniteSet(1 .. Len(sent[s])) /\ ResponsesOn(s) \subseteq 1 .. Len(sent[s])
  BY <1>1, ServerFacts, FS_Interval
<1> QED
  BY <1>1, <1>2, ServerFacts, FS_Subset

(* A socket that a step leaves alone.                                      *)
LEMMA SocketUntouched ==
    ASSUME ServerTypeOK, NEW s \in Socket, SocketInv(s), sent'[s] = sent[s],
           readyState'[s] = readyState[s] \/ readyState'[s] \in {"closing", "closed"},
           \A r \in Req : /\ <<s, r>> \in received' <=> <<s, r>> \in received
                          /\ <<s, r>> \in running' \cup untold'
                                <=> <<s, r>> \in running \cup untold,
           UNCHANGED emitted,
           readyState'[s] = "open" =>
               (s \in busListeners => s \in busListeners')
               /\ (s \in implListeners => s \in implListeners')
    PROVE  SocketInv(s)'
<1>1. ToldOn(s)' = ToldOn(s) /\ ResponsesOn(s)' = ResponsesOn(s)
  BY DEF ToldOn, ResponsesOn, EventsOn
<1>2. Counted(s)'
  BY <1>1 DEF SocketInv, Counted
<1>3. NotYetOpen(s)' /\ EventsInOrder(s)'
  BY DEF SocketInv, NotYetOpen, EventsInOrder
<1>4. Answered(s)'
  <2> SUFFICES ASSUME NEW k \in 1 .. Len(sent[s]), sent[s][k][1] # "event", sent[s][k][2] # NoId
               PROVE  /\ <<s, sent[s][k][2]>> \in received' \ (running' \cup untold')
                      /\ \A l \in 1 .. Len(sent[s]) :
                            sent[s][l][1] # "event" /\ sent[s][l][2] = sent[s][k][2] => l = k
    BY DEF Answered
  <2>1. sent[s][k][2] \in Req
    BY ServerFacts, MessageFacts
  <2> QED
    BY <2>1 DEF SocketInv, Answered
<1> QED
  BY <1>2, <1>3, <1>4 DEF SocketInv

(* A request is finished, and what answers it is sent if the connection is *)
(* still open.                                                             *)
LEMMA ResponseStep ==
    ASSUME ServerInv, NEW s \in Socket, NEW r \in Req, NEW m \in Message,
           m[1] # "event", m[2] \in {r, NoId}, send(s, <<m>>),
           readyState[s] # "none", r \notin ToldOn(s),
           <<s, r>> \in received' \ (running' \cup untold'),
           \A q \in Socket, x \in Req : q # s \/ x # r =>
              /\ <<q, x>> \in received' <=> <<q, x>> \in received
              /\ <<q, x>> \in running' \cup untold'
                    <=> <<q, x>> \in running \cup untold,
           UNCHANGED <<readyState, emitted, busListeners, implListeners>>
    PROVE  sent' \in [Socket -> Seq(Message)] /\ \A q \in Socket : SocketInv(q)'
<1>1. ServerTypeOK /\ SocketInv(s)
  BY DEF ServerInv
<1>2. /\ sent' \in [Socket -> Seq(Message)]
      /\ readyState[s] = "open" => Grows(s, m)
      /\ \A q \in Socket : q # s \/ readyState[q] # "open" => sent'[q] = sent[q]
  BY <1>1, SendGrows
<1>3. ASSUME NEW q \in Socket, q # s PROVE SocketInv(q)'
  BY <1>2, <1>3, SocketUntouched DEF ServerInv
<1>4. ToldOn(s)' = ToldOn(s) \cup {r}
  BY DEF ToldOn
<1>5. /\ IsFiniteSet(ToldOn(s)')
      /\ Cardinality(ToldOn(s)') = Cardinality(ToldOn(s)) + 1
  BY <1>1, <1>4, FS_AddElement DEF SocketInv, Counted
<1>6. NotYetOpen(s)'
  BY DEF NotYetOpen
<1>7. \A k \in 1 .. Len(sent[s]) : sent[s][k][1] # "event" /\ sent[s][k][2] # NoId =>
          /\ sent[s][k][2] \in Req \ {r}
          /\ <<s, sent[s][k][2]>> \in received' \ (running' \cup untold')
          /\ \A l \in 1 .. Len(sent[s]) :
                sent[s][l][1] # "event" /\ sent[s][l][2] = sent[s][k][2] => l = k
  <2> SUFFICES ASSUME NEW k \in 1 .. Len(sent[s]), sent[s][k][1] # "event", sent[s][k][2] # NoId
               PROVE  /\ sent[s][k][2] \in Req \ {r}
                      /\ <<s, sent[s][k][2]>> \in received' \ (running' \cup untold')
                      /\ \A l \in 1 .. Len(sent[s]) :
                            sent[s][l][1] # "event" /\ sent[s][l][2] = sent[s][k][2] => l = k
    OBVIOUS
  <2>1. sent[s][k][2] \in Req
    BY <1>1, ServerFacts, MessageFacts
  <2>2. /\ <<s, sent[s][k][2]>> \in received \ (running \cup untold)
        /\ \A l \in 1 .. Len(sent[s]) :
              sent[s][l][1] # "event" /\ sent[s][l][2] = sent[s][k][2] => l = k
    BY <1>1 DEF SocketInv, Answered
  <2>3. sent[s][k][2] # r
    BY <2>2 DEF ToldOn
  <2> QED
    BY <2>1, <2>2, <2>3
<1>8. CASE readyState[s] # "open"
  <2>1. sent'[s] = sent[s]
    BY <1>2, <1>8
  <2>2. Answered(s)'
    BY <2>1, <1>7 DEF Answered
  <2>3. Counted(s)' /\ EventsInOrder(s)'
    BY <1>5, <1>8 DEF Counted, EventsInOrder
  <2> QED
    BY <1>3, <1>2, <1>6, <2>2, <2>3 DEF SocketInv
<1>9. CASE readyState[s] = "open"
  <2> DEFINE n == Len(sent[s])
  <2>1. /\ n \in Nat /\ Len(sent'[s]) = n + 1 /\ sent'[s][n + 1] = m
        /\ \A k \in 1 .. n : sent'[s][k] = sent[s][k]
        /\ \A k \in 1 .. n + 1 : k \in 1 .. n \/ k = n + 1
        /\ DOMAIN sent'[s] = 1 .. n + 1
    BY <1>1, <1>2, <1>9, ServerFacts DEF Grows
  <2> HIDE DEF n
  <2>2. Answered(s)'
    <3> SUFFICES ASSUME NEW k \in 1 .. n + 1,
                        sent'[s][k][1] # "event", sent'[s][k][2] # NoId
                 PROVE  /\ <<s, sent'[s][k][2]>> \in received' \ (running' \cup untold')
                        /\ \A l \in 1 .. n + 1 :
                              sent'[s][l][1] # "event" /\ sent'[s][l][2] = sent'[s][k][2]
                                  => l = k
      BY <2>1 DEF Answered
    <3>1. CASE k \in 1 .. n
      <4>1. sent[s][k][1] # "event" /\ sent[s][k][2] # NoId /\ sent'[s][k] = sent[s][k]
        BY <3>1, <2>1
      <4>2. /\ sent[s][k][2] # r
            /\ <<s, sent[s][k][2]>> \in received' \ (running' \cup untold')
            /\ \A l \in 1 .. n :
                  sent[s][l][1] # "event" /\ sent[s][l][2] = sent[s][k][2] => l = k
        BY <3>1, <4>1, <1>7 DEF n
      <4>3. m[2] # sent[s][k][2]
        BY <4>1, <4>2
      <4>4. ASSUME NEW l \in 1 .. n + 1,
                   sent'[s][l][1] # "event", sent'[s][l][2] = sent[s][k][2]
            PROVE  l = k
        <5>1. l \in 1 .. n /\ sent'[s][l] = sent[s][l]
          BY <4>3, <4>4, <2>1
        <5> QED
          BY <5>1, <4>2, <4>4
      <4> QED
        BY <4>1, <4>2, <4>4
    <3>2. CASE k = n + 1
      BY <3>2, <2>1, <1>7 DEF n
    <3> QED
      BY <3>1, <3>2, <2>1
  <2>3. Counted(s)'
    <3>1. ResponsesOn(s)' = ResponsesOn(s) \cup {n + 1}
      <4>1. ResponsesOn(s)' = {k \in 1 .. n + 1 : sent'[s][k][1] # "event"}
        BY <2>1 DEF ResponsesOn, EventsOn
      <4>2. ResponsesOn(s) = {k \in 1 .. n : sent[s][k][1] # "event"}
        BY <1>1, ResponsePlaces DEF n
      <4> QED
        BY <4>1, <4>2, <2>1
    <3>2. n + 1 \notin ResponsesOn(s) /\ IsFiniteSet(ResponsesOn(s))
      BY <1>1, ResponsePlaces DEF n
    <3>3. Cardinality(ResponsesOn(s)') = Cardinality(ResponsesOn(s)) + 1
      BY <3>1, <3>2, FS_AddElement
    <3> QED
      BY <3>3, <1>1, <1>5, <1>9 DEF SocketInv, Counted
  <2>4. EventsInOrder(s)'
    <3>1. /\ s \in busListeners \cap implListeners
          /\ \A k \in 1 .. n : sent[s][k][1] = "event" =>
                /\ sent[s][k][2] \in 1 .. Len(emitted)
                /\ s \in emitted[sent[s][k][2]]
                /\ \A l \in k + 1 .. n :
                      sent[s][l][1] = "event" => sent[s][k][2] < sent[s][l][2]
          /\ \A x \in 1 .. Len(emitted) : s \in emitted[x] =>
                \E k \in 1 .. n : sent[s][k] = <<"event", x>>
      BY <1>1, <1>9 DEF SocketInv, EventsInOrder, n
    <3>2. ASSUME NEW k \in 1 .. n + 1, sent'[s][k][1] = "event"
          PROVE  /\ sent'[s][k][2] \in 1 .. Len(emitted)
                 /\ s \in emitted[sent'[s][k][2]]
                 /\ \A l \in k + 1 .. n + 1 :
                       sent'[s][l][1] = "event" => sent'[s][k][2] < sent'[s][l][2]
      <4>1. k \in 1 .. n /\ sent'[s][k] = sent[s][k]
        BY <3>2, <2>1
      <4>2. \A l \in k + 1 .. n + 1 : sent'[s][l][1] = "event" =>
                l \in k + 1 .. n /\ sent'[s][l] = sent[s][l]
        BY <4>1, <2>1
      <4> QED
        BY <4>1, <4>2, <3>1, <3>2
    <3>3. ASSUME NEW x \in 1 .. Len(emitted), s \in emitted[x]
          PROVE  \E k \in 1 .. n + 1 : sent'[s][k] = <<"event", x>>
      <4>1. PICK k \in 1 .. n : sent[s][k] = <<"event", x>>
        BY <3>1, <3>3
      <4>2. k \in 1 .. n + 1 /\ sent'[s][k] = sent[s][k]
        BY <2>1
      <4> QED
        BY <4>1, <4>2
    <3> QED
      BY <3>1, <3>2, <3>3, <2>1 DEF EventsInOrder
  <2> QED
    BY <1>3, <1>2, <1>6, <2>2, <2>3, <2>4 DEF SocketInv
<1> QED
  BY <1>8, <1>9

(* An event is emitted to the sockets of `to` that are open.               *)
LEMMA EventStep ==
    ASSUME ServerInv, NEW accepting \in SUBSET OpenSockets, NEW to,
           Len(emitted) < MaxEvents, emitted' = Append(emitted, accepting),
           Broadcast(to), to \cap OpenSockets = accepting,
           UNCHANGED <<readyState, busListeners, implListeners, received, running,
                       untold, executed>>
    PROVE  ServerInv'
<1> DEFINE n == Len(emitted)
           m == <<"event", n + 1>>
<1>1. /\ ServerTypeOK /\ n \in Nat /\ emitted \in Seq(SUBSET Socket)
      /\ accepting \in SUBSET Socket
  BY ServerFacts DEF ServerInv, OpenSockets
<1>2. /\ emitted' \in Seq(SUBSET Socket) /\ Len(emitted') = n + 1
      /\ \A k \in 1 .. n : emitted'[k] = emitted[k]
      /\ emitted'[n + 1] = accepting
      /\ \A k \in 1 .. n + 1 : k \in 1 .. n \/ k = n + 1
  BY <1>1
<1>3. m \in Message /\ m[1] = "event" /\ m[2] = n + 1
  BY <1>1, EventsAssumption DEF Message
<1>4. sent' = [q \in Socket |-> IF q \in accepting THEN Append(sent[q], m) ELSE sent[q]]
  BY <1>2 DEF Broadcast, OpenSockets
<1> HIDE DEF m
<1>5. ServerTypeOK'
  <2>1. sent' \in [Socket -> Seq(Message)]
    <3>1. \A q \in Socket : Append(sent[q], m) \in Seq(Message) /\ sent[q] \in Seq(Message)
      BY <1>1, <1>3, ServerFacts
    <3> QED
      BY <1>4, <3>1
  <2> QED
    <3>1. n + 1 <= MaxEvents
      BY <1>1, EventsAssumption
    <3> QED
      BY <2>1, <3>1, <1>1, <1>2 DEF ServerTypeOK
<1>6. ASSUME NEW q \in Socket PROVE SocketInv(q)'
  <2>1. SocketInv(q) /\ Len(sent[q]) \in Nat
    BY <1>1, ServerFacts DEF ServerInv
  <2>2. q \in accepting => readyState[q] = "open" /\ Grows(q, m)
    BY <1>1, <1>3, <1>4, AppendGrows DEF OpenSockets
  <2>3. q \notin accepting => sent'[q] = sent[q]
    BY <1>4
  <2> DEFINE d == Len(sent[q])
  <2>4. /\ d \in Nat
        /\ \A k \in 1 .. d : sent'[q][k] = sent[q][k]
        /\ Len(sent'[q]) = IF q \in accepting THEN d + 1 ELSE d
        /\ DOMAIN sent'[q] = 1 .. Len(sent'[q])
        /\ \A k \in 1 .. Len(sent'[q]) :
              k \in 1 .. d \/ (k = d + 1 /\ q \in accepting /\ sent'[q][k] = m)
    <3>1. d \in Nat /\ sent[q] \in Seq(Message)
      BY <1>1, ServerFacts
    <3>2. CASE q \in accepting
      BY <3>1, <3>2, <2>2 DEF Grows
    <3>3. CASE q \notin accepting
      BY <3>1, <3>3, <2>3
    <3> QED
      BY <3>2, <3>3
  <2>5. ResponsesOn(q)' = ResponsesOn(q) /\ ToldOn(q)' = ToldOn(q)
    <3>1. ResponsesOn(q)' = {k \in 1 .. Len(sent'[q]) : sent'[q][k][1] # "event"}
      BY <2>4 DEF ResponsesOn, EventsOn
    <3>2. ResponsesOn(q) = {k \in 1 .. d : sent[q][k][1] # "event"}
      BY <1>1, ResponsePlaces
    <3>3. 1 .. d \subseteq 1 .. Len(sent'[q])
      BY <2>4
    <3>4. ToldOn(q)' = ToldOn(q)
      BY DEF ToldOn
    <3> QED
      BY <3>1, <3>2, <3>3, <3>4, <2>4, <1>3
  <2> HIDE DEF d
  <2>6. Counted(q)'
    BY <2>1, <2>5 DEF SocketInv, Counted
  <2>7. Answered(q)'
    BY <2>1, <2>4, <1>3 DEF SocketInv, Answered, d
  <2>8. NotYetOpen(q)'
    BY <2>1, <2>2, <2>3, <1>2 DEF SocketInv, NotYetOpen
  <2>9. EventsInOrder(q)'
    <3> SUFFICES ASSUME readyState[q] = "open" PROVE EventsInOrder(q)'
      BY DEF EventsInOrder
    <3>1. /\ q \in busListeners \cap implListeners
          /\ \A k \in 1 .. d : sent[q][k][1] = "event" =>
                /\ sent[q][k][2] \in 1 .. n
                /\ q \in emitted[sent[q][k][2]]
                /\ \A l \in k + 1 .. d :
                      sent[q][l][1] = "event" => sent[q][k][2] < sent[q][l][2]
          /\ \A x \in 1 .. n : q \in emitted[x] => \E k \in 1 .. d : sent[q][k] = <<"event", x>>
      BY <2>1 DEF SocketInv, EventsInOrder, d
    <3>2. ASSUME NEW k \in 1 .. Len(sent'[q]), sent'[q][k][1] = "event"
          PROVE  /\ sent'[q][k][2] \in 1 .. n + 1
                 /\ q \in emitted'[sent'[q][k][2]]
                 /\ \A l \in k + 1 .. Len(sent'[q]) :
                       sent'[q][l][1] = "event" => sent'[q][k][2] < sent'[q][l][2]
      <4>1. CASE k \in 1 .. d
        <5>1. /\ sent[q][k][2] \in 1 .. n /\ q \in emitted[sent[q][k][2]]
              /\ sent'[q][k] = sent[q][k]
          BY <4>1, <3>1, <3>2, <2>4
        <5>2. ASSUME NEW l \in k + 1 .. Len(sent'[q]), sent'[q][l][1] = "event"
              PROVE  sent[q][k][2] < sent'[q][l][2]
          <6>1. l \in 1 .. Len(sent'[q])
            BY <4>1, <2>4
          <6>2. CASE l \in 1 .. d
            <7>1. l \in k + 1 .. d /\ sent'[q][l] = sent[q][l]
              BY <6>2, <4>1, <2>4
            <7>2. sent[q][k][1] = "event" /\ sent[q][l][1] = "event"
              BY <7>1, <5>1, <5>2, <3>2
            <7> QED
              BY <7>1, <7>2, <4>1, <3>1
          <6>3. CASE l = d + 1 /\ sent'[q][l] = m
            BY <6>3, <5>1, <1>1, <1>3
          <6> QED
            BY <6>1, <6>2, <6>3, <2>4
        <5> QED
          BY <5>1, <5>2, <1>1, <1>2
      <4>2. CASE k = d + 1 /\ q \in accepting /\ sent'[q][k] = m
        BY <4>2, <1>1, <1>2, <1>3, <2>4
      <4> QED
        BY <4>1, <4>2, <2>4
    <3>3. ASSUME NEW x \in 1 .. n + 1, q \in emitted'[x]
          PROVE  \E k \in 1 .. Len(sent'[q]) : sent'[q][k] = <<"event", x>>
      <4>1. CASE x \in 1 .. n
        <5>1. PICK k \in 1 .. d : sent[q][k] = <<"event", x>>
          BY <4>1, <3>1, <3>3, <1>2
        <5> QED
          BY <5>1, <2>4
      <4>2. CASE x = n + 1
        <5>1. q \in accepting
          BY <4>2, <3>3, <1>2
        <5>2. Len(sent'[q]) = d + 1 /\ sent'[q][d + 1] = m
          BY <5>1, <2>2 DEF Grows, d
        <5> QED
          BY <4>2, <5>2, <2>4 DEF m
      <4> QED
        BY <4>1, <4>2, <1>2
    <3> QED
      BY <3>1, <3>2, <3>3, <1>2 DEF EventsInOrder
  <2> QED
    BY <2>6, <2>7, <2>8, <2>9 DEF SocketInv
<1> QED
  BY <1>5, <1>6 DEF ServerInv

LEMMA ServerInitInv == ServerInit => ServerInv
<1> SUFFICES ASSUME ServerInit PROVE ServerInv
  OBVIOUS
<1>1. ServerTypeOK
  BY EventsAssumption DEF ServerInit, ServerTypeOK
<1>2. ASSUME NEW s \in Socket PROVE SocketInv(s)
  <2>1. sent[s] = <<>> /\ ToldOn(s) = {} /\ readyState[s] = "none"
    BY DEF ServerInit, ToldOn
  <2>2. Counted(s)
    BY <2>1, FS_EmptySet DEF Counted
  <2> QED
    BY <2>1, <2>2 DEF ServerInit, SocketInv, Answered, NotYetOpen, EventsInOrder
<1> QED
  BY <1>1, <1>2 DEF ServerInv

(* A socket opens.                                                         *)
LEMMA AcceptInv ==
    ASSUME ServerInv, NEW s \in Socket, Accept(s)
    PROVE  ServerInv'
<1>1. /\ readyState[s] = "none" /\ readyState' = [readyState EXCEPT ![s] = "open"]
      /\ implListeners' = implListeners \cup {s} /\ busListeners' = busListeners \cup {s}
      /\ UNCHANGED <<received, running, untold, executed, sent, emitted>>
  BY DEF Accept
<1>2. ServerTypeOK'
  BY <1>1 DEF ServerInv, ServerTypeOK
<1>3. \A q \in Socket \ {s} : readyState'[q] = readyState[q]
  BY <1>1 DEF ServerInv, ServerTypeOK
<1>4. ASSUME NEW q \in Socket, q # s PROVE SocketInv(q)'
  BY <1>1, <1>3, <1>4, SocketUntouched DEF ServerInv
<1>5. SocketInv(s)'
  <2>1. /\ sent[s] = <<>> /\ \A r \in Req : <<s, r>> \notin received
        /\ \A n \in 1 .. Len(emitted) : s \notin emitted[n]
    BY <1>1 DEF ServerInv, SocketInv, NotYetOpen
  <2>2. ToldOn(s)' = {} /\ ResponsesOn(s)' = {}
    BY <1>1, <2>1 DEF ToldOn, ResponsesOn
  <2>3. Counted(s)'
    BY <2>2, FS_EmptySet DEF Counted
  <2>4. readyState'[s] = "open"
    BY <1>1 DEF ServerInv, ServerTypeOK
  <2> QED
    BY <1>1, <2>1, <2>3, <2>4 DEF SocketInv, Answered, NotYetOpen, EventsInOrder
<1> QED
  BY <1>2, <1>4, <1>5 DEF ServerInv

(* A socket closes.                                                        *)
LEMMA ClosesInv ==
    ASSUME ServerInv, NEW s \in Socket, Closing(s) \/ Closed(s)
    PROVE  ServerInv'
<1>1. PICK state \in {"closing", "closed"} :
          /\ readyState' = [readyState EXCEPT ![s] = state]
          /\ busListeners \ {s} \subseteq busListeners'
          /\ busListeners' \subseteq busListeners
  BY DEF Closing, Closed
<1>2. UNCHANGED <<implListeners, received, running, untold, executed, sent,
                     emitted>>
  BY DEF Closing, Closed
<1>3. ServerTypeOK'
  BY <1>1, <1>2 DEF ServerInv, ServerTypeOK
<1>4. readyState'[s] = state /\ \A q \in Socket \ {s} : readyState'[q] = readyState[q]
  BY <1>1 DEF ServerInv, ServerTypeOK
<1>5. ASSUME NEW q \in Socket PROVE SocketInv(q)'
  BY <1>1, <1>2, <1>4, SocketUntouched DEF ServerInv
<1> QED
  BY <1>3, <1>5 DEF ServerInv

(* A request arrives.                                                      *)
LEMMA ArrivesInv ==
    ASSUME ServerInv, NEW s \in Socket, NEW r \in Req, Arrives(s, r)
    PROVE  ServerInv'
<1>1. /\ ServerTypeOK /\ running \subseteq received
      /\ untold \subseteq received \ running
      /\ \A q \in Socket : <<q, r>> \notin received
  BY DEF ServerInv, ServerTypeOK, Arrives
<1>2. readyState[s] \in {"open", "closing"} /\ received' = received \cup {<<s, r>>}
  BY DEF Arrives, Undecodable, NotRun, Run, Receives
<1>3. r \notin ToldOn(s)
  BY <1>1 DEF ToldOn
<1>4. ASSUME NEW m \in {<<"error", NoId>>, <<"error", r>>}, send(s, <<m>>),
             UNCHANGED <<readyState, busListeners, implListeners, running, untold,
                         executed, emitted>>
      PROVE  ServerInv'
  <2>1. m \in Message /\ m[1] # "event" /\ m[2] \in {r, NoId}
    BY <1>4 DEF Message
  <2>2. sent' \in [Socket -> Seq(Message)] /\ \A q \in Socket : SocketInv(q)'
    <3>1. <<s, r>> \in received' \ (running' \cup untold')
      BY <1>1, <1>2, <1>4
    <3>2. \A q \in Socket, x \in Req : q # s \/ x # r =>
              /\ <<q, x>> \in received' <=> <<q, x>> \in received
              /\ <<q, x>> \in running' \cup untold'
                    <=> <<q, x>> \in running \cup untold
      BY <1>2, <1>4
    <3> QED
      BY <1>2, <1>3, <1>4, <2>1, <3>1, <3>2, ResponseStep
  <2>3. ServerTypeOK'
    BY <1>1, <1>2, <1>4, <2>2 DEF ServerTypeOK
  <2> QED
    BY <2>2, <2>3 DEF ServerInv
<1>5. CASE Undecodable(s, r)
  BY <1>4, <1>5 DEF Undecodable
<1>6. CASE NotRun(s, r)
  BY <1>4, <1>6 DEF NotRun
<1>7. CASE Run(s, r)
  <2>1. /\ running' = running \cup {<<s, r>>}
        /\ executed' = [executed EXCEPT ![r] = @ + 1]
        /\ UNCHANGED <<readyState, busListeners, implListeners, untold, sent, emitted>>
    BY <1>7 DEF Run
  <2>2. ServerTypeOK'
    BY <1>1, <1>2, <2>1 DEF ServerTypeOK
  <2>3. ASSUME NEW q \in Socket, q # s PROVE SocketInv(q)'
    BY <1>2, <2>1, <2>3, SocketUntouched DEF ServerInv
  <2>4. SocketInv(s)'
    <3>1. SocketInv(s) /\ received' \ (running' \cup untold') = received \ (running \cup untold)
      BY <1>1, <1>2, <2>1 DEF ServerInv
    <3>2. ToldOn(s)' = ToldOn(s) /\ ResponsesOn(s)' = ResponsesOn(s)
      BY <2>1, <3>1 DEF ToldOn, ResponsesOn, EventsOn
    <3>3. Answered(s)' /\ Counted(s)'
      BY <2>1, <3>1, <3>2 DEF SocketInv, Answered, Counted
    <3>4. NotYetOpen(s)' /\ EventsInOrder(s)'
      <4>1. NotYetOpen(s)'
        BY <1>2, <2>1 DEF NotYetOpen
      <4>2. EventsInOrder(s)'
        BY <2>1, <3>1 DEF SocketInv, EventsInOrder
      <4> QED
        BY <4>1, <4>2
    <3> QED
      BY <3>3, <3>4 DEF SocketInv
  <2> QED
    BY <2>2, <2>3, <2>4 DEF ServerInv
<1> QED
  BY <1>5, <1>6, <1>7 DEF Arrives

(* A method ends.                                                          *)
LEMMA MethodEndsInv ==
    ASSUME ServerInv, NEW s \in Socket, NEW r \in Req, MethodEnds(s, r)
    PROVE  ServerInv'
<1>1. /\ <<s, r>> \in running /\ running' = running \ {<<s, r>>}
      /\ UNCHANGED <<readyState, busListeners, implListeners, received, executed, emitted>>
      /\ ServerTypeOK /\ <<s, r>> \in received /\ <<s, r>> \notin untold
  BY DEF MethodEnds, ServerInv, ServerTypeOK
<1>2. ASSUME NEW kind \in {"result", "error"}, send(s, << <<kind, r>> >>),
             UNCHANGED untold
      PROVE  ServerInv'
  <2> DEFINE m == <<kind, r>>
  <2>1. m \in Message /\ m[1] # "event" /\ m[2] \in {r, NoId}
    BY DEF Message
  <2>2. send(s, <<m>>)
    BY <1>2
  <2> HIDE DEF m
  <2>3. readyState[s] # "none"
    BY <1>1 DEF ServerInv, SocketInv, NotYetOpen
  <2>4. r \notin ToldOn(s)
    BY <1>1 DEF ToldOn
  <2>5. sent' \in [Socket -> Seq(Message)] /\ \A q \in Socket : SocketInv(q)'
    <3>1. <<s, r>> \in received' \ (running' \cup untold')
      BY <1>1, <1>2
    <3>2. \A q \in Socket, x \in Req : q # s \/ x # r =>
              /\ <<q, x>> \in received' <=> <<q, x>> \in received
              /\ <<q, x>> \in running' \cup untold'
                    <=> <<q, x>> \in running \cup untold
      BY <1>1, <1>2
    <3> QED
      BY <1>1, <2>1, <2>2, <2>3, <2>4, <3>1, <3>2, ResponseStep
  <2>6. ServerTypeOK'
    BY <1>1, <1>2, <2>5 DEF ServerTypeOK
  <2> QED
    BY <2>5, <2>6 DEF ServerInv
<1>3. CASE EndsUntold(s, r)
  <2>1. sent' = sent /\ untold' = untold \cup {<<s, r>>}
    BY <1>3 DEF EndsUntold
  <2>2. \A q \in Socket, x \in Req :
            <<q, x>> \in running' \cup untold' <=> <<q, x>> \in running \cup untold
    BY <1>1, <2>1
  <2>3. ASSUME NEW q \in Socket PROVE SocketInv(q)'
    BY <1>1, <2>1, <2>2, SocketUntouched DEF ServerInv
  <2>4. ServerTypeOK'
    BY <1>1, <2>1 DEF ServerTypeOK
  <2> QED
    BY <2>3, <2>4 DEF ServerInv
<1> QED
  BY <1>2, <1>3 DEF MethodEnds

LEMMA ServerStep == ServerInv /\ [ServerNext]_serverVars => ServerInv'
<1> SUFFICES ASSUME ServerInv, [ServerNext]_serverVars PROVE ServerInv'
  OBVIOUS
<1>1. CASE EmitOnBus
  <2>1. PICK accepting \in SUBSET OpenSockets :
            /\ emitted' = Append(emitted, accepting)
            /\ Broadcast(accepting \cap busListeners)
    BY <1>1 DEF EmitOnBus
  <2>2. (accepting \cap busListeners) \cap OpenSockets = accepting
    BY DEF ServerInv, SocketInv, EventsInOrder, OpenSockets
  <2> QED
    BY <1>1, <2>1, <2>2, EventStep DEF EmitOnBus
<1>2. CASE EmitByProtocol
  <2>1. implListeners \cap OpenSockets = OpenSockets
    BY DEF ServerInv, SocketInv, EventsInOrder, OpenSockets
  <2> QED
    BY <1>2, <2>1, EventStep DEF EmitByProtocol
<1>3. CASE UNCHANGED serverVars
  <2>1. UNCHANGED <<readyState, busListeners, implListeners, received, running, untold,
                    executed, sent, emitted>>
    BY <1>3 DEF serverVars
  <2>2. \A s \in Socket : SocketInv(s)'
    BY <2>1, SocketUntouched DEF ServerInv
  <2> QED
    BY <2>1, <2>2 DEF ServerInv, ServerTypeOK
<1>4. ASSUME NEW s \in Socket, Accept(s) PROVE ServerInv'
  BY <1>4, AcceptInv
<1>5. ASSUME NEW s \in Socket, Closing(s) \/ Closed(s) PROVE ServerInv'
  BY <1>5, ClosesInv
<1>6. ASSUME NEW s \in Socket, NEW r \in Req, Arrives(s, r) PROVE ServerInv'
  BY <1>6, ArrivesInv
<1>7. ASSUME NEW s \in Socket, NEW r \in Req, MethodEnds(s, r) PROVE ServerInv'
  BY <1>7, MethodEndsInv
<1> QED
  BY <1>1, <1>2, <1>3, <1>4, <1>5, <1>6, <1>7 DEF ServerNext

(* RpcServer keeps its types.                                              *)
THEOREM ServerTyped == ServerSpec => []ServerTypeOK
<1>1. ServerInv => ServerTypeOK
  BY DEF ServerInv
<1> QED
  BY <1>1, ServerInitInv, ServerStep, PTL DEF ServerSpec

(* WsProtocolHandler and RpcHandler, for any number of connections and     *)
(* requests: one response at most, where the request came from; exactly    *)
(* one on an open connection for each request that has ended, those apart  *)
(* whose error cannot be told.                                             *)
THEOREM ServerAnswersOnce == ServerSpec => []OneResponse
<1>1. ServerInv => OneResponse
  <2> SUFFICES ASSUME ServerInv, NEW s \in Socket
               PROVE  /\ \A r \in Req : \A k, l \in ResponsesTo(s, r) :
                            k = l /\ r \in ToldOn(s)
                      /\ readyState[s] = "open" =>
                            Cardinality(ToldOn(s)) = Cardinality(ResponsesOn(s))
    BY DEF OneResponse
  <2>1. ASSUME NEW r \in Req, NEW k \in ResponsesTo(s, r), NEW l \in ResponsesTo(s, r)
        PROVE  k = l /\ r \in ToldOn(s)
    <3>1. \A x \in ResponsesTo(s, r) :
              x \in 1 .. Len(sent[s]) /\ sent[s][x][1] # "event" /\ sent[s][x][2] = r
      BY ResponsePlaces DEF ServerInv, ResponsesTo
    <3> QED
      BY <2>1, <3>1, NoIdAssumption DEF ServerInv, SocketInv, Answered, ToldOn
  <2> QED
    BY <2>1 DEF ServerInv, SocketInv, Counted
<1> QED
  BY <1>1, ServerInitInv, ServerStep, PTL DEF ServerSpec

(* The event bus and the events of the protocol: every open connection is  *)
(* sent each event that it accepts once, in the order of emission.         *)
THEOREM EventsReachEveryOpen == ServerSpec => []EventsReachOpen
<1>1. ServerInv => EventsReachOpen
  <2> SUFFICES ASSUME ServerInv, NEW s \in Socket, readyState[s] = "open"
               PROVE  /\ {sent[s][k][2] : k \in EventsOn(s)}
                            = {n \in DOMAIN emitted : s \in emitted[n]}
                      /\ \A k, l \in EventsOn(s) :
                            k < l => sent[s][k][2] < sent[s][l][2]
    BY DEF EventsReachOpen
  <2>1. /\ \A k \in 1 .. Len(sent[s]) : sent[s][k][1] = "event" =>
              /\ sent[s][k][2] \in 1 .. Len(emitted)
              /\ s \in emitted[sent[s][k][2]]
              /\ \A l \in k + 1 .. Len(sent[s]) :
                    sent[s][l][1] = "event" => sent[s][k][2] < sent[s][l][2]
        /\ \A n \in 1 .. Len(emitted) : s \in emitted[n] =>
              \E k \in 1 .. Len(sent[s]) : sent[s][k] = <<"event", n>>
    BY DEF ServerInv, SocketInv, EventsInOrder
  <2>2. /\ EventsOn(s) = {k \in 1 .. Len(sent[s]) : sent[s][k][1] = "event"}
        /\ DOMAIN emitted = 1 .. Len(emitted) /\ Len(sent[s]) \in Nat
    BY ServerFacts DEF ServerInv, EventsOn
  <2>3. \A k, l \in EventsOn(s) : k < l => sent[s][k][2] < sent[s][l][2]
    <3> SUFFICES ASSUME NEW k \in EventsOn(s), NEW l \in EventsOn(s), k < l
                 PROVE  sent[s][k][2] < sent[s][l][2]
      OBVIOUS
    <3>1. k \in 1 .. Len(sent[s]) /\ l \in k + 1 .. Len(sent[s])
      BY <2>2
    <3> QED
      BY <3>1, <2>1, <2>2
  <2>4. ASSUME NEW k \in EventsOn(s)
        PROVE  sent[s][k][2] \in DOMAIN emitted /\ s \in emitted[sent[s][k][2]]
    BY <2>1, <2>2
  <2>5. ASSUME NEW n \in DOMAIN emitted, s \in emitted[n]
        PROVE  \E k \in EventsOn(s) : sent[s][k][2] = n
    <3>1. PICK k \in 1 .. Len(sent[s]) : sent[s][k] = <<"event", n>>
      BY <2>1, <2>2, <2>5
    <3>2. sent[s][k][1] = "event" /\ sent[s][k][2] = n
      BY <3>1
    <3> QED
      BY <3>2, <2>2
  <2> QED
    BY <2>3, <2>4, <2>5
<1> QED
  BY <1>1, ServerInitInv, ServerStep, PTL DEF ServerSpec

-----------------------------------------------------------------------------
(* The server in the composition.                                          *)

(* Every step of the composition is a step of the server or a stutter.     *)
LEMMA ServerSimulation ==
    RInv /\ [RpcNext]_rpcAllVars => [ServerNext]_serverVars
<1> SUFFICES ASSUME RInv, [RpcNext]_rpcAllVars PROVE [ServerNext]_serverVars
  OBVIOUS
<1>1. ASSUME NEW c \in Conn, ClientOpens(c) PROVE ServerNext
  BY <1>1 DEF ClientOpens, ServerNext
<1>2. ASSUME NEW s \in Socket, Receive(s) PROVE ServerNext
  <2> DEFINE r == Head(toServer[s])
  <2>1. toServer[s] # <<>> /\ (Undecodable(s, r) \/ NotRun(s, r) \/ Run(s, r))
    BY <1>2 DEF Receive
  <2>2. toServer[s] \in Seq(Req)
    BY DEF RInv, RpcTypeOK
  <2>3. 1 \in 1 .. Len(toServer[s]) /\ r = toServer[s][1] /\ r \in Req
    BY <2>1, <2>2
  <2> HIDE DEF r
  <2>4. \A q \in Socket : <<q, r>> \notin received
    BY <2>3 DEF RInv, OnePlace
  <2>5. Arrives(s, r)
    BY <2>1, <2>4 DEF Arrives
  <2> QED
    BY <2>3, <2>5 DEF ServerNext
<1>3. CASE ServerAlone(\E s \in Socket, r \in Req : MethodEnds(s, r))
  BY <1>3 DEF ServerAlone, ServerNext
<1>4. CASE ServerAlone(\E s \in Socket : Closing(s) \/ Closed(s))
  BY <1>4 DEF ServerAlone, ServerNext
<1>5. CASE \/ ClientSends \/ ClientAlone \/ UNCHANGED rpcAllVars
           \/ \E c \in Conn : ClientCloses(c) \/ Deliver(c)
  <2>1. UNCHANGED serverVars
    BY <1>5 DEF ClientSends, ClientAlone, ClientCloses, Deliver, rpcAllVars
  <2> QED
    BY <2>1
<1> QED
  BY <1>1, <1>2, <1>3, <1>4, <1>5 DEF RpcNext

(* The server at the end of the network is RpcServer: what it assumes of   *)
(* its clients, that an id comes once over all connections, is what the    *)
(* client keeps to.                                                        *)
THEOREM RpcImplementsServer == RpcSpec => ServerSpec
<1>1. RpcInit => ServerInit
  BY DEF RpcInit
<1> QED
  BY <1>1, ServerSimulation, RpcInvariance, PTL DEF RpcSpec, ServerSpec

(* With reconnecting clients too, a request has one response at most, on   *)
(* the connection that brought it.                                         *)
THEOREM AnsweredOnceEndToEnd == RpcSpec => []OneResponse
BY RpcImplementsServer, ServerAnswersOnce, PTL
=============================================================================
