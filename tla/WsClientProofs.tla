--------------------------- MODULE WsClientProofs ---------------------------
(***************************************************************************)
(* Proofs about WsClient for every number of chains and calls and for      *)
(* every answer of the hooks.                                              *)
(*                                                                         *)
(* The argument: TypeOK is inductive by itself; CallsAccountedFor and      *)
(* QueueDrained are inductive with it; the two facts about the line of     *)
(* requests (wire followed by queue) need that new ids are fresh.  With    *)
(* these, an application that never overlaps attempts has one connection,  *)
(* and no call of its is ever stranded; and the client implements RpcCalls.*)
(***************************************************************************)
EXTENDS WsClient, SequenceTheorems, TLAPS

-----------------------------------------------------------------------------
(* Type correctness.                                                       *)

(* The requests of a sequence of requests are call ids.                    *)
LEMMA RangeInSet ==
    ASSUME NEW S, NEW s \in Seq(S)
    PROVE  /\ Range(s) \subseteq S
           /\ \A x : x \in Range(s) <=> \E k \in 1 .. Len(s) : s[k] = x
<1>1. Range(s) \subseteq S
    BY RangeOfSeq
<1>2. Range(s) = {s[k] : k \in 1 .. Len(s)}
    BY RangeEquality
<1> QED
    BY <1>1, <1>2

(* A new client has the right types.                                       *)
LEMMA TypeInit == Init => TypeOK
<1> SUFFICES ASSUME Init PROVE TypeOK
    OBVIOUS
<1>1. reconnectEnabled \in BOOLEAN
    BY HooksAssumption DEF Init
<1>2. id \in 0 .. MaxCalls
    BY CallsAssumption DEF Init
<1>3. <<>> \in Seq(CallId)
    BY EmptySeq
<1> QED
    BY <1>1, <1>2, <1>3 DEF Init, TypeOK, ConnStatus, CallStatus

(* What each shared effect does to the types.                              *)
LEMMA HandleCloseType ==
    ASSUME TypeOK, NEW keep, HandleClose(keep)
    PROVE  /\ id' \in 0 .. MaxCalls
           /\ awaitingCommands' \in SUBSET CallId
           /\ call' \in [CallId -> CallStatus]
BY DEF TypeOK, HandleClose, CallStatus

(* A new call has an id that is a call id.                                 *)
LEMMA NewCallType ==
    ASSUME TypeOK, NewCall
    PROVE  /\ id' \in 0 .. MaxCalls
           /\ id + 1 \in CallId
           /\ awaitingCommands' \in SUBSET CallId
           /\ call' \in [CallId -> CallStatus]
BY CallsAssumption DEF TypeOK, NewCall, CallStatus, CallId

(* Sending keeps the types of the wire and of what is in flight.           *)
LEMMA SendAllType ==
    ASSUME TypeOK, NEW s \in Seq(CallId), NEW c \in Conn, SendAll(s, c)
    PROVE  /\ wire' \in Seq(CallId)
           /\ inFlight' \in [CallId -> Conn \cup {None}]
<1>1. wire' \in Seq(CallId)
    BY ConcatProperties DEF TypeOK, SendAll
<1>2. inFlight' \in [CallId -> Conn \cup {None}]
    BY DEF TypeOK, SendAll
<1> QED
    BY <1>1, <1>2

(* Every step keeps the types.                                             *)
LEMMA TypeStep == TypeOK /\ [Next]_vars => TypeOK'
<1> SUFFICES ASSUME TypeOK, [Next]_vars PROVE TypeOK'
    OBVIOUS
<1> USE DEF ConnStatus
<1>0. <<>> \in Seq(CallId)
    BY EmptySeq
<1>1. CASE Connect
    <2>1. reconnectEnabled' \in BOOLEAN
        BY <1>1, HooksAssumption DEF Connect
    <2>2. conn' \in [Conn -> ConnStatus] /\ connectPromise' \in BOOLEAN
        BY <1>1 DEF Connect, TypeOK
    <2> QED
        BY <1>1, <2>1, <2>2 DEF Connect, TypeOK, rpcVars
<1>2. CASE Disconnect
    BY <1>0, <1>2, HandleCloseType DEF Disconnect, TypeOK
<1>3. CASE CallSent
    <2>1. ws \in Conn
        BY <1>3 DEF CallSent, isConnected, TypeOK
    <2>2. <<id + 1>> \in Seq(CallId)
        BY <1>3, NewCallType DEF CallSent
    <2> QED
        BY <1>3, <2>1, <2>2, NewCallType, SendAllType DEF CallSent, TypeOK
<1>4. CASE CallQueued
    <2>1. pendingRequests' \in Seq(CallId)
        BY <1>4, NewCallType, AppendProperties DEF CallQueued, TypeOK
    <2> QED
        BY <1>4, <2>1, NewCallType DEF CallQueued, TypeOK
<1>5. CASE CallRefused
    BY <1>5, CallsAssumption DEF CallRefused, TypeOK, CallStatus, CallId
<1>6. ASSUME NEW c \in Conn, Opened(c) PROVE TypeOK'
    <2>1. pendingRequests \in Seq(CallId)
        BY DEF TypeOK
    <2> QED
        BY <1>0, <1>6, <2>1, SendAllType DEF Opened, TypeOK, rpcVars
<1>7. ASSUME NEW c \in Conn, OpenedListenerCalls(c) PROVE TypeOK'
    <2>1. <<id + 1>> \o pendingRequests \in Seq(CallId)
        <3>1. <<id + 1>> \in Seq(CallId)
            BY <1>7, NewCallType DEF OpenedListenerCalls
        <3> QED
            BY <3>1, ConcatProperties DEF TypeOK
    <2> QED
        BY <1>0, <1>7, <2>1, NewCallType, SendAllType
        DEF OpenedListenerCalls, TypeOK
<1>8. ASSUME NEW c \in Conn, OpenedClosing(c) PROVE TypeOK'
    BY <1>8 DEF OpenedClosing, TypeOK, rpcVars
<1>9. ASSUME NEW c \in Conn, ConnectFailed(c) PROVE TypeOK'
    BY <1>9 DEF ConnectFailed, TypeOK, rpcVars
<1>10. ASSUME NEW c \in Conn, ConnectGivesUp(c) PROVE TypeOK'
    BY <1>0, <1>10, HandleCloseType DEF ConnectGivesUp, TypeOK
<1>11. ASSUME NEW c \in Conn, RetryTimer(c) PROVE TypeOK'
    BY <1>11 DEF RetryTimer, TypeOK, rpcVars
<1>12. ASSUME NEW c \in Conn, CloseBegins(c) PROVE TypeOK'
    BY <1>12 DEF CloseBegins, TypeOK, rpcVars
<1>13. ASSUME NEW c \in Conn, CloseIgnored(c) PROVE TypeOK'
    BY <1>13 DEF CloseIgnored, TypeOK, rpcVars, DropInFlight
<1>14. ASSUME NEW c \in Conn, CloseReconnects(c) PROVE TypeOK'
    BY <1>14, HandleCloseType DEF CloseReconnects, TypeOK, DropInFlight
<1>15. ASSUME NEW c \in Conn, CloseForGood(c) PROVE TypeOK'
    BY <1>0, <1>15, HandleCloseType DEF CloseForGood, TypeOK, DropInFlight
<1>16. ASSUME NEW c \in Conn, ReconnectTimer(c) PROVE TypeOK'
    BY <1>16 DEF ReconnectTimer, TypeOK, rpcVars
<1>17. ASSUME NEW i \in CallId, Response(i) PROVE TypeOK'
    BY <1>17 DEF Response, TypeOK, CallStatus
<1>18. CASE UNCHANGED vars
    BY <1>18 DEF vars, TypeOK
<1> QED
    BY <1>1, <1>2, <1>3, <1>4, <1>5, <1>6, <1>7, <1>8, <1>9, <1>10, <1>11,
       <1>12, <1>13, <1>14, <1>15, <1>16, <1>17, <1>18
    DEF Next, Application, Outcome, CloseEvent

(* Every variable of the client stays in its type.                         *)
THEOREM TypeCorrect == Spec => []TypeOK
BY TypeInit, TypeStep, PTL DEF Spec

-----------------------------------------------------------------------------
(* The sequences the client builds: concatenations and single requests.    *)

(* The sequence of one request.                                            *)
LEMMA OneRequest ==
    ASSUME NEW i \in CallId
    PROVE  /\ <<i>> \in Seq(CallId) /\ Len(<<i>>) = 1 /\ <<i>>[1] = i
           /\ Range(<<i>>) = {i}
<1>1. <<i>> \in Seq(CallId) /\ Len(<<i>>) = 1 /\ <<i>>[1] = i
    OBVIOUS
<1>2. Range(<<i>>) = {<<i>>[k] : k \in 1 .. 1}
    BY <1>1, RangeEquality
<1> QED
    BY <1>1, <1>2

(* The empty sequence.                                                     *)
LEMMA NoRequest == <<>> \in Seq(CallId) /\ Len(<<>>) = 0 /\ Range(<<>>) = {}
<1>1. <<>> \in Seq(CallId) /\ Len(<<>>) = 0
    BY EmptySeq
<1>2. Range(<<>>) = {<<>>[k] : k \in 1 .. 0}
    BY <1>1, RangeEquality
<1> QED
    BY <1>1, <1>2

(* Two sequences of requests put together.                                 *)
LEMMA Concat ==
    ASSUME NEW s \in Seq(CallId), NEW t \in Seq(CallId)
    PROVE  /\ s \o t \in Seq(CallId)
           /\ Range(s \o t) = Range(s) \cup Range(t)
           /\ DOMAIN (s \o t) = 1 .. Len(s) + Len(t)
           /\ \A k \in 1 .. Len(s) + Len(t) :
                 (s \o t)[k] = IF k <= Len(s) THEN s[k] ELSE t[k - Len(s)]
<1>1. /\ s \o t \in Seq(CallId)
      /\ Len(s \o t) = Len(s) + Len(t)
      /\ \A k \in 1 .. Len(s) + Len(t) :
            (s \o t)[k] = IF k <= Len(s) THEN s[k] ELSE t[k - Len(s)]
    BY ConcatProperties
<1>2. Range(s \o t) = Range(s) \cup Range(t)
    BY RangeConcatenation
<1>3. DOMAIN (s \o t) = 1 .. Len(s \o t)
    BY <1>1, LenProperties
<1> QED
    BY <1>1, <1>2, <1>3

(* Appending is concatenation, and adds one request.                       *)
LEMMA Enqueue ==
    ASSUME NEW s \in Seq(CallId), NEW i \in CallId
    PROVE  /\ Append(s, i) = s \o <<i>>
           /\ Range(Append(s, i)) = Range(s) \cup {i}
<1>1. <<i>> \in Seq(CallId) /\ Range(<<i>>) = {i}
    BY OneRequest
<1>2. Append(s, i) = s \o <<i>>
    BY AppendIsConcat
<1>3. Range(s \o <<i>>) = Range(s) \cup Range(<<i>>)
    BY <1>1, Concat
<1> QED
    BY <1>1, <1>2, <1>3

(* What was sent after sending s.                                          *)
LEMMA SentRange ==
    ASSUME wire \in Seq(CallId), NEW s \in Seq(CallId), NEW c, SendAll(s, c)
    PROVE  Range(wire') = Range(wire) \cup Range(s)
<1>1. wire' = wire \o s
    BY DEF SendAll
<1>2. Range(wire \o s) = Range(wire) \cup Range(s)
    BY RangeConcatenation
<1> QED
    BY <1>1, <1>2

(* A call that is sent at once.                                            *)
LEMMA CallSentRange ==
    ASSUME TypeOK, CallSent
    PROVE  Range(wire') = Range(wire) \cup {id + 1}
<1>1. <<id + 1>> \in Seq(CallId) /\ Range(<<id + 1>>) = {id + 1}
    BY NewCallType, OneRequest DEF CallSent
<1>2. wire \in Seq(CallId) /\ SendAll(<<id + 1>>, ws)
    BY DEF CallSent, TypeOK
<1>3. Range(wire') = Range(wire) \cup Range(<<id + 1>>)
    BY <1>1, <1>2, SentRange
<1> QED
    BY <1>1, <1>3

-----------------------------------------------------------------------------
(* New ids are fresh, and only a request that was sent is in flight.       *)

Fresh ==
    /\ \A i \in Range(wire) \cup Range(pendingRequests) : i <= id
    /\ \A i \in awaitingCommands : i <= id
    /\ \A i \in CallId : i > id => call[i] = "none"

InFlightSent == \A i \in CallId : inFlight[i] # None => i \in Range(wire)

(* Nothing is numbered or in flight yet.                                   *)
LEMMA FreshInit == Init => Fresh /\ InFlightSent
BY NoRequest DEF Init, Fresh, InFlightSent, CallId

(* The id of a new call occurs nowhere.                                    *)
LEMMA NewCallFresh ==
    ASSUME TypeOK, Fresh, NewCall
    PROVE  /\ id + 1 \in CallId /\ id' = id + 1
           /\ \A i \in awaitingCommands' : i <= id'
           /\ \A i \in CallId : i > id' => call'[i] = "none"
           /\ \A i \in Range(wire) \cup Range(pendingRequests) : i <= id'
<1>1. /\ id \in Int /\ id' = id + 1 /\ id + 1 \in CallId
      /\ awaitingCommands' = awaitingCommands \cup {id + 1}
      /\ \A i \in CallId : i # id + 1 => call'[i] = call[i]
      /\ \A i \in CallId : i \in Int
    BY NewCallType, CallsAssumption DEF TypeOK, NewCall, CallId
<1>2. /\ awaitingCommands \subseteq CallId
      /\ Range(wire) \subseteq CallId
      /\ Range(pendingRequests) \subseteq CallId
    BY RangeInSet DEF TypeOK
<1> QED
    BY <1>1, <1>2 DEF Fresh

(* Ids above the last one stay unused, what is in flight was sent.         *)
LEMMA FreshStep ==
    TypeOK /\ Fresh /\ InFlightSent /\ [Next]_vars => Fresh' /\ InFlightSent'
<1> SUFFICES ASSUME TypeOK, Fresh, InFlightSent, [Next]_vars
             PROVE  Fresh' /\ InFlightSent'
    OBVIOUS
<1> USE DEF Fresh, InFlightSent
<1>0. id \in Int /\ \A i \in CallId : i \in Int
    BY CallsAssumption DEF TypeOK, CallId
<1>1. CASE Connect
    BY <1>1 DEF Connect, rpcVars
<1>2. CASE Disconnect
    BY <1>0, <1>2, NoRequest DEF Disconnect, HandleClose, TypeOK
<1>3. CASE CallSent
    <2>1. id + 1 \in CallId
        BY <1>3, NewCallType DEF CallSent
    <2>2. Range(wire') = Range(wire) \cup {id + 1}
        BY <1>3, CallSentRange
    <2>3. Fresh'
        BY <1>0, <1>3, <2>2, NewCallFresh DEF CallSent
    <2>4. InFlightSent'
        BY <1>3, <2>1, <2>2, OneRequest DEF CallSent, SendAll, TypeOK
    <2> QED
        BY <2>3, <2>4
<1>4. CASE CallQueued
    <2>1. id + 1 \in CallId
        BY <1>4, NewCallType DEF CallQueued
    <2>2. Range(pendingRequests') = Range(pendingRequests) \cup {id + 1}
        BY <1>4, <2>1, Enqueue DEF CallQueued, TypeOK
    <2> QED
        BY <1>0, <1>4, <2>2, NewCallFresh DEF CallQueued
<1>5. CASE CallRefused
    <2>1. /\ Range(wire) \cup Range(pendingRequests) \subseteq CallId
          /\ awaitingCommands \subseteq CallId
        BY RangeInSet DEF TypeOK
    <2>2. /\ id' = id + 1
          /\ \A i \in CallId : i # id + 1 => call'[i] = call[i]
        BY <1>5 DEF CallRefused, TypeOK
    <2> QED
        BY <1>0, <1>5, <2>1, <2>2 DEF CallRefused
<1>6. ASSUME NEW c \in Conn, Opened(c) PROVE Fresh' /\ InFlightSent'
    <2>1. Range(wire') = Range(wire) \cup Range(pendingRequests)
        BY <1>6, Concat DEF Opened, SendAll, TypeOK
    <2> QED
        BY <1>6, <2>1, NoRequest DEF Opened, SendAll, rpcVars
<1>7. ASSUME NEW c \in Conn, OpenedListenerCalls(c)
      PROVE  Fresh' /\ InFlightSent'
    <2>1. id + 1 \in CallId
        BY <1>7, NewCallType DEF OpenedListenerCalls
    <2>2. /\ <<id + 1>> \o pendingRequests \in Seq(CallId)
          /\ Range(<<id + 1>> \o pendingRequests)
                = {id + 1} \cup Range(pendingRequests)
        BY <2>1, OneRequest, Concat DEF TypeOK
    <2>3. Range(wire')
             = Range(wire) \cup Range(<<id + 1>> \o pendingRequests)
        BY <1>7, <2>2, Concat DEF OpenedListenerCalls, SendAll, TypeOK
    <2>4. Fresh'
        BY <1>0, <1>7, <2>2, <2>3, NoRequest, NewCallFresh
        DEF OpenedListenerCalls
    <2>5. InFlightSent'
        BY <1>7, <2>2, <2>3 DEF OpenedListenerCalls, SendAll, TypeOK
    <2> QED
        BY <2>4, <2>5
<1>8. ASSUME NEW c \in Conn, ConnectGivesUp(c) PROVE Fresh' /\ InFlightSent'
    BY <1>0, <1>8, NoRequest DEF ConnectGivesUp, HandleClose, TypeOK
<1>9. ASSUME NEW c \in Conn, CloseIgnored(c) PROVE Fresh' /\ InFlightSent'
    BY <1>9 DEF CloseIgnored, DropInFlight, rpcVars
<1>10. ASSUME NEW c \in Conn, CloseReconnects(c) PROVE Fresh' /\ InFlightSent'
    BY <1>0, <1>10 DEF CloseReconnects, HandleClose, DropInFlight, TypeOK
<1>11. ASSUME NEW c \in Conn, CloseForGood(c) PROVE Fresh' /\ InFlightSent'
    BY <1>0, <1>11, NoRequest DEF CloseForGood, HandleClose, DropInFlight, TypeOK
<1>12. ASSUME NEW c \in Conn,
              \/ OpenedClosing(c) \/ ConnectFailed(c) \/ RetryTimer(c)
              \/ CloseBegins(c) \/ ReconnectTimer(c)
       PROVE  Fresh' /\ InFlightSent'
    BY <1>12
    DEF OpenedClosing, ConnectFailed, RetryTimer, CloseBegins, ReconnectTimer,
        rpcVars
<1>13. ASSUME NEW i \in CallId, Response(i) PROVE Fresh' /\ InFlightSent'
    <2>1. i <= id
        BY <1>13 DEF Response
    <2> QED
        BY <1>0, <1>13, <2>1 DEF Response, TypeOK
<1>14. CASE UNCHANGED vars
    BY <1>14 DEF vars
<1> QED
    BY <1>1, <1>2, <1>3, <1>4, <1>5, <1>6, <1>7, <1>8, <1>9, <1>10, <1>11,
       <1>12, <1>13, <1>14
    DEF Next, Application, Outcome, CloseEvent

-----------------------------------------------------------------------------
(* An open connection has no queue behind it.                              *)

(* A new client has no socket.                                             *)
LEMMA DrainedInit == Init => QueueDrained
BY DEF Init, QueueDrained

(* No step leaves a queue behind an open socket.                           *)
LEMMA DrainedStep == TypeOK /\ QueueDrained /\ [Next]_vars => QueueDrained'
<1> SUFFICES ASSUME TypeOK, QueueDrained, [Next]_vars PROVE QueueDrained'
    OBVIOUS
<1> USE NoneAssumption DEF QueueDrained, isConnected, TypeOK
<1>1. CASE Connect
    BY <1>1 DEF Connect
<1>2. CASE Disconnect
    BY <1>2 DEF Disconnect
<1>3. CASE CallSent \/ CallQueued \/ CallRefused
    BY <1>3 DEF CallSent, CallQueued, CallRefused
<1>4. ASSUME NEW c \in Conn, Outcome(c) PROVE QueueDrained'
    BY <1>4 DEF Outcome, Opened, OpenedListenerCalls, OpenedClosing,
                ConnectFailed, ConnectGivesUp
<1>5. ASSUME NEW c \in Conn,
             RetryTimer(c) \/ CloseBegins(c) \/ CloseEvent(c) \/ ReconnectTimer(c)
      PROVE  QueueDrained'
    BY <1>5 DEF RetryTimer, CloseBegins, CloseEvent, CloseIgnored,
                CloseReconnects, CloseForGood, ReconnectTimer
<1>6. ASSUME NEW i \in CallId, Response(i) PROVE QueueDrained'
    BY <1>6 DEF Response
<1>7. CASE UNCHANGED vars
    BY <1>7 DEF vars
<1> QED
    BY <1>1, <1>2, <1>3, <1>4, <1>5, <1>6, <1>7 DEF Next, Application

-----------------------------------------------------------------------------
(* The line: the requests sent, then those queued.                         *)

(* A larger id at the end keeps the line without repetition and in order.  *)
LEMMA LineGrows ==
    ASSUME NEW s \in Seq(CallId), NEW i \in CallId, \A j \in Range(s) : j < i
    PROVE  /\ IsInjective(s) => IsInjective(s \o <<i>>)
           /\ Increasing(s) => Increasing(s \o <<i>>)
<1>1. /\ Len(s) \in Nat /\ DOMAIN s = 1 .. Len(s)
      /\ \A k \in 1 .. Len(s) : s[k] \in CallId /\ s[k] \in Range(s)
    BY LenProperties, ElementOfSeq DEF Range
<1>2. <<i>> \in Seq(CallId) /\ Len(<<i>>) = 1 /\ <<i>>[1] = i
    BY OneRequest
<1>3. /\ DOMAIN (s \o <<i>>) = 1 .. Len(s) + 1
      /\ \A k \in 1 .. Len(s) + 1 :
            (s \o <<i>>)[k] = IF k <= Len(s) THEN s[k] ELSE <<i>>[k - Len(s)]
    BY <1>2, Concat
<1>4. /\ \A k \in 1 .. Len(s) : (s \o <<i>>)[k] = s[k]
      /\ (s \o <<i>>)[Len(s) + 1] = i
    BY <1>1, <1>2, <1>3
<1>5. \A k \in 1 .. Len(s) : s[k] < i
    BY <1>1
<1> QED
    BY <1>1, <1>3, <1>4, <1>5 DEF IsInjective, Increasing, CallId

(* So does dropping the end of the line.                                   *)
LEMMA LineCut ==
    ASSUME NEW s \in Seq(CallId), NEW t \in Seq(CallId)
    PROVE  /\ IsInjective(s \o t) => IsInjective(s)
           /\ Increasing(s \o t) => Increasing(s)
<1>1. /\ Len(s) \in Nat /\ DOMAIN s = 1 .. Len(s) /\ Len(t) \in Nat
    BY LenProperties
<1>2. /\ DOMAIN (s \o t) = 1 .. Len(s) + Len(t)
      /\ \A k \in 1 .. Len(s) : (s \o t)[k] = s[k]
    BY <1>1, Concat
<1> QED
    BY <1>1, <1>2 DEF IsInjective, Increasing

(* A new id in the middle of the line does not repeat another.             *)
LEMMA LineInsert ==
    ASSUME NEW s \in Seq(CallId), NEW t \in Seq(CallId), NEW i \in CallId,
           IsInjective(s \o t), i \notin Range(s) \cup Range(t)
    PROVE  IsInjective(s \o (<<i>> \o t))
<1> DEFINE u == <<i>> \o t
<1>1. /\ Len(s) \in Nat /\ Len(t) \in Nat
      /\ \A k \in 1 .. Len(s) : s[k] \in Range(s)
      /\ \A k \in 1 .. Len(t) : t[k] \in Range(t)
    BY LenProperties DEF Range
<1>2. <<i>> \in Seq(CallId) /\ Len(<<i>>) = 1 /\ <<i>>[1] = i
    BY OneRequest
<1>3. /\ u \in Seq(CallId) /\ DOMAIN u = 1 .. 1 + Len(t)
      /\ \A k \in 1 .. 1 + Len(t) :
            u[k] = IF k <= 1 THEN <<i>>[k] ELSE t[k - 1]
    BY <1>2, Concat
<1>4. Len(u) = Len(t) + 1
    BY <1>2, ConcatProperties
<1>5. /\ DOMAIN (s \o u) = 1 .. Len(s) + 1 + Len(t)
      /\ \A k \in 1 .. Len(s) : (s \o u)[k] = s[k]
      /\ \A k \in Len(s) + 1 .. Len(s) + 1 + Len(t) :
            (s \o u)[k] = u[k - Len(s)]
    <2> HIDE DEF u
    <2>1. /\ DOMAIN (s \o u) = 1 .. Len(s) + Len(u)
          /\ \A k \in 1 .. Len(s) + Len(u) :
                (s \o u)[k] = IF k <= Len(s) THEN s[k] ELSE u[k - Len(s)]
        BY <1>3, Concat
    <2> QED
        BY <1>1, <1>4, <2>1
<1>6. /\ (s \o u)[Len(s) + 1] = i
      /\ \A k \in Len(s) + 2 .. Len(s) + 1 + Len(t) :
            (s \o u)[k] = t[k - Len(s) - 1]
    BY <1>1, <1>2, <1>3, <1>5
<1>7. /\ DOMAIN (s \o t) = 1 .. Len(s) + Len(t)
      /\ \A k \in 1 .. Len(s) : (s \o t)[k] = s[k]
      /\ \A k \in Len(s) + 1 .. Len(s) + Len(t) : (s \o t)[k] = t[k - Len(s)]
    BY <1>1, Concat
<1>8. ASSUME NEW k \in DOMAIN (s \o u), NEW l \in DOMAIN (s \o u), k < l,
             (s \o u)[k] = (s \o u)[l]
      PROVE  FALSE
    <2> DEFINE old(m) == IF m <= Len(s) THEN m ELSE m - 1
    <2>1. k # Len(s) + 1 /\ l # Len(s) + 1
        BY <1>1, <1>5, <1>6, <1>8
    <2>2. ASSUME NEW m \in DOMAIN (s \o u), m # Len(s) + 1
          PROVE  old(m) \in DOMAIN (s \o t) /\ (s \o u)[m] = (s \o t)[old(m)]
        <3>1. CASE m <= Len(s)
            BY <1>1, <1>5, <1>7, <2>2, <3>1
        <3>2. CASE m > Len(s)
            <4>1. m \in Len(s) + 2 .. Len(s) + 1 + Len(t)
                BY <1>1, <1>5, <2>2, <3>2
            <4>2. (s \o u)[m] = t[m - Len(s) - 1]
                BY <1>6, <4>1
            <4>3. /\ m - 1 \in Len(s) + 1 .. Len(s) + Len(t)
                  /\ (m - 1) - Len(s) = m - Len(s) - 1
                  /\ old(m) = m - 1
                BY <1>1, <3>2, <4>1
            <4>4. (s \o t)[m - 1] = t[(m - 1) - Len(s)]
                BY <1>7, <4>3
            <4>5. (s \o t)[m - 1] = t[m - Len(s) - 1]
                BY <4>3, <4>4
            <4>6. m - 1 \in DOMAIN (s \o t)
                BY <1>1, <1>7, <4>3
            <4> QED
                BY <4>2, <4>3, <4>5, <4>6
        <3>3. m \in 1 .. Len(s) + 1 + Len(t) /\ Len(s) \in Nat /\ Len(t) \in Nat
            BY <1>1, <1>5, <2>2
        <3>4. m <= Len(s) \/ m > Len(s)
            BY <3>3
        <3> HIDE DEF old, u
        <3> QED
            BY <3>1, <3>2, <3>4
    <2>3. old(k) # old(l)
        BY <1>1, <1>5, <1>8, <2>1
    <2> QED
        BY <1>8, <2>1, <2>2, <2>3 DEF IsInjective
<1>9. \A k, l \in DOMAIN (s \o u) : k < l \/ l < k \/ k = l
    BY <1>1, <1>5
<1> QED
    BY <1>8, <1>9 DEF IsInjective

LineInv == SentAtMostOnce /\ SentInCallOrder

(* The line is empty at first.                                             *)
LEMMA LineInit == Init => LineInv
<1>1. <<>> \o <<>> \in Seq(CallId) /\ DOMAIN (<<>> \o <<>>) = 1 .. 0
    BY NoRequest, Concat
<1> QED
    BY <1>1
    DEF Init, LineInv, SentAtMostOnce, SentInCallOrder, IsInjective, Increasing

(* Dropping the queue, with or without a rejection, keeps the line.        *)
LEMMA LineDropped ==
    ASSUME TypeOK, LineInv, wire' = wire, pendingRequests' = <<>>
    PROVE  LineInv'
<1>1. wire \in Seq(CallId) /\ pendingRequests \in Seq(CallId)
    BY DEF TypeOK
<1>2. wire' \o pendingRequests' = wire
    BY <1>1, ConcatEmptySeq
<1> QED
    BY <1>1, <1>2, LineCut DEF LineInv, SentAtMostOnce, SentInCallOrder

(* Every step keeps the line without repetition and in order.              *)
LEMMA LineStep ==
    TypeOK /\ Fresh /\ QueueDrained /\ LineInv /\ [Next]_vars => LineInv'
<1> SUFFICES ASSUME TypeOK, Fresh, QueueDrained, LineInv, [Next]_vars
             PROVE  LineInv'
    OBVIOUS
<1> DEFINE line == wire \o pendingRequests
<1>0. /\ wire \in Seq(CallId) /\ pendingRequests \in Seq(CallId)
      /\ line \in Seq(CallId)
      /\ Range(line) = Range(wire) \cup Range(pendingRequests)
    BY Concat DEF TypeOK
<1>a. Range(line) \subseteq CallId
    BY <1>0, RangeInSet
<1>b. ASSUME NewCall
      PROVE  id + 1 \in CallId /\ \A i \in Range(line) : i < id + 1
    BY <1>a, <1>b, <1>0, NewCallFresh DEF Fresh, TypeOK, CallId
<1> USE DEF LineInv, SentAtMostOnce, SentInCallOrder
<1>1. ASSUME UNCHANGED <<wire, pendingRequests>> PROVE LineInv'
    BY <1>1
<1>2. CASE CallSent
    <2>1. pendingRequests = <<>> /\ line = wire
        BY <1>0, <1>2, ConcatEmptySeq DEF CallSent, QueueDrained
    <2>2. id + 1 \in CallId /\ \A i \in Range(line) : i < id + 1
        BY <1>2, <1>b DEF CallSent
    <2>3. wire' = line \o <<id + 1>> /\ pendingRequests' = <<>>
        BY <1>2, <2>1 DEF CallSent, SendAll
    <2>4. <<id + 1>> \in Seq(CallId)
        BY <2>2, OneRequest
    <2>5. wire' \o pendingRequests' = line \o <<id + 1>>
        BY <1>0, <2>3, <2>4, ConcatProperties, ConcatEmptySeq
    <2> QED
        BY <1>0, <2>2, <2>5, LineGrows
<1>3. CASE CallQueued
    <2>1. id + 1 \in CallId /\ \A i \in Range(line) : i < id + 1
        BY <1>3, <1>b DEF CallQueued
    <2>2. <<id + 1>> \in Seq(CallId)
        BY <2>1, OneRequest
    <2>3. wire' = wire /\ pendingRequests' = pendingRequests \o <<id + 1>>
        BY <1>0, <1>3, <2>1, Enqueue DEF CallQueued
    <2>4. wire' \o pendingRequests' = line \o <<id + 1>>
        BY <1>0, <2>2, <2>3, ConcatAssociative
    <2> QED
        BY <1>0, <2>1, <2>4, LineGrows
<1>4. ASSUME NEW c \in Conn, Opened(c) PROVE LineInv'
    <2>1. wire' = line /\ pendingRequests' = <<>>
        BY <1>4 DEF Opened, SendAll
    <2>2. wire' \o pendingRequests' = line
        BY <1>0, <2>1, ConcatEmptySeq
    <2> QED
        BY <2>2
<1>5. ASSUME NEW c \in Conn, OpenedListenerCalls(c) PROVE LineInv'
    <2> DEFINE new == wire \o (<<id + 1>> \o pendingRequests)
    <2>1. id + 1 \in CallId /\ \A i \in Range(line) : i < id + 1
        BY <1>5, <1>b DEF OpenedListenerCalls
    <2>2. id + 1 \notin Range(wire) \cup Range(pendingRequests)
        BY <1>0, <1>a, <2>1 DEF CallId
    <2>3. new \in Seq(CallId)
        BY <1>0, <2>1, OneRequest, ConcatProperties
    <2>4. wire' = new /\ pendingRequests' = <<>>
        BY <1>5 DEF OpenedListenerCalls, SendAll
    <2>5. wire' \o pendingRequests' = new
        BY <2>3, <2>4, ConcatEmptySeq
    <2>6. IsInjective(new)
        BY <1>0, <2>1, <2>2, LineInsert
    <2> QED
        BY <1>5, <2>5, <2>6 DEF OpenedListenerCalls
<1>6. CASE Connect \/ CallRefused
    BY <1>1, <1>6 DEF Connect, CallRefused
<1>7. CASE Disconnect
    BY <1>7, LineDropped DEF Disconnect
<1>8. ASSUME NEW c \in Conn, ConnectGivesUp(c) PROVE LineInv'
    BY <1>8, LineDropped DEF ConnectGivesUp
<1>9. ASSUME NEW c \in Conn, CloseForGood(c) PROVE LineInv'
    BY <1>9, LineDropped DEF CloseForGood
<1>10. ASSUME NEW c \in Conn,
              \/ OpenedClosing(c) \/ ConnectFailed(c) \/ RetryTimer(c)
              \/ CloseBegins(c) \/ CloseIgnored(c) \/ CloseReconnects(c)
              \/ ReconnectTimer(c)
       PROVE  LineInv'
    BY <1>1, <1>10
    DEF OpenedClosing, ConnectFailed, RetryTimer, CloseBegins, CloseIgnored,
        CloseReconnects, ReconnectTimer
<1>11. ASSUME NEW i \in CallId, Response(i) PROVE LineInv'
    BY <1>1, <1>11 DEF Response
<1>12. CASE UNCHANGED vars
    BY <1>1, <1>12 DEF vars
<1> QED
    BY <1>2, <1>3, <1>4, <1>5, <1>6, <1>7, <1>8, <1>9, <1>10, <1>11, <1>12
    DEF Next, Application, Outcome, CloseEvent

(* Nothing is both sent and queued.                                        *)
LEMMA SentOrQueued ==
    ASSUME TypeOK, SentAtMostOnce
    PROVE  Range(wire) \cap Range(pendingRequests) = {}
<1> SUFFICES ASSUME NEW i \in Range(wire), i \in Range(pendingRequests)
             PROVE  FALSE
    OBVIOUS
<1>1. /\ Len(wire) \in Nat /\ Len(pendingRequests) \in Nat
      /\ wire \in Seq(CallId) /\ pendingRequests \in Seq(CallId)
    BY LenProperties DEF TypeOK
<1>2. PICK k \in 1 .. Len(wire) : wire[k] = i
    BY <1>1, RangeInSet
<1>3. PICK l \in 1 .. Len(pendingRequests) : pendingRequests[l] = i
    BY <1>1, RangeInSet
<1> DEFINE line == wire \o pendingRequests
<1>4. DOMAIN line = 1 .. Len(wire) + Len(pendingRequests)
    BY <1>1, Concat
<1>5. /\ k \in DOMAIN line /\ line[k] = i
      /\ Len(wire) + l \in DOMAIN line /\ line[Len(wire) + l] = i
    BY <1>1, <1>2, <1>3, <1>4, Concat
<1> QED
    BY <1>1, <1>5 DEF SentAtMostOnce, IsInjective

-----------------------------------------------------------------------------
(* Every unsettled call is accounted for.                                  *)

(* There is no call yet.                                                   *)
LEMMA AccountedInit == Init => CallsAccountedFor
BY NoRequest DEF Init, CallsAccountedFor

(* Steps that touch neither calls nor queue nor wire.                      *)
LEMMA AccountedFrame ==
    ASSUME CallsAccountedFor, UNCHANGED <<pendingRequests, rpcVars, wire>>
    PROVE  CallsAccountedFor'
BY DEF CallsAccountedFor, rpcVars

(* Rejecting every call with the queue, or every call but the queue.       *)
LEMMA AccountedClose ==
    ASSUME TypeOK, CallsAccountedFor, wire' = wire,
           \/ pendingRequests' = <<>> /\ HandleClose({})
           \/ /\ pendingRequests' = pendingRequests
              /\ HandleClose(Range(pendingRequests))
    PROVE  CallsAccountedFor'
<1>1. CASE pendingRequests' = <<>> /\ HandleClose({})
    BY <1>1, NoRequest DEF CallsAccountedFor, HandleClose, TypeOK
<1>2. CASE /\ pendingRequests' = pendingRequests
           /\ HandleClose(Range(pendingRequests))
    BY <1>2 DEF CallsAccountedFor, HandleClose, TypeOK
<1> QED
    BY <1>1, <1>2

(* A new call that is sent or queued, with or without the queue.           *)
LEMMA AccountedNewCall ==
    ASSUME TypeOK, CallsAccountedFor, NewCall,
           /\ Range(wire') \cup Range(pendingRequests')
                 = Range(wire) \cup Range(pendingRequests) \cup {id + 1}
           /\ Range(pendingRequests') \subseteq Range(pendingRequests) \cup {id + 1}
    PROVE  CallsAccountedFor'
<1>1. id + 1 \in CallId
    BY NewCallType
<1>2. /\ awaitingCommands' = awaitingCommands \cup {id + 1}
      /\ \A i \in CallId :
            call'[i] = IF i = id + 1 THEN "pending" ELSE call[i]
    BY <1>1 DEF NewCall, TypeOK
<1> QED
    BY <1>1, <1>2 DEF CallsAccountedFor

(* Every step keeps the account of the calls.                              *)
LEMMA AccountedStep ==
    /\ TypeOK /\ Fresh /\ InFlightSent /\ SentAtMostOnce /\ CallsAccountedFor
    /\ [Next]_vars
    => CallsAccountedFor'
<1> SUFFICES ASSUME TypeOK, Fresh, InFlightSent, SentAtMostOnce,
                    CallsAccountedFor, [Next]_vars
             PROVE  CallsAccountedFor'
    OBVIOUS
<1>0. wire \in Seq(CallId) /\ pendingRequests \in Seq(CallId)
    BY DEF TypeOK
<1>1. CASE Connect
    BY <1>1, AccountedFrame DEF Connect
<1>2. CASE Disconnect
    BY <1>2, AccountedClose DEF Disconnect
<1>3. CASE CallSent
    <2>2. Range(wire') = Range(wire) \cup {id + 1}
        BY <1>3, CallSentRange
    <2> QED
        BY <1>3, <2>2, AccountedNewCall DEF CallSent
<1>4. CASE CallQueued
    <2>1. Range(pendingRequests') = Range(pendingRequests) \cup {id + 1}
        BY <1>0, <1>4, NewCallType, Enqueue DEF CallQueued
    <2> QED
        BY <1>4, <2>1, AccountedNewCall DEF CallQueued
<1>5. CASE CallRefused
    <2>1. id + 1 \notin awaitingCommands
        BY <1>5, CallsAssumption DEF Fresh, TypeOK
    <2> QED
        BY <1>5, <2>1 DEF CallRefused, CallsAccountedFor, TypeOK
<1>6. ASSUME NEW c \in Conn, Opened(c) PROVE CallsAccountedFor'
    <2>1. Range(wire') = Range(wire) \cup Range(pendingRequests)
        BY <1>0, <1>6, Concat DEF Opened, SendAll
    <2> QED
        BY <1>6, <2>1, NoRequest DEF Opened, CallsAccountedFor, rpcVars
<1>7. ASSUME NEW c \in Conn, OpenedListenerCalls(c) PROVE CallsAccountedFor'
    <2>1. <<id + 1>> \in Seq(CallId) /\ Range(<<id + 1>>) = {id + 1}
        BY <1>7, NewCallType, OneRequest DEF OpenedListenerCalls
    <2>2. /\ <<id + 1>> \o pendingRequests \in Seq(CallId)
          /\ Range(<<id + 1>> \o pendingRequests)
                = {id + 1} \cup Range(pendingRequests)
        BY <1>0, <2>1, Concat
    <2>3. Range(wire')
             = Range(wire) \cup Range(<<id + 1>> \o pendingRequests)
        BY <1>0, <1>7, <2>2, Concat DEF OpenedListenerCalls, SendAll
    <2>4. pendingRequests' = <<>> /\ Range(pendingRequests') = {} /\ NewCall
        BY <1>7, NoRequest DEF OpenedListenerCalls
    <2> QED
        BY <2>2, <2>3, <2>4, AccountedNewCall
<1>8. ASSUME NEW c \in Conn,
             ConnectGivesUp(c) \/ CloseReconnects(c) \/ CloseForGood(c)
      PROVE  CallsAccountedFor'
    BY <1>8, AccountedClose DEF ConnectGivesUp, CloseReconnects, CloseForGood
<1>9. ASSUME NEW c \in Conn,
             \/ OpenedClosing(c) \/ ConnectFailed(c) \/ RetryTimer(c)
             \/ CloseBegins(c) \/ CloseIgnored(c) \/ ReconnectTimer(c)
      PROVE  CallsAccountedFor'
    BY <1>9, AccountedFrame
    DEF OpenedClosing, ConnectFailed, RetryTimer, CloseBegins, CloseIgnored,
        ReconnectTimer
<1>10. ASSUME NEW i \in CallId, Response(i) PROVE CallsAccountedFor'
    <2>1. i \notin Range(pendingRequests)
        BY <1>10, SentOrQueued DEF Response, InFlightSent
    <2> QED
        BY <1>10, <2>1 DEF Response, CallsAccountedFor, TypeOK
<1>11. CASE UNCHANGED vars
    BY <1>11, AccountedFrame DEF vars, rpcVars
<1> QED
    BY <1>1, <1>2, <1>3, <1>4, <1>5, <1>6, <1>7, <1>8, <1>9, <1>10, <1>11
    DEF Next, Application, Outcome, CloseEvent

-----------------------------------------------------------------------------
(* The inductive invariant of any use of the client.                       *)

IInv ==
    /\ TypeOK
    /\ Fresh
    /\ InFlightSent
    /\ QueueDrained
    /\ LineInv
    /\ CallsAccountedFor

(* IInv holds in every state, whatever the application does.               *)
THEOREM Invariance == Spec => []IInv
<1>1. Init => IInv
    BY TypeInit, FreshInit, DrainedInit, LineInit, AccountedInit DEF IInv
<1>2. IInv /\ [Next]_vars => IInv'
    BY TypeStep, FreshStep, DrainedStep, LineStep, AccountedStep
    DEF IInv, LineInv
<1> QED
    BY <1>1, <1>2, PTL DEF Spec

(* RpcClient and WsClient agree on every unsettled call: it is registered, *)
(* and it is sent or queued.                                               *)
THEOREM Accounted == Spec => []CallsAccountedFor
<1>1. IInv => CallsAccountedFor
    BY DEF IInv
<1> QED
    BY <1>1, Invariance, PTL

(* No request is sent twice, over any number of sockets.                   *)
THEOREM AtMostOnce == Spec => []SentAtMostOnce
<1>1. IInv => SentAtMostOnce
    BY DEF IInv, LineInv
<1> QED
    BY <1>1, Invariance, PTL

(* Requests are sent in call order unless `connected` listeners make calls.*)
THEOREM InCallOrder == Spec => []SentInCallOrder
<1>1. IInv => SentInCallOrder
    BY DEF IInv, LineInv
<1> QED
    BY <1>1, Invariance, PTL

(* No request waits behind an open connection.                             *)
THEOREM Drained == Spec => []QueueDrained
<1>1. IInv => QueueDrained
    BY DEF IInv
<1> QED
    BY <1>1, Invariance, PTL

(* While reconnection stays enabled and no loop gives up, a queued call is *)
(* not rejected by any step.                                               *)
THEOREM QueueSurvives == Spec => QueuedSurvives
<1> DEFINE NoGiveUp ==
        \A c \in Conn : ~(conn[c] = "connecting" /\ conn'[c] = "none")
<1>1. ASSUME IInv, [Next]_vars, reconnectEnabled', NoGiveUp,
             NEW i \in Range(pendingRequests)
      PROVE  call'[i] # "closed"
    <2>1. i \in CallId /\ i \in awaitingCommands /\ call[i] = "pending"
        BY <1>1, RangeInSet DEF IInv, TypeOK, CallsAccountedFor
    <2>2. TypeOK
        BY <1>1 DEF IInv
    <2>3. ~Disconnect
        BY <1>1 DEF Disconnect
    <2>4. CASE Connect \/ CallRefused
        BY <2>1, <2>2, <2>4 DEF Connect, CallRefused, rpcVars, TypeOK
    <2>5. ASSUME NewCall PROVE call'[i] # "closed"
        BY <2>1, <2>2, <2>5 DEF NewCall, TypeOK
    <2>6. CASE CallSent \/ CallQueued
        BY <2>5, <2>6 DEF CallSent, CallQueued
    <2>7. ASSUME NEW c \in Conn, Outcome(c) PROVE call'[i] # "closed"
        <3>1. ~ConnectGivesUp(c)
            BY <1>1, <2>2 DEF ConnectGivesUp, TypeOK
        <3>2. CASE OpenedListenerCalls(c)
            BY <2>5, <3>2 DEF OpenedListenerCalls
        <3>3. CASE Opened(c) \/ OpenedClosing(c) \/ ConnectFailed(c)
            BY <2>1, <3>3 DEF Opened, OpenedClosing, ConnectFailed, rpcVars
        <3> QED
            BY <2>7, <3>1, <3>2, <3>3 DEF Outcome
    <2>8. ASSUME NEW c \in Conn, CloseEvent(c) PROVE call'[i] # "closed"
        <3>1. CASE CloseIgnored(c)
            BY <2>1, <3>1 DEF CloseIgnored, rpcVars
        <3>2. CASE CloseReconnects(c)
            BY <1>1, <2>1, <3>2 DEF CloseReconnects, HandleClose
        <3>3. ~CloseForGood(c)
            BY <1>1 DEF CloseForGood
        <3> QED
            BY <2>8, <3>1, <3>2, <3>3 DEF CloseEvent
    <2>9. ASSUME NEW c \in Conn,
                 RetryTimer(c) \/ CloseBegins(c) \/ ReconnectTimer(c)
          PROVE  call'[i] # "closed"
        BY <2>1, <2>9 DEF RetryTimer, CloseBegins, ReconnectTimer, rpcVars
    <2>10. ASSUME NEW j \in CallId, Response(j) PROVE call'[i] # "closed"
        BY <2>1, <2>2, <2>10 DEF Response, TypeOK
    <2>11. CASE UNCHANGED vars
        BY <2>1, <2>11 DEF vars
    <2> QED
        BY <1>1, <2>3, <2>4, <2>6, <2>7, <2>8, <2>9, <2>10, <2>11
        DEF Next, Application
<1>2. IInv /\ [Next]_vars =>
        [reconnectEnabled' /\ NoGiveUp =>
            \A i \in Range(pendingRequests) : call'[i] # "closed"]_vars
    BY <1>1
<1> QED
    BY <1>2, Invariance, PTL DEF Spec, QueuedSurvives

-----------------------------------------------------------------------------
(* An application that does not overlap attempts.                          *)

(* One connection at a time, connectPromise set while it lasts, and every  *)
(* sent, unsettled call in flight on it.                                   *)
DInv ==
    /\ OneConnection
    /\ \A c \in Conn : Attempting(c) => connectPromise
    /\ ws # None => conn[ws] \in {"open", "closing"} /\ connectPromise
    /\ \A i \in awaitingCommands :
          i \in Range(wire) => ws # None /\ inFlight[i] = ws

(* A new client has no chain.                                              *)
LEMMA DInit == Init => DInv
<1>1. Init => Range(wire) = {}
    BY NoRequest DEF Init
<1> QED
    BY <1>1 DEF Init, DInv, OneConnection, UnderWay, Attempting

(* Every step of a client without overlapping use keeps DInv.              *)
LEMMA DStep ==
    ASSUME ~Overlap, IInv, DInv, [Next]_vars
    PROVE  DInv'
<1> USE NoneAssumption DEF UnderWay, Attempting
<1>0. /\ TypeOK
      /\ wire \in Seq(CallId) /\ pendingRequests \in Seq(CallId)
      /\ conn \in [Conn -> ConnStatus]
    BY DEF IInv, TypeOK
<1>1. CASE Connect
    <2>1. CASE connectPromise
        BY <1>1, <2>1 DEF Connect, DInv, OneConnection, rpcVars
    <2>2. CASE ~connectPromise
        <3>1. ws = None /\ \A c \in Conn : ~UnderWay(c)
            BY <1>1, <2>2 DEF Connect, DInv
        <3>2. PICK c \in Conn : conn' = [conn EXCEPT ![c] = "connecting"]
            BY <1>1, <2>2 DEF Connect
        <3> QED
            BY <1>0, <1>1, <2>2, <3>1, <3>2
            DEF Connect, DInv, OneConnection, rpcVars
    <2> QED
        BY <2>1, <2>2
<1>2. CASE Disconnect
    <2>1. awaitingCommands' = {} /\ ws' = None
        BY <1>2 DEF Disconnect, HandleClose
    <2>2. \A c \in Conn : /\ ~Attempting(c)
                          /\ conn'[c] # "open"
                          /\ conn'[c] = conn[c] \/ conn'[c] = "closing"
        BY <1>2, <1>0 DEF Disconnect, DInv, OneConnection
    <2> QED
        BY <2>1, <2>2 DEF DInv, OneConnection
<1>3. CASE CallSent
    <2>1. id + 1 \in CallId /\ Range(<<id + 1>>) = {id + 1}
        BY <1>0, <1>3, NewCallType, OneRequest DEF CallSent
    <2>2. Range(wire') = Range(wire) \cup {id + 1}
        BY <1>0, <1>3, CallSentRange
    <2>3. \A i \in CallId : inFlight'[i] = IF i = id + 1 THEN ws ELSE inFlight[i]
        BY <1>3, <2>1 DEF CallSent, SendAll
    <2>4. awaitingCommands' \subseteq CallId
        BY <1>0, <1>3, NewCallType DEF CallSent
    <2> QED
        BY <1>3, <2>2, <2>3, <2>4
        DEF CallSent, NewCall, isConnected, DInv, OneConnection
<1>4. CASE CallQueued
    <2>1. id + 1 \notin Range(wire)
        BY <1>4, NewCallFresh, RangeInSet DEF IInv, Fresh, CallQueued, TypeOK
    <2> QED
        BY <1>4, <2>1 DEF CallQueued, NewCall, DInv, OneConnection
<1>5. CASE CallRefused
    BY <1>5 DEF CallRefused, DInv, OneConnection
<1>6. ASSUME NEW c \in Conn, Opened(c) \/ OpenedListenerCalls(c) PROVE DInv'
    <2>1. PICK s \in Seq(CallId) : /\ SendAll(s, c)
                                   /\ awaitingCommands' \subseteq awaitingCommands \cup Range(s)
        <3>1. CASE Opened(c)
            BY <1>0, <3>1 DEF Opened, rpcVars
        <3>2. CASE OpenedListenerCalls(c)
            <4>1. <<id + 1>> \in Seq(CallId) /\ Range(<<id + 1>>) = {id + 1}
                BY <1>0, <3>2, NewCallType, OneRequest DEF OpenedListenerCalls
            <4>2. /\ <<id + 1>> \o pendingRequests \in Seq(CallId)
                  /\ Range(<<id + 1>> \o pendingRequests)
                        = {id + 1} \cup Range(pendingRequests)
                BY <1>0, <4>1, Concat
            <4>3. /\ SendAll(<<id + 1>> \o pendingRequests, c)
                  /\ awaitingCommands' = awaitingCommands \cup {id + 1}
                BY <3>2 DEF OpenedListenerCalls, NewCall
            <4> QED
                BY <4>2, <4>3
        <3> QED
            BY <1>6, <3>1, <3>2
    <2>2. Range(wire') = Range(wire) \cup Range(s)
        BY <1>0, <2>1, SentRange
    <2>3. /\ conn[c] = "connecting" /\ ws = None /\ connectPromise
          /\ \A d \in Conn : UnderWay(d) => d = c
          /\ \A d \in Conn : conn[d] # "open"
        BY <1>6 DEF Opened, OpenedListenerCalls, DInv, OneConnection
    <2>4. /\ conn' = [conn EXCEPT ![c] = "open"] /\ ws' = c
          /\ connectPromise' = connectPromise
        BY <1>6 DEF Opened, OpenedListenerCalls
    <2>5. \A i \in awaitingCommands' : i \in Range(wire') => i \in Range(s)
        BY <2>1, <2>2, <2>3 DEF DInv
    <2>6. \A i \in Range(s) : inFlight'[i] = c
        BY <2>1, RangeInSet DEF SendAll
    <2> QED
        BY <1>0, <2>3, <2>4, <2>5, <2>6 DEF DInv, OneConnection
<1>7. ASSUME NEW c \in Conn, OpenedClosing(c) PROVE DInv'
    BY <1>0, <1>7 DEF OpenedClosing, rpcVars, DInv, OneConnection
<1>8. ASSUME NEW c \in Conn,
             \/ ConnectFailed(c) \/ RetryTimer(c) \/ CloseBegins(c)
             \/ ReconnectTimer(c)
      PROVE  DInv'
    BY <1>0, <1>8
    DEF ConnectFailed, RetryTimer, CloseBegins, ReconnectTimer, rpcVars, DInv,
        OneConnection
<1>9. ASSUME NEW c \in Conn, ConnectGivesUp(c) PROVE DInv'
    BY <1>0, <1>9 DEF ConnectGivesUp, HandleClose, DInv, OneConnection
<1>10. ASSUME NEW c \in Conn, CloseIgnored(c) PROVE DInv'
    <2>1. \A i \in CallId : inFlight[i] = ws => inFlight'[i] = ws
        BY <1>10 DEF CloseIgnored, DropInFlight
    <2>2. awaitingCommands \subseteq CallId
        BY <1>0 DEF TypeOK
    <2> QED
        BY <1>0, <1>10, <2>1, <2>2 DEF CloseIgnored, rpcVars, DInv, OneConnection
<1>11. ASSUME NEW c \in Conn, CloseReconnects(c) PROVE DInv'
    <2>1. Range(wire) \cap Range(pendingRequests) = {}
        BY SentOrQueued DEF IInv, LineInv
    <2> QED
        BY <1>0, <1>11, <2>1
        DEF CloseReconnects, HandleClose, DInv, OneConnection
<1>12. ASSUME NEW c \in Conn, CloseForGood(c) PROVE DInv'
    BY <1>0, <1>12 DEF CloseForGood, HandleClose, DInv, OneConnection
<1>13. ASSUME NEW i \in CallId, Response(i) PROVE DInv'
    BY <1>0, <1>13 DEF Response, DInv, OneConnection, TypeOK
<1>14. CASE UNCHANGED vars
    BY <1>14 DEF vars, DInv, OneConnection
<1> QED
    BY <1>1, <1>2, <1>3, <1>4, <1>5, <1>6, <1>7, <1>8, <1>9, <1>10, <1>11,
       <1>12, <1>13, <1>14
    DEF Next, Application, Outcome, CloseEvent

(* Without overlapping attempts there is one connection, and no call that  *)
(* was sent waits for an answer that cannot come any more.                 *)
THEOREM NeverStranded ==
    ASSUME ~Overlap
    PROVE  Spec => [](OneConnection /\ NoCallStranded)
<1>1. IInv /\ DInv /\ [Next]_vars => DInv'
    BY DStep
<1>2. DInv => OneConnection /\ NoCallStranded
    BY DEF DInv, NoCallStranded
<1> QED
    BY <1>1, <1>2, DInit, Invariance, PTL DEF Spec

-----------------------------------------------------------------------------
(* The client implements RpcCalls.                                         *)

(* What a step that sends the requests s adds to the wire.                 *)
LEMMA SendExtends ==
    ASSUME TypeOK, TypeOK', NEW s \in Seq(CallId), wire' = wire \o s,
           IsInjective(wire'), \A i \in Range(s) : call'[i] = "pending"
    PROVE  Calls!WireExtended
<1>1. /\ Len(wire) \in Nat /\ Len(s) \in Nat
      /\ wire \in Seq(CallId) /\ wire' \in Seq(CallId)
      /\ \A k \in 1 .. Len(s) : s[k] \in Range(s)
    BY LenProperties DEF TypeOK, Range
<1>2. Len(wire') = Len(wire) + Len(s) /\ DOMAIN wire' = 1 .. Len(wire')
    BY <1>1, ConcatProperties, LenProperties
<1>3. \A k \in 1 .. Len(wire) + Len(s) :
          wire'[k] = IF k <= Len(wire) THEN wire[k] ELSE s[k - Len(wire)]
    BY <1>1, Concat
<1>4. ASSUME NEW k \in Len(wire) + 1 .. Len(wire')
      PROVE  /\ call'[wire'[k]] = "pending"
             /\ \A l \in 1 .. k - 1 : wire'[l] # wire'[k]
    <2>1. k - Len(wire) \in 1 .. Len(s) /\ wire'[k] = s[k - Len(wire)]
        BY <1>1, <1>2, <1>3, <1>4
    <2>2. call'[wire'[k]] = "pending"
        BY <1>1, <2>1
    <2>3. ASSUME NEW l \in 1 .. k - 1 PROVE wire'[l] # wire'[k]
        <3>1. k \in DOMAIN wire' /\ l \in DOMAIN wire' /\ l # k
            BY <1>1, <1>2, <1>4, <2>3
        <3> QED
            BY <3>1 DEF IsInjective
    <2> QED
        BY <2>2, <2>3
<1>5. \A k \in 1 .. Len(wire) : wire'[k] = wire[k]
    BY <1>1, <1>3
<1> QED
    BY <1>1, <1>2, <1>4, <1>5 DEF Calls!WireExtended

(* A wire that stays as it is extends itself.                              *)
LEMMA NothingSent ==
    ASSUME TypeOK, TypeOK', wire' = wire
    PROVE  Calls!WireExtended
<1>1. Len(wire) \in Nat /\ wire' \in Seq(CallId)
    BY LenProperties DEF TypeOK
<1> QED
    BY <1>1 DEF Calls!WireExtended

(* Rejecting every unsettled call but those kept is an Abort.              *)
LEMMA CloseAborts ==
    ASSUME IInv, NEW keep, HandleClose(keep), wire' = wire
    PROVE  Calls!Next
<1> DEFINE S == awaitingCommands \ keep
<1>1. S \in SUBSET CallId /\ \A i \in S : call[i] = "pending"
    BY DEF IInv, TypeOK, CallsAccountedFor
<1>2. Calls!Abort(S)
    BY <1>1 DEF Calls!Abort, HandleClose
<1> QED
    BY <1>1, <1>2 DEF Calls!Next

(* A new call, sent with the requests s or queued.                         *)
LEMMA NewCallIssues ==
    ASSUME IInv, NewCall, Calls!WireExtended
    PROVE  Calls!Next
<1>1. /\ id + 1 \in CallId /\ call[id + 1] = "none"
      /\ call' = [call EXCEPT ![id + 1] = "pending"]
    BY NewCallType, CallsAssumption DEF IInv, Fresh, TypeOK, NewCall
<1>2. Calls!Issue(id + 1)
    BY <1>1 DEF Calls!Issue
<1> QED
    BY <1>1, <1>2 DEF Calls!Next

(* Every step of the client is a step of RpcCalls, or none.                *)
LEMMA StepImplements ==
    ASSUME IInv, IInv', [Next]_vars
    PROVE  [Calls!Next]_(Calls!vars)
<1>0. /\ TypeOK /\ TypeOK'
      /\ wire \in Seq(CallId) /\ wire' \in Seq(CallId)
      /\ pendingRequests \in Seq(CallId)
    BY DEF IInv, TypeOK
<1>a. ASSUME pendingRequests' = <<>> PROVE IsInjective(wire')
    <2>1. wire' \o pendingRequests' = wire'
        BY <1>0, <1>a, ConcatEmptySeq
    <2> QED
        BY <2>1 DEF IInv, LineInv, SentAtMostOnce
<1>b. ASSUME UNCHANGED <<call, wire>> PROVE UNCHANGED Calls!vars
    BY <1>b DEF Calls!vars
<1>1. CASE Connect
    BY <1>1, <1>b DEF Connect, rpcVars
<1>2. CASE Disconnect
    BY <1>2, CloseAborts DEF Disconnect
<1>3. CASE CallSent
    <2>1. <<id + 1>> \in Seq(CallId) /\ Range(<<id + 1>>) = {id + 1}
        BY <1>0, <1>3, NewCallType, OneRequest DEF CallSent
    <2>2. /\ wire' = wire \o <<id + 1>>
          /\ call'[id + 1] = "pending"
        BY <1>0, <1>3, NewCallType DEF CallSent, SendAll, NewCall, TypeOK
    <2>3. pendingRequests' = <<>>
        BY <1>3 DEF CallSent, IInv, QueueDrained
    <2>4. Calls!WireExtended
        BY <1>0, <1>a, <2>1, <2>2, <2>3, SendExtends
    <2> QED
        BY <1>3, <2>4, NewCallIssues DEF CallSent
<1>4. CASE CallQueued
    BY <1>0, <1>4, NothingSent, NewCallIssues DEF CallQueued
<1>5. CASE CallRefused
    <2>1. id + 1 \in CallId /\ call[id + 1] = "none"
        BY <1>0, <1>5, CallsAssumption DEF CallRefused, IInv, Fresh, TypeOK, CallId
    <2>2. Calls!Issue(id + 1)
        BY <1>0, <1>5, <2>1, NothingSent DEF CallRefused, Calls!Issue
    <2> QED
        BY <2>1, <2>2 DEF Calls!Next
<1>6. ASSUME NEW c \in Conn, Opened(c) PROVE Calls!Next
    <2>1. /\ wire' = wire \o pendingRequests /\ pendingRequests' = <<>>
          /\ call' = call
        BY <1>6 DEF Opened, SendAll, rpcVars
    <2>2. \A i \in Range(pendingRequests) : call'[i] = "pending"
        BY <1>0, <2>1, RangeInSet DEF IInv, CallsAccountedFor
    <2>3. Calls!WireExtended
        BY <1>0, <1>a, <2>1, <2>2, SendExtends
    <2> QED
        BY <2>1, <2>3 DEF Calls!Next, Calls!Transmit
<1>7. ASSUME NEW c \in Conn, OpenedListenerCalls(c) PROVE Calls!Next
    <2> DEFINE s == <<id + 1>> \o pendingRequests
    <2>1. <<id + 1>> \in Seq(CallId) /\ Range(<<id + 1>>) = {id + 1}
        BY <1>0, <1>7, NewCallType, OneRequest DEF OpenedListenerCalls
    <2>2. s \in Seq(CallId) /\ Range(s) = {id + 1} \cup Range(pendingRequests)
        BY <1>0, <2>1, Concat
    <2>3. /\ wire' = wire \o s /\ pendingRequests' = <<>> /\ NewCall
        BY <1>7 DEF OpenedListenerCalls, SendAll
    <2>4. \A i \in Range(s) : call'[i] = "pending"
        <3>1. \A i \in CallId :
                 call'[i] = IF i = id + 1 THEN "pending" ELSE call[i]
            BY <1>0, <2>3, NewCallType DEF NewCall, TypeOK
        <3>2. \A i \in Range(pendingRequests) : i \in CallId /\ call[i] = "pending"
            BY <1>0, RangeInSet DEF IInv, CallsAccountedFor
        <3>3. id + 1 \in CallId
            BY <1>0, <2>3, NewCallType
        <3> QED
            BY <2>2, <3>1, <3>2, <3>3
    <2>5. Calls!WireExtended
        <3> HIDE DEF s
        <3> QED
            BY <1>0, <1>a, <2>2, <2>3, <2>4, SendExtends
    <2> QED
        BY <2>3, <2>5, NewCallIssues
<1>8. ASSUME NEW c \in Conn,
             ConnectGivesUp(c) \/ CloseReconnects(c) \/ CloseForGood(c)
      PROVE  Calls!Next
    BY <1>8, CloseAborts DEF ConnectGivesUp, CloseReconnects, CloseForGood
<1>9. ASSUME NEW c \in Conn,
             \/ OpenedClosing(c) \/ ConnectFailed(c) \/ RetryTimer(c)
             \/ CloseBegins(c) \/ CloseIgnored(c) \/ ReconnectTimer(c)
      PROVE  UNCHANGED Calls!vars
    BY <1>9, <1>b
    DEF OpenedClosing, ConnectFailed, RetryTimer, CloseBegins, CloseIgnored,
        ReconnectTimer, rpcVars
<1>10. ASSUME NEW i \in CallId, Response(i)
       PROVE  Calls!Next \/ UNCHANGED Calls!vars
    <2>1. CASE i \in awaitingCommands
        <3>1. call[i] = "pending" /\ i \in Range(wire)
            BY <1>10, <2>1 DEF Response, IInv, CallsAccountedFor, InFlightSent
        <3>2. wire' = wire /\ call' = [call EXCEPT ![i] = "answered"]
            BY <1>10, <2>1 DEF Response
        <3>3. Calls!Answer(i)
            BY <3>1, <3>2 DEF Calls!Answer, Calls!Range, Range
        <3> QED
            BY <3>3 DEF Calls!Next
    <2>2. CASE i \notin awaitingCommands
        BY <1>0, <1>10, <1>b, <2>2 DEF Response, TypeOK
    <2> QED
        BY <2>1, <2>2
<1>11. CASE UNCHANGED vars
    BY <1>11, <1>b DEF vars
<1> QED
    BY <1>1, <1>2, <1>3, <1>4, <1>5, <1>6, <1>7, <1>8, <1>9, <1>10, <1>11
    DEF Next, Application, Outcome, CloseEvent

(* The client keeps the promises of RpcCalls: a call is settled once, only *)
(* a transmitted call is answered, none is transmitted twice or after it   *)
(* was settled.                                                            *)
THEOREM ClientImplementsCalls == Spec => CallsImplemented
<1>1. Init => Calls!Init
    BY DEF Init, Calls!Init
<1>2. IInv /\ IInv' /\ [Next]_vars => [Calls!Next]_(Calls!vars)
    BY StepImplements
<1> QED
    BY <1>1, <1>2, Invariance, PTL DEF Spec, CallsImplemented, Calls!Spec
=============================================================================
