-------------------------- MODULE HttpServerProofs --------------------------
(***************************************************************************)
(* Proofs about HttpServer, for any number of connections, servers and     *)
(* overlapping calls of stop().                                            *)
(*                                                                         *)
(* A socket that is not closed belongs to a server that listens or closes, *)
(* and there is one such server at most, the known one.  So start() cannot *)
(* empty the Map under an open socket, nor reset `stopping` under a server *)
(* that closes: what finishes there still ends its socket.                 *)
(***************************************************************************)
EXTENDS HttpServer, TLAPS

(* Every socket that is not closed has a server that is not.               *)
Hosted ==
    \A s \in Sock :
        /\ conn[s] = "none" => host[s] = Null /\ pending[s] = 0
        /\ conn[s] # "none" => host[s] \in Srv
        /\ conn[s] \in {"open", "ended", "destroyed"} =>
              lstate[host[s]] \in {"listening", "closing"}

(* While a stop() is under way for a server that is not closed, `stopping` *)
(* is set; it is as long as the server is closing.                         *)
StoppingSet ==
    /\ \A k \in StopId : stop[k] = "delay" =>
          /\ target[k] \in Srv /\ lstate[target[k]] # "none"
          /\ lstate[target[k]] # "closed" => stopping
    /\ \A g \in Srv : lstate[g] = "closing" => stopping

(* The Map, when `connection` and `request` events have the same socket.   *)
MapExact ==
    /\ \A s \in Sock :
          /\ conn[s] \in {"open", "ended"} => requestsPerSocket[Raw(s)] = pending[s]
          /\ requestsPerSocket[<<s, "tls">>] = Null
          /\ conn[s] \in {"none", "closed"} => requestsPerSocket[Raw(s)] = Null

SInv == HttpServerTypeOK /\ LiveServerKnown /\ Hosted /\ StoppingSet
TlsFree == MapExact /\ IdleSocketsEnded

(* null is neither a server nor a count.                                   *)
LEMMA NoneFacts == Null \notin Srv /\ Null \notin Int /\ Srv \subseteq Int
BY NullAssumption, BoundsAssumption DEF Srv

(* Every key of the Map is of one socket; without TLS requests have the    *)
(* key of the connection.                                                  *)
LEMMA KeyFacts ==
    /\ \A s \in Sock : Raw(s) \in Key /\ <<s, "tls">> \in Key /\ ReqSocket(s) \in Key
    /\ \A x \in Key : \E s \in Sock : x = Raw(s) \/ x = <<s, "tls">>
    /\ \A s, t \in Sock : Raw(s) # <<t, "tls">> /\ (Raw(s) = Raw(t) => s = t)
    /\ \A s \in Sock : Raw(s)[1] = s /\ <<s, "tls">>[1] = s
    /\ ~Tls => \A s \in Sock : ReqSocket(s) = Raw(s)
BY DEF Key, Raw, ReqSocket

(* The keys of a socket.                                                   *)
LEMMA KeysOf == \A s \in Sock : Raw(s) \in Key /\ ReqSocket(s) \in Key
BY KeyFacts

(* A Map in which one count was set.                                       *)
LEMMA MapSet ==
    ASSUME HttpServerTypeOK, NEW x \in Key, NEW v \in Int \cup {Null}
    PROVE  [requestsPerSocket EXCEPT ![x] = v] \in [Key -> Int \cup {Null}]
BY DEF HttpServerTypeOK

(* A count that is read from the Map.                                      *)
LEMMA CountInt ==
    ASSUME HttpServerTypeOK, NEW x \in Key
    PROVE  getSocketRequests(x) \in Int
BY DEF HttpServerTypeOK, getSocketRequests

-----------------------------------------------------------------------------
(* A server that was not started.                                          *)
LEMMA SInit == HttpServerInit => SInv /\ TlsFree
<1> SUFFICES ASSUME HttpServerInit PROVE SInv /\ TlsFree
    OBVIOUS
<1>1. HttpServerTypeOK
    <2>1. 0 \in 0 .. MaxPending
        BY BoundsAssumption
    <2>2. pending \in [Sock -> 0 .. MaxPending]
        BY <2>1 DEF HttpServerInit
    <2> QED
        BY <2>2 DEF HttpServerInit, HttpServerTypeOK, ServerStatus, ConnStatus, StopStatus
<1>2. LiveServerKnown /\ Hosted /\ StoppingSet
    BY NoneFacts DEF HttpServerInit, LiveServerKnown, Hosted, StoppingSet
<1>3. MapExact /\ IdleSocketsEnded
    BY KeyFacts DEF HttpServerInit, MapExact, IdleSocketsEnded
<1> QED
    BY <1>1, <1>2, <1>3 DEF SInv, TlsFree

(* Every step keeps the types.                                             *)
LEMMA TypeStep == HttpServerTypeOK /\ [HttpServerNext]_httpServerVars => HttpServerTypeOK'
<1> SUFFICES ASSUME HttpServerTypeOK, [HttpServerNext]_httpServerVars PROVE HttpServerTypeOK'
    OBVIOUS
<1> USE NoneFacts, BoundsAssumption
    DEF HttpServerTypeOK, ServerStatus, ConnStatus, StopStatus, connVars, stopVars
<1>1. CASE Start
    BY <1>1 DEF Start
<1>2. ASSUME NEW g \in Srv, Listening(g) \/ ListenFails(g) PROVE HttpServerTypeOK'
    BY <1>2 DEF Listening, ListenFails
<1>3. ASSUME NEW g \in Srv, ServerClosed(g) PROVE HttpServerTypeOK'
    BY <1>3 DEF ServerClosed
<1>4. ASSUME NEW s \in Sock, Accept(s) PROVE HttpServerTypeOK'
    <2>1. requestsPerSocket' \in [Key -> Int \cup {Null}]
        BY <1>4, KeysOf, MapSet DEF Accept
    <2>2. conn' \in [Sock -> ConnStatus] /\ host' \in [Sock -> Srv \cup {Null}]
        BY <1>4 DEF Accept
    <2> QED
        BY <1>4, <2>1, <2>2 DEF Accept
<1>5. ASSUME NEW s \in Sock, Close(s) PROVE HttpServerTypeOK'
    <2>1. requestsPerSocket' \in [Key -> Int \cup {Null}]
        BY <1>5, KeysOf, MapSet DEF Close
    <2>2. 0 \in 0 .. MaxPending
        OBVIOUS
    <2>3. conn' \in [Sock -> ConnStatus] /\ pending' \in [Sock -> 0 .. MaxPending]
        BY <1>5, <2>2 DEF Close
    <2> QED
        BY <1>5, <2>1, <2>3 DEF Close
<1>6. ASSUME NEW s \in Sock, Arrives(s) PROVE HttpServerTypeOK'
    <2>0. getSocketRequests(ReqSocket(s)) + 1 \in Int
        BY KeysOf, CountInt
    <2>1. requestsPerSocket' \in [Key -> Int \cup {Null}]
        BY <1>6, <2>0, KeysOf, MapSet DEF Arrives
    <2>2. pending' \in [Sock -> 0 .. MaxPending]
        BY <1>6 DEF Arrives
    <2> QED
        BY <1>6, <2>1, <2>2 DEF Arrives
<1>7. ASSUME NEW s \in Sock, Finish(s) PROVE HttpServerTypeOK'
    <2>0. getSocketRequests(ReqSocket(s)) - 1 \in Int
        BY KeysOf, CountInt
    <2>1. requestsPerSocket' \in [Key -> Int \cup {Null}]
        BY <1>7, <2>0, KeysOf, MapSet DEF Finish
    <2>2. pending' \in [Sock -> 0 .. MaxPending]
        BY <1>7 DEF Finish
    <2>3. conn' \in [Sock -> ConnStatus]
        BY <1>7 DEF Finish
    <2> QED
        BY <1>7, <2>1, <2>2, <2>3 DEF Finish
<1>8. ASSUME NEW k \in StopId, Stop(k) PROVE HttpServerTypeOK'
    <2>1. overlapped' \in BOOLEAN
        BY <1>8, Zenon DEF Stop
    <2> QED
        BY <1>8, <2>1 DEF Stop
<1>9. ASSUME NEW k \in StopId, DelayOver(k) PROVE HttpServerTypeOK'
    <2>1. conn' \in [Sock -> ConnStatus]
        BY <1>9 DEF DelayOver, closeIdleSockets
    <2>2. lstate' \in [Srv -> ServerStatus] /\ stop' \in [StopId -> StopStatus]
        BY <1>9 DEF DelayOver
    <2> QED
        BY <1>9, <2>1, <2>2 DEF DelayOver
<1>10. ASSUME NEW k \in StopId, Timeout(k) PROVE HttpServerTypeOK'
    <2>1. conn' \in [Sock -> ConnStatus]
        BY <1>10 DEF Timeout, destroyAllSockets
    <2> QED
        BY <1>10, <2>1 DEF Timeout, destroyAllSockets
<1>11. CASE UNCHANGED httpServerVars
    BY <1>11 DEF httpServerVars
<1> QED
    BY <1>1, <1>2, <1>3, <1>4, <1>5, <1>6, <1>7, <1>8, <1>9, <1>10, <1>11
    DEF HttpServerNext

(* What closeIdleSockets and destroyAllSockets can do to a socket.         *)
LEMMA SweepFacts ==
    ASSUME HttpServerTypeOK, closeIdleSockets \/ destroyAllSockets, NEW s \in Sock
    PROVE  \/ conn'[s] = conn[s]
           \/ conn[s] = "open" /\ conn'[s] = "ended"
           \/ conn[s] \in {"open", "ended"} /\ conn'[s] = "destroyed"
BY DEF closeIdleSockets, destroyAllSockets

(* Every step keeps one known server, and sockets with a server.           *)
LEMMA SStep == SInv /\ [HttpServerNext]_httpServerVars => SInv'
<1> SUFFICES ASSUME SInv, [HttpServerNext]_httpServerVars PROVE SInv'
    OBVIOUS
<1>0. HttpServerTypeOK /\ HttpServerTypeOK'
    BY TypeStep DEF SInv
<1> USE NoneFacts DEF SInv, LiveServerKnown, Hosted, StoppingSet
<1>1. CASE Start
    <2>1. \A g \in Srv : lstate[g] \in {"none", "closed"}
        BY <1>1 DEF Start
    <2>2. PICK g \in Srv :
            /\ lstate[g] = "none" /\ active' = g
            /\ lstate' = [lstate EXCEPT ![g] = "starting"]
        BY <1>1 DEF Start
    <2>3. UNCHANGED <<conn, host, pending, stop, target>>
        BY <1>1 DEF Start, connVars, stopVars
    <2>4. LiveServerKnown'
        BY <1>0, <2>1, <2>2 DEF HttpServerTypeOK
    <2>5. \A s \in Sock : conn[s] \notin {"open", "ended", "destroyed"}
        BY <2>1
    <2>6. Hosted'
        BY <2>3, <2>5
    <2>7. StoppingSet'
        BY <1>0, <2>1, <2>2, <2>3 DEF HttpServerTypeOK
    <2> QED
        BY <1>0, <2>4, <2>6, <2>7
<1>2. ASSUME NEW g \in Srv, Listening(g) \/ ListenFails(g) PROVE SInv'
    <2>1. PICK status \in {"listening", "failed"} :
            lstate[g] = "starting" /\ lstate' = [lstate EXCEPT ![g] = status]
        BY <1>2 DEF Listening, ListenFails
    <2>2. UNCHANGED <<active, stopping, conn, host, pending, stop, target>>
        BY <1>2 DEF Listening, ListenFails, connVars, stopVars
    <2>3. lstate'[g] # "none" /\ \A h \in Srv : h # g => lstate'[h] = lstate[h]
        BY <1>0, <2>1 DEF HttpServerTypeOK
    <2>4. LiveServerKnown'
        BY <1>0, <2>1, <2>2 DEF HttpServerTypeOK
    <2>5. Hosted'
        BY <2>1, <2>2, <2>3
    <2>6. StoppingSet'
        BY <1>0, <2>1, <2>2, <2>3 DEF HttpServerTypeOK
    <2> QED
        BY <1>0, <2>4, <2>5, <2>6
<1>3. ASSUME NEW g \in Srv, ServerClosed(g) PROVE SInv'
    <2>0. lstate[g] = "closing"
        BY <1>3 DEF ServerClosed
    <2>1. active = g /\ \A h \in Srv : h # g => lstate[h] \in {"none", "closed"}
        <3>1. active = g
            BY <2>0
        <3> QED
            BY <3>1
    <2>2. LiveServerKnown' /\ Hosted'
        BY <1>0, <1>3, <2>1 DEF ServerClosed, connVars, HttpServerTypeOK
    <2>3. \A k \in StopId : stop'[k] = "delay" => stop[k] = "delay"
        BY <1>3 DEF ServerClosed
    <2>4. StoppingSet'
        BY <1>0, <1>3, <2>1, <2>3 DEF ServerClosed, HttpServerTypeOK
    <2> QED
        BY <1>0, <2>2, <2>4
<1>4. ASSUME NEW s \in Sock, Accept(s) PROVE SInv'
    BY <1>0, <1>4 DEF Accept, stopVars, HttpServerTypeOK
<1>5. ASSUME NEW s \in Sock, Close(s) \/ Arrives(s) \/ Finish(s) PROVE SInv'
    <2>1. /\ UNCHANGED <<active, lstate, stopping, host, stop, target>>
          /\ \A t \in Sock : /\ conn[t] = "none" =>
                                   conn'[t] = "none" /\ pending'[t] = pending[t]
                             /\ conn'[t] = "none" => conn[t] = "none"
                             /\ conn'[t] \in {"open", "ended", "destroyed"}
                                   => conn[t] \in {"open", "ended", "destroyed"}
        BY <1>0, <1>5 DEF Close, Arrives, Finish, stopVars, HttpServerTypeOK
    <2> QED
        BY <1>0, <2>1
<1>6. ASSUME NEW k \in StopId, Stop(k) PROVE SInv'
    <2>1. UNCHANGED <<active, lstate, conn, host, pending>> /\ active \in Srv
        BY <1>0, <1>6 DEF Stop, connVars, HttpServerTypeOK
    <2>2. /\ target' = [target EXCEPT ![k] = active] /\ stopping' = TRUE
          /\ stop' = [stop EXCEPT ![k] = "delay"]
        BY <1>6 DEF Stop
    <2> QED
        BY <1>0, <2>1, <2>2 DEF HttpServerTypeOK
<1>7. ASSUME NEW k \in StopId, DelayOver(k) PROVE SInv'
    <2>1. /\ UNCHANGED <<active, stopping, host, pending, target>>
          /\ target[k] \in Srv /\ stop[k] = "delay"
          /\ \A j \in StopId : stop'[j] = "delay" => stop[j] = "delay"
        BY <1>0, <1>7 DEF DelayOver, HttpServerTypeOK
    <2>2. \/ lstate' = lstate
          \/ /\ lstate[target[k]] = "listening"
             /\ lstate' = [lstate EXCEPT ![target[k]] = "closing"]
        BY <1>7 DEF DelayOver
    <2>3. \A s \in Sock : \/ conn'[s] = conn[s]
                          \/ conn[s] = "open" /\ conn'[s] = "ended"
                          \/ conn[s] \in {"open", "ended"} /\ conn'[s] = "destroyed"
        BY <1>0, <1>7, SweepFacts DEF DelayOver
    <2>4. CASE lstate' = lstate
        BY <1>0, <2>1, <2>3, <2>4
    <2>5. CASE /\ lstate[target[k]] = "listening"
               /\ lstate' = [lstate EXCEPT ![target[k]] = "closing"]
        <3>1. /\ lstate'[target[k]] = "closing"
              /\ \A h \in Srv : h # target[k] => lstate'[h] = lstate[h]
            BY <1>0, <2>1, <2>5 DEF HttpServerTypeOK
        <3>2. LiveServerKnown' /\ StoppingSet'
            BY <1>0, <2>1, <2>5, <3>1
        <3>3. Hosted'
            BY <1>0, <2>1, <2>3, <2>5, <3>1
        <3> QED
            BY <1>0, <3>2, <3>3
    <2> QED
        BY <2>2, <2>4, <2>5
<1>8. ASSUME NEW k \in StopId, Timeout(k) PROVE SInv'
    <2>1. UNCHANGED <<active, lstate, stopping, host, pending, stop, target>>
        BY <1>8 DEF Timeout
    <2>2. \A s \in Sock : \/ conn'[s] = conn[s]
                          \/ conn[s] = "open" /\ conn'[s] = "ended"
                          \/ conn[s] \in {"open", "ended"} /\ conn'[s] = "destroyed"
        BY <1>0, <1>8, SweepFacts DEF Timeout
    <2> QED
        BY <1>0, <2>1, <2>2
<1>9. CASE UNCHANGED httpServerVars
    BY <1>0, <1>9 DEF httpServerVars, connVars, stopVars
<1> QED
    BY <1>1, <1>2, <1>3, <1>4, <1>5, <1>6, <1>7, <1>8, <1>9 DEF HttpServerNext

(* The invariant of start() and stop().                                    *)
THEOREM ServerInvariance == HttpServerSpec => []SInv
<1>1. HttpServerInit => SInv
    BY SInit
<1> QED
    BY <1>1, SStep, PTL DEF HttpServerSpec

(* HttpServer.start, stop: however they overlap, the server that holds a   *)
(* port or connections is the one that stop() can reach.                   *)
THEOREM KnownServer == HttpServerSpec => []LiveServerKnown
BY ServerInvariance, PTL DEF SInv

-----------------------------------------------------------------------------
(* Without TLS: counts, and the sockets that are ended.                    *)

(* The entries of one socket.                                              *)
Entry(s) ==
    /\ conn[s] \in {"open", "ended"} => requestsPerSocket[Raw(s)] = pending[s]
    /\ requestsPerSocket[<<s, "tls">>] = Null
    /\ conn[s] \in {"none", "closed"} => requestsPerSocket[Raw(s)] = Null

(* An open socket of a server that closes serves a request.                *)
Busy(s) == conn[s] = "open" /\ lstate[host[s]] = "closing" => pending[s] > 0

(* The number of requests being served.                                    *)
LEMMA PendingInt ==
    ASSUME HttpServerTypeOK, NEW s \in Sock
    PROVE  pending[s] \in Nat /\ pending[s] # Null
BY NoneFacts, BoundsAssumption DEF HttpServerTypeOK

(* A count that is set leaves the entries of other sockets alone.          *)
LEMMA EntryFrame ==
    ASSUME HttpServerTypeOK, NEW s \in Sock, NEW v,
           requestsPerSocket' = [requestsPerSocket EXCEPT ![Raw(s)] = v]
    PROVE  /\ requestsPerSocket'[Raw(s)] = v
           /\ \A t \in Sock : t # s =>
                 requestsPerSocket'[Raw(t)] = requestsPerSocket[Raw(t)]
           /\ \A t \in Sock :
                 requestsPerSocket'[<<t, "tls">>] = requestsPerSocket[<<t, "tls">>]
<1>1. /\ Raw(s) \in Key /\ \A t \in Sock : Raw(t) \in Key /\ <<t, "tls">> \in Key
      /\ \A t \in Sock : Raw(s) # <<t, "tls">> /\ (Raw(s) = Raw(t) => s = t)
    BY KeyFacts
<1> QED
    BY <1>1 DEF HttpServerTypeOK

(* An event of a socket leaves what is known of the others as it is.       *)
LEMMA Elsewhere ==
    ASSUME HttpServerTypeOK, NEW s \in Sock, NEW t \in Sock, s # t, NEW v,
           requestsPerSocket' = [requestsPerSocket EXCEPT ![Raw(t)] = v],
           conn'[s] = conn[s], pending'[s] = pending[s], host'[s] = host[s],
           lstate' = lstate, Entry(s), Busy(s)
    PROVE  Entry(s)' /\ Busy(s)'
<1>1. /\ requestsPerSocket'[Raw(s)] = requestsPerSocket[Raw(s)]
      /\ requestsPerSocket'[<<s, "tls">>] = requestsPerSocket[<<s, "tls">>]
    BY EntryFrame
<1> QED
    BY <1>1 DEF Entry, Busy

(* closeIdleSockets ends the open sockets whose count is 0.                *)
LEMMA IdleSwept ==
    ASSUME ~Tls, SInv, MapExact, closeIdleSockets, NEW s \in Sock
    PROVE  /\ conn[s] = "open" /\ pending[s] > 0 => conn'[s] = "open"
           /\ conn[s] = "open" /\ pending[s] = 0 => conn'[s] = "ended"
           /\ conn[s] # "open" => conn'[s] = conn[s]
<1>0. pending[s] \in Nat /\ Null # 0
    BY PendingInt, NoneFacts DEF SInv
<1>1. Raw(s) \in Key /\ Raw(s)[1] = s
    BY KeyFacts
<1>2. \A x \in Key : x[1] = s /\ requestsPerSocket[x] = 0 => x = Raw(s)
    <2> SUFFICES ASSUME NEW x \in Key, x[1] = s, requestsPerSocket[x] = 0
                 PROVE  x = Raw(s)
        OBVIOUS
    <2>1. PICK t \in Sock : x = Raw(t) \/ x = <<t, "tls">>
        BY KeyFacts
    <2>2. t = s
        BY <2>1, KeyFacts
    <2>3. requestsPerSocket[<<s, "tls">>] = Null
        BY DEF MapExact
    <2> QED
        BY <1>0, <2>1, <2>2, <2>3
<1>3. conn[s] = "open" => requestsPerSocket[Raw(s)] = pending[s]
    BY DEF MapExact
<1>4. conn'[s] = IF conn[s] = "open" /\ \E x \in Key :
                     x[1] = s /\ requestsPerSocket[x] = 0
                  THEN "ended" ELSE conn[s]
    BY DEF closeIdleSockets
<1>5. CASE conn[s] = "open" /\ pending[s] = 0
    BY <1>1, <1>3, <1>4, <1>5
<1>6. CASE conn[s] = "open" /\ pending[s] > 0
    BY <1>0, <1>2, <1>3, <1>4, <1>6
<1> QED
    BY <1>4, <1>5, <1>6

(* Without TLS every step keeps the entries of each socket and what is     *)
(* known of the open ones.                                                 *)
LEMMA TlsFreeStep ==
    ASSUME ~Tls, SInv, TlsFree, [HttpServerNext]_httpServerVars
    PROVE  \A s \in Sock : Entry(s)' /\ Busy(s)'
<1> SUFFICES ASSUME NEW s \in Sock PROVE Entry(s)' /\ Busy(s)'
    OBVIOUS
<1>0. /\ HttpServerTypeOK /\ HttpServerTypeOK' /\ Hosted /\ StoppingSet /\ LiveServerKnown /\ MapExact
      /\ Entry(s) /\ Busy(s) /\ pending[s] \in Nat
    BY TypeStep, PendingInt
    DEF SInv, TlsFree, MapExact, Entry, Busy, IdleSocketsEnded
<1> USE DEF Entry, Busy
<1>1. CASE Start
    <2>1. \A g \in Srv : lstate[g] \in {"none", "closed"}
        BY <1>0, <1>1, NoneFacts DEF Start, LiveServerKnown
    <2>2. conn[s] \in {"none", "closed"}
        BY <1>0, <2>1 DEF Hosted, HttpServerTypeOK, ConnStatus
    <2>3. UNCHANGED <<conn, host, pending>>
          /\ requestsPerSocket' = [x \in Key |-> Null]
        BY <1>1 DEF Start, connVars
    <2> QED
        BY <2>2, <2>3, KeyFacts
<1>2. ASSUME NEW g \in Srv, Listening(g) \/ ListenFails(g)
      PROVE  Entry(s)' /\ Busy(s)'
    <2>1. UNCHANGED <<connVars, requestsPerSocket>>
          /\ (\A h \in Srv : lstate'[h] = "closing" => lstate[h] = "closing")
        BY <1>0, <1>2 DEF Listening, ListenFails, HttpServerTypeOK
    <2> QED
        BY <1>0, <2>1 DEF connVars, Hosted
<1>3. ASSUME NEW g \in Srv, ServerClosed(g) PROVE Entry(s)' /\ Busy(s)'
    <2>1. UNCHANGED <<connVars, requestsPerSocket>>
          /\ (\A h \in Srv : lstate'[h] = "closing" => lstate[h] = "closing")
        BY <1>0, <1>3 DEF ServerClosed, HttpServerTypeOK
    <2> QED
        BY <1>0, <2>1 DEF connVars, Hosted
<1>4. ASSUME NEW t \in Sock, Accept(t) PROVE Entry(s)' /\ Busy(s)'
    <2>1. PICK g \in Srv : lstate[g] = "listening"
                           /\ host' = [host EXCEPT ![t] = g]
        BY <1>4 DEF Accept
    <2>2. /\ conn[t] = "none" /\ conn' = [conn EXCEPT ![t] = "open"]
          /\ UNCHANGED <<lstate, pending>>
          /\ requestsPerSocket' = [requestsPerSocket EXCEPT ![Raw(t)] = 0]
        BY <1>4 DEF Accept
    <2>3. CASE s = t
        <3>1. /\ requestsPerSocket'[Raw(s)] = 0
              /\ requestsPerSocket'[<<s, "tls">>] = Null
            BY <1>0, <2>2, <2>3, EntryFrame
        <3>2. conn'[s] = "open" /\ host'[s] = g /\ pending'[s] = 0
            BY <1>0, <2>1, <2>2, <2>3 DEF Hosted, HttpServerTypeOK
        <3> QED
            BY <2>1, <2>2, <3>1, <3>2
    <2>4. CASE s # t
        <3>1. conn'[s] = conn[s] /\ pending'[s] = pending[s] /\ host'[s] = host[s]
            BY <1>0, <2>1, <2>2, <2>4 DEF HttpServerTypeOK
        <3> QED
            BY <1>0, <2>2, <2>4, <3>1, Elsewhere
    <2> QED
        BY <2>3, <2>4
<1>5. ASSUME NEW t \in Sock, Close(t) PROVE Entry(s)' /\ Busy(s)'
    <2>1. /\ conn' = [conn EXCEPT ![t] = "closed"] /\ UNCHANGED <<lstate, host>>
          /\ pending' = [pending EXCEPT ![t] = 0]
          /\ requestsPerSocket' = [requestsPerSocket EXCEPT ![Raw(t)] = Null]
        BY <1>5 DEF Close
    <2>2. CASE s = t
        <3>1. /\ requestsPerSocket'[Raw(s)] = Null
              /\ requestsPerSocket'[<<s, "tls">>] = Null
            <4>1. requestsPerSocket' = [requestsPerSocket EXCEPT ![Raw(s)] = Null]
                BY <2>1, <2>2
            <4>2. /\ requestsPerSocket'[Raw(s)] = Null
                  /\ requestsPerSocket'[<<s, "tls">>]
                        = requestsPerSocket[<<s, "tls">>]
                BY <1>0, <4>1, EntryFrame
            <4> QED
                BY <1>0, <4>2
        <3>2. DOMAIN conn = Sock
            BY <1>0 DEF HttpServerTypeOK
        <3>3. conn'[s] = "closed"
            BY <2>1, <2>2, <3>2
        <3> QED
            BY <3>1, <3>3
    <2>3. CASE s # t
        <3>1. conn'[s] = conn[s] /\ pending'[s] = pending[s] /\ host'[s] = host[s]
            BY <1>0, <2>1, <2>3 DEF HttpServerTypeOK
        <3> QED
            BY <1>0, <2>1, <2>3, <3>1, Elsewhere
    <2> QED
        BY <2>2, <2>3
<1>6. ASSUME NEW t \in Sock, Arrives(t) PROVE Entry(s)' /\ Busy(s)'
    <2>1. /\ conn[t] \in {"open", "ended"} /\ UNCHANGED <<lstate, host, conn>>
          /\ pending' = [pending EXCEPT ![t] = @ + 1]
          /\ requestsPerSocket' = [requestsPerSocket EXCEPT ![Raw(t)] =
                                     getSocketRequests(Raw(t)) + 1]
        BY <1>6, KeyFacts DEF Arrives
    <2>2. getSocketRequests(Raw(t)) = pending[t]
        BY <1>0, <2>1, PendingInt DEF MapExact, getSocketRequests
    <2>3. pending'[t] = pending[t] + 1
        BY <1>0, <2>1 DEF HttpServerTypeOK
    <2>4. CASE s = t
        <3>1. requestsPerSocket'[Raw(t)] = pending[t] + 1
            BY <1>0, <2>1, <2>2, EntryFrame
        <3>2. requestsPerSocket'[<<s, "tls">>] = requestsPerSocket[<<s, "tls">>]
            BY <1>0, <2>1, EntryFrame
        <3> QED
            BY <1>0, <2>1, <2>3, <2>4, <3>1, <3>2
    <2>5. CASE s # t
        <3>1. conn'[s] = conn[s] /\ pending'[s] = pending[s] /\ host'[s] = host[s]
            BY <1>0, <2>1, <2>5 DEF HttpServerTypeOK
        <3> QED
            BY <1>0, <2>1, <2>5, <3>1, Elsewhere
    <2> QED
        BY <2>4, <2>5
<1>7. ASSUME NEW t \in Sock, Finish(t) PROVE Entry(s)' /\ Busy(s)'
    <2> DEFINE left == getSocketRequests(Raw(t)) - 1
    <2>1. /\ conn[t] \in {"open", "ended", "destroyed"} /\ pending[t] > 0
          /\ UNCHANGED <<lstate, host, stopping>>
          /\ pending' = [pending EXCEPT ![t] = @ - 1]
          /\ requestsPerSocket' = [requestsPerSocket EXCEPT ![Raw(t)] = left]
          /\ conn' = IF stopping /\ left = 0 /\ conn[t] = "open"
                     THEN [conn EXCEPT ![t] = "ended"] ELSE conn
        BY <1>7, KeyFacts DEF Finish
    <2>2. conn[t] \in {"open", "ended"} => left = pending[t] - 1
        BY <1>0, PendingInt DEF MapExact, getSocketRequests
    <2>3. pending'[t] = pending[t] - 1 /\ pending[t] \in Nat
        BY <1>0, <2>1, PendingInt DEF HttpServerTypeOK
    <2>4. CASE s = t
        <3>1. /\ conn'[t] \in {conn[t], "ended"}
              /\ conn'[t] = "ended" => conn[t] \in {"open", "ended"}
              /\ conn'[t] = "open" => ~(stopping /\ left = 0)
            BY <1>0, <2>1 DEF HttpServerTypeOK
        <3>2. Entry(s)'
            BY <1>0, <2>1, <2>2, <2>3, <2>4, <3>1, EntryFrame
        <3>3. conn'[t] = "open" /\ lstate[host[t]] = "closing" => pending'[t] > 0
            <4> SUFFICES ASSUME conn'[t] = "open", lstate[host[t]] = "closing"
                         PROVE  pending'[t] > 0
                OBVIOUS
            <4>1. conn[t] = "open" /\ host[t] \in Srv
                BY <1>0, <3>1 DEF Hosted
            <4>2. stopping
                BY <1>0, <4>1 DEF StoppingSet
            <4>3. left # 0
                BY <3>1, <4>2, Zenon
            <4>4. left = pending[t] - 1
                BY <2>2, <4>1
            <4> HIDE DEF left
            <4> QED
                BY <2>1, <2>3, <4>3, <4>4
        <3> QED
            BY <2>1, <2>4, <3>2, <3>3
    <2>5. CASE s # t
        <3>1. conn'[s] = conn[s] /\ pending'[s] = pending[s]
            BY <1>0, <2>1, <2>5 DEF HttpServerTypeOK
        <3> QED
            BY <1>0, <2>1, <2>5, <3>1, EntryFrame
    <2> QED
        BY <2>4, <2>5
<1>8. ASSUME NEW k \in StopId, Stop(k) PROVE Entry(s)' /\ Busy(s)'
    BY <1>0, <1>8 DEF Stop, connVars
<1>9. ASSUME NEW k \in StopId, DelayOver(k) PROVE Entry(s)' /\ Busy(s)'
    <2>1. closeIdleSockets /\ UNCHANGED <<host, pending, requestsPerSocket>>
        BY <1>9 DEF DelayOver
    <2>2. /\ conn[s] = "open" /\ pending[s] > 0 => conn'[s] = "open"
          /\ conn[s] = "open" /\ pending[s] = 0 => conn'[s] = "ended"
          /\ conn[s] # "open" => conn'[s] = conn[s]
        BY <2>1, IdleSwept DEF TlsFree
    <2> QED
        BY <1>0, <2>1, <2>2
<1>10. ASSUME NEW k \in StopId, Timeout(k) PROVE Entry(s)' /\ Busy(s)'
    <2>1. destroyAllSockets /\ UNCHANGED <<lstate, host, pending>>
        BY <1>10 DEF Timeout
    <2>2. Raw(s) \in Key /\ <<s, "tls">> \in Key /\ Raw(s)[1] = s
        BY KeyFacts
    <2>3. conn[s] \in {"open", "ended"} => conn'[s] = "destroyed"
        BY <1>0, <2>1, <2>2, PendingInt DEF destroyAllSockets, MapExact
    <2>4. conn[s] \notin {"open", "ended"} => conn'[s] = conn[s]
        BY <2>1 DEF destroyAllSockets
    <2> QED
        BY <1>0, <2>1, <2>2, <2>3, <2>4 DEF destroyAllSockets
<1>11. CASE UNCHANGED httpServerVars
    BY <1>0, <1>11 DEF httpServerVars, connVars
<1> QED
    BY <1>1, <1>2, <1>3, <1>4, <1>5, <1>6, <1>7, <1>8, <1>9, <1>10, <1>11
    DEF HttpServerNext

(* The invariant of the Map.                                               *)
LEMMA TlsFreeInvariance == ~Tls => (HttpServerSpec => [](SInv /\ TlsFree))
<1> SUFFICES ASSUME ~Tls PROVE HttpServerSpec => [](SInv /\ TlsFree)
    OBVIOUS
<1>1. SInv /\ TlsFree /\ [HttpServerNext]_httpServerVars => TlsFree'
    BY TlsFreeStep DEF TlsFree, MapExact, IdleSocketsEnded, Entry, Busy
<1> QED
    BY <1>1, SInit, SStep, PTL DEF HttpServerSpec

(* "Tracks the number of pending requests per socket": getSocketRequests   *)
(* is exact, and nothing of a closed socket stays in the Map.              *)
THEOREM Counted == HttpServerSpec => []CountsPending
<1>1. CASE Tls
    <2>1. CountsPending
        BY <1>1 DEF CountsPending
    <2> QED
        BY <2>1, PTL
<1>2. CASE ~Tls
    <2>1. SInv /\ TlsFree => CountsPending
        <3> SUFFICES ASSUME SInv, TlsFree PROVE CountsPending
            OBVIOUS
        <3>1. \A x \in Key : requestsPerSocket[x] # Null =>
                  conn[x[1]] \in {"open", "ended", "destroyed"}
            <4> SUFFICES ASSUME NEW x \in Key, requestsPerSocket[x] # Null
                         PROVE  conn[x[1]] \in {"open", "ended", "destroyed"}
                OBVIOUS
            <4>1. PICK s \in Sock : x = Raw(s) \/ x = <<s, "tls">>
                BY KeyFacts
            <4>2. x = Raw(s) /\ x[1] = s
                BY <4>1, KeyFacts DEF TlsFree, MapExact
            <4>3. conn[s] \notin {"none", "closed"}
                BY <4>2 DEF TlsFree, MapExact
            <4>4. conn[s] \in {"none", "open", "ended", "destroyed", "closed"}
                BY DEF SInv, HttpServerTypeOK, ConnStatus
            <4> QED
                BY <4>2, <4>3, <4>4
        <3> QED
            BY <3>1 DEF CountsPending, TlsFree, MapExact
    <2> QED
        BY <1>2, <2>1, TlsFreeInvariance, PTL
<1> QED
    BY <1>1, <1>2

(* HttpServer.closeIdleSockets, onRequest: stop() waits for no idle client.*)
THEOREM IdleEnded == ~Tls => (HttpServerSpec => []IdleSocketsEnded)
<1> SUFFICES ASSUME ~Tls PROVE HttpServerSpec => []IdleSocketsEnded
    OBVIOUS
<1> QED
    BY TlsFreeInvariance, PTL DEF TlsFree

(* "close connection during shutdown, when requests are served": neither   *)
(* closeIdleSockets nor the 'finish' of onRequest ends a socket on which   *)
(* another request is being served.                                        *)
THEOREM ServedFirst == ~Tls => (HttpServerSpec => ServedBeforeEnded)
<1> SUFFICES ASSUME ~Tls PROVE HttpServerSpec => ServedBeforeEnded
    OBVIOUS
<1>1. ASSUME SInv, TlsFree, [HttpServerNext]_httpServerVars, NEW s \in Sock,
             conn[s] = "open", conn'[s] = "ended"
      PROVE  pending'[s] = 0
    <2>0. HttpServerTypeOK /\ MapExact /\ pending[s] \in Nat
        BY <1>1, PendingInt DEF SInv, TlsFree
    <2>1. ASSUME NEW t \in Sock, Finish(t) PROVE pending'[s] = 0
        <3>1. s = t /\ getSocketRequests(Raw(t)) - 1 = 0
            BY <1>1, <2>0, <2>1, KeyFacts DEF Finish, HttpServerTypeOK
        <3>2. getSocketRequests(Raw(t)) = pending[t]
            BY <1>1, <2>0, <3>1, PendingInt DEF MapExact, getSocketRequests
        <3> QED
            BY <2>0, <2>1, <3>1, <3>2 DEF Finish, HttpServerTypeOK
    <2>2. ASSUME NEW k \in StopId, DelayOver(k) PROVE pending'[s] = 0
        BY <1>1, <2>0, <2>2, IdleSwept DEF DelayOver
    <2>3. ASSUME NEW k \in StopId, Timeout(k) PROVE FALSE
        BY <1>1, <2>3 DEF Timeout, destroyAllSockets
    <2>4. ASSUME NEW t \in Sock, Accept(t) \/ Close(t) \/ Arrives(t) PROVE FALSE
        BY <1>1, <2>0, <2>4 DEF Accept, Close, Arrives, HttpServerTypeOK
    <2>5. CASE \/ Start \/ UNCHANGED httpServerVars
               \/ \E g \in Srv : Listening(g) \/ ListenFails(g) \/ ServerClosed(g)
               \/ \E k \in StopId : Stop(k)
        BY <1>1, <2>5 DEF Start, Listening, ListenFails, ServerClosed, Stop,
                          httpServerVars, connVars
    <2> QED
        BY <1>1, <2>1, <2>2, <2>3, <2>4, <2>5 DEF HttpServerNext
<1>2. SInv /\ TlsFree /\ [HttpServerNext]_httpServerVars =>
        [\A s \in Sock : conn[s] = "open" /\ conn'[s] = "ended"
                             => pending'[s] = 0]_httpServerVars
    BY <1>1
<1> QED
    BY <1>2, TlsFreeInvariance, PTL DEF HttpServerSpec, ServedBeforeEnded
-----------------------------------------------------------------------------
(* Calls of stop() that do not overlap.                                    *)

(* The one call that is under way is for the server that this.server holds,*)
(* and that server closes because of it.  A timeout is armed while its     *)
(* call waits for 'close', or for good when listen() had failed: start()   *)
(* then makes no other server.                                             *)
OneCall ==
    /\ \A j, k \in StopId : stop[j] # "idle" /\ stop[k] # "idle" => j = k
    /\ \A k \in StopId :
          /\ stop[k] # "refused"
          /\ stop[k] \in {"delay", "waiting"} => active \in Srv /\ target[k] = active
          /\ stop[k] = "waiting" => lstate[active] = "closing"
          /\ timer[k] => active \in Srv /\ (stop[k] = "waiting" \/ lstate[active] = "failed")

(* Why the server is what it is: stop() is in its delay, or waits.         *)
Cause ==
    /\ stopping /\ active \in Srv /\ lstate[active] \in {"starting", "listening"} =>
          \E k \in StopId : stop[k] = "delay"
    /\ active \in Srv /\ lstate[active] = "closing" =>
          \E k \in StopId : stop[k] = "waiting"

AsOne == ~overlapped => OneCall /\ Cause

LEMMA AsOneStep == SInv /\ AsOne /\ [HttpServerNext]_httpServerVars => AsOne'
<1> SUFFICES ASSUME SInv, AsOne, [HttpServerNext]_httpServerVars, ~overlapped' PROVE (OneCall /\ Cause)'
    BY DEF AsOne
<1>0. HttpServerTypeOK
    BY DEF SInv
<1>a. ~overlapped
    BY <1>0 DEF HttpServerNext, Start, Listening, ListenFails, ServerClosed, Accept, Close,
                Arrives, Finish, Stop, DelayOver, Timeout, httpServerVars, stopVars, HttpServerTypeOK
<1>b. OneCall /\ Cause
    BY <1>a DEF AsOne
<1>c. LiveServerKnown /\ \A k \in StopId : stop[k] = "delay" => lstate[target[k]] # "none"
    BY DEF SInv, StoppingSet
<1> USE NoneFacts
<1>1. CASE Start
    <2>1. /\ active = Null /\ stopping' = FALSE
          /\ UNCHANGED <<stop, target, timer>>
        BY <1>1 DEF Start, stopVars
    <2>2. \A k \in StopId : stop[k] = "idle" /\ ~timer[k]
        BY <1>0, <1>b, <2>1 DEF OneCall, HttpServerTypeOK, StopStatus
    <2>3. PICK g \in Srv : active' = g /\ lstate' = [lstate EXCEPT ![g] = "starting"]
        BY <1>1 DEF Start
    <2>4. lstate'[g] = "starting"
        BY <1>0, <2>3 DEF HttpServerTypeOK
    <2> QED
        BY <2>1, <2>2, <2>3, <2>4 DEF OneCall, Cause
<1>2. ASSUME NEW g \in Srv, Listening(g) \/ ListenFails(g) PROVE (OneCall /\ Cause)'
    <2>1. PICK status \in {"listening", "failed"} :
            lstate[g] = "starting" /\ lstate' = [lstate EXCEPT ![g] = status]
        BY <1>2 DEF Listening, ListenFails
    <2>2. UNCHANGED <<active, stopping, stop, target, timer>>
        BY <1>2 DEF Listening, ListenFails, stopVars
    <2>3. lstate'[g] = status /\ \A h \in Srv : h # g => lstate'[h] = lstate[h]
        BY <1>0, <2>1 DEF HttpServerTypeOK
    <2>4. OneCall'
        BY <1>b, <2>1, <2>2, <2>3 DEF OneCall
    <2>5. Cause'
        BY <1>b, <2>1, <2>2, <2>3 DEF Cause
    <2> QED
        BY <2>4, <2>5
<1>3. ASSUME NEW g \in Srv, ServerClosed(g) PROVE (OneCall /\ Cause)'
    <2>1. lstate[g] = "closing" /\ active = g /\ active' = Null
        BY <1>3, <1>c DEF ServerClosed, LiveServerKnown
    <2>2. PICK w \in StopId : stop[w] = "waiting" /\ target[w] = g
        BY <1>b, <2>1 DEF Cause, OneCall
    <2>3. \A k \in StopId : k # w => stop[k] = "idle"
        BY <1>b, <2>2 DEF OneCall
    <2>4. \A k \in StopId : timer[k] => k = w
        BY <1>b, <2>1, <2>3 DEF OneCall
    <2>5. \A k \in StopId : stop'[k] = "idle"
        BY <1>3, <2>2, <2>3 DEF ServerClosed
    <2>6. \A k \in StopId : ~timer'[k]
        BY <1>3, <2>2, <2>4 DEF ServerClosed
    <2> QED
        BY <2>1, <2>5, <2>6 DEF OneCall, Cause
<1>4. ASSUME NEW s \in Sock, Accept(s) \/ Close(s) \/ Arrives(s) \/ Finish(s)
      PROVE  (OneCall /\ Cause)'
    <2>1. UNCHANGED <<active, lstate, stopping, stop, target, timer>>
        BY <1>4 DEF Accept, Close, Arrives, Finish, stopVars
    <2> QED
        BY <1>b, <2>1 DEF OneCall, Cause
<1>5. ASSUME NEW k \in StopId, Stop(k) PROVE (OneCall /\ Cause)'
    <2>1. /\ ~timer[k] /\ active \in Srv
          /\ stop' = [stop EXCEPT ![k] = "delay"]
          /\ target' = [target EXCEPT ![k] = active]
          /\ UNCHANGED <<active, lstate, timer>>
        BY <1>0, <1>5 DEF Stop, HttpServerTypeOK
    <2>2. \A j \in StopId : stop[j] = "idle"
        BY <1>5 DEF Stop
    <2>3. /\ stop'[k] = "delay" /\ target'[k] = active
          /\ \A j \in StopId : j # k => stop'[j] = "idle"
        BY <1>0, <2>1, <2>2 DEF HttpServerTypeOK
    <2>4. lstate[active] # "closing"
        BY <1>b, <2>1, <2>2 DEF Cause
    <2>5. OneCall'
        BY <1>b, <2>1, <2>2, <2>3 DEF OneCall
    <2>6. Cause'
        BY <2>1, <2>3, <2>4 DEF Cause
    <2> QED
        BY <2>5, <2>6
<1>6. ASSUME NEW k \in StopId, DelayOver(k) PROVE (OneCall /\ Cause)'
    <2> DEFINE g == target[k]
    <2>1. /\ stop[k] = "delay" /\ active = g /\ g \in Srv
          /\ timer' = [timer EXCEPT ![k] = TRUE]
          /\ UNCHANGED <<active, stopping, target>>
          /\ lstate[g] # "starting"
        BY <1>b, <1>6 DEF DelayOver, OneCall
    <2>2. \A j \in StopId : j # k => stop[j] = "idle"
        BY <1>b, <2>1 DEF OneCall
    <2>3. lstate[g] # "closing"
        BY <1>b, <2>1, <2>2 DEF Cause
    <2>4. lstate[g] # "closed"
        BY <1>c, <2>1 DEF LiveServerKnown
    <2>5. \A j \in StopId : j # k => timer'[j] = timer[j]
        BY <1>0, <2>1 DEF HttpServerTypeOK
    <2>6. \/ /\ lstate[g] = "listening"
             /\ lstate' = [lstate EXCEPT ![g] = "closing"]
             /\ stop' = [stop EXCEPT ![k] = "waiting"]
          \/ /\ lstate[g] = "failed"
             /\ stop' = [stop EXCEPT ![k] = "idle"]
             /\ lstate' = lstate
        BY <1>6, <2>3, <2>4 DEF DelayOver
    <2>7. CASE /\ lstate[g] = "listening"
               /\ lstate' = [lstate EXCEPT ![g] = "closing"]
               /\ stop' = [stop EXCEPT ![k] = "waiting"]
        <3>1. /\ lstate'[g] = "closing" /\ stop'[k] = "waiting"
              /\ \A j \in StopId : j # k => stop'[j] = "idle"
            BY <1>0, <2>1, <2>2, <2>7 DEF HttpServerTypeOK
        <3>2. \A j \in StopId : j # k => ~timer'[j]
            BY <1>b, <2>1, <2>2, <2>5, <2>7 DEF OneCall
        <3> QED
            BY <2>1, <3>1, <3>2 DEF OneCall, Cause
    <2>8. CASE /\ lstate[g] = "failed"
               /\ stop' = [stop EXCEPT ![k] = "idle"]
               /\ lstate' = lstate
        <3>1. \A j \in StopId : stop'[j] = "idle"
            BY <1>0, <2>2, <2>8 DEF HttpServerTypeOK
        <3> QED
            BY <2>1, <2>8, <3>1 DEF OneCall, Cause
    <2> QED
        BY <2>6, <2>7, <2>8
<1>7. ASSUME NEW k \in StopId, Timeout(k) PROVE (OneCall /\ Cause)'
    <2>1. /\ UNCHANGED <<active, lstate, stopping, stop, target>>
          /\ \A j \in StopId : timer'[j] => timer[j]
        BY <1>0, <1>7 DEF Timeout, HttpServerTypeOK
    <2> QED
        BY <1>b, <2>1 DEF OneCall, Cause
<1>8. CASE UNCHANGED httpServerVars
    BY <1>b, <1>8 DEF httpServerVars, stopVars, OneCall, Cause
<1> QED
    BY <1>1, <1>2, <1>3, <1>4, <1>5, <1>6, <1>7, <1>8 DEF HttpServerNext

(* The socket that a step ends or destroys belongs to the server for which *)
(* stop() is under way.                                                    *)
LEMMA EndsItsOwn ==
    ASSUME SInv, OneCall, Cause, [HttpServerNext]_httpServerVars, NEW s \in Sock,
           conn[s] = "open", conn'[s] \in {"ended", "destroyed"}
    PROVE  \/ lstate'[host[s]] = "closing"
           \/ \E k \in StopId : stop[k] = "delay" /\ target[k] = host[s]
<1> DEFINE goal == \/ lstate'[host[s]] = "closing"
                   \/ \E k \in StopId : stop[k] = "delay" /\ target[k] = host[s]
<1>0. HttpServerTypeOK
    BY DEF SInv
<1>1. host[s] \in Srv /\ lstate[host[s]] \in {"listening", "closing"} /\ active = host[s]
    BY DEF SInv, Hosted, LiveServerKnown
<1>2. ASSUME NEW t \in Sock, Finish(t) PROVE goal
    <2>1. stopping /\ lstate' = lstate
        BY <1>2 DEF Finish
    <2> QED
        BY <1>1, <2>1 DEF Cause, OneCall
<1>3. ASSUME NEW k \in StopId, DelayOver(k) PROVE goal
    BY <1>1, <1>3 DEF DelayOver, OneCall
<1>4. ASSUME NEW k \in StopId, Timeout(k) PROVE goal
    <2>1. timer[k] /\ lstate' = lstate
        BY <1>4 DEF Timeout
    <2> QED
        BY <1>1, <2>1 DEF OneCall
<1>5. ASSUME NEW t \in Sock, Accept(t) \/ Close(t) \/ Arrives(t) PROVE FALSE
    BY <1>0, <1>5 DEF Accept, Close, Arrives, HttpServerTypeOK
<1>6. CASE \/ Start \/ UNCHANGED httpServerVars
           \/ \E g \in Srv : Listening(g) \/ ListenFails(g) \/ ServerClosed(g)
           \/ \E k \in StopId : Stop(k)
    BY <1>6 DEF Start, Listening, ListenFails, ServerClosed, Stop, httpServerVars, connVars
<1> QED
    BY <1>2, <1>3, <1>4, <1>5, <1>6 DEF HttpServerNext

(* HttpServer.stop, its delay and its timeout: calls that do not overlap   *)
(* touch no connection of a server that start() created later, with TLS or *)
(* without.                                                                *)
THEOREM OwnOnly == HttpServerSpec => OwnSocketsOnly
<1>1. HttpServerInit => AsOne
    BY NoneFacts DEF HttpServerInit, AsOne, OneCall, Cause
<1>2. SInv /\ AsOne /\ [HttpServerNext]_httpServerVars =>
        [~overlapped => \A s \in Sock :
          conn[s] = "open" /\ conn'[s] \in {"ended", "destroyed"}
              => \/ lstate'[host[s]] = "closing"
                 \/ \E k \in StopId : stop[k] = "delay" /\ target[k] = host[s]]_httpServerVars
    BY EndsItsOwn DEF AsOne
<1> QED
    BY <1>1, <1>2, AsOneStep, ServerInvariance, PTL DEF HttpServerSpec, OwnSocketsOnly

(* HttpServer.stop and onRequest: a shutdown cuts off no request that is   *)
(* being served, and no socket of a later server.                          *)
THEOREM Confined == ~Tls => (HttpServerSpec => ShutdownConfined)
BY ServedFirst, OwnOnly DEF ShutdownConfined
=============================================================================
