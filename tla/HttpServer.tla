----------------------------- MODULE HttpServer -----------------------------
(***************************************************************************)
(* Start and graceful shutdown of packages/http-server: HttpServer.ts      *)
(* counts the pending requests of every socket so that stop() ends idle    *)
(* sockets at once, the others when their requests are served, and         *)
(* destroys what is left after socketTimeout.                              *)
(*                                                                         *)
(* A Srv is one http.Server that start() created.  stop() has three waits  *)
(* (the shutdown delay, the 'close' event, the socket timeout), so calls   *)
(* of start() and stop() may overlap with it.                              *)
(***************************************************************************)
EXTENDS Integers

CONSTANTS
    Sock,               \* connections clients make (bound)
    StopId,             \* stop() calls that may run at the same time (bound)
    MaxGen,             \* servers that start() creates (bound)
    MaxPending,         \* requests being served on one socket (bound)
    Null,               \* null, or absent from a Map
    Tls                 \* is the server an https.Server?

Srv == 1 .. MaxGen

ASSUME BoundsAssumption == MaxGen \in Nat /\ MaxPending \in Nat
ASSUME NullAssumption == Null \notin Int
ASSUME ModeAssumption == Tls \in BOOLEAN

VARIABLES
    active,             \* this.server
    lstate,             \* lstate[g]: the http.Server g
    stopping,           \* this.stopping
    conn,               \* conn[s]: the connection s
    host,               \* host[s]: the server that accepted s
    pending,            \* pending[s]: requests of s being served
    requestsPerSocket,  \* the Map: key -> count, or Null where absent
    stop,               \* stop[k]: where the stop() call k stands
    target,             \* target[k]: the server it closes
    timer,              \* timer[k]: is its timeout armed?
    overlapped          \* did a stop() begin while another ran? (history)

connVars == <<conn, host, pending>>
stopVars == <<stop, target, timer, overlapped>>
httpServerVars ==
    <<active, lstate, stopping, connVars, requestsPerSocket, stopVars>>

(* The keys of the Map.  With TLS the 'connection' event has the raw       *)
(* socket, but req.socket is the TLS socket that wraps it.                 *)
Key == Sock \X {"raw", "tls"}
Raw(s) == <<s, "raw">>
ReqSocket(s) == <<s, IF Tls THEN "tls" ELSE "raw">>

(* "failed": listen() failed.  "closing": close() was called, connections  *)
(* remain.                                                                 *)
ServerStatus == {"none", "starting", "listening", "failed", "closing",
                 "closed"}
(* "ended": this side called end(), the client may still send.             *)
ConnStatus == {"none", "open", "ended", "destroyed", "closed"}
(* "refused" waits for 'close' too, but was given the callback of a server *)
(* that was not listening any more, and will reject.                       *)
StopStatus == {"idle", "delay", "waiting", "refused"}

HttpServerTypeOK ==
    /\ active \in Srv \cup {Null}
    /\ lstate \in [Srv -> ServerStatus]
    /\ stopping \in BOOLEAN
    /\ conn \in [Sock -> ConnStatus]
    /\ host \in [Sock -> Srv \cup {Null}]
    /\ pending \in [Sock -> 0 .. MaxPending]
    /\ requestsPerSocket \in [Key -> Int \cup {Null}]
    /\ stop \in [StopId -> StopStatus]
    /\ target \in [StopId -> Srv \cup {Null}]
    /\ timer \in [StopId -> BOOLEAN]
    /\ overlapped \in BOOLEAN

HttpServerInit ==
    /\ active = Null
    /\ lstate = [g \in Srv |-> "none"]
    /\ stopping = FALSE
    /\ conn = [s \in Sock |-> "none"]
    /\ host = [s \in Sock |-> Null]
    /\ pending = [s \in Sock |-> 0]
    /\ requestsPerSocket = [x \in Key |-> Null]
    /\ stop = [k \in StopId |-> "idle"]
    /\ target = [k \in StopId |-> Null]
    /\ timer = [k \in StopId |-> FALSE]
    /\ overlapped = FALSE

-----------------------------------------------------------------------------
(* Helpers.                                                                *)

getSocketRequests(x) ==
    IF requestsPerSocket[x] = Null THEN 0 ELSE requestsPerSocket[x]

(* end() on every key of the Map whose count is 0.                         *)
closeIdleSockets ==
    conn' = [s \in Sock |->
               IF conn[s] = "open" /\ \E x \in Key :
                     x[1] = s /\ requestsPerSocket[x] = 0
               THEN "ended" ELSE conn[s]]

(* destroy() on every key of the Map, which is emptied.                    *)
destroyAllSockets ==
    /\ conn' = [s \in Sock |->
                  IF conn[s] \in {"open", "ended"} /\ \E x \in Key :
                        x[1] = s /\ requestsPerSocket[x] # Null
                  THEN "destroyed" ELSE conn[s]]
    /\ requestsPerSocket' = [x \in Key |-> Null]

-----------------------------------------------------------------------------
(* start().                                                                *)

(* start() returns at once while there is a server, be it one that failed  *)
(* to listen or one that is being stopped.                                 *)
Start ==
    /\ active = Null
    /\ \E g \in Srv :
          /\ lstate[g] = "none"
          /\ \A h \in 1 .. g - 1 : lstate[h] # "none"
          /\ active' = g
          /\ lstate' = [lstate EXCEPT ![g] = "starting"]
    /\ stopping' = FALSE
    /\ requestsPerSocket' = [x \in Key |-> Null]
    /\ UNCHANGED <<connVars, stopVars>>

Listening(g) ==
    /\ lstate[g] = "starting"
    /\ lstate' = [lstate EXCEPT ![g] = "listening"]
    /\ UNCHANGED <<active, stopping, connVars, requestsPerSocket, stopVars>>

(* 'error': start() rejects and this.server stays.                         *)
ListenFails(g) ==
    /\ lstate[g] = "starting"
    /\ lstate' = [lstate EXCEPT ![g] = "failed"]
    /\ UNCHANGED <<active, stopping, connVars, requestsPerSocket, stopVars>>

-----------------------------------------------------------------------------
(* Connections and requests.                                               *)

(* onConnection.                                                           *)
Accept(s) ==
    /\ conn[s] = "none"
    /\ \E g \in Srv :
          /\ lstate[g] = "listening"
          /\ host' = [host EXCEPT ![s] = g]
    /\ conn' = [conn EXCEPT ![s] = "open"]
    /\ requestsPerSocket' = [requestsPerSocket EXCEPT ![Raw(s)] = 0]
    /\ UNCHANGED <<active, lstate, stopping, pending, stopVars>>

(* The 'close' handler of onConnection: the client, the network, the       *)
(* socket timeout, or this side closed the connection.                     *)
Close(s) ==
    /\ conn[s] \in {"open", "ended", "destroyed"}
    /\ conn' = [conn EXCEPT ![s] = "closed"]
    /\ pending' = [pending EXCEPT ![s] = 0]
    /\ requestsPerSocket' = [requestsPerSocket EXCEPT ![Raw(s)] = Null]
    /\ UNCHANGED <<active, lstate, stopping, host, stopVars>>

(* Mutant: the count is not read back, it is set to 1.                     *)
RequestCountsOne(s) ==
    /\ conn[s] \in {"open", "ended"}
    /\ pending[s] < MaxPending
    /\ pending' = [pending EXCEPT ![s] = @ + 1]
    /\ requestsPerSocket' = [requestsPerSocket EXCEPT ![ReqSocket(s)] = 1]
    /\ UNCHANGED <<active, lstate, stopping, conn, host, stopVars>>

(* onRequest: clients may pipeline requests, and send one while this side  *)
(* is closing the connection.                                              *)
Arrives(s) ==
    /\ conn[s] \in {"open", "ended"}
    /\ pending[s] < MaxPending
    /\ pending' = [pending EXCEPT ![s] = @ + 1]
    /\ requestsPerSocket' =
          [requestsPerSocket EXCEPT ![ReqSocket(s)] =
              getSocketRequests(ReqSocket(s)) + 1]
    /\ UNCHANGED <<active, lstate, stopping, conn, host, stopVars>>

(* Mutant: the socket is not ended when its last request is served.        *)
FinishOnlyCounts(s) ==
    /\ conn[s] \in {"open", "ended", "destroyed"}
    /\ pending[s] > 0
    /\ pending' = [pending EXCEPT ![s] = @ - 1]
    /\ requestsPerSocket' =
          [requestsPerSocket EXCEPT ![ReqSocket(s)] =
              getSocketRequests(ReqSocket(s)) - 1]
    /\ UNCHANGED <<active, lstate, stopping, conn, host, stopVars>>

(* 'finish' of a response, whatever became of its bytes: during a shutdown *)
(* the last one ends the socket.                                           *)
Finish(s) ==
    LET left == getSocketRequests(ReqSocket(s)) - 1 IN
    /\ conn[s] \in {"open", "ended", "destroyed"}
    /\ pending[s] > 0
    /\ pending' = [pending EXCEPT ![s] = @ - 1]
    /\ requestsPerSocket' = [requestsPerSocket EXCEPT ![ReqSocket(s)] = left]
    /\ conn' = IF stopping /\ left = 0 /\ conn[s] = "open"
               THEN [conn EXCEPT ![s] = "ended"]
               ELSE conn
    /\ UNCHANGED <<active, lstate, stopping, host, stopVars>>

-----------------------------------------------------------------------------
(* stop().                                                                 *)

(* stop() returns at once when there is no server.                         *)
Stop(k) ==
    /\ stop[k] = "idle" /\ ~timer[k]
    /\ active # Null
    /\ stopping' = TRUE
    /\ stop' = [stop EXCEPT ![k] = "delay"]
    /\ target' = [target EXCEPT ![k] = active]
    /\ overlapped' = (overlapped \/ \E j \in StopId : stop[j] # "idle")
    /\ UNCHANGED <<active, lstate, connVars, requestsPerSocket, timer>>

(* Mutant: the server is forgotten before it is closed.                    *)
DelayOverForgets(k) ==
    LET g == target[k] IN
    /\ stop[k] = "delay" /\ lstate[g] = "listening"
    /\ closeIdleSockets
    /\ timer' = [timer EXCEPT ![k] = TRUE]
    /\ lstate' = [lstate EXCEPT ![g] = "closing"]
    /\ stop' = [stop EXCEPT ![k] = "waiting"]
    /\ active' = Null
    /\ UNCHANGED <<stopping, host, pending, requestsPerSocket, target,
                   overlapped>>

(* Mutant: no timeout is armed.                                            *)
DelayOverWithoutTimeout(k) ==
    LET g == target[k] IN
    /\ stop[k] = "delay" /\ lstate[g] = "listening"
    /\ closeIdleSockets
    /\ lstate' = [lstate EXCEPT ![g] = "closing"]
    /\ stop' = [stop EXCEPT ![k] = "waiting"]
    /\ UNCHANGED <<active, stopping, host, pending, requestsPerSocket, target,
                   timer, overlapped>>

(* The shutdown delay is over: close(), arm the timeout, end idle sockets. *)
(* A server that does not listen any more gives an error to the callback   *)
(* of close(), on its next 'close' event: at once when it has no           *)
(* connections.  The wait lasts longer than it takes to start listening.   *)
DelayOver(k) ==
    LET g == target[k] IN
    /\ stop[k] = "delay" /\ lstate[g] # "starting"
    /\ closeIdleSockets
    /\ timer' = [timer EXCEPT ![k] = TRUE]
    /\ \/ /\ lstate[g] = "listening"
          /\ lstate' = [lstate EXCEPT ![g] = "closing"]
          /\ stop' = [stop EXCEPT ![k] = "waiting"]
       \/ /\ lstate[g] = "closing"
          /\ stop' = [stop EXCEPT ![k] = "refused"]
          /\ UNCHANGED lstate
       \/ /\ lstate[g] \in {"failed", "closed"}
          /\ stop' = [stop EXCEPT ![k] = "idle"]
          /\ UNCHANGED lstate
    /\ UNCHANGED <<active, stopping, host, pending, requestsPerSocket, target,
                   overlapped>>

(* Mutant: stop() does not clear its timeout.                              *)
ServerClosedLeavesTimer(g) ==
    /\ lstate[g] = "closing"
    /\ \A s \in Sock : host[s] = g => conn[s] = "closed"
    /\ lstate' = [lstate EXCEPT ![g] = "closed"]
    /\ stop' = [k \in StopId |->
                  IF target[k] = g /\ stop[k] # "delay"
                  THEN "idle" ELSE stop[k]]
    /\ active' = Null
    /\ UNCHANGED <<stopping, connVars, requestsPerSocket, target, timer,
                   overlapped>>

(* 'close' of the server: the stop() whose close() it answers clears its   *)
(* timeout and forgets the server; those that came later reject and leave  *)
(* their timeouts armed.                                                   *)
ServerClosed(g) ==
    /\ lstate[g] = "closing"
    /\ \A s \in Sock : host[s] = g => conn[s] = "closed"
    /\ lstate' = [lstate EXCEPT ![g] = "closed"]
    /\ stop' = [k \in StopId |->
                  IF target[k] = g /\ stop[k] # "delay"
                  THEN "idle" ELSE stop[k]]
    /\ timer' = [k \in StopId |->
                   timer[k] /\ ~(target[k] = g /\ stop[k] = "waiting")]
    /\ active' = Null
    /\ UNCHANGED <<stopping, connVars, requestsPerSocket, target, overlapped>>

(* The timeout fires.                                                      *)
Timeout(k) ==
    /\ timer[k]
    /\ timer' = [timer EXCEPT ![k] = FALSE]
    /\ destroyAllSockets
    /\ UNCHANGED <<active, lstate, stopping, host, pending, stop, target,
                   overlapped>>

-----------------------------------------------------------------------------
HttpServerNext ==
    \/ Start
    \/ \E g \in Srv : Listening(g) \/ ListenFails(g) \/ ServerClosed(g)
    \/ \E s \in Sock : Accept(s) \/ Close(s) \/ Arrives(s) \/ Finish(s)
    \/ \E k \in StopId : Stop(k) \/ DelayOver(k) \/ Timeout(k)

HttpServerSpec == HttpServerInit /\ [][HttpServerNext]_httpServerVars

(* Timers fire, listen() has an outcome, a socket that this side destroyed *)
(* gets its 'close' event, and so does a server without connections.  No   *)
(* client is assumed to close, no request to be served.                    *)
HttpServerFairness ==
    /\ \A g \in Srv : /\ WF_httpServerVars(Listening(g) \/ ListenFails(g))
                      /\ WF_httpServerVars(ServerClosed(g))
    /\ \A s \in Sock : WF_httpServerVars(conn[s] = "destroyed" /\ Close(s))
    /\ \A k \in StopId : /\ WF_httpServerVars(DelayOver(k))
                         /\ WF_httpServerVars(Timeout(k))

-----------------------------------------------------------------------------
(* Properties.                                                             *)

(* "Tracks the number of pending requests per socket": the Map has exactly *)
(* that, through pipelining, shutdown and restart, for every socket that   *)
(* this side has not destroyed, and nothing of a socket that is closed.    *)
CountsPending ==
    ~Tls =>
        /\ \A s \in Sock :
              conn[s] \in {"open", "ended"} =>
                  requestsPerSocket[Raw(s)] = pending[s]
        /\ \A x \in Key :
              requestsPerSocket[x] # Null =>
                  conn[x[1]] \in {"open", "ended", "destroyed"}

(* Once the server is closing, a socket is open only while a request on it *)
(* is being served: stop() does not wait for idle clients.                 *)
IdleSocketsEnded ==
    \A s \in Sock : conn[s] = "open" /\ lstate[host[s]] = "closing"
                        => pending[s] > 0

(* "close connection during shutdown, when requests are served": the       *)
(* server never ends a socket on which a request is being served.          *)
ServedBeforeEnded ==
    [][\A s \in Sock : conn[s] = "open" /\ conn'[s] = "ended"
                           => pending'[s] = 0]_httpServerVars

(* start() never creates a server while another one, which stop() could    *)
(* not reach any more, holds its port or its connections.                  *)
LiveServerKnown ==
    \A g \in Srv : lstate[g] \notin {"none", "closed"} <=> active = g

(* As long as stop() calls do not overlap, a stop() ends or destroys the   *)
(* connections of no server but the one it closes: a server that start()   *)
(* creates afterwards is left alone.                                       *)
OwnSocketsOnly ==
    [][~overlapped => \A s \in Sock :
          conn[s] = "open" /\ conn'[s] \in {"ended", "destroyed"}
              => \/ lstate'[host[s]] = "closing"
                 \/ \E k \in StopId :
                       stop[k] = "delay" /\ target[k] = host[s]]_httpServerVars

(* A shutdown ends no socket on which a request is being served, and no    *)
(* socket of another server than its own.                                  *)
ShutdownConfined == ServedBeforeEnded /\ OwnSocketsOnly

(* stop() settles, even when clients keep their connections and requests   *)
(* are never served.                                                       *)
StopSettles == \A k \in StopId : stop[k] # "idle" ~> stop[k] = "idle"
=============================================================================
