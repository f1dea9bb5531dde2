------------------------------ MODULE WsClient ------------------------------
(***************************************************************************)
(* The WebSocket RPC client of packages/protocomm: WsClient.ts, which      *)
(* opens, retries and reopens sockets and queues requests while there is   *)
(* none, on top of RpcClient.ts, which numbers the calls and matches the   *)
(* responses with the promises of the callers.                             *)
(*                                                                         *)
(* Every action is one uninterrupted run of the JavaScript event loop: an  *)
(* application call, a socket event or a timer, with everything the code   *)
(* does before it next waits.                                              *)
(*                                                                         *)
(* A Conn is one chain of connection attempts: a run of makeConnection,    *)
(* the socket it produced, and the onClose that runs makeConnection again  *)
(* when that socket closes.  One chain has at most one socket at a time.   *)
(* Nothing in the code keeps an application from having several chains.    *)
(***************************************************************************)
EXTENDS Integers, Sequences, Functions

CONSTANTS
    Conn,               \* chains that may exist at the same time (bound)
    None,               \* null
    MaxCalls,           \* calls the application makes (bound)
    ReconnectAnswers,   \* what the hook shouldReconnectOnClose() may return
    RetryAnswers,       \* what the hook shouldRetry(attempts) may return
    Overlap,            \* may connect()/disconnect() be called in mid-attempt?
    ListenerCalls       \* may a `connected` listener call the server?

ASSUME NoneAssumption == None \notin Conn
ASSUME CallsAssumption == MaxCalls \in Nat
ASSUME HooksAssumption ==
    /\ ReconnectAnswers # {} /\ ReconnectAnswers \subseteq BOOLEAN
    /\ RetryAnswers # {} /\ RetryAnswers \subseteq BOOLEAN
ASSUME UseAssumption == Overlap \in BOOLEAN /\ ListenerCalls \in BOOLEAN

(* Request ids: RpcClient counts from 1.  The wrap at MAX_SAFE_INTEGER is  *)
(* out of reach: MaxCalls bounds the calls of one client far below it.     *)
CallId == 1 .. MaxCalls

VARIABLES
    ws,                 \* the client's current socket, or None
    conn,               \* conn[c]: what chain c is doing
    connectPromise,     \* is the field connectPromise set?
    reconnectEnabled,   \* the field of that name
    pendingRequests,    \* requests waiting for a socket, in call order
    id,                 \* RpcClient's last request id
    awaitingCommands,   \* RpcClient's map of unsettled calls, as a set of ids
    call,               \* call[i]: what the promise of call i knows (history)
    wire,               \* requests sent, over all sockets, in order (history)
    inFlight            \* inFlight[i]: the live socket that may answer call i

rpcVars == <<id, awaitingCommands, call>>
vars == <<ws, conn, connectPromise, reconnectEnabled, pendingRequests,
          id, awaitingCommands, call, wire, inFlight>>

(* "none"           the chain does not exist                               *)
(* "connecting"     tryConnect() waits for 'open' or 'error'               *)
(* "retryWait"      makeConnection waits before its next attempt           *)
(* "open"           the socket is OPEN                                     *)
(* "closing"        the socket left OPEN, its 'close' event is to come     *)
(* "reconnectWait"  onClose waits before it calls makeConnection           *)
ConnStatus == {"none", "connecting", "retryWait", "open", "closing",
               "reconnectWait"}
CallStatus == {"none", "pending", "answered", "closed", "unsent"}

TypeOK ==
    /\ ws \in Conn \cup {None}
    /\ conn \in [Conn -> ConnStatus]
    /\ connectPromise \in BOOLEAN
    /\ reconnectEnabled \in BOOLEAN
    /\ pendingRequests \in Seq(CallId)
    /\ id \in 0 .. MaxCalls
    /\ awaitingCommands \in SUBSET CallId
    /\ call \in [CallId -> CallStatus]
    /\ wire \in Seq(CallId)
    /\ inFlight \in [CallId -> Conn \cup {None}]

Init ==
    /\ ws = None
    /\ conn = [c \in Conn |-> "none"]
    /\ connectPromise = FALSE
    /\ reconnectEnabled \in ReconnectAnswers
    /\ pendingRequests = <<>>
    /\ id = 0
    /\ awaitingCommands = {}
    /\ call = [i \in CallId |-> "none"]
    /\ wire = <<>>
    /\ inFlight = [i \in CallId |-> None]

-----------------------------------------------------------------------------
(* State predicates of the code.                                           *)

isConnected == ws # None /\ conn[ws] = "open"

(* makeConnection of chain c is running.                                   *)
Attempting(c) == conn[c] \in {"connecting", "retryWait"}

(* Chain c is running makeConnection, or will after its wait.              *)
UnderWay(c) == Attempting(c) \/ conn[c] = "reconnectWait"

-----------------------------------------------------------------------------
(* Effects shared by several handlers.                                     *)

(* Mutant: the map is emptied, the promises are forgotten.                 *)
HandleCloseForgets(keep) ==
    /\ awaitingCommands' = awaitingCommands \cap keep
    /\ UNCHANGED <<id, call>>

(* RpcClient.handleClose(keep): reject every unsettled call but those kept.*)
HandleClose(keep) ==
    /\ awaitingCommands' = awaitingCommands \cap keep
    /\ call' = [i \in CallId |->
                  IF i \in awaitingCommands \ keep THEN "closed" ELSE call[i]]
    /\ id' = id

(* The socket of chain c can no longer answer anything.                    *)
DropInFlight(c) ==
    inFlight' = [i \in CallId |-> IF inFlight[i] = c THEN None ELSE inFlight[i]]

(* Send the requests s, in order, on the socket of chain c.                *)
SendAll(s, c) ==
    /\ wire' = wire \o s
    /\ inFlight' = [i \in CallId |-> IF i \in Range(s) THEN c ELSE inFlight[i]]

(* RpcClient.createMethod: a new id, registered before it is sent.         *)
NewCall ==
    /\ id < MaxCalls
    /\ id' = id + 1
    /\ awaitingCommands' = awaitingCommands \cup {id + 1}
    /\ call' = [call EXCEPT ![id + 1] = "pending"]

-----------------------------------------------------------------------------
(* The application.                                                        *)

(* connect(): refresh the hook's answer; start a chain unless connected or *)
(* connecting already.                                                     *)
Connect ==
    /\ reconnectEnabled' \in ReconnectAnswers
    /\ \/ /\ connectPromise
          /\ UNCHANGED <<conn, connectPromise>>
       \/ /\ ~connectPromise
          /\ Overlap \/ \A c \in Conn : ~UnderWay(c)
          /\ \E c \in Conn :
                /\ conn[c] = "none"
                /\ conn' = [conn EXCEPT ![c] = "connecting"]
          /\ connectPromise' = TRUE
    /\ UNCHANGED <<ws, pendingRequests, rpcVars, wire, inFlight>>

(* disconnect(): forget the socket and close it, drop the queue, reject    *)
(* everything.  A running makeConnection is not told.                      *)
Disconnect ==
    /\ Overlap \/ \A c \in Conn : ~Attempting(c)
    /\ reconnectEnabled' = FALSE
    /\ ws' = None
    /\ connectPromise' = FALSE
    /\ pendingRequests' = <<>>
    /\ HandleClose({})
    /\ conn' = [c \in Conn |-> IF c = ws /\ conn[c] = "open" THEN "closing"
                                                             ELSE conn[c]]
    /\ UNCHANGED <<wire, inFlight>>

(* A method call while the socket is OPEN: sent at once.                   *)
CallSent ==
    /\ isConnected
    /\ NewCall
    /\ SendAll(<<id + 1>>, ws)
    /\ UNCHANGED <<ws, conn, connectPromise, reconnectEnabled, pendingRequests>>

(* Mutant: unshift instead of push.                                        *)
CallQueuedFirst ==
    /\ ~isConnected /\ reconnectEnabled
    /\ NewCall
    /\ pendingRequests' = <<id + 1>> \o pendingRequests
    /\ UNCHANGED <<ws, conn, connectPromise, reconnectEnabled, wire, inFlight>>

(* A method call while there is none, reconnection enabled: queued.        *)
CallQueued ==
    /\ ~isConnected /\ reconnectEnabled
    /\ NewCall
    /\ pendingRequests' = Append(pendingRequests, id + 1)
    /\ UNCHANGED <<ws, conn, connectPromise, reconnectEnabled, wire, inFlight>>

(* Otherwise sendRequest throws: unregistered again and rejected.          *)
CallRefused ==
    /\ ~isConnected /\ ~reconnectEnabled
    /\ id < MaxCalls
    /\ id' = id + 1
    /\ call' = [call EXCEPT ![id + 1] = "unsent"]
    /\ UNCHANGED <<ws, conn, connectPromise, reconnectEnabled, pendingRequests,
                   awaitingCommands, wire, inFlight>>

-----------------------------------------------------------------------------
(* The loop of makeConnection.                                             *)

(* Mutant: the queue is sent and kept.                                     *)
OpenedKeepsQueue(c) ==
    /\ conn[c] = "connecting"
    /\ conn' = [conn EXCEPT ![c] = "open"]
    /\ ws' = c
    /\ SendAll(pendingRequests, c)
    /\ UNCHANGED <<connectPromise, reconnectEnabled, pendingRequests, rpcVars>>

(* Mutant: the queue is not flushed.                                       *)
OpenedWithoutFlush(c) ==
    /\ conn[c] = "connecting"
    /\ conn' = [conn EXCEPT ![c] = "open"]
    /\ ws' = c
    /\ UNCHANGED <<connectPromise, reconnectEnabled, pendingRequests, rpcVars,
                   wire, inFlight>>

(* 'open': the socket becomes the current one and the queue is flushed.    *)
Opened(c) ==
    /\ conn[c] = "connecting"
    /\ conn' = [conn EXCEPT ![c] = "open"]
    /\ ws' = c
    /\ SendAll(pendingRequests, c)
    /\ pendingRequests' = <<>>
    /\ UNCHANGED <<connectPromise, reconnectEnabled, rpcVars>>

(* The same, and a listener of `connected`, which runs before the flush,   *)
(* makes a call.                                                           *)
OpenedListenerCalls(c) ==
    /\ ListenerCalls
    /\ conn[c] = "connecting"
    /\ conn' = [conn EXCEPT ![c] = "open"]
    /\ ws' = c
    /\ NewCall
    /\ SendAll(<<id + 1>> \o pendingRequests, c)
    /\ pendingRequests' = <<>>
    /\ UNCHANGED <<connectPromise, reconnectEnabled>>

(* The server closes so early that the socket is not OPEN any more when    *)
(* makeConnection resumes: flushPendingRequests returns.                   *)
OpenedClosing(c) ==
    /\ conn[c] = "connecting"
    /\ conn' = [conn EXCEPT ![c] = "closing"]
    /\ ws' = c
    /\ UNCHANGED <<connectPromise, reconnectEnabled, pendingRequests, rpcVars,
                   wire, inFlight>>

(* Mutant: the loop ends after a failed attempt.                           *)
ConnectFailedEnds(c) ==
    /\ conn[c] = "connecting"
    /\ TRUE \in RetryAnswers
    /\ conn' = [conn EXCEPT ![c] = "none"]
    /\ UNCHANGED <<ws, connectPromise, reconnectEnabled, pendingRequests,
                   rpcVars, wire, inFlight>>

(* 'error' before 'open', and shouldRetry agrees to another attempt.       *)
ConnectFailed(c) ==
    /\ conn[c] = "connecting"
    /\ TRUE \in RetryAnswers
    /\ conn' = [conn EXCEPT ![c] = "retryWait"]
    /\ UNCHANGED <<ws, connectPromise, reconnectEnabled, pendingRequests,
                   rpcVars, wire, inFlight>>

(* 'error' before 'open', and shouldRetry gives up: the queue is dropped   *)
(* and every unsettled call is rejected.                                   *)
ConnectGivesUp(c) ==
    /\ conn[c] = "connecting"
    /\ FALSE \in RetryAnswers
    /\ conn' = [conn EXCEPT ![c] = "none"]
    /\ connectPromise' = FALSE
    /\ pendingRequests' = <<>>
    /\ HandleClose({})
    /\ UNCHANGED <<ws, reconnectEnabled, wire, inFlight>>

(* The wait between two attempts is over.                                  *)
RetryTimer(c) ==
    /\ conn[c] = "retryWait"
    /\ conn' = [conn EXCEPT ![c] = "connecting"]
    /\ UNCHANGED <<ws, connectPromise, reconnectEnabled, pendingRequests,
                   rpcVars, wire, inFlight>>

-----------------------------------------------------------------------------
(* Sockets.                                                                *)

(* The server, or the network, starts to close the socket of chain c.      *)
CloseBegins(c) ==
    /\ conn[c] = "open"
    /\ conn' = [conn EXCEPT ![c] = "closing"]
    /\ UNCHANGED <<ws, connectPromise, reconnectEnabled, pendingRequests,
                   rpcVars, wire, inFlight>>

(* 'close' of a socket that is not the current one: onClose returns.       *)
CloseIgnored(c) ==
    /\ conn[c] = "closing" /\ ws # c
    /\ conn' = [conn EXCEPT ![c] = "none"]
    /\ DropInFlight(c)
    /\ UNCHANGED <<ws, connectPromise, reconnectEnabled, pendingRequests,
                   rpcVars, wire>>

(* Mutant: the calls that wait in the queue are rejected as well.          *)
CloseReconnectsRejectsAll(c) ==
    /\ conn[c] = "closing" /\ ws = c
    /\ reconnectEnabled
    /\ conn' = [conn EXCEPT ![c] = "reconnectWait"]
    /\ HandleClose({})
    /\ ws' = None
    /\ connectPromise' = FALSE
    /\ DropInFlight(c)
    /\ UNCHANGED <<reconnectEnabled, pendingRequests, wire>>

(* Mutant: the calls in flight are kept as well.                           *)
CloseReconnectsKeepsAll(c) ==
    /\ conn[c] = "closing" /\ ws = c
    /\ reconnectEnabled
    /\ conn' = [conn EXCEPT ![c] = "reconnectWait"]
    /\ HandleClose(awaitingCommands)
    /\ ws' = None
    /\ connectPromise' = FALSE
    /\ DropInFlight(c)
    /\ UNCHANGED <<reconnectEnabled, pendingRequests, wire>>

(* 'close' of the current socket with reconnection enabled: the queued     *)
(* calls stay, the others are rejected, makeConnection will run again.     *)
CloseReconnects(c) ==
    /\ conn[c] = "closing" /\ ws = c
    /\ reconnectEnabled
    /\ conn' = [conn EXCEPT ![c] = "reconnectWait"]
    /\ HandleClose(Range(pendingRequests))
    /\ ws' = None
    /\ connectPromise' = FALSE
    /\ DropInFlight(c)
    /\ UNCHANGED <<reconnectEnabled, pendingRequests, wire>>

(* 'close' of the current socket otherwise: every call is rejected.        *)
CloseForGood(c) ==
    /\ conn[c] = "closing" /\ ws = c
    /\ ~reconnectEnabled
    /\ conn' = [conn EXCEPT ![c] = "none"]
    /\ pendingRequests' = <<>>
    /\ HandleClose({})
    /\ ws' = None
    /\ connectPromise' = FALSE
    /\ DropInFlight(c)
    /\ UNCHANGED <<reconnectEnabled, wire>>

(* The wait of onClose is over: a new makeConnection, whatever             *)
(* connectPromise holds by now, unless reconnection was disabled.          *)
ReconnectTimer(c) ==
    /\ conn[c] = "reconnectWait"
    /\ \/ /\ reconnectEnabled
          /\ conn' = [conn EXCEPT ![c] = "connecting"]
          /\ connectPromise' = TRUE
       \/ /\ ~reconnectEnabled
          /\ conn' = [conn EXCEPT ![c] = "none"]
          /\ UNCHANGED connectPromise
    /\ UNCHANGED <<ws, reconnectEnabled, pendingRequests, rpcVars, wire,
                   inFlight>>

(* Mutant: the response settles a call that was settled before.            *)
ResponseLate(i) ==
    /\ inFlight[i] # None
    /\ inFlight' = [inFlight EXCEPT ![i] = None]
    /\ awaitingCommands' = awaitingCommands \ {i}
    /\ call' = [call EXCEPT ![i] = "answered"]
    /\ UNCHANGED <<ws, conn, connectPromise, reconnectEnabled, pendingRequests,
                   id, wire>>

(* A response to call i arrives on the socket that carried the request; it *)
(* settles the call unless that was settled before.  The server answers a  *)
(* request once.  A closing socket still delivers what was under way.      *)
Response(i) ==
    /\ inFlight[i] # None
    /\ inFlight' = [inFlight EXCEPT ![i] = None]
    /\ awaitingCommands' = awaitingCommands \ {i}
    /\ call' = [call EXCEPT ![i] = IF i \in awaitingCommands THEN "answered"
                                                             ELSE call[i]]
    /\ UNCHANGED <<ws, conn, connectPromise, reconnectEnabled, pendingRequests,
                   id, wire>>

-----------------------------------------------------------------------------
Application == Connect \/ Disconnect \/ CallSent \/ CallQueued \/ CallRefused

Outcome(c) ==
    \/ Opened(c)
    \/ OpenedListenerCalls(c)
    \/ OpenedClosing(c)
    \/ ConnectFailed(c)
    \/ ConnectGivesUp(c)

CloseEvent(c) == CloseIgnored(c) \/ CloseReconnects(c) \/ CloseForGood(c)

Next ==
    \/ Application
    \/ \E c \in Conn : \/ Outcome(c)
                       \/ RetryTimer(c)
                       \/ CloseBegins(c)
                       \/ CloseEvent(c)
                       \/ ReconnectTimer(c)
    \/ \E i \in CallId : Response(i)

Spec == Init /\ [][Next]_vars

(* Timers fire, an attempt ends one way or the other, a closing socket     *)
(* gets its 'close' event: the event loop and the socket library do that.  *)
(* The network assumption is that attempts do not fail for ever.           *)
EventLoop ==
    \A c \in Conn : /\ WF_vars(RetryTimer(c))
                    /\ WF_vars(ReconnectTimer(c))
                    /\ WF_vars(CloseEvent(c))
                    /\ WF_vars(Outcome(c))
Network == \A c \in Conn : SF_vars(Opened(c))

FairSpec == Spec /\ EventLoop /\ Network

-----------------------------------------------------------------------------
(* Safety, however the application uses the client.                        *)

(* RpcClient and WsClient agree on every unsettled call: its promise is    *)
(* pending, it is registered, and it is either sent or queued; nothing is  *)
(* queued whose caller has been told it failed.                            *)
CallsAccountedFor ==
    /\ \A i \in CallId : call[i] = "pending" <=> i \in awaitingCommands
    /\ awaitingCommands \subseteq Range(wire) \cup Range(pendingRequests)
    /\ Range(pendingRequests) \subseteq awaitingCommands

Increasing(s) == \A k, l \in DOMAIN s : k < l => s[k] < s[l]

(* No request is sent twice over all sockets, nor queued once it was sent: *)
(* what a flush sends after a reconnection was never on an earlier socket. *)
SentAtMostOnce == IsInjective(wire \o pendingRequests)

(* Requests reach the wire in the order of the calls, those that waited    *)
(* for the socket included, unless a `connected` listener makes calls: its *)
(* calls overtake the queue.                                               *)
SentInCallOrder == ~ListenerCalls => Increasing(wire \o pendingRequests)

(* Nothing stays in the queue behind an open connection, where it would    *)
(* wait until the next reconnection.                                       *)
QueueDrained == isConnected => pendingRequests = <<>>

(* As long as reconnection stays enabled and no loop gives up, a close or  *)
(* a retry never rejects a call that waits in the queue.                   *)
QueuedSurvives ==
    [][(/\ reconnectEnabled'
        /\ \A c \in Conn : ~(conn[c] = "connecting" /\ conn'[c] = "none"))
       => \A i \in Range(pendingRequests) : call'[i] # "closed"]_vars

(* The client keeps the promises to its callers that RpcCalls states.      *)
Calls == INSTANCE RpcCalls
CallsImplemented == Calls!Spec

-----------------------------------------------------------------------------
(* Safety for an application that does not call connect() or disconnect()  *)
(* while a connection attempt is under way (Overlap = FALSE).              *)

(* There is one chain that attempts to connect, and only while there is no *)
(* socket; a socket that is open is the current one.                       *)
OneConnection ==
    /\ \A c, d \in Conn : UnderWay(c) /\ UnderWay(d) => c = d
    /\ \A c \in Conn : UnderWay(c) => ws = None
    /\ \A c \in Conn : conn[c] = "open" => ws = c

(* A call that was sent and is not settled can still be settled: the       *)
(* socket that carried it may answer, or is still to close and reject it   *)
(* ("rejects in-flight on close", ws-client.test.ts).                      *)
NoCallStranded ==
    \A i \in awaitingCommands : i \in Range(wire) => inFlight[i] # None

-----------------------------------------------------------------------------
(* Liveness, under FairSpec.                                               *)

(* While some attempt is under way, a queued call is eventually sent or    *)
(* rejected.                                                               *)
QueuedLeaves ==
    \A i \in CallId :
        (i \in Range(pendingRequests) /\ \E c \in Conn : UnderWay(c))
            ~> i \notin Range(pendingRequests)

(* A call that is in flight when its socket closes is eventually settled.  *)
RejectedOnClose ==
    \A i \in CallId :
        (/\ i \in awaitingCommands
         /\ \E c \in Conn : inFlight[i] = c /\ conn[c] = "closing")
            ~> i \notin awaitingCommands

(* A lost connection comes back unless the application disconnects.        *)
Reconnects ==
    (reconnectEnabled /\ \E c \in Conn : conn[c] = "reconnectWait")
        ~> (isConnected \/ ~reconnectEnabled)

(* A lost connection is dealt with on both of its sides.                   *)
LossHandled == RejectedOnClose /\ Reconnects
=============================================================================
