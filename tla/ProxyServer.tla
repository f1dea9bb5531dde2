---------------------------- MODULE ProxyServer ----------------------------
(***************************************************************************)
(* BaseProxy of packages/http-proxy: the HTTP server it starts and shuts   *)
(* down, and one CONNECT request, whose onward connection is ConnectRetry. *)
(*                                                                         *)
(* Every start() makes a new http.Server; the proxy knows one of them in   *)
(* its `server` field, which shutdown() and a 'close' listener reset.  The *)
(* HTTP server takes its listeners off a socket that sent a CONNECT, and   *)
(* onConnect puts none on until it pipes: an error in between has no       *)
(* listener and ends the process.  A half-closed tunnel counts as open.    *)
(***************************************************************************)
EXTENDS ConnectRetry

CONSTANTS
    MaxStarts,          \* calls of start() (bound)
    Restarts            \* start() while an earlier shutdown() is pending?

ASSUME StartsAssumption == MaxStarts \in Nat
ASSUME RestartsAssumption == Restarts \in BOOLEAN

Gen == 1 .. MaxStarts   \* the servers start() makes, in order

VARIABLES
    server,             \* the field: the server it holds, or None
    httpServer,         \* httpServer[g]: state of the g-th server
    shutdowns,          \* servers whose 'close' a shutdown() waits for
    owner,              \* the server that accepted the client's socket
    clientSocket,       \* the socket that sends CONNECT
    onConnect,          \* where onConnect stands
    reply,              \* status lines written to the client (history)
    crashed             \* an 'error' without a listener has ended the process

serverFieldVars == <<server, httpServer, shutdowns>>
connectVars == <<owner, clientSocket, onConnect, reply, crashed>>
proxyVars == <<vars, serverFieldVars, connectVars>>

ProxyTypeOK ==
    /\ server \in Gen \cup {None}
    /\ httpServer \in [Gen -> {"none", "starting", "listening", "failed",
                               "closing", "closed"}]
    /\ shutdowns \in SUBSET Gen
    /\ owner \in Gen \cup {None}
    /\ clientSocket \in {"none", "open", "gone"}
    /\ onConnect \in {"none", "authenticating", "denied", "racing", "piping",
                      "over"}
    /\ reply \in [{"200", "error"} -> 0 .. 2]
    /\ crashed \in BOOLEAN

ProxyInit ==
    /\ Init
    /\ server = None
    /\ httpServer = [g \in Gen |-> "none"]
    /\ shutdowns = {}
    /\ owner = None
    /\ clientSocket = "none"
    /\ onConnect = "none"
    /\ reply = [k \in {"200", "error"} |-> 0]
    /\ crashed = FALSE

-----------------------------------------------------------------------------
(* The server.                                                             *)

(* The state of the server that the field holds.                           *)
Held == IF server = None THEN "none" ELSE httpServer[server]

(* start() is called when the proxy is not running; unless Restarts, an    *)
(* application awaits its shutdown() first.                                *)
start(g) ==
    /\ httpServer[g] = "none" /\ \A h \in Gen : h < g => httpServer[h] # "none"
    /\ Held \in {"none", "failed"}
    /\ shutdowns # {} => Restarts
    /\ httpServer' = [httpServer EXCEPT ![g] = "starting"]
    /\ server' = g
    /\ UNCHANGED <<vars, shutdowns, connectVars>>

(* 'listening' resolves start(), 'error' rejects it and leaves the field.  *)
StartSettles(g) ==
    /\ httpServer[g] = "starting"
    /\ \E s \in {"listening", "failed"} :
          httpServer' = [httpServer EXCEPT ![g] = s]
    /\ UNCHANGED <<vars, server, shutdowns, connectVars>>

(* closeAllSockets(): a destroyed socket that no one listens to.           *)
closeAllSockets(force) ==
    clientSocket' = IF force /\ clientSocket = "open" THEN "gone"
                                                      ELSE clientSocket

(* shutdown(): applications await start() before it.  Without a server it  *)
(* resolves at once, with one it waits for its 'close'.                    *)
shutdown(force) ==
    /\ Held # "starting"
    /\ closeAllSockets(force)
    /\ server' = None
    /\ IF server = None
       THEN UNCHANGED <<httpServer, shutdowns>>
       ELSE /\ httpServer' = [httpServer EXCEPT ![server] = "closing"]
            /\ shutdowns' = shutdowns \cup {server}
    /\ UNCHANGED <<vars, owner, onConnect, reply, crashed>>

(* Mutant: the server closes while a tunnel is open.                       *)
CloseEventEarly(g) ==
    /\ httpServer[g] = "closing"
    /\ httpServer' = [httpServer EXCEPT ![g] = "closed"]
    /\ server' = None
    /\ shutdowns' = shutdowns \ {g}
    /\ UNCHANGED <<vars, connectVars>>

(* 'close' of a server, when its last socket is gone: the listener of      *)
(* start() resets the field, whichever server it holds by then.            *)
CloseEvent(g) ==
    /\ httpServer[g] = "closing"
    /\ owner = g => clientSocket = "gone"
    /\ httpServer' = [httpServer EXCEPT ![g] = "closed"]
    /\ server' = None
    /\ shutdowns' = shutdowns \ {g}
    /\ UNCHANGED <<vars, connectVars>>

ServerStep ==
    \/ \E g \in Gen : start(g) \/ StartSettles(g) \/ CloseEvent(g)
    \/ \E force \in BOOLEAN : shutdown(force)

-----------------------------------------------------------------------------
(* The request.                                                            *)

(* A client connects, onConnection tracks its socket, and sends CONNECT:   *)
(* onConnect runs to the first await, authenticate().                      *)
ConnectRequest(g) ==
    /\ clientSocket = "none" /\ httpServer[g] = "listening"
    /\ owner' = g
    /\ clientSocket' = "open"
    /\ onConnect' = "authenticating"
    /\ UNCHANGED <<vars, serverFieldVars, reply, crashed>>

(* authenticate() and matchRoute() return: the race begins.                *)
Authenticated ==
    /\ onConnect = "authenticating"
    /\ onConnect' = "racing"
    /\ UNCHANGED <<vars, serverFieldVars, owner, clientSocket, reply, crashed>>

(* The catch block: an error is written to a client that is still there,   *)
(* its socket is ended and destroyed.                                      *)
Refuse ==
    /\ clientSocket' = "gone"
    /\ reply' = IF clientSocket = "open" THEN [reply EXCEPT !["error"] = @ + 1]
                                         ELSE reply
    /\ UNCHANGED <<serverFieldVars, owner, crashed>>

NotAuthenticated ==
    /\ onConnect = "authenticating"
    /\ onConnect' = "denied"
    /\ Refuse
    /\ UNCHANGED vars

RaceBegun == onConnect \in {"racing", "piping", "over"}

(* The attempts of the race, the late ones included, whatever has become   *)
(* of the client.                                                          *)
RaceStep(i) ==
    /\ RaceBegun
    /\ tryConnect(i) \/ trackSocket(i) \/ Settled(i) \/ Lose(i)
    /\ UNCHANGED <<serverFieldVars, connectVars>>

(* sslConnectWithRetry rejects.                                            *)
RaceFails(i) ==
    /\ RaceBegun /\ Fail(i)
    /\ IF promise' = "rejected" /\ promise = "pending"
       THEN onConnect' = "over" /\ Refuse
       ELSE UNCHANGED <<serverFieldVars, connectVars>>

(* It resolves: 200 is written and the sockets piped, in one go.           *)
RaceWon(i) ==
    /\ onConnect = "racing" /\ Win(i)
    /\ onConnect' = "piping"
    /\ reply' = IF clientSocket = "open" THEN [reply EXCEPT !["200"] = @ + 1]
                                         ELSE reply
    /\ UNCHANGED <<serverFieldVars, owner, clientSocket, crashed>>

(* The client's socket fails or closes.  While onConnect awaits it has no  *)
(* listener for the error; a mere FIN goes unnoticed then.                 *)
ClientCloses ==
    /\ clientSocket = "open"
    /\ clientSocket' = "gone"
    /\ crashed' = (onConnect # "piping")
    /\ UNCHANGED <<vars, serverFieldVars, owner, onConnect, reply>>

(* The remote host closes, or its socket's connectTimeout strikes.         *)
RemoteCloses ==
    /\ onConnect = "piping"
    /\ PeerCloses \/ IdleTimeout
    /\ UNCHANGED <<serverFieldVars, connectVars>>

(* Mutant: only the direction from the client is piped.                    *)
PipelineFailsOneWay ==
    /\ onConnect = "piping"
    /\ clientSocket = "open" /\ sock[winner] # "open"
    /\ onConnect' = "over"
    /\ clientSocket' = "gone"
    /\ UNCHANGED <<vars, serverFieldVars, owner, reply, crashed>>

(* Mutant: the catch block answers a client that has its answer.           *)
PipelineFailsLoudly ==
    /\ onConnect = "piping"
    /\ \/ /\ clientSocket = "gone"
          /\ onConnect' = "over"
          /\ IF sock[winner] = "open" THEN PeerCloses ELSE UNCHANGED vars
          /\ UNCHANGED <<serverFieldVars, owner, clientSocket, reply, crashed>>
       \/ /\ clientSocket = "open" /\ sock[winner] # "open"
          /\ onConnect' = "over" /\ Refuse /\ UNCHANGED vars

(* A pipeline of which one end is gone destroys the other and rejects; the *)
(* catch block then has no socket left to write to.                        *)
PipelineFails ==
    /\ onConnect = "piping"
    /\ clientSocket = "gone" \/ sock[winner] # "open"
    /\ onConnect' = "over"
    /\ clientSocket' = "gone"
    /\ IF sock[winner] = "open" THEN PeerCloses ELSE UNCHANGED vars
    /\ UNCHANGED <<serverFieldVars, owner, reply, crashed>>

ConnectStep ==
    \/ \E i \in Attempt : RaceStep(i) \/ RaceFails(i) \/ RaceWon(i)
    \/ Authenticated \/ NotAuthenticated
    \/ ClientCloses \/ RemoteCloses \/ PipelineFails

ProxyNext ==
    /\ ~crashed
    /\ ServerStep \/ ConnectStep \/ \E g \in Gen : ConnectRequest(g)

ProxySpec == ProxyInit /\ [][ProxyNext]_proxyVars

(* authenticate() ends; as in ConnectRetry, timers fire and attempts have  *)
(* outcomes; streams learn of each other's end; servers close.             *)
ProxyFairness ==
    /\ WF_proxyVars(~crashed /\ (Authenticated \/ NotAuthenticated))
    /\ WF_proxyVars(~crashed /\ PipelineFails)
    /\ \A g \in Gen : WF_proxyVars(~crashed /\ CloseEvent(g))
    /\ \A i \in Attempt :
          /\ WF_proxyVars(~crashed /\ RaceStep(i) /\ tryConnect(i))
          /\ WF_proxyVars(~crashed /\ RaceStep(i) /\ (trackSocket(i) \/ Settled(i)))
          /\ WF_proxyVars(~crashed /\ (RaceWon(i) \/ RaceFails(i) \/ (RaceStep(i) /\ Lose(i))))

-----------------------------------------------------------------------------
(* Properties.                                                             *)

(* A CONNECT implements Relay, whatever start() and shutdown() do: one     *)
(* onward connection at most, an answer for the client, and neither end of *)
(* the tunnel outlives the other.                                          *)
Tunnel == INSTANCE Relay WITH
    left <- IF crashed THEN "gone" ELSE clientSocket,
    right <- IF promise # "resolved" THEN "none"
             ELSE IF crashed \/ sock[winner] # "open" THEN "gone" ELSE "open"

TunnelIsRelay == Tunnel!Safe /\ Tunnel!Served /\ Tunnel!Follows

(* The client reads one status line: 200 when it has a tunnel, an error    *)
(* when it has none, and never an error inside the stream of a tunnel.     *)
RepliedOnce ==
    /\ reply["200"] + reply["error"] <= 1
    /\ reply["200"] = 1 => promise = "resolved"
    /\ reply["error"] = 1 => promise # "resolved" /\ clientSocket = "gone"
    /\ onConnect = "piping" /\ clientSocket = "open" => reply["200"] = 1

(* A server that listens is the one shutdown() would close, so isRunning() *)
(* is true of it; and shutdown() has resolved only when the sockets of the *)
(* server it closed are gone.                                              *)
RunningServerKnown ==
    /\ \A g \in Gen : httpServer[g] = "listening" => server = g
    /\ owner # None /\ clientSocket = "open" /\ httpServer[owner] # "listening"
          => owner \in shutdowns
=============================================================================
