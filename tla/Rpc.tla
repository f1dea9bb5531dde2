-------------------------------- MODULE Rpc --------------------------------
(***************************************************************************)
(* WsClient and RpcServer over a network: the client's requests and the    *)
(* server's messages travel in order on a socket, each side learns of the  *)
(* other's close in its own time, and what is still under way then may be  *)
(* processed or lost.                                                      *)
(*                                                                         *)
(* A step of the client is a step of WsClient, a step of the server one of *)
(* RpcServer, so this is WsClient with a server that really answers.       *)
(* Events are left to RpcServer: the client keeps no state for them.       *)
(***************************************************************************)
EXTENDS WsClient, RpcServer

ASSUME IdsAssumption == Req = CallId

VARIABLES
    peer,               \* peer[c]: the socket of chain c, as the server has it
    toServer,           \* toServer[s]: requests under way to the server
    read                \* read[s]: messages of sent[s] the client has got

netVars == <<peer, toServer, read>>
rpcAllVars == <<vars, serverVars, netVars>>

NewlySent == SubSeq(wire', Len(wire) + 1, Len(wire'))

RpcTypeOK ==
    /\ ServerTypeOK
    /\ peer \in [Conn -> Socket \cup {None}]
    /\ toServer \in [Socket -> Seq(Req)]
    /\ read \in [Socket -> Nat]
    /\ \A s \in Socket : read[s] <= Len(sent[s])

RpcInit ==
    /\ Init
    /\ ServerInit
    /\ peer = [c \in Conn |-> None]
    /\ toServer = [s \in Socket |-> <<>>]
    /\ read = [s \in Socket |-> 0]

-----------------------------------------------------------------------------
(* The client connects and, usually, sends what it has queued.             *)
ClientOpens(c) ==
    /\ Opened(c) \/ OpenedListenerCalls(c) \/ OpenedClosing(c)
    /\ \E s \in Socket :
          /\ \A q \in Socket : readyState[q] = "none" => s <= q
          /\ Accept(s)
          /\ peer' = [peer EXCEPT ![c] = s]
          /\ toServer' = [toServer EXCEPT ![s] = @ \o NewlySent]
    /\ UNCHANGED read

ClientSends ==
    /\ CallSent
    /\ toServer' = [toServer EXCEPT ![peer[ws]] = @ \o NewlySent]
    /\ UNCHANGED <<serverVars, peer, read>>

(* What the client does without the network.                               *)
ClientAlone ==
    /\ \/ Connect \/ Disconnect \/ CallQueued \/ CallRefused
       \/ \E c \in Conn : \/ ConnectFailed(c) \/ ConnectGivesUp(c)
                          \/ RetryTimer(c) \/ ReconnectTimer(c)
                          \/ CloseBegins(c)
    /\ UNCHANGED <<serverVars, netVars>>

ClientCloses(c) ==
    /\ CloseEvent(c)
    /\ peer' = [peer EXCEPT ![c] = None]
    /\ UNCHANGED <<serverVars, toServer, read>>

(* Mutant: the response is taken for one to the oldest call.               *)
DeliverOutOfPlace(c) ==
    LET s == peer[c] IN
    /\ s # None
    /\ read[s] < Len(sent[s])
    /\ read' = [read EXCEPT ![s] = @ + 1]
    /\ IF sent[s][read[s] + 1][2] \in Req
       THEN \E i \in CallId : Response(i)
       ELSE UNCHANGED vars
    /\ UNCHANGED <<serverVars, peer, toServer>>

(* The client gets the next message of a socket: a response settles its    *)
(* call, one to NoId settles none.                                         *)
Deliver(c) ==
    LET s == peer[c]
        i == sent[s][read[s] + 1][2]
    IN  /\ s # None
        /\ read[s] < Len(sent[s])
        /\ read' = [read EXCEPT ![s] = @ + 1]
        /\ \/ i # NoId /\ Response(i)
           \/ i = NoId /\ UNCHANGED vars
        /\ UNCHANGED <<serverVars, peer, toServer>>

(* The server gets the next request of a socket.                           *)
Receive(s) ==
    /\ toServer[s] # <<>>
    /\ \/ Undecodable(s, Head(toServer[s]))
       \/ NotRun(s, Head(toServer[s]))
       \/ Run(s, Head(toServer[s]))
    /\ toServer' = [toServer EXCEPT ![s] = Tail(@)]
    /\ UNCHANGED <<vars, peer, read>>

ServerAlone(A) == A /\ UNCHANGED <<vars, netVars>>

-----------------------------------------------------------------------------
RpcNext ==
    \/ ClientSends
    \/ ClientAlone
    \/ \E c \in Conn : ClientOpens(c) \/ ClientCloses(c) \/ Deliver(c)
    \/ \E s \in Socket : Receive(s)
    \/ ServerAlone(\E s \in Socket, r \in Req : MethodEnds(s, r))
    \/ ServerAlone(\E s \in Socket : Closing(s) \/ Closed(s))

RpcSpec == RpcInit /\ [][RpcNext]_rpcAllVars

(* As in WsClient; besides, methods end, messages arrive while there are   *)
(* both ends, a socket that is closing on one side closes on both.         *)
ServerGone(c) == peer[c] # None /\ readyState[peer[c]] # "open"

RpcFairSpec ==
    /\ RpcSpec
    /\ \A c \in Conn : /\ WF_rpcAllVars(ClientCloses(c))
                       /\ WF_rpcAllVars(Deliver(c))
                       /\ WF_rpcAllVars(/\ ServerGone(c) /\ CloseBegins(c)
                                        /\ UNCHANGED <<serverVars, netVars>>)
    /\ \A s \in Socket : WF_rpcAllVars(Receive(s))
    /\ \A s \in Socket, r \in Req :
          WF_rpcAllVars(ServerAlone(MethodEnds(s, r)))

-----------------------------------------------------------------------------
(* Properties.                                                             *)

(* A promise is settled by an answer only when the server has finished the *)
(* call and the client has read its response, not that of another call.    *)
AnswersAreGenuine ==
    \A i \in CallId : call[i] = "answered" =>
        \E s \in Socket :
            /\ <<s, i>> \in received \ (running \cup untold)
            /\ \E k \in 1 .. read[s] : sent[s][k] \in {"result", "error"} \X {i}

(* Across all reconnections no method is executed twice for one call, and  *)
(* none for a call that was refused or rejected while it was queued.       *)
ExecutedAtMostOnce ==
    \A i \in CallId : /\ executed[i] <= 1
                      /\ executed[i] = 1 => i \in Range(wire)

(* A call that was sent is settled, whatever becomes of its connection,    *)
(* with two exceptions that leave it to the close of the connection: its   *)
(* method ended in an error that cannot be told, so the server answered    *)
(* nothing, or a message on that connection was undecodable, and the       *)
(* answer to one has no id that would settle a call.                       *)
CallSettles ==
    \A i \in CallId :
        (i \in Range(wire) /\ call[i] = "pending")
            ~> \/ call[i] # "pending"
               \/ \E s \in Socket : \/ <<s, i>> \in untold
                                    \/ /\ <<s, i>> \in received
                                       /\ <<"error", NoId>> \in Range(sent[s])
=============================================================================
