----------------------------- MODULE RpcServer -----------------------------
(***************************************************************************)
(* The server side of the WebSocket RPC: one WsProtocolHandler and its     *)
(* RpcHandler per connection, which share the protocol implementation and  *)
(* the event bus of the application.                                       *)
(*                                                                         *)
(* processMessage runs to its first await, the call of the method; methods *)
(* of the same connection run concurrently and end in any order, also when *)
(* the connection is gone.                                                 *)
(***************************************************************************)
EXTENDS Integers, Sequences, FiniteSets

CONSTANTS
    Socket,             \* connections clients make
    Req,                \* requests clients send, by their ids
    MaxEvents           \* events the application emits (bound)

NoId == -1              \* the id given to what cannot be decoded

ASSUME NoIdAssumption == NoId \notin Req
ASSUME EventsAssumption == MaxEvents \in Nat

VARIABLES
    readyState,         \* readyState[s]: the WebSocket s
    busListeners,       \* connections that listen to the event bus
    implListeners,      \* connections that listen to the protocol's events
    received,           \* <<s, r>>: request r was received on s (history)
    running,            \* <<s, r>>: its method has not ended
    untold,             \* <<s, r>>: it ended in what cannot be told (history)
    executed,           \* executed[r]: calls of its method (history)
    sent,               \* sent[s]: messages sent on s
    emitted             \* emitted[n]: who is to get the n-th event (history)

serverVars == <<readyState, busListeners, implListeners, received, running,
                untold, executed, sent, emitted>>

Message == ({"result", "error"} \X (Req \cup {NoId}))
              \cup ({"event"} \X (1 .. MaxEvents))

ServerTypeOK ==
    /\ readyState \in [Socket -> {"none", "open", "closing", "closed"}]
    /\ busListeners \in SUBSET Socket
    /\ implListeners \in SUBSET Socket
    /\ received \in SUBSET (Socket \X Req)
    /\ running \in SUBSET received
    /\ untold \in SUBSET (received \ running)
    /\ executed \in [Req -> Nat]
    /\ sent \in [Socket -> Seq(Message)]
    /\ emitted \in Seq(SUBSET Socket) /\ Len(emitted) <= MaxEvents

ServerInit ==
    /\ readyState = [s \in Socket |-> "none"]
    /\ busListeners = {}
    /\ implListeners = {}
    /\ received = {}
    /\ running = {}
    /\ untold = {}
    /\ executed = [r \in Req |-> 0]
    /\ sent = [s \in Socket |-> <<>>]
    /\ emitted = <<>>

-----------------------------------------------------------------------------
(* send(): only an open connection gets the message.                       *)
send(s, msgs) ==
    sent' = [sent EXCEPT ![s] = IF readyState[s] = "open" THEN @ \o msgs ELSE @]

(* init(): the connection listens to the protocol's events and to the bus. *)
Accept(s) ==
    /\ readyState[s] = "none"
    /\ readyState' = [readyState EXCEPT ![s] = "open"]
    /\ implListeners' = implListeners \cup {s}
    /\ busListeners' = busListeners \cup {s}
    /\ UNCHANGED <<received, running, untold, executed, sent, emitted>>

Receives(s, r) ==
    /\ readyState[s] \in {"open", "closing"}
    /\ received' = received \cup {<<s, r>>}

(* The message is not a request by its schema: no id to answer.            *)
Undecodable(s, r) ==
    /\ Receives(s, r)
    /\ send(s, << <<"error", NoId>> >>)
    /\ UNCHANGED <<readyState, busListeners, implListeners, running, untold,
                   executed, emitted>>

(* runMethod fails before the method: no such method, or its parameters    *)
(* do not fit the schema.                                                  *)
NotRun(s, r) ==
    /\ Receives(s, r)
    /\ send(s, << <<"error", r>> >>)
    /\ UNCHANGED <<readyState, busListeners, implListeners, running, untold,
                   executed, emitted>>

(* runMethod calls the method.                                             *)
Run(s, r) ==
    /\ Receives(s, r)
    /\ running' = running \cup {<<s, r>>}
    /\ executed' = [executed EXCEPT ![r] = @ + 1]
    /\ UNCHANGED <<readyState, busListeners, implListeners, untold, sent,
                   emitted>>

(* The end that cannot be told: the method rejects with null or undefined, *)
(* or with details that do not go into JSON, so the catch block throws in  *)
(* its turn; onMessage logs that, and nothing is sent.                     *)
EndsUntold(s, r) ==
    /\ untold' = untold \cup {<<s, r>>}
    /\ UNCHANGED sent

(* Mutant: the response is sent once more from the catch block.            *)
MethodEndsTwice(s, r) ==
    /\ <<s, r>> \in running
    /\ running' = running \ {<<s, r>>}
    /\ \/ send(s, << <<"result", r>>, <<"error", r>> >>) /\ UNCHANGED untold
       \/ EndsUntold(s, r)
    /\ UNCHANGED <<readyState, busListeners, implListeners, received, executed,
                   emitted>>

(* Mutant: every failed method is only logged.                             *)
MethodEndsSilently(s, r) ==
    /\ <<s, r>> \in running
    /\ running' = running \ {<<s, r>>}
    /\ \/ (send(s, <<>>) \/ send(s, << <<"result", r>> >>)) /\ UNCHANGED untold
       \/ EndsUntold(s, r)
    /\ UNCHANGED <<readyState, busListeners, implListeners, received, executed,
                   emitted>>

(* The method ends: its result is sent, or an error when it throws, or     *)
(* when its result does not fit the schema or into JSON; or its error      *)
(* cannot be told.                                                         *)
MethodEnds(s, r) ==
    /\ <<s, r>> \in running
    /\ running' = running \ {<<s, r>>}
    /\ \/ /\ \E kind \in {"result", "error"} : send(s, << <<kind, r>> >>)
          /\ UNCHANGED untold
       \/ EndsUntold(s, r)
    /\ UNCHANGED <<readyState, busListeners, implListeners, received, executed,
                   emitted>>

-----------------------------------------------------------------------------
(* Events.                                                                 *)

(* The next event goes to the connections in `to` that are open.           *)
Broadcast(to) ==
    sent' = [s \in Socket |-> IF s \in to /\ readyState[s] = "open"
                              THEN Append(sent[s], <<"event", Len(emitted')>>)
                              ELSE sent[s]]

OpenSockets == {s \in Socket : readyState[s] = "open"}

(* The application emits on the bus; acceptsEvent of each connection       *)
(* decides.                                                                *)
EmitOnBus ==
    /\ Len(emitted) < MaxEvents
    /\ \E accepting \in SUBSET OpenSockets :
          /\ emitted' = Append(emitted, accepting)
          /\ Broadcast(accepting \cap busListeners)
    /\ UNCHANGED <<readyState, busListeners, implListeners, received, running,
                   untold, executed>>

(* The protocol implementation emits one of its events: for everybody.     *)
EmitByProtocol ==
    /\ Len(emitted) < MaxEvents
    /\ emitted' = Append(emitted, OpenSockets)
    /\ Broadcast(implListeners)
    /\ UNCHANGED <<readyState, busListeners, implListeners, received, running,
                   untold, executed>>

-----------------------------------------------------------------------------
(* The connection leaves OPEN.                                             *)
Closing(s) ==
    /\ readyState[s] = "open"
    /\ readyState' = [readyState EXCEPT ![s] = "closing"]
    /\ UNCHANGED <<busListeners, implListeners, received, running, untold,
                   executed, sent, emitted>>

(* Mutant: removeAll() without the owner.                                  *)
ClosedSilencesAll(s) ==
    /\ readyState[s] \in {"open", "closing"}
    /\ readyState' = [readyState EXCEPT ![s] = "closed"]
    /\ busListeners' = {}
    /\ UNCHANGED <<implListeners, received, running, untold, executed, sent,
                   emitted>>

(* onClose: the listener on the bus goes, those that registerEvents        *)
(* installed on the protocol implementation stay.                          *)
Closed(s) ==
    /\ readyState[s] \in {"open", "closing"}
    /\ readyState' = [readyState EXCEPT ![s] = "closed"]
    /\ busListeners' = busListeners \ {s}
    /\ UNCHANGED <<implListeners, received, running, untold, executed, sent,
                   emitted>>

-----------------------------------------------------------------------------
(* The server alone, with clients that send what they like, each request   *)
(* once.                                                                   *)
Arrives(s, r) ==
    /\ \A q \in Socket : <<q, r>> \notin received
    /\ Undecodable(s, r) \/ NotRun(s, r) \/ Run(s, r)

ServerNext ==
    \/ \E s \in Socket : Accept(s) \/ Closing(s) \/ Closed(s)
    \/ \E s \in Socket, r \in Req : Arrives(s, r) \/ MethodEnds(s, r)
    \/ EmitOnBus
    \/ EmitByProtocol

ServerSpec == ServerInit /\ [][ServerNext]_serverVars

-----------------------------------------------------------------------------
(* Properties.                                                             *)

(* What the client of s is to be told of: its requests that came to an end *)
(* that can be told.                                                       *)
ToldOn(s) == {r \in Req : <<s, r>> \in received \ (running \cup untold)}

(* Places of messages of each kind among those sent on s.                  *)
EventsOn(s) == {k \in DOMAIN sent[s] : sent[s][k][1] = "event"}
ResponsesOn(s) == DOMAIN sent[s] \ EventsOn(s)
ResponsesTo(s, r) == {k \in ResponsesOn(s) : sent[s][k][2] = r}

(* Every request has at most one response, on the connection that brought  *)
(* it and no other, not before its method has ended, and none when that    *)
(* end cannot be told (RpcHandler.ts:37-45 throws again). A connection     *)
(* that is open has exactly one for each request that failed before its    *)
(* method, or whose method has ended otherwise, though a request answered  *)
(* as undecodable has its answer under another id.                         *)
OneResponse ==
    \A s \in Socket :
        /\ \A r \in Req : \A k, l \in ResponsesTo(s, r) :
              k = l /\ r \in ToldOn(s)
        /\ readyState[s] = "open" =>
              Cardinality(ToldOn(s)) = Cardinality(ResponsesOn(s))

(* A connection that is open was sent exactly the events that it accepts   *)
(* of those emitted since it was made, in the order of their emission,     *)
(* whichever of the two ways they took and whoever else left in between.   *)
EventsReachOpen ==
    \A s \in Socket : readyState[s] = "open" =>
        /\ {sent[s][k][2] : k \in EventsOn(s)}
              = {n \in DOMAIN emitted : s \in emitted[n]}
        /\ \A k, l \in EventsOn(s) : k < l => sent[s][k][2] < sent[s][l][2]
=============================================================================
