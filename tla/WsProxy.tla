------------------------------ MODULE WsProxy ------------------------------
(***************************************************************************)
(* One upgrade request through packages/ws-proxy: WsProxy.onUpgrade checks *)
(* it, asks processConnection of the subclass for an outbound connection,  *)
(* forwards the request and pipes the two sockets into one another.        *)
(*                                                                         *)
(* Both ends are sockets of node:net.  The HTTP server has taken its own   *)
(* listeners off the client's, the proxy puts some on when it pipes, so an *)
(* error before that, or after a rejection, has none: it ends the process. *)
(* An 'end' comes when all data before it was consumed, paused or not.     *)
(***************************************************************************)
EXTENDS Integers, Sequences

CONSTANTS
    MaxFrames,          \* chunks of data the client sends (bound)
    EarlyEnd            \* may the client end while processConnection runs?

ASSUME FramesAssumption == MaxFrames \in Nat
ASSUME EarlyEndAssumption == EarlyEnd \in BOOLEAN

VARIABLES
    client,             \* the client's socket; "ended": it has sent its FIN
    upgrade,            \* where onUpgradeInternal stands
    outbound,           \* the outbound socket
    head,               \* did the first bytes come with the request?
    frames,             \* chunks the client has sent after that
    buffered,           \* those its socket, paused at first, has not emitted
    headQueued,         \* is the microtask that writes the head queued?
    endEmitted,         \* has the client's socket emitted 'end'?
    written,            \* what was written to the outbound socket
    wsCrashed           \* an 'error' without a listener has ended the process

wsVars == <<client, upgrade, outbound, head, frames, buffered, headQueued,
            endEmitted, written, wsCrashed>>
stream == <<frames, buffered, headQueued, written>>

(* What is written to the outbound socket: the forwarded request, the      *)
(* bytes that came with the client's request, what the client sent later.  *)
ForwardedUpgrade == -1
HeadBytes == 0
Chunk == {ForwardedUpgrade, HeadBytes} \cup (1 .. MaxFrames)

WsTypeOK ==
    /\ client \in {"none", "open", "ended", "gone"}
    /\ upgrade \in {"none", "pending", "piped", "rejected"}
    /\ outbound \in {"none", "open", "gone"}
    /\ head \in BOOLEAN
    /\ frames \in 0 .. MaxFrames
    /\ buffered \in Seq(Chunk)
    /\ headQueued \in BOOLEAN
    /\ endEmitted \in BOOLEAN
    /\ written \in Seq(Chunk)
    /\ wsCrashed \in BOOLEAN

WsInit ==
    /\ client = "none"
    /\ upgrade = "none"
    /\ outbound = "none"
    /\ head = FALSE
    /\ frames = 0
    /\ buffered = <<>>
    /\ headQueued = FALSE
    /\ endEmitted = FALSE
    /\ written = <<>>
    /\ wsCrashed = FALSE

-----------------------------------------------------------------------------
(* Mutant: the head is written by an event of its own.                     *)
TurnOfEvents == TRUE

(* An event is handled when the microtasks of the one before have run.     *)
Turn == ~headQueued

(* The socket is resumed with nobody to read from it, a status line is     *)
(* written and the socket ended: it closes when the client has ended its   *)
(* side too.                                                               *)
reject(socket) ==
    /\ upgrade' = "rejected"
    /\ buffered' = <<>>
    /\ client' = IF endEmitted THEN "gone" ELSE socket

(* assertWebSocketUpgrade throws: no GET, no upgrade or no key is a 400.   *)
NotAnUpgrade == reject("open")

(* onUpgrade: the socket is paused and processConnection called.           *)
onUpgrade ==
    /\ client = "none"
    /\ head' \in BOOLEAN
    /\ \/ NotAnUpgrade
       \/ upgrade' = "pending" /\ client' = "open" /\ UNCHANGED buffered
    /\ UNCHANGED <<outbound, frames, headQueued, endEmitted, written, wsCrashed>>

(* processConnection fails: 502, or the status of its WsProxyError.        *)
onError ==
    /\ upgrade = "pending"
    /\ reject(client)
    /\ UNCHANGED <<outbound, head, frames, headQueued, endEmitted, written,
                   wsCrashed>>

(* processConnection has its connection: runRelay forwards the upgrade,    *)
(* resumes the client's socket, pipes, and has the head written by a       *)
(* microtask.                                                              *)
runRelay ==
    /\ upgrade = "pending"
    /\ upgrade' = "piped"
    /\ outbound' = "open"
    /\ written' = <<ForwardedUpgrade>>
    /\ headQueued' = head
    /\ UNCHANGED <<client, head, frames, buffered, endEmitted, wsCrashed>>

HeadWritten ==
    /\ headQueued
    /\ headQueued' = FALSE
    /\ written' = Append(written, HeadBytes)
    /\ UNCHANGED <<client, upgrade, outbound, head, frames, buffered, endEmitted,
                   wsCrashed>>

-----------------------------------------------------------------------------
(* The client.                                                             *)
ClientSends ==
    /\ client = "open" /\ frames < MaxFrames
    /\ frames' = frames + 1
    /\ buffered' = IF upgrade = "rejected" THEN <<>> ELSE Append(buffered, frames + 1)
    /\ UNCHANGED <<client, upgrade, outbound, head, headQueued, endEmitted,
                   written, wsCrashed>>

ClientEnds ==
    /\ client = "open"
    /\ upgrade = "pending" => EarlyEnd
    /\ client' = "ended"
    /\ UNCHANGED <<upgrade, outbound, head, stream, endEmitted, wsCrashed>>

(* The socket emits its next chunk, which is written to the other one.     *)
Piped ==
    /\ Turn /\ upgrade = "piped" /\ outbound = "open" /\ client # "gone"
    /\ buffered # <<>>
    /\ written' = Append(written, Head(buffered))
    /\ buffered' = Tail(buffered)
    /\ UNCHANGED <<client, upgrade, outbound, head, frames, headQueued,
                   endEmitted, wsCrashed>>

(* Mutant: 'end' is not listened to.                                       *)
EndEventIgnored ==
    /\ Turn /\ client = "ended" /\ ~endEmitted /\ buffered = <<>>
    /\ endEmitted' = TRUE
    /\ client' = IF upgrade = "rejected" THEN "gone" ELSE client
    /\ UNCHANGED <<upgrade, outbound, head, stream, wsCrashed>>

(* 'end' on the client's socket: onLeftGone destroys the outbound socket.  *)
(* Before pipeBidirectional nobody listens, and a socket whose other       *)
(* direction is still open does not close by itself.                       *)
EndEvent ==
    /\ Turn /\ client = "ended" /\ ~endEmitted /\ buffered = <<>>
    /\ endEmitted' = TRUE
    /\ client' = IF upgrade = "rejected" THEN "gone" ELSE client
    /\ outbound' = IF outbound = "open" THEN "gone" ELSE outbound
    /\ UNCHANGED <<upgrade, head, stream, wsCrashed>>

(* The client's socket fails: onLeftError destroys the outbound socket; an *)
(* error without a listener is the end of the process and its sockets.     *)
ClientError ==
    /\ Turn /\ client \in {"open", "ended"}
    /\ client' = "gone"
    /\ outbound' = IF outbound = "open" THEN "gone" ELSE outbound
    /\ wsCrashed' = (upgrade # "piped")
    /\ UNCHANGED <<upgrade, head, stream, endEmitted>>

-----------------------------------------------------------------------------
(* The remote host ends, closes or fails: onRightGone, onRightError.       *)
OutboundGone ==
    /\ Turn /\ outbound = "open"
    /\ outbound' = "gone"
    /\ client' = "gone"
    /\ UNCHANGED <<upgrade, head, stream, endEmitted, wsCrashed>>

(* 'close' of an outbound socket that onLeftGone destroyed.                *)
OutboundClosed ==
    /\ Turn /\ outbound = "gone" /\ client # "gone"
    /\ client' = "gone"
    /\ UNCHANGED <<upgrade, outbound, head, stream, endEmitted, wsCrashed>>

(* processConnection ends in one way or the other.                         *)
ProcessConnection == onError \/ runRelay

Events == \/ ProcessConnection \/ HeadWritten \/ ClientSends \/ ClientEnds
          \/ Piped \/ EndEvent \/ ClientError \/ OutboundGone \/ OutboundClosed

WsNext == onUpgrade \/ (~wsCrashed /\ Events)

WsSpec == WsInit /\ [][WsNext]_wsVars

(* processConnection ends, the loop runs microtasks and delivers events,   *)
(* and a client that was answered with an error and the end of the stream  *)
(* ends its own side.                                                      *)
WsFairness ==
    /\ WF_wsVars(~wsCrashed /\ ProcessConnection)
    /\ WF_wsVars(~wsCrashed /\ HeadWritten)
    /\ WF_wsVars(~wsCrashed /\ Piped)
    /\ WF_wsVars(~wsCrashed /\ EndEvent)
    /\ WF_wsVars(~wsCrashed /\ OutboundClosed)
    /\ WF_wsVars(~wsCrashed /\ upgrade = "rejected" /\ ClientEnds)

-----------------------------------------------------------------------------
(* Properties.                                                             *)

(* The upgrade implements Relay: at most one outbound connection, neither  *)
(* end outlives the other.                                                 *)
WsRelay == INSTANCE Relay WITH
    left <- IF client = "ended" THEN "gone" ELSE client,
    right <- outbound

WsIsRelay == WsRelay!Safe /\ WsRelay!Served /\ WsRelay!Follows

(* The chunks of the client, in its order.                                 *)
FromClient(n) == [k \in 1 .. n |-> k]
Preamble ==
    IF head THEN <<ForwardedUpgrade, HeadBytes>> ELSE <<ForwardedUpgrade>>

(* The outbound socket is written the upgrade request, then the bytes that *)
(* came with it, then what the client sent, in its order and without a gap *)
(* but for what its socket still holds, however long processConnection     *)
(* took, whatever arrived meanwhile, although the head is written later    *)
(* than the sockets are piped; and nothing is written before.              *)
StreamIntact ==
    IF upgrade = "piped"
    THEN headQueued \/ written \o buffered = Preamble \o FromClient(frames)
    ELSE written = <<>>

(* "destroys outbound when the client disconnects" (ws-proxy.test.ts): no  *)
(* outbound socket is open for a client whose socket has emitted 'end'.    *)
OutboundFollowsClient == endEmitted => outbound # "open"
=============================================================================
