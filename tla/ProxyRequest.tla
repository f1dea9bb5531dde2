---------------------------- MODULE ProxyRequest ----------------------------
(***************************************************************************)
(* One plain HTTP request through BaseProxy.onRequest of                   *)
(* packages/http-proxy: it is forwarded to the host of its URL or to an    *)
(* upstream proxy, the response is piped back.                             *)
(*                                                                         *)
(* pipeline() learns of an end that is gone and destroys the other in a    *)
(* step of its own.  connectTimeout is given to the forwarded request as   *)
(* its `timeout`, which only emits an event: nobody listens, so a remote   *)
(* host may stay silent for ever.                                          *)
(***************************************************************************)
EXTENDS Integers, Sequences

VARIABLES
    exchange,           \* the response, as the client gets it
    onRequest,          \* where onRequest stands
    forward,            \* the forwarded request and its response
    bodySent,           \* has the request's body been piped to the end?
    heads               \* whose heads were written to the client (history)

requestVars == <<exchange, onRequest, forward, bodySent, heads>>

(* exchange: "waiting" for a head, "partial" once there is one, "complete" *)
(*     when its end was written, "cut" when the socket is gone before that *)
(* forward: "pending" without response, "streaming", "ended" when all of   *)
(*     it was read, "failed", "destroyed" by the proxy, "unread" when its  *)
(*     response was given up without being destroyed                       *)
RequestTypeOK ==
    /\ exchange \in {"none", "waiting", "partial", "complete", "cut"}
    /\ onRequest \in {"none", "authenticating", "forwarding", "piping", "over"}
    /\ forward \in {"none", "pending", "streaming", "ended", "failed",
                    "destroyed", "unread"}
    /\ bodySent \in BOOLEAN
    /\ heads \in Seq({"own", "remote"}) /\ Len(heads) <= 2

RequestInit ==
    /\ exchange = "none"
    /\ onRequest = "none"
    /\ forward = "none"
    /\ bodySent = FALSE
    /\ heads = <<>>

-----------------------------------------------------------------------------
Request ==
    /\ onRequest = "none"
    /\ onRequest' = "authenticating"
    /\ exchange' = "waiting"
    /\ UNCHANGED <<forward, bodySent, heads>>

(* The catch block: the head of an error unless there is one, then the end *)
(* of the response; both come to nothing on a socket that is gone.         *)
Catch ==
    /\ onRequest' = "over"
    /\ heads' = IF exchange = "waiting" THEN Append(heads, "own") ELSE heads
    /\ exchange' = IF exchange = "cut" THEN "cut" ELSE "complete"

(* authenticate() or matchRoute() throws, or the URL has no host.          *)
Refused ==
    /\ onRequest = "authenticating"
    /\ Catch
    /\ UNCHANGED <<forward, bodySent>>

(* createProxyHttpRequest, createDirectHttpRequest; a request that the     *)
(* client has aborted meanwhile fails in the pipeline, below.              *)
Forwarded ==
    /\ onRequest = "authenticating"
    /\ onRequest' = "forwarding"
    /\ forward' = "pending"
    /\ UNCHANGED <<exchange, bodySent, heads>>

(* pipeline(req, fwdReq) has sent the body.                                *)
BodySent ==
    /\ forward \in {"pending", "streaming"} /\ exchange # "cut" /\ ~bodySent
    /\ bodySent' = TRUE
    /\ UNCHANGED <<exchange, onRequest, forward, heads>>

(* The forwarded request fails before its response.                        *)
ForwardFails ==
    /\ onRequest = "forwarding" /\ forward = "pending"
    /\ forward' = "failed"
    /\ Catch
    /\ UNCHANGED bodySent

(* The response comes: its head is written and its body piped.             *)
Responds ==
    /\ onRequest = "forwarding" /\ forward = "pending"
    /\ onRequest' = "piping"
    /\ forward' = "streaming"
    /\ IF exchange = "waiting"
       THEN exchange' = "partial" /\ heads' = Append(heads, "remote")
       ELSE UNCHANGED <<exchange, heads>>
    /\ UNCHANGED bodySent

(* Its status or a header is none that writeHead accepts: the client gets  *)
(* a 502, the response is not read and not destroyed either.               *)
RespondsMalformed ==
    /\ onRequest = "forwarding" /\ forward = "pending"
    /\ forward' = "unread"
    /\ Catch
    /\ UNCHANGED bodySent

(* The body of the response ends, or breaks off.                           *)
BodyEnds ==
    /\ onRequest = "piping" /\ forward = "streaming" /\ exchange = "partial"
    /\ forward' = "ended"
    /\ exchange' = "complete"
    /\ onRequest' = "over"
    /\ UNCHANGED <<bodySent, heads>>

BodyBreaks ==
    /\ forward = "streaming"
    /\ forward' = "failed"
    /\ UNCHANGED <<exchange, onRequest, bodySent, heads>>

ClientAborts ==
    /\ exchange \in {"waiting", "partial"}
    /\ exchange' = "cut"
    /\ UNCHANGED <<onRequest, forward, bodySent, heads>>

(* Mutant: pipe() in place of pipeline(): a response that breaks off is    *)
(* ended by the catch block.                                               *)
ResponsePipelineFailsPiped ==
    /\ onRequest = "piping"
    /\ exchange = "cut" \/ forward # "streaming"
    /\ forward' = IF forward = "streaming" THEN "destroyed" ELSE forward
    /\ Catch
    /\ UNCHANGED bodySent

(* Mutant: an aborted client does not end the forwarded request.           *)
ResponsePipelineFailsLate ==
    /\ onRequest = "piping"
    /\ exchange # "cut" /\ forward # "streaming"
    /\ exchange' = "cut"
    /\ onRequest' = "over"
    /\ UNCHANGED <<forward, bodySent, heads>>

(* pipeline(fwdRes, res): when one is gone the other is destroyed, so the  *)
(* end that the catch block writes does not reach the client.              *)
ResponsePipelineFails ==
    /\ onRequest = "piping"
    /\ exchange = "cut" \/ forward # "streaming"
    /\ forward' = IF forward = "streaming" THEN "destroyed" ELSE forward
    /\ exchange' = "cut"
    /\ onRequest' = "over"
    /\ UNCHANGED <<bodySent, heads>>

(* pipeline(req, fwdReq): the client is gone before its body was sent.     *)
RequestPipelineFails ==
    /\ forward \in {"pending", "streaming"}
    /\ exchange = "cut" /\ ~bodySent
    /\ forward' = "destroyed"
    /\ IF onRequest = "forwarding" THEN Catch
                                   ELSE UNCHANGED <<exchange, onRequest, heads>>
    /\ UNCHANGED bodySent

-----------------------------------------------------------------------------
RemoteAnswers == ForwardFails \/ Responds \/ RespondsMalformed
PipelineEnds == ResponsePipelineFails \/ RequestPipelineFails

RequestNext ==
    \/ Request \/ Refused \/ Forwarded \/ BodySent \/ RemoteAnswers
    \/ BodyEnds \/ BodyBreaks \/ ClientAborts \/ PipelineEnds

RequestSpec == RequestInit /\ [][RequestNext]_requestVars

(* authenticate() ends, pipelines learn of what is gone; nothing is asked  *)
(* of the remote host or of the client.                                    *)
RequestFairness ==
    /\ WF_requestVars(Refused \/ Forwarded)
    /\ WF_requestVars(ResponsePipelineFails)
    /\ WF_requestVars(RequestPipelineFails)

-----------------------------------------------------------------------------
(* Properties.                                                             *)

(* What the client reads is honest: at most one head, and the end of a     *)
(* response only if it is the proxy's own error or the remote host's       *)
(* response to its last byte, never one that broke off.                    *)
HonestResponse ==
    /\ Len(heads) <= 1
    /\ exchange = "complete" => /\ Len(heads) = 1
                                /\ heads[1] = "remote" => forward = "ended"

(* A client that is gone does not leave its forwarded request behind, if   *)
(* the response has begun or the request is not complete.  A request that  *)
(* waits for its response is left to the remote host.                      *)
ForwardReleased ==
    exchange = "cut" /\ (forward = "streaming" \/ (forward = "pending" /\ ~bodySent))
        ~> forward \notin {"pending", "streaming"}
=============================================================================
