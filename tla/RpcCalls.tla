------------------------------ MODULE RpcCalls ------------------------------
(***************************************************************************)
(* What a client of packages/protocomm promises its caller, whatever       *)
(* happens to the transport: every call is settled at most once, an answer *)
(* settles only a call that was transmitted, a call is transmitted at most *)
(* once and never after it was settled.                                    *)
(*                                                                         *)
(* The specification knows nothing of sockets, queues or reconnection;     *)
(* WsClient implements it (see the PROPERTY CallsImplemented there).       *)
(***************************************************************************)
EXTENDS Integers, Sequences, Functions

CONSTANT CallId         \* the calls an application may make

VARIABLES
    call,               \* call[i]: what the caller's promise of call i knows
    wire                \* the calls transmitted so far, in transmission order

vars == <<call, wire>>

(* "none"     not issued yet                                               *)
(* "pending"  the promise is not settled                                   *)
(* "answered" settled by the response of the server (result or error)      *)
(* "closed"   rejected because the client or its connection closed         *)
(* "unsent"   rejected at once, the transport refused the request          *)
CallStatus == {"none", "pending", "answered", "closed", "unsent"}

TypeOK ==
    /\ call \in [CallId -> CallStatus]
    /\ wire \in Seq(CallId)

Init ==
    /\ call = [i \in CallId |-> "none"]
    /\ wire = <<>>

(* wire grows at its end, by calls that are pending once the step is done  *)
(* and that were never transmitted before.                                 *)
WireExtended ==
    /\ wire' \in Seq(CallId)
    /\ Len(wire') >= Len(wire)
    /\ \A k \in 1 .. Len(wire) : wire'[k] = wire[k]
    /\ \A k \in Len(wire) + 1 .. Len(wire') :
          /\ call'[wire'[k]] = "pending"
          /\ \A l \in 1 .. k - 1 : wire'[l] # wire'[k]

(* The caller invokes a method: the promise stays pending or is rejected.  *)
Issue(i) ==
    /\ call[i] = "none"
    /\ \E s \in {"pending", "unsent"} : call' = [call EXCEPT ![i] = s]
    /\ WireExtended

(* Calls that were waiting are transmitted.                                *)
Transmit ==
    /\ call' = call
    /\ WireExtended

(* The server's response settles a transmitted call.                       *)
Answer(i) ==
    /\ call[i] = "pending"
    /\ i \in Range(wire)
    /\ call' = [call EXCEPT ![i] = "answered"]
    /\ wire' = wire

(* The transport is gone: some pending calls are rejected.                 *)
Abort(S) ==
    /\ \A i \in S : call[i] = "pending"
    /\ call' = [i \in CallId |-> IF i \in S THEN "closed" ELSE call[i]]
    /\ wire' = wire

Next ==
    \/ \E i \in CallId : Issue(i) \/ Answer(i)
    \/ Transmit
    \/ \E S \in SUBSET CallId : Abort(S)

Spec == Init /\ [][Next]_vars
=============================================================================
