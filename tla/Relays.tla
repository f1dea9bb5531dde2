------------------------------- MODULE Relays -------------------------------
(***************************************************************************)
(* What the two proxy packages relay, one kind at a time: a proxy server   *)
(* with a CONNECT tunnel, a plain proxy request, a WebSocket upgrade.  The *)
(* parts share no state, so every interleaving of one with itself is       *)
(* looked at, and none of one with another.                                *)
(***************************************************************************)
EXTENDS ProxyServer, ProxyRequest, WsProxy

relaysVars == <<proxyVars, requestVars, wsVars>>

ProxyUsed == \E g \in Gen : httpServer[g] # "none"
RequestUsed == onRequest # "none"
UpgradeUsed == client # "none"

RelaysInit == ProxyInit /\ RequestInit /\ WsInit

RelaysNext ==
    \/ /\ ~RequestUsed /\ ~UpgradeUsed /\ ProxyNext
       /\ UNCHANGED <<requestVars, wsVars>>
    \/ /\ ~ProxyUsed /\ ~UpgradeUsed /\ RequestNext
       /\ UNCHANGED <<proxyVars, wsVars>>
    \/ /\ ~ProxyUsed /\ ~RequestUsed /\ WsNext
       /\ UNCHANGED <<proxyVars, requestVars>>

RelaysSpec ==
    /\ RelaysInit /\ [][RelaysNext]_relaysVars
    /\ ProxyFairness /\ RequestFairness /\ WsFairness
=============================================================================
