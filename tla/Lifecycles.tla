----------------------------- MODULE Lifecycles -----------------------------
(***************************************************************************)
(* The parts whose liveness matters, one kind at a time: what the proxies  *)
(* relay (Relays), the HTTP server that starts and shuts down, the         *)
(* ensemble command.  They share no state, so every interleaving of one    *)
(* with itself is looked at, and none of one with another.                 *)
(***************************************************************************)
EXTENDS Relays, HttpServer, Ensemble

lifecycleVars == <<relaysVars, httpServerVars, ensembleVars>>

RelaysUsed == ProxyUsed \/ RequestUsed \/ UpgradeUsed
ServerUsed == \E g \in Srv : lstate[g] # "none"
EnsembleUsed == parent # "resolving"

LifecyclesInit == RelaysInit /\ HttpServerInit /\ EnsembleInit

LifecyclesNext ==
    \/ /\ ~ServerUsed /\ ~EnsembleUsed /\ RelaysNext
       /\ UNCHANGED <<httpServerVars, ensembleVars>>
    \/ /\ ~RelaysUsed /\ ~EnsembleUsed /\ HttpServerNext
       /\ UNCHANGED <<relaysVars, ensembleVars>>
    \/ /\ ~RelaysUsed /\ ~ServerUsed /\ EnsembleNext
       /\ UNCHANGED <<relaysVars, httpServerVars>>

LifecyclesSpec ==
    /\ LifecyclesInit /\ [][LifecyclesNext]_lifecycleVars
    /\ ProxyFairness /\ RequestFairness /\ WsFairness
    /\ HttpServerFairness /\ EnsembleFairness
=============================================================================
