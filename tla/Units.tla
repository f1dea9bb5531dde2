------------------------------- MODULE Units -------------------------------
(***************************************************************************)
(* The parts of the repository that share no state with another part, one  *)
(* at a time: the server side of RPC over WebSocket, the call of a method  *)
(* over HTTP, an HTTP request and its routing, the certificates of the     *)
(* TLS-bumping proxy, the start order of an ensemble, the environment of   *)
(* an application, the methodology files.  The first step of a part shuts  *)
(* the others out, so the states of the parts add up and do not multiply.  *)
(***************************************************************************)
EXTENDS RpcServer, HttpRpc, HttpRequest, Router, CertStore, StartOrder, Env, Methodology

unitVars == <<serverVars, rpcHttpVars, httpVars, routerVars,
              certVars, orderVars, envVars, methodologyVars>>

(* The parts that have taken a step.                                       *)
InUse ==
    {p \in {"RPC", "call", "request", "routes", "certificates",
             "order", "environment", "files"} :
        CASE p = "RPC" -> emitted # <<>> \/ \E s \in Socket : readyState[s] # "none"
          [] p = "call" -> call # "none"
          [] p = "request" -> handling # "none"
          [] p = "routes" -> routing # "none"
          [] p = "certificates" -> now > 0 \/ cache # <<>>
          [] p = "order" -> walk # "none"
          [] p = "environment" -> app # "none"
          [] p = "files" -> project # "none"}

Alone(p) == InUse \subseteq {p}

UnitsInit ==
    /\ ServerInit /\ HttpCallInit /\ HttpInit /\ RouterInit
    /\ CertInit /\ OrderInit /\ EnvInit /\ MethodologyInit

UnitsNext ==
    \/ /\ Alone("RPC") /\ ServerNext
       /\ UNCHANGED <<rpcHttpVars, httpVars, routerVars, certVars,
                      orderVars, envVars, methodologyVars>>
    \/ /\ Alone("call") /\ HttpCallNext
       /\ UNCHANGED <<serverVars, httpVars, routerVars, certVars,
                      orderVars, envVars, methodologyVars>>
    \/ /\ Alone("request") /\ HttpNext
       /\ UNCHANGED <<serverVars, rpcHttpVars, routerVars, certVars,
                      orderVars, envVars, methodologyVars>>
    \/ /\ Alone("routes") /\ RouterNext
       /\ UNCHANGED <<serverVars, rpcHttpVars, httpVars, certVars,
                      orderVars, envVars, methodologyVars>>
    \/ /\ Alone("certificates") /\ CertNext
       /\ UNCHANGED <<serverVars, rpcHttpVars, httpVars, routerVars,
                      orderVars, envVars, methodologyVars>>
    \/ /\ Alone("order") /\ OrderNext
       /\ UNCHANGED <<serverVars, rpcHttpVars, httpVars, routerVars,
                      certVars, envVars, methodologyVars>>
    \/ /\ Alone("environment") /\ EnvNext
       /\ UNCHANGED <<serverVars, rpcHttpVars, httpVars, routerVars,
                      certVars, orderVars, methodologyVars>>
    \/ /\ Alone("files") /\ MethodologyNext
       /\ UNCHANGED <<serverVars, rpcHttpVars, httpVars, routerVars,
                      certVars, orderVars, envVars>>

UnitsSpec == UnitsInit /\ [][UnitsNext]_unitVars
=============================================================================
