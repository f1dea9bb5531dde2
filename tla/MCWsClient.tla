----------------------------- MODULE MCWsClient -----------------------------
(***************************************************************************)
(* TLC instances of WsClient.  The chains are interchangeable: symmetry is *)
(* used in the runs without liveness properties.                           *)
(***************************************************************************)
EXTENDS WsClient, TLC

Both == {TRUE, FALSE}
Yes == {TRUE}

Symmetry == Permutations(Conn)
=============================================================================
