------------------------------- MODULE MCRpc -------------------------------
(* TLC instance of Rpc. *)
EXTENDS Rpc

Both == {TRUE, FALSE}
Yes == {TRUE}
TwoCalls == 1 .. 2
=============================================================================
