------------------------------ MODULE MCUnits ------------------------------
(* The TLC instance of Units: three apps in config order, the hostnames of *)
(* a domain with two levels below it and an address, and seven routes.     *)
EXTENDS Units

CONSTANTS a, b, c
ThreeApps == <<a, b, c>>

OneAddress == {<<"1", "2", "3", "4">>}
FourHosts == {<<"a">>, <<"b", "a">>, <<"c", "b", "a">>} \cup OneAddress

Endpoint(m, p) == [role |-> "endpoint", method |-> m, pattern |-> p]
Guard(p) == [role |-> "middleware", method |-> "*", pattern |-> p]

(* With the default path, "*", on either side.                             *)
SevenRoutes ==
    {Endpoint("GET", <<"/", "a">>), Endpoint("GET", <<"/", "x">>),
     Endpoint("*", <<"w">>), Endpoint("POST", <<"/", "x", "/", "w", "/">>),
     Endpoint("GET", <<"w", "/", "w">>), Guard(<<"w">>), Guard(<<"/", "a">>)}
=============================================================================
