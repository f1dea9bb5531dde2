------------------------------ MODULE HttpRpc ------------------------------
(***************************************************************************)
(* One call of a protocol method over HTTP: createHttpClient of            *)
(* packages/protocomm on one side, HttpProtocolHandler of                  *)
(* packages/protocomm-http on the other, the last handler of a server with *)
(* an HttpErrorHandler before it, and a network that may lose a message or *)
(* a part of it, or put another answer in its place.  The two sides may    *)
(* hold different versions of the protocol.                                *)
(***************************************************************************)
EXTENDS Integers, Sequences

VARIABLES
    call,               \* the client's promise: "none", "sent", "result", or
                        \*   the error it rejects with
    answeredBy,         \* whose answer settled it: "server", "gateway" (history)
    server,             \* how far HttpProtocolHandler is
    methodCalls,        \* calls of the method's implementation (history)
    hooks,              \* what onMethod was told (history)
    response            \* what the client is sent; "kept" until there is one
rpcHttpVars == <<call, answeredBy, server, methodCalls, hooks, response>>

(* Whether the status is one of success, and what the body is: the result  *)
(* of a method, JSON with the name and the message of an error, other JSON,*)
(* or no JSON.                                                             *)
Response == [ok : BOOLEAN, body : {"result", "error", "json", "text"}]
Kept == [ok |-> FALSE, body |-> "kept"]
Result == [ok |-> TRUE, body |-> "result"]
NamedError == [ok |-> FALSE, body |-> "error"]

HttpCallInit ==
    /\ call = "none" /\ answeredBy = "none" /\ server = "none"
    /\ methodCalls = 0 /\ hooks = <<>> /\ response = Kept

-----------------------------------------------------------------------------
(* createMethod: GET for a query, POST otherwise, unless the parameters do *)
(* not go into JSON.                                                       *)
CallMethod ==
    /\ call = "none"
    /\ \/ call' = "sent" /\ server' = "arriving"
       \/ call' = "unsent" /\ UNCHANGED server
    /\ UNCHANGED <<answeredBy, methodCalls, hooks, response>>

(* sendRequest: how the promise ends, from a response that is read to its  *)
(* end: JSON is taken for the result whatever it holds.                    *)
Outcome(res) ==
    IF res.ok THEN IF res.body = "text" THEN "UnexpectedResponseError" ELSE "result"
    ELSE IF res.body = "error" THEN "named" ELSE "HttpRequestError"

sendRequest ==
    /\ call = "sent" /\ response # Kept
    /\ call' = Outcome(response) /\ answeredBy' = "server"
    /\ UNCHANGED <<server, methodCalls, hooks, response>>

(* A server in between answers for this one, with anything.                *)
GatewayAnswers ==
    /\ call = "sent"
    /\ \E res \in Response : call' = Outcome(res)
    /\ answeredBy' = "gateway"
    /\ UNCHANGED <<server, methodCalls, hooks, response>>

(* The connection breaks before there is a response: before the request    *)
(* arrives, or later.                                                      *)
FetchFails ==
    /\ call = "sent"
    /\ call' = "RequestFailedError"
    /\ server' \in IF server = "arriving" THEN {"arriving", "lost"} ELSE {server}
    /\ UNCHANGED <<answeredBy, methodCalls, hooks, response>>

(* The connection breaks in the body of a response, the server's or that   *)
(* of another: json() has a catch, text() none.                            *)
BodyFails ==
    /\ call = "sent"
    /\ call' \in {"UnexpectedResponseError", "raw"}
    /\ UNCHANGED <<answeredBy, server, methodCalls, hooks, response>>

-----------------------------------------------------------------------------
(* What is thrown is presented by the HttpErrorHandler, by name.           *)
Throws == server' = "thrown" /\ response' = NamedError

(* Not this handler's path or verb: next(), and at the end of the chain a  *)
(* NotFoundError.  Or an unknown method, before the hook is in reach.      *)
takeCall ==
    /\ server = "arriving"
    /\ \/ server' = "passed" /\ response' = NamedError
       \/ Throws
       \/ server' = "parsing" /\ UNCHANGED response
    /\ UNCHANGED <<call, answeredBy, methodCalls, hooks>>

(* The catch block of handleProtocolMethod.                                *)
Caught == hooks' = Append(hooks, "error") /\ Throws

(* What a method throws is presented as it says: HttpErrorHandler takes    *)
(* any status from 100 on, one of success too, and what has no name.       *)
MethodCaught ==
    /\ hooks' = Append(hooks, "error")
    /\ server' = "thrown"
    /\ response' \in {res \in Response : res.body # "result"}

(* parseParams and decode, and the lookup of the implementation.           *)
parseParams ==
    /\ server = "parsing"
    /\ \/ Caught
       \/ server' = "calling" /\ UNCHANGED <<hooks, response>>
    /\ UNCHANGED <<call, answeredBy, methodCalls>>

methodImpl ==
    /\ server = "calling"
    /\ methodCalls' = methodCalls + 1
    /\ \/ MethodCaught
       \/ server' = "decoding" /\ UNCHANGED <<hooks, response>>
    /\ UNCHANGED <<call, answeredBy>>

(* Mutant: the hook is told before the result is decoded.                  *)
decodeResultLate ==
    /\ server = "decoding"
    /\ \/ hooks' = hooks \o <<"result", "error">> /\ Throws
       \/ /\ server' = "replying" /\ hooks' = Append(hooks, "result")
          /\ UNCHANGED response
    /\ UNCHANGED <<call, answeredBy, methodCalls>>

(* resSchema.decode may throw, after the method has done its work.         *)
(* Otherwise there is an object, and the hook is told.                     *)
decodeResult ==
    /\ server = "decoding"
    /\ \/ Caught
       \/ /\ server' = "replying" /\ hooks' = Append(hooks, "result")
          /\ UNCHANGED response
    /\ UNCHANGED <<call, answeredBy, methodCalls>>

(* Back in handleRequest the object is sent, or does not go into JSON (it  *)
(* has a BigInt or a cycle): the catch block answers 500.                  *)
sendResult ==
    /\ server = "replying"
    /\ \/ server' = "answered" /\ response' = Result
       \/ server' = "unserialised" /\ response' = NamedError
    /\ UNCHANGED <<call, answeredBy, methodCalls, hooks>>

HttpCallNext ==
    \/ CallMethod \/ sendRequest \/ GatewayAnswers \/ FetchFails \/ BodyFails
    \/ takeCall \/ parseParams \/ methodImpl \/ decodeResult \/ sendResult

HttpCallSpec == HttpCallInit /\ [][HttpCallNext]_rpcHttpVars

-----------------------------------------------------------------------------
(* Whatever the network does, one call runs the method once at most, and   *)
(* the hook hears once of every call that the handler took and whose       *)
(* method has ended.  It hears of a result before that is sent, so what is *)
(* sent then is the result, or a 500 when it does not go into JSON; a      *)
(* result is never sent without the hook hearing of it.  A promise that    *)
(* this server's answer resolves has the result, or an error that the      *)
(* method threw with a status of success; one that it rejects by a name    *)
(* was refused, failed, or could not be told its result.  An answer of a   *)
(* gateway cannot be told apart and says nothing.                          *)
HttpCallHonest ==
    /\ methodCalls <= 1 /\ Len(hooks) <= 1
    /\ methodCalls = 1 /\ server # "decoding" => Len(hooks) = 1
    /\ hooks = <<"result">> => methodCalls = 1 /\ response \in {Kept, Result, NamedError}
    /\ response = Result => hooks = <<"result">>
    /\ answeredBy = "server" /\ call = "result" =>
          /\ methodCalls = 1
          /\ \/ hooks = <<"result">> /\ response = Result
             \/ hooks = <<"error">> /\ response.ok
    /\ answeredBy = "server" /\ call = "named" =>
          hooks # <<"result">> \/ server = "unserialised"
=============================================================================
