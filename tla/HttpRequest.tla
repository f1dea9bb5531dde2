---------------------------- MODULE HttpRequest ----------------------------
(***************************************************************************)
(* One request through packages/http-server: HttpServer.handleRequest, the *)
(* chain HttpErrorHandler (if there is one), HttpCorsHandler, application, *)
(* and HttpContext.sendResponse.                                           *)
(*                                                                         *)
(* The application reads the body, up to MaxReads times and perhaps at the *)
(* same time, then ends in any way a handler can end.  An error that       *)
(* nothing catches, thrown or emitted, ends the process.                   *)
(***************************************************************************)
EXTENDS Integers, Sequences, FiniteSets

CONSTANTS
    MaxChunks,          \* chunks of a request body (bound)
    MaxReads,           \* calls of readRequestBody (bound)
    Limit               \* requestBodyLimitBytes, in chunks

ASSUME BodyAssumption == MaxChunks \in Nat /\ MaxReads \in Nat /\ Limit \in Nat

Read == 1 .. MaxReads

VARIABLES
    handling,           \* where the request stands
    errorHandler,       \* is an HttpErrorHandler first in the chain?
    origin,             \* the Origin header: none, allowed or not
    preflight,          \* is it OPTIONS with Access-Control-Request-Method?
    chunks,             \* chunks of its body
    taken,              \* chunks taken from the request stream
    read,               \* read[r]: the r-th readRequestBody
    got,                \* got[r]: the chunks it returns, or has so far
    overlapped,         \* has a read begun while another ran? (history)
    bodyRead,           \* the read that set _requestBodyRead and requestBody
    error,              \* what the application threw
    ctxBody,            \* ctx.responseBody
    answers,            \* bodies of the heads that were written (history)
    socketGone          \* was the client's socket destroyed?

httpVars == <<handling, errorHandler, origin, preflight, chunks, taken, read,
              got, overlapped, bodyRead, error, ctxBody, answers, socketGone>>
setting == <<errorHandler, origin, preflight, chunks>>
reading == <<taken, read, got, overlapped, bodyRead, socketGone>>
outcome == <<error, ctxBody, answers>>

(* Errors by their status: one that a response can present (100 .. 598), a *)
(* number that writeHead refuses, anything else; "nullish" is no object.   *)
Error == {"none", "declared", "refused", "undeclared", "nullish"}

(* "own": name and message of an error as thrown; "generic": those of a    *)
(* ServerError; "handler": the head was written by the application.        *)
Body == {"none", "app", "stream", "bad", "own", "generic", "handler"}

HttpTypeOK ==
    /\ handling \in {"none", "cors", "app", "sending", "streaming", "done",
                     "crashed"}
    /\ errorHandler \in BOOLEAN /\ preflight \in BOOLEAN
    /\ origin \in {"none", "allowed", "denied"}
    /\ chunks \in 0 .. MaxChunks /\ taken \in 0 .. chunks
    /\ read \in [Read -> {"none", "reading", "done", "failed"}]
    /\ got \in [Read -> Seq(1 .. MaxChunks)]
    /\ overlapped \in BOOLEAN /\ bodyRead \in {0} \cup Read
    /\ error \in Error /\ ctxBody \in Body /\ answers \in Seq(Body)
    /\ socketGone \in BOOLEAN

HttpInit ==
    /\ handling = "none"
    /\ errorHandler = FALSE /\ preflight = FALSE
    /\ origin = "none"
    /\ chunks = 0 /\ taken = 0
    /\ read = [r \in Read |-> "none"]
    /\ got = [r \in Read |-> <<>>]
    /\ overlapped = FALSE /\ bodyRead = 0
    /\ error = "none" /\ ctxBody = "none" /\ answers = <<>>
    /\ socketGone = FALSE

-----------------------------------------------------------------------------
(* Errors.                                                                 *)

(* The catch block of handleRequest answers by itself.  What it writes it  *)
(* takes from the error; a second head, a status that writeHead refuses or *)
(* an error that is no object make it throw, and no one waits for it.      *)
Minimal(err) ==
    IF answers # <<>> \/ err \in {"refused", "nullish"}
    THEN handling' = "crashed" /\ UNCHANGED answers
    ELSE handling' = "done" /\ answers' = <<"own">>

(* Mutant: what the error says is presented, whatever it is.               *)
ThrowPresentsAll(err) ==
    /\ error' = err
    /\ IF errorHandler /\ err # "nullish"
       THEN /\ handling' = "sending"
            /\ ctxBody' = "own"
            /\ UNCHANGED answers
       ELSE /\ Minimal(IF errorHandler THEN "undeclared" ELSE err)
            /\ UNCHANGED ctxBody

(* The chain throws.  HttpErrorHandler puts the error into the context, a  *)
(* ServerError in its place if it has no presentable status; it cannot     *)
(* look at what is no object, and throws a TypeError itself.               *)
Throw(err) ==
    /\ error' = err
    /\ IF errorHandler /\ err # "nullish"
       THEN /\ handling' = "sending"
            /\ ctxBody' = IF err = "declared" THEN "own" ELSE "generic"
            /\ UNCHANGED answers
       ELSE /\ Minimal(IF errorHandler THEN "undeclared" ELSE err)
            /\ UNCHANGED ctxBody

-----------------------------------------------------------------------------
(* Any request comes: handleRequest makes the context and starts the       *)
(* chain; a Host header that makes no URL fails before the chain.          *)
handleRequest ==
    /\ handling = "none"
    /\ errorHandler' \in BOOLEAN /\ preflight' \in BOOLEAN
    /\ origin' \in {"none", "allowed", "denied"}
    /\ chunks' \in 0 .. MaxChunks
    /\ \/ handling' = "cors" /\ UNCHANGED answers
       \/ Minimal("undeclared")
    /\ UNCHANGED <<reading, error, ctxBody>>

(* HttpCorsHandler.handle: an origin that is not allowed is refused with   *)
(* an AccessDeniedError, a preflight answered here, the rest passed on.    *)
cors ==
    /\ handling = "cors"
    /\ IF origin = "denied" THEN Throw("declared")
       ELSE /\ IF origin # "none" /\ preflight
               THEN handling' = "sending" ELSE handling' = "app"
            /\ UNCHANGED outcome
    /\ UNCHANGED <<setting, reading>>

-----------------------------------------------------------------------------
(* readRequestBody.                                                        *)
Reading == {r \in Read : read[r] = "reading"}

(* It returns what was read before, or iterates over the request.  GET,    *)
(* HEAD and DELETE, whose body is never read, are left out.                *)
readRequestBody(r) ==
    /\ handling = "app" /\ read[r] = "none"
    /\ \A q \in Read : q < r => read[q] # "none"
    /\ IF bodyRead # 0
       THEN /\ read' = [read EXCEPT ![r] = "done"]
            /\ got' = [got EXCEPT ![r] = got[bodyRead]]
       ELSE /\ read' = [read EXCEPT ![r] = "reading"]
            /\ UNCHANGED got
    /\ overlapped' = (overlapped \/ (bodyRead = 0 /\ Reading # {}))
    /\ UNCHANGED <<handling, setting, taken, bodyRead, outcome, socketGone>>

(* The next chunk goes to one of the iterations.                           *)
TakesChunk(r) ==
    /\ handling = "app" /\ r \in Reading /\ ~socketGone
    /\ taken < chunks /\ Len(got[r]) < Limit
    /\ taken' = taken + 1
    /\ got' = [got EXCEPT ![r] = Append(@, taken + 1)]
    /\ UNCHANGED <<handling, setting, read, overlapped, bodyRead, outcome,
                   socketGone>>

(* It exceeds the limit: leaving the loop destroys the request, and with   *)
(* it the socket the answer would take.                                    *)
TooLarge(r) ==
    /\ handling = "app" /\ r \in Reading /\ ~socketGone
    /\ taken < chunks /\ Len(got[r]) >= Limit
    /\ taken' = taken + 1
    /\ read' = [read EXCEPT ![r] = "failed"]
    /\ socketGone' = TRUE
    /\ UNCHANGED <<handling, setting, got, overlapped, bodyRead, outcome>>

(* The client goes away.                                                   *)
Aborted ==
    /\ handling = "app" /\ Reading # {} /\ ~socketGone
    /\ socketGone' = TRUE
    /\ UNCHANGED <<handling, setting, taken, read, got, overlapped, bodyRead,
                   outcome>>

(* An iteration over a request that was destroyed fails.                   *)
ReadFails(r) ==
    /\ handling = "app" /\ r \in Reading /\ socketGone
    /\ read' = [read EXCEPT ![r] = "failed"]
    /\ UNCHANGED <<handling, setting, taken, got, overlapped, bodyRead, outcome,
                   socketGone>>

(* Mutant: the body is not kept for the next read.                         *)
ReadEndsForgets(r) ==
    /\ handling = "app" /\ r \in Reading /\ ~socketGone /\ taken = chunks
    /\ \E s \in {"done", "failed"} : read' = [read EXCEPT ![r] = s]
    /\ UNCHANGED <<handling, setting, taken, got, overlapped, bodyRead, outcome,
                   socketGone>>

(* The request ends: the body is converted and kept, or does not parse.    *)
ReadEnds(r) ==
    /\ handling = "app" /\ r \in Reading /\ ~socketGone /\ taken = chunks
    /\ \/ read' = [read EXCEPT ![r] = "done"] /\ bodyRead' = r
       \/ read' = [read EXCEPT ![r] = "failed"] /\ UNCHANGED bodyRead
    /\ UNCHANGED <<handling, setting, taken, got, overlapped, outcome, socketGone>>

-----------------------------------------------------------------------------
(* The application ends when its reads have.                               *)

Threw ==
    /\ handling = "app" /\ Reading = {}
    /\ \E err \in Error \ {"none"} : Throw(err)
    /\ UNCHANGED <<setting, reading>>

(* With a body, without one, with one that cannot be sent (a status or a   *)
(* header that node refuses, no JSON), having caught what its reads threw; *)
(* next() at the end of the chain throws a NotFoundError, as above.        *)
Returned ==
    /\ handling = "app" /\ Reading = {}
    /\ handling' = "sending"
    /\ ctxBody' \in {"none", "app", "stream", "bad"}
    /\ UNCHANGED <<setting, reading, error, answers>>

(* It has written to ctx.response itself.                                  *)
TookOver ==
    /\ handling = "app" /\ Reading = {}
    /\ handling' = "sending"
    /\ answers' = <<"handler">>
    /\ UNCHANGED <<setting, reading, error, ctxBody>>

-----------------------------------------------------------------------------
(* Mutant: sendResponse does not look at headersSent, which the response   *)
(* then finds out.                                                         *)
sendResponseAgain ==
    /\ handling = "sending"
    /\ \/ ctxBody = "bad" /\ Minimal("undeclared")
       \/ /\ ctxBody # "bad"
          /\ answers' = Append(answers, ctxBody)
          /\ handling' = "done"
    /\ UNCHANGED <<setting, reading, error, ctxBody>>

(* sendResponse: once only.  A stream is piped, unless the response must   *)
(* be empty; what cannot be sent falls to the catch block.                 *)
sendResponse ==
    /\ handling = "sending"
    /\ IF answers # <<>> \/ ctxBody = "bad" THEN Minimal("undeclared")
       ELSE \/ /\ answers' = <<ctxBody>>
               /\ handling' = IF ctxBody = "stream" THEN "streaming" ELSE "done"
            \/ answers' = <<"none">> /\ handling' = "done"
    /\ UNCHANGED <<setting, reading, error, ctxBody>>

(* The stream ends the response; its failure has no listener.              *)
Streamed ==
    /\ handling = "streaming"
    /\ handling' \in {"done", "crashed"}
    /\ UNCHANGED <<setting, reading, outcome>>

-----------------------------------------------------------------------------
Chain == cors \/ Threw \/ Returned \/ TookOver \/ sendResponse

HttpNext ==
    \/ handleRequest
    \/ Chain
    \/ \E r \in Read : \/ readRequestBody(r) \/ TakesChunk(r) \/ TooLarge(r)
                       \/ ReadFails(r) \/ ReadEnds(r)
    \/ Aborted
    \/ Streamed

HttpSpec == HttpInit /\ [][HttpNext]_httpVars

-----------------------------------------------------------------------------
(* Properties.                                                             *)

(* The process outlives every request if an HttpErrorHandler is first in   *)
(* the chain, unless the application has written the response itself or    *)
(* the stream that it returned fails; and every other request has exactly  *)
(* one head in the end.                                                    *)
OneAnswer ==
    /\ Len(answers) <= 1
    /\ handling = "done" => Len(answers) = 1
    /\ handling = "crashed" =>
          \/ ~errorHandler /\ error \in {"refused", "nullish"}
          \/ answers \in {<<"handler">>, <<"stream">>}

(* Behind an HttpErrorHandler no error of the application that declares no *)
(* status is shown to the client: its name and message stay in the log.    *)
InternalsHidden ==
    errorHandler /\ error \in {"refused", "undeclared"} => answers # <<"own">>

Has(r, n) == \E k \in DOMAIN got[r] : got[r][k] = n

(* A read returns the whole body, the first and every later one, unless    *)
(* reads overlapped or an earlier one failed.  Even then it returns chunks *)
(* in their order, none that another read has, if it is not all that this  *)
(* one has, too, from the memo; and once a read has returned, every chunk  *)
(* is with some read: two that overlap have the whole body between them,   *)
(* and what is missing after a failure is what the failed read had.        *)
BodyWhole ==
    /\ \A r \in Read : read[r] = "done" =>
          \/ got[r] = [k \in 1 .. chunks |-> k]
          \/ overlapped
          \/ \E q \in 1 .. r - 1 : read[q] = "failed"
    /\ \A r \in Read : \A k, l \in DOMAIN got[r] : k < l => got[r][k] < got[r][l]
    /\ \A q, r \in Read, n \in 1 .. chunks : Has(q, n) /\ Has(r, n) => got[q] = got[r]
    /\ (\E r \in Read : read[r] = "done") =>
          \A n \in 1 .. chunks : \E r \in Read : Has(r, n)
=============================================================================
