------------------------- MODULE HttpRequestProofs -------------------------
(***************************************************************************)
(* Proofs about HttpRequest, for bodies of any size, any number of reads   *)
(* and any limit.                                                          *)
(*                                                                         *)
(* How far the request has come says what may have been answered (Answer). *)
(* Which read has which chunks (Bodies) is inductive because reads begin   *)
(* in order and, unless they overlap, one iterates at a time: a read that  *)
(* begins on an untouched request has all of it before it, and one that    *)
(* begins later finds the body that was kept.                              *)
(***************************************************************************)
EXTENDS HttpRequest, TLAPS

Answer ==
    /\ handling \in {"none", "cors", "app", "sending", "streaming", "done",
                     "crashed"}
    /\ errorHandler \in BOOLEAN
    /\ handling \in {"none", "cors", "app"} =>
          error = "none" /\ ctxBody = "none" /\ answers = <<>>
    /\ handling = "sending" =>
          /\ answers \in {<<>>, <<"handler">>}
          /\ errorHandler /\ error \in {"refused", "undeclared"} =>
                ctxBody = "generic"
    /\ handling = "streaming" => answers = <<"stream">>
    /\ handling = "done" => \E b \in Body : answers = <<b>>
    /\ handling = "crashed" =>
          \/ ~errorHandler /\ error \in {"refused", "nullish"}
             /\ answers = <<>>
          \/ answers \in {<<"handler">>, <<"stream">>}
    /\ ctxBody \in Body
    /\ InternalsHidden

(* The first n chunks.                                                     *)
Chunks(n) == [k \in 1 .. n |-> k]

(* Nothing has happened that may cost the r-th read a chunk.               *)
Clean(r) == ~overlapped /\ \A q \in 1 .. r - 1 : read[q] # "failed"

Bodies ==
    /\ chunks \in Nat /\ taken \in Nat
    /\ overlapped \in BOOLEAN /\ bodyRead \in {0} \cup Read
    /\ read \in [Read -> {"none", "reading", "done", "failed"}]
    /\ got \in [Read -> Seq(Nat)]
    /\ handling \in {"none", "cors"} => \A r \in Read : read[r] = "none"
    /\ (\A r \in Read : read[r] = "none") => taken = 0
    /\ \A q, r \in Read : q < r /\ read[q] = "none" => read[r] = "none"
    /\ bodyRead # 0 => read[bodyRead] = "done"
    /\ bodyRead = 0 => \A r \in Read : read[r] # "done"
    /\ ~overlapped =>
          /\ \A q, r \in Reading : q = r
          /\ bodyRead # 0 => Reading = {}
    /\ \A r \in Read : Clean(r) =>
          /\ read[r] = "none" => got[r] = <<>>
          /\ read[r] = "reading" => got[r] = Chunks(taken)
          /\ read[r] = "done" => got[r] = Chunks(chunks)

(* Reads are numbered from 1.                                              *)
LEMMA ReadFacts ==
    \A r \in Read : r \in Nat /\ r # 0 /\ \A q \in 1 .. r - 1 : q \in Read
BY BodyAssumption DEF Read

(* One body, one answer.                                                   *)
LEMMA BodyFacts == <<>> # <<"own">> /\ \A b, c \in Body : <<b>> = <<c>> => b = c
OBVIOUS

-----------------------------------------------------------------------------
(* What is answered.                                                       *)

LEMMA AnswerInit == HttpInit => Answer
BY DEF HttpInit, Answer, Body, InternalsHidden

(* An error that the chain throws before anything was answered.            *)
LEMMA ThrowAnswers ==
    ASSUME Answer, handling \in {"cors", "app"}, NEW err \in Error \ {"none"},
           Throw(err), UNCHANGED errorHandler
    PROVE  Answer'
<1>1. answers = <<>> /\ ctxBody = "none" /\ errorHandler \in BOOLEAN
    BY DEF Answer
<1>2. CASE errorHandler /\ err # "nullish"
    BY <1>1, <1>2 DEF Throw, Answer, Error, Body, InternalsHidden
<1>3. CASE errorHandler /\ err = "nullish"
    <2>1. handling' = "done" /\ answers' = <<"own">> /\ error' = "nullish"
          /\ ctxBody' = "none"
        BY <1>1, <1>3 DEF Throw, Minimal
    <2> QED
        BY <1>1, <2>1 DEF Answer, Body, InternalsHidden
<1>4. CASE ~errorHandler
    <2>1. /\ \/ handling' = "done" /\ answers' = <<"own">>
             \/ handling' = "crashed" /\ answers' = <<>>
                /\ err \in {"refused", "nullish"}
          /\ error' = err /\ ctxBody' = "none"
        BY <1>1, <1>4 DEF Throw, Minimal
    <2> QED
        BY <1>1, <1>4, <2>1 DEF Answer, Body, InternalsHidden
<1> QED
    BY <1>1, <1>2, <1>3, <1>4

(* A response that is sent, or handed to the catch block instead.          *)
LEMMA SendAnswers ==
    ASSUME Answer, sendResponse
    PROVE  Answer'
<1>1. UNCHANGED <<errorHandler, error, ctxBody>> /\ handling = "sending"
      /\ answers \in {<<>>, <<"handler">>} /\ ctxBody \in Body
    BY DEF sendResponse, setting, reading, Answer
<1>2. CASE answers # <<>>
    <2>1. handling' = "crashed" /\ answers' = <<"handler">>
        BY <1>1, <1>2 DEF sendResponse, Minimal
    <2> QED
        BY <1>1, <2>1, BodyFacts DEF Answer, InternalsHidden, Body
<1>3. CASE answers = <<>> /\ ctxBody = "bad"
    <2>1. handling' = "done" /\ answers' = <<"own">>
        BY <1>1, <1>3 DEF sendResponse, Minimal
    <2>2. ~(errorHandler /\ error \in {"refused", "undeclared"})
        BY <1>1, <1>3 DEF Answer
    <2> QED
        BY <1>1, <2>1, <2>2 DEF Answer, InternalsHidden, Body
<1>4. CASE answers = <<>> /\ ctxBody # "bad"
    <2>1. PICK b \in {ctxBody, "none"} :
            /\ answers' = <<b>>
            /\ handling' \in {"done", "streaming"}
            /\ handling' = "streaming" => b = "stream"
        BY <1>1, <1>4 DEF sendResponse
    <2>2. b = "own" => ~(errorHandler /\ error \in {"refused", "undeclared"})
        BY <1>1, <2>1 DEF Answer
    <2>3. b \in Body /\ (answers' = <<"own">> => b = "own")
        BY <1>1, <2>1 DEF Body
    <2> QED
        BY <1>1, <2>1, <2>2, <2>3 DEF Answer, InternalsHidden
<1> QED
    BY <1>1, <1>2, <1>3, <1>4

(* Every step keeps what is known of the answer.                           *)
LEMMA AnswerStep == Answer /\ [HttpNext]_httpVars => Answer'
<1> SUFFICES ASSUME Answer, [HttpNext]_httpVars PROVE Answer'
    OBVIOUS
<1>1. CASE handleRequest
    BY <1>1 DEF handleRequest, Minimal, Answer, Body, InternalsHidden
<1>2. CASE cors
    <2>1. CASE origin = "denied"
        BY <1>2, <2>1, ThrowAnswers DEF cors, setting, Error
    <2>2. CASE origin # "denied"
        BY <1>2, <2>2 DEF cors, setting, outcome, Answer, InternalsHidden
    <2> QED
        BY <2>1, <2>2
<1>3. CASE Threw
    BY <1>3, ThrowAnswers DEF Threw, setting
<1>4. CASE Returned
    BY <1>4 DEF Returned, setting, Answer, Body, InternalsHidden
<1>5. CASE TookOver
    BY <1>5 DEF TookOver, setting, Answer, InternalsHidden
<1>6. CASE sendResponse
    BY <1>6, SendAnswers
<1>7. CASE Streamed
    BY <1>7 DEF Streamed, setting, outcome, Answer, InternalsHidden, Body
<1>8. CASE Aborted \/ UNCHANGED httpVars
           \/ \E r \in Read : \/ readRequestBody(r) \/ TakesChunk(r) \/ TooLarge(r)
                              \/ ReadFails(r) \/ ReadEnds(r)
    <2>1. UNCHANGED <<handling, errorHandler, error, ctxBody, answers>>
        BY <1>8 DEF Aborted, readRequestBody, TakesChunk, TooLarge, ReadFails,
                    ReadEnds, httpVars, setting, outcome
    <2> QED
        BY <2>1 DEF Answer, InternalsHidden
<1> QED
    BY <1>1, <1>2, <1>3, <1>4, <1>5, <1>6, <1>7, <1>8 DEF HttpNext, Chain

(* HttpServer.handleRequest, HttpErrorHandler.handle: one head is written, *)
(* and the process survives what a handler throws.                         *)
THEOREM AnsweredOnce == HttpSpec => []OneAnswer
<1>1. ASSUME Answer PROVE OneAnswer
    <2>1. answers = <<>> \/ \E b \in Body : answers = <<b>>
        <3>1. "handler" \in Body /\ "stream" \in Body
            BY DEF Body
        <3>2. \/ answers \in {<<>>, <<"handler">>, <<"stream">>}
              \/ \E b \in Body : answers = <<b>>
            BY <1>1 DEF Answer
        <3> QED
            BY <3>1, <3>2
    <2>2. Len(answers) <= 1
        <3>1. CASE answers = <<>>
            BY <3>1
        <3>2. ASSUME NEW b \in Body, answers = <<b>> PROVE Len(answers) <= 1
            BY <3>2
        <3> QED
            BY <2>1, <3>1, <3>2
    <2>3. handling = "done" => Len(answers) = 1
        BY <1>1 DEF Answer
    <2> QED
        BY <1>1, <2>2, <2>3 DEF Answer, OneAnswer
<1> QED
    BY <1>1, AnswerInit, AnswerStep, PTL DEF HttpSpec

(* HttpErrorHandler.handle: an error without a status stays inside.        *)
THEOREM InternalsKept == HttpSpec => []InternalsHidden
<1>1. Answer => InternalsHidden
    BY DEF Answer
<1> QED
    BY <1>1, AnswerInit, AnswerStep, PTL DEF HttpSpec

-----------------------------------------------------------------------------
(* What is read.                                                           *)

LEMMA ChunksGrow ==
    ASSUME NEW n \in Nat
    PROVE  /\ Chunks(n) \in Seq(Nat) /\ Len(Chunks(n)) = n
           /\ Append(Chunks(n), n + 1) = Chunks(n + 1)
<1>1. Chunks(n) \in Seq(Nat) /\ Len(Chunks(n)) = n
    BY DEF Chunks
<1>2. Append(Chunks(n), n + 1) = Chunks(n + 1)
    BY <1>1 DEF Chunks
<1> QED
    BY <1>1, <1>2

(* Nothing is read.                                                        *)
LEMMA BodiesInit == HttpInit => Bodies
<1> SUFFICES ASSUME HttpInit PROVE Bodies
    OBVIOUS
<1>1. got \in [Read -> Seq(Nat)] /\ taken = 0 /\ chunks = 0 /\ bodyRead = 0
      /\ read \in [Read -> {"none", "reading", "done", "failed"}]
      /\ overlapped = FALSE
    BY DEF HttpInit
<1>2. \A r \in Read : read[r] = "none" /\ got[r] = <<>>
    BY DEF HttpInit
<1>3. Reading = {}
    BY <1>2 DEF Reading
<1> QED
    BY <1>1, <1>2, <1>3 DEF Bodies

(* Steps that leave the reads alone.                                       *)
LEMMA BodiesFrame ==
    ASSUME Bodies, UNCHANGED <<taken, read, got, overlapped, bodyRead>>,
           \/ handling' \notin {"none", "cors"} /\ chunks' = chunks
           \/ handling \in {"none", "cors"} /\ chunks' \in Nat
    PROVE  Bodies'
<1>1. Reading' = Reading /\ \A r \in Read : Clean(r)' = Clean(r)
    BY DEF Reading, Clean
<1>2. \A r \in Read : read[r] = "done" => chunks' = chunks
    BY DEF Bodies
<1> QED
    BY <1>1, <1>2 DEF Bodies, Clean, Reading

(* One read of an unread request, or of one that was read.                 *)
LEMMA ReadBegins ==
    ASSUME Bodies, NEW r \in Read, readRequestBody(r)
    PROVE  Bodies'
<1> USE ReadFacts
<1>1. /\ read[r] = "none" /\ \A q \in Read : q < r => read[q] # "none"
      /\ handling' = "app" /\ UNCHANGED <<chunks, taken, bodyRead>>
      /\ overlapped' = (overlapped \/ (bodyRead = 0 /\ Reading # {}))
    BY DEF readRequestBody, setting
<1>2. CASE bodyRead # 0
    <2>1. /\ read' = [read EXCEPT ![r] = "done"]
          /\ got' = [got EXCEPT ![r] = got[bodyRead]]
        BY <1>2 DEF readRequestBody
    <2>0. overlapped' = overlapped
        <3>1. overlapped \in BOOLEAN
            BY DEF Bodies
        <3> QED
            BY <1>1, <1>2, <3>1, Zenon
    <2>2. bodyRead \in Read /\ read[bodyRead] = "done" /\ bodyRead < r
        <3>1. bodyRead \in Read /\ read[bodyRead] = "done" /\ bodyRead # r
            BY <1>1, <1>2 DEF Bodies
        <3>2. ~(r < bodyRead)
            BY <1>1, <3>1 DEF Bodies
        <3> QED
            BY <3>1, <3>2
    <2>3. \A q \in Read : Clean(q)' = Clean(q)
        BY <1>1, <2>0, <2>1 DEF Clean, Bodies
    <2>4. Clean(r) => Clean(bodyRead)
        BY <2>2 DEF Clean
    <2>5. Reading' = Reading
        BY <1>1, <2>1 DEF Reading, Bodies
    <2>6. Clean(r) => got'[r] = Chunks(chunks)
        BY <2>1, <2>2, <2>4 DEF Bodies
    <2> QED
        BY <1>1, <1>2, <2>0, <2>1, <2>2, <2>3, <2>5, <2>6 DEF Bodies
<1>3. CASE bodyRead = 0
    <2>1. read' = [read EXCEPT ![r] = "reading"] /\ got' = got
        BY <1>3 DEF readRequestBody
    <2>2. \A q \in Read : Clean(q)' => Clean(q)
        BY <1>1, <2>1 DEF Clean, Bodies
    <2>3. ~overlapped' => Reading = {} /\ Reading' = {r}
        BY <1>1, <1>3, <2>1 DEF Reading, Bodies
    <2>4. Clean(r)' => taken = 0 /\ got[r] = <<>>
        <3> SUFFICES ASSUME Clean(r)' PROVE taken = 0 /\ got[r] = <<>>
            OBVIOUS
        <3>1. Clean(r) /\ Reading = {}
            BY <2>2, <2>3 DEF Clean
        <3>2. \A q \in Read : q < r => FALSE
            BY <1>1, <1>3, <3>1 DEF Clean, Reading, Bodies
        <3>3. \A q \in Read : read[q] = "none"
            BY <1>1, <3>2 DEF Bodies
        <3> QED
            BY <1>1, <3>1, <3>3 DEF Bodies
    <2>5. Chunks(0) = <<>>
        BY DEF Chunks
    <2>6. \A q \in Read : q # r => read'[q] = read[q]
        BY <2>1 DEF Bodies
    <2>7. /\ read' \in [Read -> {"none", "reading", "done", "failed"}]
          /\ read'[r] = "reading"
        BY <2>1 DEF Bodies
    <2>8. overlapped' \in BOOLEAN
        BY <1>1 DEF Bodies
    <2> QED
        BY <1>1, <1>3, <2>1, <2>2, <2>3, <2>4, <2>5, <2>6, <2>7, <2>8 DEF Bodies
<1> QED
    BY <1>2, <1>3

(* The next chunk, for the only read that iterates or for one of several.  *)
LEMMA ReadTakes ==
    ASSUME Bodies, NEW r \in Read, TakesChunk(r)
    PROVE  Bodies'
<1> USE ReadFacts
<1>1. /\ read[r] = "reading" /\ taken' = taken + 1 /\ handling' = "app"
      /\ got' = [got EXCEPT ![r] = Append(@, taken + 1)]
      /\ UNCHANGED <<chunks, read, overlapped, bodyRead>>
    BY DEF TakesChunk, setting, Reading
<1>2. Reading' = Reading /\ \A q \in Read : Clean(q)' = Clean(q)
    BY <1>1 DEF Reading, Clean
<1>3. ~overlapped => Reading = {r}
    BY <1>1 DEF Reading, Bodies
<1>4. got' \in [Read -> Seq(Nat)] /\ got'[r] = Append(got[r], taken + 1)
    BY <1>1 DEF Bodies
<1>5. Clean(r) => got'[r] = Chunks(taken + 1)
    BY <1>1, <1>4, ChunksGrow DEF Bodies
<1>6. \A q \in Read : q # r => got'[q] = got[q]
    BY <1>1 DEF Bodies
<1>7. \A q \in Read : Clean(q) /\ q # r => read[q] # "reading"
    BY <1>3 DEF Clean, Reading
<1>8. \A q \in Read : Clean(q)' =>
          /\ read'[q] = "none" => got'[q] = <<>>
          /\ read'[q] = "reading" => got'[q] = Chunks(taken')
          /\ read'[q] = "done" => got'[q] = Chunks(chunks')
    BY <1>1, <1>2, <1>5, <1>6, <1>7 DEF Bodies
<1>9. taken' \in Nat
    BY <1>1 DEF Bodies
<1> QED
    BY <1>1, <1>2, <1>4, <1>8, <1>9 DEF Bodies

(* A read that fails spoils those after it, not those before.              *)
LEMMA ReadSpoils ==
    ASSUME Bodies, NEW r \in Read, read[r] = "reading",
           read' = [read EXCEPT ![r] = "failed"], handling' = "app",
           taken' \in Nat, UNCHANGED <<chunks, got, overlapped, bodyRead>>
    PROVE  Bodies'
<1> USE ReadFacts
<1>1. /\ read' \in [Read -> {"none", "reading", "done", "failed"}]
      /\ read'[r] = "failed" /\ \A q \in Read : q # r => read'[q] = read[q]
    BY DEF Bodies
<1>2. \A q \in Read : Clean(q)' => Clean(q)
    BY <1>1 DEF Clean
<1>3. Reading' = Reading \ {r} /\ (~overlapped => Reading = {r})
    BY <1>1 DEF Reading, Bodies
<1>4. \A q \in Read : Clean(q)' => read'[q] # "reading"
    BY <1>3 DEF Clean, Reading
<1> QED
    BY <1>1, <1>2, <1>3, <1>4 DEF Bodies

(* A read that ends, well or not.                                          *)
LEMMA ReadDone ==
    ASSUME Bodies, NEW r \in Read, ReadEnds(r)
    PROVE  Bodies'
<1> USE ReadFacts
<1>1. /\ read[r] = "reading" /\ taken = chunks /\ handling' = "app"
      /\ UNCHANGED <<chunks, taken, got, overlapped>>
    BY DEF ReadEnds, setting, Reading
<1>2. CASE read' = [read EXCEPT ![r] = "failed"] /\ UNCHANGED bodyRead
    BY <1>1, <1>2, ReadSpoils DEF Bodies
<1>3. CASE read' = [read EXCEPT ![r] = "done"] /\ bodyRead' = r
    <2>1. /\ read' \in [Read -> {"none", "reading", "done", "failed"}]
          /\ read'[r] = "done" /\ \A q \in Read : q # r => read'[q] = read[q]
        BY <1>3 DEF Bodies
    <2>2. \A q \in Read : Clean(q)' = Clean(q)
        BY <1>1, <2>1 DEF Clean
    <2>3. Reading' = Reading \ {r} /\ (~overlapped => Reading = {r})
        BY <1>1, <2>1 DEF Reading, Bodies
    <2> QED
        BY <1>1, <1>3, <2>1, <2>2, <2>3 DEF Bodies
<1> QED
    BY <1>2, <1>3 DEF ReadEnds

(* Every step keeps what is known of the reads.                            *)
LEMMA BodiesStep == Bodies /\ [HttpNext]_httpVars => Bodies'
<1> SUFFICES ASSUME Bodies, [HttpNext]_httpVars PROVE Bodies'
    OBVIOUS
<1>1. CASE handleRequest
    <2>1. chunks' \in Nat
        BY <1>1, BodyAssumption DEF handleRequest
    <2> QED
        BY <1>1, <2>1, BodiesFrame DEF handleRequest, reading
<1>2. CASE cors \/ Threw \/ Returned \/ TookOver \/ sendResponse \/ Streamed
           \/ Aborted
    <2>1. /\ UNCHANGED <<chunks, taken, read, got, overlapped, bodyRead>>
          /\ handling' \notin {"none", "cors"}
        BY <1>2 DEF cors, Threw, Returned, TookOver, sendResponse, Streamed,
                    Aborted, Throw, Minimal, setting, reading
    <2> QED
        BY <2>1, BodiesFrame
<1>3. ASSUME NEW r \in Read, TooLarge(r) \/ ReadFails(r) PROVE Bodies'
    BY <1>3, ReadSpoils DEF TooLarge, ReadFails, Reading, setting, Bodies
<1>4. ASSUME NEW r \in Read, readRequestBody(r) \/ TakesChunk(r) \/ ReadEnds(r)
      PROVE  Bodies'
    BY <1>4, ReadBegins, ReadTakes, ReadDone
<1>5. CASE UNCHANGED httpVars
    <2>1. UNCHANGED <<handling, chunks, taken, read, got, overlapped, bodyRead>>
        BY <1>5 DEF httpVars
    <2> QED
        BY <2>1, BodiesFrame DEF Bodies
<1> QED
    BY <1>1, <1>2, <1>3, <1>4, <1>5 DEF HttpNext, Chain

-----------------------------------------------------------------------------
(* Who has which chunk.                                                    *)

Covered ==
    \A n \in 1 .. taken : \E r \in Read : \E k \in 1 .. Len(got[r]) : got[r][k] = n

Apart(q, r) ==
    \A k \in 1 .. Len(got[q]), l \in 1 .. Len(got[r]) : got[q][k] = got[r][l] =>
        got[q] = got[r] /\ read[q] # "reading" /\ read[r] # "reading"

(* A read that iterates shares its chunks with none; nothing is lost while *)
(* the socket is there, nor once a read has returned.                      *)
Shares ==
    /\ taken <= chunks
    /\ \A r \in Read :
          /\ read[r] = "none" => got[r] = <<>>
          /\ \A k \in 1 .. Len(got[r]) : got[r][k] \in 1 .. taken
          /\ \A k, l \in 1 .. Len(got[r]) : k < l => got[r][k] < got[r][l]
    /\ \A q, r \in Read : q # r => Apart(q, r)
    /\ ~socketGone => Covered
    /\ (\E r \in Read : read[r] = "done") => taken = chunks /\ Covered

LEMMA SharesInit == HttpInit => Shares
<1> SUFFICES ASSUME HttpInit PROVE Shares
    OBVIOUS
<1>1. /\ taken = 0 /\ chunks = 0
      /\ \A r \in Read : read[r] = "none" /\ got[r] = <<>> /\ Len(got[r]) = 0
    BY DEF HttpInit
<1>2. 1 .. 0 = {}
    OBVIOUS
<1> QED
    BY <1>1, <1>2 DEF Shares, Apart, Covered

(* Steps that give no read a chunk, nor let one return.                    *)
LEMMA SharesFrame ==
    ASSUME Shares, UNCHANGED got, taken' \in Nat, taken' >= taken, taken' <= chunks',
           taken' = taken \/ (socketGone' /\ taken # chunks),
           taken \in Nat, got \in [Read -> Seq(Nat)],
           \A r \in Read : read'[r] = "none" => read[r] = "none",
           \A r \in Read : read'[r] = "reading" => read[r] = "reading" \/ got[r] = <<>>,
           \A r \in Read : read'[r] = "done" => read[r] = "done" /\ chunks' = chunks,
           ~socketGone' => ~socketGone
    PROVE  Shares'
<1>1. \A r \in Read : /\ Len(got[r]) \in Nat
                      /\ \A k \in 1 .. Len(got[r]) : got[r][k] \in 1 .. taken'
    BY DEF Shares
<1>2. ASSUME NEW q \in Read, NEW r \in Read, q # r PROVE Apart(q, r)'
    <2>1. Apart(q, r)
        BY <1>2 DEF Shares
    <2>2. ASSUME got[q] = <<>> \/ got[r] = <<>> PROVE Apart(q, r)'
        <3>1. \/ 1 .. Len(got[q]) = {}
              \/ 1 .. Len(got[r]) = {}
            BY <2>2
        <3> QED
            BY <3>1 DEF Apart
    <2>3. ASSUME got[q] # <<>>, got[r] # <<>> PROVE Apart(q, r)'
        BY <2>1, <2>3 DEF Apart
    <2> QED
        BY <2>2, <2>3
<1>3. ASSUME taken' = taken, Covered PROVE Covered'
    BY <1>3 DEF Covered
<1>4. \A r \in Read : read'[r] = "none" => got[r] = <<>>
    BY DEF Shares
<1>5. ASSUME ~socketGone' PROVE Covered'
    <2>1. taken' = taken
        BY <1>5
    <2>2. Covered
        BY <1>5 DEF Shares
    <2> QED
        BY <2>1, <2>2, <1>3
<1>6. ASSUME NEW r \in Read, read'[r] = "done" PROVE taken' = chunks' /\ Covered'
    <2>1. read[r] = "done" /\ chunks' = chunks
        BY <1>6
    <2>2. taken = chunks /\ Covered
        BY <2>1 DEF Shares
    <2>3. taken' = taken
        BY <2>2
    <2> QED
        BY <2>1, <2>2, <2>3, <1>3
<1>7. \A r \in Read : \A k, l \in 1 .. Len(got[r]) : k < l => got[r][k] < got[r][l]
    BY DEF Shares
<1> QED
    BY <1>1, <1>2, <1>4, <1>5, <1>6, <1>7 DEF Shares

(* The body that was kept is returned once more.                           *)
LEMMA SharesMemo ==
    ASSUME Shares, Bodies, NEW r \in Read, readRequestBody(r), bodyRead # 0
    PROVE  Shares'
<1> DEFINE b == bodyRead
<1>1. /\ read[r] = "none" /\ b \in Read /\ read[b] = "done" /\ b # r
      /\ read' = [read EXCEPT ![r] = "done"] /\ got' = [got EXCEPT ![r] = got[b]]
      /\ UNCHANGED <<chunks, taken, socketGone>>
    BY DEF readRequestBody, setting, Bodies
<1>2. /\ got'[r] = got[b] /\ read'[r] = "done"
      /\ \A q \in Read : q # r => got'[q] = got[q] /\ read'[q] = read[q]
      /\ got[r] = <<>> /\ 1 .. Len(got[r]) = {}
    <2>1. got[r] = <<>>
        BY <1>1 DEF Shares
    <2> QED
        BY <1>1, <2>1 DEF Bodies
<1> HIDE DEF b
<1>3. taken = chunks /\ Covered
    BY <1>1 DEF Shares
<1>4. Covered'
    BY <1>1, <1>2, <1>3 DEF Covered
<1>5. ASSUME NEW q \in Read, NEW p \in Read, q # p PROVE Apart(q, p)'
    <2>1. \A x, y \in Read : x # y => Apart(x, y)
        BY DEF Shares
    <2>2. CASE q = r /\ p = b
        BY <1>1, <1>2, <2>2 DEF Apart
    <2>3. CASE q = b /\ p = r
        BY <1>1, <1>2, <2>3 DEF Apart
    <2>4. CASE q = r /\ p # b
        BY <1>1, <1>2, <1>5, <2>1, <2>4 DEF Apart
    <2>5. CASE p = r /\ q # b
        BY <1>1, <1>2, <1>5, <2>1, <2>5 DEF Apart
    <2>6. CASE q # r /\ p # r
        BY <1>1, <1>2, <1>5, <2>1, <2>6 DEF Apart
    <2> QED
        BY <1>5, <2>2, <2>3, <2>4, <2>5, <2>6
<1>6. \A q \in Read :
          /\ read'[q] = "none" => got'[q] = <<>>
          /\ \A k \in 1 .. Len(got'[q]) : got'[q][k] \in 1 .. taken
          /\ \A k, l \in 1 .. Len(got'[q]) : k < l => got'[q][k] < got'[q][l]
    BY <1>1, <1>2 DEF Shares
<1> QED
    BY <1>1, <1>3, <1>4, <1>5, <1>6 DEF Shares

(* The next chunk is new.                                                  *)
LEMMA SharesTake ==
    ASSUME Shares, Bodies, NEW r \in Read, TakesChunk(r)
    PROVE  Shares'
<1> DEFINE d == Len(got[r])
<1>1. /\ read[r] = "reading" /\ taken \in Nat /\ chunks \in Nat /\ taken < chunks
      /\ taken' = taken + 1 /\ UNCHANGED <<chunks, read, socketGone>> /\ ~socketGone
      /\ got' = [got EXCEPT ![r] = Append(@, taken + 1)]
    BY DEF TakesChunk, setting, Reading, Bodies
<1>2. /\ d \in Nat /\ Len(got'[r]) = d + 1 /\ got'[r][d + 1] = taken + 1
      /\ \A k \in 1 .. d : got'[r][k] = got[r][k]
      /\ \A k \in 1 .. d + 1 : k \in 1 .. d \/ k = d + 1
      /\ \A q \in Read : q # r => got'[q] = got[q]
      /\ \A q \in Read : Len(got[q]) \in Nat
    BY <1>1 DEF Bodies
<1> HIDE DEF d
<1>3. /\ \A q \in Read : \A k \in 1 .. Len(got[q]) : got[q][k] \in 1 .. taken
      /\ \A k, l \in 1 .. d : k < l => got[r][k] < got[r][l]
      /\ \A x, y \in Read : x # y => Apart(x, y)
      /\ Covered
    BY <1>1 DEF Shares, d
<1>4. \A q \in Read : \A k \in 1 .. Len(got'[q]) : got'[q][k] \in 1 .. taken + 1
    <2>1. \A k \in 1 .. d + 1 : got'[r][k] \in 1 .. taken + 1
        BY <1>1, <1>2, <1>3 DEF d
    <2>2. \A q \in Read : q # r => \A k \in 1 .. Len(got'[q]) : got'[q][k] \in 1 .. taken + 1
        BY <1>1, <1>2, <1>3
    <2> QED
        BY <1>2, <2>1, <2>2
<1>5. \A k, l \in 1 .. d + 1 : k < l => got'[r][k] < got'[r][l]
    BY <1>1, <1>2, <1>3 DEF d
<1>6. ASSUME NEW q \in Read, q # r,
             NEW k \in 1 .. Len(got'[q]), NEW l \in 1 .. Len(got'[r])
      PROVE  got'[q][k] # got'[r][l]
    <2>1. got'[q] = got[q] /\ got[q][k] \in 1 .. taken
        BY <1>2, <1>3, <1>6
    <2>2. CASE l = d + 1
        <3>1. got'[r][l] = taken + 1 /\ taken + 1 \notin 1 .. taken
            BY <1>1, <1>2, <2>2
        <3> QED
            BY <2>1, <3>1
    <2>3. CASE l \in 1 .. d
        BY <1>1, <1>2, <1>3, <1>6, <2>1, <2>3 DEF Apart, d
    <2> QED
        BY <1>2, <2>2, <2>3
<1>7. ASSUME NEW q \in Read, NEW p \in Read, q # p PROVE Apart(q, p)'
    <2>1. CASE q # r /\ p # r
        BY <1>1, <1>2, <1>3, <1>7, <2>1 DEF Apart
    <2>2. CASE q = r \/ p = r
        BY <1>6, <1>7, <2>2 DEF Apart
    <2> QED
        BY <2>1, <2>2
<1>8. Covered'
    <2> SUFFICES ASSUME NEW n \in 1 .. taken + 1
                 PROVE  \E q \in Read : \E k \in 1 .. Len(got'[q]) : got'[q][k] = n
        BY <1>1 DEF Covered
    <2>1. CASE n = taken + 1
        BY <1>2, <2>1
    <2>2. CASE n \in 1 .. taken
        <3>1. PICK q \in Read : \E k \in 1 .. Len(got[q]) : got[q][k] = n
            BY <1>3, <2>2 DEF Covered
        <3>2. PICK k \in 1 .. Len(got[q]) : got[q][k] = n
            BY <3>1
        <3>3. k \in 1 .. Len(got'[q]) /\ got'[q][k] = n
            BY <1>2, <3>2 DEF d
        <3> QED
            BY <3>3
    <2> QED
        BY <1>1, <2>1, <2>2
<1>9. \A q \in Read : read[q] # "done"
    BY <1>1 DEF Shares
<1>10. \A q \in Read : /\ read'[q] = "none" => got'[q] = <<>>
                       /\ \A k, l \in 1 .. Len(got'[q]) : k < l => got'[q][k] < got'[q][l]
    <2>1. ASSUME NEW q \in Read, q # r
          PROVE  /\ read'[q] = "none" => got'[q] = <<>>
                 /\ \A k, l \in 1 .. Len(got'[q]) : k < l => got'[q][k] < got'[q][l]
        BY <1>1, <1>2, <2>1 DEF Shares
    <2> QED
        BY <1>1, <1>2, <1>5, <2>1
<1> QED
    BY <1>1, <1>4, <1>7, <1>8, <1>9, <1>10 DEF Shares

LEMMA SharesStep == Shares /\ Bodies /\ [HttpNext]_httpVars => Shares'
<1> SUFFICES ASSUME Shares, Bodies, [HttpNext]_httpVars PROVE Shares'
    OBVIOUS
<1>0. taken \in Nat /\ chunks \in Nat /\ got \in [Read -> Seq(Nat)] /\ taken <= chunks
    BY DEF Bodies, Shares
<1>1. CASE handleRequest
    <2>1. /\ chunks' \in Nat /\ taken = 0 /\ \A r \in Read : read[r] = "none"
          /\ UNCHANGED <<taken, read, got, socketGone>>
        BY <1>1, BodyAssumption DEF handleRequest, reading, Bodies
    <2> QED
        BY <1>0, <2>1, SharesFrame
<1>2. CASE \/ cors \/ Threw \/ Returned \/ TookOver \/ sendResponse \/ Streamed
           \/ Aborted \/ UNCHANGED httpVars
    <2>1. UNCHANGED <<chunks, taken, read, got>> /\ (~socketGone' => ~socketGone)
        BY <1>2 DEF cors, Threw, Returned, TookOver, sendResponse, Streamed,
                    Aborted, setting, reading, httpVars
    <2> QED
        BY <1>0, <2>1, SharesFrame
<1>3. ASSUME NEW r \in Read, TooLarge(r) \/ ReadFails(r) PROVE Shares'
    <2>1. /\ read[r] = "reading" /\ read' = [read EXCEPT ![r] = "failed"]
          /\ UNCHANGED <<chunks, got>> /\ taken' \in Nat /\ taken' >= taken
          /\ taken' <= chunks /\ socketGone' = TRUE
          /\ taken' = taken \/ taken # chunks
        BY <1>0, <1>3 DEF TooLarge, ReadFails, Reading, setting
    <2>2. \A q \in Read : read'[q] = IF q = r THEN "failed" ELSE read[q]
        BY <2>1 DEF Bodies
    <2> QED
        BY <1>0, <2>1, <2>2, SharesFrame
<1>4. ASSUME NEW r \in Read, readRequestBody(r), bodyRead = 0 PROVE Shares'
    <2>1. /\ read[r] = "none" /\ read' = [read EXCEPT ![r] = "reading"]
          /\ UNCHANGED <<chunks, taken, got, socketGone>>
        BY <1>4 DEF readRequestBody, setting
    <2>2. \A q \in Read : read'[q] = IF q = r THEN "reading" ELSE read[q]
        BY <2>1 DEF Bodies
    <2>3. got[r] = <<>>
        BY <2>1 DEF Shares
    <2> QED
        BY <1>0, <2>1, <2>2, <2>3, SharesFrame
<1>5. ASSUME NEW r \in Read, ReadEnds(r) PROVE Shares'
    <2>1. /\ taken = chunks /\ UNCHANGED <<chunks, taken, got, socketGone>> /\ ~socketGone
          /\ \E s \in {"done", "failed"} : read' = [read EXCEPT ![r] = s]
        BY <1>5 DEF ReadEnds, setting
    <2>2. PICK s \in {"done", "failed"} : read' = [read EXCEPT ![r] = s]
        BY <2>1
    <2>3. \A q \in Read : read'[q] = IF q = r THEN s ELSE read[q]
        BY <2>2 DEF Bodies
    <2>4. Covered /\ Covered'
        BY <2>1 DEF Shares, Covered
    <2>5. ASSUME NEW q \in Read, NEW p \in Read, q # p PROVE Apart(q, p)'
        <3>1. Apart(q, p)
            BY <2>5 DEF Shares
        <3> QED
            BY <3>1, <2>1, <2>3 DEF Apart
    <2> QED
        BY <2>1, <2>3, <2>4, <2>5 DEF Shares
<1> QED
    BY <1>1, <1>2, <1>3, <1>4, <1>5, SharesMemo, SharesTake DEF HttpNext, Chain

(* HttpContext.readRequestBody, for any reads: the whole body for a read   *)
(* that neither shared the request nor came after one that failed; chunks  *)
(* in order, none twice and none lost between the reads, in every case.    *)
THEOREM BodyReadWhole == HttpSpec => []BodyWhole
<1>1. Bodies /\ Shares => BodyWhole
    <2> SUFFICES ASSUME Bodies, Shares PROVE BodyWhole
        OBVIOUS
    <2>1. \A r \in Read : DOMAIN got[r] = 1 .. Len(got[r])
        BY DEF Bodies
    <2>2. \A r \in Read : read[r] = "done" =>
              \/ got[r] = [k \in 1 .. chunks |-> k]
              \/ overlapped
              \/ \E q \in 1 .. r - 1 : read[q] = "failed"
        BY ReadFacts DEF Bodies, Clean, Chunks
    <2>3. ASSUME NEW q \in Read, NEW r \in Read, NEW n \in 1 .. chunks, Has(q, n), Has(r, n)
          PROVE  got[q] = got[r]
        BY <2>1, <2>3 DEF Shares, Apart, Has
    <2>4. (\E r \in Read : read[r] = "done") =>
              \A n \in 1 .. chunks : \E r \in Read : Has(r, n)
        BY <2>1 DEF Shares, Covered, Has
    <2>5. \A r \in Read : \A k, l \in DOMAIN got[r] : k < l => got[r][k] < got[r][l]
        BY <2>1 DEF Shares
    <2> QED
        BY <2>2, <2>3, <2>4, <2>5 DEF BodyWhole
<1>2. Bodies /\ Shares /\ [HttpNext]_httpVars => Bodies' /\ Shares'
    BY BodiesStep, SharesStep
<1> QED
    BY <1>1, <1>2, BodiesInit, SharesInit, PTL DEF HttpSpec
=============================================================================
