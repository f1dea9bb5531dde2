---------------------------- MODULE UnitsProofs ----------------------------
(***************************************************************************)
(* Proofs about parts of Units: the call over HTTP, the certificates, the  *)
(* environment, the methodology files and the start order, each for every  *)
(* value of its constants.  A behaviour of Units is one of each part.  The *)
(* routing is in RouterProofs, with what is said of sequences.             *)
(***************************************************************************)
EXTENDS Units, RouterProofs, SequenceTheorems

-----------------------------------------------------------------------------
(* A call over HTTP.                                                       *)

(* What onMethod can have been told.                                       *)
NotTold == <<>>
ToldError == <<"error">>
ToldResult == <<"result">>

(* How far the handler has come says whether the method was called, what   *)
(* the hook was told and what was sent; the client knows what was sent,    *)
(* unless another server answered.                                         *)
HttpCallInv ==
    /\ methodCalls \in {0, 1}
    /\ \/ /\ server \in {"none", "arriving", "lost", "parsing", "calling"}
          /\ methodCalls = 0 /\ hooks = NotTold /\ response = Kept
       \/ /\ server = "decoding"
          /\ methodCalls = 1 /\ hooks = NotTold /\ response = Kept
       \/ /\ server \in {"passed", "thrown"}
          /\ methodCalls = 0 /\ hooks \in {NotTold, ToldError} /\ response = NamedError
       \/ /\ server = "thrown" /\ methodCalls = 1 /\ hooks = ToldError
          /\ response # Kept /\ response # Result
       \/ server = "replying" /\ methodCalls = 1 /\ hooks = ToldResult /\ response = Kept
       \/ server = "answered" /\ methodCalls = 1 /\ hooks = ToldResult /\ response = Result
       \/ /\ server = "unserialised" /\ methodCalls = 1 /\ hooks = ToldResult
          /\ response = NamedError
    /\ call = "none" => server = "none"
    /\ answeredBy = "server" => response # Kept /\ call = Outcome(response)
    /\ call = "none" \/ call = "sent" => answeredBy = "none"

LEMMA HookTold ==
    hooks = NotTold => /\ Append(hooks, "error") = ToldError
                       /\ Append(hooks, "result") = ToldResult
BY DEF NotTold, ToldError, ToldResult

LEMMA ToldApart == ToldResult # NotTold /\ ToldResult # ToldError
<1>1. ToldResult # NotTold
  BY DEF NotTold, ToldResult
<1>2. ToldResult[1] = "result" /\ ToldError[1] = "error"
  BY DEF ToldResult, ToldError
<1> QED
  BY <1>1, <1>2

LEMMA ToldOnce ==
    /\ Len(NotTold) <= 1 /\ Len(ToldError) <= 1 /\ Len(ToldResult) <= 1
    /\ Len(ToldError) = 1 /\ Len(ToldResult) = 1
BY DEF NotTold, ToldError, ToldResult

LEMMA OutcomeFacts ==
    /\ Kept # NamedError /\ Kept # Result /\ Result # NamedError
    /\ Outcome(Result) = "result" /\ Outcome(NamedError) = "named"
    /\ \A res : /\ Outcome(res) # "none" /\ Outcome(res) # "sent"
                /\ Outcome(res) = "result" => res.ok
    /\ \A res \in Response : res.body # "result" => res # Kept /\ res # Result
BY DEF Kept, NamedError, Result, Response, Outcome

LEMMA HttpCallStep == HttpCallInv /\ [HttpCallNext]_rpcHttpVars => HttpCallInv'
<1> SUFFICES ASSUME HttpCallInv, [HttpCallNext]_rpcHttpVars PROVE HttpCallInv'
  OBVIOUS
<1> USE HookTold, OutcomeFacts DEF HttpCallInv
<1>1. CASE CallMethod
  BY <1>1 DEF CallMethod
<1>2. CASE sendRequest
  BY <1>2 DEF sendRequest
<1>3. CASE FetchFails
  BY <1>3 DEF FetchFails
<1>4. CASE GatewayAnswers
  BY <1>4 DEF GatewayAnswers
<1>5. CASE takeCall
  BY <1>5 DEF takeCall, Throws
<1>6. CASE parseParams
  BY <1>6 DEF parseParams, Caught, Throws
<1>7. CASE methodImpl
  BY <1>7 DEF methodImpl, MethodCaught
<1>8. CASE decodeResult
  BY <1>8 DEF decodeResult, Caught, Throws
<1>9. CASE sendResult
  BY <1>9 DEF sendResult
<1>10. CASE BodyFails
  BY <1>10 DEF BodyFails
<1>11. CASE UNCHANGED rpcHttpVars
  BY <1>11 DEF rpcHttpVars
<1> QED
  BY <1>1, <1>2, <1>3, <1>4, <1>5, <1>6, <1>7, <1>8, <1>9, <1>10, <1>11
  DEF HttpCallNext

(* createHttpClient and HttpProtocolHandler over a network that loses and  *)
(* replaces messages: the method runs once at most, the hook hears once of *)
(* a call that was taken, before what it heard is sent or fails to be, and *)
(* an answer of the server settles the promise by what happened.           *)
THEOREM CallHonest == HttpCallSpec => []HttpCallHonest
<1>1. HttpCallInit => HttpCallInv
  BY DEF HttpCallInit, HttpCallInv, NotTold
<1>2. HttpCallInv => HttpCallHonest
  <2> SUFFICES ASSUME HttpCallInv PROVE HttpCallHonest
    OBVIOUS
  <2>1. /\ methodCalls <= 1 /\ hooks \in {NotTold, ToldError, ToldResult}
        /\ methodCalls = 1 /\ server # "decoding" => hooks \in {ToldError, ToldResult}
    BY ToldApart, OutcomeFacts DEF HttpCallInv
  <2>2. /\ hooks = ToldResult => methodCalls = 1 /\ response \in {Kept, Result, NamedError}
        /\ response = Result => hooks = ToldResult
    BY ToldApart, OutcomeFacts DEF HttpCallInv
  <2>3. answeredBy = "server" /\ call = "result" =>
            /\ methodCalls = 1
            /\ \/ hooks = ToldResult /\ response = Result
               \/ hooks = ToldError /\ response.ok
    BY ToldApart, OutcomeFacts DEF HttpCallInv
  <2>4. hooks = ToldResult /\ answeredBy = "server" /\ call = "named" =>
            server = "unserialised"
    BY ToldApart, OutcomeFacts DEF HttpCallInv
  <2>5. \A h \in {NotTold, ToldError, ToldResult} : Len(h) <= 1
    BY ToldOnce, Zenon
  <2>6. \A h \in {ToldError, ToldResult} : Len(h) = 1
    BY ToldOnce
  <2> QED
    BY <2>1, <2>2, <2>3, <2>4, <2>5, <2>6 DEF HttpCallHonest, ToldResult, ToldError
<1> QED
  BY <1>1, <1>2, HttpCallStep, PTL DEF HttpCallSpec

-----------------------------------------------------------------------------
(* Certificates.                                                           *)

(* No name has two entries.                                                *)
OneEach(s) ==
    \A i, j \in 1 .. Len(s) : s[i].subject = s[j].subject => i = j

(* The client accepts it, or it is one of the two cases in which none is.  *)
ServesHost(cert, h) ==
    \/ Accepted(cert, h)
    \/ h \in Address
    \/ Len(h) = 2 /\ cert.subject = Tail(h)

(* A certificate serves its own name, and the names one label longer.      *)
LEMMA OwnNameServed ==
    ASSUME NEW h \in Hostname, NEW cert \in Certificate, cert.subject = h
    PROVE  ServesHost(cert, h)
BY DEF ServesHost, Accepted, altNames, Matches

LEMMA TailOf ==
    ASSUME NEW S, NEW h \in Seq(S), h # <<>>
    PROVE  /\ Tail(h) \in Seq(S) /\ Len(h) \in Nat \ {0}
           /\ Len(Tail(h)) = Len(h) - 1
           /\ \A k \in 2 .. Len(h) : Tail(h)[k - 1] = h[k]
OBVIOUS

LEMMA Prefixed ==
    ASSUME NEW S, NEW x \in S, NEW t \in Seq(S)
    PROVE  /\ Len(<<x>> \o t) = Len(t) + 1 /\ (<<x>> \o t)[1] = x
           /\ \A k \in 2 .. Len(t) + 1 : (<<x>> \o t)[k] = t[k - 1]
<1> DEFINE s == <<x>>
<1>1. s \in Seq(S) /\ Len(s) = 1 /\ s[1] = x /\ Len(t) \in Nat
  OBVIOUS
<1> HIDE DEF s
<1>2. /\ Len(s \o t) = Len(s) + Len(t)
      /\ \A i \in 1 .. Len(s) + Len(t) :
            (s \o t)[i] = IF i <= Len(s) THEN s[i] ELSE t[i - Len(s)]
  BY <1>1, ConcatProperties, Zenon
<1> QED
  BY <1>1, <1>2 DEF s

LEMMA ParentServes ==
    ASSUME NEW h \in Hostname, NEW cert \in Certificate, cert.subject = Tail(h)
    PROVE  ServesHost(cert, h)
<1> SUFFICES ASSUME h \notin Address, Len(h) # 2 PROVE Accepted(cert, h)
  BY DEF ServesHost
<1> DEFINE t == Tail(h)
           name == <<"*">> \o t
<1>1. /\ h \in Seq(STRING) /\ h # <<>> /\ t # <<>>
  BY HostnameAssumption DEF Certificate
<1>2. /\ t \in Seq(STRING) /\ Len(h) \in Nat \ {0} /\ Len(t) = Len(h) - 1
      /\ \A k \in 2 .. Len(h) : t[k - 1] = h[k]
  BY <1>1, TailOf, Zenon
<1>3. Len(h) > 2
  <2>1. Len(t) # 0
    <3> HIDE DEF t
    <3> QED
      BY <1>1, <1>2
  <2> QED
    BY <1>2, <2>1
<1>4. /\ Len(name) = Len(t) + 1 /\ name[1] = "*"
      /\ \A k \in 2 .. Len(t) + 1 : name[k] = t[k - 1]
  <2> HIDE DEF t
  <2> DEFINE S == STRING \cup {"*"}
  <2>1. t \in Seq(S)
    BY <1>2
  <2>2. "*" \in S
    OBVIOUS
  <2> HIDE DEF S
  <2> QED
    BY <2>1, <2>2, Prefixed DEF name
<1>5. name \in altNames(cert)
  BY DEF altNames
<1> HIDE DEF name, t
<1> QED
  BY <1>2, <1>3, <1>4, <1>5 DEF Accepted, Matches

(* The certificate that was presented last.                                *)
ServedLast ==
    presented # Nothing =>
        /\ ServesHost(presented.cert, presented.host)
        /\ notAfter(presented.cert) - presented.at >= HOUR

(* The inductive invariant of the cache.                                   *)
CertInv ==
    /\ now \in Nat
    /\ cache \in Seq(Certificate)
    /\ Len(cache) <= MaxEntries
    /\ OneEach(cache)
    /\ ServedLast

(* What is left when the entry of a name goes.                             *)
LEMMA WithoutFacts ==
    ASSUME NEW s \in Seq(Certificate), OneEach(s), NEW h
    PROVE  /\ Without(s, h) \in Seq(Certificate)
           /\ Len(Without(s, h)) <= Len(s)
           /\ OneEach(Without(s, h))
           /\ \A i \in 1 .. Len(Without(s, h)) : Without(s, h)[i].subject # h
<1> DEFINE I == {i \in 1 .. Len(s) : s[i].subject = h}
<1>1. CASE I = {}
  <2>1. Without(s, h) = s
    BY <1>1 DEF Without, RemoveFirstMatch
  <2> QED
    BY <2>1, <1>1
<1>2. CASE I # {}
  <2>1. PICK k \in 1 .. Len(s) : s[k].subject = h
    BY <1>2
  <2>2. I = {k}
    BY <2>1 DEF OneEach
  <2>3. Min(I) = k
    BY <2>2 DEF Min
  <2>4. Without(s, h) = RemoveAt(s, k)
    BY <2>1, <2>3 DEF Without, RemoveFirstMatch, SelectInSeq
  <2> DEFINE t == RemoveAt(s, k)
  <2>5. /\ t \in Seq(Certificate) /\ Len(t) = Len(s) - 1
        /\ \A i \in 1 .. Len(s) - 1 : t[i] = IF i < k THEN s[i] ELSE s[i + 1]
    BY RemoveAtFacts
  <2> HIDE DEF t
  <2>6. OneEach(t)
    <3> SUFFICES ASSUME NEW i \in 1 .. Len(s) - 1, NEW j \in 1 .. Len(s) - 1,
                        t[i].subject = t[j].subject
                 PROVE  i = j
      BY <2>5 DEF OneEach
    <3> DEFINE x == IF i < k THEN i ELSE i + 1
               y == IF j < k THEN j ELSE j + 1
    <3>1. x \in 1 .. Len(s) /\ y \in 1 .. Len(s) /\ t[i] = s[x] /\ t[j] = s[y]
      BY <2>5
    <3>2. x = y
      BY <3>1 DEF OneEach
    <3> QED
      BY <3>2
  <2>7. \A i \in 1 .. Len(t) : t[i].subject # h
    BY <2>1, <2>5 DEF OneEach
  <2> QED
    BY <2>4, <2>5, <2>6, <2>7 DEF t
<1> QED
  BY <1>1, <1>2

(* A certificate that is presented is the last entry then.                 *)
LEMMA PresentInv ==
    ASSUME CertInv, NEW h \in Hostname, NEW cert \in Certificate,
           NEW s \in Seq(Certificate), OneEach(s), Len(s) <= MaxEntries,
           ServesHost(cert, h), notAfter(cert) - now >= HOUR, Present(cert, h, s)
    PROVE  CertInv'
<1> DEFINE w == Without(s, cert.subject)
           t == Append(w, cert)
<1>1. /\ w \in Seq(Certificate) /\ Len(w) <= MaxEntries /\ OneEach(w)
      /\ \A i \in 1 .. Len(w) : w[i].subject # cert.subject
  BY WithoutFacts, CertAssumption
<1>2. cache' = Bounded(t)
  BY DEF Present
<1> HIDE DEF w
<1>3. /\ t \in Seq(Certificate) /\ Len(t) = Len(w) + 1 /\ Len(t) <= MaxEntries + 1
      /\ \A i \in 1 .. Len(w) : t[i] = w[i]
      /\ t[Len(w) + 1] = cert
  BY <1>1, CertAssumption
<1>4. OneEach(t)
  BY <1>1, <1>3 DEF OneEach
<1> HIDE DEF t
<1>5. /\ cache' \in Seq(Certificate) /\ Len(cache') <= MaxEntries
      /\ OneEach(cache')
  <2>1. CASE Len(t) > MaxEntries
    <3>1. Len(t) \in Nat \ {0} /\ t # <<>>
      BY <2>1, <1>3, CertAssumption
    <3>2. /\ Tail(t) \in Seq(Certificate) /\ Len(Tail(t)) = Len(t) - 1
          /\ \A i \in 1 .. Len(t) - 1 : Tail(t)[i] = t[i + 1]
      BY <3>1, <1>3
    <3>3. OneEach(Tail(t))
      BY <3>1, <3>2, <1>4 DEF OneEach
    <3> QED
      BY <2>1, <3>1, <3>2, <3>3, <1>2, <1>3, CertAssumption DEF Bounded
  <2>2. CASE ~(Len(t) > MaxEntries)
    BY <2>2, <1>2, <1>3, <1>4, CertAssumption DEF Bounded
  <2> QED
    BY <2>1, <2>2
<1>6. now' = now /\ presented' = [host |-> h, cert |-> cert, at |-> now]
  BY DEF Present
<1>7. ServedLast'
  BY <1>6 DEF ServedLast, ServesHost, Accepted, altNames, Matches, notAfter
<1> QED
  BY <1>5, <1>6, <1>7 DEF CertInv, OneEach

LEMMA GetCertificateInv ==
    ASSUME CertInv, NEW h \in Hostname, getCertificate(h)
    PROVE  CertInv'
<1> DEFINE parent == parentDomain(h)
<1>1. /\ cache \in Seq(Certificate) /\ OneEach(cache) /\ Len(cache) <= MaxEntries
      /\ now \in Nat
  BY DEF CertInv
<1>2. \A s \in Seq(Certificate) : \A x : OneEach(s) /\ Len(s) <= MaxEntries =>
          /\ Without(s, x) \in Seq(Certificate) /\ OneEach(Without(s, x))
          /\ Len(Without(s, x)) <= MaxEntries
  <2> SUFFICES ASSUME NEW s \in Seq(Certificate), NEW x, OneEach(s), Len(s) <= MaxEntries
               PROVE  /\ Without(s, x) \in Seq(Certificate) /\ OneEach(Without(s, x))
                      /\ Len(Without(s, x)) <= MaxEntries
    OBVIOUS
  <2> QED
    BY WithoutFacts, CertAssumption
<1>3. ASSUME NEW x, NEW cert \in Cached(x)
      PROVE  cert \in Certificate /\ cert.subject = x /\ notAfter(cert) - now >= HOUR
  <2>1. cert \in Certificate
    BY <1>1 DEF Cached, Range
  <2> QED
    BY <2>1, <1>1, CertAssumption DEF Cached, Fresh, notAfter, HOUR, Certificate
<1>4. ASSUME NEW cert \in Cached(h), Present(cert, h, cache) PROVE CertInv'
  BY <1>1, <1>3, <1>4, OwnNameServed, PresentInv
<1>5. ASSUME NEW cert \in Cached(parent), Present(cert, h, Without(cache, h)) PROVE CertInv'
  <2>1. cert \in Certificate /\ ServesHost(cert, h) /\ notAfter(cert) - now >= HOUR
    BY <1>3, ParentServes DEF parentDomain
  <2> QED
    BY <1>1, <1>2, <1>5, <2>1, PresentInv
<1>6. ASSUME Present([subject |-> h, issued |-> now], h, Without(Without(cache, h), parent))
      PROVE  CertInv'
  <2> DEFINE cert == [subject |-> h, issued |-> now]
  <2>1. cert \in Certificate /\ notAfter(cert) - now >= HOUR
    BY <1>1, CertAssumption DEF Certificate, notAfter, HOUR
  <2>2. ServesHost(cert, h)
    BY <2>1, OwnNameServed
  <2> HIDE DEF cert
  <2> QED
    BY <1>1, <1>2, <1>6, <2>1, <2>2, PresentInv DEF cert
<1> QED
  BY <1>4, <1>5, <1>6 DEF getCertificate

(* SslCertStore.getCertificate and its LRU cache, for any hostnames, time  *)
(* to live and size: what a client is presented is accepted for its        *)
(* hostname, but for an address and for a name of two labels whose parent  *)
(* is in the cache, and is valid for another hour; and the cache keeps to  *)
(* its size.                                                               *)
THEOREM CertificatesServe == CertSpec => []CertificateServes
<1>1. CertInit => CertInv
  BY CertAssumption DEF CertInit, CertInv, OneEach, ServedLast
<1>2. CertInv /\ [CertNext]_certVars => CertInv'
  <2> SUFFICES ASSUME CertInv, [CertNext]_certVars PROVE CertInv'
    OBVIOUS
  <2>1. CASE Tick
    BY <2>1 DEF Tick, CertInv, ServedLast
  <2>2. ASSUME NEW h \in Hostname, getCertificate(h) PROVE CertInv'
    BY <2>2, GetCertificateInv
  <2>3. CASE UNCHANGED certVars
    BY <2>3 DEF certVars, CertInv, ServedLast
  <2> QED
    BY <2>1, <2>2, <2>3 DEF CertNext
<1>3. CertInv => CertificateServes
  BY DEF CertInv, ServedLast, ServesHost, OneEach, CertificateServes
<1> QED
  BY <1>1, <1>2, <1>3, PTL DEF CertSpec

-----------------------------------------------------------------------------
(* The environment of an application.                                      *)

(* What FirstSet returns, for the sequences of sources that Effective has. *)
LEMMA FirstSetIs ==
    ASSUME NEW T, NEW s \in Seq(T), NEW n \in DOMAIN s,
           s[n] # Unset, \A j \in 1 .. n - 1 : s[j] = Unset
    PROVE  FirstSet(s) = s[n]
<1>1. n \in Nat \ {0} /\ n <= Len(s)
  OBVIOUS
<1>2. ASSUME NEW i \in DOMAIN s, s[i] # Unset, \A j \in 1 .. i - 1 : s[j] = Unset
      PROVE  i = n
  <2>1. i \in Nat \ {0} /\ i <= Len(s)
    OBVIOUS
  <2>2. ~(n < i) /\ ~(i < n)
    BY <1>1, <1>2, <2>1
  <2> QED
    BY <1>1, <2>1, <2>2
<1> QED
  BY <1>2 DEF FirstSet

LEMMA FirstSetNone ==
    ASSUME NEW s, \A i \in DOMAIN s : s[i] = Unset
    PROVE  FirstSet(s) = Unset
BY DEF FirstSet

LEMMA FirstOfTwo ==
    ASSUME NEW a, NEW b
    PROVE  FirstSet(<<a, b>>) = IF a # Unset THEN a ELSE b
<1> DEFINE s == <<a, b>>
<1>1. s \in Seq({a, b}) /\ DOMAIN s = {1, 2} /\ s[1] = a /\ s[2] = b
  OBVIOUS
<1> HIDE DEF s
<1>2. CASE a # Unset
  BY <1>1, <1>2, FirstSetIs
<1>3. CASE a = Unset /\ b # Unset
  BY <1>1, <1>3, FirstSetIs
<1>4. CASE a = Unset /\ b = Unset
  BY <1>1, <1>4, FirstSetNone
<1> QED
  BY <1>2, <1>3, <1>4 DEF s

LEMMA FirstOfThree ==
    ASSUME NEW a, NEW b, NEW c
    PROVE  FirstSet(<<a, b, c>>) = IF a # Unset THEN a ELSE IF b # Unset THEN b ELSE c
<1> DEFINE s == <<a, b, c>>
<1>1. s \in Seq({a, b, c}) /\ DOMAIN s = {1, 2, 3} /\ s[1] = a /\ s[2] = b /\ s[3] = c
  OBVIOUS
<1> HIDE DEF s
<1>2. CASE a # Unset
  BY <1>1, <1>2, FirstSetIs
<1>3. CASE a = Unset /\ b # Unset
  BY <1>1, <1>3, FirstSetIs
<1>4. CASE a = Unset /\ b = Unset /\ c # Unset
  BY <1>1, <1>4, FirstSetIs
<1>5. CASE a = Unset /\ b = Unset /\ c = Unset
  BY <1>1, <1>5, FirstSetNone
<1> QED
  BY <1>2, <1>3, <1>4, <1>5 DEF s

LEMMA FirstOfFour ==
    ASSUME NEW a, NEW b, NEW c, NEW d
    PROVE  FirstSet(<<a, b, c, d>>) =
               IF a # Unset THEN a ELSE IF b # Unset THEN b
               ELSE IF c # Unset THEN c ELSE d
<1> DEFINE s == <<a, b, c, d>>
<1>1. /\ s \in Seq({a, b, c, d}) /\ DOMAIN s = {1, 2, 3, 4}
      /\ s[1] = a /\ s[2] = b /\ s[3] = c /\ s[4] = d
  OBVIOUS
<1> HIDE DEF s
<1>2. CASE a # Unset
  BY <1>1, <1>2, FirstSetIs
<1>3. CASE a = Unset /\ b # Unset
  BY <1>1, <1>3, FirstSetIs
<1>4. CASE a = Unset /\ b = Unset /\ c # Unset
  BY <1>1, <1>4, FirstSetIs
<1>5. CASE a = Unset /\ b = Unset /\ c = Unset /\ d # Unset
  BY <1>1, <1>5, FirstSetIs
<1>6. CASE a = Unset /\ b = Unset /\ c = Unset /\ d = Unset
  BY <1>1, <1>6, FirstSetNone
<1> QED
  BY <1>2, <1>3, <1>4, <1>5, <1>6 DEF s

(* configureEnv and assertEnv of stack-backend, under BaseApp.start: for    *)
(* any files and any environment, every key has the value of the first     *)
(* source that sets it, and a test runs with no other than .env.test's.    *)
THEOREM EnvironmentAsSaid == EnvSpec => EnvPrecedence
<1> DEFINE Said == /\ app = "launched" /\ app' # "refused" =>
                          \A k \in Key : env'[k] = Effective(app', k, env[k])
                   /\ app = "launched" /\ app' # "refused" /\ testRunner =>
                          \A k \in Key : Sets(".env.test", k) \in {Unset, env'[k]}
<1>1. start => Said
  <2> SUFFICES ASSUME start, app' # "refused" PROVE Said
    BY DEF start
  <2> DEFINE name == getEnvName(env)
  <2>1. /\ app' = name /\ assertEnv(env')
        /\ \A f \in ReadUnder(name) : files[f] # Unreadable
    BY DEF start
  <2>2. name \in {"development", "test", "production"}
    BY DEF getEnvName
  <2>3. env' = configureEnv(env, name)
    BY DEF start
  <2>4. ASSUME NEW k \in Key PROVE env'[k] = Effective(name, k, env[k])
    <3>1. CASE name = "development"
      BY <2>1, <2>3, <3>1, FirstOfThree
      DEF configureEnv, ReadUnder, loadEnvFile, Effective
    <3>2. CASE name = "test"
      BY <2>1, <2>3, <3>2, FirstOfFour
      DEF configureEnv, ReadUnder, loadEnvFile, Effective
    <3>3. CASE name = "production"
      BY <2>1, <2>3, <3>3, FirstOfTwo
      DEF configureEnv, ReadUnder, loadEnvFile, Effective
    <3> QED
      BY <2>2, <3>1, <3>2, <3>3
  <2>5. testRunner => \A k \in Key : Sets(".env.test", k) \in {Unset, env'[k]}
    BY <2>1 DEF assertEnv
  <2> QED
    BY <2>1, <2>4, <2>5
<1>2. Launch => Said
  BY DEF Launch
<1>3. [EnvNext]_envVars => [Said]_envVars
  BY <1>1, <1>2 DEF EnvNext
<1> QED
  BY <1>3, PTL DEF EnvSpec, EnvPrecedence

-----------------------------------------------------------------------------
(* The methodology files.                                                  *)

(* What an AGENTS.md is made of.                                           *)
Token == {"begin", "end", "old", "new", "text"}

(* IndexOf is the first place, or 0.                                       *)
LEMMA IndexOfFirst ==
    ASSUME NEW s \in Seq(Token), NEW t, NEW k \in 1 .. Len(s), s[k] = t,
           \A i \in 1 .. k - 1 : s[i] # t
    PROVE  IndexOf(s, t) = k
<1> DEFINE I == {i \in 1 .. Len(s) : s[i] = t}
<1>1. k \in I /\ \A i \in I : k <= i
  <2>1. ASSUME NEW i \in I PROVE k <= i
    <3>1. k \in Int /\ i \in Int /\ i >= 1 /\ i \notin 1 .. k - 1
      OBVIOUS
    <3> QED
      BY <3>1
  <2> QED
    BY <2>1
<1>2. \A x \in I : (\A i \in I : x <= i) => x = k
  BY <1>1
<1>3. Min(I) = k
  BY <1>1, <1>2 DEF Min
<1> QED
  BY <1>1, <1>3 DEF IndexOf, SelectInSeq

LEMMA IndexOfFacts ==
    ASSUME NEW s \in Seq(Token), NEW t, IndexOf(s, t) # 0
    PROVE  /\ IndexOf(s, t) \in 1 .. Len(s) /\ s[IndexOf(s, t)] = t
           /\ \A i \in 1 .. IndexOf(s, t) - 1 : s[i] # t
<1> DEFINE I == {i \in 1 .. Len(s) : s[i] = t}
<1>1. I # {} /\ IndexOf(s, t) = Min(I)
  BY DEF IndexOf, SelectInSeq
<1>2. PICK k \in I : \A i \in I : k <= i
  <2>1. I \subseteq Nat
    OBVIOUS
  <2> HIDE DEF I
  <2> QED
    BY <1>1, <2>1, Least
<1>3. Min(I) \in I /\ \A i \in I : Min(I) <= i
  BY <1>2 DEF Min
<1>4. ASSUME NEW i \in 1 .. Min(I) - 1 PROVE s[i] # t
  <2>1. Min(I) \in 1 .. Len(s)
    BY <1>3
  <2>2. i \in 1 .. Len(s) /\ ~(Min(I) <= i)
    BY <2>1
  <2> QED
    BY <2>2, <1>3
<1> HIDE DEF I
<1>5. Min(I) \in 1 .. Len(s) /\ s[Min(I)] = t
  BY <1>3 DEF I
<1> QED
  BY <1>1, <1>4, <1>5

LEMMA IndexOfNat == ASSUME NEW s \in Seq(Token), NEW t PROVE IndexOf(s, t) \in 0 .. Len(s)
BY IndexOfFacts

(* An AGENTS.md whose managed block is the first one, and whole.           *)
Managed(a, b) == a \o <<"begin", rules, "end">> \o b

(* The marks of a block that nothing before it is taken for.               *)
LEMMA MarksFound ==
    ASSUME NEW s \in Seq(Token), NEW n \in Nat, n + 3 <= Len(s),
           s[n + 1] = "begin", s[n + 2] = rules, s[n + 3] = "end",
           rules \in {"old", "new"},
           \A i \in 1 .. n : s[i] # "begin" /\ s[i] # "end"
    PROVE  /\ IndexOf(s, "begin") = n + 1 /\ IndexOf(s, "end") = n + 3
           /\ HasBlock(s)
<1>1. Len(s) \in Nat
  OBVIOUS
<1>2. IndexOf(s, "begin") = n + 1
  <2>1. n + 1 \in 1 .. Len(s) /\ \A i \in 1 .. (n + 1) - 1 : s[i] # "begin"
    BY <1>1
  <2> QED
    BY <2>1, IndexOfFirst
<1>3. IndexOf(s, "end") = n + 3
  <2>1. n + 3 \in 1 .. Len(s)
    BY <1>1
  <2>2. ASSUME NEW i \in 1 .. (n + 3) - 1 PROVE s[i] # "end"
    <3>1. i \in 1 .. n \/ i = n + 1 \/ i = n + 2
      OBVIOUS
    <3> QED
      BY <3>1
  <2> QED
    BY <2>1, <2>2, IndexOfFirst
<1> QED
  BY <1>2, <1>3 DEF HasBlock

(* No mark is in these tokens. *)
Unmarked(a) == \A i \in 1 .. Len(a) : a[i] # "begin" /\ a[i] # "end"

(* A managed block is found again, and nothing else of the file is         *)
(* touched.                                                                *)
LEMMA BlockFacts ==
    ASSUME NEW a \in Seq(Token), NEW b \in Seq(Token), rules \in {"old", "new"},
           Unmarked(a)
    PROVE  /\ Managed(a, b) \in Seq(Token) /\ HasBlock(Managed(a, b))
           /\ Managed(a, b)[IndexOf(Managed(a, b), "begin") + 1] = rules
           /\ Own(Managed(a, b)) = a \o b
           /\ renderAgents(Managed(a, b)) = Managed(a, b)
<1> DEFINE k == <<"begin", rules, "end">>
           s == Managed(a, b)
           n == Len(a)
<1>1. /\ k \in Seq(Token) /\ Len(k) = 3
      /\ k[1] = "begin" /\ k[2] = rules /\ k[3] = "end"
  BY DEF Token
<1>2. n \in Nat /\ Len(b) \in Nat
  OBVIOUS
<1>3. s = a \o k \o b
  BY DEF Managed
<1> HIDE DEF k, s
<1>4. /\ s \in Seq(Token) /\ Len(s) = n + 3 + Len(b)
      /\ \A i \in 1 .. n : s[i] = a[i]
      /\ \A i \in 1 .. 3 : s[n + i] = k[i]
      /\ \A i \in 1 .. Len(b) : s[n + 3 + i] = b[i]
  <2>1. k \in Seq(Token)
    BY <1>1
  <2>2. /\ a \o k \o b \in Seq(Token)
        /\ Len(a \o k \o b) = Len(a) + Len(k) + Len(b)
        /\ \A i \in 1 .. Len(a) : (a \o k \o b)[i] = a[i]
        /\ \A i \in 1 .. Len(k) : (a \o k \o b)[Len(a) + i] = k[i]
        /\ \A i \in 1 .. Len(b) : (a \o k \o b)[Len(a) + Len(k) + i] = b[i]
    BY <2>1, ThreeParts
  <2> QED
    BY <2>2, <1>1, <1>3
<1>5. s[n + 1] = "begin" /\ s[n + 2] = rules /\ s[n + 3] = "end"
  BY <1>1, <1>4
<1>6. IndexOf(s, "begin") = n + 1 /\ IndexOf(s, "end") = n + 3 /\ HasBlock(s)
  <2>1. n + 3 <= Len(s) /\ \A i \in 1 .. n : s[i] # "begin" /\ s[i] # "end"
    <3>1. n + 3 <= Len(s)
      BY <1>2, <1>4
    <3>2. \A i \in 1 .. n : a[i] # "begin" /\ a[i] # "end"
      BY DEF Unmarked
    <3> QED
      BY <3>1, <3>2, <1>4
  <2>2. s \in Seq(Token) /\ n \in Nat
    BY <1>2, <1>4
  <2> HIDE DEF n
  <2> QED
    BY <2>1, <2>2, <1>5, MarksFound
<1> HIDE DEF n
<1>7. SubSeq(s, 1, n) = a
  <2> DEFINE v == SubSeq(s, 1, n)
  <2>1. s \in Seq(Token) /\ 1 \in 1 .. Len(s) + 1 /\ n \in 1 - 1 .. Len(s)
    BY <1>2, <1>4
  <2>2. /\ v \in Seq(Token) /\ Len(v) = n - 1 + 1
        /\ \A i \in 1 .. n - 1 + 1 : v[i] = s[1 + i - 1]
    BY <2>1, SubSeqFacts
  <2>3. Len(v) = n /\ \A i \in 1 .. n : v[i] = s[i]
    BY <2>2, <1>2
  <2> HIDE DEF v
  <2>4. Len(v) = Len(a) /\ \A i \in 1 .. Len(v) : v[i] = a[i]
    BY <2>3, <1>4 DEF n
  <2>5. v = a
    BY <2>2, <2>4, SameSequence
  <2> QED
    BY <2>5 DEF v
<1>8. SubSeq(s, n + 4, Len(s)) = b
  <2> DEFINE v == SubSeq(s, n + 4, Len(s))
  <2>1. Len(s) \in Nat /\ n + 4 \in 1 .. Len(s) + 1 /\ Len(s) \in (n + 4) - 1 .. Len(s)
        /\ s \in Seq(Token)
    BY <1>2, <1>4
  <2>2. /\ v \in Seq(Token) /\ Len(v) = Len(s) - (n + 4) + 1
        /\ \A i \in 1 .. Len(s) - (n + 4) + 1 : v[i] = s[n + 4 + i - 1]
    BY <2>1, SubSeqFacts, Zenon
  <2> HIDE DEF v
  <2>3. Len(v) = Len(b) /\ \A i \in 1 .. Len(b) : v[i] = b[i]
    <3>1. Len(v) = Len(b) /\ \A i \in 1 .. Len(b) : n + 4 + i - 1 = n + 3 + i
      BY <1>2, <1>4, <2>2
    <3> QED
      BY <3>1, <1>2, <1>4, <2>2
  <2>4. v = b
    BY <2>2, <2>3, SameSequence
  <2> QED
    BY <2>4 DEF v
<1>9. IndexOf(s, "begin") - 1 = n /\ IndexOf(s, "end") + 1 = n + 4
  BY <1>2, <1>6
<1>10. Own(s) = a \o b
  BY <1>6, <1>7, <1>8, <1>9 DEF Own
<1>11. renderAgents(s) = s
  BY <1>3, <1>6, <1>7, <1>8, <1>9 DEF renderAgents, k
<1>12. s[IndexOf(s, "begin") + 1] = rules
  BY <1>5, <1>6, <1>2
<1> QED
  BY <1>4, <1>6, <1>10, <1>11, <1>12 DEF s

(* What syncAgents makes t of s. *)
Rendered(s, t) ==
    /\ t \in Seq(Token) /\ HasBlock(t)
    /\ t[IndexOf(t, "begin") + 1] = rules
    /\ Own(t) = IF s = <<>> THEN <<"text">> ELSE Own(s)
    /\ renderAgents(t) = t

(* That holds of what renderAgents returns, whatever it was given.         *)
LEMMA RenderFacts ==
    ASSUME NEW s \in Seq(Token), rules \in {"old", "new"}
    PROVE  Rendered(s, renderAgents(s))
<1>1. CASE HasBlock(s)
  <2> DEFINE m == IndexOf(s, "begin")
             n == IndexOf(s, "end")
             a == SubSeq(s, 1, m - 1)
             b == SubSeq(s, n + 1, Len(s))
  <2>1. /\ m \in 1 .. Len(s) /\ n \in 1 .. Len(s) /\ m < n /\ Len(s) \in Nat
        /\ \A i \in 1 .. m - 1 : s[i] # "begin"
        /\ \A i \in 1 .. n - 1 : s[i] # "end"
    <3>1. m \in 0 .. Len(s) /\ n \in 0 .. Len(s) /\ Len(s) \in Nat
      BY IndexOfNat
    <3>2. m # 0 /\ n # 0 /\ m < n
      BY <1>1, <3>1 DEF HasBlock
    <3> QED
      BY <3>1, <3>2, IndexOfFacts
  <2> HIDE DEF m, n
  <2>2. a \in Seq(Token) /\ Len(a) = m - 1 /\ \A i \in 1 .. m - 1 : a[i] = s[i]
    BY <2>1, SubSeqFacts
  <2>3. b \in Seq(Token)
    BY <2>1, SubSeqFacts
  <2> HIDE DEF a, b
  <2>4. Unmarked(a)
    BY <2>1, <2>2 DEF Unmarked
  <2>5. renderAgents(s) = Managed(a, b)
    BY <1>1 DEF renderAgents, Managed, a, b, m, n
  <2>6. Own(s) = a \o b
    BY <1>1 DEF Own, a, b, m, n
  <2>7. s # <<>>
    BY <2>1
  <2> DEFINE t == Managed(a, b)
  <2>8. /\ t \in Seq(Token) /\ HasBlock(t) /\ t[IndexOf(t, "begin") + 1] = rules
        /\ Own(t) = a \o b /\ renderAgents(t) = t
    BY <2>2, <2>3, <2>4, BlockFacts
  <2> HIDE DEF t
  <2>9. Rendered(s, t)
    BY <2>6, <2>7, <2>8 DEF Rendered
  <2> QED
    BY <2>5, <2>9 DEF t
<1>2. CASE ~HasBlock(s)
  <2> DEFINE b == IF s = <<>> THEN <<"text">> ELSE s
             a == <<>>
  <2>1. a \in Seq(Token) /\ b \in Seq(Token) /\ Len(a) = 0
    <3>1. <<"text">> \in Seq(Token)
      BY DEF Token
    <3> QED
      BY <3>1
  <2>2. renderAgents(s) = Managed(a, b)
    BY <1>2, <2>1 DEF renderAgents, Managed
  <2>3. a \o b = IF s = <<>> THEN <<"text">> ELSE Own(s)
    BY <1>2, <2>1 DEF Own
  <2> HIDE DEF a, b
  <2>4. Unmarked(a)
    BY <2>1 DEF Unmarked
  <2> DEFINE t == Managed(a, b)
  <2>5. /\ t \in Seq(Token) /\ HasBlock(t) /\ t[IndexOf(t, "begin") + 1] = rules
        /\ Own(t) = a \o b /\ renderAgents(t) = t
    BY <2>1, <2>4, BlockFacts
  <2> HIDE DEF t
  <2>6. Rendered(s, t)
    BY <2>3, <2>5 DEF Rendered
  <2> QED
    BY <2>2, <2>6 DEF t
<1> QED
  BY <1>1, <1>2

-----------------------------------------------------------------------------
(* Where sync() can stand.                                                 *)
Stages == {"idle", "skill", "copy", "claudeSkill", "agents", "claude", "done"}

(* What each step of sync() leaves to the next.                            *)
SyncInv ==
    /\ version \in 0 .. MaxUpgrades
    /\ agents \in Seq(Token) /\ found \in Seq(Token)
    /\ sync \in Stages /\ (project = "none" => sync = "idle")
    /\ sync \in {"skill", "copy", "claudeSkill", "agents"} => agents = found
    /\ sync \in {"claude", "done"} => agents = renderAgents(found)
    /\ sync \in {"claudeSkill", "agents", "claude", "done"} => skill = rules
    /\ claudeSkill \in {"none", "link", "broken", "partial", "old", "new"}
    /\ sync \in {"agents", "claude", "done"} => claudeSkill # "none"
    /\ claude \in {"none", "imports", "other"}
    /\ sync = "done" => claude # "none"

LEMMA RulesKnown == SyncInv => rules \in {"old", "new"}
BY DEF rules, Version

LEMMA SyncStep == SyncInv /\ [MethodologyNext]_methodologyVars => SyncInv'
<1> SUFFICES ASSUME SyncInv, [MethodologyNext]_methodologyVars PROVE SyncInv'
  OBVIOUS
<1>1. CASE Project
  <2>1. agents' \in Seq(Token) 
    BY <1>1, MethodologyAssumption DEF Project, SeqOf, Token
  <2> QED
    BY <1>1, <2>1 DEF Project, SyncInv, rules
<1>2. CASE SyncStarts
  BY <1>2 DEF SyncStarts, SyncInv, rules, Stages
<1>3. CASE syncSkill
  BY <1>3 DEF syncSkill, SyncInv, rules, Stages, skillDrifts
<1>4. CASE copyTree
  BY <1>4 DEF copyTree, SyncInv, rules, Stages
<1>5. CASE syncClaudeSkill
  BY <1>5, RulesKnown DEF syncClaudeSkill, SyncInv, rules, Stages
<1>6. CASE syncAgents
  <2>1. agents = found /\ agents \in Seq(Token)
    BY <1>6 DEF syncAgents, SyncInv
  <2>2. renderAgents(agents) \in Seq(Token)
    BY <2>1, RenderFacts, RulesKnown DEF Rendered
  <2>3. agents' = renderAgents(found)' /\ found' = found /\ agents' \in Seq(Token)
    BY <1>6, <2>1, <2>2 DEF syncAgents, renderAgents, rules
  <2> QED
    BY <1>6, <2>3 DEF syncAgents, SyncInv, rules, Stages
<1>7. CASE syncClaude
  BY <1>7 DEF syncClaude, SyncInv, rules, Stages, renderAgents
<1>8. CASE SyncFails
  BY <1>8 DEF SyncFails, SyncInv, rules, Stages
<1>9. CASE Upgrade
  BY <1>9, MethodologyAssumption DEF Upgrade, SyncInv, Stages
<1>10. CASE SyncAgain
  BY <1>10 DEF SyncAgain, SyncInv, Stages
<1>11. CASE UNCHANGED methodologyVars
  BY <1>11 DEF methodologyVars, SyncInv, rules, renderAgents
<1> QED
  BY <1>1, <1>2, <1>3, <1>4, <1>5, <1>6, <1>7, <1>8, <1>9, <1>10, <1>11 DEF MethodologyNext

(* Methodology.sync and check, for an AGENTS.md of any length and wherever *)
(* an earlier sync() was cut short: one that completes leaves the rules of *)
(* this version, the text of the project, and nothing that a further one   *)
(* would write.                                                            *)
THEOREM SyncAlwaysConverges == MethodologySpec => []SyncConverges
<1>1. MethodologyInit => SyncInv
  BY MethodologyAssumption DEF MethodologyInit, SyncInv, Stages
<1>2. SyncInv => SyncConverges
  <2> SUFFICES ASSUME SyncInv, sync = "done" PROVE SyncConverges
    BY DEF SyncConverges
  <2>1. /\ HasBlock(agents)
        /\ agents[IndexOf(agents, "begin") + 1] = rules
        /\ Own(agents) = IF found = <<>> THEN <<"text">> ELSE Own(found)
        /\ agents = renderAgents(agents)
    <3>1. found \in Seq(Token) /\ agents = renderAgents(found)
      BY DEF SyncInv
    <3> QED
      BY <3>1, RenderFacts, RulesKnown DEF Rendered
  <2>2. ASSUME NEW i \in Issues
        PROVE  \/ i = "claudeSkill" /\ claudeSkill = "broken"
               \/ i = "claude" /\ claude = "other"
    BY <2>1, RulesKnown DEF Issues, SyncInv, LinkFollowed, skillDrifts
  <2> QED
    BY <2>1, <2>2 DEF SyncConverges
<1> QED
  BY <1>1, <1>2, SyncStep, PTL DEF MethodologySpec

-----------------------------------------------------------------------------
(* The start order.                                                        *)
(*                                                                         *)
(* The invariant relates the order to the stack of calls: what is in the   *)
(* order has its dependencies before it (Placed), each call depends on the *)
(* calls it led to (Stacked), and every app was visited for the sake of an *)
(* app of the configuration whose predecessors were done (ForARoot).       *)

(* The apps whose visit() has returned, and those whose visit() has not.   *)
Done == Range(order)
Open == Range(path)

(* Types, without the bound on the length of a dependsOn list.             *)
OrderTypes ==
    /\ dependsOn \in [App -> Seq(App \cup {Unknown})]
    /\ next \in 1 .. Len(Apps) + 1
    /\ path \in Seq(App)
    /\ turn \in [App -> Nat]
    /\ order \in Seq(App)
    /\ walk \in {"none", "walking", "resolved", "circular", "unknown"}

(* Dependence as a set of pairs.                                           *)
Needs == {e \in App \X App : DependsTransitively(e[1], e[2])}

(* No app is twice on the stack or in the order, nor in both.              *)
EachOnce == IsInjective(order) /\ IsInjective(path) /\ Done \cap Open = {}

(* What is in the order has all that it depends on before it.              *)
Placed ==
    \A p \in 1 .. Len(order) : \A b \in Range(dependsOn[order[p]]) :
        \E q \in 1 .. p - 1 : order[q] = b

(* What a call has looped over is done, but for the call it waits for.     *)
LoopedOver ==
    walk = "walking" =>
        \A k \in 1 .. Len(path) :
            /\ turn[path[k]] <= Len(dependsOn[path[k]])
            /\ \A i \in 1 .. turn[path[k]] :
                  \/ dependsOn[path[k]][i] \in Done
                  \/ k < Len(path) /\ dependsOn[path[k]][i] = path[k + 1]

NotVisited == \A a \in App \ (Done \cup Open) : turn[a] = 0

(* A call depends on every call it has led to.                             *)
Stacked ==
    \A k, l \in 1 .. Len(path) : k < l => <<path[k], path[l]>> \in Needs

(* The first call is of the app that the outer loop is at; the apps before *)
(* it are done.                                                            *)
Rooted ==
    /\ path # <<>> => next > 1 /\ path[1] = Apps[next - 1]
    /\ \A i \in 1 .. next - 1 :
          Apps[i] \in Done \/ (i = next - 1 /\ path # <<>>)

(* Each app of the order was put there for the sake of an app of the       *)
(* configuration, when all the apps listed before that one were done.      *)
ForARoot ==
    \A p \in 1 .. Len(order) :
        \E k \in 1 .. Len(Apps) :
            /\ Apps[k] = order[p] \/ <<Apps[k], order[p]>> \in Needs
            /\ \A i \in 1 .. k - 1 : \E q \in 1 .. p - 1 : order[q] = Apps[i]

(* What each end of the walk means.                                        *)
Ends ==
    /\ walk = "none" => path = <<>> /\ order = <<>> /\ next = 1
    /\ walk = "circular" => \E a \in App : <<a, a>> \in Needs
    /\ walk = "unknown" => \E a \in App : Depends(a, Unknown)
    /\ walk = "resolved" => path = <<>> /\ next = Len(Apps) + 1

(* The inductive invariant of the walk.                                    *)
OrderInv ==
    /\ OrderTypes /\ EachOnce /\ Placed /\ LoopedOver /\ NotVisited
    /\ Stacked /\ Rooted /\ ForARoot /\ Ends

-----------------------------------------------------------------------------
(* Lemmas on dependence.                                                   *)
LEMMA NeedsDirectly ==
    ASSUME NEW a \in App, NEW b \in App, Depends(a, b)
    PROVE  <<a, b>> \in Needs
BY DEF DependsTransitively, Needs

LEMMA NeedsFurther ==
    ASSUME NEW a \in App, NEW b \in App, NEW c \in App,
           <<a, b>> \in Needs, Depends(b, c)
    PROVE  <<a, c>> \in Needs
BY DEF DependsTransitively, Needs

LEMMA NeedsSame == ASSUME dependsOn' = dependsOn PROVE Needs' = Needs
BY DEF DependsTransitively, Depends, Needs

(* A step that leaves the order alone.                                     *)
LEMMA OrderSame ==
    ASSUME OrderInv, order' = order, dependsOn' = dependsOn
    PROVE  Placed' /\ ForARoot'
<1>1. Needs' = Needs
  BY NeedsSame
<1>2. Placed /\ ForARoot
  BY DEF OrderInv
<1>3. Placed'
  BY <1>2 DEF Placed
<1>4. ForARoot'
  BY <1>1, <1>2 DEF ForARoot
<1> QED
  BY <1>3, <1>4

LEMMA WalkFacts ==
    ASSUME OrderInv
    PROVE  /\ order \in Seq(App) /\ Len(order) \in Nat
           /\ DOMAIN order = 1 .. Len(order)
           /\ \A p \in 1 .. Len(order) : order[p] \in App
           /\ path \in Seq(App) /\ Len(path) \in Nat
           /\ DOMAIN path = 1 .. Len(path)
           /\ \A k \in 1 .. Len(path) : path[k] \in App
           /\ Len(Apps) \in Nat /\ DOMAIN Apps = 1 .. Len(Apps)
           /\ \A i \in 1 .. Len(Apps) : Apps[i] \in App
<1>1. order \in Seq(App) /\ path \in Seq(App)
  BY DEF OrderInv, OrderTypes
<1> QED
  BY <1>1, DistinctAssumption

-----------------------------------------------------------------------------
(* What each step leaves of the invariant.                                 *)

LEMMA OrderInitInv == OrderInit => OrderInv
<1> SUFFICES ASSUME OrderInit PROVE OrderInv
  OBVIOUS
<1>1. OrderTypes
  BY DistinctAssumption DEF OrderInit, OrderTypes
<1> QED
  BY <1>1 DEF OrderInit, OrderInv, EachOnce, Placed, LoopedOver, NotVisited,
              Stacked, Rooted, ForARoot, Ends, Done, Open, IsInjective, Range

LEMMA ConfigureInv == OrderInv /\ Configure => OrderInv'
<1> SUFFICES ASSUME OrderInv, Configure PROVE OrderInv'
  OBVIOUS
<1>1. path = <<>> /\ order = <<>> /\ next = 1
  BY DEF OrderInv, Ends, Configure
<1>2. DependsOn \subseteq Seq(App \cup {Unknown})
  BY MaxDepsAssumption DEF DependsOn, SeqOf
<1>3. OrderTypes'
  BY <1>2 DEF OrderInv, OrderTypes, Configure
<1> QED
  BY <1>1, <1>3 DEF Configure, OrderInv, EachOnce, Placed, LoopedOver,
        NotVisited, Stacked, Rooted, ForARoot, Ends, Done, Open, IsInjective, Range

LEMMA ResolvedInv == OrderInv /\ Resolved => OrderInv'
<1> SUFFICES ASSUME OrderInv, Resolved PROVE OrderInv'
  OBVIOUS
<1>1. Done' = Done /\ Open' = Open
  BY DEF Done, Open, Resolved
<1>2. next = Len(Apps) + 1
  BY DistinctAssumption DEF Resolved, OrderInv, OrderTypes
<1>3. OrderTypes'
  BY DEF OrderInv, OrderTypes, Resolved
<1>4. EachOnce' /\ NotVisited' /\ Rooted'
  BY <1>1 DEF OrderInv, EachOnce, NotVisited, Rooted, Resolved
<1>5. Placed' /\ ForARoot' /\ Stacked'
  BY NeedsSame DEF OrderInv, Placed, ForARoot, Stacked, Resolved
<1>6. LoopedOver' /\ Ends'
  BY <1>2 DEF LoopedOver, Ends, Resolved
<1> QED
  BY <1>3, <1>4, <1>5, <1>6 DEF OrderInv

(* The walk goes on, one call deeper.                                      *)
(* visit() of an app that is neither done nor open: a call begins.         *)
LEMMA PushInv ==
    ASSUME OrderInv, walk = "walking", walk' = "walking",
           NEW b \in App, b \notin Done, b \notin Open, path' = Append(path, b),
           UNCHANGED <<dependsOn, order>>, OrderTypes', 
           \A k \in DOMAIN path : Last(path) = path[Len(path)] /\ Depends(Last(path), b),
           \A a \in App :
              \/ turn'[a] = turn[a]
              \/ /\ path # <<>> /\ a = Last(path) /\ turn'[a] = turn[a] + 1
                 /\ turn[a] < Len(dependsOn[a]) /\ dependsOn[a][turn[a] + 1] = b,
           Rooted'
    PROVE  OrderInv'
<1>1. Done' = Done /\ Open' = Open \cup {b}
  BY WalkFacts, AppendRange DEF Done, Open
<1>2. EachOnce'
  BY <1>1, WalkFacts, AppendOnce DEF OrderInv, EachOnce, Done, Open
<1>3. Placed' /\ ForARoot'
  BY OrderSame
<1>4. NotVisited'
  <2> SUFFICES ASSUME NEW a \in App \ (Done' \cup Open') PROVE turn'[a] = 0
    BY DEF NotVisited
  <2>1. turn[a] = 0 
    BY <1>1 DEF OrderInv, NotVisited
  <2>2. path # <<>> => a # Last(path)
    BY <1>1, WalkFacts, FrontFacts DEF Open
  <2> QED
    BY <2>1, <2>2
<1>5. Stacked'
  <2> SUFFICES ASSUME NEW k \in 1 .. Len(path'), NEW l \in 1 .. Len(path'), k < l
               PROVE  <<path'[k], path'[l]>> \in Needs
    BY NeedsSame DEF Stacked
  <2>0. /\ Len(path') = Len(path) + 1 /\ path'[Len(path) + 1] = b
        /\ \A i \in 1 .. Len(path) : path'[i] = path[i]
    BY WalkFacts, AppendFacts
  <2>1. k \in 1 .. Len(path) /\ path'[k] = path[k] /\ path[k] \in App
    BY <2>0, WalkFacts
  <2>2. CASE l \in 1 .. Len(path)
    BY <2>0, <2>1, <2>2 DEF OrderInv, Stacked
  <2>3. CASE l \notin 1 .. Len(path)
    <3>1. l = Len(path) + 1
      BY <2>3, WalkFacts, AppendFacts
    <3>2. path'[l] = b /\ Last(path) = path[Len(path)] /\ Depends(Last(path), b)
      BY <2>0, <2>1, <3>1, WalkFacts
    <3>3. CASE k = Len(path)
      BY <3>2, <3>3, <2>1, NeedsDirectly
    <3>4. CASE k # Len(path)
      <4>1. k < Len(path) /\ Len(path) \in 1 .. Len(path) /\ path[Len(path)] \in App
        BY <2>1, <3>4, WalkFacts
      <4>2. <<path[k], Last(path)>> \in Needs
        BY <2>1, <4>1, <3>2 DEF OrderInv, Stacked
      <4> QED
        BY <4>1, <4>2, <3>2, <2>1, NeedsFurther
    <3> QED
      BY <3>3, <3>4
  <2> QED
    BY <2>2, <2>3
<1>6. LoopedOver'
  <2> SUFFICES ASSUME NEW k \in 1 .. Len(path')
               PROVE  /\ turn'[path'[k]] <= Len(dependsOn[path'[k]])
                      /\ \A i \in 1 .. turn'[path'[k]] :
                            \/ dependsOn[path'[k]][i] \in Done
                            \/ k < Len(path') /\ dependsOn[path'[k]][i] = path'[k + 1]
    BY <1>1 DEF LoopedOver
  <2>1. CASE k \notin 1 .. Len(path)
    <3>1. path'[k] = b
      BY <2>1, WalkFacts, AppendFacts
    <3>2. turn[b] = 0
      BY DEF OrderInv, NotVisited
    <3>3. path # <<>> => b # Last(path)
      BY WalkFacts, FrontFacts DEF Open
    <3>4. turn'[b] = 0 /\ Len(dependsOn[b]) \in Nat
      BY <3>2, <3>3 DEF OrderInv, OrderTypes
    <3> QED
      BY <3>1, <3>4
  <2>2. CASE k \in 1 .. Len(path)
    <3> DEFINE a == path[k]
    <3>1. a \in App /\ path'[k] = a /\ k < Len(path') /\ path # <<>>
      BY <2>2, WalkFacts, AppendFacts
    <3>2. /\ turn[a] <= Len(dependsOn[a]) /\ turn[a] \in Nat
          /\ \A i \in 1 .. turn[a] :
                \/ dependsOn[a][i] \in Done
                \/ k < Len(path) /\ dependsOn[a][i] = path[k + 1]
      BY <2>2, <3>1 DEF OrderInv, OrderTypes, LoopedOver
    <3>3. k < Len(path) => path'[k + 1] = path[k + 1]
      BY <2>2, WalkFacts, AppendFacts
    <3> HIDE DEF a
    <3>4. CASE turn'[a] = turn[a]
      BY <3>1, <3>2, <3>3, <3>4
    <3>5. CASE turn'[a] # turn[a]
      <4>1. a = Last(path) /\ turn'[a] = turn[a] + 1
            /\ turn[a] < Len(dependsOn[a]) /\ dependsOn[a][turn[a] + 1] = b
        BY <3>1, <3>5
      <4>2. Len(path) \in 1 .. Len(path) /\ path[k] = path[Len(path)]
        <5>1. Len(path) \in Nat \ {0} /\ Last(path) = path[Len(path)]
          BY <3>1, WalkFacts, FrontFacts
        <5> QED
          BY <5>1, <4>1 DEF a
      <4>3. k = Len(path)
        BY <4>2, <2>2, WalkFacts DEF OrderInv, EachOnce, IsInjective
      <4>4. path'[k + 1] = b
        BY <4>3, WalkFacts, AppendFacts
      <4>5. turn'[a] <= Len(dependsOn[a])
        BY <3>1, <4>1 DEF OrderInv, OrderTypes
      <4>6. ASSUME NEW i \in 1 .. turn'[a]
            PROVE  \/ dependsOn[a][i] \in Done
                   \/ dependsOn[a][i] = path'[k + 1]
        <5>1. CASE i = turn[a] + 1
          BY <5>1, <4>1, <4>4
        <5>2. CASE i # turn[a] + 1
          <6>1. turn[a] \in Nat /\ i \in 1 .. turn[a] + 1
            BY <3>2, <4>1
          <6>2. ~(k < Len(path))
            BY <4>3, WalkFacts
          <6> QED
            BY <5>2, <6>1, <6>2, <3>2
        <5> QED
          BY <5>1, <5>2
      <4> QED
        BY <3>1, <4>5, <4>6
    <3> QED
      BY <3>4, <3>5
  <2> QED
    BY <2>1, <2>2
<1>7. Ends'
  BY DEF Ends
<1> QED
  BY <1>2, <1>3, <1>4, <1>5, <1>6, <1>7 DEF OrderInv

LEMMA VisitAppInv == OrderInv /\ visitApp => OrderInv'
<1> SUFFICES ASSUME OrderInv, visitApp PROVE OrderInv'
  OBVIOUS
<1> DEFINE a == Apps[next]
<1>1. a \in App /\ next' \in 1 .. Len(Apps) + 1 /\ next' - 1 = next
  BY DistinctAssumption DEF visitApp, OrderInv, OrderTypes
<1>2. Open = {} /\ walk' = "walking"
  BY DEF Open, Range, visitApp, visit
<1>3. OrderTypes'
  BY <1>1, <1>2, AppendFacts DEF OrderInv, OrderTypes, visitApp, visit
<1>4. CASE a \in Done
  <2>1. UNCHANGED <<dependsOn, path, turn, order, walk>> /\ Done' = Done /\ Open' = Open
    BY <1>2, <1>4 DEF visitApp, visit, Done, Open
  <2>2. Rooted'
    BY <2>1, <1>1, <1>4 DEF OrderInv, OrderTypes, Rooted, visitApp
  <2>3. EachOnce' /\ NotVisited' /\ LoopedOver'
    BY <2>1 DEF OrderInv, EachOnce, NotVisited, LoopedOver
  <2>4. Placed' /\ ForARoot' /\ Stacked'
    BY <2>1, NeedsSame DEF OrderInv, Placed, ForARoot, Stacked
  <2>5. Ends'
    BY <1>2 DEF Ends
  <2> QED
    BY <1>3, <2>2, <2>3, <2>4, <2>5 DEF OrderInv
<1>5. CASE a \notin Done
  <2>1. path' = Append(path, a)
    BY <1>2, <1>5 DEF visitApp, visit, Done, Open
  <2>2. Rooted'
    <3>1. path'[1] = a /\ path' # <<>>
      BY <2>1, <1>1, AppendFacts DEF OrderInv, OrderTypes, visitApp
    <3>2. Done' = Done
      BY DEF Done, visitApp
    <3> QED
      BY <3>1, <3>2, <1>1 DEF OrderInv, OrderTypes, Rooted, visitApp
  <2>3. DOMAIN path = {} /\ path = <<>> /\ walk = "walking"
        /\ UNCHANGED <<dependsOn, turn, order>>
    BY DEF visitApp
  <2>4. a \notin Open
    BY <1>2
  <2> HIDE DEF a
  <2> QED
    BY <1>1, <1>2, <1>3, <1>5, <2>1, <2>2, <2>3, <2>4, PushInv
<1> QED
  BY <1>4, <1>5

LEMMA VisitDepInv == OrderInv /\ visitDep => OrderInv'
<1> SUFFICES ASSUME OrderInv, visitDep PROVE OrderInv'
  OBVIOUS
<1> DEFINE a == Last(path)
           n == Len(path)
           i == turn[a] + 1
           dep == dependsOn[a][i]
<1>1. /\ walk = "walking" /\ path # <<>>
      /\ turn[a] < Len(dependsOn[a])
      /\ turn' = [turn EXCEPT ![a] = @ + 1]
      /\ IF dep \in App THEN visit(dep)
                        ELSE walk' = "unknown" /\ UNCHANGED path
      /\ UNCHANGED <<dependsOn, next, order>>
  BY DEF visitDep
<1> HIDE DEF a, i, dep
<1>2. n \in DOMAIN path /\ a = path[n] /\ a \in App /\ turn[a] \in Nat /\ a \in Open
  <2>1. n \in DOMAIN path /\ a = path[n] /\ a \in App /\ a \in Open
    <3>1. path \in Seq(App) /\ DOMAIN path = 1 .. n /\ path # <<>>
      BY <1>1, WalkFacts
    <3>2. /\ n \in Nat \ {0} /\ Last(path) = path[n]
          /\ Last(path) \in App /\ Last(path) \in Range(path)
      BY <3>1, FrontFacts
    <3> QED
      BY <3>1, <3>2 DEF a, Open
  <2> QED
    BY <2>1 DEF OrderInv, OrderTypes
<1>3. Depends(a, dep) /\ dep \in App \cup {Unknown}
  BY <1>1, <1>2 DEF Depends, Range, dep, i, OrderInv, OrderTypes
<1>4. OrderTypes'
  <2>1. walk' \in {"walking", "circular", "unknown"}
    BY <1>1 DEF visit
  <2>2. path' = path \/ (dep \in App /\ path' = Append(path, dep))
    BY <1>1 DEF visit
  <2>3. path' \in Seq(App)
    BY <2>2, WalkFacts, AppendFacts
  <2>4. turn' \in [App -> Nat]
    <3>1. turn \in [App -> Nat] /\ turn' = [turn EXCEPT ![a] = @ + 1]
      BY <1>1 DEF OrderInv, OrderTypes
    <3> QED
      BY <3>1, <1>2
  <2>5. /\ dependsOn' \in [App -> Seq(App \cup {Unknown})]
        /\ next' \in 1 .. Len(Apps) + 1 /\ order' \in Seq(App)
    BY <1>1 DEF OrderInv, OrderTypes
  <2> QED
    BY <2>1, <2>3, <2>4, <2>5 DEF OrderTypes
<1>5. Done' = Done
  BY <1>1 DEF Done
<1>6. Placed' /\ ForARoot'
  BY <1>1, OrderSame
<1>7. ASSUME path' = path
      PROVE  EachOnce' /\ Stacked' /\ Rooted' /\ NotVisited'
  <2>1. Open' = Open
    BY <1>7 DEF Open
  <2>2. EachOnce' /\ Rooted'
    BY <1>1, <1>5, <1>7, <2>1 DEF OrderInv, EachOnce, Rooted
  <2>3. NotVisited'
    BY <1>1, <1>2, <1>5, <2>1 DEF OrderInv, OrderTypes, NotVisited
  <2> QED
    BY <1>1, <1>7, <2>2, <2>3, NeedsSame DEF OrderInv, Stacked
<1>8. CASE dep \notin App
  <2>1. walk' = "unknown" /\ path' = path /\ Unknown \in Range(dependsOn'[a])
    BY <1>1, <1>3, <1>8 DEF Depends
  <2>2. LoopedOver' /\ Ends'
    BY <1>2, <2>1 DEF LoopedOver, Ends, Depends
  <2> QED
    BY <1>4, <1>6, <1>7, <2>1, <2>2 DEF OrderInv
<1>9. CASE dep \in Open
  <2>1. dep \in App /\ path' = path /\ walk' = "circular"
    BY <1>1, <1>9 DEF Open, Range, OrderInv, OrderTypes, visit
  <2>2. PICK k \in 1 .. n : dep = path[k]
    BY <1>9, WalkFacts DEF Open, Range
  <2>3. <<dep, dep>> \in Needs
    <3>1. CASE k = n
      BY <3>1, <2>2, <1>2, <1>3, <2>1, NeedsDirectly
    <3>2. CASE k # n
      <4>1. <<dep, a>> \in Needs
        BY <3>2, <2>2, <1>2, WalkFacts DEF OrderInv, Stacked
      <4> QED
        BY <4>1, <1>2, <1>3, <2>1, NeedsFurther
    <3> QED
      BY <3>1, <3>2
  <2>4. LoopedOver' /\ Ends'
    BY <2>1, <2>3, <1>1, NeedsSame DEF LoopedOver, Ends
  <2> QED
    BY <1>4, <1>6, <1>7, <2>1, <2>4 DEF OrderInv
<1>10. CASE dep \in Done
  <2>1. dep \in App /\ dep \notin Open
    BY <1>10 DEF Done, Range, OrderInv, OrderTypes, EachOnce
  <2>2. path' = path /\ walk' = "walking"
    BY <1>1, <2>1, <1>10 DEF Done, Open, visit
  <2>3. LoopedOver'
    <3> SUFFICES ASSUME NEW k \in 1 .. Len(path)
                 PROVE  /\ turn'[path[k]] <= Len(dependsOn[path[k]])
                        /\ \A j \in 1 .. turn'[path[k]] :
                              \/ dependsOn[path[k]][j] \in Done
                              \/ k < Len(path) /\ dependsOn[path[k]][j] = path[k + 1]
      BY <1>1, <1>5, <2>2 DEF LoopedOver
    <3>1. path[k] \in App
      BY WalkFacts
    <3>2. /\ turn[path[k]] <= Len(dependsOn[path[k]])
          /\ \A j \in 1 .. turn[path[k]] :
                \/ dependsOn[path[k]][j] \in Done
                \/ k < Len(path) /\ dependsOn[path[k]][j] = path[k + 1]
      BY <1>1 DEF OrderInv, LoopedOver
    <3>3. CASE path[k] # a
      <4>1. turn'[path[k]] = turn[path[k]]
        BY <3>1, <3>3, <1>1 DEF OrderInv, OrderTypes
      <4> QED
        BY <4>1, <3>2
    <3>4. CASE path[k] = a
      <4>1. turn'[a] = i /\ i \in Nat
        BY <1>1, <1>2 DEF OrderInv, OrderTypes, i
      <4>2. ASSUME NEW j \in 1 .. i
            PROVE  \/ dependsOn[a][j] \in Done
                   \/ k < Len(path) /\ dependsOn[a][j] = path[k + 1]
        <5>1. CASE j = i
          BY <5>1, <1>10 DEF dep
        <5>2. CASE j # i
          BY <5>2, <3>2, <3>4, <1>2 DEF i
        <5> QED
          BY <5>1, <5>2
      <4>3. i <= Len(dependsOn[a])
        BY <1>1, <1>2 DEF i, OrderInv, OrderTypes
      <4> QED
        BY <4>1, <4>2, <4>3, <3>4
    <3> QED
      BY <3>3, <3>4
  <2>4. Ends'
    BY <2>2 DEF Ends
  <2> QED
    BY <1>4, <1>6, <1>7, <2>2, <2>3, <2>4 DEF OrderInv
<1>11. CASE dep \in App /\ dep \notin Open /\ dep \notin Done
  <2>1. path' = Append(path, dep) /\ walk' = "walking"
    BY <1>1, <1>11 DEF visit, Done, Open
  <2>2. Rooted'
    <3>1. path' # <<>> /\ path'[1] = path[1]
      BY <2>1, <1>1, <1>2, <1>11, WalkFacts, AppendFacts
    <3> QED
      BY <3>1, <1>1, <1>5 DEF OrderInv, Rooted
  <2>3. \A c \in App :
            \/ turn'[c] = turn[c]
            \/ /\ path # <<>> /\ c = Last(path) /\ turn'[c] = turn[c] + 1
               /\ turn[c] < Len(dependsOn[c]) /\ dependsOn[c][turn[c] + 1] = dep
    <3>1. \A c \in App \ {a} : turn'[c] = turn[c]
      BY <1>1 DEF OrderInv, OrderTypes
    <3>2. turn'[a] = turn[a] + 1
      BY <1>1, <1>2 DEF OrderInv, OrderTypes
    <3>3. dependsOn[a][turn[a] + 1] = dep /\ a = Last(path)
      BY DEF a, dep, i
    <3> QED
      BY <1>1, <3>1, <3>2, <3>3
  <2>4. \A k \in DOMAIN path : Last(path) = path[Len(path)] /\ Depends(Last(path), dep)
    BY <1>2, <1>3 DEF a
  <2> QED
    BY <1>1, <1>4, <1>11, <2>1, <2>2, <2>3, <2>4, PushInv
<1> QED
  BY <1>8, <1>9, <1>10, <1>11

LEMMA VisitedInv == OrderInv /\ visited => OrderInv'
<1> SUFFICES ASSUME OrderInv, visited PROVE OrderInv'
  OBVIOUS
<1> DEFINE a == Last(path)
           n == Len(path)
<1>1. /\ walk = "walking" /\ path # <<>> /\ turn[a] = Len(dependsOn[a])
      /\ path' = Front(path) /\ order' = Append(order, a)
      /\ UNCHANGED <<dependsOn, next, turn, walk>>
  BY DEF visited
<1>2. n \in DOMAIN path /\ a = path[n] /\ a \in App /\ a \in Open /\ n \in Nat \ {0}
  BY <1>1, FrontFacts DEF OrderInv, OrderTypes, Open
<1> HIDE DEF a
<1>3. /\ Open' = Open \ {a} /\ IsInjective(path') /\ path' \in Seq(App)
      /\ Len(path') = n - 1 /\ DOMAIN path' = 1 .. n - 1
      /\ \A k \in 1 .. n - 1 : path'[k] = path[k]
  BY <1>1, FrontFacts, FrontRange DEF OrderInv, OrderTypes, EachOnce, Open, a
<1>4. /\ Done' = Done \cup {a} /\ order' \in Seq(App)
      /\ Len(order') = Len(order) + 1 /\ DOMAIN order' = 1 .. Len(order) + 1
      /\ order'[Len(order) + 1] = a
      /\ \A p \in 1 .. Len(order) : order'[p] = order[p]
  BY <1>1, <1>2, AppendFacts, AppendRange DEF OrderInv, OrderTypes, Done
<1>5. OrderTypes'
  BY <1>1, <1>3, <1>4 DEF OrderInv, OrderTypes
<1>6. EachOnce'
  <2>1. IsInjective(order')
    BY <1>1, <1>2, AppendOnce DEF OrderInv, OrderTypes, EachOnce, Done
  <2> QED
    BY <2>1, <1>3, <1>4 DEF OrderInv, EachOnce
<1>7. NotVisited'
  BY <1>1, <1>2, <1>3, <1>4 DEF OrderInv, NotVisited
<1>8. Stacked'
  <2>1. Needs' = Needs
    BY <1>1, NeedsSame
  <2>2. \A k, l \in 1 .. n : k < l => <<path[k], path[l]>> \in Needs
    BY DEF OrderInv, Stacked
  <2>3. ASSUME NEW k \in 1 .. n - 1, NEW l \in 1 .. n - 1, k < l
        PROVE  <<path'[k], path'[l]>> \in Needs
    <3>1. k \in 1 .. n /\ l \in 1 .. n /\ path'[k] = path[k] /\ path'[l] = path[l]
      BY <1>2, <1>3
    <3> QED
      BY <2>2, <2>3, <3>1
  <2> QED
    BY <1>3, <2>1, <2>3 DEF Stacked
<1>9. Ends'
  BY <1>1 DEF Ends
<1>10. Placed'
  <2> SUFFICES ASSUME NEW p \in 1 .. Len(order) + 1, NEW b \in Range(dependsOn[order'[p]])
               PROVE  \E q \in 1 .. p - 1 : order'[q] = b
    BY <1>1, <1>4 DEF Placed
  <2>1. CASE p \in 1 .. Len(order)
    <3>1. PICK q \in 1 .. p - 1 : order[q] = b
      BY <2>1, <1>4 DEF OrderInv, Placed
    <3>2. q \in 1 .. Len(order)
      BY <2>1, WalkFacts
    <3> QED
      BY <3>1, <3>2, <1>4
  <2>2. CASE p = Len(order) + 1
    <3>1. PICK i \in 1 .. Len(dependsOn[a]) : b = dependsOn[a][i]
      BY <2>2, <1>2, <1>4 DEF Range, OrderInv, OrderTypes
    <3>2. b \in Done
      BY <3>1, <1>1, <1>2 DEF OrderInv, LoopedOver
    <3>3. PICK q \in 1 .. Len(order) : order[q] = b
      BY <3>2, WalkFacts DEF Done, Range
    <3> QED
      BY <2>2, <3>3, <1>4, WalkFacts
  <2> QED
    BY <2>1, <2>2, WalkFacts
<1>11. LoopedOver'
  <2> SUFFICES ASSUME NEW k \in 1 .. n - 1
               PROVE  /\ turn[path[k]] <= Len(dependsOn[path[k]])
                      /\ \A i \in 1 .. turn[path[k]] :
                            \/ dependsOn[path[k]][i] \in Done'
                            \/ k < n - 1 /\ dependsOn[path[k]][i] = path[k + 1]
    <3>1. \A l \in 1 .. n - 1 : l < n - 1 => path'[l + 1] = path[l + 1]
      BY <1>2, <1>3
    <3>2. /\ Len(path') = n - 1 /\ turn' = turn /\ dependsOn' = dependsOn
          /\ \A l \in 1 .. n - 1 : path'[l] = path[l]
      BY <1>1, <1>3
    <3>3. SUFFICES ASSUME NEW l \in 1 .. n - 1
                   PROVE  /\ turn[path'[l]] <= Len(dependsOn[path'[l]])
                          /\ \A i \in 1 .. turn[path'[l]] :
                                \/ dependsOn[path'[l]][i] \in Done'
                                \/ l < n - 1 /\ dependsOn[path'[l]][i] = path'[l + 1]
      BY <3>2 DEF LoopedOver
    <3> QED
      BY <3>1, <3>2
  <2>1. /\ turn[path[k]] <= Len(dependsOn[path[k]])
        /\ \A i \in 1 .. turn[path[k]] :
              \/ dependsOn[path[k]][i] \in Done
              \/ k < n /\ dependsOn[path[k]][i] = path[k + 1]
    BY <1>1, <1>2 DEF OrderInv, LoopedOver
  <2>2. k + 1 = n => path[k + 1] \in Done'
    BY <1>2, <1>4
  <2> QED
    BY <2>1, <2>2, <1>2, <1>4
<1>12. Rooted'
  <2>1. path' # <<>> => path'[1] = path[1]
    <3>1. path' # <<>> => Len(path') # 0
      BY <1>3
    <3> QED
      BY <3>1, <1>2, <1>3
  <2>2. ASSUME path' = <<>> PROVE a = path[1]
    <3>1. Len(path') = 0
      BY <2>2
    <3> QED
      BY <3>1, <1>2, <1>3
  <2> QED
    BY <1>1, <1>4, <2>1, <2>2 DEF OrderInv, Rooted
<1>13. ForARoot'
  <2> SUFFICES ASSUME NEW p \in 1 .. Len(order) + 1
               PROVE  \E k \in 1 .. Len(Apps) :
                         /\ Apps[k] = order'[p] \/ <<Apps[k], order'[p]>> \in Needs
                         /\ \A i \in 1 .. k - 1 : \E q \in 1 .. p - 1 : order'[q] = Apps[i]
    BY <1>1, <1>4, NeedsSame DEF ForARoot
  <2>1. CASE p \in 1 .. Len(order)
    <3>1. PICK k \in 1 .. Len(Apps) :
             /\ Apps[k] = order[p] \/ <<Apps[k], order[p]>> \in Needs
             /\ \A i \in 1 .. k - 1 : \E q \in 1 .. p - 1 : order[q] = Apps[i]
      BY <2>1 DEF OrderInv, ForARoot
    <3>2. \A q \in 1 .. p - 1 : q \in 1 .. Len(order) /\ order'[q] = order[q]
      BY <2>1, <1>4, WalkFacts
    <3> QED
      BY <3>1, <3>2, <2>1, <1>4
  <2>2. CASE p = Len(order) + 1
    <3> DEFINE k == next - 1
    <3>1. k \in 1 .. Len(Apps) /\ path[1] = Apps[k] /\ next \in Nat
      BY <1>1, WalkFacts DEF OrderInv, OrderTypes, Rooted
    <3>2. Apps[k] = a \/ <<Apps[k], a>> \in Needs
      <4>1. Stacked
        BY DEF OrderInv
      <4>2. 1 \in 1 .. n /\ n \in 1 .. n /\ (n = 1 \/ 1 < n)
        <5>1. n \in Nat /\ n # 0
          BY <1>2
        <5> HIDE DEF n
        <5> QED
          BY <5>1
      <4>3. 1 < n => <<path[1], path[n]>> \in Needs
        BY <4>1, <4>2 DEF Stacked
      <4> QED
        BY <3>1, <4>2, <4>3, <1>2
    <3>3. ASSUME NEW i \in 1 .. k - 1
          PROVE  \E q \in 1 .. p - 1 : order'[q] = Apps[i]
      <4>1. Apps[i] \in Done
        BY <3>1, WalkFacts DEF OrderInv, Rooted
      <4>2. PICK q \in 1 .. Len(order) : order[q] = Apps[i]
        BY <4>1, WalkFacts DEF Done, Range
      <4> QED
        BY <2>2, <4>2, <1>4, WalkFacts
    <3> HIDE DEF k
    <3> QED
      BY <2>2, <3>1, <3>2, <3>3, <1>4
  <2>3. p \in 1 .. Len(order) \/ p = Len(order) + 1
    BY WalkFacts
  <2> QED
    BY <2>1, <2>2, <2>3
<1> QED
  BY <1>5, <1>6, <1>7, <1>8, <1>9, <1>10, <1>11, <1>12, <1>13 DEF OrderInv

LEMMA OrderStutters == OrderInv /\ UNCHANGED orderVars => OrderInv'
<1> SUFFICES ASSUME OrderInv, UNCHANGED orderVars PROVE OrderInv'
  OBVIOUS
<1>1. Done' = Done /\ Open' = Open /\ Needs' = Needs
  BY NeedsSame DEF Done, Open, orderVars
<1>2. OrderTypes' /\ EachOnce' /\ Placed' /\ NotVisited'
  BY <1>1 DEF orderVars, OrderInv, OrderTypes, EachOnce, Placed, NotVisited
<1>3. LoopedOver' /\ Stacked' /\ Rooted'
  BY <1>1 DEF orderVars, OrderInv, LoopedOver, Stacked, Rooted
<1>4. ForARoot' /\ Ends'
  BY <1>1 DEF orderVars, OrderInv, ForARoot, Ends, Depends
<1> QED
  BY <1>2, <1>3, <1>4 DEF OrderInv

-----------------------------------------------------------------------------
(* What the invariant says of the order.                                   *)

(* At the end every app was placed.                                        *)
LEMMA ResolvedMeans ==
    ASSUME OrderInv, walk = "resolved"
    PROVE  Done = App
<1>0. path = <<>> /\ next = Len(Apps) + 1
  BY DEF OrderInv, Ends
<1>1. Done \subseteq App
  BY WalkFacts DEF Done, Range
<1>2. ASSUME NEW a \in App PROVE a \in Done
  <2>1. PICK i \in 1 .. Len(Apps) : a = Apps[i]
    BY WalkFacts DEF App, Range
  <2>2. i \in 1 .. next - 1
    BY <1>0, WalkFacts
  <2> QED
    BY <2>1, <2>2, <1>0 DEF OrderInv, Rooted
<1> QED
  BY <1>1, <1>2

(* An app of the order that depended on itself would come before itself.   *)
LEMMA NotCircular ==
    ASSUME OrderInv, walk = "resolved", NEW a \in App
    PROVE  ~DependsTransitively(a, a)
<1>1. PICK p \in 1 .. Len(order) : order[p] = a
  BY ResolvedMeans, WalkFacts DEF Done, Range
<1> DEFINE S == {order[q] : q \in 1 .. p - 1}
<1>2. S \subseteq App /\ a \notin S
  BY <1>1, WalkFacts DEF OrderInv, EachOnce, IsInjective
<1>3. ASSUME NEW c \in S \cup {a}, NEW d \in App, Depends(c, d)
      PROVE  d \in S
  <2>1. PICK r \in 1 .. p : order[r] = c
    BY <1>1, WalkFacts
  <2>2. r \in 1 .. Len(order)
    BY WalkFacts
  <2>3. PICK q \in 1 .. r - 1 : order[q] = d
    BY <1>3, <2>1, <2>2 DEF OrderInv, Placed, Depends
  <2> QED
    BY <2>3, WalkFacts
<1> HIDE DEF S
<1> QED
  BY <1>2, <1>3 DEF DependsTransitively

LEMMA InvImpliesCorrect == OrderInv => OrderCorrect
<1> SUFFICES ASSUME OrderInv PROVE OrderCorrect
  OBVIOUS
<1>1. ErrorsJustified
  <2>1. ASSUME walk = "resolved", NEW a \in App, Depends(a, Unknown) PROVE FALSE
    <3>1. PICK p \in 1 .. Len(order) : order[p] = a
      BY <2>1, ResolvedMeans, WalkFacts DEF Done, Range
    <3>2. PICK q \in 1 .. p - 1 : order[q] = Unknown
      BY <2>1, <3>1 DEF OrderInv, Placed, Depends
    <3> QED
      BY <3>2, WalkFacts, DistinctAssumption
  <2>2. \A a \in App : <<a, a>> \in Needs => DependsTransitively(a, a)
    BY DEF Needs
  <2> QED
    BY <2>1, <2>2, NotCircular DEF ErrorsJustified, OrderInv, Ends
<1>2. DependenciesFirst
  <2> SUFFICES ASSUME walk = "resolved" PROVE DependenciesFirst
    BY DEF DependenciesFirst
  <2>1. IsInjective(order) /\ Range(order) = App
    BY ResolvedMeans DEF OrderInv, EachOnce, Done
  <2>2. ASSUME NEW a \in App, NEW b \in App, Depends(a, b)
        PROVE  Before(order, b, a)
    <3>1. PICK p \in 1 .. Len(order) : order[p] = a
      BY <2>1, WalkFacts DEF Range
    <3>2. PICK q \in 1 .. p - 1 : order[q] = b
      BY <2>2, <3>1 DEF OrderInv, Placed, Depends
    <3>3. q \in DOMAIN order /\ p \in DOMAIN order /\ q < p
      BY WalkFacts
    <3> QED
      BY <3>1, <3>2, <3>3 DEF Before
  <2> QED
    BY <2>1, <2>2 DEF DependenciesFirst
<1>3. ConfigOrderKept
  <2> SUFFICES ASSUME walk = "resolved",
                      NEW i \in DOMAIN Apps, NEW j \in DOMAIN Apps, i < j,
                      Before(order, Apps[j], Apps[i])
               PROVE  \E k \in 1 .. i : DependsTransitively(Apps[k], Apps[j])
    BY DEF ConfigOrderKept
  <2>1. PICK p \in 1 .. Len(order), r \in 1 .. Len(order) :
           p < r /\ order[p] = Apps[j] /\ order[r] = Apps[i]
    BY WalkFacts DEF Before
  <2>2. PICK k \in 1 .. Len(Apps) :
           /\ Apps[k] = order[p] \/ <<Apps[k], order[p]>> \in Needs
           /\ \A x \in 1 .. k - 1 : \E q \in 1 .. p - 1 : order[q] = Apps[x]
    BY <2>1 DEF OrderInv, ForARoot
  <2>3. k \in 1 .. i
    <3> SUFFICES ASSUME i < k PROVE FALSE
      BY WalkFacts
    <3>1. PICK q \in 1 .. p - 1 : order[q] = Apps[i]
      BY <2>2, WalkFacts
    <3>2. q \in 1 .. Len(order) /\ q # r
      BY <2>1, WalkFacts
    <3> QED
      BY <3>1, <3>2, <2>1, WalkFacts DEF OrderInv, EachOnce, IsInjective
  <2>4. Apps[k] # Apps[j]
    BY <2>3, WalkFacts, DistinctAssumption DEF IsInjective
  <2> QED
    BY <2>1, <2>2, <2>3, <2>4 DEF Needs
<1> QED
  BY <1>1, <1>2, <1>3 DEF OrderCorrect

(* Ensemble.resolveStartOrder of the ensemble, a depth-first walk: it      *)
(* throws only for a cycle or an unknown app, for every such               *)
(* configuration, and orders all others with each app after what it        *)
(* depends on, in config order where it is free.                           *)
THEOREM OrderIsCorrect == OrderSpec => []OrderCorrect
<1>1. OrderInv /\ [OrderNext]_orderVars => OrderInv'
  BY ConfigureInv, VisitAppInv, VisitDepInv, VisitedInv, ResolvedInv, OrderStutters
     DEF OrderNext
<1> QED
  BY <1>1, OrderInitInv, InvImpliesCorrect, PTL DEF OrderSpec

-----------------------------------------------------------------------------
(* What is proved of the parts holds of Units, which the run checks: each  *)
(* of its behaviours is one of each part.                                  *)
THEOREM UnitsAreEach ==
    UnitsSpec => /\ ServerSpec /\ HttpCallSpec /\ HttpSpec /\ RouterSpec
                 /\ CertSpec /\ OrderSpec /\ EnvSpec /\ MethodologySpec
<1>1. UnitsInit => /\ ServerInit /\ HttpCallInit /\ HttpInit /\ RouterInit
                   /\ CertInit /\ OrderInit /\ EnvInit /\ MethodologyInit
  BY DEF UnitsInit
<1>2. [UnitsNext]_unitVars =>
        /\ [ServerNext]_serverVars /\ [HttpCallNext]_rpcHttpVars /\ [HttpNext]_httpVars
        /\ [RouterNext]_routerVars /\ [CertNext]_certVars /\ [OrderNext]_orderVars
        /\ [EnvNext]_envVars /\ [MethodologyNext]_methodologyVars
  BY DEF UnitsNext, unitVars
<1> QED
  BY <1>1, <1>2, PTL DEF UnitsSpec, ServerSpec, HttpCallSpec, HttpSpec, RouterSpec,
                         CertSpec, OrderSpec, EnvSpec, MethodologySpec
=============================================================================
