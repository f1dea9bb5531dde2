---------------------------- MODULE RelaysProofs ----------------------------
(***************************************************************************)
(* Proofs about what the two proxy packages relay: ConnectRetry, for every *)
(* connectRetryAttempts, with and without an upstream proxy; ProxyServer,  *)
(* for any number of starts; ProxyRequest; and WsProxy, for any number of  *)
(* chunks that the client sends, whether or not it may end its side early. *)
(* A behaviour of Relays is one of each of the last three; the race of     *)
(* ConnectRetry runs inside ProxyServer.                                   *)
(***************************************************************************)
EXTENDS Relays, SequenceTheorems, FiniteSetTheorems, TLAPS

-----------------------------------------------------------------------------
(* The race for a socket.                                                  *)
(*                                                                         *)
(* RejectedAfterAll needs that the counter `failures` is the number of     *)
(* attempts that failed: only then failures >= totalAttempts means that    *)
(* no attempt is left.  The rest follows from where the socket of an       *)
(* attempt can be in each of its states (Shape).                           *)

Failed == {i \in Attempt : attempt[i] = "failed"}

Shape ==
    /\ winner = None <=> ~completed
    /\ promise = "resolved" <=> completed
    /\ ~completed => endedBy = "none"
    /\ completed => attempt[winner] = "won"
    /\ completed => (sock[winner] = "open" <=> endedBy = "none")
    /\ trackedConnections <=> completed /\ endedBy = "none"
    /\ \A i \in Attempt :
          /\ attempt[i] = "won" => i = winner
          /\ attempt[i] = "scheduled" => ~completed /\ sock[i] = "none"
          /\ attempt[i] \in {"failing", "failed", "lost"} => sock[i] = "destroyed"
          /\ attempt[i] = "cleared" => sock[i] = "none"
          /\ i \in openSockets \/ attempt[i] = "dialing" => sock[i] # "none"
          /\ attempt[i] = "connected" /\ ~completed => sock[i] = "open"
          /\ sock[i] = "open" => \/ attempt[i] = "dialing"
                                 \/ completed /\ i = winner
                                 \/ ~completed /\ i \in openSockets
    /\ promise = "rejected" => \A i \in Attempt : attempt[i] = "failed"

IInv == TypeOK /\ FailuresCounted /\ Shape

(* The attempts are totalAttempts many, and None is not one of them.       *)
LEMMA AttemptFacts ==
    /\ totalAttempts \in Nat \ {0} /\ None \notin Attempt
    /\ \A i \in Attempt : i \in Nat
    /\ IsFiniteSet(Attempt) /\ Cardinality(Attempt) = totalAttempts
<1>1. Retries \in Nat
    BY RetriesAssumption
<1>2. IsFiniteSet(0 .. Retries) /\ Cardinality(0 .. Retries) = Retries + 1
    BY <1>1, FS_Interval
<1> QED
    BY <1>1, <1>2 DEF totalAttempts, Attempt, None

(* The attempts that failed can be counted.                                *)
LEMMA FailedFinite ==
    IsFiniteSet(Failed) /\ Cardinality(Failed) \in Nat
<1>1. Failed \in SUBSET Attempt
    BY DEF Failed
<1> QED
    BY <1>1, AttemptFacts, FS_Subset, FS_CardinalityType

(* One more failure: it fits the range of the counter, and it reaches the  *)
(* total exactly when it was the last attempt.                             *)
LEMMA OneMoreFailure ==
    ASSUME TypeOK, FailuresCounted, NEW i \in Attempt, attempt[i] = "failing"
    PROVE  /\ failures + 1 = Cardinality(Failed \cup {i})
           /\ failures + 1 \in 0 .. totalAttempts
           /\ failures + 1 >= totalAttempts =>
                 \A j \in Attempt \ {i} : attempt[j] = "failed"
<1>1. Failed \cup {i} \in SUBSET Attempt /\ i \notin Failed
    BY DEF Failed
<1>2. failures = Cardinality(Failed) /\ failures \in Nat
    BY FailedFinite DEF FailuresCounted, Failed
<1>3. /\ IsFiniteSet(Failed \cup {i})
      /\ Cardinality(Failed \cup {i}) = failures + 1
    BY <1>1, <1>2, FailedFinite, FS_AddElement
<1>4. /\ Cardinality(Failed \cup {i}) <= totalAttempts
      /\ Cardinality(Failed \cup {i}) = totalAttempts => Failed \cup {i} = Attempt
    BY <1>1, AttemptFacts, FS_Subset
<1>5. failures + 1 >= totalAttempts => Failed \cup {i} = Attempt
    BY <1>2, <1>3, <1>4, AttemptFacts
<1> QED
    BY <1>2, <1>3, <1>4, <1>5, AttemptFacts DEF Failed

(* Before the first timer fires.                                           *)
LEMMA InitIInv == Init => IInv
<1> SUFFICES ASSUME Init PROVE IInv
    OBVIOUS
<1>1. {i \in Attempt : attempt[i] = "failed"} = {}
    BY DEF Init
<1>2. FailuresCounted
    BY <1>1, FS_EmptySet DEF Init, FailuresCounted
<1>3. TypeOK
    <2>1. 0 \in 0 .. totalAttempts
        BY AttemptFacts
    <2> QED
        BY <2>1 DEF Init, TypeOK, AttemptStatus, EndReason
<1>4. Shape
    BY DEF Init, Shape
<1> QED
    BY <1>2, <1>3, <1>4 DEF IInv

(* The steps that change neither failures nor who failed.                  *)
LEMMA CountFrame ==
    ASSUME FailuresCounted, failures' = failures,
           \A i \in Attempt : attempt'[i] = "failed" <=> attempt[i] = "failed"
    PROVE  FailuresCounted'
<1>1. {i \in Attempt : attempt'[i] = "failed"}
        = {i \in Attempt : attempt[i] = "failed"}
    OBVIOUS
<1> QED
    BY <1>1 DEF FailuresCounted

(* What it means for one attempt to become failed.                         *)
LEMMA MarkFailed ==
    ASSUME NEW f \in [Attempt -> AttemptStatus], NEW i \in Attempt
    PROVE  /\ [f EXCEPT ![i] = "failed"] \in [Attempt -> AttemptStatus]
           /\ [f EXCEPT ![i] = "failed"][i] = "failed"
           /\ \A j \in Attempt \ {i} : [f EXCEPT ![i] = "failed"][j] = f[j]
BY DEF AttemptStatus

(* Every step of the race keeps the invariant.                             *)
LEMMA NextIInv ==
    ASSUME IInv, [Next]_vars
    PROVE  IInv'
<1> USE DEF IInv
<1>0. TypeOK /\ FailuresCounted /\ Shape
    OBVIOUS
<1>1. ASSUME NEW i \in Attempt, tryConnect(i) PROVE IInv'
    <2>1. TypeOK'
        BY <1>0, <1>1 DEF tryConnect, TypeOK, AttemptStatus, tunnelVars
    <2>2. FailuresCounted'
        BY <1>0, <1>1, CountFrame DEF tryConnect, TypeOK
    <2>3. Shape'
        BY <1>0, <1>1 DEF tryConnect, TypeOK, Shape, tunnelVars
    <2> QED
        BY <2>1, <2>2, <2>3
<1>2. ASSUME NEW i \in Attempt, trackSocket(i) PROVE IInv'
    <2>1. TypeOK'
        BY <1>0, <1>2 DEF trackSocket, TypeOK, AttemptStatus, tunnelVars
    <2>2. FailuresCounted'
        BY <1>0, <1>2, CountFrame DEF trackSocket, TypeOK
    <2>3. Shape'
        BY <1>0, <1>2 DEF trackSocket, TypeOK, Shape, tunnelVars
    <2> QED
        BY <2>1, <2>2, <2>3
<1>3. ASSUME NEW i \in Attempt, Settled(i) PROVE IInv'
    <2> USE DEF Settled, Connected, Errored, TimedOut, stateVars, tunnelVars
    <2>1. TypeOK'
        BY <1>0, <1>3 DEF TypeOK, AttemptStatus
    <2>2. FailuresCounted'
        BY <1>0, <1>3, CountFrame DEF TypeOK
    <2>3. Shape'
        <3>1. CASE Connected(i)
            BY <1>0, <3>1 DEF TypeOK, Shape
        <3>2. CASE Errored(i) \/ TimedOut(i)
            BY <1>0, <3>2 DEF TypeOK, Shape
        <3> QED
            BY <1>3, <3>1, <3>2
    <2> QED
        BY <2>1, <2>2, <2>3
<1>4. ASSUME NEW i \in Attempt, Win(i) PROVE IInv'
    <2>1. \A j \in Attempt : attempt'[j] =
              IF j = i THEN "won"
              ELSE IF attempt[j] = "scheduled" THEN "cleared" ELSE attempt[j]
        BY <1>4 DEF Win, Cleared
    <2>2. TypeOK'
        BY <1>0, <1>4 DEF Win, Cancel, Cleared, TypeOK, AttemptStatus
    <2>3. FailuresCounted'
        BY <1>0, <1>4, <2>1, CountFrame DEF Win
    <2>4. \A j \in Attempt : sock'[j] =
              IF j \in openSockets /\ j # i THEN "destroyed" ELSE sock[j]
        BY <1>4 DEF Win, Cancel
    <2>a. /\ completed' /\ winner' = i /\ promise' = "resolved"
          /\ trackedConnections' /\ endedBy' = endedBy
          /\ attempt[i] = "connected" /\ ~completed
          /\ i # None
        BY <1>4, AttemptFacts DEF Win
    <2>b. endedBy = "none" /\ sock[i] = "open" /\ promise # "resolved"
        BY <1>0, <2>a DEF Shape
    <2>c. ASSUME NEW j \in Attempt
          PROVE  /\ attempt'[j] = "won" => j = i
                 /\ attempt'[j] # "scheduled"
                 /\ attempt'[j] \in {"failing", "failed", "lost"} =>
                        sock'[j] = "destroyed"
                 /\ attempt'[j] = "cleared" => sock'[j] = "none"
                 /\ sock'[j] = "open" => attempt'[j] = "dialing" \/ j = i
        <3>1. CASE j = i
            BY <2>1, <3>1
        <3>2. CASE j # i
            <4>1. attempt[j] # "won" /\ (sock[j] = "open" => attempt[j] = "dialing" \/ j \in openSockets)
                BY <1>0, <2>a, <3>2, AttemptFacts DEF Shape
            <4>2. /\ attempt[j] \in {"failing", "failed", "lost"} => sock[j] = "destroyed"
                  /\ attempt[j] = "cleared" \/ attempt[j] = "scheduled" => sock[j] = "none"
                  /\ j \in openSockets => sock[j] # "none"
                BY <1>0 DEF Shape
            <4> QED
                BY <2>1, <2>4, <3>2, <4>1, <4>2
        <3> QED
            BY <3>1, <3>2
    <2>d. openSockets' = {}
        BY <1>4 DEF Win, Cancel
    <2>5. Shape'
        BY <2>1, <2>4, <2>a, <2>b, <2>c, <2>d DEF Shape
    <2> QED
        BY <2>2, <2>3, <2>5
<1>5. ASSUME NEW i \in Attempt, Lose(i) PROVE IInv'
    <2> USE DEF Lose, stateVars, tunnelVars
    <2>1. TypeOK'
        BY <1>0, <1>5 DEF TypeOK, AttemptStatus
    <2>2. FailuresCounted'
        BY <1>0, <1>5, CountFrame DEF TypeOK
    <2>3. Shape'
        BY <1>0, <1>5 DEF TypeOK, Shape
    <2> QED
        BY <2>1, <2>2, <2>3
<1>6. ASSUME NEW i \in Attempt, Fail(i) PROVE IInv'
    <2>0. /\ failures + 1 = Cardinality(Failed \cup {i})
          /\ failures + 1 \in 0 .. totalAttempts
          /\ failures + 1 >= totalAttempts =>
                 \A j \in Attempt \ {i} : attempt[j] = "failed"
        BY <1>0, <1>6, OneMoreFailure DEF Fail
    <2>1. /\ attempt' \in [Attempt -> AttemptStatus]
          /\ attempt'[i] = "failed"
          /\ \A j \in Attempt \ {i} :
                \/ attempt'[j] = attempt[j]
                \/ attempt[j] = "scheduled" /\ attempt'[j] = "cleared"
        <3>1. /\ attempt \in [Attempt -> AttemptStatus]
              /\ Cleared(attempt) \in [Attempt -> AttemptStatus]
              /\ \A j \in Attempt : \/ Cleared(attempt)[j] = attempt[j]
                                   \/ /\ attempt[j] = "scheduled"
                                      /\ Cleared(attempt)[j] = "cleared"
            BY <1>0 DEF Cleared, TypeOK, AttemptStatus
        <3>2. CASE attempt' = [Cleared(attempt) EXCEPT ![i] = "failed"]
            BY <1>6, <3>1, <3>2, MarkFailed
        <3>3. CASE attempt' = [attempt EXCEPT ![i] = "failed"]
            BY <1>6, <3>1, <3>3, MarkFailed
        <3> QED
            BY <1>6, <3>2, <3>3 DEF Fail
    <2>2. TypeOK'
        BY <1>0, <1>6, <2>0, <2>1 DEF Fail, Cancel, TypeOK, tunnelVars
    <2>3. FailuresCounted'
        <3>1. {j \in Attempt : attempt'[j] = "failed"} = Failed \cup {i}
            BY <2>1 DEF Failed
        <3>2. failures' = failures + 1
            BY <1>6 DEF Fail
        <3> QED
            BY <2>0, <3>1, <3>2 DEF FailuresCounted
    <2>4. Shape'
        <3>1. CASE ~completed /\ failures + 1 >= totalAttempts
            <4>1. \A j \in Attempt : attempt'[j] = "failed"
                BY <2>0, <2>1, <3>1
            <4>2. \A j \in Attempt : sock[j] = "destroyed"
                BY <1>0, <1>6, <2>0, <3>1 DEF Fail, Shape
            <4>3. \A j \in Attempt : sock'[j] = "destroyed"
                BY <1>6, <3>1, <4>2 DEF Fail, Cancel
            <4> QED
                BY <1>0, <1>6, <3>1, <4>1, <4>3 DEF Fail, Shape, tunnelVars
        <3>2. CASE ~(~completed /\ failures + 1 >= totalAttempts)
            BY <1>0, <1>6, <3>2 DEF Fail, Shape, TypeOK, tunnelVars
        <3> QED
            BY <3>1, <3>2
    <2> QED
        BY <2>2, <2>3, <2>4
<1>7. ASSUME NEW r \in EndReason \ {"none"}, EndTunnel(r) PROVE IInv'
    <2> USE DEF EndTunnel, stateVars
    <2>0. winner \in Attempt /\ completed
        BY <1>0, <1>7 DEF Shape, TypeOK
    <2>1. TypeOK'
        BY <1>0, <1>7 DEF TypeOK
    <2>2. FailuresCounted'
        BY <1>0, <1>7, CountFrame
    <2>3. Shape'
        BY <1>0, <1>7, <2>0 DEF TypeOK, Shape
    <2> QED
        BY <2>1, <2>2, <2>3
<1>8. CASE UNCHANGED vars
    BY <1>0, <1>8 DEF vars, TypeOK, FailuresCounted, Shape
<1> QED
    BY <1>1, <1>2, <1>3, <1>4, <1>5, <1>6, <1>7, <1>8
    DEF Next, Resume, PeerCloses, IdleTimeout, EndReason

(* IInv holds in every state of the race, however its attempts end.        *)
THEOREM Invariance == Spec => []IInv
BY InitIInv, NextIInv, PTL DEF Spec

(* ConnectRetryState.cancel: the first connection wins and the others are  *)
(* destroyed, for any number of attempts.                                  *)
THEOREM LosersDestroyed == Spec => []OthersDestroyed
<1>1. IInv => OthersDestroyed
    BY DEF IInv, Shape, OthersDestroyed
<1> QED
    BY <1>1, Invariance, PTL

(* ConnectRetryState.complete: the race does not end the connection that   *)
(* won it.                                                                 *)
THEOREM Race == Spec => []WinnerUntouched
<1>1. IInv => WinnerUntouched
    BY DEF IInv, Shape, WinnerUntouched
<1> QED
    BY <1>1, Invariance, PTL

(* The CONNECT is refused only after every attempt failed, and leaves no   *)
(* socket and no timer behind.                                             *)
THEOREM Rejection == Spec => [](RejectedAfterAll /\ FailuresCounted)
<1>1. IInv => RejectedAfterAll /\ FailuresCounted
    BY DEF IInv, Shape, RejectedAfterAll
<1> QED
    BY <1>1, Invariance, PTL

-----------------------------------------------------------------------------
(* A proxy server and its tunnel.                                          *)
(*                                                                         *)
(* A CONNECT makes no step that ConnectRetry does not have, so what is     *)
(* proved of the race holds inside the proxy.  How far onConnect has come  *)
(* says what may have been answered and which end may be open (Phase), and *)
(* which server the field holds follows from the states of all (Fields).   *)

(* What is settled at each point of onConnect.                             *)
Phase ==
    /\ owner \in Gen \cup {None} /\ clientSocket \in {"none", "open", "gone"}
    /\ onConnect \in {"none", "authenticating", "denied", "racing", "piping",
                      "over"}
    /\ reply \in [{"200", "error"} -> {0, 1}]
    /\ onConnect = "none" <=> clientSocket = "none"
    /\ clientSocket = "none" <=> owner = None
    /\ onConnect \in {"none", "authenticating", "denied"} => Init
    /\ onConnect = "racing" => promise = "pending"
    /\ onConnect = "piping" => promise = "resolved"
    /\ onConnect = "over" => promise # "pending"
    /\ onConnect \in {"denied", "over"} => clientSocket = "gone"
    /\ onConnect \in {"none", "authenticating", "racing"} =>
          reply["200"] = 0 /\ reply["error"] = 0
    /\ onConnect = "denied" => reply["200"] = 0
    /\ promise = "resolved" => reply["error"] = 0
    /\ promise # "resolved" => reply["200"] = 0
    /\ onConnect = "piping" /\ clientSocket = "open" => reply["200"] = 1

(* Which servers there are, and which of them the field may hold.          *)
Fields ==
    /\ server \in Gen \cup {None}
    /\ httpServer \in [Gen -> {"none", "starting", "listening", "failed",
                               "closing", "closed"}]
    /\ shutdowns = {g \in Gen : httpServer[g] = "closing"}
    /\ server # None => httpServer[server] \in {"starting", "listening", "failed"}
    /\ owner # None => httpServer[owner] \in {"listening", "closing", "closed"}
    /\ owner # None /\ httpServer[owner] = "closed" => clientSocket = "gone"

(* Without a start() during a shutdown() no server escapes the field.      *)
OneServer ==
    \A g \in Gen :
        /\ httpServer[g] \in {"starting", "listening"} => server = g
        /\ httpServer[g] = "closing" => server = None

PInv == IInv /\ Phase /\ Fields

(* None is the number of no server.                                        *)
LEMMA GenFacts == None \notin Gen /\ \A g \in Gen : g \in Nat
BY StartsAssumption DEF Gen, None

(* Whatever the proxy does, the race makes a step of its own or none.      *)
LEMMA RaceOrStutter == [ProxyNext]_proxyVars => [Next]_vars
<1> SUFFICES ASSUME [ProxyNext]_proxyVars PROVE [Next]_vars
    OBVIOUS
<1>1. CASE ServerStep
    BY <1>1 DEF ServerStep, start, StartSettles, CloseEvent, shutdown
<1>2. CASE ConnectStep
    <2>1. ASSUME NEW i \in Attempt, RaceStep(i) PROVE Next
        BY <2>1 DEF RaceStep, Next, Resume
    <2>2. ASSUME NEW i \in Attempt, RaceFails(i) PROVE Next
        BY <2>2 DEF RaceFails, Next, Resume
    <2>3. ASSUME NEW i \in Attempt, RaceWon(i) PROVE Next
        BY <2>3 DEF RaceWon, Next, Resume
    <2>4. CASE Authenticated \/ NotAuthenticated \/ ClientCloses
        BY <2>4 DEF Authenticated, NotAuthenticated, ClientCloses
    <2>5. CASE RemoteCloses \/ PipelineFails
        BY <2>5 DEF RemoteCloses, PipelineFails, Next
    <2> QED
        BY <1>2, <2>1, <2>2, <2>3, <2>4, <2>5 DEF ConnectStep
<1>3. ASSUME NEW g \in Gen, ConnectRequest(g) PROVE UNCHANGED vars
    BY <1>3 DEF ConnectRequest
<1>4. CASE UNCHANGED proxyVars
    BY <1>4 DEF proxyVars
<1> QED
    BY <1>1, <1>2, <1>3, <1>4 DEF ProxyNext

(* The race inside the proxy is ConnectRetry.                              *)
THEOREM ProxyImplementsRace == ProxySpec => Spec
<1>1. ProxyInit => Init
    BY DEF ProxyInit
<1> QED
    BY <1>1, RaceOrStutter, PTL DEF ProxySpec, Spec

-----------------------------------------------------------------------------
(* What an attempt does while the race is on, or after it.                 *)

(* Only Win and Fail settle the promise; neither touches one that is.      *)
LEMMA PromiseFrame ==
    ASSUME IInv, NEW i \in Attempt,
           tryConnect(i) \/ trackSocket(i) \/ Settled(i) \/ Lose(i)
    PROVE  promise' = promise /\ completed' = completed /\ winner' = winner
BY DEF tryConnect, trackSocket, Settled, Connected, Errored, TimedOut, Lose,
       stateVars

(* A failure rejects a promise that was pending, or changes nothing.       *)
LEMMA FailSettles ==
    ASSUME IInv, NEW i \in Attempt, Fail(i)
    PROVE  /\ promise' = promise \/ (promise = "pending" /\ promise' = "rejected")
           /\ winner' = winner /\ (promise = "resolved" => sock' = sock)
<1>1. TypeOK /\ Shape
    BY DEF IInv
<1>2. ~completed => promise # "resolved"
    BY <1>1 DEF Shape
<1>3. promise = "rejected" => attempt[i] = "failed"
    BY <1>1 DEF Shape
<1> QED
    BY <1>1, <1>2, <1>3 DEF Fail, TypeOK, Shape

(* A race that is won was pending before and has an open connection.       *)
LEMMA WinSettles ==
    ASSUME IInv, IInv', NEW i \in Attempt, Win(i)
    PROVE  /\ promise # "resolved" /\ promise' = "resolved"
           /\ sock'[winner'] = "open"
BY DEF IInv, Shape, Win

(* Once it is won, the race leaves the winner's connection alone.          *)
LEMMA WinnerKept ==
    ASSUME IInv, NEW i \in Attempt, promise = "resolved",
           tryConnect(i) \/ trackSocket(i) \/ Settled(i) \/ Lose(i)
    PROVE  sock'[winner] = sock[winner]
<1>1. TypeOK /\ completed /\ winner \in Attempt /\ attempt[winner] = "won"
    BY DEF IInv, TypeOK, Shape
<1> QED
    BY <1>1 DEF TypeOK, tryConnect, trackSocket, Settled, Connected, Errored,
                TimedOut, Lose, stateVars

(* The end of the tunnel.                                                  *)
LEMMA TunnelEnd ==
    ASSUME IInv, PeerCloses \/ IdleTimeout
    PROVE  /\ promise' = promise /\ winner' = winner
           /\ sock[winner] = "open" /\ sock'[winner] # "open"
BY DEF IInv, TypeOK, Shape, PeerCloses, IdleTimeout, EndTunnel, stateVars

-----------------------------------------------------------------------------
(* The phases of onConnect.                                                *)

LEMMA PInit == ProxyInit => PInv
<1> SUFFICES ASSUME ProxyInit PROVE PInv
    OBVIOUS
<1>1. IInv
    BY InitIInv DEF ProxyInit
<1>2. Phase
    BY DEF ProxyInit, Phase, Init
<1>3. Fields
    BY DEF ProxyInit, Fields
<1> QED
    BY <1>1, <1>2, <1>3 DEF PInv

(* Init speaks of the race only.                                           *)
LEMMA InitFrame == Init /\ UNCHANGED vars => Init'
BY DEF Init, vars

(* start() and shutdown() at most take the client away.                    *)
LEMMA PhaseServer ==
    ASSUME Phase, ServerStep
    PROVE  Phase'
<1>1. PICK next \in {"gone", clientSocket} :
        /\ clientSocket' = next /\ (next = "gone" => clientSocket # "none")
        /\ UNCHANGED <<vars, owner, onConnect, reply>>
    BY DEF ServerStep, start, StartSettles, CloseEvent, shutdown,
           closeAllSockets, connectVars, Phase
<1>2. promise' = promise
    BY <1>1 DEF vars
<1>3. Init => Init'
    BY <1>1, InitFrame
<1> QED
    BY <1>1, <1>2, <1>3 DEF Phase

(* A step of the race that settles nothing.                                *)
LEMMA PhaseRace ==
    ASSUME PInv, NEW i \in Attempt, RaceStep(i)
    PROVE  Phase'
<1>1. promise' = promise
    BY PromiseFrame DEF PInv, RaceStep
<1>2. UNCHANGED connectVars /\ RaceBegun
    BY DEF RaceStep
<1> QED
    BY <1>1, <1>2 DEF PInv, Phase, connectVars, RaceBegun

(* A failure, the last one included.                                       *)
LEMMA PhaseRaceFails ==
    ASSUME PInv, NEW i \in Attempt, RaceFails(i)
    PROVE  Phase'
<1>1. /\ promise' = promise \/ (promise = "pending" /\ promise' = "rejected")
      /\ RaceBegun
    BY FailSettles DEF PInv, RaceFails
<1>2. CASE promise' = "rejected" /\ promise = "pending"
    <2>1. onConnect' = "over" /\ Refuse
        BY <1>2 DEF RaceFails
    <2>2. onConnect = "racing"
        BY <1>1, <1>2 DEF PInv, Phase, RaceBegun
    <2> QED
        BY <1>2, <2>1, <2>2 DEF PInv, Phase, Refuse
<1>3. CASE ~(promise' = "rejected" /\ promise = "pending")
    <2>1. UNCHANGED connectVars /\ promise' = promise
        BY <1>1, <1>3 DEF RaceFails
    <2> QED
        BY <1>1, <2>1 DEF PInv, Phase, connectVars, RaceBegun
<1> QED
    BY <1>2, <1>3

(* The race is won.                                                        *)
LEMMA PhaseRaceWon ==
    ASSUME PInv, IInv', NEW i \in Attempt, RaceWon(i)
    PROVE  Phase'
<1>1. promise # "resolved" /\ promise' = "resolved"
    BY WinSettles DEF PInv, RaceWon
<1> QED
    BY <1>1 DEF PInv, Phase, RaceWon

(* Every step of a CONNECT keeps the phase.                                *)
LEMMA PhaseConnect ==
    ASSUME PInv, IInv', ConnectStep
    PROVE  Phase'
<1>1. ASSUME NEW i \in Attempt, RaceStep(i) \/ RaceFails(i) \/ RaceWon(i)
      PROVE  Phase'
    BY <1>1, PhaseRace, PhaseRaceFails, PhaseRaceWon
<1>2. CASE Authenticated
    <2>1. promise' = promise /\ Init' /\ promise = "pending"
        BY <1>2, InitFrame DEF Authenticated, PInv, Phase, Init, vars
    <2> QED
        BY <1>2, <2>1 DEF Authenticated, PInv, Phase
<1>3. CASE NotAuthenticated
    <2>1. promise' = promise /\ Init' /\ promise = "pending"
        BY <1>3, InitFrame DEF NotAuthenticated, PInv, Phase, Init, vars
    <2> QED
        BY <1>3, <2>1 DEF NotAuthenticated, Refuse, PInv, Phase
<1>4. CASE ClientCloses
    <2>1. promise' = promise /\ (Init => Init')
        BY <1>4, InitFrame DEF ClientCloses, vars
    <2> QED
        BY <1>4, <2>1 DEF ClientCloses, PInv, Phase
<1>5. CASE RemoteCloses
    <2>1. promise' = promise /\ UNCHANGED connectVars
        BY <1>5, TunnelEnd DEF RemoteCloses, PInv
    <2> QED
        BY <1>5, <2>1 DEF RemoteCloses, PInv, Phase, connectVars
<1>6. CASE PipelineFails
    <2>1. promise' = promise
        BY <1>6, TunnelEnd DEF PipelineFails, PInv, vars
    <2> QED
        BY <1>6, <2>1 DEF PipelineFails, PInv, Phase
<1> QED
    BY <1>1, <1>2, <1>3, <1>4, <1>5, <1>6 DEF ConnectStep

(* A CONNECT arrives.                                                      *)
LEMMA PhaseRequest ==
    ASSUME Phase, NEW g \in Gen, ConnectRequest(g)
    PROVE  Phase'
<1>1. promise' = promise /\ (Init => Init')
    BY InitFrame DEF ConnectRequest, vars
<1>2. onConnect = "none" /\ g # None
    BY GenFacts DEF ConnectRequest, Phase
<1> QED
    BY <1>1, <1>2 DEF ConnectRequest, Phase

-----------------------------------------------------------------------------
(* The server that the field holds.                                        *)

LEMMA FieldsStep ==
    ASSUME Phase, Fields, [ProxyNext]_proxyVars
    PROVE  Fields'
<1> USE GenFacts
<1>1. ASSUME NEW g \in Gen, start(g) PROVE Fields'
    BY <1>1 DEF start, Fields, connectVars
<1>2. ASSUME NEW g \in Gen, StartSettles(g) PROVE Fields'
    BY <1>2 DEF StartSettles, Fields, connectVars
<1>3. ASSUME NEW g \in Gen, CloseEvent(g) PROVE Fields'
    BY <1>3 DEF CloseEvent, Fields, connectVars
<1>4. ASSUME NEW force \in BOOLEAN, shutdown(force) PROVE Fields'
    <2>1. clientSocket' \in {clientSocket, "gone"} /\ owner' = owner
        BY <1>4 DEF shutdown, closeAllSockets
    <2>2. CASE server = None
        BY <1>4, <2>1, <2>2 DEF shutdown, Fields
    <2>3. CASE server # None
        <3>1. server \in Gen /\ server' = None
            BY <1>4, <2>3 DEF shutdown, Fields
        <3>2. /\ httpServer' = [httpServer EXCEPT ![server] = "closing"]
              /\ shutdowns' = shutdowns \cup {server}
            BY <1>4, <2>3 DEF shutdown
        <3>3. shutdowns' = {g \in Gen : httpServer'[g] = "closing"}
            BY <3>1, <3>2 DEF Fields
        <3> QED
            BY <2>1, <3>1, <3>2, <3>3 DEF Fields
    <2> QED
        BY <2>2, <2>3
<1>5. ASSUME NEW g \in Gen, ConnectRequest(g) PROVE Fields'
    BY <1>5 DEF ConnectRequest, Fields, serverFieldVars
<1>6. CASE ConnectStep
    <2>1. UNCHANGED <<serverFieldVars, owner>>
          /\ (clientSocket' = clientSocket \/ clientSocket' = "gone")
        BY <1>6 DEF ConnectStep, RaceStep, RaceFails, RaceWon, Authenticated,
                    NotAuthenticated, Refuse, ClientCloses, RemoteCloses,
                    PipelineFails, connectVars
    <2> QED
        BY <2>1 DEF Fields, serverFieldVars
<1>7. CASE UNCHANGED proxyVars
    BY <1>7 DEF proxyVars, serverFieldVars, connectVars, Fields
<1> QED
    BY <1>1, <1>2, <1>3, <1>4, <1>5, <1>6, <1>7 DEF ProxyNext, ServerStep

(* Every step of the proxy keeps the invariant.                            *)
LEMMA PStep ==
    ASSUME PInv, [ProxyNext]_proxyVars
    PROVE  PInv'
<1>1. IInv'
    BY RaceOrStutter, NextIInv DEF PInv
<1>2. Phase'
    <2>1. CASE ServerStep
        BY <2>1, PhaseServer DEF PInv
    <2>2. CASE ConnectStep
        BY <2>2, <1>1, PhaseConnect
    <2>3. ASSUME NEW g \in Gen, ConnectRequest(g) PROVE Phase'
        BY <2>3, PhaseRequest DEF PInv
    <2>4. CASE UNCHANGED proxyVars
        <3>1. UNCHANGED vars /\ UNCHANGED connectVars
            BY <2>4 DEF proxyVars
        <3>2. Init => Init'
            BY <3>1, InitFrame
        <3> QED
            BY <3>1, <3>2 DEF vars, connectVars, PInv, Phase
    <2> QED
        BY <2>1, <2>2, <2>3, <2>4 DEF ProxyNext
<1>3. Fields'
    BY FieldsStep DEF PInv
<1> QED
    BY <1>1, <1>2, <1>3 DEF PInv

(* The inductive invariant of the proxy.                                   *)
THEOREM ProxyInvariance == ProxySpec => []PInv
BY PInit, PStep, PTL DEF ProxySpec

(* "First successful connection wins; others are destroyed", and a CONNECT *)
(* is refused only after every attempt, also while the proxy starts, shuts *)
(* down and loses its client (BaseProxy.sslConnectWithRetry).              *)
THEOREM RaceInProxy ==
    ProxySpec => [](OthersDestroyed /\ WinnerUntouched /\ RejectedAfterAll)
<1>1. Spec => [](OthersDestroyed /\ WinnerUntouched)
    BY Race, LosersDestroyed, PTL
<1>2. Spec => [](RejectedAfterAll /\ FailuresCounted)
    BY Rejection
<1> QED
    BY ProxyImplementsRace, <1>1, <1>2, PTL

(* BaseProxy.onConnect: the client reads one status line, and it is true.  *)
THEOREM OneReply == ProxySpec => []RepliedOnce
<1>1. PInv => RepliedOnce
    <2> SUFFICES ASSUME PInv PROVE RepliedOnce
        OBVIOUS
    <2>1. Phase
        BY DEF PInv
    <2>2. reply["200"] \in {0, 1} /\ reply["error"] \in {0, 1}
        BY <2>1 DEF Phase
    <2>3. reply["200"] = 0 \/ reply["error"] = 0
        BY <2>1, <2>2 DEF Phase
    <2>4. reply["error"] = 1 => onConnect \in {"denied", "over", "piping"}
        BY <2>1 DEF Phase
    <2> QED
        BY <2>1, <2>2, <2>3, <2>4 DEF Phase, RepliedOnce
<1> QED
    BY <1>1, ProxyInvariance, PTL

-----------------------------------------------------------------------------
(* The servers, when the application awaits shutdown() before start().     *)

LEMMA OneServerStep ==
    ASSUME ~Restarts, Phase, Fields, OneServer, [ProxyNext]_proxyVars
    PROVE  OneServer'
<1> USE GenFacts
<1>1. ASSUME NEW g \in Gen, start(g) PROVE OneServer'
    <2>1. shutdowns = {}
        BY <1>1 DEF start
    <2>2. \A h \in Gen : httpServer[h] \notin {"starting", "listening", "closing"}
        BY <1>1, <2>1 DEF start, Held, OneServer, Fields
    <2> QED
        BY <1>1, <2>2 DEF start, OneServer, Fields
<1>2. ASSUME NEW g \in Gen, StartSettles(g) PROVE OneServer'
    BY <1>2 DEF StartSettles, OneServer, Fields
<1>3. ASSUME NEW g \in Gen, CloseEvent(g) PROVE OneServer'
    BY <1>3 DEF CloseEvent, OneServer, Fields
<1>4. ASSUME NEW force \in BOOLEAN, shutdown(force) PROVE OneServer'
    BY <1>4 DEF shutdown, OneServer, Fields
<1>5. ASSUME NEW g \in Gen, ConnectRequest(g) PROVE OneServer'
    BY <1>5 DEF ConnectRequest, serverFieldVars, OneServer
<1>6. CASE ConnectStep
    <2>1. UNCHANGED serverFieldVars
        BY <1>6 DEF ConnectStep, RaceStep, RaceFails, RaceWon, Authenticated,
                    NotAuthenticated, Refuse, ClientCloses, RemoteCloses,
                    PipelineFails
    <2> QED
        BY <2>1 DEF OneServer, serverFieldVars
<1>7. CASE UNCHANGED proxyVars
    BY <1>7 DEF proxyVars, serverFieldVars, OneServer
<1> QED
    BY <1>1, <1>2, <1>3, <1>4, <1>5, <1>6, <1>7 DEF ProxyNext, ServerStep

(* BaseProxy.start, shutdown: the server that listens is the one that      *)
(* shutdown() would close, and shutdown() waits for the tunnel.            *)
THEOREM ServerKnown == ~Restarts => (ProxySpec => []RunningServerKnown)
<1> SUFFICES ASSUME ~Restarts PROVE ProxySpec => []RunningServerKnown
    OBVIOUS
<1>1. ProxyInit => OneServer
    BY DEF ProxyInit, OneServer
<1>2. PInv /\ OneServer /\ [ProxyNext]_proxyVars => OneServer'
    BY OneServerStep DEF PInv
<1>3. PInv /\ OneServer => RunningServerKnown
    BY GenFacts DEF PInv, Phase, Fields, OneServer, RunningServerKnown
<1> QED
    BY <1>1, <1>2, <1>3, ProxyInvariance, PTL DEF ProxySpec

-----------------------------------------------------------------------------
(* The tunnel.                                                             *)

TunnelLeft == IF crashed THEN "gone" ELSE clientSocket
TunnelRight == IF promise # "resolved" THEN "none"
         ELSE IF crashed \/ sock[winner] # "open" THEN "gone" ELSE "open"

(* Relay's step, over the two ends of the tunnel.                          *)
LEMMA TunnelStep ==
    ASSUME PInv, PInv', [ProxyNext]_proxyVars
    PROVE  [Tunnel!Next]_<<TunnelLeft, TunnelRight>>
<1> USE DEF Tunnel!Next, Tunnel!Arrive, Tunnel!Reach, Tunnel!Leave,
            Tunnel!Leaves, TunnelLeft, TunnelRight
<1>1. CASE UNCHANGED proxyVars
    BY <1>1 DEF proxyVars, vars, connectVars
<1>2. CASE ~crashed /\ ServerStep
    <2>1. UNCHANGED <<vars, crashed>>
          /\ (clientSocket' = clientSocket
               \/ (clientSocket = "open" /\ clientSocket' = "gone"))
        BY <1>2 DEF ServerStep, start, StartSettles, CloseEvent, shutdown,
                    closeAllSockets, connectVars
    <2> QED
        BY <1>2, <2>1 DEF vars
<1>3. ASSUME ~crashed, NEW g \in Gen, ConnectRequest(g)
      PROVE  [Tunnel!Next]_<<TunnelLeft, TunnelRight>>
    BY <1>3 DEF ConnectRequest, vars
<1>4. ASSUME ~crashed, NEW i \in Attempt, RaceStep(i)
      PROVE  UNCHANGED <<TunnelLeft, TunnelRight>>
    <2>1. promise' = promise /\ winner' = winner
        BY <1>4, PromiseFrame DEF PInv, RaceStep
    <2>2. promise = "resolved" => sock'[winner] = sock[winner]
        BY <1>4, WinnerKept DEF PInv, RaceStep
    <2> QED
        BY <1>4, <2>1, <2>2 DEF RaceStep, connectVars
<1>5. ASSUME ~crashed, NEW i \in Attempt, RaceFails(i)
      PROVE  [Tunnel!Next]_<<TunnelLeft, TunnelRight>>
    <2>1. /\ promise' = promise \/ (promise = "pending" /\ promise' = "rejected")
          /\ winner' = winner /\ (promise = "resolved" => sock' = sock)
        BY <1>5, FailSettles DEF PInv, RaceFails
    <2>2. clientSocket \in {"open", "gone"} /\ crashed' = crashed
          /\ clientSocket' \in {clientSocket, "gone"}
        BY <1>5 DEF RaceFails, Refuse, connectVars, RaceBegun, PInv, Phase
    <2> QED
        BY <1>5, <2>1, <2>2
<1>6. ASSUME ~crashed, NEW i \in Attempt, RaceWon(i)
      PROVE  [Tunnel!Next]_<<TunnelLeft, TunnelRight>>
    <2>1. promise # "resolved" /\ promise' = "resolved" /\ sock'[winner'] = "open"
        BY <1>6, WinSettles DEF PInv, RaceWon
    <2> QED
        BY <1>6, <2>1 DEF RaceWon, PInv, Phase
<1>7. CASE ~crashed /\ (Authenticated \/ NotAuthenticated)
    <2>1. UNCHANGED <<vars, crashed>> /\ clientSocket' \in {clientSocket, "gone"}
          /\ clientSocket \in {"open", "gone"}
        BY <1>7 DEF Authenticated, NotAuthenticated, Refuse, PInv, Phase
    <2> QED
        BY <1>7, <2>1 DEF vars
<1>8. CASE ~crashed /\ ClientCloses
    BY <1>8 DEF ClientCloses, vars
<1>9. CASE ~crashed /\ RemoteCloses
    BY <1>9, TunnelEnd DEF RemoteCloses, PInv, connectVars
<1>10. CASE ~crashed /\ PipelineFails
    <2>1. UNCHANGED <<promise, winner, crashed>> /\ promise = "resolved"
          /\ sock'[winner] # "open"
        BY <1>10, TunnelEnd DEF PipelineFails, PInv, Phase, vars
    <2>2. clientSocket \in {"open", "gone"} /\ clientSocket' = "gone"
        BY <1>10 DEF PipelineFails, PInv, Phase
    <2> QED
        BY <1>10, <2>1, <2>2
<1> QED
    BY <1>1, <1>2, <1>3, <1>4, <1>5, <1>6, <1>7, <1>8, <1>9, <1>10
    DEF ProxyNext, ConnectStep

(* BaseProxy.onConnect is a relay: one onward connection at most, made for *)
(* a client that came, and no end opens again that is gone.                *)
THEOREM TunnelRelays == ProxySpec => Tunnel!Safe
<1>1. ProxyInit => Tunnel!Init
    BY DEF ProxyInit, Init, Tunnel!Init
<1>2. PInv /\ PInv' /\ [ProxyNext]_proxyVars => [Tunnel!Next]_<<TunnelLeft, TunnelRight>>
    BY TunnelStep
<1> QED
    BY <1>1, <1>2, ProxyInvariance, PTL DEF ProxySpec, Tunnel!Safe, TunnelLeft, TunnelRight

-----------------------------------------------------------------------------
(* A plain proxy request.                                                  *)

(* The heads that the client can have been sent.                           *)
NoHead == <<>>
OwnHead == <<"own">>
RemoteHead == <<"remote">>

(* At each point of onRequest: which head the client has, if any, and how  *)
(* far the forwarded request can be.  The end of a response of the remote  *)
(* host is only written when all of that was read.                         *)
Exchanged ==
    /\ onRequest \in {"none", "authenticating", "forwarding", "piping", "over"}
    /\ onRequest \in {"none", "authenticating", "forwarding"} => heads = NoHead
    /\ onRequest = "none" => exchange = "none" /\ forward = "none"
    /\ onRequest = "authenticating" => forward = "none"
    /\ onRequest = "forwarding" => forward = "pending"
    /\ onRequest \in {"authenticating", "forwarding"} => exchange \in {"waiting", "cut"}
    /\ onRequest = "piping" =>
          \/ exchange = "partial" /\ heads = RemoteHead
          \/ exchange = "cut" /\ heads \in {NoHead, RemoteHead}
    /\ onRequest = "over" =>
          \/ exchange = "complete" /\ heads = OwnHead
          \/ exchange = "complete" /\ heads = RemoteHead /\ forward = "ended"
          \/ exchange = "cut" /\ heads \in {NoHead, RemoteHead}

RequestInv ==
    /\ forward \in {"none", "pending", "streaming", "ended", "failed",
                    "destroyed", "unread"}
    /\ bodySent \in BOOLEAN
    /\ Exchanged

LEMMA HeadFacts ==
    \A h \in {NoHead, OwnHead, RemoteHead} :
        h \in Seq({"own", "remote"}) /\ Len(h) <= 1 /\ (h # NoHead => Len(h) = 1)
<1>1. NoHead \in Seq({"own", "remote"}) /\ Len(NoHead) <= 1
  BY DEF NoHead
<1>2. OwnHead \in Seq({"own", "remote"}) /\ Len(OwnHead) <= 1
        /\ Len(OwnHead) = 1
  BY DEF OwnHead
<1>3. RemoteHead \in Seq({"own", "remote"}) /\ Len(RemoteHead) <= 1
        /\ Len(RemoteHead) = 1
  BY DEF RemoteHead
<1> QED
  BY <1>1, <1>2, <1>3, Zenon

LEMMA HeadOfOwn == OwnHead[1] = "own"
BY DEF OwnHead

LEMMA FirstHead ==
    heads = NoHead => /\ Append(heads, "own") = OwnHead
                      /\ Append(heads, "remote") = RemoteHead
BY DEF NoHead, OwnHead, RemoteHead

LEMMA CatchAnswers ==
    ASSUME Catch, heads = NoHead, exchange \in {"waiting", "cut"}
    PROVE  /\ onRequest' = "over"
           /\ \/ exchange' = "complete" /\ heads' = OwnHead
              \/ exchange' = "cut" /\ heads' = NoHead
<1>1. CASE exchange = "waiting"
  <2>1. heads' = Append(heads, "own") /\ exchange' = "complete" /\ onRequest' = "over"
    BY <1>1 DEF Catch
  <2> QED
    BY <2>1, FirstHead
<1>2. CASE exchange = "cut"
  BY <1>2 DEF Catch
<1> QED
  BY <1>1, <1>2

LEMMA RequestStep == RequestInv /\ [RequestNext]_requestVars => RequestInv'
<1> SUFFICES ASSUME RequestInv, [RequestNext]_requestVars PROVE RequestInv'
  OBVIOUS
<1> USE DEF RequestInv, Exchanged
<1>1. CASE Request
  BY <1>1 DEF Request
<1>2. CASE Refused
  BY <1>2, CatchAnswers DEF Refused
<1>3. CASE Forwarded \/ BodySent
  BY <1>3 DEF Forwarded, BodySent
<1>4. CASE ForwardFails
  BY <1>4, CatchAnswers DEF ForwardFails
<1>5. CASE Responds
  <2>1. CASE exchange = "waiting"
    <3>1. /\ heads' = Append(heads, "remote") /\ exchange' = "partial"
          /\ onRequest' = "piping" /\ forward' = "streaming"
          /\ bodySent' = bodySent /\ heads = NoHead
      BY <1>5, <2>1 DEF Responds
    <3> QED
      BY <3>1, FirstHead
  <2>2. CASE exchange # "waiting"
    BY <1>5, <2>2 DEF Responds
  <2> QED
    BY <2>1, <2>2
<1>6. CASE RespondsMalformed
  BY <1>6, CatchAnswers DEF RespondsMalformed
<1>7. CASE BodyEnds \/ BodyBreaks
  BY <1>7 DEF BodyEnds, BodyBreaks
<1>8. CASE ClientAborts
  BY <1>8 DEF ClientAborts
<1>9. CASE ResponsePipelineFails
  BY <1>9 DEF ResponsePipelineFails
<1>10. CASE RequestPipelineFails
  BY <1>10, CatchAnswers DEF RequestPipelineFails
<1>11. CASE UNCHANGED requestVars
  BY <1>11 DEF requestVars
<1> QED
  BY <1>1, <1>2, <1>3, <1>4, <1>5, <1>6, <1>7, <1>8, <1>9, <1>10, <1>11
  DEF RequestNext, RemoteAnswers, PipelineEnds

(* The inductive invariant of a proxy request.                             *)
THEOREM RequestInvariance == RequestSpec => []RequestInv
<1>1. RequestInit => RequestInv
  BY DEF RequestInit, RequestInv, Exchanged, NoHead
<1> QED
  BY <1>1, RequestStep, PTL DEF RequestSpec

(* BaseProxy.onRequest and its catch block: one head at most, and no end   *)
(* is written to a response of the remote host that broke off.             *)
THEOREM ResponseHonest == RequestSpec => []HonestResponse
<1>1. RequestInv => HonestResponse
  <2> SUFFICES ASSUME RequestInv PROVE HonestResponse
    OBVIOUS
  <2>1. heads \in {NoHead, OwnHead, RemoteHead}
    BY DEF RequestInv, Exchanged
  <2>2. exchange = "complete" => \/ heads = OwnHead
                                 \/ heads = RemoteHead /\ forward = "ended"
    BY DEF RequestInv, Exchanged
  <2>3. OwnHead # NoHead /\ RemoteHead # NoHead /\ OwnHead[1] # "remote"
    BY HeadOfOwn DEF OwnHead, RemoteHead, NoHead
  <2> QED
    BY <2>1, <2>2, <2>3, HeadFacts DEF HonestResponse
<1> QED
  BY <1>1, RequestInvariance, PTL

-----------------------------------------------------------------------------
(* A WebSocket upgrade.                                                    *)

(* What was written and what is still to be piped is together all that    *)
(* came, once the head was written; until then only the request was.       *)
Stream ==
    /\ frames \in Nat /\ head \in BOOLEAN /\ headQueued \in BOOLEAN
    /\ upgrade \in {"none", "pending", "piped", "rejected"}
    /\ client \in {"none", "open", "ended", "gone"}
    /\ client = "none" <=> upgrade = "none"
    /\ written \in Seq(Int) /\ buffered \in Seq(Int)
    /\ upgrade # "piped" => written = <<>> /\ ~headQueued
    /\ upgrade \in {"none", "pending"} \/ headQueued => buffered = FromClient(frames)
    /\ headQueued => head /\ written = <<ForwardedUpgrade>>
    /\ upgrade = "piped" /\ ~headQueued =>
          written \o buffered = Preamble \o FromClient(frames)

(* The outbound socket is made when the upgrade is piped; 'end' comes from *)
(* a client that has ended its side.                                       *)
Ends ==
    /\ outbound \in {"none", "open", "gone"}
    /\ endEmitted \in BOOLEAN
    /\ upgrade # "piped" <=> outbound = "none"
    /\ endEmitted => client \in {"ended", "gone"}

WsInv == Stream /\ Ends

(* The parts of the stream are sequences of numbers.                       *)
LEMMA PreambleSeq ==
    /\ Preamble \in Seq(Int)
    /\ head => Preamble = Append(<<ForwardedUpgrade>>, HeadBytes)
    /\ ~head => Preamble = <<ForwardedUpgrade>>
    /\ <<ForwardedUpgrade>> \in Seq(Int) /\ HeadBytes \in Int
BY DEF Preamble, ForwardedUpgrade, HeadBytes

LEMMA FromClientSeq ==
    ASSUME NEW n \in Nat
    PROVE  /\ FromClient(n) \in Seq(Int)
           /\ Append(FromClient(n), n + 1) = FromClient(n + 1)
BY DEF FromClient

(* What is appended to a concatenation is appended to its second part.     *)
LEMMA AppendToConcat ==
    ASSUME NEW s \in Seq(Int), NEW t \in Seq(Int), NEW x \in Int
    PROVE  Append(s \o t, x) = s \o Append(t, x)
<1> DEFINE u == <<x>>
<1>1. u \in Seq(Int) /\ s \o t \in Seq(Int)
    BY ConcatProperties
<1>2. Append(t, x) = t \o u /\ Append(s \o t, x) = (s \o t) \o u
    BY <1>1, AppendIsConcat
<1> HIDE DEF u
<1>3. (s \o t) \o u = s \o (t \o u)
    <2>1. s \in Seq(Int) /\ t \in Seq(Int) /\ u \in Seq(Int)
        BY <1>1
    <2> QED
        BY ONLY <2>1, ConcatAssociative, SMTT(30)
<1> QED
    BY <1>2, <1>3

(* The first of a sequence moves to the end of the one before it.          *)
LEMMA HeadMoves ==
    ASSUME NEW s \in Seq(Int), NEW t \in Seq(Int), t # <<>>
    PROVE  /\ Head(t) \in Int /\ Tail(t) \in Seq(Int)
           /\ Append(s, Head(t)) \o Tail(t) = s \o t
<1> DEFINE u == <<Head(t)>>
           v == Tail(t)
<1>1. Head(t) \in Int /\ v \in Seq(Int) /\ u \in Seq(Int)
    BY HeadTailProperties
<1>2. Append(s, Head(t)) = s \o u /\ t = u \o v
    <2>1. Append(s, Head(t)) = s \o u
        BY <1>1, AppendIsConcat
    <2>2. t = u \o v
        OBVIOUS
    <2> QED
        BY <2>1, <2>2
<1> HIDE DEF u, v
<1>3. (s \o u) \o v = s \o (u \o v)
    <2>1. s \in Seq(Int) /\ u \in Seq(Int) /\ v \in Seq(Int)
        BY <1>1
    <2> QED
        BY ONLY <2>1, ConcatAssociative, SMTT(30)
<1> QED
    BY <1>1, <1>2, <1>3 DEF v

(* Before the upgrade request.                                             *)
LEMMA WsInvInit == WsInit => WsInv
<1> SUFFICES ASSUME WsInit PROVE Stream /\ Ends
    BY DEF WsInv
<1>1. Stream
    <2>1. FromClient(0) = <<>> /\ <<>> \in Seq(Int)
        BY DEF FromClient
    <2>2. /\ frames = 0 /\ buffered = <<>> /\ written = <<>>
          /\ client = "none" /\ upgrade = "none" /\ ~head /\ ~headQueued
          /\ head \in BOOLEAN /\ headQueued \in BOOLEAN
        BY DEF WsInit
    <2> QED
        BY <2>1, <2>2 DEF Stream
<1>2. Ends
    BY DEF WsInit, Ends
<1> QED
    BY <1>1, <1>2

(* Every step keeps the stream.                                            *)
LEMMA StreamStep == WsInv /\ [WsNext]_wsVars => Stream'
<1> SUFFICES ASSUME WsInv, [WsNext]_wsVars PROVE Stream'
    OBVIOUS
<1> USE DEF WsInv, Stream, Ends
<1>a. FromClient(frames)' = FromClient(frames')
    BY DEF FromClient
<1>b. head' = head => Preamble' = Preamble
    BY DEF Preamble
<1>1. CASE onUpgrade
    BY <1>1 DEF onUpgrade, NotAnUpgrade, reject, FromClient
<1>2. CASE onError
    BY <1>2 DEF onError, reject
<1>3. CASE runRelay
    <2>1. /\ written' = <<ForwardedUpgrade>> /\ headQueued' = head
          /\ buffered' = FromClient(frames) /\ frames' = frames /\ head' = head
        BY <1>3 DEF runRelay
    <2>2. ~head => written' = Preamble
        BY <2>1, PreambleSeq
    <2>3. written' \in Seq(Int) /\ buffered' \in Seq(Int)
        <3>1. written' \in Seq(Int)
            BY <2>1, PreambleSeq, Zenon
        <3>2. buffered' \in Seq(Int)
            BY <2>1, FromClientSeq
        <3> QED
            BY <3>1, <3>2
    <2>4. client' = client /\ upgrade' = "piped" /\ client # "none"
        BY <1>3 DEF runRelay
    <2>5. ~head => written' \o buffered' = Preamble' \o FromClient(frames')
        BY <1>b, <2>1, <2>2
    <2> QED
        BY <1>a, <2>1, <2>3, <2>4, <2>5
<1>4. CASE HeadWritten
    <2>1. /\ head /\ written = <<ForwardedUpgrade>> /\ buffered = FromClient(frames)
          /\ written' = Append(written, HeadBytes)
        BY <1>4 DEF HeadWritten
    <2>2. written' = Preamble
        BY <2>1, PreambleSeq
    <2> QED
        BY <1>a, <1>b, <1>4, <2>1, <2>2, PreambleSeq DEF HeadWritten
<1>5. CASE Piped
    <2>1. /\ Append(written, Head(buffered)) \o Tail(buffered) = written \o buffered
          /\ Head(buffered) \in Int /\ Tail(buffered) \in Seq(Int)
        BY <1>5, HeadMoves DEF Piped
    <2>2. Append(written, Head(buffered)) \in Seq(Int)
        BY <2>1
    <2> QED
        BY <1>a, <1>b, <1>5, <2>1, <2>2 DEF Piped, Turn
<1>6. CASE ClientSends
    <2>1. frames + 1 \in Int /\ frames' = frames + 1 /\ frames' \in Nat
        BY <1>6 DEF ClientSends
    <2>2. CASE upgrade = "rejected"
        BY <1>6, <2>1, <2>2 DEF ClientSends
    <2>3. CASE upgrade # "rejected"
        <3>1. buffered' = Append(buffered, frames + 1) /\ buffered' \in Seq(Int)
            BY <1>6, <2>1, <2>3 DEF ClientSends
        <3>2. buffered = FromClient(frames) => buffered' = FromClient(frames')
            BY <2>1, <3>1, FromClientSeq
        <3>3. written \o buffered' = Append(written \o buffered, frames + 1)
            BY <2>1, <3>1, AppendToConcat
        <3>4. Append(Preamble \o FromClient(frames), frames + 1)
                = Preamble \o FromClient(frames')
            <4>1. FromClient(frames) \in Seq(Int)
                  /\ Append(FromClient(frames), frames + 1) = FromClient(frames')
                BY <2>1, FromClientSeq
            <4>2. Append(Preamble \o FromClient(frames), frames + 1)
                    = Preamble \o Append(FromClient(frames), frames + 1)
                <5>1. Preamble \in Seq(Int) /\ FromClient(frames) \in Seq(Int)
                      /\ frames + 1 \in Int
                    BY <2>1, <4>1, PreambleSeq
                <5> QED
                    BY ONLY <5>1, AppendToConcat, Zenon
            <4> QED
                BY <4>1, <4>2, Zenon
        <3> QED
            BY <1>a, <1>b, <1>6, <2>1, <3>1, <3>2, <3>3, <3>4 DEF ClientSends
    <2> QED
        BY <2>2, <2>3
<1>7. CASE ClientEnds \/ EndEvent \/ ClientError \/ OutboundGone \/ OutboundClosed
           \/ UNCHANGED wsVars
    <2>1. /\ UNCHANGED <<upgrade, head, frames, buffered, headQueued, written>>
          /\ client' \in {"ended", "gone", client}
          /\ client' = "none" <=> client = "none"
        BY <1>7 DEF ClientEnds, EndEvent, ClientError, OutboundGone,
                    OutboundClosed, wsVars, stream
    <2> QED
        BY <1>a, <1>b, <2>1
<1> QED
    BY <1>1, <1>2, <1>3, <1>4, <1>5, <1>6, <1>7
    DEF WsNext, Events, ProcessConnection

(* Every step keeps the ends.                                              *)
LEMMA EndsStep == WsInv /\ [WsNext]_wsVars => Ends'
<1> SUFFICES ASSUME WsInv, [WsNext]_wsVars PROVE Ends'
    OBVIOUS
<1> USE DEF WsInv, Stream, Ends
<1>1. CASE onUpgrade \/ onError \/ runRelay
    BY <1>1 DEF onUpgrade, NotAnUpgrade, onError, runRelay, reject
<1>2. CASE HeadWritten \/ ClientSends \/ ClientEnds \/ Piped \/ UNCHANGED wsVars
    BY <1>2 DEF HeadWritten, ClientSends, ClientEnds, Piped, wsVars
<1>3. CASE EndEvent \/ ClientError \/ OutboundGone \/ OutboundClosed
    BY <1>3 DEF EndEvent, ClientError, OutboundGone, OutboundClosed
<1> QED
    BY <1>1, <1>2, <1>3 DEF WsNext, Events, ProcessConnection

(* The inductive invariant of an upgrade.                                  *)
THEOREM WsInvariance == WsSpec => []WsInv
BY WsInvInit, StreamStep, EndsStep, PTL DEF WsSpec, WsInv

(* WsProxy.runRelay, pipeBidirectional: the outbound socket is written the *)
(* request, the bytes that came with it and what the client sent, in order *)
(* and without a gap: all of it but for what the client's socket holds.    *)
THEOREM StreamKept == WsSpec => []StreamIntact
<1>1. WsInv => StreamIntact
    BY DEF WsInv, Stream, StreamIntact
<1> QED
    BY <1>1, WsInvariance, PTL

-----------------------------------------------------------------------------
UpgradeLeft == IF client = "ended" THEN "gone" ELSE client

(* Each step of an upgrade, as the relay sees it.                          *)
LEMMA UpgradeStep ==
    WsInv /\ [WsNext]_wsVars => [WsRelay!Next]_<<UpgradeLeft, outbound>>
<1> SUFFICES ASSUME WsInv, [WsNext]_wsVars
             PROVE  [WsRelay!Next]_<<UpgradeLeft, outbound>>
    OBVIOUS
<1> USE DEF WsInv, Stream, Ends, UpgradeLeft, WsRelay!Next, WsRelay!Arrive,
            WsRelay!Reach, WsRelay!Leave, WsRelay!Leaves
<1>1. CASE onUpgrade
    BY <1>1 DEF onUpgrade, NotAnUpgrade, reject
<1>2. CASE onError
    BY <1>2 DEF onError, reject
<1>3. CASE runRelay
    BY <1>3 DEF runRelay
<1>4. CASE HeadWritten \/ ClientSends \/ ClientEnds \/ Piped \/ UNCHANGED wsVars
    BY <1>4 DEF HeadWritten, ClientSends, ClientEnds, Piped, wsVars
<1>5. CASE EndEvent \/ ClientError
    BY <1>5 DEF EndEvent, ClientError
<1>6. CASE OutboundGone \/ OutboundClosed
    BY <1>6 DEF OutboundGone, OutboundClosed
<1> QED
    BY <1>1, <1>2, <1>3, <1>4, <1>5, <1>6 DEF WsNext, Events, ProcessConnection

(* WsProxy.onUpgradeInternal is a relay: at most one outbound connection,  *)
(* for a client that came, and no end opens again that is gone.            *)
THEOREM UpgradeRelays == WsSpec => WsRelay!Safe
<1>1. WsInit => WsRelay!Init
    BY DEF WsInit, WsRelay!Init
<1> QED
    BY <1>1, UpgradeStep, WsInvariance, PTL DEF WsSpec, WsRelay!Safe, UpgradeLeft

-----------------------------------------------------------------------------
(* What is proved of the three holds of Relays, which the run checks: each *)
(* of its behaviours is one of the CONNECT proxy, of a proxy request, and  *)
(* of an upgrade.                                                          *)
THEOREM RelaysAreEach == RelaysSpec => ProxySpec /\ RequestSpec /\ WsSpec
<1>1. RelaysInit => ProxyInit /\ RequestInit /\ WsInit
  BY DEF RelaysInit
<1>2. [RelaysNext]_relaysVars =>
        [ProxyNext]_proxyVars /\ [RequestNext]_requestVars /\ [WsNext]_wsVars
  BY DEF RelaysNext, relaysVars
<1> QED
  BY <1>1, <1>2, PTL DEF RelaysSpec, ProxySpec, RequestSpec, WsSpec
=============================================================================
