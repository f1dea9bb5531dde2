---------------------------- MODULE ConnectRetry ----------------------------
(***************************************************************************)
(* The onward connection of one CONNECT request in packages/http-proxy:    *)
(* BaseProxy.sslConnectWithRetry races connectRetryAttempts + 1 staggered  *)
(* attempts, the first that connects wins, ConnectRetryState clears the    *)
(* timers and destroys the sockets of the others; the winner then carries  *)
(* the tunnel between the client and the remote host.                      *)
(*                                                                         *)
(* An attempt goes to the remote host directly (sslDirectConnect) or       *)
(* through an upstream proxy (sslProxyConnect).  Both are overridable and  *)
(* asynchronous, so the event that settles an attempt and the resumption   *)
(* of tryConnect after its await are two steps here; an established socket *)
(* is taken to survive the gap between them.                               *)
(***************************************************************************)
EXTENDS Integers, FiniteSets

CONSTANT
    Retries             \* connectRetryAttempts

ASSUME RetriesAssumption == Retries \in Nat

totalAttempts == Retries + 1
Attempt == 0 .. Retries
None == -1              \* no attempt

VARIABLES
    upstream,           \* did matchRoute return an upstream proxy?
    attempt,            \* attempt[i]: where tryConnect(i) stands
    sock,               \* sock[i]: the socket of attempt i
    openSockets,        \* ConnectRetryState: sockets tracked, by attempt
    completed,          \* ConnectRetryState.completed
    failures,           \* ConnectRetryState.failures
    promise,            \* the promise of sslConnectWithRetry
    winner,             \* the attempt whose connection resolved it
    trackedConnections, \* is the connection in trackedConnections?
    endedBy             \* what ended the tunnel (history)

vars == <<upstream, attempt, sock, openSockets, completed, failures, promise,
          winner, trackedConnections, endedBy>>

(* "scheduled"  its timer is armed                                         *)
(* "cleared"    its timer was cleared                                      *)
(* "dialing"    the request to the upstream has no socket yet              *)
(* "connecting" its socket is tracked, the connection not established      *)
(* "connected"  established, tryConnect has not resumed                    *)
(* "failing"    rejected, tryConnect has not resumed                       *)
(* "won", "lost", "failed"  tryConnect is over                             *)
AttemptStatus == {"scheduled", "cleared", "dialing", "connecting",
                  "connected", "failing", "won", "lost", "failed"}
EndReason == {"none", "peer", "connectTimeout"}

TypeOK ==
    /\ upstream \in BOOLEAN
    /\ attempt \in [Attempt -> AttemptStatus]
    /\ sock \in [Attempt -> {"none", "open", "destroyed"}]
    /\ openSockets \in SUBSET Attempt
    /\ completed \in BOOLEAN
    /\ failures \in 0 .. totalAttempts
    /\ promise \in {"pending", "resolved", "rejected"}
    /\ winner \in Attempt \cup {None}
    /\ trackedConnections \in BOOLEAN
    /\ endedBy \in EndReason

Init ==
    /\ upstream \in BOOLEAN
    /\ attempt = [i \in Attempt |-> "scheduled"]
    /\ sock = [i \in Attempt |-> "none"]
    /\ openSockets = {}
    /\ completed = FALSE
    /\ failures = 0
    /\ promise = "pending"
    /\ winner = None
    /\ trackedConnections = FALSE
    /\ endedBy = "none"

-----------------------------------------------------------------------------
tunnelVars == <<upstream, trackedConnections, endedBy>>
stateVars == <<openSockets, completed, failures, promise, winner>>

(* state.cancel(keep): every timer that is armed is cleared, every tracked *)
(* socket but that of keep is destroyed.                                   *)
Cleared(att) ==
    [i \in Attempt |-> IF att[i] = "scheduled" THEN "cleared" ELSE att[i]]

(* Mutant: the socket to keep is destroyed with the others.                *)
CancelSparesNone(keep) ==
    /\ sock' = [i \in Attempt |-> IF i \in openSockets
                                  THEN "destroyed" ELSE sock[i]]
    /\ openSockets' = {}

Cancel(keep) ==
    /\ sock' = [i \in Attempt |-> IF i \in openSockets /\ i # keep
                                  THEN "destroyed" ELSE sock[i]]
    /\ openSockets' = {}

-----------------------------------------------------------------------------
(* tryConnect(i): its timer fires.  Timers are armed at the same time with *)
(* growing delays and fire in order.  A direct attempt has its socket at   *)
(* once, a request to an upstream gets it later.                           *)
tryConnect(i) ==
    /\ attempt[i] = "scheduled"
    /\ \A j \in 0 .. i - 1 : attempt[j] # "scheduled"
    /\ ~completed
    /\ sock' = [sock EXCEPT ![i] = "open"]
    /\ IF upstream
       THEN /\ attempt' = [attempt EXCEPT ![i] = "dialing"]
            /\ UNCHANGED openSockets
       ELSE /\ attempt' = [attempt EXCEPT ![i] = "connecting"]
            /\ openSockets' = openSockets \cup {i}
    /\ UNCHANGED <<completed, failures, promise, winner, tunnelVars>>

(* Mutant: a late socket is tracked like any other.                        *)
trackSocketLate(i) ==
    /\ attempt[i] = "dialing"
    /\ attempt' = [attempt EXCEPT ![i] = "connecting"]
    /\ openSockets' = openSockets \cup {i}
    /\ UNCHANGED <<sock, completed, failures, promise, winner, tunnelVars>>

(* trackSocket from the 'socket' event of the request to the upstream: too *)
(* late once another attempt has won.                                      *)
trackSocket(i) ==
    /\ attempt[i] = "dialing"
    /\ attempt' = [attempt EXCEPT ![i] = "connecting"]
    /\ openSockets' = openSockets \cup {i}
    /\ sock' = [sock EXCEPT ![i] = IF completed THEN "destroyed" ELSE @]
    /\ UNCHANGED <<completed, failures, promise, winner, tunnelVars>>

(* The connection is established: 'connect' with, from an upstream, a      *)
(* status below 400.  A destroyed socket does not connect any more.        *)
Connected(i) ==
    /\ attempt[i] = "connecting" /\ sock[i] = "open"
    /\ attempt' = [attempt EXCEPT ![i] = "connected"]
    /\ UNCHANGED <<sock, stateVars, tunnelVars>>

(* 'error', or a status of 400 and more from the upstream: the socket is   *)
(* gone.  A request to an upstream whose socket was destroyed fails with   *)
(* an error too; a direct socket that was destroyed stays silent.          *)
Errored(i) ==
    /\ attempt[i] \in {"dialing", "connecting"}
    /\ sock[i] = "open" \/ upstream
    /\ attempt' = [attempt EXCEPT ![i] = "failing"]
    /\ sock' = [sock EXCEPT ![i] = "destroyed"]
    /\ UNCHANGED <<stateVars, tunnelVars>>

(* 'timeout' before the connection is established: the handler destroys    *)
(* the socket, or the request, and rejects.                                *)
TimedOut(i) ==
    /\ attempt[i] = "connecting" /\ sock[i] = "open"
    /\ attempt' = [attempt EXCEPT ![i] = "failing"]
    /\ sock' = [sock EXCEPT ![i] = "destroyed"]
    /\ UNCHANGED <<stateVars, tunnelVars>>

(* tryConnect resumes first: it completes the race, createSslConnection    *)
(* tracks the connection.                                                  *)
Win(i) ==
    /\ attempt[i] = "connected"
    /\ ~completed
    /\ completed' = TRUE
    /\ Cancel(i)
    /\ attempt' = [Cleared(attempt) EXCEPT ![i] = "won"]
    /\ promise' = "resolved"
    /\ winner' = i
    /\ trackedConnections' = TRUE
    /\ UNCHANGED <<upstream, failures, endedBy>>

(* tryConnect resumes with a connection after another attempt won.         *)
Lose(i) ==
    /\ attempt[i] = "connected"
    /\ completed
    /\ attempt' = [attempt EXCEPT ![i] = "lost"]
    /\ sock' = [sock EXCEPT ![i] = "destroyed"]
    /\ UNCHANGED <<stateVars, tunnelVars>>

(* Mutant: one failure short of all rejects.                               *)
FailEarly(i) ==
    /\ attempt[i] = "failing"
    /\ failures' = failures + 1
    /\ IF ~completed /\ failures + 1 >= Retries
       THEN /\ Cancel(None)
            /\ attempt' = [Cleared(attempt) EXCEPT ![i] = "failed"]
            /\ promise' = "rejected"
       ELSE /\ attempt' = [attempt EXCEPT ![i] = "failed"]
            /\ UNCHANGED <<sock, openSockets, promise>>
    /\ UNCHANGED <<completed, winner, tunnelVars>>

(* tryConnect resumes with an error; the last failure rejects.             *)
Fail(i) ==
    /\ attempt[i] = "failing"
    /\ failures' = failures + 1
    /\ IF ~completed /\ failures + 1 >= totalAttempts
       THEN /\ Cancel(None)
            /\ attempt' = [Cleared(attempt) EXCEPT ![i] = "failed"]
            /\ promise' = "rejected"
       ELSE /\ attempt' = [attempt EXCEPT ![i] = "failed"]
            /\ UNCHANGED <<sock, openSockets, promise>>
    /\ UNCHANGED <<completed, winner, tunnelVars>>

-----------------------------------------------------------------------------
(* The tunnel.                                                             *)

EndTunnel(reason) ==
    /\ promise = "resolved" /\ sock[winner] = "open"
    /\ sock' = [sock EXCEPT ![winner] = "destroyed"]
    /\ trackedConnections' = FALSE
    /\ endedBy' = reason
    /\ UNCHANGED <<upstream, attempt, stateVars>>

(* The client or the remote host closes: the pipelines end both sockets.   *)
PeerCloses == EndTunnel("peer")

(* The socket of a direct connection keeps the timeout, and the handler,   *)
(* it was given while it connected: connectTimeout without traffic ends it.*)
IdleTimeout == ~upstream /\ EndTunnel("connectTimeout")

-----------------------------------------------------------------------------
Settled(i) == Connected(i) \/ Errored(i) \/ TimedOut(i)
Resume(i) == Win(i) \/ Lose(i) \/ Fail(i)

Next ==
    \/ \E i \in Attempt : \/ tryConnect(i)
                          \/ trackSocket(i)
                          \/ Settled(i)
                          \/ Resume(i)
    \/ PeerCloses
    \/ IdleTimeout

Spec == Init /\ [][Next]_vars

-----------------------------------------------------------------------------
(* Properties.                                                             *)

(* "First successful connection wins; others are destroyed": once an       *)
(* attempt has won, no timer is armed and no other socket is open but one  *)
(* whose request has not had its 'socket' event.                           *)
OthersDestroyed ==
    completed => \A i \in Attempt \ {winner} :
        /\ attempt[i] # "scheduled"
        /\ sock[i] = "open" => attempt[i] = "dialing"

(* The tunnel is not destroyed by the race that created it, and it is the  *)
(* connection that proxy.trackedConnections holds.                         *)
WinnerUntouched ==
    /\ promise = "resolved" <=> completed
    /\ completed => /\ attempt[winner] = "won"
                    /\ sock[winner] = "open" <=> endedBy = "none"
    /\ trackedConnections <=> completed /\ endedBy = "none"

(* The CONNECT fails only when every attempt has been made and has failed, *)
(* and then nothing is left behind: no socket, no timer.                   *)
RejectedAfterAll ==
    promise = "rejected" =>
        \A i \in Attempt : attempt[i] = "failed" /\ sock[i] = "destroyed"

(* The failure count is that of the attempts that failed, so it can reach  *)
(* totalAttempts only when all have.                                       *)
FailuresCounted ==
    failures = Cardinality({i \in Attempt : attempt[i] = "failed"})

(* "Timeout for establishing outbound connections" (config.ts): it never   *)
(* ends a connection that was established.                                 *)
TimeoutOnlyEstablishing == endedBy # "connectTimeout"
=============================================================================
