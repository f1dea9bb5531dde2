------------------------------ MODULE Ensemble ------------------------------
(***************************************************************************)
(* The ensemble command of packages/ensemble: cli.ts starts every app      *)
(* (Ensemble.startAll, ProcessFork.start), then stops them on a signal     *)
(* (Ensemble.stopAll, ProcessFork.stop), last started first.               *)
(*                                                                         *)
(* Apps are numbered by their place in the order of resolveStartOrder (see *)
(* StartOrder).  The parent is one event loop; each signal that has a      *)
(* handler runs its own stopAll, and two of them may interleave.           *)
(***************************************************************************)
EXTENDS Integers, FiniteSetsExt

CONSTANTS
    N,                  \* the number of apps
    WithPorts,          \* apps that have waitForPorts
    Signal              \* the kinds of signals the parent may receive

App == 1 .. N

ASSUME NAssumption == N \in Nat /\ WithPorts \subseteq App
ASSUME SignalAssumption == Signal \subseteq {"SIGINT", "SIGTERM"}

VARIABLES
    parent,             \* what main() is doing
    exitedBy,           \* what ended the parent (history)
    next,               \* the app startAll is at
    handlers,           \* signals whose handler is installed, and not used up
    stopAll,            \* stopAll[sig]: the app the one for sig is at, or 0
    grace,              \* grace[sig]: which wait of ProcessFork.stop that is in
    process,            \* apps whose ProcessFork has its process field set
    exitHook,           \* apps that the 'exit' event of the parent will kill
    child,              \* child[i]: the forked process
    sent                \* sent[i]: the signals it was sent

startVars == <<next, handlers, exitHook>>
ensembleVars ==
    <<parent, exitedBy, startVars, stopAll, grace, process, child, sent>>

(* "resolving": it reads the config.  "forking": the next app is to be     *)
(* forked.  "ports": it waits for the ports of the app it has forked.      *)
(* "up": the handlers are installed.                                       *)
ParentStatus == {"resolving", "forking", "ports", "up", "exited"}
(* "failed": it could not be spawned, its 'error' event is to come.        *)
(* "listening": it accepts connections on its ports, which are its own.    *)
ChildStatus == {"none", "failed", "booting", "listening", "exited"}

EnsembleTypeOK ==
    /\ parent \in ParentStatus
    /\ exitedBy \in {"none", "startFailure", "signal", "shutdown"}
    /\ next \in 1 .. N + 1
    /\ handlers \in SUBSET Signal
    /\ stopAll \in [Signal -> 0 .. N]
    /\ grace \in [Signal -> {"none", "term", "kill"}]
    /\ process \in SUBSET App
    /\ exitHook \in SUBSET App
    /\ child \in [App -> ChildStatus]
    /\ sent \in [App -> SUBSET {"SIGTERM", "SIGKILL"}]

EnsembleInit ==
    /\ parent = "resolving"
    /\ exitedBy = "none"
    /\ next = 1
    /\ handlers = {}
    /\ stopAll = [g \in Signal |-> 0]
    /\ grace = [g \in Signal |-> "none"]
    /\ process = {}
    /\ exitHook = {}
    /\ child = [i \in App |-> "none"]
    /\ sent = [i \in App |-> {}]

-----------------------------------------------------------------------------
Running(i) == child[i] \in {"booting", "listening"}

(* The 'error' event of a spawn that failed is emitted on the next tick:   *)
(* after the promises that are resolved, before any timer, connection or   *)
(* signal.                                                                 *)
SpawnFailed == \E i \in App : child[i] = "failed"

(* process.exit: the 'exit' hooks send SIGTERM to the children that are    *)
(* still known; nobody waits for them.                                     *)
Exit(reason) ==
    /\ parent' = "exited"
    /\ exitedBy' = reason
    /\ sent' = [i \in App |->
                  IF i \in exitHook \cap process /\ Running(i)
                  THEN sent[i] \cup {"SIGTERM"} ELSE sent[i]]

-----------------------------------------------------------------------------
(* startAll.                                                               *)

(* The config is read and the start order known; or not, and main() exits. *)
Resolve ==
    /\ parent = "resolving"
    /\ \/ /\ parent' = "forking"
          /\ UNCHANGED <<exitedBy, sent>>
       \/ Exit("startFailure")
    /\ UNCHANGED <<startVars, stopAll, grace, process, child>>

(* The app is started: its hook is installed, the next one is forked.      *)
Started ==
    /\ exitHook' = exitHook \cup {next}
    /\ next' = next + 1
    /\ parent' = "forking"

(* Mutant: the ports are not awaited.                                      *)
ForkOnly ==
    /\ parent = "forking" /\ next <= N
    /\ process' = process \cup {next}
    /\ child' = [child EXCEPT ![next] = "booting"]
    /\ Started
    /\ UNCHANGED <<exitedBy, handlers, stopAll, grace, sent>>

(* ProcessFork.start up to its await.  Without ports to wait for it has    *)
(* none, and startAll goes on with the next app.                           *)
ForkAs(status) ==
    /\ parent = "forking" /\ next <= N
    /\ process' = process \cup {next}
    /\ child' = [child EXCEPT ![next] = status]
    /\ IF next \in WithPorts
       THEN parent' = "ports" /\ UNCHANGED <<next, exitHook>>
       ELSE Started
    /\ UNCHANGED <<exitedBy, handlers, stopAll, grace, sent>>

Fork == ForkAs("booting")
ForkFails == ForkAs("failed")

(* The ports do not resolve, or fork() throws: main() catches and exits.   *)
StartThrows ==
    /\ parent = "forking" /\ next <= N
    /\ Exit("startFailure")
    /\ UNCHANGED <<startVars, stopAll, grace, process, child>>

(* Nobody listens to the 'error' event: it ends the parent.                *)
SpawnError ==
    /\ parent \in {"ports", "up"} /\ SpawnFailed
    /\ Exit("startFailure")
    /\ UNCHANGED <<startVars, stopAll, grace, process, child>>

(* Every port accepts connections.                                         *)
PortsReady ==
    /\ parent = "ports" /\ ~SpawnFailed
    /\ child[next] = "listening"
    /\ Started
    /\ UNCHANGED <<exitedBy, handlers, stopAll, grace, process, child, sent>>

(* Mutant: the 'exit' event is not emitted.                                *)
PortTimeoutAborts ==
    /\ parent = "ports" /\ ~SpawnFailed
    /\ parent' = "exited"
    /\ exitedBy' = "startFailure"
    /\ UNCHANGED <<startVars, stopAll, grace, process, child, sent>>

(* waitForPort throws, main() catches and exits.                           *)
PortTimeout ==
    /\ parent = "ports" /\ ~SpawnFailed
    /\ Exit("startFailure")
    /\ UNCHANGED <<startVars, stopAll, grace, process, child>>

(* startAll returns and main() installs the handlers.                      *)
Up ==
    /\ parent = "forking" /\ next = N + 1
    /\ parent' = "up"
    /\ handlers' = Signal
    /\ UNCHANGED <<exitedBy, next, exitHook, stopAll, grace, process, child,
                   sent>>

-----------------------------------------------------------------------------
(* stopAll.                                                                *)

(* Mutant: the apps are stopped in start order.                            *)
StopAbove(g, i) ==
    \/ /\ process # {}
       /\ LET j == Min(process) IN
             /\ process' = process \ {j}
             /\ sent' = [sent EXCEPT ![j] = @ \cup {"SIGTERM"}]
             /\ stopAll' = [stopAll EXCEPT ![g] = j]
             /\ grace' = [grace EXCEPT ![g] = "term"]
       /\ UNCHANGED <<parent, exitedBy>>
    \/ /\ process = {}
       /\ Exit("shutdown")
       /\ stopAll' = [stopAll EXCEPT ![g] = 0]
       /\ grace' = [grace EXCEPT ![g] = "none"]
       /\ UNCHANGED process

(* The stopAll of signal g goes on below app i.  An app whose process      *)
(* field is null is passed over, be its child running or not; when there   *)
(* is no other left, the parent exits.                                     *)
StopBelow(g, i) ==
    LET S == {j \in process : j < i} IN
    \/ /\ S # {}
       /\ LET j == Max(S) IN
             /\ process' = process \ {j}
             /\ sent' = [sent EXCEPT ![j] = @ \cup {"SIGTERM"}]
             /\ stopAll' = [stopAll EXCEPT ![g] = j]
             /\ grace' = [grace EXCEPT ![g] = "term"]
       /\ UNCHANGED <<parent, exitedBy>>
    \/ /\ S = {}
       /\ Exit("shutdown")
       /\ stopAll' = [stopAll EXCEPT ![g] = 0]
       /\ grace' = [grace EXCEPT ![g] = "none"]
       /\ UNCHANGED process

(* A signal that has its handler starts a shutdown.                        *)
Handle(g) ==
    /\ parent = "up" /\ ~SpawnFailed /\ g \in handlers
    /\ handlers' = handlers \ {g}
    /\ StopBelow(g, N + 1)
    /\ UNCHANGED <<next, exitHook, child>>

(* A signal that has none (before the apps are up, or for the second time) *)
(* ends the parent at once, without an 'exit' event.                       *)
Die(g) ==
    /\ parent # "exited" /\ g \in Signal \ handlers
    /\ parent' = "exited"
    /\ exitedBy' = "signal"
    /\ UNCHANGED <<startVars, stopAll, grace, process, child, sent>>

(* waitForExit resolves because the child has exited.                      *)
Stopped(g) ==
    /\ parent = "up" /\ grace[g] # "none"
    /\ child[stopAll[g]] = "exited"
    /\ StopBelow(g, stopAll[g])
    /\ UNCHANGED <<startVars, child>>

(* Mutant: SIGKILL, and nothing after it.                                  *)
GraceOverStuck(g) ==
    /\ parent = "up" /\ grace[g] = "term"
    /\ Running(stopAll[g])
    /\ sent' = [sent EXCEPT ![stopAll[g]] = @ \cup {"SIGKILL"}]
    /\ grace' = [grace EXCEPT ![g] = "none"]
    /\ UNCHANGED <<parent, exitedBy, startVars, stopAll, process, child>>

(* The grace period is over: SIGKILL, and another wait.                    *)
GraceOver(g) ==
    /\ parent = "up" /\ grace[g] = "term"
    /\ Running(stopAll[g])
    /\ sent' = [sent EXCEPT ![stopAll[g]] = @ \cup {"SIGKILL"}]
    /\ grace' = [grace EXCEPT ![g] = "kill"]
    /\ UNCHANGED <<parent, exitedBy, startVars, stopAll, process, child>>

(* The second wait is over as well: stop() returns regardless.             *)
KillWaitOver(g) ==
    /\ parent = "up" /\ grace[g] = "kill"
    /\ Running(stopAll[g])
    /\ StopBelow(g, stopAll[g])
    /\ UNCHANGED <<startVars, child>>

-----------------------------------------------------------------------------
(* A child opens its ports.                                                *)
ChildListens(i) ==
    /\ child[i] = "booting"
    /\ child' = [child EXCEPT ![i] = "listening"]
    /\ UNCHANGED <<parent, exitedBy, startVars, stopAll, grace, process, sent>>

(* A child exits: by itself, or for a signal.                              *)
ChildExits(i) ==
    /\ Running(i)
    /\ child' = [child EXCEPT ![i] = "exited"]
    /\ UNCHANGED <<parent, exitedBy, startVars, stopAll, grace, process, sent>>

(* The steps of the start; of the shutdown for signal g.                   *)
StartStep == \/ Fork \/ ForkFails \/ StartThrows \/ SpawnError
             \/ PortsReady \/ PortTimeout \/ Up
StopStep(g) == Stopped(g) \/ GraceOver(g) \/ KillWaitOver(g)

EnsembleNext ==
    \/ Resolve \/ StartStep
    \/ \E g \in Signal : Handle(g) \/ Die(g) \/ StopStep(g)
    \/ \E i \in App : ChildListens(i) \/ ChildExits(i)

EnsembleSpec == EnsembleInit /\ [][EnsembleNext]_ensembleVars

(* The parent's code runs on, its waits are bounded by timers.  No child   *)
(* is assumed to exit.                                                     *)
EnsembleFairness ==
    /\ WF_ensembleVars(StartStep)
    /\ \A g \in Signal : WF_ensembleVars(StopStep(g))

-----------------------------------------------------------------------------
(* Properties.                                                             *)

(* "ensemble waits until each port accepts connections before the app is   *)
(* considered started": an app is forked only when each app before it in   *)
(* the order, hence each it depends on, was forked and had opened the      *)
(* ports it is to open.  It may follow one that could not be spawned, but  *)
(* only when nothing was waited for in between.                            *)
ReadyBeforeNext ==
    \A i, j \in App : i < j /\ child[j] # "none" =>
        /\ child[i] # "none"
        /\ i \in WithPorts => child[i] \notin {"booting", "failed"}
        /\ child[i] = "failed" => \A k \in i .. j - 1 : k \notin WithPorts

(* "Ensemble stops apps in reverse start order": an app is sent SIGTERM by *)
(* a shutdown only when each app started after it is gone, or at least was *)
(* sent SIGKILL.                                                           *)
ReverseOrder ==
    exitedBy # "startFailure" =>
        \A i, j \in App :
            i < j /\ "SIGTERM" \in sent[i] /\ Running(j)
                => "SIGKILL" \in sent[j]

(* "sends SIGTERM, waits stopGracePeriodMs, then sends SIGKILL if the      *)
(* child is still running": a shutdown that is complete leaves no child    *)
(* running that was not sent SIGKILL.                                      *)
Escalates ==
    exitedBy = "shutdown" =>
        \A i \in App : Running(i) => "SIGKILL" \in sent[i]

(* A start that fails, in whatever way, sends SIGTERM to each child it     *)
(* leaves running but one: the app whose ports were awaited.  Its 'exit'   *)
(* hook is installed only after that wait, and nobody stops it.            *)
FailureTerminates ==
    exitedBy = "startFailure" =>
        \A i \in App : Running(i) =>
            /\ sent[i] = IF i = next THEN {} ELSE {"SIGTERM"}
            /\ i = next => i \in WithPorts

(* A signal without a handler, the first one during the start or a second  *)
(* one of its kind, leaves the apps that stopAll has not come to untold.   *)
SignalTellsNobody ==
    exitedBy = "signal" => \A i \in process : sent[i] = {}

(* Which children the command has told to go when it ends.                 *)
WhoIsTold == Escalates /\ FailureTerminates /\ SignalTellsNobody

(* The start has an outcome, and a shutdown ends, whatever the children do.*)
StartEnds ==
    parent = "forking" ~> (parent = "exited" \/ (parent = "up" /\ ~SpawnFailed))
ShutdownEnds ==
    (\E g \in Signal : grace[g] # "none") ~> parent = "exited"
BothEnd == StartEnds /\ ShutdownEnds
=============================================================================
