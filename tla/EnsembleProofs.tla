--------------------------- MODULE EnsembleProofs ---------------------------
(***************************************************************************)
(* Proofs about Ensemble, for any number of apps, whichever of them wait   *)
(* for ports: the start for any signals, the shutdown for one kind of      *)
(* signal (two shutdowns that interleave do not keep the order).           *)
(*                                                                         *)
(* Behind the properties of the start: until a shutdown begins, the apps   *)
(* below `next` are those that have their hook and their process field,    *)
(* and a spawn that failed is not carried past a wait (Forked).  Behind    *)
(* those of the shutdown: the process fields still set are those of the    *)
(* apps below the one being stopped (Below).                               *)
(***************************************************************************)
EXTENDS Ensemble, TLAPS

(* No shutdown has begun, and none can: an 'error' event is to come first. *)
Starting == \/ parent \in {"resolving", "forking", "ports"}
            \/ parent = "up" /\ SpawnFailed

(* Up to where the start has come.                                         *)
Forked ==
    /\ exitedBy = "none" <=> parent # "exited"
    /\ \A i \in App : /\ i < next => child[i] # "none"
                      /\ i < next /\ i \in WithPorts =>
                            child[i] \notin {"booting", "failed"}
                      /\ child[i] = "failed" =>
                            \A k \in i .. next - 1 : k \notin WithPorts
                      /\ i > next => child[i] = "none"
                      /\ i \in exitHook => i < next
    /\ parent = "ports" => next \in App /\ next \in process \cap WithPorts
    /\ parent \in {"resolving", "forking"} =>
          \A i \in App : i >= next => child[i] = "none"
    /\ parent = "up" => next = N + 1
    /\ Starting => /\ \A i \in App : i < next => i \in exitHook \cap process
                   /\ \A i \in App : sent[i] = {}
                   /\ \A g \in Signal : grace[g] = "none"

StartType ==
    /\ parent \in ParentStatus
    /\ exitedBy \in {"none", "startFailure", "signal", "shutdown"}
    /\ next \in 1 .. N + 1
    /\ child \in [App -> ChildStatus]
    /\ sent \in [App -> SUBSET {"SIGTERM", "SIGKILL"}]

StartInv == StartType /\ Forked /\ FailureTerminates

OneSignal == \A g, h \in Signal : g = h

(* The shutdown of signal g has come down to app k.                        *)
Below(g, k) ==
    /\ k \in App /\ process = 1 .. k - 1
    /\ \A j \in App : /\ j > k /\ Running(j) => "SIGKILL" \in sent[j]
                      /\ j < k => sent[j] = {}
    /\ grace[g] = "kill" => "SIGKILL" \in sent[k]

StopInv ==
    /\ parent \in {"resolving", "forking", "ports"} =>
          /\ \A g \in Signal : grace[g] = "none"
          /\ \A i \in App : sent[i] = {}
          /\ process = IF parent = "ports" THEN 1 .. next ELSE 1 .. next - 1
    /\ parent = "up" =>
          \/ /\ \A g \in Signal : grace[g] = "none"
             /\ process = App /\ \A i \in App : sent[i] = {}
          \/ \E g \in Signal : grace[g] # "none" /\ Below(g, stopAll[g])
    /\ parent = "up" => \A g \in handlers : grace[g] = "none"
    /\ ReverseOrder /\ Escalates /\ SignalTellsNobody

(* The numbers of the apps.                                                *)
LEMMA AppFacts == N \in Nat /\ \A i \in App : i \in Nat /\ i # 0 /\ i <= N
BY NAssumption DEF App

(* The last app of those up to n.                                          *)
LEMMA MaxUpTo ==
    ASSUME NEW n \in Nat, n # 0
    PROVE  Max(1 .. n) = n
<1>1. n \in 1 .. n /\ \A y \in 1 .. n : n >= y
    OBVIOUS
<1>2. \A x \in 1 .. n : (\A y \in 1 .. n : x >= y) => x = n
    BY <1>1
<1> QED
    BY <1>1, <1>2 DEF Max

-----------------------------------------------------------------------------
(* The start.                                                              *)

LEMMA StartInit == EnsembleInit => StartInv
<1> SUFFICES ASSUME EnsembleInit PROVE StartInv
    OBVIOUS
<1>1. StartType
    BY AppFacts DEF EnsembleInit, StartType, ParentStatus, ChildStatus
<1>2. Forked /\ FailureTerminates
    BY AppFacts DEF EnsembleInit, Forked, Starting, FailureTerminates, SpawnFailed
<1> QED
    BY <1>1, <1>2 DEF StartInv

(* A shutdown is under way: every app was spawned.                         *)
LEMMA NoneFailed ==
    ASSUME StartInv, parent = "up", NEW g \in Signal, grace[g] # "none"
    PROVE  ~SpawnFailed
BY DEF StartInv, Forked, Starting

(* What stopAll does with signals and with the parent, wherever it stands. *)
LEMMA StopBelowStart ==
    ASSUME StartType, parent = "up", exitedBy = "none",
           NEW g \in Signal, NEW i, StopBelow(g, i)
    PROVE  /\ \/ parent' = "up" /\ exitedBy' = "none"
              \/ parent' = "exited" /\ exitedBy' = "shutdown"
           /\ sent' \in [App -> SUBSET {"SIGTERM", "SIGKILL"}]
<1> DEFINE S == {j \in process : j < i}
<1>1. CASE S # {}
    <2> DEFINE m == Max(S)
    <2>1. /\ sent' = [sent EXCEPT ![m] = @ \cup {"SIGTERM"}]
          /\ UNCHANGED <<parent, exitedBy>>
        BY <1>1 DEF StopBelow
    <2> HIDE DEF m
    <2>2. sent' \in [App -> SUBSET {"SIGTERM", "SIGKILL"}]
        BY <2>1 DEF StartType
    <2> QED
        BY <2>1, <2>2
<1>2. CASE S = {}
    BY <1>2 DEF StopBelow, Exit, StartType
<1> QED
    BY <1>1, <1>2

(* An exit during the start: all but the app being started are told.       *)
LEMMA ExitTells ==
    ASSUME StartInv, Starting, Exit("startFailure"),
           UNCHANGED <<next, exitHook, child>>
    PROVE  StartInv'
<1>0. StartType /\ Forked
    BY DEF StartInv
<1>1. /\ parent' = "exited" /\ exitedBy' = "startFailure"
      /\ sent' = [i \in App |-> IF i \in exitHook \cap process /\ Running(i)
                               THEN sent[i] \cup {"SIGTERM"} ELSE sent[i]]
    BY DEF Exit
<1>2. \A i \in App : Running(i) => i <= next
    BY <1>0, AppFacts DEF StartType, Forked, Running
<1>3. \A i \in App : Running(i) /\ i # next => sent'[i] = {"SIGTERM"}
    BY <1>0, <1>1, <1>2, AppFacts DEF StartType, Forked
<1>4. ASSUME NEW i \in App, Running(i), i = next
      PROVE  i \in WithPorts /\ sent'[i] = {}
    <2>1. parent = "ports"
        BY <1>0, <1>4, AppFacts DEF Starting, Forked, Running
    <2>2. i \in WithPorts /\ i \notin exitHook /\ sent[i] = {}
        BY <1>0, <1>4, <2>1, AppFacts DEF Starting, Forked, StartType
    <2> QED
        BY <1>1, <2>2
<1>5. StartType'
    BY <1>0, <1>1 DEF StartType, ParentStatus
<1>6. ~Starting'
    BY <1>1 DEF Starting
<1>7. Forked'
    BY <1>0, <1>1, <1>6 DEF StartInv, Forked
<1>8. FailureTerminates'
    BY <1>3, <1>4 DEF FailureTerminates, Running
<1> QED
    BY <1>5, <1>7, <1>8 DEF StartInv

(* One step of the parent, or of a child, case by case.                    *)
LEMMA StartKept == StartInv /\ [EnsembleNext]_ensembleVars => StartInv'
<1> SUFFICES ASSUME StartInv, [EnsembleNext]_ensembleVars PROVE StartInv'
    OBVIOUS
<1>0. StartType /\ Forked /\ FailureTerminates
    BY DEF StartInv
<1> USE AppFacts DEF ParentStatus, ChildStatus
<1>1. ASSUME NEW c \in {"booting", "failed"}, ForkAs(c) PROVE StartInv'
    <2>1. /\ next \in App /\ parent = "forking" /\ exitedBy' = exitedBy
          /\ child' = [child EXCEPT ![next] = c] /\ grace' = grace
          /\ process' = process \cup {next} /\ sent' = sent
          /\ \/ /\ next \in WithPorts /\ parent' = "ports"
                /\ UNCHANGED <<next, exitHook>>
             \/ /\ next \notin WithPorts /\ parent' = "forking"
                /\ next' = next + 1 /\ exitHook' = exitHook \cup {next}
        BY <1>0, <1>1 DEF ForkAs, Started, App, StartType
    <2>2. StartType'
        BY <1>0, <2>1 DEF StartType, App
    <2>3. /\ \A i \in App : i < next => i \in exitHook \cap process
          /\ \A i \in App : sent[i] = {}
          /\ \A g \in Signal : grace[g] = "none"
        BY <1>0, <2>1 DEF Forked, Starting
    <2>4. \A i \in App : child'[i] = "failed" =>
                            \A k \in i .. next' - 1 : k \notin WithPorts
        BY <1>0, <2>1 DEF StartType, Forked, App
    <2>5. \A i \in App :
              /\ i < next' => child'[i] # "none"
              /\ i < next' /\ i \in WithPorts =>
                    child'[i] \notin {"booting", "failed"}
              /\ i > next' => child'[i] = "none"
              /\ i \in exitHook' => i < next'
        BY <1>0, <2>1 DEF StartType, Forked
    <2>6. parent' = "forking" => \A i \in App : i >= next' => child'[i] = "none"
        BY <1>0, <2>1 DEF StartType, Forked
    <2>7. \A i \in App : i < next' => i \in exitHook' \cap process'
        BY <2>1, <2>3 DEF App
    <2>8. /\ \A i \in App : sent'[i] = {}
          /\ \A g \in Signal : grace'[g] = "none"
          /\ exitedBy' = "none" /\ parent' \in {"forking", "ports"}
          /\ parent' = "ports" => next' \in App /\ next' \in process' \cap WithPorts
        BY <1>0, <2>1, <2>3 DEF Forked
    <2>9. Forked'
        <3>1. exitedBy' = "none" <=> parent' # "exited"
            BY <2>8
        <3>2. parent' \notin {"resolving", "up"}
            BY <2>8
        <3> QED
            BY <2>4, <2>5, <2>6, <2>7, <2>8, <3>1, <3>2 DEF Forked
    <2>10. FailureTerminates'
        BY <1>0, <2>1 DEF Forked, FailureTerminates
    <2> QED
        BY <2>2, <2>9, <2>10 DEF StartInv
<1>2. CASE StartThrows \/ SpawnError \/ PortTimeout
    BY <1>2, ExitTells DEF StartThrows, SpawnError, PortTimeout, startVars, Starting
<1>3. CASE Resolve
    <2>1. CASE Exit("startFailure")
        BY <1>3, <2>1, ExitTells DEF Resolve, startVars, Starting
    <2>2. CASE parent' = "forking" /\ UNCHANGED <<exitedBy, sent>>
        BY <1>0, <1>3, <2>2
        DEF Resolve, startVars, StartInv, StartType, Forked, Starting, FailureTerminates
    <2> QED
        BY <1>3, <2>1, <2>2 DEF Resolve
<1>4. CASE PortsReady
    <2>1. /\ parent = "ports" /\ child[next] = "listening" /\ next \in App
          /\ exitHook' = exitHook \cup {next} /\ next' = next + 1
          /\ parent' = "forking" /\ ~SpawnFailed
          /\ UNCHANGED <<exitedBy, process, child, sent, grace>>
        BY <1>0, <1>4 DEF PortsReady, Started, Forked, StartType, App
    <2>2. StartType'
        BY <1>0, <2>1 DEF StartType, App
    <2>3. \A i \in App : child[i] # "failed"
        BY <2>1 DEF SpawnFailed
    <2>4. Forked'
        BY <1>0, <2>1, <2>3 DEF StartType, Forked, Starting
    <2>5. FailureTerminates'
        BY <1>0, <2>1 DEF Forked, FailureTerminates
    <2> QED
        BY <2>2, <2>4, <2>5 DEF StartInv
<1>5. CASE Up
    <2>1. SpawnFailed' = SpawnFailed
        BY <1>5 DEF Up, SpawnFailed
    <2> QED
        BY <1>0, <1>5, <2>1
        DEF Up, StartInv, StartType, Forked, Starting, FailureTerminates
<1>6. ASSUME NEW g \in Signal, Handle(g) \/ Stopped(g) \/ KillWaitOver(g)
      PROVE  StartInv'
    <2>1. /\ parent = "up" /\ exitedBy = "none" /\ ~SpawnFailed
          /\ UNCHANGED <<next, exitHook, child>>
          /\ \E i : StopBelow(g, i)
        BY <1>0, <1>6, NoneFailed
        DEF Handle, Stopped, KillWaitOver, startVars, Forked
    <2>2. /\ \/ parent' = "up" /\ exitedBy' = "none"
             \/ parent' = "exited" /\ exitedBy' = "shutdown"
          /\ sent' \in [App -> SUBSET {"SIGTERM", "SIGKILL"}]
        BY <1>0, <2>1, StopBelowStart
    <2>3. ~Starting'
        BY <2>1, <2>2 DEF Starting, SpawnFailed
    <2> QED
        BY <1>0, <2>1, <2>2, <2>3
        DEF StartInv, StartType, Forked, FailureTerminates
<1>7. ASSUME NEW g \in Signal, GraceOver(g) PROVE StartInv'
    <2>1. /\ parent = "up" /\ UNCHANGED <<parent, exitedBy, next, exitHook, child>>
          /\ ~SpawnFailed
        BY <1>7, NoneFailed DEF GraceOver, startVars
    <2>2. sent' \in [App -> SUBSET {"SIGTERM", "SIGKILL"}]
        BY <1>0, <1>7 DEF GraceOver, StartType
    <2>3. ~Starting'
        BY <2>1 DEF Starting, SpawnFailed
    <2> QED
        BY <1>0, <2>1, <2>2, <2>3
        DEF StartInv, StartType, Forked, FailureTerminates
<1>8. ASSUME NEW g \in Signal, Die(g) PROVE StartInv'
    <2>1. ~Starting'
        BY <1>8 DEF Die, Starting
    <2> QED
        BY <1>0, <1>8, <2>1
        DEF Die, startVars, StartInv, StartType, Forked, FailureTerminates
<1>9. ASSUME NEW i \in App, ChildListens(i) \/ ChildExits(i) PROVE StartInv'
    <2>1. PICK c \in {"listening", "exited"} :
            child' = [child EXCEPT ![i] = c] /\ Running(i)
        BY <1>9 DEF ChildListens, ChildExits, Running
    <2>2. UNCHANGED <<parent, exitedBy, next, exitHook, grace, process, sent>>
        BY <1>9 DEF ChildListens, ChildExits, startVars
    <2>3. \A j \in App : /\ child'[j] = "none" <=> child[j] = "none"
                         /\ child'[j] = "failed" <=> child[j] = "failed"
                         /\ child'[j] = "booting" => child[j] = "booting"
                         /\ Running(j)' => Running(j)
        BY <1>0, <2>1 DEF StartType, Running
    <2>4. StartType'
        BY <1>0, <2>1, <2>2 DEF StartType
    <2>5. Starting' => Starting
        BY <2>2, <2>3 DEF Starting, SpawnFailed
    <2>6. Forked'
        BY <1>0, <2>2, <2>3, <2>5 DEF Forked
    <2>7. FailureTerminates'
        BY <1>0, <2>2, <2>3 DEF FailureTerminates
    <2> QED
        BY <2>4, <2>6, <2>7 DEF StartInv
<1>10. CASE UNCHANGED ensembleVars
    <2>1. UNCHANGED <<parent, exitedBy, next, exitHook, grace, process, child, sent>>
        BY <1>10 DEF ensembleVars, startVars
    <2> QED
        BY <1>0, <2>1 DEF StartInv, StartType, Forked, Starting, SpawnFailed,
                          FailureTerminates, Running
<1> QED
    BY <1>1, <1>2, <1>3, <1>4, <1>5, <1>6, <1>7, <1>8, <1>9, <1>10
    DEF EnsembleNext, StartStep, StopStep, Fork, ForkFails

(* The inductive invariant of the start.                                   *)
THEOREM StartInvariance == EnsembleSpec => []StartInv
BY StartInit, StartKept, PTL DEF EnsembleSpec

(* "ensemble waits until each port accepts connections before the app is   *)
(* considered started" (Ensemble.startAll, ProcessFork.start), also where  *)
(* apps that cannot be spawned are followed by others.                     *)
THEOREM Ready == EnsembleSpec => []ReadyBeforeNext
<1>1. ASSUME StartInv PROVE ReadyBeforeNext
    <2>1. StartType /\ Forked
        BY <1>1 DEF StartInv
    <2> SUFFICES ASSUME NEW i \in App, NEW j \in App, i < j, child[j] # "none"
                 PROVE  /\ child[i] # "none"
                        /\ i \in WithPorts => child[i] \notin {"booting", "failed"}
                        /\ child[i] = "failed" =>
                              \A k \in i .. j - 1 : k \notin WithPorts
        BY DEF ReadyBeforeNext
    <2>2. j <= next /\ i < next
        BY <2>1, AppFacts DEF StartType, Forked
    <2>3. \A k \in i .. j - 1 : k \in i .. next - 1
        BY <2>1, <2>2, AppFacts DEF StartType
    <2> QED
        BY <2>1, <2>2, <2>3 DEF Forked
<1> QED
    BY <1>1, StartInvariance, PTL

(* The 'exit' hooks of ProcessFork.start: a start that fails tells every   *)
(* child it leaves running to terminate but one, whose ports it awaited.   *)
THEOREM FailedStartTells == EnsembleSpec => []FailureTerminates
BY StartInvariance, PTL DEF StartInv

-----------------------------------------------------------------------------
(* The shutdown, for one kind of signal.                                   *)

StopType ==
    /\ stopAll \in [Signal -> Int] /\ handlers \in SUBSET Signal
    /\ grace \in [Signal -> {"none", "term", "kill"}]

StoppedInOrder == StartInv /\ StopType /\ StopInv

(* Before the first signal.                                                *)
LEMMA StopInit == EnsembleInit => StoppedInOrder
<1> SUFFICES ASSUME EnsembleInit PROVE StoppedInOrder
    OBVIOUS
<1>1. 1 .. 0 = {} /\ StartInv
    BY StartInit
<1> QED
    BY <1>1 DEF EnsembleInit, StoppedInOrder, StopType, StopInv, ReverseOrder,
                Escalates, SignalTellsNobody

(* One step of stopAll below app i: the next one, or the end.              *)
LEMMA StopBelowStep ==
    ASSUME OneSignal, StoppedInOrder, NEW g \in Signal, NEW i \in 1 .. N + 1,
           parent = "up", ~SpawnFailed, process = 1 .. i - 1, StopBelow(g, i),
           UNCHANGED <<next, exitHook, child>>, handlers' \in SUBSET (handlers \ {g}),
           \A j \in App : j < i => sent[j] = {},
           \A j \in App : j >= i /\ Running(j) => "SIGKILL" \in sent[j]
    PROVE  StoppedInOrder'
<1> USE AppFacts
<1>0. /\ StartInv /\ StopType /\ StopInv /\ exitedBy = "none"
      /\ sent \in [App -> SUBSET {"SIGTERM", "SIGKILL"}]
      /\ \A h \in Signal : h = g
    BY DEF StoppedInOrder, StartInv, StartType, Forked, OneSignal
<1>1. {j \in process : j < i} = 1 .. i - 1
    OBVIOUS
<1>2. CASE i = 1
    <2>1. 1 .. i - 1 = {}
        BY <1>2
    <2>2. /\ parent' = "exited" /\ exitedBy' = "shutdown"
          /\ grace' = [grace EXCEPT ![g] = "none"] /\ process' = process
          /\ stopAll' = [stopAll EXCEPT ![g] = 0]
          /\ sent' = [j \in App |-> IF j \in exitHook \cap process /\ Running(j)
                                   THEN sent[j] \cup {"SIGTERM"} ELSE sent[j]]
        BY <1>1, <2>1 DEF StopBelow, Exit
    <2>3. sent' = sent
        BY <1>0, <2>1, <2>2
    <2>4. ReverseOrder' /\ Escalates' /\ SignalTellsNobody'
        BY <1>2, <2>2, <2>3
        DEF ReverseOrder, Escalates, SignalTellsNobody, Running
    <2>5. StopType'
        BY <1>0, <2>2 DEF StopType
    <2>6. StartInv'
        BY <1>0, <2>2, <2>3
        DEF StartInv, StartType, Forked, Starting, FailureTerminates, ParentStatus
    <2> QED
        BY <2>2, <2>4, <2>5, <2>6 DEF StoppedInOrder, StopInv
<1>3. CASE i # 1
    <2> DEFINE k == i - 1
    <2>1. k \in App /\ 1 .. k # {} /\ Max(1 .. k) = k /\ i - 1 = k
        BY <1>3, MaxUpTo DEF App
    <2>2. /\ process' = process \ {k} /\ stopAll' = [stopAll EXCEPT ![g] = k]
          /\ grace' = [grace EXCEPT ![g] = "term"]
          /\ sent' = [sent EXCEPT ![k] = @ \cup {"SIGTERM"}]
          /\ UNCHANGED <<parent, exitedBy>>
        BY <1>1, <2>1 DEF StopBelow
    <2>3. process' = 1 .. k - 1
        BY <2>1, <2>2
    <2>4. /\ sent'[k] = sent[k] \cup {"SIGTERM"}
          /\ \A j \in App : j # k => sent'[j] = sent[j]
          /\ sent' \in [App -> SUBSET {"SIGTERM", "SIGKILL"}]
        BY <1>0, <2>1, <2>2
    <2>5. stopAll'[g] = k /\ grace'[g] = "term" /\ StopType'
        BY <1>0, <2>1, <2>2 DEF StopType
    <2>6. Below(g, k)'
        BY <2>1, <2>3, <2>4, <2>5 DEF Below, Running
    <2>7. ReverseOrder'
        BY <2>1, <2>4 DEF ReverseOrder, Running
    <2>8. StartInv'
        BY <1>0, <2>2, <2>4
        DEF StartInv, StartType, Forked, Starting, SpawnFailed, FailureTerminates
    <2>9. handlers' = {}
        BY <1>0 DEF StopType
    <2>10. Below(g, stopAll[g])'
        BY <2>5, <2>6
    <2> QED
        BY <1>0, <2>2, <2>5, <2>7, <2>8, <2>9, <2>10
        DEF StoppedInOrder, StopInv, Escalates, SignalTellsNobody
<1> QED
    BY <1>2, <1>3

(* With one kind of signal, one step of the parent or of a child.          *)
LEMMA StopKept ==
    ASSUME OneSignal, StoppedInOrder, [EnsembleNext]_ensembleVars
    PROVE  StoppedInOrder'
<1> USE AppFacts
<1>0. /\ StartInv /\ StartType /\ Forked /\ StopType /\ StopInv /\ StartInv'
      /\ ReverseOrder /\ Escalates /\ SignalTellsNobody /\ \A g, h \in Signal : g = h
    BY StartKept DEF StoppedInOrder, StartInv, StopInv, OneSignal
<1>1. ASSUME NEW c \in {"booting", "failed"}, ForkAs(c) PROVE StoppedInOrder'
    <2>1. /\ parent = "forking" /\ exitedBy' = exitedBy /\ exitedBy = "none"
          /\ process' = process \cup {next} /\ next \in Nat
          /\ UNCHANGED <<handlers, stopAll, grace, sent>>
          /\ \/ parent' = "ports" /\ next' = next
             \/ parent' = "forking" /\ next' = next + 1
        BY <1>0, <1>1 DEF ForkAs, Started, StartType, Forked
    <2>2. /\ \A g \in Signal : grace[g] = "none"
          /\ \A i \in App : sent[i] = {}
          /\ process = 1 .. next - 1
        BY <1>0, <2>1 DEF StopInv
    <2>3. (1 .. next - 1) \cup {next} = 1 .. next /\ next >= 1
        BY <1>0, <2>1 DEF StartType
    <2>4. ReverseOrder' /\ Escalates' /\ SignalTellsNobody'
        BY <2>1, <2>2 DEF ReverseOrder, Escalates, SignalTellsNobody
    <2> QED
        BY <1>0, <2>1, <2>2, <2>3, <2>4 DEF StoppedInOrder, StopType, StopInv
<1>2. CASE StartThrows \/ SpawnError \/ PortTimeout \/ Resolve
    <2>1. /\ UNCHANGED <<handlers, stopAll, grace, process, next>>
          /\ \/ parent' = "exited" /\ exitedBy' = "startFailure"
             \/ /\ parent = "resolving" /\ parent' = "forking"
                /\ UNCHANGED <<exitedBy, sent>>
        BY <1>2 DEF StartThrows, SpawnError, PortTimeout, Resolve, Exit, startVars
    <2>2. CASE parent' = "exited" /\ exitedBy' = "startFailure"
        BY <1>0, <2>1, <2>2
        DEF StoppedInOrder, StopType, StopInv, ReverseOrder, Escalates,
            SignalTellsNobody
    <2>3. CASE parent = "resolving" /\ parent' = "forking" /\ UNCHANGED <<exitedBy, sent>>
        <3>1. /\ \A g \in Signal : grace[g] = "none"
              /\ \A i \in App : sent[i] = {}
              /\ process = 1 .. next - 1 /\ exitedBy = "none"
            BY <1>0, <2>3 DEF StopInv, Forked
        <3> QED
            BY <1>0, <2>1, <2>3, <3>1
            DEF StoppedInOrder, StopType, StopInv, ReverseOrder, Escalates,
                SignalTellsNobody
    <2> QED
        BY <2>1, <2>2, <2>3
<1>3. CASE PortsReady
    <2>1. /\ parent = "ports" /\ parent' = "forking" /\ next' = next + 1
          /\ UNCHANGED <<exitedBy, process, handlers, stopAll, grace, sent>>
          /\ exitedBy = "none" /\ next \in Nat
        BY <1>0, <1>3 DEF PortsReady, Started, StartType, Forked
    <2>2. /\ \A g \in Signal : grace[g] = "none"
          /\ \A i \in App : sent[i] = {}
          /\ process = 1 .. next' - 1
        BY <1>0, <2>1 DEF StopInv
    <2>3. ReverseOrder' /\ Escalates' /\ SignalTellsNobody'
        BY <2>1, <2>2 DEF ReverseOrder, Escalates, SignalTellsNobody
    <2> QED
        BY <1>0, <2>1, <2>2, <2>3 DEF StoppedInOrder, StopType, StopInv
<1>4. CASE Up
    <2>1. /\ parent = "forking" /\ parent' = "up" /\ next = N + 1
          /\ UNCHANGED <<exitedBy, process, stopAll, grace, sent>>
          /\ handlers' = Signal /\ exitedBy = "none"
        BY <1>0, <1>4 DEF Up, Forked
    <2>2. /\ \A g \in Signal : grace[g] = "none"
          /\ \A i \in App : sent[i] = {}
          /\ process = App
        BY <1>0, <2>1 DEF StopInv, App
    <2>3. ReverseOrder' /\ Escalates' /\ SignalTellsNobody'
        BY <2>1, <2>2 DEF ReverseOrder, Escalates, SignalTellsNobody
    <2> QED
        BY <1>0, <2>1, <2>2, <2>3 DEF StoppedInOrder, StopType, StopInv
<1>5. ASSUME NEW g \in Signal, Handle(g) PROVE StoppedInOrder'
    <2>1. /\ parent = "up" /\ g \in handlers /\ handlers' = handlers \ {g}
          /\ StopBelow(g, N + 1) /\ UNCHANGED <<next, exitHook, child>>
          /\ ~SpawnFailed
        BY <1>5 DEF Handle
    <2>2. grace[g] = "none"
        BY <1>0, <2>1 DEF StopInv
    <2>3. process = 1 .. N /\ \A i \in App : sent[i] = {}
        BY <1>0, <2>1, <2>2 DEF StopInv, App
    <2>4. N + 1 \in 1 .. N + 1 /\ (N + 1) - 1 = N /\ \A j \in App : ~(j >= N + 1)
        OBVIOUS
    <2>5. handlers' \in SUBSET (handlers \ {g})
        BY <2>1
    <2> QED
        BY <2>1, <2>3, <2>4, <2>5, StopBelowStep
<1>6. ASSUME NEW g \in Signal, grace[g] # "none", parent = "up"
      PROVE  Below(g, stopAll[g])
    BY <1>0, <1>6 DEF StopInv
<1>7. ASSUME NEW g \in Signal, Stopped(g) \/ KillWaitOver(g)
      PROVE  StoppedInOrder'
    <2> DEFINE k == stopAll[g]
    <2>1. /\ parent = "up" /\ grace[g] # "none" /\ UNCHANGED <<handlers, next, exitHook, child>>
          /\ StopBelow(g, k) /\ ~SpawnFailed
          /\ ~Running(k) \/ grace[g] = "kill"
        BY <1>0, <1>7, NoneFailed DEF Stopped, KillWaitOver, startVars, Running
    <2>2. Below(g, k)
        BY <1>6, <2>1
    <2>3. /\ k \in 1 .. N + 1 /\ process = 1 .. k - 1
          /\ \A j \in App : j < k => sent[j] = {}
          /\ \A j \in App : j >= k /\ Running(j) => "SIGKILL" \in sent[j]
        BY <2>1, <2>2 DEF Below, App
    <2>4. handlers' \in SUBSET (handlers \ {g})
        BY <1>0, <2>1 DEF StopInv, StopType
    <2> HIDE DEF k
    <2> QED
        BY <2>1, <2>3, <2>4, StopBelowStep
<1>8. ASSUME NEW g \in Signal, GraceOver(g) PROVE StoppedInOrder'
    <2> DEFINE k == stopAll[g]
    <2>1. /\ parent = "up" /\ grace[g] = "term"
          /\ sent' = [sent EXCEPT ![k] = @ \cup {"SIGKILL"}]
          /\ grace' = [grace EXCEPT ![g] = "kill"]
          /\ UNCHANGED <<parent, exitedBy, handlers, next, exitHook, stopAll,
                         process, child>>
        BY <1>8 DEF GraceOver, startVars
    <2>2. Below(g, k)
        BY <1>6, <2>1
    <2>3. /\ sent'[k] = sent[k] \cup {"SIGKILL"} /\ k \in App
          /\ \A j \in App : j # k => sent'[j] = sent[j]
          /\ \A h \in Signal : grace'[h] = "kill" /\ h = g
        BY <1>0, <2>1, <2>2 DEF Below, StartType, StopType
    <2>4. Below(g, k)'
        BY <2>1, <2>2, <2>3 DEF Below, Running
    <2>5. handlers' = {}
        BY <1>0, <2>1 DEF StopInv, StopType
    <2>6. ReverseOrder' /\ Escalates' /\ SignalTellsNobody'
        BY <1>0, <2>1, <2>3 DEF ReverseOrder, Escalates, SignalTellsNobody, Running, Forked
    <2>7. StopType'
        BY <1>0, <2>1 DEF StopType
    <2> QED
        BY <1>0, <2>1, <2>3, <2>4, <2>5, <2>6, <2>7 DEF StoppedInOrder, StopInv
<1>9. ASSUME NEW g \in Signal, Die(g) PROVE StoppedInOrder'
    <2>1. /\ parent # "exited" /\ parent' = "exited" /\ exitedBy' = "signal"
          /\ UNCHANGED <<handlers, stopAll, grace, process, child, sent>>
        BY <1>9 DEF Die, startVars
    <2>2. \A i \in process : sent[i] = {}
        <3>1. CASE parent \in {"resolving", "forking", "ports"}
            <4>1. /\ process = IF parent = "ports" THEN 1 .. next ELSE 1 .. next - 1
                  /\ \A i \in App : sent[i] = {}
                BY <1>0, <3>1 DEF StopInv
            <4>2. process \subseteq App
                BY <1>0, <4>1 DEF StartType, Forked, App
            <4> QED
                BY <4>1, <4>2
        <3>2. CASE parent = "up"
            BY <1>0, <3>2 DEF StopInv, Below, App
        <3> QED
            BY <1>0, <2>1, <3>1, <3>2 DEF StartType, ParentStatus
    <2>3. ReverseOrder' /\ Escalates' /\ SignalTellsNobody'
        BY <1>0, <2>1, <2>2
        DEF ReverseOrder, Escalates, SignalTellsNobody, Running, Forked
    <2> QED
        BY <1>0, <2>1, <2>3 DEF StoppedInOrder, StopType, StopInv
<1>10. ASSUME NEW i \in App, ChildListens(i) \/ ChildExits(i)
       PROVE  StoppedInOrder'
    <2>1. /\ UNCHANGED <<parent, exitedBy, next, handlers, stopAll, grace,
                         process, sent>>
          /\ \A j \in App : Running(j)' => Running(j)
        BY <1>0, <1>10 DEF ChildListens, ChildExits, startVars, Running, StartType
    <2>3. \A g \in Signal : Below(g, stopAll[g]) => Below(g, stopAll[g])'
        BY <2>1 DEF Below
    <2>4. ReverseOrder' /\ Escalates' /\ SignalTellsNobody'
        BY <1>0, <2>1 DEF ReverseOrder, Escalates, SignalTellsNobody
    <2> QED
        BY <1>0, <2>1, <2>3, <2>4 DEF StoppedInOrder, StopType, StopInv
<1>11. CASE UNCHANGED ensembleVars
    <2>1. UNCHANGED <<parent, exitedBy, next, handlers, stopAll, grace,
                      process, child, sent>>
        BY <1>11 DEF ensembleVars, startVars
    <2>2. \A g \in Signal : Below(g, stopAll[g]) => Below(g, stopAll[g])'
        BY <2>1 DEF Below, Running
    <2>3. ReverseOrder' /\ Escalates' /\ SignalTellsNobody'
        BY <1>0, <2>1 DEF ReverseOrder, Escalates, SignalTellsNobody, Running
    <2> QED
        BY <1>0, <2>1, <2>2, <2>3 DEF StoppedInOrder, StopType, StopInv
<1> QED
    BY <1>1, <1>2, <1>3, <1>4, <1>5, <1>7, <1>8, <1>9, <1>10, <1>11 DEF EnsembleNext, StartStep, StopStep, Fork, ForkFails

(* The inductive invariant of the shutdown.                                *)
LEMMA StopInvariance == OneSignal => (EnsembleSpec => []StoppedInOrder)
<1> SUFFICES ASSUME OneSignal PROVE EnsembleSpec => []StoppedInOrder
    OBVIOUS
<1>1. StoppedInOrder /\ [EnsembleNext]_ensembleVars => StoppedInOrder'
    BY StopKept
<1> QED
    BY <1>1, StopInit, PTL DEF EnsembleSpec

(* "Ensemble stops apps in reverse start order" (Ensemble.stopAll).        *)
THEOREM StopsInReverse == OneSignal => (EnsembleSpec => []ReverseOrder)
<1> SUFFICES ASSUME OneSignal PROVE EnsembleSpec => []ReverseOrder
    OBVIOUS
<1> QED
    BY StopInvariance, PTL DEF StoppedInOrder, StopInv

(* However the command ends, which of the children it leaves running were  *)
(* told to go (ProcessFork.stop, the 'exit' hook of ProcessFork.start).    *)
THEOREM ToldAtTheEnd == OneSignal => (EnsembleSpec => []WhoIsTold)
<1> SUFFICES ASSUME OneSignal PROVE EnsembleSpec => []WhoIsTold
    OBVIOUS
<1>1. StoppedInOrder => WhoIsTold
    BY DEF StoppedInOrder, StopInv, StartInv, WhoIsTold
<1> QED
    BY <1>1, StopInvariance, PTL
=============================================================================
