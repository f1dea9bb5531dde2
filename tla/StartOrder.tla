----------------------------- MODULE StartOrder -----------------------------
(***************************************************************************)
(* Ensemble.resolveStartOrder of packages/ensemble: a depth-first walk     *)
(* over dependsOn that yields the order in which apps are started, or an   *)
(* error.  Every configuration of the bounded sets is read, and resolved.  *)
(*                                                                         *)
(* The recursive function visit is followed call by call: `path` is the    *)
(* stack of its calls, so `visiting` is what the stack holds, and an app   *)
(* enters `visited` and `order` together, when its call returns.           *)
(***************************************************************************)
EXTENDS Integers, Sequences, SequencesExt

CONSTANTS
    Apps,               \* the ids of config.apps, in config order
    Unknown,            \* an id that no app has
    MaxDeps             \* length of a dependsOn list (bound)

App == Range(Apps)

ASSUME DistinctAssumption ==
    Apps \in Seq(App) /\ IsInjective(Apps) /\ Unknown \notin App
ASSUME MaxDepsAssumption == MaxDeps \in Nat

DependsOn == SeqOf(App \cup {Unknown}, MaxDeps)

VARIABLES
    dependsOn,          \* dependsOn[a]: the list of app a
    next,               \* the turn of the loop over config.apps
    path,               \* the apps whose visit() has not returned
    turn,               \* turn[a]: turns of the loop over dependsOn[a]
    order,              \* the order so far
    walk                \* "none" before the walk, "walking", "resolved" or
                        \*   what was thrown: "circular", "unknown"

orderVars == <<dependsOn, next, path, turn, order, walk>>

OrderInit ==
    /\ dependsOn = [a \in App |-> <<>>]
    /\ next = 1
    /\ path = <<>>
    /\ turn = [a \in App |-> 0]
    /\ order = <<>>
    /\ walk = "none"

-----------------------------------------------------------------------------
Configure ==
    /\ walk = "none"
    /\ dependsOn' \in [App -> DependsOn]
    /\ walk' = "walking"
    /\ UNCHANGED <<next, path, turn, order>>

(* visit(a) is called: it returns, throws or begins its loop.              *)
visit(a) ==
    /\ path' = IF a \in Range(order) \cup Range(path) THEN path ELSE Append(path, a)
    /\ walk' = IF a \in Range(path) THEN "circular" ELSE "walking"

(* Mutant: the apps are visited from the last.                             *)
visitAppLast ==
    /\ walk = "walking" /\ path = <<>> /\ next <= Len(Apps)
    /\ visit(Apps[Len(Apps) + 1 - next])
    /\ next' = next + 1
    /\ UNCHANGED <<dependsOn, turn, order>>

visitApp ==
    /\ walk = "walking" /\ path = <<>> /\ next <= Len(Apps)
    /\ visit(Apps[next])
    /\ next' = next + 1
    /\ UNCHANGED <<dependsOn, turn, order>>

(* Mutant: a dependency that no app has is skipped.                        *)
visitDepSkips ==
    /\ walk = "walking" /\ path # <<>>
    /\ LET app == Last(path)
           dep == dependsOn[app][turn[app] + 1]
       IN  /\ turn[app] < Len(dependsOn[app])
           /\ turn' = [turn EXCEPT ![app] = @ + 1]
           /\ IF dep \in App THEN visit(dep) ELSE UNCHANGED <<path, walk>>
    /\ UNCHANGED <<dependsOn, next, order>>

(* One turn of the loop over the dependencies of the innermost app.        *)
visitDep ==
    /\ walk = "walking" /\ path # <<>>
    /\ LET app == Last(path)
           dep == dependsOn[app][turn[app] + 1]
       IN  /\ turn[app] < Len(dependsOn[app])
           /\ turn' = [turn EXCEPT ![app] = @ + 1]
           /\ IF dep \in App THEN visit(dep)
                             ELSE walk' = "unknown" /\ UNCHANGED path
    /\ UNCHANGED <<dependsOn, next, order>>

(* Mutant: visit() ends before its last dependency.                        *)
visitedEarly ==
    /\ walk = "walking" /\ path # <<>>
    /\ turn[Last(path)] >= Len(dependsOn[Last(path)]) - 1
    /\ path' = Front(path)
    /\ order' = Append(order, Last(path))
    /\ UNCHANGED <<dependsOn, next, turn, walk>>

(* visiting.delete, visited.add, order.push.                               *)
visited ==
    /\ walk = "walking" /\ path # <<>>
    /\ turn[Last(path)] = Len(dependsOn[Last(path)])
    /\ path' = Front(path)
    /\ order' = Append(order, Last(path))
    /\ UNCHANGED <<dependsOn, next, turn, walk>>

Resolved ==
    /\ walk = "walking" /\ path = <<>> /\ next > Len(Apps)
    /\ walk' = "resolved"
    /\ UNCHANGED <<dependsOn, next, path, turn, order>>

OrderNext == Configure \/ visitApp \/ visitDep \/ visited \/ Resolved

OrderSpec == OrderInit /\ [][OrderNext]_orderVars

-----------------------------------------------------------------------------
(* Properties: what the order is, without the walk.                        *)

Depends(a, b) == b \in Range(dependsOn[a])

(* b is in every set that holds what a depends on and what its members     *)
(* depend on.                                                              *)
DependsTransitively(a, b) ==
    \A S \in SUBSET App :
        (\A c \in S \cup {a} : \A d \in App : Depends(c, d) => d \in S) => b \in S

Before(s, a, b) ==
    \E i, j \in DOMAIN s : i < j /\ s[i] = a /\ s[j] = b

ErrorsJustified ==
    LET circular == \E a \in App : DependsTransitively(a, a)
        unknown == \E a \in App : Depends(a, Unknown)
    IN  /\ walk = "resolved" => ~circular /\ ~unknown
        /\ walk = "circular" => circular
        /\ walk = "unknown" => unknown

DependenciesFirst ==
    walk = "resolved" =>
        /\ IsInjective(order) /\ Range(order) = App
        /\ \A a, b \in App : Depends(a, b) => Before(order, b, a)

ConfigOrderKept ==
    walk = "resolved" =>
        \A i, j \in DOMAIN Apps :
            i < j /\ Before(order, Apps[j], Apps[i])
                => \E k \in 1 .. i : DependsTransitively(Apps[k], Apps[j])

(* "dependsOn lists app ids that must start before this one": an order is  *)
(* found unless some app depends on itself, through others or not, or on   *)
(* an unknown app, and what is thrown names a defect that is there; the    *)
(* order has every app once, after all that it depends on.  Of the config  *)
(* order it keeps less than the README says (FreeAppsInConfigOrder): an    *)
(* app may overtake one listed before it, but only when an app at or       *)
(* before that one needs it.                                               *)
OrderCorrect == ErrorsJustified /\ DependenciesFirst /\ ConfigOrderKept

(* "Apps without dependencies start in config order" (README.md): of two   *)
(* apps that depend on none, the one listed first is the first to start.   *)
FreeAppsInConfigOrder ==
    walk = "resolved" =>
        \A i, j \in DOMAIN Apps :
            i < j /\ dependsOn[Apps[i]] = <<>> /\ dependsOn[Apps[j]] = <<>>
                => Before(order, Apps[i], Apps[j])
=============================================================================
