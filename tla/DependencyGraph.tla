-------------------------- MODULE DependencyGraph --------------------------
(***************************************************************************)
(* NewGraph (pkg/compose/dependencies.go): from the services of a project  *)
(* to the graph the walk of GraphTraversal runs over, or to an error.  The *)
(* services are kept in Go maps, so they, and the dependencies of each,    *)
(* come in any order.                                                      *)
(***************************************************************************)
EXTENDS FiniteSets

CONSTANT Names       \* Names of services, present or not

VARIABLES enabled,    \* project.Services
          disabled,   \* project.DisabledServices
          dependsOn,  \* dependsOn[s]: the keys of s.DependsOn
          required,   \* Pairs <<s, t>> with s.DependsOn[t].Required
          discovered, \* HasCycles: the keys on the path of the search,
          finished,   \* and those it is through with
          outcome     \* "none", "searching", then "graph", "disabled", "missing" or "cycle"

vars == <<enabled, disabled, dependsOn, required, discovered, finished, outcome>>

Edges == {e \in enabled \X Names : e[2] \in dependsOn[e[1]]}

(* Every project: services that depend on services that are disabled by a  *)
(* profile or do not exist, and on themselves.                             *)
Init ==
  /\ enabled \in SUBSET Names \ {{}}
  /\ disabled \in SUBSET (Names \ enabled)
  /\ dependsOn \in [enabled -> SUBSET Names]
  /\ required \in SUBSET Edges
  /\ discovered = {} /\ finished = {}
  /\ outcome = "none"

----------------------------------------------------------------------------
(* Plausible mistakes (Bug...): a search that looks for the path above the  *)
(* vertex but not for the vertex itself; required dependencies dropped.    *)
BugFindsCycle(children, done) ==
  LET finds[path \in SUBSET enabled] ==
        {v \in enabled \ path : \E w \in children[v] :
           w \in path \/ (w \notin done \cup {v} /\ w \in finds[path \cup {v}])}
  IN  finds

(* The recursion of Graph.visit: FindsCycle(...)[path] are the vertices    *)
(* whose visit, below that path, finds a child on the path, or itself.     *)
(* What the visits of the children learn is dropped: each child is         *)
(* searched with the sets of its parent.                                   *)
FindsCycle(children, done) ==
  LET finds[path \in SUBSET enabled] ==
        {v \in enabled \ path : \E w \in children[v] :
           w \in path \cup {v} \/ (w \notin done /\ w \in finds[path \cup {v}])}
  IN  finds

----------------------------------------------------------------------------
Absent   == {e \in Edges : e[2] \notin enabled}
Required == Absent \cap required
Optional == Absent \ required

BugDropped(E) == [s \in enabled |-> dependsOn[s] \ {t \in Names : <<s, t>> \in required}]

(* delete(s.DependsOn, name) for the given edges.                          *)
Dropped(E) == [s \in enabled |-> dependsOn[s] \ {t \in Names : <<s, t>> \in E}]

(* A required dependency is not there.  By then the loop has been through  *)
(* some services, and through some dependencies of the one it stops at,    *)
(* and dropped the optional ones among them.                               *)
RejectAbsent ==
  /\ outcome = "none"
  /\ \E e \in Required, before \in SUBSET Edges :
       /\ e \notin before /\ before \cap Required = {}
       /\ \A f \in before, g \in Edges : f[1] = g[1] /\ f[1] # e[1] => g \in before
       /\ dependsOn' = Dropped(before \cap Optional)
       /\ outcome' = IF e[2] \in disabled THEN "disabled" ELSE "missing"
  /\ UNCHANGED <<enabled, disabled, required, discovered, finished>>

(* All edges are there; the search for a cycle begins.                     *)
BuildGraph ==
  /\ outcome = "none"
  /\ Required = {}
  /\ dependsOn' = Dropped(Optional)
  /\ outcome' = "searching"
  /\ UNCHANGED <<enabled, disabled, required, discovered, finished>>

(* HasCycles takes the next vertex, in any order.  Its visit puts it on    *)
(* the path, and when there is no cycle, from there to the finished ones.  *)
VisitVertex ==
  /\ outcome = "searching"
  /\ \E key \in enabled \ (discovered \cup finished) :
       IF key \in FindsCycle(dependsOn, finished)[discovered]
       THEN outcome' = "cycle" /\ UNCHANGED <<discovered, finished>>
       ELSE /\ discovered' = (discovered \cup {key}) \ {key}
            /\ finished' = finished \cup {key}
            /\ UNCHANGED outcome
  /\ UNCHANGED <<enabled, disabled, dependsOn, required>>

NoCycle ==
  /\ outcome = "searching"
  /\ enabled \subseteq discovered \cup finished
  /\ outcome' = "graph"
  /\ UNCHANGED <<enabled, disabled, dependsOn, required, discovered, finished>>

Terminated == outcome \notin {"none", "searching"} /\ UNCHANGED vars

Next == RejectAbsent \/ BuildGraph \/ VisitVertex \/ NoCycle \/ Terminated

Spec == Init /\ [][Next]_vars

----------------------------------------------------------------------------
(* Everything reachable from s by dependencies, itself only through a      *)
(* cycle: the least set closed under them.                                 *)
Reachable(s) ==
  {t \in enabled : \A S \in SUBSET enabled :
     dependsOn[s] \cap enabled \subseteq S
       /\ (\A x \in S : dependsOn[x] \cap enabled \subseteq S) => t \in S}

(* Whatever order the maps come in, NewGraph reports a cycle exactly when  *)
(* a service reaches itself, although its depth-first search forgets what  *)
(* the inner visits found out.                                             *)
CycleIffReachable ==
  outcome \in {"graph", "cycle"} =>
    (outcome = "cycle" <=> \E s \in enabled : s \in Reachable(s))

(* A graph has edges between services of the project only, and no edge     *)
(* that was required has been dropped from the project on the way: a       *)
(* service never starts without a dependency it requires.                  *)
RequiredKept ==
  /\ outcome = "graph" => \A s \in enabled : dependsOn[s] \subseteq enabled
  /\ \A e \in required : e[1] \in enabled => e[2] \in dependsOn[e[1]]

(* NewGraph accepts exactly the projects without a cycle, and loses no     *)
(* required dependency whatever it returns.                                *)
GraphIsRight == CycleIffReachable /\ RequiredKept
=============================================================================
