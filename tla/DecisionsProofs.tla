--------------------------- MODULE DecisionsProofs --------------------------
(***************************************************************************)
(* Proofs about the parts of MCDecisions, each with the lemmas it rests    *)
(* on.  A part moves alone: what is proved of its actions holds of the     *)
(* steps of MCNext, and the other steps leave its variables as they are.   *)
(***************************************************************************)
EXTENDS MCDecisions, Sequences, FiniteSetTheorems, TLAPS

allVars == <<part, graphVars, vars, volumeVars, imageVars, processVars,
             publishVars, providerVars, modelVars, removalVars, remoteVars,
             dryVars, loadingVars, commandLineVars, queryVars>>

(* A step is a step of the graph while a graph is made of the project, and *)
(* leaves the graph alone otherwise; and the same of each other part.      *)
LEMMA GraphAlone ==
  ASSUME [MCNext]_allVars
  PROVE  /\ UNCHANGED part
         /\ (part = "graph" /\ Graph!Next) \/ UNCHANGED graphVars
BY DEF MCNext, allVars

----------------------------------------------------------------------------
(* The search of the graph is one. *)
Search(children, done, finds) ==
  [above \in SUBSET enabled |->
     {v \in enabled \ above : \E w \in children[v] :
        w \in above \cup {v} \/ (w \notin done /\ w \in finds[above \cup {v}])}]

LEMMA SearchExists ==
  ASSUME NEW children \in [enabled -> SUBSET enabled], NEW done
  PROVE  Graph!FindsCycle(children, done) = Search(children, done, Graph!FindsCycle(children, done))
<1> DEFINE All == (SUBSET enabled) \X enabled
           Finds(R, c) == c[2] \notin c[1] /\ \E w \in children[c[2]] :
             w \in c[1] \cup {c[2]} \/ (w \notin done /\ <<c[1] \cup {c[2]}, w>> \in R)
           Closed(R) == \A c \in All : Finds(R, c) => c \in R
           Least == {c \in All : \A R \in SUBSET All : Closed(R) => c \in R}
           f == [above \in SUBSET enabled |-> {v \in enabled : <<above, v>> \in Least}]
<1>1. Least \in SUBSET All
  OBVIOUS
<1>2. ASSUME NEW R, NEW S \in SUBSET R, NEW c \in All, Finds(S, c) PROVE Finds(R, c)
  BY <1>2
<1>3. Closed(Least)
  <2> SUFFICES ASSUME NEW c \in All, Finds(Least, c), NEW R \in SUBSET All, Closed(R) PROVE c \in R
    OBVIOUS
  <2>1. Least \subseteq R
    OBVIOUS
  <2>2. Finds(R, c)
    BY <1>2, <2>1
  <2> QED
    BY <2>2
<1>4. \A c \in Least : Finds(Least, c)
  <2> DEFINE F == {c \in All : Finds(Least, c)}
  <2>1. F \subseteq Least
    BY <1>3
  <2>2. ASSUME NEW c \in All, Finds(F, c) PROVE Finds(Least, c)
    BY <1>2, <2>1, <2>2
  <2>3. Closed(F)
    BY <2>2
  <2> QED
    BY <2>3
<1> HIDE DEF Least
<1>5. ASSUME NEW above \in SUBSET enabled, NEW v \in enabled
      PROVE  v \in f[above] <=> v \notin above /\ \E w \in children[v] :
               w \in above \cup {v} \/ (w \notin done /\ w \in f[above \cup {v}])
  <2>1. <<above, v>> \in All
    OBVIOUS
  <2>2. <<above, v>> \in Least <=> Finds(Least, <<above, v>>)
    BY <1>3, <1>4, <2>1
  <2>3. \A w \in children[v] : w \in f[above \cup {v}] <=> <<above \cup {v}, w>> \in Least
    OBVIOUS
  <2> QED
    BY <2>2, <2>3
<1>6. f = Search(children, done, f)
  <2>1. ASSUME NEW above \in SUBSET enabled PROVE f[above] = Search(children, done, f)[above]
    <3>1. f[above] \subseteq enabled
      OBVIOUS
    <3> HIDE DEF f
    <3>2. \A v \in enabled : v \in f[above] <=> v \in Search(children, done, f)[above]
      BY <1>5 DEF Search
    <3>3. Search(children, done, f)[above] \subseteq enabled
      BY DEF Search
    <3> QED
      BY <3>1, <3>2, <3>3
  <2>2. f = [above \in SUBSET enabled |-> f[above]]
    OBVIOUS
  <2>3. Search(children, done, f) = [above \in SUBSET enabled |-> Search(children, done, f)[above]]
    BY DEF Search
  <2> HIDE DEF f
  <2> QED
    BY <2>1, <2>2, <2>3
<1> HIDE DEF f
<1>7. Graph!FindsCycle(children, done) = CHOOSE g : g = Search(children, done, g)
  BY DEF Graph!FindsCycle, Search
<1> QED
  BY <1>6, <1>7

(* What the search finds below a path.                                      *)
LEMMA Finds ==
  ASSUME NEW children \in [enabled -> SUBSET enabled], NEW done,
         NEW above \in SUBSET enabled, NEW v
  PROVE  v \in Graph!FindsCycle(children, done)[above] <=>
           /\ v \in enabled \ above
           /\ \E w \in children[v] : w \in above \cup {v}
                \/ (w \notin done /\ w \in Graph!FindsCycle(children, done)[above \cup {v}])
<1> DEFINE finds == Graph!FindsCycle(children, done)
<1>1. finds = Search(children, done, finds)
  BY SearchExists
<1> HIDE DEF finds
<1>2. finds[above] = Search(children, done, finds)[above]
  BY <1>1
<1>3. v \in Search(children, done, finds)[above] <=>
        /\ v \in enabled \ above
        /\ \E w \in children[v] : w \in above \cup {v}
             \/ (w \notin done /\ w \in finds[above \cup {v}])
  BY DEF Search
<1>4. v \in finds[above] <=>
        /\ v \in enabled \ above
        /\ \E w \in children[v] : w \in above \cup {v}
             \/ (w \notin done /\ w \in finds[above \cup {v}])
  BY <1>2, <1>3
<1> QED
  BY <1>4 DEF finds

(* What reachability is: the dependencies, and what they reach.            *)
LEMMA ReachableStep ==
  ASSUME NEW s \in enabled, dependsOn \in [enabled -> SUBSET enabled]
  PROVE  /\ Graph!Reachable(s) \subseteq enabled
         /\ dependsOn[s] \subseteq Graph!Reachable(s)
         /\ \A x \in Graph!Reachable(s) : dependsOn[x] \subseteq Graph!Reachable(s)
BY DEF Graph!Reachable

LEMMA ReachableTransitive ==
  ASSUME NEW s \in enabled, NEW t \in Graph!Reachable(s), dependsOn \in [enabled -> SUBSET enabled]
  PROVE  Graph!Reachable(t) \subseteq Graph!Reachable(s)
<1>1. Graph!Reachable(s) \in SUBSET enabled /\ dependsOn[t] \subseteq Graph!Reachable(s)
      /\ \A x \in Graph!Reachable(s) : dependsOn[x] \subseteq Graph!Reachable(s)
  BY ReachableStep
<1>2. ASSUME NEW x \in Graph!Reachable(t) PROVE x \in Graph!Reachable(s)
  BY <1>1 DEF Graph!Reachable
<1> QED
  BY <1>2

LEMMA ReachableFirst ==
  ASSUME NEW s \in enabled, NEW t \in Graph!Reachable(s), dependsOn \in [enabled -> SUBSET enabled]
  PROVE  \E w \in dependsOn[s] : t = w \/ t \in Graph!Reachable(w)
<1> DEFINE S == dependsOn[s] \cup UNION {Graph!Reachable(w) : w \in dependsOn[s]}
<1>1. S \in SUBSET enabled
  BY ReachableStep
<1>2. \A x \in S : dependsOn[x] \subseteq S
  BY ReachableStep
<1>3. t \in S
  BY <1>1, <1>2 DEF Graph!Reachable
<1> QED
  BY <1>3

(* Induction over paths, which only grow: of the paths something is wrong  *)
(* with there is a longest.                                                *)
LEMMA LongestPath ==
  ASSUME NEW Wrong \in SUBSET (SUBSET enabled), Wrong # {}, IsFiniteSet(enabled)
  PROVE  \E above \in Wrong : \A longer \in Wrong : above \subseteq longer => longer = above
<1> DEFINE Rest == {enabled \ above : above \in Wrong}
<1>1. /\ IsWellFoundedOn(StrictSubsetOrdering(enabled), SUBSET enabled)
  BY FS_StrictSubsetOrderingWellFounded, FS_FiniteSubsetsOfFinite
<1>2. Rest \subseteq SUBSET enabled /\ Rest # {}
  <2>1. ASSUME NEW r \in Rest PROVE r \in SUBSET enabled
    BY <2>1
  <2>2. PICK above \in Wrong : TRUE
    OBVIOUS
  <2>3. enabled \ above \in Rest
    BY <2>2
  <2> HIDE DEF Rest
  <2> QED
    BY <2>1, <2>3
<1> HIDE DEF Rest
<1>3. PICK r \in Rest : \A q \in Rest : <<q, r>> \notin StrictSubsetOrdering(enabled)
  BY <1>1, <1>2, WFMin
<1>4. PICK above \in Wrong : r = enabled \ above
  BY DEF Rest
<1>5. ASSUME NEW longer \in Wrong, above \subseteq longer, longer # above PROVE FALSE
  <2>1. enabled \ longer \in Rest
    BY DEF Rest
  <2>2. enabled \ longer \subseteq r /\ enabled \ longer # r
    BY <1>4, <1>5
  <2>3. <<enabled \ longer, r>> \in StrictSubsetOrdering(enabled)
    BY <1>2, <2>1, <2>2 DEF StrictSubsetOrdering
  <2> QED
    BY <1>3, <2>1, <2>3
<1> QED
  BY <1>5

(* A vertex that is found, below a path whose vertices all reach it, says  *)
(* that there is a cycle.                                                  *)
LEMMA FoundIsCycle ==
  ASSUME dependsOn \in [enabled -> SUBSET enabled], IsFiniteSet(enabled), NEW done,
         NEW v \in Graph!FindsCycle(dependsOn, done)[{}]
  PROVE  \E s \in enabled : s \in Graph!Reachable(s)
<1> DEFINE finds == Graph!FindsCycle(dependsOn, done)
<1>1. ASSUME NEW above \in SUBSET enabled, NEW x
      PROVE  x \in finds[above] <=>
               /\ x \in enabled \ above
               /\ \E w \in dependsOn[x] : w \in above \cup {x}
                    \/ (w \notin done /\ w \in finds[above \cup {x}])
  BY Finds
<1> HIDE DEF finds
<1> DEFINE Above(above, x) == \A p \in above : x \in Graph!Reachable(p)
           Wrong == {above \in SUBSET enabled : \E x \in finds[above] : Above(above, x)}
<1> SUFFICES ASSUME \A s \in enabled : s \notin Graph!Reachable(s) PROVE FALSE
  OBVIOUS
<1>2. v \in finds[{}]
  BY DEF finds
<1>3. {} \in Wrong
  <2>1. Above({}, v)
    OBVIOUS
  <2> QED
    BY <1>2, <2>1
<1>4. PICK above \in Wrong : \A longer \in Wrong : above \subseteq longer => longer = above
  <2>1. Wrong \in SUBSET (SUBSET enabled) /\ Wrong # {}
    BY <1>3
  <2> HIDE DEF Wrong
  <2> QED
    BY <2>1, LongestPath
<1>5. PICK x \in finds[above] : Above(above, x)
  OBVIOUS
<1>6. /\ above \in SUBSET enabled /\ x \in enabled \ above
      /\ \E w \in dependsOn[x] : w \in above \cup {x} \/ w \in finds[above \cup {x}]
  BY <1>1, <1>5
<1>7. PICK w \in dependsOn[x] : w \in above \cup {x} \/ w \in finds[above \cup {x}]
  BY <1>6
<1>8. \A p \in above \cup {x} : w \in Graph!Reachable(p)
  <2>1. w \in Graph!Reachable(x)
    BY <1>6, <1>7, ReachableStep
  <2>2. ASSUME NEW p \in above PROVE w \in Graph!Reachable(p)
    BY <1>5, <1>6, <2>1, <2>2, ReachableTransitive
  <2> QED
    BY <2>1, <2>2
<1>9. w \notin above \cup {x}
  BY <1>6, <1>8
<1>10. above \cup {x} \in Wrong
  BY <1>6, <1>7, <1>8, <1>9
<1> HIDE DEF Wrong
<1> QED
  BY <1>4, <1>6, <1>10

(* A vertex from which no cycle is reached.                                *)
Clear(v) == \A s \in {v} \cup Graph!Reachable(v) : s \notin Graph!Reachable(s)

(* A vertex that is not found is clear, when what is finished is.          *)
LEMMA NotFoundIsClear ==
  ASSUME dependsOn \in [enabled -> SUBSET enabled], IsFiniteSet(enabled), NEW done,
         \A x \in done \cap enabled : Clear(x),
         NEW v \in enabled, v \notin Graph!FindsCycle(dependsOn, done)[{}]
  PROVE  Clear(v)
<1> DEFINE finds == Graph!FindsCycle(dependsOn, done)
<1>1. ASSUME NEW above \in SUBSET enabled, NEW x
      PROVE  x \in finds[above] <=>
               /\ x \in enabled \ above
               /\ \E w \in dependsOn[x] : w \in above \cup {x}
                    \/ (w \notin done /\ w \in finds[above \cup {x}])
  BY Finds
<1>2. v \notin finds[{}]
  OBVIOUS
<1> HIDE DEF finds
<1> DEFINE Wrong == {above \in SUBSET enabled :
                       \E x \in enabled \ above : x \notin finds[above] /\ ~Clear(x)}
<1> SUFFICES ASSUME ~Clear(v) PROVE FALSE
  OBVIOUS
<1>3. {} \in Wrong
  BY <1>2
<1>4. PICK above \in Wrong : \A longer \in Wrong : above \subseteq longer => longer = above
  <2>1. Wrong \in SUBSET (SUBSET enabled) /\ Wrong # {}
    BY <1>3
  <2> HIDE DEF Wrong
  <2> QED
    BY <2>1, LongestPath
<1>5. PICK x \in enabled \ above : x \notin finds[above] /\ ~Clear(x)
  OBVIOUS
<1>6. above \cup {x} \in SUBSET enabled /\ above \cup {x} \notin Wrong
  BY <1>4, <1>5
<1>7. ASSUME NEW w \in dependsOn[x] PROVE w # x /\ Clear(w)
  <2>1. w \notin above \cup {x} /\ (w \in done \/ w \notin finds[above \cup {x}])
    BY <1>1, <1>5
  <2>2. w \in enabled
    BY <1>5
  <2> QED
    BY <2>1, <2>2, <1>6
<1>8. x \notin Graph!Reachable(x)
  BY <1>5, <1>7, ReachableFirst DEF Clear
<1>9. \A s \in Graph!Reachable(x) : s \notin Graph!Reachable(s)
  BY <1>5, <1>7, ReachableFirst DEF Clear
<1> QED
  BY <1>5, <1>8, <1>9 DEF Clear

(* What holds while the graph is made: the tables have their types, an     *)
(* edge that is required is kept, the search starts when all edges lead to *)
(* services of the project, and what it is through with reaches no cycle.  *)
GraphTypes ==
  /\ IsFiniteSet(enabled)
  /\ enabled \subseteq Names
  /\ dependsOn \in [enabled -> SUBSET Names]
  /\ required \subseteq enabled \X Names

SearchInv ==
  outcome \in {"searching", "graph", "cycle"} =>
    /\ dependsOn \in [enabled -> SUBSET enabled]
    /\ discovered = {}
    /\ finished \subseteq enabled
    /\ \A v \in finished : Clear(v)
    /\ outcome = "graph" => finished = enabled
    /\ outcome = "cycle" => \E s \in enabled : s \in Graph!Reachable(s)

NothingVisited == outcome = "none" => discovered = {} /\ finished = {}

GraphInv ==
  /\ GraphTypes
  /\ \A e \in required : e[2] \in dependsOn[e[1]]
  /\ NothingVisited
  /\ SearchInv

LEMMA GraphInvImplies == GraphInv => Graph!GraphIsRight
<1> SUFFICES ASSUME GraphInv PROVE Graph!GraphIsRight
  OBVIOUS
<1>1. Graph!CycleIffReachable
  <2>1. CASE outcome = "graph"
    BY <2>1 DEF Graph!CycleIffReachable, GraphInv, SearchInv, Clear
  <2>2. CASE outcome = "cycle"
    BY <2>2 DEF Graph!CycleIffReachable, GraphInv, SearchInv
  <2> QED
    BY <2>1, <2>2 DEF Graph!CycleIffReachable
<1>2. Graph!RequiredKept
  <2>1. ASSUME outcome = "graph", NEW s \in enabled PROVE dependsOn[s] \subseteq enabled
    BY <2>1 DEF GraphInv, SearchInv
  <2> QED
    BY <2>1 DEF Graph!RequiredKept, GraphInv
<1> QED
  BY <1>1, <1>2 DEF Graph!GraphIsRight

LEMMA GraphInvStart ==
  ASSUME enabled \in SUBSET Names, dependsOn \in [enabled -> SUBSET Names],
         required \subseteq Graph!Edges, outcome = "none", discovered = {}, finished = {}
  PROVE  GraphInv
<1>1. IsFiniteSet(enabled)
  BY NamesAssumption, FS_Subset
<1>2. Graph!Edges \subseteq enabled \X Names /\ \A e \in required : e[2] \in dependsOn[e[1]]
  BY DEF Graph!Edges
<1> QED
  BY <1>1, <1>2 DEF GraphInv, GraphTypes, NothingVisited, SearchInv

(* Nothing that is dropped was required.                                   *)
LEMMA DroppedKeeps ==
  ASSUME GraphInv, NEW E \in SUBSET Graph!Optional, dependsOn' = Graph!Dropped(E),
         UNCHANGED <<enabled, required>>
  PROVE  /\ GraphTypes'
         /\ (\A e \in required : e[2] \in dependsOn[e[1]])'
         /\ \A s \in enabled : dependsOn'[s] = dependsOn[s] \ {t \in Names : <<s, t>> \in E}
<1>1. GraphTypes /\ \A e \in required : e[2] \in dependsOn[e[1]]
  BY DEF GraphInv
<1>2. dependsOn' = [s \in enabled |-> dependsOn[s] \ {t \in Names : <<s, t>> \in E}]
  BY DEF Graph!Dropped
<1>3. GraphTypes'
  BY <1>1, <1>2 DEF GraphTypes
<1>4. ASSUME NEW e \in required PROVE e[2] \in dependsOn'[e[1]]
  <2>1. e \in enabled \X Names /\ e = <<e[1], e[2]>>
    BY <1>1 DEF GraphTypes
  <2>2. e \notin E
    BY DEF Graph!Optional
  <2> QED
    BY <1>1, <1>2, <2>1, <2>2
<1> QED
  BY <1>2, <1>3, <1>4

LEMMA RejectAbsentKeeps == ASSUME GraphInv, Graph!RejectAbsent PROVE GraphInv'
<1>1. PICK E \in SUBSET Graph!Optional : dependsOn' = Graph!Dropped(E)
  BY DEF Graph!RejectAbsent, Graph!Optional
<1>2. UNCHANGED <<enabled, required, discovered, finished>> /\ outcome' \in {"disabled", "missing"}
  BY DEF Graph!RejectAbsent
<1>3. GraphTypes' /\ (\A e \in required : e[2] \in dependsOn[e[1]])'
  BY <1>1, <1>2, DroppedKeeps
<1>4. NothingVisited' /\ SearchInv'
  BY <1>2 DEF NothingVisited, SearchInv
<1> QED
  BY <1>3, <1>4 DEF GraphInv

LEMMA BuildGraphKeeps == ASSUME GraphInv, Graph!BuildGraph PROVE GraphInv'
<1>1. /\ dependsOn' = Graph!Dropped(Graph!Optional) /\ outcome = "none" /\ outcome' = "searching" /\ Graph!Required = {}
      /\ UNCHANGED <<enabled, required, discovered, finished>>
  BY DEF Graph!BuildGraph
<1>2. /\ GraphTypes' /\ (\A e \in required : e[2] \in dependsOn[e[1]])'
      /\ \A s \in enabled : dependsOn'[s] = dependsOn[s] \ {t \in Names : <<s, t>> \in Graph!Optional}
  BY <1>1, DroppedKeeps
<1>3. ASSUME NEW s \in enabled, NEW t \in dependsOn'[s] PROVE t \in enabled
  <2>1. t \in dependsOn[s] /\ t \in Names /\ <<s, t>> \notin Graph!Optional
    BY <1>2 DEF GraphInv, GraphTypes
  <2>2. <<s, t>> \in Graph!Edges
    BY <2>1 DEF Graph!Edges
  <2> QED
    BY <1>1, <2>1, <2>2 DEF Graph!Optional, Graph!Required, Graph!Absent
<1>4. dependsOn' \in [enabled -> SUBSET enabled]
  BY <1>2, <1>3, <1>1 DEF GraphTypes
<1>5. NothingVisited' /\ SearchInv'
  BY <1>1, <1>4 DEF GraphInv, NothingVisited, SearchInv
<1> QED
  BY <1>2, <1>5 DEF GraphInv

LEMMA VisitVertexKeeps == ASSUME GraphInv, Graph!VisitVertex PROVE GraphInv'
<1>1. outcome = "searching" /\ UNCHANGED <<enabled, disabled, dependsOn, required>>
  BY DEF Graph!VisitVertex
<1>2. /\ dependsOn \in [enabled -> SUBSET enabled] /\ discovered = {} /\ finished \subseteq enabled
      /\ \A v \in finished : Clear(v)
      /\ IsFiniteSet(enabled)
  BY <1>1 DEF GraphInv, SearchInv, GraphTypes
<1>3. \A v : Graph!Reachable(v)' = Graph!Reachable(v)
  BY <1>1 DEF Graph!Reachable
<1>4. \A v : Clear(v)' <=> Clear(v)
  BY <1>3 DEF Clear
<1>5. PICK key \in enabled :
        IF key \in Graph!FindsCycle(dependsOn, finished)[{}]
        THEN outcome' = "cycle" /\ UNCHANGED <<discovered, finished>>
        ELSE /\ discovered' = (discovered \cup {key}) \ {key}
             /\ finished' = finished \cup {key}
             /\ UNCHANGED outcome
  BY <1>2 DEF Graph!VisitVertex
<1>6. CASE key \in Graph!FindsCycle(dependsOn, finished)[{}]
  <2>1. outcome' = "cycle" /\ UNCHANGED <<discovered, finished>>
    BY <1>5, <1>6
  <2>2. \E s \in enabled : s \in Graph!Reachable(s)
    BY <1>2, <1>6, FoundIsCycle
  <2>3. SearchInv'
    BY <1>1, <1>2, <1>3, <1>4, <2>1, <2>2 DEF SearchInv
  <2> QED
    BY <1>1, <2>1, <2>3 DEF GraphInv, GraphTypes, NothingVisited
<1>7. CASE key \notin Graph!FindsCycle(dependsOn, finished)[{}]
  <2>1. discovered' = {} /\ finished' = finished \cup {key} /\ outcome' = "searching"
    BY <1>1, <1>2, <1>5, <1>7
  <2>2. Clear(key)
    BY <1>2, <1>7, NotFoundIsClear
  <2>3. SearchInv'
    BY <1>1, <1>2, <1>3, <1>4, <2>1, <2>2 DEF SearchInv
  <2> QED
    BY <1>1, <2>1, <2>3 DEF GraphInv, GraphTypes, NothingVisited
<1> QED
  BY <1>6, <1>7

LEMMA NoCycleKeeps == ASSUME GraphInv, Graph!NoCycle PROVE GraphInv'
<1>1. /\ outcome = "searching" /\ outcome' = "graph" /\ enabled \subseteq discovered \cup finished
      /\ UNCHANGED <<enabled, disabled, dependsOn, required, discovered, finished>>
  BY DEF Graph!NoCycle
<1>2. \A v : Graph!Reachable(v)' = Graph!Reachable(v)
  BY <1>1 DEF Graph!Reachable
<1>3. \A v : Clear(v)' <=> Clear(v)
  BY <1>2 DEF Clear
<1>4. SearchInv'
  BY <1>1, <1>3 DEF GraphInv, SearchInv
<1> QED
  BY <1>1, <1>4 DEF GraphInv, GraphTypes, NothingVisited

LEMMA GraphStutter == ASSUME GraphInv, UNCHANGED Graph!vars PROVE GraphInv'
<1>1. \A v : Graph!Reachable(v)' = Graph!Reachable(v)
  BY DEF Graph!Reachable, Graph!vars
<1>2. \A v : Clear(v)' <=> Clear(v)
  BY <1>1 DEF Clear
<1>3. SearchInv'
  BY <1>1, <1>2 DEF GraphInv, SearchInv, Graph!vars
<1> QED
  BY <1>3 DEF GraphInv, GraphTypes, NothingVisited, Graph!vars

LEMMA GraphInvNext == ASSUME GraphInv, [Graph!Next]_(Graph!vars) PROVE GraphInv'
BY RejectAbsentKeeps, BuildGraphKeeps, VisitVertexKeeps, NoCycleKeeps, GraphStutter
   DEF Graph!Next, Graph!Terminated

(* NewGraph takes exactly the projects without a cycle, whatever services  *)
(* there are, in whatever order the maps come: NewGraph and HasCycles.     *)
THEOREM GraphIsRightHolds == MCSpec => []GraphIsRight
<1> DEFINE Inv == part = "graph" => GraphInv
<1>1. MCInit => Inv
  <2> SUFFICES ASSUME MCInit, part = "graph" PROVE GraphInv
    OBVIOUS
  <2>1. GraphInit
    BY DEF MCInit
  <2>2. CASE FewInit
    BY <2>1, <2>2, FewAssumption, GraphInvStart DEF FewInit, GraphInit
  <2>3. CASE AllInit
    BY <2>1, <2>3, GraphInvStart DEF AllInit, GraphInit
  <2> QED
    BY <2>1, <2>2, <2>3 DEF GraphInit
<1>2. Inv /\ [MCNext]_allVars => Inv'
  <2> SUFFICES ASSUME Inv, [MCNext]_allVars, part' = "graph" PROVE GraphInv'
    OBVIOUS
  <2>1. GraphInv /\ (Graph!Next \/ UNCHANGED Graph!vars)
    BY GraphAlone DEF graphVars, Graph!vars
  <2> QED
    BY <2>1, GraphInvNext
<1>3. Inv => GraphIsRight
  BY GraphInvImplies DEF GraphIsRight
<1> QED
  BY <1>1, <1>2, <1>3, PTL DEF MCSpec, allVars

----------------------------------------------------------------------------
(* One mount; and what holds between two containers: no anonymous volume   *)
(* is younger than the container that was made last.                       *)
Types   == {"none", "bind", "volume", "tmpfs"}
Asking  == {"selinux", "no_create", "propagation", "recursive", "nocopy", "subpath", "labels"}
Mountable == [type : Types, source : Volume!Sources, options : SUBSET Asking, readOnly : BOOLEAN]

Aged == \A t \in Targets : mounted[t].source \in Int => mounted[t].source <= generation

VolumesInv == Volume!VolumesAreRight /\ Aged

(* What may be declared, case by case.                                     *)
LEMMA DeclarableTyped ==
  ASSUME NEW d \in Volume!Declarable
  PROVE  /\ d \in Mountable
         /\ d.source \notin Int \/ (d.source = Volume!NoSource /\ d.options = {} /\ ~d.readOnly)
         /\ d.source # Volume!NoSource => d.type \in {"volume", "bind"}
         /\ d.type = "volume" => d = Volume!Unnamed \/ d.source \in Named
         /\ d.type = "bind" => d.source \in Paths
         /\ d.type \in {"none", "tmpfs"} => d.source = Volume!NoSource
         /\ d.options \cap {"selinux", "propagation", "nocopy"} = d.options \/ Volume!RequiresMountAPI(d)
<1> USE MountsAssumption DEF Mountable, Types, Asking, Volume!Sources, Volume!NoSource, Volume!HostFile, Volume!Mount
<1>1. CASE d \in {Volume!Nothing, Volume!Tmpfs, Volume!Unnamed}
  <2>1. PICK type \in {"none", "tmpfs", "volume"} :
             d = [type |-> type, source |-> 0, options |-> {}, readOnly |-> FALSE]
    BY <1>1 DEF Volume!Nothing, Volume!Tmpfs, Volume!Unnamed
  <2>2. 0 \in Volume!Sources
    OBVIOUS
  <2>3. d \in Mountable
    BY <2>1, <2>2
  <2>4. d.type = "volume" => d = Volume!Unnamed
    BY <2>1 DEF Volume!Unnamed
  <2>5. d.type # "bind" /\ d.source = 0 /\ d.options = {} /\ d.readOnly = FALSE
    BY <2>1
  <2> QED
    BY <2>3, <2>4, <2>5
<1>2. CASE \E v \in Named, r \in BOOLEAN, o \in {{}, {"nocopy"}, {"subpath"}, {"labels"}} :
             d = Volume!Mount("volume", v, o, r)
  BY <1>2 DEF Volume!RequiresMountAPI
<1>3. CASE \E p \in Paths, o \in {{}, {"selinux"}, {"selinux", "no_create"}, {"propagation"}, {"recursive"}} :
             d = Volume!Mount("bind", p, o, FALSE)
  <2>1. PICK p \in Paths, o \in {{}, {"selinux"}, {"selinux", "no_create"}, {"propagation"}, {"recursive"}} :
             d = [type |-> "bind", source |-> p, options |-> o, readOnly |-> FALSE]
    BY <1>3
  <2>2. o \in SUBSET Asking /\ p \notin Int /\ p \in Volume!Sources
    OBVIOUS
  <2>3. o \cap {"selinux", "propagation", "nocopy"} = o \/ o \cap {"no_create", "propagation", "recursive"} # {}
    OBVIOUS
  <2> QED
    BY <2>1, <2>2, <2>3 DEF Volume!RequiresMountAPI
<1> QED
  BY <1>1, <1>2, <1>3 DEF Volume!Declarable

(* One mount of a new container, given those of the container before.      *)
MountTyped(r, x) ==
  /\ r \in Mountable /\ x \in Mountable
  /\ x.source \in Int => x.source <= generation + 1

MountKept(s, t, x) ==
  Volume!AnonymousAt(mounted, t) /\ (s.declared[t] = Volume!Unnamed \/ (s.declared[t].type = "none" /\ t \in s.image)) =>
    IF s.inherit THEN x = [mounted[t] EXCEPT !.options = {}]
    ELSE x.source # mounted[t].source

MountDeclared(d, r, x) ==
  d.source # Volume!NoSource =>
    /\ x.type = d.type
    /\ x.source = d.source
    /\ x.readOnly = d.readOnly
    /\ d.options \ r.options \subseteq (IF Volume!RequiresMountAPI(d) THEN {"selinux"} ELSE {})

MountFile(s, t, x) ==
  t \in s.files /\ s.declared[t].type = "none" /\ ~Volume!Inherits(s, t) => x = Volume!File

MountRight(s, t, r, x) ==
  MountTyped(r, x) /\ MountKept(s, t, x) /\ MountDeclared(s.declared[t], r, x) /\ MountFile(s, t, x)

LEMMA Typing ==
  /\ \A m : m \in Mountable <=> /\ m = [type |-> m.type, source |-> m.source,
                                        options |-> m.options, readOnly |-> m.readOnly]
                                /\ m.type \in Types /\ m.source \in Volume!Sources
                                /\ m.options \subseteq Asking /\ m.readOnly \in BOOLEAN
BY DEF Mountable

(* What asks for nothing, or for nothing the mount API lacks, is asked for *)
(* as it is.                                                               *)
LEMMA Plainly ==
  ASSUME NEW type, NEW source, NEW wishes, NEW readOnly, "selinux" \notin wishes
  PROVE  Volume!MountRequest(Volume!Mount(type, source, wishes, readOnly)) = Volume!Mount(type, source, wishes, readOnly)
<1>1. wishes \ {"selinux"} = wishes
  OBVIOUS
<1> QED
  BY <1>1 DEF Volume!MountRequest, Volume!Mount

LEMMA PlainMounts ==
  /\ Volume!MountRequest(Volume!Nothing) = Volume!Nothing /\ Volume!MountRequest(Volume!Tmpfs) = Volume!Tmpfs
  /\ Volume!MountRequest(Volume!Unnamed) = Volume!Unnamed /\ Volume!MountRequest(Volume!File) = Volume!File
<1>1. Volume!MountRequest(Volume!Nothing) = Volume!Nothing
  BY Plainly DEF Volume!Nothing
<1>2. Volume!MountRequest(Volume!Tmpfs) = Volume!Tmpfs
  BY Plainly DEF Volume!Tmpfs
<1>3. Volume!MountRequest(Volume!Unnamed) = Volume!Unnamed
  BY Plainly DEF Volume!Unnamed
<1>4. "selinux" \notin {"no_create"}
  OBVIOUS
<1>5. Volume!MountRequest(Volume!File) = Volume!File
  BY <1>4, Plainly DEF Volume!File
<1> QED
  BY <1>1, <1>2, <1>3, <1>5

(* A declaration that is mounted as it is.                                 *)
LEMMA DeclaredMount ==
  ASSUME NEW s \in Volume!Services, NEW t \in Targets,
         generation \in Nat, generation < Generations, Aged, mounted[t] \in Mountable,
         NEW r, r = Volume!Request(s, t), NEW x, x = Volume!Mounted(s, t, r),
         s.declared[t].type # "none", ~(Volume!Inherits(s, t) /\ Volume!Unsourced(s, t))
  PROVE  MountRight(s, t, r, x)
<1> DEFINE d == s.declared[t]
<1>1. d \in Volume!Declarable
  BY DEF Volume!Services
<1>2. Volume!MountOption(s, t) = d
  BY DEF Volume!MountOption
<1>3. d \in Mountable /\ generation + 1 \in Volume!Sources /\ generation + 1 \in Int /\ 0 \notin Named
  BY <1>1, DeclarableTyped, MountsAssumption DEF Volume!Sources, Volume!HostFile
<1>4. CASE d = Volume!Unnamed
  <2>1. r = Volume!Unnamed
    <3>1. ~Volume!UsesBindAPI(s, t, Volume!Unnamed)
      BY <1>3, <1>4 DEF Volume!UsesBindAPI, Volume!Unnamed, Volume!Mount, Volume!NoSource
    <3> QED
      BY <1>2, <1>4, <3>1, PlainMounts DEF Volume!Request
  <2>2. x = [type |-> "volume", source |-> generation + 1, options |-> {}, readOnly |-> FALSE]
    BY <2>1 DEF Volume!Mounted, Volume!Unnamed, Volume!Mount, Volume!NoSource
  <2>3. x \in Mountable
    BY <1>3, <2>2 DEF Mountable, Types
  <2>4. Volume!AnonymousAt(mounted, t) => s.inherit = FALSE /\ mounted[t].source <= generation
    <3>1. Volume!Unsourced(s, t) /\ s.inherit \in BOOLEAN
      BY <1>4 DEF Volume!Unsourced, Volume!Unnamed, Volume!Mount, Volume!Services
    <3> QED
      BY <3>1, MountsAssumption DEF Volume!AnonymousAt, Aged, Volume!Inherits
  <2>5. Volume!AnonymousAt(mounted, t) => x.source # mounted[t].source
    BY <2>2, <2>4, MountsAssumption DEF Volume!AnonymousAt
  <2>6. d.source = Volume!NoSource
    BY <1>4 DEF Volume!Unnamed, Volume!Mount
  <2> QED
    BY <1>3, <1>4, <2>1, <2>2, <2>3, <2>4, <2>5, <2>6 DEF MountRight, MountTyped, MountKept, MountDeclared, MountFile
<1>5. CASE d = Volume!Tmpfs
  <2>1. r = Volume!Tmpfs /\ x = Volume!Tmpfs
    <3>1. ~Volume!UsesBindAPI(s, t, Volume!Tmpfs) /\ Volume!Tmpfs.type = "tmpfs"
      BY DEF Volume!UsesBindAPI, Volume!Tmpfs, Volume!Mount
    <3>2. r = Volume!Tmpfs
      BY <1>2, <1>5, <3>1, PlainMounts DEF Volume!Request
    <3> QED
      BY <3>1, <3>2 DEF Volume!Mounted
  <2>2. d # Volume!Unnamed /\ d.type # "none" /\ d.source = Volume!NoSource
    BY <1>5 DEF Volume!Tmpfs, Volume!Unnamed, Volume!Mount
  <2>3. x.source <= generation + 1
    BY <2>1, <2>2, <1>5 DEF Volume!NoSource
  <2> QED
    BY <1>3, <1>5, <2>1, <2>2, <2>3 DEF MountRight, MountTyped, MountKept, MountDeclared, MountFile
<1>6. CASE d.source # Volume!NoSource
  <2>1. d.type \in {"volume", "bind"} /\ d.source \notin Int /\ d # Volume!Unnamed
    BY <1>1, <1>6, DeclarableTyped DEF Volume!Unnamed, Volume!Mount
  <2>2. CASE Volume!UsesBindAPI(s, t, d)
    <3>1. r = [d EXCEPT !.options = d.options \cap {"selinux", "propagation", "nocopy"}]
      BY <1>2, <1>3, <2>2, Typing DEF Volume!Request, Volume!BindString
    <3>2. x = r
      BY <1>3, <1>6, <2>1, <3>1, Typing DEF Volume!Mounted
    <3>3. ~Volume!RequiresMountAPI(d)
      BY <2>2 DEF Volume!UsesBindAPI
    <3>4. d.options \cap {"selinux", "propagation", "nocopy"} = d.options
      BY <1>1, <3>3, DeclarableTyped
    <3>5. r = d
      <4>1. d = [type |-> d.type, source |-> d.source, options |-> d.options, readOnly |-> d.readOnly]
        BY <1>3, Typing
      <4>2. r = [type |-> d.type, source |-> d.source, options |-> d.options, readOnly |-> d.readOnly]
        BY <3>1, <3>4, <4>1
      <4> QED
        BY <4>1, <4>2
    <3> QED
      BY <1>3, <2>1, <3>2, <3>5 DEF MountRight, MountTyped, MountKept, MountDeclared, MountFile
  <2>3. CASE ~Volume!UsesBindAPI(s, t, d)
    <3>1. r = [d EXCEPT !.options = d.options \ {"selinux"}]
      BY <1>2, <2>3 DEF Volume!Request, Volume!MountRequest
    <3>2. x = r
      BY <1>3, <1>6, <2>1, <3>1, Typing DEF Volume!Mounted
    <3>3. Volume!RequiresMountAPI(d)
      BY <1>1, <1>6, <2>1, <2>3, DeclarableTyped DEF Volume!UsesBindAPI
    <3>4. /\ r.type = d.type /\ r.source = d.source /\ r.readOnly = d.readOnly
          /\ r.options = d.options \ {"selinux"} /\ r \in Mountable
      BY <1>3, <3>1, Typing
    <3> QED
      BY <1>3, <2>1, <3>2, <3>3, <3>4 DEF MountRight, MountTyped, MountKept, MountDeclared, MountFile
  <2> QED
    BY <2>2, <2>3
<1> QED
  <2>1. CASE d = Volume!Nothing
    BY <2>1 DEF Volume!Nothing, Volume!Mount
  <2>2. CASE d \notin {Volume!Nothing, Volume!Tmpfs, Volume!Unnamed}
    <3>1. d.source \in Named \cup Paths
      BY <1>1, <2>2 DEF Volume!Declarable, Volume!Mount
    <3> QED
      BY <1>6, <3>1, MountsAssumption DEF Volume!NoSource
  <2> QED
    BY <1>4, <1>5, <2>1, <2>2

(* A mount of the container before.                                        *)
LEMMA InheritedMount ==
  ASSUME NEW s \in Volume!Services, NEW t \in Targets,
         generation \in Nat, generation < Generations, Aged, mounted[t] \in Mountable,
         NEW r, r = Volume!Request(s, t), NEW x, x = Volume!Mounted(s, t, r),
         s.declared[t].type = "none" \/ Volume!Unsourced(s, t), Volume!Inherits(s, t)
  PROVE  MountRight(s, t, r, x)
<1> DEFINE m == [mounted[t] EXCEPT !.options = {}]
<1>1. s.declared[t] \in Volume!Declarable /\ s.inherit
  BY DEF Volume!Services, Volume!Inherits
<1>2. Volume!MountOption(s, t) = m
  BY DEF Volume!MountOption
<1>3. m.type = mounted[t].type /\ m.source = mounted[t].source /\ m.options = {}
      /\ m.readOnly = mounted[t].readOnly /\ m \in Mountable
  BY Typing
<1>4. s.declared[t].source = Volume!NoSource
  BY <1>1, DeclarableTyped DEF Volume!Unsourced
<1>5. r \in Mountable /\ r.source = m.source /\ r.type = m.type /\ r.options = {}
  <2>1. CASE Volume!UsesBindAPI(s, t, m)
    <3>1. r = [m EXCEPT !.readOnly = s.declared[t].readOnly,
                        !.options = s.declared[t].options \cap {"selinux", "propagation", "nocopy"}]
      BY <1>2, <2>1 DEF Volume!Request, Volume!BindString
    <3>2. s.declared[t].options = {} /\ s.declared[t].readOnly \in BOOLEAN
      BY <1>1, <1>4, DeclarableTyped, Typing, MountsAssumption DEF Volume!NoSource
    <3>3. m = [type |-> m.type, source |-> m.source, options |-> {}, readOnly |-> m.readOnly]
      BY <1>3, Typing
    <3>4. {} \cap {"selinux", "propagation", "nocopy"} = {}
      OBVIOUS
    <3>5. r = [type |-> m.type, source |-> m.source, options |-> {}, readOnly |-> s.declared[t].readOnly]
      BY <3>1, <3>2, <3>3, <3>4
    <3>6. m.type \in Types /\ m.source \in Volume!Sources
      BY <1>3, Typing
    <3> QED
      BY <3>2, <3>5, <3>6 DEF Mountable
  <2>2. CASE ~Volume!UsesBindAPI(s, t, m)
    <3>1. r = [m EXCEPT !.options = {} \ {"selinux"}]
      BY <1>2, <1>3, <2>2 DEF Volume!Request, Volume!MountRequest
    <3> QED
      BY <1>3, <3>1, Typing
  <2> QED
    BY <2>1, <2>2
<1>6. generation + 1 \in Volume!Sources /\ generation + 1 \in Int
  BY MountsAssumption DEF Volume!Sources, Volume!HostFile
<1>7. x \in Mountable /\ (x = r \/ x.source = generation + 1)
  BY <1>5, <1>6, Typing DEF Volume!Mounted, Volume!Mount, Types
<1>8. x.source \in Int => x.source <= generation + 1
  BY <1>3, <1>5, <1>6, <1>7 DEF Aged
<1>9. ASSUME Volume!AnonymousAt(mounted, t) PROVE x = m
  <2>1. m.type = "volume" /\ m.source \in 1..Generations /\ m.source \notin Named /\ m.source # Volume!NoSource
    BY <1>3, <1>9, MountsAssumption DEF Volume!AnonymousAt, Volume!NoSource
  <2>2. ~Volume!UsesBindAPI(s, t, m)
    BY <2>1 DEF Volume!UsesBindAPI
  <2>3. r = [m EXCEPT !.options = {}]
    BY <1>2, <1>3, <2>2 DEF Volume!Request, Volume!MountRequest
  <2>4. r = m
    BY <1>3, <2>3, Typing
  <2> QED
    BY <2>1, <2>4 DEF Volume!Mounted
<1> QED
  BY <1>1, <1>4, <1>5, <1>7, <1>8, <1>9 DEF MountRight, MountTyped, MountKept, MountDeclared, MountFile

(* A secret or config, or nothing.                                         *)
LEMMA OtherMount ==
  ASSUME NEW s \in Volume!Services, NEW t \in Targets,
         generation \in Nat, generation < Generations, Aged, mounted[t] \in Mountable,
         NEW r, r = Volume!Request(s, t), NEW x, x = Volume!Mounted(s, t, r),
         s.declared[t].type = "none", ~Volume!Inherits(s, t)
  PROVE  MountRight(s, t, r, x)
<1>1. s.declared[t] \in Volume!Declarable
  BY DEF Volume!Services
<1>2. Volume!MountOption(s, t) = IF t \in s.files THEN Volume!File ELSE Volume!Nothing
  BY DEF Volume!MountOption
<1>3. ~Volume!UsesBindAPI(s, t, Volume!MountOption(s, t))
  BY DEF Volume!UsesBindAPI
<1>4. r = IF t \in s.files THEN Volume!File ELSE Volume!Nothing
  BY <1>2, <1>3, PlainMounts DEF Volume!Request
<1>5. s.declared[t].source = Volume!NoSource /\ s.declared[t] # Volume!Unnamed
  BY <1>1, DeclarableTyped DEF Volume!Unnamed, Volume!Mount
<1>6. generation + 1 \in Volume!Sources /\ generation + 1 \in Int /\ Volume!HostFile \in Volume!Sources /\ Volume!NoSource \in Volume!Sources
  BY MountsAssumption DEF Volume!Sources, Volume!HostFile, Volume!NoSource
<1>7. Volume!File \in Mountable /\ Volume!Nothing \in Mountable
  BY <1>6 DEF Volume!File, Volume!Nothing, Mountable, Volume!Mount, Types, Asking
<1>8. x = IF t \in s.files THEN Volume!File
          ELSE IF t \in s.image THEN [type |-> "volume", source |-> generation + 1, options |-> {}, readOnly |-> FALSE]
          ELSE Volume!Nothing
  <2>1. Volume!File.type = "bind" /\ Volume!Nothing.type = "none" /\ Volume!Nothing.readOnly = FALSE
    BY DEF Volume!File, Volume!Nothing, Volume!Mount
  <2>2. CASE t \in s.files
    BY <1>4, <2>1, <2>2 DEF Volume!Mounted
  <2>3. CASE t \notin s.files
    BY <1>4, <2>1, <2>3 DEF Volume!Mounted, Volume!Mount
  <2> QED
    BY <2>2, <2>3
<1>9. x \in Mountable
  BY <1>6, <1>7, <1>8 DEF Mountable, Types
<1>12. t \in s.files => x = Volume!File
  BY <1>8
<1>10. x.source \in Int => x.source <= generation + 1
  BY <1>8 DEF Volume!File, Volume!Nothing, Volume!Mount, Volume!HostFile, Volume!NoSource
<1>11. ASSUME Volume!AnonymousAt(mounted, t), t \in s.image PROVE ~s.inherit /\ x.source # mounted[t].source
  <2>1. mounted[t].source \in 1..Generations /\ mounted[t].source <= generation /\ mounted[t].type = "volume"
    BY <1>11, MountsAssumption DEF Volume!AnonymousAt, Aged
  <2>2. ~s.inherit
    BY <1>11, <2>1 DEF Volume!Inherits
  <2> QED
    BY <1>8, <1>11, <2>1, <2>2, MountsAssumption DEF Volume!File, Volume!Mount, Volume!HostFile
<1> QED
  BY <1>4, <1>5, <1>7, <1>9, <1>10, <1>11, <1>12 DEF MountRight, MountTyped, MountKept, MountDeclared, MountFile

LEMMA VolumesInit == Volume!Init => VolumesInv
<1> SUFFICES ASSUME Volume!Init PROVE VolumesInv
  OBVIOUS
<1>1. /\ service.declared = [t \in Targets |-> Volume!Nothing] /\ service \in Volume!Services
      /\ service.image = {} /\ service.files = {}
  <2> DEFINE plain == [t \in Targets |-> Volume!Nothing]
  <2>1. service = [declared |-> plain, image |-> {}, files |-> {}, inherit |-> FALSE]
    BY DEF Volume!Init
  <2>2. plain \in [Targets -> Volume!Declarable]
    BY DEF Volume!Declarable
  <2> HIDE DEF plain
  <2>3. service \in Volume!Services
    BY <2>1, <2>2 DEF Volume!Services
  <2> QED
    BY <2>1, <2>3 DEF plain
<1>2. Volume!Nothing \in Mountable /\ Volume!Nothing.source = Volume!NoSource /\ Volume!Nothing.type = "none"
  BY MountsAssumption DEF Volume!Nothing, Volume!Mount, Mountable, Types, Volume!Sources, Volume!HostFile, Volume!NoSource
<1>3. Volume!TypeOK
  BY <1>1, <1>2, MountsAssumption DEF Volume!Init, Volume!TypeOK, Mountable, Types, Asking
<1>4. Volume!AnonymousKept
  BY <1>1, <1>2 DEF Volume!Init, Volume!AnonymousKept, Volume!AnonymousAt
<1>5. Volume!DeclaredWins /\ Volume!OptionsReachEngine /\ Volume!FilesInPlace
  BY <1>1, <1>2 DEF Volume!DeclaredWins, Volume!OptionsReachEngine, Volume!FilesInPlace
<1>6. Aged
  BY <1>2 DEF Volume!Init, Aged, Volume!NoSource
<1> QED
  BY <1>3, <1>4, <1>5, <1>6 DEF VolumesInv, Volume!VolumesAreRight

LEMMA VolumesNext == ASSUME VolumesInv, [Volume!Next]_(Volume!vars) PROVE VolumesInv'
<1>1. CASE Volume!CreateContainer
  <2>1. /\ service' \in Volume!Services /\ before' = mounted /\ generation' = generation + 1
        /\ generation < Generations
        /\ request' = [t \in Targets |-> Volume!Request(service', t)]
        /\ mounted' = [t \in Targets |-> Volume!Mounted(service', t, request'[t])]
    BY <1>1 DEF Volume!CreateContainer
  <2>2. generation \in Nat /\ Aged /\ mounted \in [Targets -> Mountable]
    BY MountsAssumption DEF VolumesInv, Volume!VolumesAreRight, Volume!TypeOK, Mountable, Types, Asking
  <2>3. PICK s \in Volume!Services : s = service'
    BY <2>1
  <2>4. ASSUME NEW t \in Targets PROVE MountRight(s, t, request'[t], mounted'[t])
    <3>1. request'[t] = Volume!Request(s, t) /\ mounted'[t] = Volume!Mounted(s, t, Volume!Request(s, t))
      BY <2>1, <2>3
    <3>2. mounted[t] \in Mountable
      BY <2>2
    <3> QED
      BY <2>1, <2>2, <3>1, <3>2, DeclaredMount, InheritedMount, OtherMount
  <2>5. request' \in [Targets -> Mountable] /\ mounted' \in [Targets -> Mountable]
    BY <2>1, <2>4 DEF MountRight, MountTyped, MountKept, MountDeclared, MountFile
  <2>6. Volume!TypeOK'
    BY <2>1, <2>2, <2>5, MountsAssumption DEF Volume!TypeOK, Mountable, Types, Asking
  <2>7. Aged'
    BY <2>1, <2>4 DEF Aged, MountRight, MountTyped, MountKept, MountDeclared, MountFile
  <2>8. Volume!AnonymousKept'
    BY <2>1, <2>3, <2>4 DEF Volume!AnonymousKept, Volume!AnonymousWanted, Volume!AnonymousAt, MountRight, MountTyped, MountKept, MountDeclared, MountFile
  <2>9. Volume!DeclaredWins' /\ Volume!OptionsReachEngine'
    BY <2>3, <2>4 DEF Volume!DeclaredWins, Volume!OptionsReachEngine, MountRight, MountTyped, MountKept, MountDeclared, MountFile
  <2>10. Volume!FilesInPlace'
    <3> SUFFICES ASSUME NEW t \in s.files, s.declared[t].type = "none", mounted'[t] # Volume!File
                 PROVE  s.inherit /\ t \in s.image /\ mounted[t].type \notin {"none", "tmpfs"}
      BY <2>1, <2>3 DEF Volume!FilesInPlace
    <3>1. t \in Targets
      BY DEF Volume!Services
    <3>2. Volume!Inherits(s, t)
      BY <2>4, <3>1 DEF MountRight, MountFile
    <3> QED
      BY <3>2 DEF Volume!Inherits, Volume!Unsourced
  <2> QED
    BY <2>6, <2>7, <2>8, <2>9, <2>10 DEF VolumesInv, Volume!VolumesAreRight
<1>2. CASE UNCHANGED Volume!vars
  BY <1>2 DEF Volume!vars, VolumesInv, Volume!VolumesAreRight, Volume!TypeOK, Aged, Volume!AnonymousKept, Volume!AnonymousAt,
              Volume!AnonymousWanted, Volume!DeclaredWins, Volume!OptionsReachEngine, Volume!RequiresMountAPI, Volume!FilesInPlace
<1> QED
  BY <1>1, <1>2 DEF Volume!Next

LEMMA VolumesAlone ==
  ASSUME [MCNext]_allVars
  PROVE  Volume!Next \/ UNCHANGED volumeVars
BY DEF MCNext, allVars

(* Whatever a service declares and however often its container is made     *)
(* again, an anonymous volume keeps its data, a declared volume wins, its  *)
(* options reach the engine, and a secret or config has its file mounted   *)
(* where no volume is declared, but where the image has one and the        *)
(* container before had a mount: buildContainerVolumes.                    *)
THEOREM VolumesAreRightHolds == MCSpec => []VolumesAreRight
<1>1. MCInit => VolumesInv
  BY VolumesInit DEF MCInit
<1>2. VolumesInv /\ [MCNext]_allVars => VolumesInv'
  <2> SUFFICES ASSUME VolumesInv, [MCNext]_allVars PROVE VolumesInv'
    OBVIOUS
  <2>1. Volume!Next \/ UNCHANGED Volume!vars
    BY VolumesAlone DEF volumeVars, Volume!vars
  <2> QED
    BY <2>1, VolumesNext
<1>3. VolumesInv => VolumesAreRight
  BY DEF VolumesAreRight, VolumesInv
<1> QED
  BY <1>1, <1>2, <1>3, PTL DEF MCSpec, allVars

----------------------------------------------------------------------------
(* What publish has checked and prepared, step by step.                    *)
Steps == {"idle", "check", "files", "extends", "others", "push", "1.0", "1.1", "app", "done"}

Given ==
  /\ project.extends \in [Publish!Files -> SUBSET Publish!Files]
  /\ project.env \subseteq Publish!Files
  /\ options.version \in Publish!Versions

Untouched == blobs = {} /\ manifest = {} /\ index = FALSE
Closed    == \A f \in layers \cap Publish!Files : project.extends[f] \subseteq layers
EnvAsked  == "main" \in project.env => options.env

(* All that the file refers to is in the layers.                           *)
Whole ==
  /\ "main" \in layers
  /\ Closed
  /\ "main" \in project.env => "env" \in layers \/ ~project.readable
  /\ options.digests => "digests" \in layers

Pushed == layers \subseteq blobs /\ \E v \in formats : v \in blobs

(* Files the recursion is at: each is extended, what they extend is next.  *)
Levels ==
  /\ layers \subseteq Publish!Files
  /\ \A f \in layers : project.extends[f] \subseteq layers \cup extFiles
  /\ \A f \in extFiles : \E g \in Publish!Files : f \in project.extends[g]

(* Unless files extend each other, the second level is two files away from *)
(* main, and there is no third.                                            *)
Away(f) == /\ f # "main"
           /\ \E g \in Publish!Files \ {f, "main"} : g \in project.extends["main"] /\ f \in project.extends[g]
Depth ==
  ~Publish!EachOther =>
    /\ level <= 3
    /\ publishing = "extends" => \/ level = 1 /\ extFiles = project.extends["main"]
                                 \/ level = 2 /\ \A f \in extFiles : Away(f)

StepRight ==
  /\ publishing = "idle" => project.buildOnly = TRUE
  /\ publishing # "idle" => Given
  /\ publishing # "done" => published = "none"
  /\ publishing \in {"idle", "check", "files"} =>
       Untouched /\ level = 0 /\ layers = {} /\ extFiles = {}
  /\ publishing \notin {"idle", "check", "done"} => EnvAsked
  /\ publishing = "extends" => Untouched /\ "main" \in layers /\ Levels
  /\ publishing = "others" => Untouched /\ "main" \in layers /\ layers \subseteq Publish!Files /\ Closed
  /\ publishing = "push" => Untouched /\ Whole
  /\ publishing \in {"1.0", "1.1"} => manifest = {} /\ index = FALSE /\ Whole /\ layers \subseteq blobs
  /\ publishing = "app" => manifest = layers /\ index = FALSE /\ Whole /\ Pushed /\ options.app
  /\ publishing = "done" =>
       /\ manifest # {} => manifest = layers /\ Whole /\ Pushed
       /\ index => manifest # {}
       /\ published = "nil" => manifest = layers /\ Whole /\ Pushed /\ (options.app => index)
       /\ published = "declined" => Untouched
       /\ published = "panic" => \E f \in project.env : \E g \in Publish!Files : f \in project.extends[g]

PublicationInv ==
  Publish!TypeOK /\ publishing \in Steps /\ StepRight /\ (publishing # "idle" => Depth)

LEMMA PublicationInvImplies == PublicationInv => Publish!PublicationIsRight
<1> SUFFICES ASSUME PublicationInv PROVE Publish!PublicationIsRight
  OBVIOUS
<1> USE DEF PublicationInv, StepRight
<1>1. Publish!ReferencesResolved
  BY DEF Steps, Untouched, Whole, Closed, Publish!ReferencesResolved
<1>2. Publish!ManifestIsComplete
  BY DEF Steps, Untouched, Pushed, Whole, Publish!ManifestIsComplete
<1>3. Publish!PublishIsHonest
  BY DEF Steps, Untouched, Whole, Publish!PublishIsHonest
<1>4. Publish!RecursionEnds
  BY DEF Depth, Publish!RecursionEnds, Publish!FileCount, Publish!TypeOK
<1>5. Publish!PanicsForEnvFiles
  BY DEF Publish!PanicsForEnvFiles
<1> QED
  BY <1>1, <1>2, <1>3, <1>4, <1>5 DEF Publish!PublicationIsRight

LEMMA PublicationInit == Publish!Init => PublicationInv
<1> SUFFICES ASSUME Publish!Init PROVE PublicationInv
  OBVIOUS
<1>1. Publish!TypeOK
  <2>1. 0 \in 0..(Publish!FileCount + 2) /\ FALSE \in BOOLEAN
    BY DEF Publish!FileCount
  <2> QED
    BY <2>1 DEF Publish!Init, Publish!TypeOK
<1>2. Untouched /\ project.buildOnly = TRUE
  BY DEF Publish!Init, Untouched
<1>3. StepRight
  BY <1>2 DEF Publish!Init, StepRight
<1> QED
  BY <1>1, <1>3 DEF Publish!Init, PublicationInv, Steps

LEMMA GiveKeeps == ASSUME PublicationInv, Publish!Give PROVE PublicationInv'
<1>1. /\ publishing = "idle" /\ publishing' = "check" /\ project' \in Publish!Projects /\ options' \in Publish!Options
      /\ UNCHANGED <<extFiles, level, layers, blobs, manifest, index, published>>
  BY DEF Publish!Give
<1>2. Given'
  BY <1>1 DEF Given, Publish!Projects, Publish!Options, Publish!Files
<1>3. Publish!TypeOK'
  BY <1>1 DEF PublicationInv, Publish!TypeOK
<1>4. published = "none" /\ Untouched /\ level = 0 /\ layers = {} /\ extFiles = {}
  BY <1>1 DEF PublicationInv, StepRight
<1>5. StepRight'
  BY <1>1, <1>2, <1>4 DEF StepRight, Untouched
<1>6. Depth'
  BY <1>1, <1>4 DEF Depth
<1> QED
  BY <1>1, <1>3, <1>5, <1>6 DEF PublicationInv, Steps

(* Apart from the recursion no step changes its depth.                     *)
LEMMA DepthKept ==
  ASSUME PublicationInv, publishing # "idle", publishing' # "extends", UNCHANGED <<project, level>>
  PROVE  Depth'
BY DEF PublicationInv, Depth, Publish!EachOther

LEMMA CheckKeeps == ASSUME PublicationInv, Publish!Check PROVE PublicationInv'
<1>1. /\ publishing = "check" /\ UNCHANGED <<Publish!given, extFiles, level, layers, blobs, manifest, index>>
      /\ \/ publishing' = "done" /\ published' \in {"err", "declined"}
         \/ publishing' = "files" /\ published' = published /\ ~(Publish!HasEnv /\ ~options.env)
  BY DEF Publish!Check, Publish!Ends, Publish!Goes
<1>2. Publish!TypeOK' /\ Given'
  BY <1>1 DEF PublicationInv, Publish!TypeOK, StepRight, Given, Publish!given
<1>3. published = "none" /\ Untouched /\ level = 0 /\ layers = {} /\ extFiles = {}
  BY <1>1 DEF PublicationInv, StepRight
<1>4. publishing' = "files" => EnvAsked'
  BY <1>1 DEF EnvAsked, Publish!HasEnv, Publish!given
<1>5. StepRight'
  BY <1>1, <1>2, <1>3, <1>4 DEF StepRight, Untouched
<1> QED
  BY <1>1, <1>2, <1>5, DepthKept DEF PublicationInv, Steps, Publish!given

LEMMA ProcessMainKeeps == ASSUME PublicationInv, Publish!ProcessMain PROVE PublicationInv'
<1>1. /\ publishing = "files" /\ publishing' = "extends" /\ layers' = {"main"} /\ level' = 1
      /\ extFiles' = project.extends["main"]
      /\ UNCHANGED <<Publish!given, blobs, manifest, index, published>>
  BY DEF Publish!ProcessMain, Publish!Goes
<1>2. /\ Given /\ EnvAsked /\ Untouched /\ layers = {} /\ published = "none"
      /\ "main" \in Publish!Files
  BY <1>1 DEF PublicationInv, StepRight, Publish!Files
<1>3. extFiles' \subseteq Publish!Files
  BY <1>1, <1>2 DEF Given
<1>4. Publish!TypeOK' /\ Given' /\ EnvAsked' /\ Untouched'
  BY <1>1, <1>2, <1>3 DEF PublicationInv, Publish!TypeOK, Given, EnvAsked, Untouched, Publish!given, Publish!FileCount
<1>5. Levels'
  BY <1>1, <1>2 DEF Levels, Publish!given
<1>6. StepRight'
  BY <1>1, <1>2, <1>4, <1>5 DEF StepRight
<1>7. Depth'
  BY <1>1 DEF Depth, Publish!given
<1> QED
  BY <1>1, <1>4, <1>6, <1>7 DEF PublicationInv, Steps

(* What comes at the next level.                                           *)
NextFiles == Publish!Remaining(UNION {project.extends[f] : f \in extFiles})

LEMMA NextLevel ==
  ASSUME Given, extFiles \subseteq Publish!Files
  PROVE  /\ NextFiles \subseteq Publish!Files
         /\ \A h \in NextFiles : h \notin extFiles /\ \E f \in extFiles : h \in project.extends[f]
         /\ \A f \in extFiles : project.extends[f] \subseteq NextFiles \cup extFiles
BY DEF Given, NextFiles, Publish!Remaining

LEMMA DepthGoesOn ==
  ASSUME Given, extFiles \subseteq Publish!Files, Depth, publishing = "extends", ~Publish!EachOther, level \in Nat
  PROVE  /\ level <= 2
         /\ level = 1 => \A h \in NextFiles : Away(h)
         /\ level = 2 => NextFiles = {}
<1>1. CASE level = 1
  <2> SUFFICES ASSUME NEW h \in NextFiles PROVE Away(h)
    BY <1>1
  <2>1. extFiles = project.extends["main"]
    BY <1>1 DEF Depth
  <2>2. PICK g \in extFiles : h \in project.extends[g] /\ h \notin extFiles
    BY NextLevel
  <2>3. g \in Publish!Files /\ h \in Publish!Files /\ "main" \in Publish!Files
    BY NextLevel DEF Publish!Files
  <2>4. g # h /\ g # "main"
    BY <2>1, <2>2
  <2>5. h # "main"
    BY <2>1, <2>2, <2>3, <2>4 DEF Publish!EachOther
  <2> QED
    BY <2>1, <2>2, <2>3, <2>4, <2>5 DEF Away
<1>2. CASE level = 2
  <2> SUFFICES ASSUME NEW h \in NextFiles PROVE FALSE
    BY <1>2
  <2>1. \A f \in extFiles : Away(f)
    BY <1>2 DEF Depth
  <2>2. PICK f \in extFiles : h \in project.extends[f] /\ h \notin extFiles
    BY NextLevel
  <2>3. PICK g \in Publish!Files : g # f /\ g # "main" /\ g \in project.extends["main"] /\ f \in project.extends[g]
    BY <2>1, <2>2 DEF Away
  <2>4. f \in Publish!Files /\ h \in Publish!Files /\ "main" \in Publish!Files /\ f # "main" /\ f # h
    BY <2>1, <2>2, NextLevel DEF Publish!Files, Away
  <2>5. h = "main" \/ h = g
    BY <2>3, <2>4 DEF Publish!Files
  <2>6. CASE h = g
    BY <2>2, <2>3, <2>4, <2>6 DEF Publish!EachOther
  <2>7. CASE h = "main"
    BY <2>2, <2>3, <2>4, <2>7 DEF Publish!EachOther
  <2> QED
    BY <2>5, <2>6, <2>7
<1> QED
  BY <1>1, <1>2 DEF Depth

LEMMA ProcessExtendsKeeps == ASSUME PublicationInv, Publish!ProcessExtends PROVE PublicationInv'
<1>1. /\ publishing = "extends" /\ level <= Publish!FileCount + 1
      /\ UNCHANGED <<Publish!given, blobs, manifest, index>>
      /\ \/ extFiles \cap project.env # {} /\ publishing' = "done" /\ published' = "panic"
            /\ UNCHANGED <<extFiles, level, layers>>
         \/ /\ layers' = layers \cup extFiles /\ extFiles' = NextFiles /\ level' = level + 1
            /\ published' = published
            /\ publishing' = IF extFiles' = {} THEN "others" ELSE "extends"
  BY DEF Publish!ProcessExtends, Publish!Ends, Publish!Goes, NextFiles
<1>2. /\ Given /\ EnvAsked /\ Untouched /\ "main" \in layers /\ Levels /\ published = "none"
      /\ extFiles \subseteq Publish!Files /\ level \in 0..(Publish!FileCount + 2) /\ Depth
  BY <1>1 DEF PublicationInv, StepRight, Publish!TypeOK
<1>3. CASE publishing' = "done"
  <2>1. /\ published' = "panic" /\ UNCHANGED <<extFiles, level, layers>>
        /\ \E f \in project.env : f \in extFiles
    BY <1>1, <1>3
  <2>2. \E f \in project.env : \E g \in Publish!Files : f \in project.extends[g]
    BY <1>2, <2>1 DEF Levels
  <2>3. Publish!TypeOK' /\ Given' /\ EnvAsked' /\ Untouched'
    BY <1>1, <1>2, <2>1 DEF PublicationInv, Publish!TypeOK, Given, EnvAsked, Untouched, Publish!given
  <2>4. StepRight'
    BY <1>1, <1>3, <2>1, <2>2, <2>3 DEF StepRight, Untouched, Publish!given
  <2> QED
    BY <1>1, <1>3, <2>1, <2>3, <2>4, DepthKept DEF PublicationInv, Steps, Publish!given
<1>4. CASE publishing' # "done"
  <2>1. /\ layers' = layers \cup extFiles /\ extFiles' = NextFiles /\ level' = level + 1
        /\ published' = "none"
        /\ publishing' = IF extFiles' = {} THEN "others" ELSE "extends"
    BY <1>1, <1>2, <1>4
  <2>2. /\ NextFiles \subseteq Publish!Files
        /\ \A h \in NextFiles : h \notin extFiles /\ \E f \in extFiles : h \in project.extends[f]
        /\ \A f \in extFiles : project.extends[f] \subseteq NextFiles \cup extFiles
    BY <1>2, NextLevel
  <2>3. level' \in 0..(Publish!FileCount + 2)
    BY <1>1, <1>2, <2>1 DEF Publish!FileCount
  <2>4. Publish!TypeOK'
    BY <1>1, <1>2, <2>1, <2>2, <2>3 DEF PublicationInv, Publish!TypeOK, Levels
  <2>5. Given' /\ EnvAsked' /\ Untouched' /\ "main" \in layers'
    BY <1>1, <1>2, <2>1 DEF Given, EnvAsked, Untouched, Publish!given
  <2>6. Levels'
    BY <1>1, <1>2, <2>1, <2>2 DEF Levels, Publish!given
  <2>7. publishing' = "others" => layers' \subseteq Publish!Files /\ Closed'
    BY <1>1, <2>1, <2>6 DEF Levels, Closed, Publish!given
  <2>8. StepRight'
    BY <2>1, <2>5, <2>6, <2>7 DEF StepRight
  <2>9. Depth'
    <3>1. /\ Publish!EachOther' <=> Publish!EachOther
          /\ \A f : Away(f)' <=> Away(f)
      BY <1>1 DEF Publish!EachOther, Away, Publish!given
    <3>2. level \in Nat
      BY <1>2 DEF Publish!FileCount
    <3>3. ~Publish!EachOther => /\ level \in {1, 2}
                                /\ level = 1 => \A h \in NextFiles : Away(h)
                                /\ level = 2 => NextFiles = {}
      BY <1>1, <1>2, <3>2, DepthGoesOn DEF Depth
    <3>4. ~Publish!EachOther => /\ level' \in {2, 3}
                                /\ level' = 2 => \A h \in NextFiles : Away(h)'
                                /\ level' = 3 => NextFiles = {}
      BY <2>1, <3>1, <3>3
    <3>5. ~Publish!EachOther => level' <= 3 /\ (publishing' = "extends" => level' = 2 /\ \A h \in extFiles' : Away(h)')
      BY <2>1, <3>4
    <3> QED
      BY <3>1, <3>5 DEF Depth
  <2> QED
    BY <2>1, <2>4, <2>8, <2>9 DEF PublicationInv, Steps
<1> QED
  BY <1>3, <1>4

LEMMA OthersKeep == ASSUME PublicationInv, Publish!ProcessOthers \/ Publish!DigestsFail PROVE PublicationInv'
<1>1. /\ publishing = "others" /\ UNCHANGED <<Publish!given, extFiles, level, blobs, manifest, index>>
      /\ \/ publishing' = "push" /\ published' = published
            /\ layers' = layers \cup (IF options.env /\ "main" \in project.env /\ project.readable THEN {"env"} ELSE {})
                                \cup (IF options.digests THEN {"digests"} ELSE {})
         \/ publishing' = "done" /\ published' = "err" /\ layers' = layers
  BY DEF Publish!ProcessOthers, Publish!DigestsFail, Publish!Ends, Publish!Goes
<1>2. /\ Given /\ EnvAsked /\ Untouched /\ "main" \in layers /\ layers \subseteq Publish!Files /\ Closed
      /\ published = "none"
  BY <1>1 DEF PublicationInv, StepRight
<1>3. Publish!TypeOK'
  BY <1>1, <1>2 DEF PublicationInv, Publish!TypeOK, Untouched
<1>4. Given' /\ EnvAsked' /\ Untouched'
  BY <1>1, <1>2 DEF Given, EnvAsked, Untouched, Publish!given
<1>5. publishing' = "push" => Whole'
  <2> SUFFICES ASSUME publishing' = "push" PROVE Whole'
    OBVIOUS
  <2>1. "env" \notin Publish!Files /\ "digests" \notin Publish!Files
    BY DEF Publish!Files
  <2>2. layers \subseteq layers' /\ layers' \cap Publish!Files \subseteq layers
    BY <1>1, <2>1
  <2>3. Closed'
    BY <1>1, <1>2, <2>2 DEF Closed, Publish!given
  <2> QED
    BY <1>1, <1>2, <2>2, <2>3 DEF Whole, EnvAsked, Publish!given
<1>6. StepRight'
  BY <1>1, <1>2, <1>4, <1>5 DEF StepRight, Untouched
<1> QED
  BY <1>1, <1>3, <1>6, DepthKept DEF PublicationInv, Steps, Publish!given

LEMMA PushLayersKeeps == ASSUME PublicationInv, Publish!PushLayers PROVE PublicationInv'
<1>1. /\ publishing = "push" /\ UNCHANGED <<Publish!given, extFiles, level, layers, manifest, index>>
      /\ blobs' \subseteq layers
      /\ \/ blobs' = layers /\ publishing' \in {"1.0", "1.1"} /\ published' = published
         \/ publishing' = "done" /\ published' = "err"
  <2>1. /\ publishing = "push" /\ UNCHANGED <<Publish!given, extFiles, level, layers, manifest, index>>
        /\ blobs' \subseteq layers
        /\ \/ blobs' = layers /\ publishing' = (IF options.version = "" THEN "1.1" ELSE options.version) /\ published' = published
           \/ publishing' = "done" /\ published' = "err"
    BY DEF Publish!PushLayers, Publish!Ends, Publish!Goes
  <2>2. options.version \in Publish!Versions
    BY <2>1 DEF PublicationInv, StepRight, Given
  <2> QED
    BY <2>1, <2>2 DEF Publish!Versions
<1>2. Given /\ EnvAsked /\ Untouched /\ Whole /\ published = "none"
  BY <1>1 DEF PublicationInv, StepRight
<1>3. Publish!TypeOK'
  BY <1>1, <1>2 DEF PublicationInv, Publish!TypeOK
<1>4. Given' /\ EnvAsked' /\ Whole' /\ manifest' = {} /\ index' = FALSE
  BY <1>1, <1>2 DEF Given, EnvAsked, Untouched, Whole, Closed, Publish!given
<1>5. StepRight'
  BY <1>1, <1>2, <1>4 DEF StepRight
<1> QED
  BY <1>1, <1>3, <1>5, DepthKept DEF PublicationInv, Steps, Publish!given

LEMMA PushManifestKeeps ==
  ASSUME PublicationInv, NEW v \in Publish!Versions, Publish!PushManifest(v) \/ Publish!ManifestRefused(v)
  PROVE  PublicationInv'
<1>1. /\ publishing = v /\ UNCHANGED <<Publish!given, extFiles, level, layers, index>>
      /\ \/ /\ v \in formats /\ blobs' = blobs \cup {v} /\ manifest' = layers
            /\ \/ publishing' = "app" /\ published' = published /\ options.app
               \/ publishing' = "done" /\ published' = "nil" /\ ~options.app
         \/ /\ blobs' \in {blobs, blobs \cup {v}} /\ manifest' = manifest
            /\ \/ publishing' = "1.0" /\ published' = published
               \/ publishing' = "done" /\ published' = "err"
  BY DEF Publish!PushManifest, Publish!ManifestRefused, Publish!Ends, Publish!Goes
<1>2. v \in {"1.0", "1.1"}
  BY <1>1 DEF PublicationInv, Steps, Publish!Versions
<1>3. /\ Given /\ EnvAsked /\ Whole /\ manifest = {} /\ index = FALSE /\ layers \subseteq blobs
      /\ published = "none"
  BY <1>1, <1>2 DEF PublicationInv, StepRight
<1>4. Given' /\ EnvAsked' /\ Whole' /\ layers' = layers /\ index' = FALSE /\ layers \subseteq blobs'
  BY <1>1, <1>3 DEF Given, EnvAsked, Whole, Closed, Publish!given
<1>5. Publish!TypeOK'
  BY <1>1, <1>3 DEF PublicationInv, Publish!TypeOK
<1>6. manifest' = layers => Pushed' \/ manifest' = {}
  BY <1>1, <1>3, <1>4 DEF Pushed, Publish!given
<1>7. layers # {}
  BY <1>3 DEF Whole
<1>8. StepRight'
  BY <1>1, <1>3, <1>4, <1>6, <1>7 DEF StepRight, Publish!given
<1> QED
  BY <1>1, <1>2, <1>5, <1>8, DepthKept DEF PublicationInv, Steps, Publish!given

LEMMA PushFailsKeeps == ASSUME PublicationInv, Publish!PushFails PROVE PublicationInv'
<1>1. /\ publishing \in {"1.0", "1.1", "app"} /\ publishing' = "done" /\ published' = "err"
      /\ UNCHANGED <<Publish!given, extFiles, level, layers, blobs, manifest, index>>
  BY DEF Publish!PushFails, Publish!Ends, PublicationInv, Steps, Publish!Versions
<1>2. Given /\ EnvAsked /\ index = FALSE /\ (manifest = {} \/ (manifest = layers /\ Whole /\ Pushed))
  BY <1>1 DEF PublicationInv, StepRight
<1>3. /\ Given' /\ EnvAsked' /\ index' = FALSE
      /\ manifest' = {} \/ (manifest' = layers' /\ Whole' /\ Pushed')
  BY <1>1, <1>2 DEF Given, EnvAsked, Whole, Closed, Pushed, Publish!given
<1>4. Publish!TypeOK'
  BY <1>1 DEF PublicationInv, Publish!TypeOK
<1>5. StepRight'
  BY <1>1, <1>3 DEF StepRight
<1> QED
  BY <1>1, <1>4, <1>5, DepthKept DEF PublicationInv, Steps, Publish!given

LEMMA PushIndexKeeps == ASSUME PublicationInv, Publish!PushIndex PROVE PublicationInv'
<1>1. /\ publishing = "app" /\ publishing' = "done" /\ published' = "nil" /\ index' = TRUE
      /\ UNCHANGED <<Publish!given, extFiles, level, layers, blobs, manifest>>
  BY DEF Publish!PushIndex, Publish!Ends
<1>2. Given /\ EnvAsked /\ manifest = layers /\ Whole /\ Pushed
  BY <1>1 DEF PublicationInv, StepRight
<1>3. Given' /\ EnvAsked' /\ manifest' = layers' /\ Whole' /\ Pushed' /\ manifest' # {}
  BY <1>1, <1>2 DEF Given, EnvAsked, Whole, Closed, Pushed, Publish!given
<1>4. Publish!TypeOK'
  BY <1>1 DEF PublicationInv, Publish!TypeOK
<1>5. StepRight'
  BY <1>1, <1>3 DEF StepRight
<1> QED
  BY <1>1, <1>4, <1>5, DepthKept DEF PublicationInv, Steps, Publish!given

LEMMA PublicationStutter == ASSUME PublicationInv, UNCHANGED Publish!vars PROVE PublicationInv'
<1>1. UNCHANGED <<project, options, formats, publishing, extFiles, level, layers, blobs, manifest, index, published>>
  BY DEF Publish!vars
<1>2. Publish!TypeOK' /\ publishing' \in Steps
  BY <1>1 DEF PublicationInv, Publish!TypeOK
<1>3. StepRight'
  BY <1>1 DEF PublicationInv, StepRight, Given, Untouched, EnvAsked, Levels, Closed, Whole, Pushed
<1>4. Depth' <=> Depth
  BY <1>1 DEF Depth, Publish!EachOther, Away
<1> QED
  BY <1>1, <1>2, <1>3, <1>4 DEF PublicationInv

LEMMA PublicationNext == ASSUME PublicationInv, [Publish!Next]_(Publish!vars) PROVE PublicationInv'
BY GiveKeeps, CheckKeeps, ProcessMainKeeps, ProcessExtendsKeeps, OthersKeep, PushLayersKeeps,
   PushManifestKeeps, PushFailsKeeps, PushIndexKeeps, PublicationStutter DEF Publish!Next

LEMMA PublicationAlone ==
  ASSUME [MCNext]_allVars
  PROVE  Publish!Next \/ UNCHANGED publishVars
BY DEF MCNext, allVars

(* Whatever the project, its options and the registry are: what publish    *)
(* reports as published is whole, but for env files that cannot be read,   *)
(* and what is not is not named by a manifest.  Unless two of its files    *)
(* extend each other's services its recursion is shallow (if they do, it   *)
(* does not end): publish.go and push.go.                                  *)
THEOREM PublicationIsRightHolds == MCSpec => []PublicationIsRight
<1>1. MCInit => PublicationInv
  BY PublicationInit DEF MCInit
<1>2. PublicationInv /\ [MCNext]_allVars => PublicationInv'
  <2> SUFFICES ASSUME PublicationInv, [MCNext]_allVars PROVE PublicationInv'
    OBVIOUS
  <2>1. Publish!Next \/ UNCHANGED Publish!vars
    BY PublicationAlone DEF publishVars, Publish!vars
  <2> QED
    BY <2>1, PublicationNext
<1>3. PublicationInv => PublicationIsRight
  BY PublicationInvImplies DEF PublicationIsRight
<1> QED
  BY <1>1, <1>2, <1>3, PTL DEF MCSpec, allVars

----------------------------------------------------------------------------
ImageSteps == {"idle", "inspect", "pull", "build", "label", "done"}
Sources    == {Image!Absent, "local", "foreign", "pulled"} \cup Image!Services

Same      == Image!Name("web") = Image!Name("db")
Label(s)  == IF engine[Image!Name(s)] = Image!Absent THEN "none" ELSE engine[Image!Name(s)]
Creating  == task.of = "create"

(* What the file and the options say, once given.                          *)
FileRight ==
  /\ task \in Image!Tasks
  /\ \A s \in Image!Services : Image!Image(s) \in {"", "x"}
  /\ \A s \in Image!Services : wanted[s].platform =>
       s = "web" /\ Image!Image("web") = "x" /\ Image!Image("db") = "" /\ ~task.volume

ImageTypes ==
  /\ task \in Image!Tasks \cup {Image!None} /\ step \in ImageSteps /\ result \in {"none", "nil", "err"}
  /\ engine \in [Image!ImageNames -> Sources] /\ known \in [Image!ImageNames -> Sources]
  /\ built \subseteq Image!Services /\ pulled \subseteq Image!ImageNames
  /\ (step = "done") = (result # "none")

(* What the command knows is what the engine has: but an image of another  *)
(* platform, which it has forgotten, one that was pulled but not found,    *)
(* and one built twice.                                                    *)
KnownRight ==
  \A n \in Image!ImageNames :
    known[n] = engine[n] \/ (Image!Forgotten(n) /\ known[n] = Image!Absent) \/ Image!Unseen(n)
KnownOrTwice ==
  KnownRight \/ (built = Image!Services /\ Same)

(* A label of what is not known is what the engine has.                    *)
LabelRight ==
  \A s \in Image!Services : known[Image!Name(s)] = Image!Absent =>
    imageLabel[s] = Label(s) \/ Image!Unseen(Image!Name(s))
Builds(n)  == \E b \in Image!Services : wanted[b].build /\ Image!Name(b) = n
Unwanted(s) == wanted[s].policy \in {"never", "build"} /\ ~wanted[s].build

(* After the pulls an image is known, or not wanted, or can be built.      *)
AfterPull == \A s \in Image!Services : known[Image!Name(s)] # Image!Absent \/ Unwanted(s) \/ Builds(Image!Name(s))
HasImage(s) ==
  \/ engine[Image!Name(s)] # Image!Absent
  \/ Unwanted(s)
  \/ \E b \in Image!Services \ Image!Asked : wanted[b].build /\ Image!Name(b) = Image!Name(s)
AfterBuild ==
  ~cancelled => /\ \A s \in Image!Services : HasImage(s)
                /\ \A s \in Image!Asked : wanted[s].build /\ wanted[s].policy = "build" => s \in built

MountedRight == mount = (IF task.volume THEN "x" ELSE "none")
HasImages  == \A s \in Image!Services : Image!Image(s) # "" \/ wanted[s].build

ImageStepRight ==
  /\ step # "idle" => FileRight
  /\ step \in {"idle", "inspect"} => mount = "none"
  /\ step \in {"pull", "build", "label"} /\ Creating => LabelRight /\ MountedRight /\ HasImages
  /\ step \in {"pull", "build"} => KnownRight
  /\ step \in {"build", "label"} => Creating
  /\ step = "build" => cancelled \/ AfterPull
  /\ step = "label" => KnownOrTwice /\ AfterBuild
  /\ step = "done" => Image!ImageForEach /\ Image!LabelIsTrue /\ Image!BuiltWhatWasAsked /\ Image!PullIsHonest

ImagesInv == TargetClash = FALSE /\ ImageTypes /\ ImageStepRight

LEMMA ImagesInvImplies == ImagesInv => Image!ImagesAreRight
<1> SUFFICES ASSUME ImagesInv PROVE Image!ImagesAreRight
  OBVIOUS
<1> USE DEF ImagesInv
<1>1. Image!TypeOK
  BY DEF Image!TypeOK, ImageTypes, ImageSteps, Sources
<1>2. result # "none" => step = "done"
  BY DEF ImageTypes
<1>3. Image!ImageForEach /\ Image!LabelIsTrue /\ Image!BuiltWhatWasAsked /\ Image!PullIsHonest
  <2>1. CASE step = "done"
    BY <2>1 DEF ImageStepRight
  <2>2. CASE result = "none"
    BY <2>2 DEF Image!ImageForEach, Image!LabelIsTrue, Image!BuiltWhatWasAsked, Image!PullIsHonest, Image!Succeeded
  <2> QED
    BY <1>2, <2>1, <2>2
<1> QED
  BY <1>1, <1>3 DEF Image!ImagesAreRight

LEMMA ImagesInit == Image!Init /\ TargetClash = FALSE => ImagesInv
<1> SUFFICES ASSUME Image!Init, TargetClash = FALSE PROVE ImagesInv
  OBVIOUS
<1>1. ImageTypes
  BY DEF Image!Init, ImageTypes, ImageSteps, Sources
<1> QED
  BY <1>1 DEF ImagesInv, ImageStepRight, Image!Init

LEMMA NamesAreImages ==
  ASSUME FileRight, NEW s \in Image!Services
  PROVE  Image!Name(s) \in Image!ImageNames /\ (Image!Name(s) = "x" <=> Image!Image(s) # "")
<1>1. Image!Default["web"] = "p-web" /\ Image!Default["db"] = "p-db"
  BY DEF Image!Default
<1>2. Image!Name(s) \in {"x", Image!Default[s]} /\ (Image!Image(s) = "" => Image!Name(s) = Image!Default[s]) /\ (Image!Image(s) # "" => Image!Name(s) = "x")
  BY DEF FileRight, Image!Name
<1>3. Image!Default[s] \in {"p-web", "p-db"}
  BY <1>1 DEF Image!Services
<1> QED
  BY <1>2, <1>3 DEF Image!ImageNames

LEMMA ImagesGive == ASSUME ImagesInv, Image!Give PROVE ImagesInv'
<1> USE DEF ImagesInv
<1>1. /\ step = "idle" /\ step' = "inspect" /\ task' \in Image!Tasks
      /\ UNCHANGED <<known, imageLabel, mount, built, pulled, cancelled, result>>
  BY DEF Image!Give
<1>2. engine' \in [Image!ImageNames -> Sources]
  BY DEF Image!Give, Sources
<1>3. wanted' \in Image!Projects
  BY DEF Image!Give
<1>4. /\ wanted'["web"].image \in {"", "x"} /\ wanted'["db"].image \in {"", "x"}
      /\ wanted'["db"].platform = FALSE
  BY <1>3 DEF Image!Projects
<1>5. FileRight'
  <2>2. wanted'["web"].platform =>
          wanted'["web"].image = "x" /\ wanted'["db"].image = "" /\ ~task'.volume
    BY DEF Image!Give
  <2> QED
    BY <1>1, <1>4, <2>2 DEF FileRight, Image!Image, Image!Services
<1>6. ImageTypes'
  BY <1>1, <1>2 DEF ImageTypes, ImageSteps
<1>7. mount = "none"
  BY <1>1 DEF ImageStepRight
<1> QED
  BY <1>1, <1>5, <1>6, <1>7 DEF ImageStepRight

LEMMA ErrorEnds ==
  ASSUME result' = "err"
  PROVE  Image!ImageForEach' /\ Image!LabelIsTrue' /\ Image!BuiltWhatWasAsked' /\ Image!PullIsHonest'
BY DEF Image!ImageForEach, Image!LabelIsTrue, Image!BuiltWhatWasAsked, Image!PullIsHonest, Image!Succeeded

LEMMA FileKept == ASSUME FileRight, UNCHANGED Image!given PROVE FileRight'
BY DEF FileRight, Image!given, Image!Image

LEMMA ImagesChecked == ASSUME ImagesInv, Image!CheckImages PROVE ImagesInv'
<1> USE DEF ImagesInv
<1>1. /\ step = "inspect" /\ step' = "done" /\ result' = "err"
      /\ UNCHANGED <<Image!given, engine, known, imageLabel, mount, built, pulled, cancelled>>
  BY DEF Image!CheckImages, Image!Ends
<1>2. ImageTypes'
  BY <1>1 DEF ImageTypes, ImageSteps, Image!given
<1>3. FileRight'
  BY <1>1, FileKept DEF ImageStepRight
<1> QED
  BY <1>1, <1>2, <1>3, ErrorEnds DEF ImageStepRight

LEMMA ImagesInspect == ASSUME ImagesInv, Image!Inspect PROVE ImagesInv'
<1> USE DEF ImagesInv
<1>1. /\ step = "inspect" /\ step' = "pull"
      /\ known' = [n \in Image!ImageNames |-> IF Image!Forgotten(n) THEN Image!Absent ELSE engine[n]]
      /\ imageLabel' = [s \in Image!Services |-> IF engine[Image!Name(s)] = Image!Absent THEN "none" ELSE engine[Image!Name(s)]]
      /\ mount' = IF Creating /\ task.volume THEN "x" ELSE mount
      /\ Creating => HasImages
      /\ UNCHANGED <<Image!given, engine, built, pulled, cancelled, result>>
  BY DEF Image!Inspect, Creating, HasImages
<1>2. ImageTypes'
  BY <1>1 DEF ImageTypes, ImageSteps, Image!given, Sources
<1>3. FileRight' /\ mount = "none" /\ FileRight
  BY <1>1, FileKept DEF ImageStepRight
<1>4. KnownRight'
  <2> SUFFICES ASSUME NEW n \in Image!ImageNames
               PROVE  known'[n] = engine'[n] \/ (Image!Forgotten(n)' /\ known'[n] = Image!Absent) \/ Image!Unseen(n)'
    BY DEF KnownRight
  <2>1. Image!Forgotten(n)' <=> Image!Forgotten(n)
    BY <1>1 DEF Image!Forgotten, Image!given, Image!Name, Image!Image
  <2> QED
    BY <1>1, <2>1
<1>5. LabelRight'
  BY <1>1 DEF LabelRight, Label, Image!given, Image!Name, Image!Image
<1>6. Creating => MountedRight' /\ HasImages'
  BY <1>1, <1>3 DEF MountedRight, HasImages, Image!given, Image!Image, FileRight, Image!Tasks, Creating
<1> QED
  BY <1>1, <1>2, <1>3, <1>4, <1>5, <1>6 DEF ImageStepRight, Creating, Image!given

LEMMA ImagesCancel == ASSUME ImagesInv, Image!Cancel PROVE ImagesInv'
<1> USE DEF ImagesInv
<1>1. /\ step = "pull" /\ cancelled' = TRUE
      /\ UNCHANGED <<Image!given, engine, step, known, imageLabel, mount, built, pulled, result>>
  BY DEF Image!Cancel
<1>2. ImageTypes'
  BY <1>1 DEF ImageTypes, Image!given
<1>3. FileRight'
  BY <1>1, FileKept DEF ImageStepRight
<1>4. KnownRight'
  BY <1>1 DEF ImageStepRight, KnownRight, Image!Unseen, Image!Forgotten, Image!given, Image!Name, Image!Image
<1>5. Creating => LabelRight' /\ MountedRight' /\ HasImages'
  BY <1>1 DEF ImageStepRight, LabelRight, Image!Unseen, Label, MountedRight, HasImages, Image!given, Image!Name, Image!Image
<1> QED
  BY <1>1, <1>2, <1>3, <1>4, <1>5 DEF ImageStepRight, Creating, Image!given

(* Images that are put into the engine are known, too, if they are found.  *)
LEMMA Putting ==
  ASSUME KnownRight, FileRight, NEW F \in SUBSET Image!ImageNames, NEW L, F \subseteq L, UNCHANGED Image!given,
         engine \in [Image!ImageNames -> Sources], known \in [Image!ImageNames -> Sources],
         engine' = Image!Put(engine, L), known' = Image!Put(known, F), pulled' = F
  PROVE  /\ engine' \in [Image!ImageNames -> Sources] /\ known' \in [Image!ImageNames -> Sources]
         /\ KnownRight'
         /\ \A n \in Image!ImageNames : known'[n] = Image!Absent =>
              /\ n \notin F /\ known[n] = Image!Absent
              /\ engine'[n] = engine[n] \/ Image!Unseen(n)'
              /\ Image!Unseen(n) => Image!Unseen(n)'
         /\ \A n \in F : known'[n] # Image!Absent
<1>1. \A n \in Image!ImageNames : /\ engine'[n] = IF n \in L THEN "pulled" ELSE engine[n]
                                  /\ known'[n] = IF n \in F THEN "pulled" ELSE known[n]
  BY DEF Image!Put
<1>2. engine' \in [Image!ImageNames -> Sources] /\ known' \in [Image!ImageNames -> Sources]
  BY DEF Image!Put, Sources
<1>3. KnownRight'
  <2> SUFFICES ASSUME NEW n \in Image!ImageNames
               PROVE  known'[n] = engine'[n] \/ (Image!Forgotten(n)' /\ known'[n] = Image!Absent) \/ Image!Unseen(n)'
    BY DEF KnownRight
  <2>1. CASE n \in L
    BY <1>1, <2>1 DEF Image!Unseen
  <2>2. CASE n \notin L
    <3>1. Image!Forgotten(n)' <=> Image!Forgotten(n)
      BY <1>1, <2>2 DEF Image!Forgotten, Image!given, Image!Name, Image!Image
    <3>2. Image!Unseen(n) => Image!Unseen(n)'
      BY <1>1, <2>2 DEF Image!Unseen
    <3> QED
      BY <1>1, <2>2, <3>1, <3>2 DEF KnownRight
  <2> QED
    BY <2>1, <2>2
<1>4. ASSUME NEW n \in Image!ImageNames, known'[n] = Image!Absent
      PROVE  /\ n \notin F /\ known[n] = Image!Absent
             /\ engine'[n] = engine[n] \/ Image!Unseen(n)'
             /\ Image!Unseen(n) => Image!Unseen(n)'
  <2>1. n \notin F /\ known[n] = Image!Absent
    BY <1>1, <1>4 DEF Image!Absent
  <2> QED
    BY <1>1, <2>1 DEF Image!Unseen
<1> QED
  BY <1>1, <1>2, <1>3, <1>4 DEF Image!Absent

LEMMA FetchedAreImages ==
  ASSUME FileRight, NEW P, P \subseteq Image!Services \cup {"volume"}, NEW o \in Image!Outcomes(P)
  PROVE  /\ Image!Fetched(o) \in SUBSET Image!ImageNames
         /\ DOMAIN o = P
         /\ \A p \in P : o[p] = "ok" => Image!NameOf(p) \in Image!Fetched(o)
         /\ \A p \in P : Image!Fails(o, p) \/ o[p] \in {"ok", "interrupted"}
         /\ Image!Landed(o) \in SUBSET Image!ImageNames /\ Image!Fetched(o) \subseteq Image!Landed(o)
<1>1. o \in [P -> {"ok", "unseen", "failed", "interrupted"}]
  BY DEF Image!Outcomes
<1>2. \A p \in P : Image!NameOf(p) \in Image!ImageNames
  BY NamesAreImages DEF Image!NameOf, Image!ImageNames
<1> QED
  BY <1>1, <1>2 DEF Image!Fetched, Image!Landed, Image!Fails

LEMMA ImagesPullRequired == ASSUME ImagesInv, Image!PullRequired PROVE ImagesInv'
<1> USE DEF ImagesInv
<1>1. /\ step = "pull" /\ Creating /\ UNCHANGED <<Image!given, imageLabel, mount, built, cancelled>>
  BY DEF Image!PullRequired, Creating
<1>2. PICK due \in BOOLEAN : \E o \in Image!Outcomes(Image!Needed(due)) :
         LET fatal == \E p \in DOMAIN o : Image!Fails(o, p) /\ ~Image!CanBeBuilt(p)
         IN  /\ Image!Interrupts(o, fatal)
             /\ engine' = Image!Put(engine, Image!Landed(o))
             /\ known' = Image!Put(known, Image!Fetched(o))
             /\ pulled' = Image!Fetched(o)
             /\ IF fatal THEN Image!Ends("err") ELSE step' = "build" /\ UNCHANGED result
  BY DEF Image!PullRequired
<1>3. PICK o \in Image!Outcomes(Image!Needed(due)) :
         LET fatal == \E p \in DOMAIN o : Image!Fails(o, p) /\ ~Image!CanBeBuilt(p)
         IN  /\ Image!Interrupts(o, fatal)
             /\ engine' = Image!Put(engine, Image!Landed(o))
             /\ known' = Image!Put(known, Image!Fetched(o))
             /\ pulled' = Image!Fetched(o)
             /\ IF fatal THEN Image!Ends("err") ELSE step' = "build" /\ UNCHANGED result
  BY <1>2
<1>4. /\ engine' = Image!Put(engine, Image!Landed(o)) /\ known' = Image!Put(known, Image!Fetched(o)) /\ pulled' = Image!Fetched(o)
      /\ \/ step' = "done" /\ result' = "err"
         \/ /\ step' = "build" /\ result' = result
            /\ \A p \in DOMAIN o : Image!Fails(o, p) => Image!CanBeBuilt(p)
            /\ \A p \in DOMAIN o : o[p] = "interrupted" => cancelled
  BY <1>3 DEF Image!Ends, Image!Interrupts
<1>5. FileRight /\ FileRight' /\ KnownRight /\ LabelRight /\ MountedRight /\ HasImages
  BY <1>1, FileKept DEF ImageStepRight
<1>6. Image!Needed(due) \subseteq Image!Services \cup {"volume"}
  BY DEF Image!Needed
<1>7. /\ Image!Fetched(o) \in SUBSET Image!ImageNames /\ DOMAIN o = Image!Needed(due)
      /\ \A p \in Image!Needed(due) : o[p] = "ok" => Image!NameOf(p) \in Image!Fetched(o)
      /\ \A p \in Image!Needed(due) : Image!Fails(o, p) \/ o[p] \in {"ok", "interrupted"}
  BY <1>5, <1>6, FetchedAreImages
<1>12. Image!Fetched(o) \subseteq Image!Landed(o)
  BY <1>5, <1>6, FetchedAreImages
<1>8. /\ engine' \in [Image!ImageNames -> Sources] /\ known' \in [Image!ImageNames -> Sources]
      /\ KnownRight'
      /\ \A n \in Image!ImageNames : known'[n] = Image!Absent =>
           /\ n \notin Image!Fetched(o) /\ known[n] = Image!Absent
           /\ engine'[n] = engine[n] \/ Image!Unseen(n)'
           /\ Image!Unseen(n) => Image!Unseen(n)'
      /\ \A n \in Image!Fetched(o) : known'[n] # Image!Absent
  BY <1>1, <1>4, <1>5, <1>7, <1>12, Putting DEF ImageTypes
<1>9. ImageTypes'
  BY <1>1, <1>4, <1>7, <1>8 DEF ImageTypes, ImageSteps, Image!given
<1>10. LabelRight' /\ MountedRight' /\ HasImages'
  <2>1. LabelRight'
    <3> SUFFICES ASSUME NEW s \in Image!Services, known'[Image!Name(s)] = Image!Absent, ~Image!Unseen(Image!Name(s))'
                 PROVE  imageLabel'[s] = Label(s)'
      BY <1>1 DEF LabelRight, Image!given, Image!Name, Image!Image
    <3>1. Image!Name(s) \in Image!ImageNames
      BY <1>5, NamesAreImages
    <3>3. Image!Name(s)' = Image!Name(s)
      BY <1>1 DEF Image!given, Image!Name, Image!Image
    <3>4. ~Image!Unseen(Image!Name(s))'
      OBVIOUS
    <3>5. known'[Image!Name(s)] = Image!Absent /\ (Image!Unseen(Image!Name(s)) => Image!Unseen(Image!Name(s))')
      BY <1>8, <3>1, <3>3 DEF Image!Unseen
    <3>2. /\ known[Image!Name(s)] = Image!Absent /\ engine'[Image!Name(s)] = engine[Image!Name(s)]
          /\ ~Image!Unseen(Image!Name(s))
      BY <1>8, <3>1, <3>3, <3>4, <3>5 DEF Image!Unseen
    <3> QED
      BY <1>1, <1>5, <3>2 DEF LabelRight, Label, Image!given, Image!Name, Image!Image
  <2> QED
    BY <1>1, <1>5, <2>1 DEF MountedRight, HasImages, Image!given, Image!Image
<1>11. step' = "build" => cancelled' \/ AfterPull'
  <2> SUFFICES ASSUME step' = "build", ~cancelled, NEW s \in Image!Services, known'[Image!Name(s)] = Image!Absent, ~Unwanted(s)
               PROVE  Builds(Image!Name(s))
    BY <1>1 DEF AfterPull, Unwanted, Builds, Image!given, Image!Name, Image!Image
  <2>1. Image!Name(s) \in Image!ImageNames /\ (Image!Name(s) = "x" <=> Image!Image(s) # "")
    BY <1>5, NamesAreImages
  <2>2. known[Image!Name(s)] = Image!Absent /\ Image!Name(s) \notin Image!Fetched(o)
    BY <1>8, <2>1
  <2>3. CASE wanted[s].build
    BY <2>3 DEF Builds
  <2>4. CASE ~wanted[s].build
    <3>1. Image!Image(s) # "" /\ wanted[s].policy \notin {"never", "build"}
      BY <1>5, <2>4 DEF HasImages, Unwanted
    <3>2. Image!MustPull(s, due)
      BY <2>2, <3>1 DEF Image!MustPull
    <3>3. s \in Image!Needed(due) /\ Image!NameOf(s) = Image!Name(s)
      BY <3>2 DEF Image!Needed, Image!NameOf, Image!Services
    <3>4. Image!Fails(o, s)
      BY <1>4, <1>7, <2>2, <3>3
    <3>5. Image!CanBeBuilt(s)
      BY <1>4, <1>7, <3>3, <3>4
    <3>6. PICK b \in Image!Services : wanted[b].build /\ Image!Image(b) = Image!NameOf(s)
      BY <2>4, <3>5 DEF Image!CanBeBuilt
    <3>7. Image!Name(b) = Image!Name(s)
      <4>1. Image!Name(s) = "x"
        BY <2>1, <3>1
      <4> QED
        BY <3>3, <3>6, <4>1 DEF Image!Name
    <3> QED
      BY <3>6, <3>7 DEF Builds
  <2> QED
    BY <2>3, <2>4
<1> QED
  BY <1>1, <1>4, <1>5, <1>8, <1>9, <1>10, <1>11, ErrorEnds DEF ImageStepRight, Creating, Image!given

LEMMA ImagesPull == ASSUME ImagesInv, Image!Pull PROVE ImagesInv'
<1> USE DEF ImagesInv
<1>1. /\ step = "pull" /\ task.of = "pull" /\ step' = "done"
      /\ UNCHANGED <<Image!given, known, imageLabel, mount, built, cancelled>>
  BY DEF Image!Pull, Image!Ends
<1>2. PICK P \in Image!Pullers : \E o \in Image!Outcomes(P) :
         LET fatal == ~task.ignoreFailures /\ \E p \in P : Image!Fails(o, p) /\ ~wanted[p].build
         IN  /\ Image!Interrupts(o, fatal)
             /\ engine' = Image!Put(engine, Image!Landed(o))
             /\ pulled' = Image!Fetched(o)
             /\ Image!Ends(Image!PullResult(o, fatal))
  BY DEF Image!Pull
<1>3. PICK o \in Image!Outcomes(P) :
         LET fatal == ~task.ignoreFailures /\ \E p \in P : Image!Fails(o, p) /\ ~wanted[p].build
         IN  /\ Image!Interrupts(o, fatal)
             /\ engine' = Image!Put(engine, Image!Landed(o))
             /\ pulled' = Image!Fetched(o)
             /\ Image!Ends(Image!PullResult(o, fatal))
  BY <1>2
<1>4. /\ engine' = Image!Put(engine, Image!Landed(o)) /\ pulled' = Image!Fetched(o) /\ result' \in {"err", "nil"}
      /\ result' = "nil" /\ ~task.ignoreFailures =>
           /\ \A p \in DOMAIN o : ~Image!Fails(o, p)
           /\ \A p \in DOMAIN o : o[p] = "interrupted" => cancelled
  <2> DEFINE fatal == ~task.ignoreFailures /\ \E p \in P : Image!Fails(o, p) /\ ~wanted[p].build
  <2>1. /\ Image!Interrupts(o, fatal) /\ engine' = Image!Put(engine, Image!Landed(o)) /\ pulled' = Image!Fetched(o)
        /\ result' = Image!PullResult(o, fatal)
    BY <1>3 DEF Image!Ends
  <2> HIDE DEF fatal
  <2> QED
    BY <2>1 DEF Image!Interrupts, Image!PullResult
<1>5. FileRight /\ FileRight'
  BY <1>1, FileKept DEF ImageStepRight
<1>6. P \subseteq Image!Services /\ \A s \in Image!Services : Image!Skipped(s) \/ \E p \in P : Image!Name(p) = Image!Name(s)
  BY DEF Image!Pullers
<1>7. /\ Image!Fetched(o) \in SUBSET Image!ImageNames /\ DOMAIN o = P
      /\ \A p \in P : o[p] = "ok" => Image!NameOf(p) \in Image!Fetched(o)
      /\ \A p \in P : Image!Fails(o, p) \/ o[p] \in {"ok", "interrupted"}
  <2>1. P \subseteq Image!Services \cup {"volume"}
    BY <1>6
  <2> QED
    BY <1>5, <2>1, FetchedAreImages
<1>11. Image!Landed(o) \in SUBSET Image!ImageNames
  BY <1>5, <1>6, FetchedAreImages
<1>8. ImageTypes'
  BY <1>1, <1>4, <1>7, <1>11 DEF ImageTypes, ImageSteps, Image!given, Image!Put, Sources
<1>9. Image!PullIsHonest'
  <2> SUFFICES ASSUME result' = "nil", ~cancelled, ~task.ignoreFailures, NEW s \in Image!Services, ~Image!Skipped(s)
               PROVE  Image!Name(s) \in pulled'
    BY <1>1 DEF Image!PullIsHonest, Image!Succeeded, Image!Skipped, Image!given, Image!Name, Image!Image
  <2>1. PICK p \in P : Image!Name(p) = Image!Name(s)
    BY <1>6
  <2>2. o[p] = "ok"
    BY <1>4, <1>7
  <2>3. Image!NameOf(p) = Image!Name(p)
    BY <1>6 DEF Image!NameOf, Image!Services
  <2> QED
    BY <1>4, <1>7, <2>1, <2>2, <2>3
<1>10. Image!ImageForEach' /\ Image!LabelIsTrue' /\ Image!BuiltWhatWasAsked'
  BY <1>1 DEF Image!ImageForEach, Image!LabelIsTrue, Image!BuiltWhatWasAsked, Image!Succeeded, Image!given
<1> QED
  BY <1>1, <1>5, <1>8, <1>9, <1>10 DEF ImageStepRight

(* What a build leaves: each name is that of a service built under it.     *)
LEMMA Tagging ==
  ASSUME FileRight, NEW B \in SUBSET Image!Services, NEW t \in Image!Tags(B), NEW f \in [Image!ImageNames -> Sources]
  PROVE  /\ Image!Tagged(f, t) \in [Image!ImageNames -> Sources]
         /\ \A n \in Image!ImageNames : \/ Image!Tagged(f, t)[n] \in B /\ Image!Name(Image!Tagged(f, t)[n]) = n
                                        \/ Image!Tagged(f, t)[n] = f[n] /\ \A s \in B : Image!Name(s) # n
<1>1. t \in [{Image!Name(s) : s \in B} -> B] /\ \A n \in DOMAIN t : Image!Name(t[n]) = n
  BY DEF Image!Tags
<1>2. \A n \in Image!ImageNames : Image!Tagged(f, t)[n] = IF n \in {Image!Name(s) : s \in B} THEN t[n] ELSE f[n]
  BY <1>1 DEF Image!Tagged
<1>3. Image!Tagged(f, t) \in [Image!ImageNames -> Sources]
  BY <1>1 DEF Image!Tagged, Sources
<1> QED
  BY <1>1, <1>2, <1>3

LEMMA ImagesBuild == ASSUME ImagesInv, Image!Build PROVE ImagesInv'
<1> USE DEF ImagesInv
<1>1. /\ step = "build" /\ step' = "label" /\ ~cancelled
      /\ UNCHANGED <<Image!given, imageLabel, mount, pulled, cancelled, result>>
  BY DEF Image!Build
<1>2. PICK tgt \in Image!BakeTargets :
       /\ built' = {tgt[s] : s \in Image!ToBuild}
       /\ \E tg \in Image!Tags(built'), fd \in Image!Tags(Image!ToBuild) :
            /\ engine' = Image!Tagged(engine, tg)
            /\ known' = Image!Tagged(known, [n \in DOMAIN fd |-> tgt[fd[n]]])
  BY DEF Image!Build
<1>3. Image!ToBuild \in SUBSET Image!Services
  BY DEF Image!ToBuild, Image!Asked, Image!Services
<1>4. tgt = [s \in Image!ToBuild |-> s]
  BY DEF Image!BakeTargets
<1>5. built' = Image!ToBuild
  BY <1>2, <1>4
<1>6. PICK tg \in Image!Tags(Image!ToBuild), fd \in Image!Tags(Image!ToBuild) :
        engine' = Image!Tagged(engine, tg) /\ known' = Image!Tagged(known, fd)
  <2>1. PICK tg \in Image!Tags(Image!ToBuild), fd \in Image!Tags(Image!ToBuild) :
          engine' = Image!Tagged(engine, tg) /\ known' = Image!Tagged(known, [n \in DOMAIN fd |-> tgt[fd[n]]])
    BY <1>2, <1>5
  <2>2. fd \in [{Image!Name(s) : s \in Image!ToBuild} -> Image!ToBuild]
    BY DEF Image!Tags
  <2>3. [n \in DOMAIN fd |-> tgt[fd[n]]] = fd
    BY <1>4, <2>2
  <2> QED
    BY <2>1, <2>3
<1>7. FileRight /\ FileRight' /\ KnownRight /\ AfterPull /\ LabelRight /\ MountedRight /\ HasImages /\ Creating
  BY <1>1, FileKept DEF ImageStepRight
<1>8. /\ engine' \in [Image!ImageNames -> Sources] /\ known' \in [Image!ImageNames -> Sources]
      /\ \A n \in Image!ImageNames : \/ engine'[n] \in Image!ToBuild /\ Image!Name(engine'[n]) = n
                                     \/ engine'[n] = engine[n] /\ \A s \in Image!ToBuild : Image!Name(s) # n
      /\ \A n \in Image!ImageNames : \/ known'[n] \in Image!ToBuild /\ Image!Name(known'[n]) = n
                                     \/ known'[n] = known[n] /\ \A s \in Image!ToBuild : Image!Name(s) # n
  BY <1>3, <1>6, <1>7, Tagging DEF ImageTypes
<1>9. ImageTypes'
  BY <1>1, <1>3, <1>5, <1>8 DEF ImageTypes, ImageSteps, Image!given
<1>10. KnownOrTwice'
  <2> SUFFICES ASSUME ~(Image!ToBuild = Image!Services /\ Same), NEW n \in Image!ImageNames
               PROVE  known'[n] = engine'[n] \/ (Image!Forgotten(n)' /\ known'[n] = Image!Absent) \/ Image!Unseen(n)'
    BY <1>1, <1>5 DEF KnownOrTwice, KnownRight, Same, Image!given, Image!Name, Image!Image
  <2>1. CASE \E s \in Image!ToBuild : Image!Name(s) = n
    <3>1. known'[n] \in Image!ToBuild /\ Image!Name(known'[n]) = n /\ engine'[n] \in Image!ToBuild /\ Image!Name(engine'[n]) = n
      BY <1>8, <2>1
    <3>2. \A s, r \in Image!ToBuild : Image!Name(s) = Image!Name(r) => s = r
      BY <1>3 DEF Same, Image!Services
    <3> QED
      BY <3>1, <3>2
  <2>2. CASE \A s \in Image!ToBuild : Image!Name(s) # n
    <3>1. known'[n] = known[n] /\ engine'[n] = engine[n]
      BY <1>8, <2>2
    <3>2. Image!Forgotten(n)' <=> Image!Forgotten(n)
      BY <1>1, <3>1 DEF Image!Forgotten, Image!given, Image!Name, Image!Image
    <3> QED
      BY <1>1, <1>7, <3>1, <3>2 DEF KnownRight, Image!Unseen
  <2> QED
    BY <2>1, <2>2
<1>11. LabelRight' /\ MountedRight' /\ HasImages'
  <2>1. LabelRight'
    <3> SUFFICES ASSUME NEW s \in Image!Services, known'[Image!Name(s)] = Image!Absent, ~Image!Unseen(Image!Name(s))'
                 PROVE  imageLabel'[s] = Label(s)'
      BY <1>1 DEF LabelRight, Image!given, Image!Name, Image!Image
    <3>1. Image!Name(s) \in Image!ImageNames
      BY <1>7, NamesAreImages
    <3>2. Image!Absent \notin Image!ToBuild
      BY <1>3 DEF Image!Absent, Image!Services
    <3>3. known[Image!Name(s)] = Image!Absent /\ engine'[Image!Name(s)] = engine[Image!Name(s)]
      BY <1>8, <3>1, <3>2
    <3>4. ~Image!Unseen(Image!Name(s))
      BY <1>1, <3>3 DEF Image!Unseen, Image!given, Image!Name, Image!Image
    <3> QED
      BY <1>1, <1>7, <3>3, <3>4 DEF LabelRight, Label, Image!given, Image!Name, Image!Image
  <2> QED
    BY <1>1, <1>7, <2>1 DEF MountedRight, HasImages, Image!given, Image!Image
<1>12. AfterBuild'
  <2>1. \A s \in Image!Asked : wanted[s].build /\ wanted[s].policy = "build" => s \in Image!ToBuild
    BY DEF Image!ToBuild
  <2>2. ASSUME NEW s \in Image!Services PROVE HasImage(s)'
    <3> SUFFICES ASSUME ~Unwanted(s), ~\E b \in Image!Services \ Image!Asked : wanted[b].build /\ Image!Name(b) = Image!Name(s)
                 PROVE  engine'[Image!Name(s)] # Image!Absent
      BY <1>1 DEF HasImage, Unwanted, Image!given, Image!Asked, Image!Name, Image!Image
    <3>1. Image!Name(s) \in Image!ImageNames
      BY <1>7, NamesAreImages
    <3>2. Image!Absent \notin Image!ToBuild
      BY <1>3 DEF Image!Absent, Image!Services
    <3>3. CASE known[Image!Name(s)] # Image!Absent
      <4>1. engine[Image!Name(s)] # Image!Absent
        BY <1>7, <3>1, <3>3 DEF KnownRight, Image!Unseen, Image!Absent
      <4> QED
        BY <1>8, <3>1, <3>2, <4>1
    <3>4. CASE known[Image!Name(s)] = Image!Absent
      <4>1. PICK b \in Image!Services : wanted[b].build /\ Image!Name(b) = Image!Name(s)
        BY <1>7, <3>4 DEF AfterPull, Builds
      <4>2. b \in Image!ToBuild
        BY <3>4, <4>1 DEF Image!ToBuild
      <4> QED
        BY <1>8, <3>1, <3>2, <4>1, <4>2
    <3> QED
      BY <3>3, <3>4
  <2> QED
    BY <1>1, <1>5, <2>1, <2>2 DEF AfterBuild, Image!given, Image!Asked
<1> QED
  BY <1>1, <1>7, <1>9, <1>10, <1>11, <1>12 DEF ImageStepRight, Creating, Image!given

LEMMA ImagesBuildFails == ASSUME ImagesInv, Image!BuildFails PROVE ImagesInv'
<1> USE DEF ImagesInv
<1>1. /\ step = "build" /\ step' = "done" /\ result' = "err" /\ built' \in SUBSET Image!ToBuild
      /\ UNCHANGED <<Image!given, known, imageLabel, mount, pulled, cancelled>>
  BY DEF Image!BuildFails, Image!Ends
<1>2. FileRight /\ FileRight'
  BY <1>1, FileKept DEF ImageStepRight
<1>3. built' \in SUBSET Image!Services
  BY <1>1 DEF Image!ToBuild, Image!Asked, Image!Services
<1>4. engine' \in [Image!ImageNames -> Sources]
  BY <1>2, <1>3, Tagging DEF Image!BuildFails, ImageTypes
<1>5. ImageTypes'
  BY <1>1, <1>3, <1>4 DEF ImageTypes, ImageSteps, Image!given
<1> QED
  BY <1>1, <1>2, <1>5, ErrorEnds DEF ImageStepRight

LEMMA ImagesNothing == ASSUME ImagesInv, Image!NothingToBuild PROVE ImagesInv'
<1> USE DEF ImagesInv
<1>1. /\ step = "build" /\ cancelled /\ step' = "label"
      /\ UNCHANGED <<Image!given, engine, known, imageLabel, mount, built, pulled, cancelled, result>>
  BY DEF Image!NothingToBuild
<1>2. FileRight' /\ KnownRight /\ LabelRight /\ MountedRight /\ HasImages /\ Creating
  BY <1>1, FileKept DEF ImageStepRight
<1>3. ImageTypes'
  BY <1>1 DEF ImageTypes, ImageSteps, Image!given
<1>4. KnownOrTwice' /\ LabelRight' /\ MountedRight' /\ HasImages' /\ Creating'
  BY <1>1, <1>2 DEF KnownOrTwice, KnownRight, Image!Unseen, Image!Forgotten, LabelRight, Label, MountedRight, HasImages, Creating,
     Image!given, Image!Name, Image!Image
<1> QED
  BY <1>1, <1>2, <1>3, <1>4 DEF ImageStepRight, AfterBuild

LEMMA ImagesLabel == ASSUME ImagesInv, Image!SetLabels PROVE ImagesInv'
<1> USE DEF ImagesInv
<1>1. /\ step = "label" /\ step' = "done" /\ result' = "nil"
      /\ imageLabel' = [s \in Image!Services |-> IF known[Image!Name(s)] = Image!Absent THEN imageLabel[s] ELSE known[Image!Name(s)]]
      /\ mount' = IF mount = "x" /\ known["x"] # Image!Absent THEN known["x"] ELSE mount
      /\ UNCHANGED <<Image!given, engine, known, built, pulled, cancelled>>
  BY DEF Image!SetLabels, Image!Ends
<1>2. FileRight /\ FileRight' /\ KnownOrTwice /\ LabelRight /\ MountedRight /\ AfterBuild /\ Creating
  BY <1>1, FileKept DEF ImageStepRight
<1>3. ImageTypes'
  BY <1>1 DEF ImageTypes, ImageSteps, Image!given
<1>4. Image!ImageForEach'
  BY <1>1, <1>2 DEF Image!ImageForEach, Image!Succeeded, AfterBuild, HasImage, Unwanted, Image!given, Image!Asked, Image!Name, Image!Image
<1>5. Image!BuiltWhatWasAsked'
  BY <1>1, <1>2 DEF Image!BuiltWhatWasAsked, Image!Succeeded, AfterBuild, Image!given, Image!Asked
<1>6. Image!LabelIsTrue'
  <2> SUFFICES ASSUME KnownRight
               PROVE  /\ \A s \in Image!Services : imageLabel'[s] = Label(s) \/ Image!Unseen(Image!Name(s))
                      /\ mount' # "none" => \/ mount' = (IF engine["x"] = Image!Absent THEN "x" ELSE engine["x"])
                                            \/ Image!Unseen("x")
    BY <1>1, <1>2 DEF Image!LabelIsTrue, KnownOrTwice, Same, Label, Image!Unseen, Image!BuiltTwice, Image!given, Image!Name, Image!Image
  <2>1. ASSUME NEW s \in Image!Services PROVE imageLabel'[s] = Label(s) \/ Image!Unseen(Image!Name(s))
    <3>1. Image!Name(s) \in Image!ImageNames
      BY <1>2, NamesAreImages
    <3> QED
      BY <1>1, <1>2, <3>1 DEF KnownRight, LabelRight, Label
  <2>2. ASSUME task.volume, ~Image!Unseen("x") PROVE mount' = (IF engine["x"] = Image!Absent THEN "x" ELSE engine["x"])
    <3>1. ~Image!Forgotten("x")
      BY <1>2, <2>2 DEF FileRight, Image!Forgotten
    <3>2. known["x"] = engine["x"] /\ mount = "x"
      BY <1>2, <2>2, <3>1 DEF KnownRight, Image!ImageNames, MountedRight
    <3> QED
      BY <1>1, <3>2
  <2>3. ~task.volume => mount' = "none"
    BY <1>1, <1>2 DEF MountedRight
  <2> QED
    BY <2>1, <2>2, <2>3
<1>7. Image!PullIsHonest'
  BY <1>1, <1>2 DEF Image!PullIsHonest, Image!Succeeded, Creating, Image!given
<1> QED
  BY <1>1, <1>2, <1>3, <1>4, <1>5, <1>6, <1>7 DEF ImageStepRight

LEMMA ImagesNext == ImagesInv /\ [Image!Next]_(Image!vars) => ImagesInv'
<1> SUFFICES ASSUME ImagesInv, [Image!Next]_(Image!vars) PROVE ImagesInv'
  OBVIOUS
<1>1. CASE UNCHANGED Image!vars
  <2>1. ImageTypes' /\ (FileRight => FileRight')
    BY <1>1, FileKept DEF Image!vars, Image!given, ImagesInv, ImageTypes
  <2>2. /\ KnownRight' <=> KnownRight
        /\ KnownOrTwice' <=> KnownOrTwice
    BY <1>1 DEF Image!vars, KnownRight, Image!Unseen, KnownOrTwice, Image!Forgotten, Same, Image!Name, Image!Image
  <2>3. /\ LabelRight' <=> LabelRight
        /\ MountedRight' <=> MountedRight
        /\ HasImages' <=> HasImages
        /\ Creating' <=> Creating
    BY <1>1 DEF Image!vars, LabelRight, Image!Unseen, MountedRight, HasImages, Creating, Label, Image!Name, Image!Image
  <2>4. /\ AfterPull' <=> AfterPull
        /\ AfterBuild' <=> AfterBuild
    BY <1>1 DEF Image!vars, AfterPull, AfterBuild, HasImage, Builds, Unwanted, Image!Asked, Image!Name, Image!Image
  <2>5. /\ Image!ImageForEach' <=> Image!ImageForEach
        /\ Image!LabelIsTrue' <=> Image!LabelIsTrue
        /\ Image!BuiltWhatWasAsked' <=> Image!BuiltWhatWasAsked
        /\ Image!PullIsHonest' <=> Image!PullIsHonest
    BY <1>1 DEF Image!vars, Image!ImageForEach, Image!LabelIsTrue, Image!Unseen, Image!BuiltTwice, Image!BuiltWhatWasAsked, Image!PullIsHonest, Image!Succeeded, Image!Skipped, Image!Asked, Image!Name, Image!Image
  <2> QED
    BY <1>1, <2>1, <2>2, <2>3, <2>4, <2>5 DEF Image!vars, ImagesInv, ImageStepRight
<1>2. CASE Image!Next
  BY <1>2, ImagesGive, ImagesChecked, ImagesInspect, ImagesCancel, ImagesPullRequired, ImagesPull,
     ImagesBuild, ImagesBuildFails, ImagesNothing, ImagesLabel DEF Image!Next
<1> QED
  BY <1>1, <1>2

----------------------------------------------------------------------------
AllIds   == Removal!Ids \cup Removal!NewIds
Pictures == [tags : SUBSET Removal!Tags, project : {"", "p", "q"}, service : {"", "web", "old"}]
Special  == {rmi.image, "p-web"}

RemovalTypes ==
  /\ images \in [AllIds -> Pictures] /\ asListed \in [AllIds -> Pictures]
  /\ pruning \subseteq prune /\ prune \subseteq Removal!Tags /\ lost \subseteq Removal!Tags \X AllIds
  /\ downErr \in BOOLEAN /\ downEnd \in {"none", "nil", "err"} /\ used \subseteq Removal!Ids
  /\ rmi.mode \in {"", "local", "all"} /\ query \subseteq {"named", "labelled", "implicit"}

OneHolder(im) == \A i, j \in AllIds : i # j => im[i].tags \cap im[j].tags = {}

(* Before down has begun nothing has happened.                             *)
NotYet ==
  rmi.mode = "" =>
    /\ query = {} /\ prune = {} /\ lost = {} /\ downEnd = "none" /\ downErr = FALSE
    /\ \A i \in AllIds : images[i] = Removal!Gone
Unlisted == "labelled" \in query \/ rmi.mode = "" =>
              lost = {} /\ \A i \in AllIds : asListed[i] = Removal!Gone

(* Names are removed once all queries are answered, until down ends.       *)
StageRight ==
  /\ rmi.mode # "" => rmi.image \in {"", "x"}
  /\ query # {} => pruning = {} /\ lost = {} /\ downEnd = "none" /\ rmi.mode # ""
  /\ query # {} => "implicit" \in query
  /\ pruning # {} => downEnd = "none"
  /\ rmi.mode = "local" => "named" \notin query
  /\ "named" \in query => "labelled" \in query

(* Why a name is to be removed.                                            *)
Ours(i) == asListed[i].project = "p" /\ (rmi.orphans \/ asListed[i].service = "web")
Reason(t) ==
  \/ rmi.mode = "all" /\ t = rmi.image
  \/ rmi.image = "" /\ t = "p-web"
  \/ \E i \in AllIds : Ours(i) /\ t \in asListed[i].tags
PruneRight ==
  /\ \A t \in prune : Reason(t)
  /\ rmi.mode # "" => \A i \in Removal!Ids : \A t, u \in (prune \cap asListed[i].tags) \ Special : t = u

(* Images that were there only lose names.                                 *)
Listed == "labelled" \notin query /\ rmi.mode # "" /\ downEnd \in {"none", "nil"}
OnlyLess ==
  Listed => \A i \in Removal!Ids : /\ images[i].tags \subseteq asListed[i].tags
                                   /\ images[i].project = asListed[i].project
                                   /\ images[i].service = asListed[i].service

NewRight ==
  \A j \in Removal!NewIds : images[j] = Removal!Gone \/ (images[j].project = "p" /\ images[j].tags \subseteq {Removal!WebName})

LostRight ==
  /\ \A e \in lost : e[1] \in prune
  /\ \A e \in Removal!Old : e[1] \in asListed[e[2]].tags
  /\ \A e \in lost \ Removal!Old : e[1] = Removal!WebName

(* A name that is lost is not had again.                                   *)
KeptRight ==
  /\ \A i \in Removal!Ids : \A t \in Removal!Tags : <<t, i>> \in lost => t \notin images[i].tags
  /\ \A i \in used : images[i].tags = {} /\ (\E t \in Removal!Tags : <<t, i>> \in lost) => Removal!TakenByBuild(i)

(* The name of web is to be removed, if an image had it when asked.        *)
NamedRight ==
  downEnd # "err" /\ rmi.mode # "" =>
    /\ rmi.mode = "all" /\ rmi.image = "x" /\ "named" \notin query =>
         "x" \in prune \/ \A i \in Removal!Ids : "x" \notin images[i].tags
    /\ rmi.image = "" /\ query = {} =>
         "p-web" \in prune \/ \A i \in Removal!Ids : "p-web" \notin images[i].tags
    /\ rmi.image = "x" /\ "labelled" \notin query =>
         \A i \in Removal!Ids : asListed[i].project = "p" /\ asListed[i].service = "web" /\ asListed[i].tags = {"x"}
                          => "x" \in prune

Processed ==
  query = {} /\ downEnd # "err" /\ ~downErr =>
    \A t \in prune \ pruning : \A i \in Removal!Ids \ used : t \notin images[i].tags

RemovalInv ==
  /\ RemovalTypes /\ OneHolder(images) /\ OneHolder(asListed) /\ NotYet /\ Unlisted /\ StageRight
  /\ PruneRight /\ OnlyLess /\ NewRight /\ LostRight /\ KeptRight /\ NamedRight /\ Processed
  /\ Removal!OnlyItsImages /\ (downEnd = "nil" => query = {} /\ ~downErr /\ pruning = {} /\ rmi.mode # "")

LEMMA RemovalIds == Removal!Ids = {1, 2} /\ 1 # 2 /\ \A j \in Removal!NewIds : j \notin Removal!Ids
BY DEF Removal!Ids, Removal!NewIds

LEMMA GoneRight == Removal!Gone \in Pictures /\ Removal!Gone.tags = {} /\ Removal!Gone.project = ""
BY DEF Removal!Gone, Pictures

LEMMA PairRight ==
  ASSUME NEW A, NEW B, NEW e \in A \X B
  PROVE  e = <<e[1], e[2]>> /\ e[1] \in A /\ e[2] \in B
OBVIOUS

LEMMA NonePaired ==
  ASSUME NEW S, NEW A, NEW x, \A a \in A : <<a, x>> \notin S
  PROVE  S \cap (A \X {x}) = {}
<1> DEFINE X == {x}
<1>1. \A y \in X : y = x
  OBVIOUS
<1> HIDE DEF X
<1> SUFFICES ASSUME NEW e \in A \X X, e \in S PROVE FALSE
  BY DEF X
<1>2. e = <<e[1], e[2]>> /\ e[1] \in A /\ e[2] \in X
  BY PairRight
<1> QED
  BY <1>1, <1>2

LEMMA RemovalInvImplies == RemovalInv => Removal!RemovalIsRight
<1> SUFFICES ASSUME RemovalInv PROVE Removal!RemovalIsRight
  OBVIOUS
<1> USE DEF RemovalInv
<1>0. DOMAIN images = AllIds
  BY DEF RemovalTypes
<1>1. Removal!TypeOK
  BY <1>0 DEF Removal!TypeOK, RemovalTypes, OneHolder
<1>2. Removal!InUseKept
  <2> SUFFICES ASSUME NEW i \in used, images[i].tags = {}, ~Removal!TakenByBuild(i)
               PROVE  lost \cap (Removal!Tags \X {i}) = {}
    BY DEF Removal!InUseKept
  <2>1. \A t \in Removal!Tags : <<t, i>> \notin lost
    BY DEF KeptRight
  <2> QED
    BY <2>1, NonePaired
<1>3. Removal!OneName
  <2> SUFFICES ASSUME NEW e \in Removal!Old, NEW f \in Removal!Old, e[1] \notin {rmi.image, "p-web"},
                      f[1] \notin {rmi.image, "p-web"}, e[2] = f[2]
               PROVE  e = f
    BY DEF Removal!OneName
  <2>1. e \in lost /\ f \in lost /\ e[2] \in Removal!Ids
    BY DEF Removal!Old
  <2>2. e = <<e[1], e[2]>> /\ f = <<f[1], f[2]>>
    <3>1. e \in Removal!Tags \X AllIds /\ f \in Removal!Tags \X AllIds
      BY <2>1 DEF RemovalTypes
    <3> QED
      BY <3>1, PairRight
  <2>3. rmi.mode # ""
    BY <2>1 DEF NotYet
  <2>4. e[1] \in prune /\ f[1] \in prune /\ e[1] \in asListed[e[2]].tags /\ f[1] \in asListed[e[2]].tags
    BY <2>1 DEF LostRight
  <2>5. e[1] = f[1]
    BY <2>1, <2>3, <2>4 DEF PruneRight, Special
  <2> QED
    BY <2>2, <2>5
<1>4. Removal!SuccessMeansRemoved
  <2> SUFFICES ASSUME downEnd = "nil", NEW i \in Removal!Ids \ used, Removal!Mine(i), Removal!WebName \in images[i].tags
               PROVE  FALSE
    BY DEF Removal!SuccessMeansRemoved
  <2>1. query = {} /\ ~downErr /\ pruning = {} /\ rmi.mode # "" /\ rmi.image \in {"", "x"}
    BY DEF StageRight
  <2>2. Removal!WebName \notin prune
    BY <2>1 DEF Processed
  <2>3. rmi.image = "x" /\ Removal!WebName = "x"
    BY <2>1, <2>2 DEF NamedRight, Removal!WebName
  <2>4. rmi.mode # "all"
    BY <2>1, <2>2, <2>3 DEF NamedRight
  <2>5. asListed[i].project = "p" /\ asListed[i].service = "web" /\ asListed[i].tags = {"x"}
    BY <2>3, <2>4 DEF Removal!Mine
  <2> QED
    BY <2>1, <2>2, <2>3, <2>5 DEF NamedRight
<1>5. Removal!NewOnesByName
  BY DEF LostRight, Removal!NewOnesByName
<1> QED
  BY <1>1, <1>2, <1>3, <1>4, <1>5 DEF Removal!RemovalIsRight

LEMMA RemovalInit == Removal!Init => RemovalInv
<1> SUFFICES ASSUME Removal!Init PROVE RemovalInv
  OBVIOUS
<1>1. images = [i \in AllIds |-> Removal!Gone] /\ asListed = images
  BY DEF Removal!Init, AllIds
<1>2. Removal!Gone \in Pictures /\ Removal!Gone.tags = {} /\ Removal!Gone.project = ""
  BY GoneRight
<1>3. /\ rmi.mode = "" /\ used = {} /\ query = {} /\ prune = {} /\ pruning = {} /\ lost = {}
      /\ downErr = FALSE /\ downEnd = "none"
  BY DEF Removal!Init
<1>4. \A i \in AllIds : images[i] = Removal!Gone /\ asListed[i] = Removal!Gone
  BY <1>1
<1>5. RemovalTypes
  <2>1. FALSE \in BOOLEAN
    OBVIOUS
  <2> QED
    BY <1>1, <1>2, <1>3, <2>1 DEF RemovalTypes
<1>6. OneHolder(images) /\ OneHolder(asListed)
  BY <1>2, <1>4 DEF OneHolder
<1>7. NotYet /\ Unlisted /\ StageRight /\ PruneRight /\ OnlyLess
  <2>1. NotYet /\ Unlisted
    BY <1>3, <1>4 DEF NotYet, Unlisted
  <2>2. StageRight
    BY <1>3 DEF StageRight
  <2>3. PruneRight /\ OnlyLess
    BY <1>3 DEF PruneRight, OnlyLess, Listed
  <2> QED
    BY <2>1, <2>2, <2>3
<1>8. NewRight /\ LostRight /\ KeptRight
  BY <1>3, <1>4 DEF NewRight, LostRight, KeptRight, Removal!Old, AllIds
<1>9. NamedRight /\ Processed /\ Removal!OnlyItsImages
  BY <1>3 DEF NamedRight, Processed, Removal!OnlyItsImages, Removal!Old
<1> QED
  BY <1>3, <1>5, <1>6, <1>7, <1>8, <1>9 DEF RemovalInv

LEMMA RemovalDown == ASSUME RemovalInv, Removal!Down PROVE RemovalInv'
<1> USE DEF RemovalInv
<1>1. /\ rmi.mode = "" /\ rmi'.mode \in {"local", "all"} /\ rmi'.image \in {"", "x"}
      /\ UNCHANGED <<prune, pruning, asListed, lost, downErr, downEnd>>
      /\ used' \in SUBSET Removal!Ids
      /\ query' = IF rmi'.mode = "all" THEN {"named", "labelled", "implicit"} ELSE {"labelled", "implicit"}
  <2>1. PICK md \in {"local", "all"}, orphans \in BOOLEAN, im \in {"", "x"} :
          rmi' = [mode |-> md, orphans |-> orphans, image |-> im]
    BY DEF Removal!Down
  <2>2. rmi'.mode \in {"local", "all"} /\ rmi'.image \in {"", "x"}
    BY <2>1
  <2> QED
    BY <2>2 DEF Removal!Down
<1>2. PICK t \in SUBSET Removal!Tags, l \in Removal!Labels, m \in Removal!Labels :
        images' = [images EXCEPT ![1] = Removal!Labelled(l, t), ![2] = Removal!Labelled(m, Removal!Tags \ t)]
  BY DEF Removal!Down
<1>3. /\ Removal!Labelled(l, t) \in Pictures /\ Removal!Labelled(l, t).tags = t
      /\ Removal!Labelled(m, Removal!Tags \ t) \in Pictures /\ Removal!Labelled(m, Removal!Tags \ t).tags = Removal!Tags \ t
  BY DEF Removal!Labelled, Removal!Labels, Pictures
<1>4. /\ query = {} /\ prune = {} /\ lost = {} /\ downEnd = "none" /\ downErr = FALSE /\ pruning = {}
      /\ \A i \in AllIds : images[i] = Removal!Gone
      /\ \A i \in AllIds : asListed[i] = Removal!Gone
  BY <1>1 DEF NotYet, Unlisted, RemovalTypes
<1>5. 1 \in AllIds /\ 2 \in AllIds /\ 1 # 2
  <2>1. 1 \in Removal!Ids /\ 2 \in Removal!Ids
    BY RemovalIds
  <2>2. 1 \in AllIds /\ 2 \in AllIds
    BY <2>1 DEF AllIds
  <2> QED
    BY <2>2, RemovalIds
<1>6. /\ images' \in [AllIds -> Pictures] /\ images'[1].tags = t /\ images'[2].tags = Removal!Tags \ t
      /\ \A i \in AllIds \ {1, 2} : images'[i] = Removal!Gone
  BY <1>2, <1>3, <1>4, <1>5 DEF RemovalTypes
<1>7. RemovalTypes'
  BY <1>1, <1>4, <1>6 DEF RemovalTypes
<1>8. OneHolder(images)' /\ OneHolder(asListed)'
  <2>1. Removal!Gone.tags = {}
    BY DEF Removal!Gone
  <2>2. \A i, j \in AllIds : i # j => images'[i].tags \cap images'[j].tags = {}
    BY <1>6, <2>1
  <2> QED
    BY <1>1, <2>2 DEF OneHolder
<1>9. NotYet' /\ Unlisted' /\ StageRight' /\ PruneRight' /\ OnlyLess'
  BY <1>1, <1>4 DEF NotYet, Unlisted, StageRight, PruneRight, OnlyLess, Listed
<1>10. NewRight' /\ LostRight' /\ KeptRight'
  BY <1>1, <1>4, <1>6, RemovalIds DEF NewRight, LostRight, KeptRight, Removal!Old, AllIds
<1>11. NamedRight' /\ Processed' /\ Removal!OnlyItsImages'
  BY <1>1, <1>4 DEF NamedRight, Processed, Removal!OnlyItsImages, Removal!Old
<1> QED
  BY <1>1, <1>4, <1>7, <1>8, <1>9, <1>10, <1>11

LEMMA RemovalNamed == ASSUME RemovalInv, Removal!ListNamed PROVE RemovalInv'
<1> USE DEF RemovalInv
<1>1. /\ "named" \in query /\ query' = query \ {"named"}
      /\ UNCHANGED <<rmi, images, used, pruning, asListed, lost, downErr, downEnd>>
  BY DEF Removal!ListNamed
<1>2. /\ "labelled" \in query /\ "implicit" \in query /\ pruning = {} /\ lost = {} /\ downEnd = "none"
      /\ rmi.mode = "all" /\ rmi.image \in {"", "x"} /\ \A i \in AllIds : asListed[i] = Removal!Gone
  BY <1>1 DEF StageRight, Unlisted, RemovalTypes
<1>3. \/ prune' = prune /\ (rmi.image = "x" => ~Removal!Exists("x"))
      \/ prune' = prune \cup {rmi.image} /\ rmi.image = "x"
  BY <1>2 DEF Removal!ListNamed, Removal!Found
<1>4. RemovalTypes'
  BY <1>1, <1>3 DEF RemovalTypes, Removal!Tags
<1>5. OneHolder(images)' /\ OneHolder(asListed)'
  BY <1>1 DEF OneHolder
<1>6. NotYet' /\ Unlisted' /\ StageRight' /\ OnlyLess'
  BY <1>1, <1>2 DEF NotYet, Unlisted, StageRight, OnlyLess, Listed
<1>7. PruneRight'
  <2>1. \A i \in Removal!Ids : asListed'[i].tags = {}
    BY <1>1, <1>2, GoneRight DEF AllIds
  <2> QED
    BY <1>1, <1>2, <1>3, <2>1 DEF PruneRight, Reason, Ours
<1>8. NewRight' /\ LostRight' /\ KeptRight' /\ Removal!OnlyItsImages'
  BY <1>1, <1>2 DEF NewRight, LostRight, KeptRight, Removal!TakenByBuild, Removal!Old, Removal!WebName, Removal!OnlyItsImages
<1>9. NamedRight'
  <2>1. ~Removal!Exists("x") => \A i \in Removal!Ids : "x" \notin images[i].tags
    BY DEF Removal!Exists, RemovalTypes, AllIds
  <2> QED
    BY <1>1, <1>2, <1>3, <2>1 DEF NamedRight
<1>10. Processed'
  <2>1. "implicit" \in query'
    BY <1>1, <1>2
  <2> QED
    BY <2>1 DEF Processed
<1> QED
  BY <1>1, <1>2, <1>4, <1>5, <1>6, <1>7, <1>8, <1>9, <1>10

LEMMA RemovalLabelled == ASSUME RemovalInv, Removal!ListLabelled PROVE RemovalInv'
<1> USE DEF RemovalInv
<1>1. /\ "labelled" \in query /\ "named" \notin query /\ query' = query \ {"labelled"} /\ asListed' = images
      /\ UNCHANGED <<rmi, images, used, pruning, lost, downErr, downEnd>>
  BY DEF Removal!ListLabelled
<1> DEFINE ours == {i \in DOMAIN images : images[i].project = "p" /\ images[i].tags # {} /\ Removal!ShouldPrune(i)}
<1>2. PICK first \in [ours -> Removal!Tags] : /\ \A i \in ours : first[i] \in images[i].tags
                                              /\ prune' = prune \cup {first[i] : i \in ours}
  BY DEF Removal!ListLabelled
<1>3. /\ "implicit" \in query /\ pruning = {} /\ lost = {} /\ downEnd = "none" /\ rmi.mode # ""
      /\ rmi.image \in {"", "x"}
  BY <1>1 DEF StageRight
<1>4. \A t \in prune : (rmi.mode = "all" /\ t = rmi.image) \/ (rmi.image = "" /\ t = "p-web")
  <2>1. \A i \in AllIds : asListed[i].tags = {}
    BY <1>1, GoneRight DEF Unlisted
  <2> QED
    BY <2>1 DEF PruneRight, Reason
<1>5. DOMAIN images = AllIds /\ ours \subseteq AllIds
  BY DEF RemovalTypes
<1>6. RemovalTypes'
  BY <1>1, <1>2 DEF RemovalTypes
<1>7. OneHolder(images)' /\ OneHolder(asListed)'
  BY <1>1 DEF OneHolder
<1>8. NotYet' /\ Unlisted' /\ StageRight' /\ OnlyLess'
  BY <1>1, <1>3 DEF NotYet, Unlisted, StageRight, OnlyLess, Listed, AllIds
<1>9. \A i \in ours : Ours(i)'
  BY <1>1 DEF Ours, Removal!ShouldPrune
<1>10. PruneRight'
  <2>1. \A t \in prune' : Reason(t)'
    BY <1>1, <1>2, <1>4, <1>5, <1>9 DEF Reason
  <2>2. ASSUME NEW i \in Removal!Ids, NEW t \in (prune' \cap asListed'[i].tags) \ Special'
        PROVE  i \in ours /\ t = first[i]
    <3>1. t \notin prune
      BY <1>1, <1>4 DEF Special
    <3>2. PICK j \in ours : t = first[j]
      BY <1>2, <3>1
    <3>3. t \in images[j].tags /\ t \in images[i].tags /\ i \in AllIds /\ j \in AllIds
      BY <1>1, <1>2, <1>5, <3>2 DEF AllIds
    <3>4. i = j
      BY <3>3 DEF OneHolder
    <3> QED
      BY <3>2, <3>4
  <2> QED
    BY <2>1, <2>2 DEF PruneRight
<1>11. NewRight' /\ LostRight' /\ KeptRight' /\ Removal!OnlyItsImages'
  BY <1>1, <1>3 DEF NewRight, LostRight, KeptRight, Removal!TakenByBuild, Removal!Old, Removal!WebName, Removal!OnlyItsImages
<1>12. NamedRight'
  <2>1. ASSUME NEW i \in Removal!Ids, images[i].project = "p", images[i].service = "web", images[i].tags = {"x"}
        PROVE  "x" \in prune'
    <3>1. i \in ours /\ first[i] = "x"
      BY <1>2, <1>5, <2>1 DEF Removal!ShouldPrune, AllIds
    <3> QED
      BY <1>2, <3>1
  <2>2. "implicit" \in query'
    BY <1>1, <1>3
  <2> QED
    BY <1>1, <1>2, <1>3, <2>1, <2>2 DEF NamedRight
<1>13. Processed'
  <2>1. "implicit" \in query'
    BY <1>1, <1>3
  <2> QED
    BY <2>1 DEF Processed
<1> QED
  BY <1>1, <1>3, <1>6, <1>7, <1>8, <1>10, <1>11, <1>12, <1>13

LEMMA RemovalImplicit == ASSUME RemovalInv, Removal!ListImplicit PROVE RemovalInv'
<1> USE DEF RemovalInv
<1>1. /\ query = {"implicit"} /\ query' = {} /\ pruning' = prune'
      /\ UNCHANGED <<rmi, images, used, asListed, lost, downErr, downEnd>>
  BY DEF Removal!ListImplicit
<1>2. /\ pruning = {} /\ lost = {} /\ downEnd = "none" /\ rmi.mode # "" /\ rmi.image \in {"", "x"}
  BY <1>1 DEF StageRight
<1>3. \/ prune' = prune /\ (rmi.image = "" => ~Removal!Exists("p-web"))
      \/ prune' = prune \cup {"p-web"} /\ rmi.image = ""
  BY <1>2 DEF Removal!ListImplicit, Removal!Found
<1>4. RemovalTypes'
  BY <1>1, <1>3 DEF RemovalTypes, Removal!Tags
<1>5. OneHolder(images)' /\ OneHolder(asListed)'
  BY <1>1 DEF OneHolder
<1>6. NotYet' /\ Unlisted' /\ OnlyLess'
  BY <1>1, <1>2 DEF NotYet, Unlisted, OnlyLess, Listed
<1>7. StageRight'
  BY <1>1, <1>2 DEF StageRight
<1>8. PruneRight'
  <2>1. \A t \in prune' : t \in prune \/ (t = "p-web" /\ rmi.image = "")
    BY <1>3
  <2>2. \A t \in prune' : Reason(t)'
    BY <1>1, <2>1 DEF PruneRight, Reason, Ours
  <2>3. \A i \in Removal!Ids : \A t \in (prune' \cap asListed[i].tags) \ Special : t \in (prune \cap asListed[i].tags) \ Special
    BY <2>1 DEF Special
  <2>4. Special' = Special /\ asListed' = asListed /\ rmi' = rmi
    BY <1>1 DEF Special
  <2> QED
    BY <2>2, <2>3, <2>4 DEF PruneRight
<1>9. NewRight' /\ LostRight' /\ KeptRight' /\ Removal!OnlyItsImages'
  BY <1>1, <1>2 DEF NewRight, LostRight, KeptRight, Removal!TakenByBuild, Removal!Old, Removal!WebName, Removal!OnlyItsImages
<1>10. NamedRight'
  <2>1. ~Removal!Exists("p-web") => \A i \in Removal!Ids : "p-web" \notin images[i].tags
    BY DEF Removal!Exists, RemovalTypes, AllIds
  <2> QED
    BY <1>1, <1>2, <1>3, <2>1 DEF NamedRight
<1>11. Processed'
  BY <1>1 DEF Processed
<1> QED
  BY <1>1, <1>2, <1>4, <1>5, <1>6, <1>7, <1>8, <1>9, <1>10, <1>11

LEMMA RemovalListFails == ASSUME RemovalInv, Removal!ListFails PROVE RemovalInv'
<1> USE DEF RemovalInv
<1>1. /\ query # {} /\ query' = {} /\ downEnd' = "err"
      /\ UNCHANGED <<rmi, images, used, prune, pruning, asListed, lost, downErr>>
  BY DEF Removal!ListFails
<1>2. pruning = {} /\ lost = {} /\ rmi.mode # ""
  BY <1>1 DEF StageRight
<1>3. RemovalTypes' /\ OneHolder(images)' /\ OneHolder(asListed)'
  BY <1>1 DEF RemovalTypes, OneHolder
<1>4. NotYet' /\ Unlisted' /\ OnlyLess' /\ StageRight'
  BY <1>1, <1>2 DEF NotYet, Unlisted, OnlyLess, Listed, StageRight
<1>5. PruneRight'
  BY <1>1 DEF PruneRight, Reason, Ours, Special
<1>6. NewRight' /\ LostRight' /\ KeptRight' /\ Removal!OnlyItsImages'
  BY <1>1, <1>2 DEF NewRight, LostRight, KeptRight, Removal!TakenByBuild, Removal!Old, Removal!WebName, Removal!OnlyItsImages
<1>7. NamedRight' /\ Processed'
  BY <1>1 DEF NamedRight, Processed
<1> QED
  BY <1>1, <1>3, <1>4, <1>5, <1>6, <1>7

LEMMA RemovalTakes == ASSUME RemovalInv, NEW t \in Removal!Tags, Removal!RemoveImage(t) PROVE RemovalInv'
<1> USE DEF RemovalInv
<1>1. /\ t \in pruning /\ pruning' = pruning \ {t}
      /\ UNCHANGED <<rmi, used, query, prune, asListed, downErr, downEnd>>
  BY DEF Removal!RemoveImage
<1>2. /\ downEnd = "none" /\ query = {} /\ rmi.mode # "" /\ rmi.image \in {"", "x"} /\ t \in prune
  BY <1>1 DEF StageRight, NotYet, RemovalTypes
<1>3. Listed /\ DOMAIN images = AllIds
  BY <1>2 DEF Listed, RemovalTypes
<1>4. CASE /\ \A i \in DOMAIN images : Removal!Has(i, t) => Removal!Conflicts(i, t)
           /\ UNCHANGED <<images, lost>>
  <2>1. RemovalTypes' /\ OneHolder(images)' /\ OneHolder(asListed)'
    BY <1>1, <1>4 DEF RemovalTypes, OneHolder
  <2>2. NotYet' /\ Unlisted' /\ OnlyLess' /\ StageRight'
    BY <1>1, <1>2, <1>4 DEF NotYet, Unlisted, OnlyLess, Listed, StageRight
  <2>3. PruneRight'
    BY <1>1, <1>4 DEF PruneRight, Reason, Ours, Special
  <2>4. NewRight' /\ LostRight' /\ KeptRight' /\ Removal!OnlyItsImages'
    BY <1>1, <1>4 DEF NewRight, LostRight, KeptRight, Removal!TakenByBuild, Removal!Old, Removal!WebName, Removal!OnlyItsImages
  <2>5. NamedRight'
    BY <1>1, <1>4 DEF NamedRight
  <2>6. Processed'
    <3>1. \A i \in Removal!Ids \ used : t \notin images[i].tags
      BY <1>3, <1>4 DEF Removal!Has, Removal!Conflicts, AllIds
    <3> QED
      BY <1>1, <1>4, <3>1 DEF Processed
  <2> QED
    BY <1>1, <1>2, <2>1, <2>2, <2>3, <2>4, <2>5, <2>6
<1>5. CASE \E i \in DOMAIN images :
             /\ Removal!Has(i, t) /\ ~Removal!Conflicts(i, t)
             /\ images' = [images EXCEPT ![i].tags = @ \ {t}]
             /\ lost' = lost \cup {<<t, i>>}
  <2>1. PICK i \in AllIds : /\ t \in images[i].tags /\ ~(i \in used /\ images[i].tags = {t})
                            /\ images' = [images EXCEPT ![i].tags = images[i].tags \ {t}]
                            /\ lost' = lost \cup {<<t, i>>}
    BY <1>3, <1>5 DEF Removal!Has, Removal!Conflicts
  <2>2. /\ images' \in [AllIds -> Pictures] /\ images'[i].tags = images[i].tags \ {t}
        /\ images'[i].project = images[i].project /\ images'[i].service = images[i].service
        /\ \A j \in AllIds \ {i} : images'[j] = images[j]
    <3>1. images \in [AllIds -> Pictures]
      BY DEF RemovalTypes
    <3>2. /\ images'[i] = [images[i] EXCEPT !.tags = images[i].tags \ {t}]
          /\ \A j \in AllIds \ {i} : images'[j] = images[j]
      BY <2>1, <3>1
    <3>3. /\ images'[i].tags = images[i].tags \ {t} /\ images'[i].project = images[i].project
          /\ images'[i].service = images[i].service /\ images'[i] \in Pictures
      BY <3>1, <3>2 DEF Pictures
    <3>4. images' \in [AllIds -> Pictures]
      BY <2>1, <3>1, <3>3
    <3> QED
      BY <3>2, <3>3, <3>4
  <2>3. /\ \A j \in AllIds : /\ images'[j].tags \subseteq images[j].tags
                             /\ images'[j].project = images[j].project
                             /\ images'[j].service = images[j].service
    BY <2>2
  <2>4. RemovalTypes'
    <3>1. <<t, i>> \in Removal!Tags \X AllIds
      OBVIOUS
    <3>2. lost' \subseteq Removal!Tags \X AllIds
      BY <2>1, <3>1 DEF RemovalTypes
    <3> QED
      BY <1>1, <2>2, <3>2 DEF RemovalTypes
  <2>5. OneHolder(images)' /\ OneHolder(asListed)'
    BY <1>1, <2>3 DEF OneHolder
  <2>6. NotYet' /\ Unlisted' /\ StageRight'
    BY <1>1, <1>2 DEF NotYet, Unlisted, StageRight
  <2>7. OnlyLess'
    BY <1>1, <2>3 DEF OnlyLess, Listed, AllIds
  <2>8. PruneRight'
    BY <1>1 DEF PruneRight, Reason, Ours, Special
  <2>9. NewRight'
    <3> SUFFICES ASSUME NEW j \in Removal!NewIds
                 PROVE  images'[j] = Removal!Gone \/ (images'[j].project = "p" /\ images'[j].tags \subseteq {Removal!WebName})
      BY <1>1 DEF NewRight, Removal!WebName
    <3>1. CASE j = i
      BY <2>1, <2>2, <3>1, GoneRight DEF NewRight, AllIds
    <3>2. CASE j # i
      BY <2>2, <3>2 DEF NewRight, AllIds
    <3> QED
      BY <3>1, <3>2
  <2>10. LostRight'
    <3>1. <<t, i>>[1] = t /\ <<t, i>>[2] = i
      OBVIOUS
    <3>2. i \in Removal!Ids => t \in asListed[i].tags
      BY <1>3, <2>1 DEF OnlyLess
    <3>3. i \notin Removal!Ids => t = Removal!WebName
      BY <2>1, GoneRight DEF NewRight, AllIds
    <3> QED
      BY <1>1, <1>2, <2>1, <3>1, <3>2, <3>3 DEF LostRight, Removal!Old, Removal!WebName
  <2>11. KeptRight'
    <3>1. ASSUME NEW k \in Removal!Ids, NEW u \in Removal!Tags, <<u, k>> \in lost'
          PROVE  u \notin images'[k].tags
      <4>1. k \in AllIds
        BY DEF AllIds
      <4>2. CASE <<u, k>> = <<t, i>>
        BY <2>2, <4>2
      <4>3. CASE <<u, k>> \in lost
        BY <2>3, <4>1, <4>3 DEF KeptRight
      <4> QED
        BY <2>1, <3>1, <4>2, <4>3
    <3>2. ASSUME NEW k \in used, images'[k].tags = {}, NEW u \in Removal!Tags, <<u, k>> \in lost'
          PROVE  Removal!TakenByBuild(k)'
      <4>1. k \in AllIds
        BY DEF RemovalTypes, AllIds
      <4>2. k # i
        BY <2>1, <2>2, <3>2
      <4>3. <<u, k>> \in lost /\ images[k].tags = {}
        BY <2>1, <2>2, <3>2, <4>1, <4>2
      <4>4. Removal!TakenByBuild(k)
        BY <4>3 DEF KeptRight
      <4> QED
        BY <1>1, <2>1, <4>2, <4>4 DEF Removal!TakenByBuild, Removal!WebName
    <3> QED
      BY <1>1, <3>1, <3>2 DEF KeptRight
  <2>12. NamedRight'
    BY <1>1, <2>3 DEF NamedRight, AllIds
  <2>13. Processed'
    <3>1. \A j \in AllIds : t \notin images'[j].tags
      BY <2>1, <2>2 DEF OneHolder
    <3>2. \A u \in prune' \ pruning' : u = t \/ u \in prune \ pruning
      BY <1>1
    <3>3. \A j \in Removal!Ids : j \in AllIds
      BY DEF AllIds
    <3> SUFFICES ASSUME ~downErr, NEW u \in prune' \ pruning', NEW j \in Removal!Ids \ used
                 PROVE  u \notin images'[j].tags
      BY <1>1 DEF Processed
    <3>4. CASE u = t
      BY <3>1, <3>3, <3>4
    <3>5. CASE u \in prune \ pruning
      <4>1. u \notin images[j].tags
        BY <1>2, <3>5 DEF Processed
      <4> QED
        BY <2>3, <3>3, <4>1
    <3> QED
      BY <3>2, <3>4, <3>5
  <2>14. Removal!OnlyItsImages'
    <3>1. <<t, i>>[1] = t /\ <<t, i>>[2] = i
      OBVIOUS
    <3>2. i \in Removal!Ids => \/ images[i].project = "p" /\ (rmi.orphans \/ images[i].service = "web")
                               \/ rmi.mode = "all" /\ t = rmi.image
                               \/ rmi.image = "" /\ t = "p-web"
      <4> SUFFICES ASSUME i \in Removal!Ids, NEW j \in AllIds, Ours(j), t \in asListed[j].tags
                   PROVE  images[i].project = "p" /\ (rmi.orphans \/ images[i].service = "web")
        BY <1>2 DEF PruneRight, Reason
      <4>1. t \in asListed[i].tags
        BY <1>3, <2>1 DEF OnlyLess
      <4>2. i = j
        BY <4>1 DEF OneHolder
      <4> QED
        BY <1>3, <4>2 DEF OnlyLess, Ours
    <3>3. \A e \in Removal!Old' : (e = <<t, i>> /\ i \in Removal!Ids) \/ e \in Removal!Old
      BY <2>1, <3>1 DEF Removal!Old
    <3>4. \A e \in Removal!Old' : e[2] \in AllIds
      BY DEF Removal!Old, AllIds
    <3> QED
      BY <1>1, <2>3, <3>1, <3>2, <3>3, <3>4 DEF Removal!OnlyItsImages
  <2> QED
    BY <1>1, <1>2, <2>4, <2>5, <2>6, <2>7, <2>8, <2>9, <2>10, <2>11, <2>12, <2>13, <2>14
<1> QED
  BY <1>4, <1>5 DEF Removal!RemoveImage

LEMMA RemovalTakeFails == ASSUME RemovalInv, NEW t \in Removal!Tags, Removal!RemoveFails(t) PROVE RemovalInv'
<1> USE DEF RemovalInv
<1>1. /\ t \in pruning /\ pruning' = pruning \ {t} /\ downErr' = TRUE
      /\ UNCHANGED <<rmi, images, used, query, prune, asListed, lost, downEnd>>
  BY DEF Removal!RemoveFails
<1>2. downEnd = "none" /\ query = {} /\ rmi.mode # ""
  BY <1>1 DEF StageRight, NotYet, RemovalTypes
<1>3. RemovalTypes' /\ OneHolder(images)' /\ OneHolder(asListed)'
  <2>1. TRUE \in BOOLEAN
    OBVIOUS
  <2> QED
    BY <1>1, <2>1 DEF RemovalTypes, OneHolder
<1>4. NotYet' /\ Unlisted' /\ OnlyLess' /\ StageRight'
  BY <1>1, <1>2 DEF NotYet, Unlisted, OnlyLess, Listed, StageRight
<1>5. PruneRight'
  BY <1>1 DEF PruneRight, Reason, Ours, Special
<1>6. NewRight' /\ LostRight' /\ KeptRight' /\ Removal!OnlyItsImages'
  BY <1>1 DEF NewRight, LostRight, KeptRight, Removal!TakenByBuild, Removal!Old, Removal!WebName, Removal!OnlyItsImages
<1>7. NamedRight' /\ Processed'
  BY <1>1 DEF NamedRight, Processed
<1> QED
  BY <1>1, <1>2, <1>3, <1>4, <1>5, <1>6, <1>7

LEMMA RemovalEnds == ASSUME RemovalInv, Removal!DownEnds PROVE RemovalInv'
<1> USE DEF RemovalInv
<1>1. /\ rmi.mode # "" /\ query = {} /\ pruning = {} /\ downEnd = "none"
      /\ downEnd' = IF downErr THEN "err" ELSE "nil"
      /\ UNCHANGED <<rmi, images, used, query, prune, pruning, asListed, lost, downErr>>
  BY DEF Removal!DownEnds
<1>3. RemovalTypes' /\ OneHolder(images)' /\ OneHolder(asListed)'
  BY <1>1 DEF RemovalTypes, OneHolder
<1>4. NotYet' /\ Unlisted' /\ OnlyLess' /\ StageRight'
  BY <1>1 DEF NotYet, Unlisted, OnlyLess, Listed, StageRight
<1>5. PruneRight'
  BY <1>1 DEF PruneRight, Reason, Ours, Special
<1>6. NewRight' /\ LostRight' /\ KeptRight' /\ Removal!OnlyItsImages'
  BY <1>1 DEF NewRight, LostRight, KeptRight, Removal!TakenByBuild, Removal!Old, Removal!WebName, Removal!OnlyItsImages
<1>7. NamedRight' /\ Processed'
  BY <1>1 DEF NamedRight, Processed
<1> QED
  BY <1>1, <1>3, <1>4, <1>5, <1>6, <1>7

LEMMA NewPicture ==
  ASSUME NEW T, NEW r, r = [tags |-> T, project |-> "p", service |-> "web"]
  PROVE  r.tags = T /\ r.project = "p" /\ r.service = "web" /\ r # Removal!Gone
BY DEF Removal!Gone

LEMMA RemovalRebuild == ASSUME RemovalInv, Removal!Rebuild PROVE RemovalInv'
<1> USE DEF RemovalInv
<1>1. /\ rmi.mode # "" /\ downEnd = "none"
      /\ UNCHANGED <<rmi, used, query, prune, pruning, asListed, lost, downErr, downEnd>>
  BY DEF Removal!Rebuild
<1>2. PICK i \in Removal!NewIds :
        /\ images[i] = Removal!Gone
        /\ images' = [j \in DOMAIN images |->
             IF j = i THEN [tags |-> {Removal!WebName}, project |-> "p", service |-> "web"]
             ELSE [images[j] EXCEPT !.tags = @ \ {Removal!WebName}]]
  BY DEF Removal!Rebuild, Removal!WebName
<1>3. DOMAIN images = AllIds /\ i \in AllIds /\ i \notin Removal!Ids
  BY RemovalIds DEF RemovalTypes, AllIds
<1>4. Removal!WebName \in Removal!Tags
  BY <1>1 DEF StageRight, Removal!WebName, Removal!Tags
<1>5. /\ images'[i] = [tags |-> {Removal!WebName}, project |-> "p", service |-> "web"]
      /\ images'[i].tags = {Removal!WebName} /\ images'[i].project = "p" /\ images'[i] # Removal!Gone
  <2>1. images'[i] = [tags |-> {Removal!WebName}, project |-> "p", service |-> "web"]
    BY <1>2, <1>3
  <2> QED
    BY <2>1, NewPicture
<1>6. ASSUME NEW j \in AllIds, j # i
      PROVE  /\ images'[j] \in Pictures /\ images'[j].tags = images[j].tags \ {Removal!WebName}
             /\ images'[j].project = images[j].project /\ images'[j].service = images[j].service
  <2>1. images'[j] = [images[j] EXCEPT !.tags = images[j].tags \ {Removal!WebName}]
    BY <1>2, <1>3, <1>6
  <2>2. images[j] \in Pictures
    BY DEF RemovalTypes
  <2> QED
    BY <2>1, <2>2 DEF Pictures
<1>7. images' \in [AllIds -> Pictures]
  <2>1. [tags |-> {Removal!WebName}, project |-> "p", service |-> "web"] \in Pictures
    BY <1>4 DEF Pictures
  <2>2. \A j \in AllIds : images'[j] \in Pictures
    BY <1>5, <1>6, <2>1
  <2>3. images' = [j \in AllIds |-> images'[j]]
    BY <1>2, <1>3
  <2> QED
    BY <2>2, <2>3
<1>8. RemovalTypes'
  BY <1>1, <1>7 DEF RemovalTypes
<1>9. OneHolder(images)' /\ OneHolder(asListed)'
  <2>1. images'[i].tags = {Removal!WebName}
    BY <1>5
  <2>2. \A j, k \in AllIds : j # k => images'[j].tags \cap images'[k].tags = {}
    BY <1>6, <2>1 DEF OneHolder
  <2> QED
    BY <1>1, <2>2 DEF OneHolder
<1>10. \A j \in Removal!Ids : /\ images'[j].tags \subseteq images[j].tags
                              /\ images'[j].project = images[j].project /\ images'[j].service = images[j].service
  BY <1>3, <1>6 DEF AllIds
<1>11. NotYet' /\ Unlisted' /\ StageRight'
  BY <1>1 DEF NotYet, Unlisted, StageRight
<1>12. OnlyLess'
  BY <1>1, <1>10 DEF OnlyLess, Listed
<1>13. PruneRight'
  BY <1>1 DEF PruneRight, Reason, Ours, Special
<1>14. NewRight'
  <2> SUFFICES ASSUME NEW j \in Removal!NewIds
               PROVE  images'[j] = Removal!Gone \/ (images'[j].project = "p" /\ images'[j].tags \subseteq {Removal!WebName})
    BY <1>1 DEF NewRight, Removal!WebName
  <2>1. CASE j = i
    BY <1>5, <2>1
  <2>2. CASE j # i
    <3>1. j \in AllIds
      BY DEF AllIds
    <3>2. CASE images[j] = Removal!Gone
      <4>1. images'[j] = [Removal!Gone EXCEPT !.tags = Removal!Gone.tags \ {Removal!WebName}]
        BY <1>2, <1>3, <2>2, <3>1, <3>2
      <4>2. images'[j] = Removal!Gone
        BY <4>1 DEF Removal!Gone
      <4> QED
        BY <4>2
    <3>3. CASE images[j] # Removal!Gone
      BY <1>6, <2>2, <3>1, <3>3 DEF NewRight
    <3> QED
      BY <3>2, <3>3
  <2> QED
    BY <2>1, <2>2
<1>15. LostRight'
  BY <1>1 DEF LostRight, Removal!Old, Removal!WebName
<1>16. KeptRight'
  <2>1. \A j \in Removal!Ids : \A t \in Removal!Tags : <<t, j>> \in lost' => t \notin images'[j].tags
    BY <1>1, <1>10 DEF KeptRight
  <2>2. ASSUME NEW j \in used, images'[j].tags = {}, NEW t \in Removal!Tags, <<t, j>> \in lost
        PROVE  Removal!TakenByBuild(j)
    <3>1. j \in Removal!Ids /\ j \in AllIds /\ j # i
      BY <1>3 DEF RemovalTypes, AllIds
    <3>2. images[j].tags \subseteq {Removal!WebName}
      BY <1>6, <2>2, <3>1
    <3>3. CASE images[j].tags = {}
      BY <2>2, <3>3 DEF KeptRight
    <3>4. CASE images[j].tags # {}
      <4>1. Removal!WebName \in images[j].tags
        BY <3>2, <3>4
      <4>2. <<Removal!WebName, j>> \notin lost
        BY <1>4, <3>1, <4>1 DEF KeptRight
      <4>3. Listed
        BY <1>1, <2>2 DEF Unlisted, Listed
      <4> QED
        BY <3>1, <4>1, <4>2, <4>3 DEF OnlyLess, Removal!TakenByBuild
    <3> QED
      BY <3>3, <3>4
  <2> QED
    BY <1>1, <2>1, <2>2 DEF KeptRight, Removal!TakenByBuild, Removal!WebName
<1>17. NamedRight' /\ Processed'
  BY <1>1, <1>10 DEF NamedRight, Processed
<1>18. Removal!OnlyItsImages'
  <2>1. \A e \in Removal!Old : e[2] \in Removal!Ids
    BY DEF Removal!Old
  <2> QED
    BY <1>1, <1>10, <2>1 DEF Removal!OnlyItsImages, Removal!Old
<1> QED
  BY <1>1, <1>8, <1>9, <1>11, <1>12, <1>13, <1>14, <1>15, <1>16, <1>17, <1>18

LEMMA RemovalNext == RemovalInv /\ [Removal!Next]_(Removal!vars) => RemovalInv'
<1> SUFFICES ASSUME RemovalInv, [Removal!Next]_(Removal!vars) PROVE RemovalInv'
  OBVIOUS
<1>1. CASE UNCHANGED Removal!vars
  <2>1. RemovalTypes' /\ OneHolder(images)' /\ OneHolder(asListed)'
    BY <1>1 DEF Removal!vars, RemovalInv, RemovalTypes, OneHolder
  <2>2. NotYet' /\ Unlisted' /\ OnlyLess' /\ StageRight'
    BY <1>1 DEF Removal!vars, RemovalInv, NotYet, Unlisted, OnlyLess, Listed, StageRight
  <2>3. PruneRight'
    BY <1>1 DEF Removal!vars, RemovalInv, PruneRight, Reason, Ours, Special
  <2>5. NewRight' /\ LostRight' /\ KeptRight'
    BY <1>1 DEF Removal!vars, RemovalInv, NewRight, LostRight, KeptRight, Removal!TakenByBuild, Removal!Old, Removal!WebName
  <2>4. NamedRight' /\ Processed' /\ Removal!OnlyItsImages'
    BY <1>1 DEF Removal!vars, RemovalInv, NamedRight, Processed, Removal!OnlyItsImages, Removal!Old
  <2> QED
    BY <1>1, <2>1, <2>2, <2>3, <2>4, <2>5 DEF Removal!vars, RemovalInv
<1>2. CASE Removal!Next
  BY <1>2, RemovalDown, RemovalNamed, RemovalLabelled, RemovalImplicit, RemovalListFails, RemovalTakes,
     RemovalTakeFails, RemovalEnds, RemovalRebuild DEF Removal!Next
<1> QED
  BY <1>1, <1>2

LEMMA ImagesAlone ==
  ASSUME [MCNext]_allVars
  PROVE  Image!Next \/ UNCHANGED imageVars
BY DEF MCNext, allVars

LEMMA RemovalAlone ==
  ASSUME [MCNext]_allVars
  PROVE  Removal!Next \/ UNCHANGED removalVars
BY DEF MCNext, allVars

(* Whatever the services want, the registry has and the builds do, if no   *)
(* two bake targets clash: create goes on with an image for each service   *)
(* and true labels, and a pull is honest (build.go, pull.go); and          *)
(* whatever the engine has, for any number of builds meanwhile, down --rmi *)
(* takes only images of the project, and the last name of one in use only  *)
(* if another command's build has taken web's from it (image_pruner.go).   *)
THEOREM ImagesAreRightHolds == MCSpec /\ TargetClash = FALSE => []ImagesAreRight
<1>1. MCInit /\ TargetClash = FALSE => ImagesInv
  BY ImagesInit DEF MCInit
<1>2. ImagesInv /\ [MCNext]_allVars => ImagesInv'
  <2> SUFFICES ASSUME ImagesInv, [MCNext]_allVars PROVE ImagesInv'
    OBVIOUS
  <2>1. Image!Next \/ UNCHANGED Image!vars
    BY ImagesAlone DEF imageVars, Image!vars
  <2> QED
    BY <2>1, ImagesNext
<1>4. MCInit => RemovalInv
  BY RemovalInit DEF MCInit
<1>5. RemovalInv /\ [MCNext]_allVars => RemovalInv'
  <2> SUFFICES ASSUME RemovalInv, [MCNext]_allVars PROVE RemovalInv'
    OBVIOUS
  <2>1. Removal!Next \/ UNCHANGED Removal!vars
    BY RemovalAlone DEF removalVars, Removal!vars
  <2> QED
    BY <2>1, RemovalNext
<1>7. ImagesInv /\ RemovalInv => ImagesAreRight
  BY ImagesInvImplies, RemovalInvImplies DEF ImagesAreRight
<1> QED
  BY <1>1, <1>2, <1>4, <1>5, <1>7, PTL DEF MCSpec, allVars

----------------------------------------------------------------------------
(* The definition a name has in the one file or in the other, and those    *)
(* that are still to be added.                                             *)
Def(kind, n) == [kind |-> kind, name |-> n]
Left(kind)   == {n \in Processes!ProcessNames : Def(kind, n) \in todo}

IsMap == manager = [n \in DOMAIN manager |-> manager[n]]

Inlined == DOMAIN settings.definitions \ Left("inline")

(* While the definitions of the Procfile are added: those that are done    *)
(* are the manager's.                                                      *)
FromProcfile ==
  /\ todo \subseteq Processes!Of("procfile", parsed)
  /\ DOMAIN manager = parsed \ Left("procfile")
  /\ \A n \in DOMAIN manager : manager[n] = Processes!Process(Def("procfile", n))

(* While those of the toml file are: those that are done, and of the       *)
(* others the Procfile's.                                                  *)
FromSettings ==
  /\ settings.enabled /\ Processes!Inlines # {}
  /\ todo \subseteq Processes!Inlines
  /\ DOMAIN manager = parsed \cup Inlined
  /\ \A n \in DOMAIN manager : manager[n] = Processes!Process(Def(IF n \in Inlined THEN "inline" ELSE "procfile", n))
  /\ \A n \in Inlined : settings.definitions[n].command # ""

NothingAdded == parsed = {} /\ todo = {} /\ manager = <<>>

DefinitionsInv ==
  /\ Processes!TypeOK
  /\ IsMap
  /\ FromProcfile \/ FromSettings
  /\ path = <<>> \/ path \in [1..3 -> Processes!Entries]
  /\ IF lines = <<>> THEN NothingAdded /\ loaded = "none" ELSE settings \in Processes!Settings
  /\ Processes!Readable => \A i \in DOMAIN lines : lines[i] \in Processes!Lines
  /\ Processes!AllDefined /\ Processes!FailsForAReason

----
LEMMA SizeRight == ASSUME NEW S PROVE Processes!Cardinality(S) = Cardinality(S)
BY DEF Processes!Cardinality, Cardinality

LEMMA Subsets == ASSUME NEW S \in SUBSET Processes!ProcessNames PROVE IsFiniteSet(S) /\ Processes!Cardinality(S) \in Nat
<1>1. IsFiniteSet({"web", "Web", "job"})
  <2>1. IsFiniteSet({"job"})
    BY FS_Singleton
  <2>2. IsFiniteSet({"job"} \cup {"Web"})
    BY <2>1, FS_AddElement
  <2>3. IsFiniteSet(({"job"} \cup {"Web"}) \cup {"web"})
    BY <2>2, FS_AddElement
  <2>4. ({"job"} \cup {"Web"}) \cup {"web"} = {"web", "Web", "job"}
    OBVIOUS
  <2> QED
    BY <2>3, <2>4
<1>2. IsFiniteSet(S)
  BY <1>1, FS_Subset DEF Processes!ProcessNames
<1> QED
  BY <1>2, FS_CardinalityType, SizeRight

(* Of the names, a set with one more has one more; a larger set has more.  *)
LEMMA OneMore ==
  ASSUME NEW S \in SUBSET Processes!ProcessNames, NEW n \in Processes!ProcessNames
  PROVE  /\ Processes!Cardinality(S) \in Nat
         /\ Processes!Cardinality(S \cup {n}) <= Processes!Cardinality(S) + 1
         /\ n \notin S => Processes!Cardinality(S \cup {n}) = Processes!Cardinality(S) + 1
         /\ Processes!Cardinality({}) = 0
<1>1. IsFiniteSet(S) /\ Processes!Cardinality(S) \in Nat
  BY Subsets
<1>2. Processes!Cardinality(S \cup {n}) = IF n \in S THEN Processes!Cardinality(S) ELSE Processes!Cardinality(S) + 1
  BY <1>1, FS_AddElement, SizeRight
<1> QED
  BY <1>1, <1>2, FS_EmptySet, SizeRight

LEMMA Larger ==
  ASSUME NEW S \in SUBSET Processes!ProcessNames, NEW T \in SUBSET S
  PROVE  Processes!Cardinality(T) <= Processes!Cardinality(S)
BY Subsets, FS_Subset, SizeRight

LEMMA NearestRight ==
  ASSUME NEW S \in SUBSET (1..3)
  PROVE  /\ S = {} => Processes!Nearest(S) = 0
         /\ S # {} => Processes!Nearest(S) \in S /\ \A j \in S : Processes!Nearest(S) <= j
<1>1. S # {} => \E i \in S : \A j \in S : i <= j
  <2>1. CASE 1 \in S
    BY <2>1
  <2>2. CASE 1 \notin S /\ 2 \in S
    BY <2>2
  <2>3. CASE 1 \notin S /\ 2 \notin S
    <3>1. \A j \in S : j = 3
      BY <2>3
    <3>2. S # {} => 3 \in S
      BY <3>1
    <3> QED
      BY <3>1, <3>2
  <2> QED
    BY <2>1, <2>2, <2>3
<1> QED
  BY <1>1 DEF Processes!Nearest

LEMMA PathFound == ASSUME path = <<>> \/ path \in [1..3 -> Processes!Entries] PROVE Processes!NearestIsFound
<1>1. DOMAIN path \subseteq 1..3
  OBVIOUS
<1> DEFINE files  == {i \in DOMAIN path : path[i] = "file"}
           others == {i \in DOMAIN path : path[i] # "nothing"}
<1>2. files \in SUBSET (1..3) /\ others \in SUBSET (1..3) /\ files \subseteq others
  BY <1>1
<1>3. /\ files = {} => Processes!FindProcfile = 0
      /\ files # {} => Processes!FindProcfile \in files /\ \A j \in files : Processes!FindProcfile <= j
  <2>1. Processes!FindProcfile = Processes!Nearest(files)
    BY DEF Processes!FindProcfile
  <2> HIDE DEF files, others
  <2> QED
    BY <1>2, <2>1, NearestRight
<1>4. /\ others = {} => Processes!FindDurableComposeConfig = 0
      /\ others # {} => /\ Processes!FindDurableComposeConfig \in others
                        /\ \A j \in others : Processes!FindDurableComposeConfig <= j
  <2>1. Processes!FindDurableComposeConfig = Processes!Nearest(others)
    BY DEF Processes!FindDurableComposeConfig
  <2> HIDE DEF files, others
  <2> QED
    BY <1>2, <2>1, NearestRight
<1>5. Processes!Applied # 0 => Processes!Applied = Processes!FindDurableComposeConfig /\ Processes!Applied # 0 /\ path[Processes!Applied] = "file"
  BY DEF Processes!Applied
<1>6. Processes!Applied # 0 => Processes!Applied \in files /\ \A j \in files : Processes!Applied <= j
  BY <1>2, <1>4, <1>5
<1> QED
  BY <1>3, <1>6 DEF Processes!NearestIsFound

LEMMA DefinitionsInvImplies == DefinitionsInv => Processes!DefinitionsAreRight
BY PathFound DEF DefinitionsInv, Processes!DefinitionsAreRight

(* What a toml file can have.                                              *)
LEMMA SettingsRight ==
  ASSUME settings \in Processes!Settings
  PROVE  /\ DOMAIN settings.definitions \subseteq Processes!ProcessNames
         /\ \A n \in DOMAIN settings.definitions : settings.definitions[n] \in Processes!Inline
         /\ settings.enabled \in BOOLEAN
         /\ settings.dir \in {"", "default", "missing"}
<1>1. settings.definitions \in Processes!Definitions /\ settings.enabled \in BOOLEAN
      /\ settings.dir \in {"", "default", "missing"}
  BY DEF Processes!Settings
<1>2. PICK S \in SUBSET Processes!ProcessNames :
        settings.definitions \in
          [S -> {d \in Processes!Inline : (d.dir = "own") = (d.env = "own") /\ (d.command = "" => d.dir = "")}]
  BY <1>1 DEF Processes!Definitions
<1> QED
  BY <1>1, <1>2

LEMMA ProcessRight ==
  ASSUME NEW n
  PROVE  /\ Processes!Process(Def("procfile", n)).command = "procfile"
         /\ Processes!Process(Def("procfile", n)).dir = "missing" => settings.dir = "missing"
         /\ Processes!Process(Def("inline", n)).command = settings.definitions[n].command
         /\ settings.definitions[n] \in Processes!Inline /\ Processes!Process(Def("inline", n)).dir = "missing" => settings.dir = "missing"
<1>1. /\ Processes!Process(Def("procfile", n)).command = "procfile"
      /\ Processes!Process(Def("procfile", n)).dir = "missing" => settings.dir = "missing"
  BY DEF Processes!Process, Def, Processes!DefaultDir
<1>2. /\ Processes!Process(Def("inline", n)).command = settings.definitions[n].command
      /\ Processes!Process(Def("inline", n)).dir = "missing" =>
           settings.dir = "missing" \/ settings.definitions[n].dir = "missing"
  BY DEF Processes!Process, Def, Processes!DefaultDir
<1>3. settings.definitions[n] \in Processes!Inline => settings.definitions[n].dir # "missing"
  BY DEF Processes!Inline
<1> QED
  BY <1>1, <1>2, <1>3

LEMMA OfRight ==
  ASSUME NEW kind, NEW S, NEW d \in Processes!Of(kind, S)
  PROVE  d = Def(kind, d.name) /\ d.name \in S /\ d.kind = kind
BY DEF Processes!Of, Def

LEMMA DefinitionsInit == Processes!Init => DefinitionsInv
<1> SUFFICES ASSUME Processes!Init PROVE DefinitionsInv
  OBVIOUS
<1>1. parsed = {} /\ todo = {} /\ manager = <<>> /\ loaded = "none" /\ lines = <<>> /\ path = <<>>
  BY DEF Processes!Init
<1>2. DOMAIN manager = {} /\ DOMAIN lines = {}
  BY <1>1
<1>3. IsMap /\ FromProcfile
  BY <1>1, <1>2 DEF IsMap, FromProcfile
<1>4. Processes!TypeOK
  <2>1. "web" \in Processes!ProcessNames
    BY DEF Processes!ProcessNames
  <2>2. Processes!Cardinality(DOMAIN manager) = 0
    BY <1>2, <2>1, OneMore
  <2> QED
    BY <1>1, <1>2, <2>2, ManagerAssumption DEF Processes!TypeOK
<1> QED
  BY <1>1, <1>2, <1>3, <1>4 DEF DefinitionsInv, NothingAdded, Processes!AllDefined, Processes!FailsForAReason

LEMMA PhaseKept ==
  ASSUME DefinitionsInv, UNCHANGED <<settings, parsed, todo, manager>>, loaded' \in {"none", "nil", "err"}
  PROVE  Processes!TypeOK' /\ IsMap' /\ (FromProcfile \/ FromSettings)'
<1>1. Processes!Inlines' = Processes!Inlines
  BY DEF Processes!Inlines
<1>2. Processes!TypeOK'
  BY <1>1 DEF DefinitionsInv, Processes!TypeOK
<1>3. IsMap'
  BY DEF DefinitionsInv, IsMap
<1>4. \A x : Processes!Process(x)' = Processes!Process(x)
  BY DEF Processes!Process, Processes!DefaultDir
<1>5. Left("procfile")' = Left("procfile") /\ Left("inline")' = Left("inline") /\ Inlined' = Inlined
  BY DEF Left, Inlined
<1>6. FromProcfile => FromProcfile'
  BY <1>4, <1>5 DEF FromProcfile
<1>7. FromSettings => FromSettings'
  BY <1>1, <1>4, <1>5 DEF FromSettings
<1> QED
  BY <1>2, <1>3, <1>6, <1>7 DEF DefinitionsInv

(* What a step that leaves the definitions alone keeps.                    *)
LEMMA DefinitionsKept ==
  ASSUME DefinitionsInv, UNCHANGED <<lines, settings, parsed, todo, manager, loaded>>
  PROVE  Processes!TypeOK' /\ IsMap' /\ (FromProcfile \/ FromSettings)' /\ Processes!AllDefined' /\ Processes!FailsForAReason'
<1>0. loaded' \in {"none", "nil", "err"}
  BY DEF DefinitionsInv, Processes!TypeOK
<1>1. Processes!TypeOK' /\ IsMap' /\ (FromProcfile \/ FromSettings)'
  BY <1>0, PhaseKept
<1>2. Processes!AllDefined'
  <2>1. \A x : Processes!Process(x)' = Processes!Process(x)
    BY DEF Processes!Process, Processes!DefaultDir
  <2> QED
    BY <2>1 DEF DefinitionsInv, Processes!AllDefined
<1>3. Processes!FailsForAReason'
  BY DEF DefinitionsInv, Processes!FailsForAReason, Processes!Readable, Processes!ParseFails, Processes!WrongLine, Processes!Defines, Processes!Earlier, Processes!Parsed
<1> QED
  BY <1>1, <1>2, <1>3

LEMMA SeekKeeps == ASSUME DefinitionsInv, Processes!Seek PROVE DefinitionsInv'
<1>1. path' \in [1..3 -> Processes!Entries] /\ UNCHANGED <<lines, settings, parsed, todo, manager, loaded>>
  BY DEF Processes!Seek
<1> QED
  BY <1>1, DefinitionsKept DEF DefinitionsInv, NothingAdded, Processes!Readable

LEMMA LoadKeeps == ASSUME DefinitionsInv, Processes!Load PROVE DefinitionsInv'
<1>1. /\ settings' \in Processes!Settings
      /\ \/ lines' \in {<<"unnamed">>, <<"missing">>}
         \/ \E k \in 1..MaxLines : lines' \in [1..k -> Processes!Lines]
      /\ lines = <<>>
      /\ UNCHANGED <<path, parsed, todo, manager, loaded>>
  BY DEF Processes!Load
<1>2. NothingAdded /\ loaded = "none" /\ DOMAIN manager = {}
  BY <1>1 DEF DefinitionsInv, NothingAdded
<1>3. lines' # <<>>
  <2>1. CASE lines' \in {<<"unnamed">>, <<"missing">>}
    BY <2>1
  <2>2. ASSUME NEW k \in 1..MaxLines, lines' \in [1..k -> Processes!Lines] PROVE lines' # <<>>
    <3>1. 1 \in DOMAIN lines'
      BY <2>2
    <3> QED
      BY <3>1
  <2> QED
    BY <1>1, <2>1, <2>2
<1>4. Processes!TypeOK'
  BY <1>1, <1>2 DEF DefinitionsInv, Processes!TypeOK, NothingAdded
<1>5. IsMap' /\ FromProcfile'
  BY <1>1, <1>2 DEF DefinitionsInv, IsMap, FromProcfile, NothingAdded
<1>6. Processes!Readable' => \A i \in DOMAIN lines' : lines'[i] \in Processes!Lines
  <2>1. CASE lines' \in {<<"unnamed">>, <<"missing">>}
    BY <2>1 DEF Processes!Readable
  <2>2. ASSUME NEW k \in 1..MaxLines, lines' \in [1..k -> Processes!Lines] PROVE \A i \in DOMAIN lines' : lines'[i] \in Processes!Lines
    BY <2>2
  <2> QED
    BY <1>1, <2>1, <2>2
<1> QED
  BY <1>1, <1>2, <1>3, <1>4, <1>5, <1>6 DEF DefinitionsInv, NothingAdded, Processes!AllDefined, Processes!FailsForAReason

(* What a step that leaves the files and the manager alone keeps.          *)
LEMMA ManagerKept ==
  ASSUME DefinitionsInv, UNCHANGED <<path, lines, settings, parsed, todo, manager>>,
         loaded' \in {"nil", "err"}, lines # <<>>, Processes!AllDefined', Processes!FailsForAReason'
  PROVE  DefinitionsInv'
<1>1. Processes!TypeOK' /\ IsMap' /\ (FromProcfile \/ FromSettings)'
  BY PhaseKept
<1> QED
  BY <1>1 DEF DefinitionsInv, Processes!Readable

LEMMA DisabledKeeps == ASSUME DefinitionsInv, Processes!Disabled PROVE DefinitionsInv'
<1>1. /\ lines # <<>> /\ parsed = {} /\ manager = <<>> /\ ~settings.enabled
      /\ loaded' = "nil" /\ UNCHANGED <<path, lines, settings, parsed, todo, manager>>
  BY DEF Processes!Disabled, Processes!Reading
<1>2. Processes!AllDefined'
  BY <1>1 DEF Processes!AllDefined
<1>3. Processes!FailsForAReason'
  BY <1>1 DEF Processes!FailsForAReason
<1> QED
  BY <1>1, <1>2, <1>3, ManagerKept

LEMMA ProcfileFailsKeeps == ASSUME DefinitionsInv, Processes!ProcfileFails PROVE DefinitionsInv'
<1>1. /\ lines # <<>> /\ (lines = <<"missing">> \/ (Processes!Readable /\ Processes!ParseFails))
      /\ loaded' = "err" /\ UNCHANGED <<path, lines, settings, parsed, todo, manager>>
  BY DEF Processes!ProcfileFails, Processes!Reading, Processes!Fail
<1>2. Processes!AllDefined'
  BY <1>1 DEF Processes!AllDefined
<1>3. Processes!FailsForAReason'
  BY <1>1 DEF Processes!FailsForAReason, Processes!Readable, Processes!ParseFails, Processes!WrongLine, Processes!Defines, Processes!Earlier, Processes!Parsed
<1> QED
  BY <1>1, <1>2, <1>3, ManagerKept

(* Whoever reads on to the end has names only.                             *)
LEMMA ParsedRight ==
  ASSUME ~Processes!ParseFails, \A i \in DOMAIN lines : lines[i] \in Processes!Lines
  PROVE  Processes!Parsed \subseteq Processes!ProcessNames /\ Processes!Parsed # {}
BY DEF Processes!ParseFails, Processes!WrongLine, Processes!Parsed, Processes!Defines, Processes!Lines

LEMMA ReadProcfileKeeps == ASSUME DefinitionsInv, Processes!ReadProcfile PROVE DefinitionsInv'
<1>1. /\ lines # <<>> /\ loaded = "none" /\ parsed = {} /\ todo = {} /\ manager = <<>>
      /\ Processes!Readable /\ ~Processes!ParseFails /\ parsed' = Processes!Parsed /\ todo' = Processes!Of("procfile", Processes!Parsed)
      /\ UNCHANGED <<path, lines, settings, manager, loaded>>
  BY DEF Processes!ReadProcfile, Processes!Reading
<1>2. Processes!Parsed \subseteq Processes!ProcessNames
  BY <1>1, ParsedRight DEF DefinitionsInv
<1>3. Processes!TypeOK'
  <2>1. Processes!Of("procfile", Processes!Parsed) \subseteq Processes!Of("procfile", Processes!ProcessNames)
    BY <1>2 DEF Processes!Of
  <2> QED
    BY <1>1, <1>2, <2>1 DEF DefinitionsInv, Processes!TypeOK
<1>4. IsMap' /\ FromProcfile'
  <2>1. DOMAIN manager = {}
    BY <1>1
  <2>2. Processes!Parsed \subseteq Left("procfile")'
    BY <1>1, <1>2 DEF Left, Processes!Of, Def
  <2> QED
    BY <1>1, <2>1, <2>2 DEF DefinitionsInv, IsMap, FromProcfile
<1> QED
  BY <1>1, <1>3, <1>4 DEF DefinitionsInv, Processes!AllDefined, Processes!FailsForAReason, Processes!Readable

----
(* Where the Procfile's definitions are added.                             *)
LEMMA AddFromProcfile ==
  ASSUME DefinitionsInv, FromProcfile, lines # <<>>, NEW d \in todo, Processes!Add(d)
  PROVE  FromProcfile'
<1>1. d \in Processes!Of("procfile", parsed) /\ d = Def("procfile", d.name) /\ d.name \in parsed
  BY OfRight DEF FromProcfile
<1>2. /\ manager' = [n \in DOMAIN manager \cup {d.name} |-> IF n = d.name THEN Processes!Process(d) ELSE manager[n]]
      /\ todo' = todo \ {d} /\ UNCHANGED <<lines, settings, parsed>>
  BY <1>1, OfRight DEF Processes!Add, Processes!Rest
<1>3. parsed \subseteq Processes!ProcessNames
  BY DEF DefinitionsInv, Processes!TypeOK
<1>4. Left("procfile")' = Left("procfile") \ {d.name}
  BY <1>1, <1>2 DEF Left, Def
<1>5. DOMAIN manager' = parsed' \ Left("procfile")'
  BY <1>1, <1>2, <1>4 DEF FromProcfile
<1>6. \A n : Processes!Process(Def("procfile", n))' = Processes!Process(Def("procfile", n))
  BY <1>2 DEF Processes!Process, Processes!DefaultDir
<1>7. \A n \in DOMAIN manager' : manager'[n] = Processes!Process(Def("procfile", n))'
  BY <1>1, <1>2, <1>6 DEF FromProcfile
<1> QED
  BY <1>2, <1>5, <1>7 DEF FromProcfile

(* Where the toml file's are.                                              *)
LEMMA AddFromSettings ==
  ASSUME DefinitionsInv, FromSettings, lines # <<>>, NEW d \in todo, Processes!Add(d)
  PROVE  FromSettings'
<1>1. d = Def("inline", d.name) /\ d.name \in DOMAIN settings.definitions /\ d.kind = "inline"
  BY OfRight DEF FromSettings, Processes!Inlines
<1>2. /\ manager' = [n \in (DOMAIN manager \ {d.name}) \cup {d.name} |->
                       IF n = d.name THEN Processes!Process(d) ELSE Processes!Without(d.name)[n]]
      /\ todo' = todo \ {d} /\ UNCHANGED <<lines, settings, parsed>> /\ ~Processes!Refused(Processes!Process(d))
  BY <1>1 DEF Processes!Add, Processes!Rest, Processes!Without
<1>3. DOMAIN settings.definitions \subseteq Processes!ProcessNames
  BY SettingsRight DEF DefinitionsInv
<1>4. Inlined' = Inlined \cup {d.name}
  BY <1>1, <1>2, <1>3 DEF Left, Def, Inlined
<1>5. DOMAIN manager' = parsed' \cup Inlined'
  BY <1>1, <1>2, <1>4 DEF FromSettings
<1>6. \A x : Processes!Process(x)' = Processes!Process(x)
  BY <1>2 DEF Processes!Process, Processes!DefaultDir
<1>7. \A n \in DOMAIN manager' :
        manager'[n] = Processes!Process(Def(IF n \in Inlined' THEN "inline" ELSE "procfile", n))
  <2> SUFFICES ASSUME NEW n \in DOMAIN manager'
               PROVE  manager'[n] = Processes!Process(Def(IF n \in Inlined' THEN "inline" ELSE "procfile", n))
    OBVIOUS
  <2>1. CASE n = d.name
    BY <1>1, <1>2, <1>4, <2>1
  <2>2. CASE n # d.name
    <3>1. n \in DOMAIN manager \ {d.name} /\ manager'[n] = manager[n]
      BY <1>2, <2>2 DEF Processes!Without
    <3> QED
      BY <1>4, <2>2, <3>1 DEF FromSettings
  <2> QED
    BY <2>1, <2>2
<1>8. settings.definitions[d.name].command # ""
  BY <1>1, <1>2, ProcessRight DEF Processes!Refused
<1>9. \A n \in Inlined' : settings'.definitions[n].command # ""
  BY <1>2, <1>4, <1>8 DEF FromSettings
<1>10. Processes!Inlines' = Processes!Inlines
  BY <1>2 DEF Processes!Inlines
<1> QED
  BY <1>2, <1>5, <1>6, <1>7, <1>9, <1>10 DEF FromSettings

(* What is to be added has a name of its file, and is no process yet, or   *)
(* one that is removed first.                                              *)
LEMMA AddedRight ==
  ASSUME DefinitionsInv, lines # <<>>, NEW d \in todo
  PROVE  /\ d.name \in Processes!ProcessNames \ DOMAIN Processes!Rest(d)
         /\ DOMAIN Processes!Rest(d) \subseteq DOMAIN manager
         /\ d.name \in parsed \cup DOMAIN settings.definitions
         /\ DOMAIN manager \subseteq parsed \cup DOMAIN settings.definitions
         /\ \/ d = Def("procfile", d.name)
            \/ d = Def("inline", d.name) /\ d.name \in DOMAIN settings.definitions
<1>1. DOMAIN settings.definitions \subseteq Processes!ProcessNames /\ parsed \subseteq Processes!ProcessNames
  BY SettingsRight DEF DefinitionsInv, Processes!TypeOK
<1>2. CASE FromProcfile
  <2>1. d \in Processes!Of("procfile", parsed) /\ d = Def("procfile", d.name) /\ d.name \in parsed /\ d.kind = "procfile"
    BY <1>2, OfRight DEF FromProcfile
  <2>2. d.name \in Left("procfile") /\ Processes!Rest(d) = manager
    BY <1>1, <2>1 DEF Left, Processes!Rest
  <2> QED
    BY <1>1, <1>2, <2>1, <2>2 DEF FromProcfile
<1>3. CASE FromSettings
  <2>1. d = Def("inline", d.name) /\ d.name \in DOMAIN settings.definitions /\ d.kind = "inline"
    BY <1>3, OfRight DEF FromSettings, Processes!Inlines
  <2>2. DOMAIN Processes!Rest(d) = DOMAIN manager \ {d.name}
    BY <2>1 DEF Processes!Rest, Processes!Without
  <2> QED
    BY <1>1, <1>3, <2>1, <2>2 DEF FromSettings, Inlined
<1> QED
  BY <1>2, <1>3 DEF DefinitionsInv

LEMMA AddKeeps ==
  ASSUME DefinitionsInv, lines # <<>>, loaded = "none", NEW d \in todo, Processes!Add(d)
  PROVE  DefinitionsInv'
<1>1. /\ manager' = [n \in DOMAIN Processes!Rest(d) \cup {d.name} |-> IF n = d.name THEN Processes!Process(d) ELSE Processes!Rest(d)[n]]
      /\ todo' = todo \ {d} /\ UNCHANGED <<path, lines, settings, parsed, loaded>> /\ ~Processes!Taken(Processes!Rest(d), d.name)
  BY DEF Processes!Add
<1>2. DOMAIN manager' = DOMAIN Processes!Rest(d) \cup {d.name} /\ IsMap'
  BY <1>1 DEF IsMap
<1>3. /\ d.name \in Processes!ProcessNames \ DOMAIN Processes!Rest(d)
      /\ DOMAIN Processes!Rest(d) \subseteq DOMAIN manager /\ DOMAIN manager \subseteq Processes!ProcessNames
  BY AddedRight DEF DefinitionsInv, Processes!TypeOK
<1>4. Processes!Cardinality(DOMAIN manager') <= MaxInManager
  <2>1. /\ Processes!Cardinality(DOMAIN Processes!Rest(d)) \in Nat
        /\ Processes!Cardinality(DOMAIN Processes!Rest(d) \cup {d.name}) = Processes!Cardinality(DOMAIN Processes!Rest(d)) + 1
    BY <1>3, OneMore
  <2>2. Processes!Cardinality(DOMAIN Processes!Rest(d)) < MaxInManager
    BY <1>1, <2>1, ManagerAssumption DEF Processes!Taken
  <2> QED
    BY <1>2, <2>1, <2>2, ManagerAssumption
<1>5. \A m, n \in DOMAIN manager' : Processes!Lower(m) = Processes!Lower(n) => m = n
  BY <1>1, <1>2, <1>3 DEF DefinitionsInv, Processes!TypeOK, Processes!Taken
<1>6. Processes!TypeOK'
  BY <1>1, <1>2, <1>3, <1>4, <1>5 DEF DefinitionsInv, Processes!TypeOK, Processes!Inlines
<1>7. (FromProcfile \/ FromSettings)'
  BY AddFromProcfile, AddFromSettings DEF DefinitionsInv
<1> QED
  BY <1>1, <1>2, <1>6, <1>7 DEF DefinitionsInv, Processes!AllDefined, Processes!FailsForAReason, Processes!Readable

LEMMA AddFailsKeeps ==
  ASSUME DefinitionsInv, lines # <<>>, NEW d \in todo, Processes!AddFails(d)
  PROVE  DefinitionsInv'
<1>1. /\ loaded' = "err" /\ UNCHANGED <<path, lines, settings, parsed, todo, manager>>
      /\ Processes!Refused(Processes!Process(d)) \/ Processes!Taken(Processes!Rest(d), d.name)
  BY DEF Processes!AddFails, Processes!Fail
<1> DEFINE all == parsed \cup DOMAIN settings.definitions
<1>2. /\ d.name \in all \ DOMAIN Processes!Rest(d)
      /\ DOMAIN Processes!Rest(d) \subseteq all
      /\ all \subseteq Processes!ProcessNames
      /\ \/ d = Def("procfile", d.name)
         \/ d = Def("inline", d.name) /\ d.name \in DOMAIN settings.definitions
  BY AddedRight, SettingsRight DEF DefinitionsInv, Processes!TypeOK
<1>3. ASSUME Processes!Refused(Processes!Process(d)) PROVE Processes!FailsForAReason'
  <2>1. CASE d = Def("procfile", d.name)
    <3>1. settings.dir = "missing"
      BY <1>3, <2>1, ProcessRight DEF Processes!Refused
    <3> QED
      BY <1>1, <3>1 DEF Processes!FailsForAReason
  <2>2. CASE d = Def("inline", d.name) /\ d.name \in DOMAIN settings.definitions
    <3>1. settings.definitions[d.name] \in Processes!Inline
      BY <2>2, SettingsRight DEF DefinitionsInv
    <3>2. settings.definitions[d.name].command = "" \/ settings.dir = "missing"
      BY <1>3, <2>2, <3>1, ProcessRight DEF Processes!Refused
    <3> QED
      BY <1>1, <2>2, <3>2 DEF Processes!FailsForAReason
  <2> QED
    BY <1>2, <2>1, <2>2
<1>4. ASSUME Processes!Cardinality(DOMAIN Processes!Rest(d)) >= MaxInManager PROVE Processes!FailsForAReason'
  <2>1. /\ Processes!Cardinality(DOMAIN Processes!Rest(d)) \in Nat
        /\ Processes!Cardinality(DOMAIN Processes!Rest(d) \cup {d.name}) = Processes!Cardinality(DOMAIN Processes!Rest(d)) + 1
    BY <1>2, OneMore
  <2>2. Processes!Cardinality(DOMAIN Processes!Rest(d) \cup {d.name}) <= Processes!Cardinality(all) /\ Processes!Cardinality(all) \in Nat
    BY <1>2, Larger, OneMore
  <2>3. Processes!Cardinality(all) > MaxInManager
    BY <1>4, <2>1, <2>2, ManagerAssumption
  <2> QED
    BY <1>1, <2>3 DEF Processes!FailsForAReason
<1>5. ASSUME \E n \in DOMAIN Processes!Rest(d) : Processes!Lower(n) = Processes!Lower(d.name) PROVE Processes!FailsForAReason'
  BY <1>1, <1>2, <1>5 DEF Processes!FailsForAReason
<1>6. Processes!FailsForAReason'
  BY <1>1, <1>3, <1>4, <1>5 DEF Processes!Taken
<1>7. Processes!AllDefined'
  BY <1>1 DEF Processes!AllDefined
<1> QED
  BY <1>1, <1>6, <1>7, ManagerKept

LEMMA BeginInlineKeeps == ASSUME DefinitionsInv, Processes!BeginInline PROVE DefinitionsInv'
<1>1. /\ loaded = "none" /\ todo = {} /\ settings.enabled /\ Processes!Inlines # {}
      /\ \A n \in DOMAIN manager : manager[n].command = "procfile"
      /\ todo' = Processes!Inlines /\ UNCHANGED <<path, lines, settings, parsed, manager, loaded>>
      /\ lines = <<"unnamed">> \/ parsed # {}
  BY DEF Processes!BeginInline
<1>2. lines # <<>>
  BY <1>1 DEF DefinitionsInv, NothingAdded
<1>3. /\ DOMAIN settings.definitions \subseteq Processes!ProcessNames
      /\ \A n \in DOMAIN settings.definitions : settings.definitions[n] \in Processes!Inline
  BY <1>2, SettingsRight DEF DefinitionsInv
<1>4. Left("inline") = {} /\ Left("procfile") = {}
  BY <1>1 DEF Left
<1>5. FromProcfile
  <2> SUFFICES ASSUME FromSettings PROVE FALSE
    BY DEF DefinitionsInv
  <2>1. PICK n \in DOMAIN settings.definitions : TRUE
    BY <1>1 DEF Processes!Inlines, Processes!Of
  <2>2. n \in Inlined
    BY <1>4 DEF Inlined
  <2>3. n \in DOMAIN manager /\ manager[n] = Processes!Process(Def("inline", n)) /\ settings.definitions[n].command # ""
    BY <2>2 DEF FromSettings
  <2>4. settings.definitions[n].command = "inline"
    BY <1>3, <2>3 DEF Processes!Inline
  <2> QED
    BY <1>1, <2>3, <2>4, ProcessRight
<1>6. Inlined' = {}
  <2>1. DOMAIN settings.definitions \subseteq Left("inline")'
    BY <1>1, <1>3 DEF Left, Processes!Inlines, Processes!Of, Def
  <2> QED
    BY <1>1, <2>1 DEF Inlined
<1>7. \A x : Processes!Process(x)' = Processes!Process(x)
  BY <1>1 DEF Processes!Process, Processes!DefaultDir
<1>8. Processes!Inlines' = Processes!Inlines
  BY <1>1 DEF Processes!Inlines
<1>9. FromSettings'
  BY <1>1, <1>4, <1>5, <1>6, <1>7, <1>8 DEF FromSettings, FromProcfile
<1>10. Processes!TypeOK' /\ IsMap'
  BY <1>1, <1>8 DEF DefinitionsInv, Processes!TypeOK, IsMap
<1> QED
  BY <1>1, <1>2, <1>9, <1>10 DEF DefinitionsInv, Processes!AllDefined, Processes!FailsForAReason, Processes!Readable

LEMMA LoadedKeeps == ASSUME DefinitionsInv, Processes!Loaded PROVE DefinitionsInv'
<1>1. /\ loaded = "none" /\ todo = {} /\ settings.enabled
      /\ lines = <<"unnamed">> \/ parsed # {}
      /\ Processes!Inlines = {} \/ \E n \in DOMAIN manager : manager[n].command = "inline"
      /\ loaded' = "nil" /\ UNCHANGED <<path, lines, settings, parsed, todo, manager>>
  BY DEF Processes!Loaded
<1>2. lines # <<>>
  BY <1>1 DEF DefinitionsInv, NothingAdded
<1>3. Left("inline") = {} /\ Left("procfile") = {}
  BY <1>1 DEF Left
<1> DEFINE whole == [n \in parsed \cup DOMAIN settings.definitions |->
                       Processes!Process(Def(IF n \in DOMAIN settings.definitions THEN "inline" ELSE "procfile", n))]
<1>4. manager = whole
  <2>1. CASE FromSettings
    <3>1. Inlined = DOMAIN settings.definitions
      BY <1>3 DEF Inlined
    <3> QED
      BY <2>1, <3>1 DEF FromSettings, DefinitionsInv, IsMap
  <2>2. CASE FromProcfile
    <3>1. \A n \in DOMAIN manager : manager[n] = Processes!Process(Def("procfile", n)) /\ manager[n].command = "procfile"
      BY <2>2, ProcessRight DEF FromProcfile
    <3>2. DOMAIN settings.definitions = {}
      BY <1>1, <3>1 DEF Processes!Inlines, Processes!Of
    <3>3. DOMAIN manager = parsed
      BY <1>3, <2>2 DEF FromProcfile
    <3> QED
      BY <3>1, <3>2, <3>3 DEF DefinitionsInv, IsMap
  <2> QED
    BY <2>1, <2>2 DEF DefinitionsInv
<1>5. \A x : Processes!Process(x)' = Processes!Process(x)
  BY <1>1 DEF Processes!Process, Processes!DefaultDir
<1>6. Processes!AllDefined'
  BY <1>1, <1>4, <1>5 DEF Processes!AllDefined, Def
<1>7. Processes!FailsForAReason'
  BY <1>1 DEF Processes!FailsForAReason
<1> QED
  BY <1>1, <1>2, <1>6, <1>7, ManagerKept

LEMMA DefinitionsNext == ASSUME DefinitionsInv, [Processes!Next]_(Processes!vars) PROVE DefinitionsInv'
<1>1. CASE UNCHANGED Processes!vars
  <2>1. UNCHANGED <<path, lines, settings, parsed, todo, manager, loaded>>
    BY <1>1 DEF Processes!vars
  <2> QED
    BY <2>1, DefinitionsKept DEF DefinitionsInv, NothingAdded, Processes!Readable
<1>2. CASE Processes!AddOne
  <2>1. PICK d \in todo : loaded = "none" /\ (Processes!Add(d) \/ Processes!AddFails(d))
    BY <1>2 DEF Processes!AddOne
  <2>2. lines # <<>>
    BY <2>1 DEF DefinitionsInv, NothingAdded
  <2> QED
    BY <2>1, <2>2, AddKeeps, AddFailsKeeps
<1> QED
  BY <1>1, <1>2, SeekKeeps, LoadKeeps, DisabledKeeps, ProcfileFailsKeeps, ReadProcfileKeeps,
     BeginInlineKeeps, LoadedKeeps DEF Processes!Next

LEMMA DefinitionsAlone ==
  ASSUME [MCNext]_allVars
  PROVE  Processes!Next \/ UNCHANGED processVars
BY DEF MCNext, allVars

(* Whatever both files define, in whatever order, and for any limit: a     *)
(* load that succeeds has every process as it is defined, the toml file's  *)
(* where there are two, no two names that differ in case only, and one     *)
(* that fails has a reason: LoadProcessesFromConfig.                       *)
THEOREM DefinitionsAreRightHolds == MCSpec => []DefinitionsAreRight
<1>1. MCInit => DefinitionsInv
  BY DefinitionsInit DEF MCInit
<1>2. DefinitionsInv /\ [MCNext]_allVars => DefinitionsInv'
  <2> SUFFICES ASSUME DefinitionsInv, [MCNext]_allVars PROVE DefinitionsInv'
    OBVIOUS
  <2>1. Processes!Next \/ UNCHANGED Processes!vars
    BY DefinitionsAlone DEF processVars, Processes!vars
  <2> QED
    BY <2>1, DefinitionsNext
<1>3. DefinitionsInv => DefinitionsAreRight
  BY DefinitionsInvImplies DEF DefinitionsAreRight
<1> QED
  BY <1>1, <1>2, <1>3, PTL DEF MCSpec, allVars

----------------------------------------------------------------------------
(* Variables of a visit by the stage it is at.                             *)
Messages   == {"info", "setenv", "error"}
VisitStage == {"idle", "reading", "ended", "writing", "done", "failed"}
ChildState == {Provider!NoChild, "running", "succeeded", "failed", "reaped"}

TaskTypes ==
  /\ verb \in {"none", "up", "down"} /\ users \subseteq Provider!Provided /\ given \subseteq Provider!Options
  /\ metadata = Provider!NoMetadata \/ metadata.required \subseteq metadata.known
  /\ web \in {"none", "created", "removed"} /\ halted \in {"", "failed", "interrupted"}

VisitTypes ==
  /\ visit \in [Provider!Provided -> VisitStage] /\ child \in [Provider!Provided -> ChildState]
  /\ sent \in [Provider!Provided -> Nat] /\ variables \in [Provider!Provided -> Nat] /\ environment \in [Provider!Provided -> Nat]

PipeTypes == pipe \in [Provider!Provided -> Seq(Messages)]

(* No more messages were read than sent.                                   *)
Counted(p) == variables[p] + Len(pipe[p]) <= sent[p]

VisitRight(p) ==
  /\ visit[p] = "idle" => child[p] = Provider!NoChild /\ variables[p] = 0
  /\ visit[p] = "reading" => child[p] \in {"running", "succeeded", "failed"}
  /\ visit[p] \in {"ended", "writing", "done"} => child[p] = "reaped"
  /\ visit[p] = "writing" => p \in users
  /\ visit[p] = "failed" => halted # "" /\ (child[p] \in {Provider!NoChild, "reaped"} \/ sent[p] > 0)
  /\ environment[p] = IF visit[p] = "done" /\ p \in users THEN variables[p] ELSE 0

(* What web is waits for what it depends on, and the other way round.      *)
WebRight ==
  /\ verb = "none" => (\A p \in Provider!Provided : visit[p] = "idle") /\ web = "none" /\ provided = "none"
  /\ verb = "up" /\ web = "created" => \A p \in users : visit[p] = "done"
  /\ verb = "down" /\ web = "created" => \A p \in users : visit[p] = "idle"

ArgsRight ==
  /\ args \subseteq Provider!Options
  /\ visit["db"] # "idle" /\ child["db"] # Provider!NoChild /\ metadata # Provider!NoMetadata =>
       metadata.required \subseteq args /\ args \subseteq metadata.known

ResultRight ==
  /\ provided \in {"none", "nil", "err", "fatal"}
  /\ provided = "nil" => \A p \in Provider!Provided : visit[p] = "done"
  /\ provided = "err" => \A p \in Provider!Provided : visit[p] \in {"idle", "failed", "done"}
  /\ provided = "fatal" => \E p \in Provider!Provided : visit[p] = "writing"

ProvidersInv ==
  /\ TaskTypes /\ VisitTypes /\ PipeTypes
  /\ \A p \in Provider!Provided : VisitRight(p) /\ Counted(p)
  /\ WebRight /\ ArgsRight /\ ResultRight

LEMMA ProvidersInvImplies == ProvidersInv => Provider!ProvidersAreRight
<1> SUFFICES ASSUME ProvidersInv PROVE Provider!ProvidersAreRight
  OBVIOUS
<1> USE DEF ProvidersInv
<1>1. Provider!TypeOK
  <2>1. \A p \in Provider!Provided : variables[p] + Len(pipe[p]) <= sent[p] /\ environment[p] <= variables[p]
    <3> SUFFICES ASSUME NEW p \in Provider!Provided
                 PROVE  variables[p] + Len(pipe[p]) <= sent[p] /\ environment[p] <= variables[p]
      OBVIOUS
    <3>1. variables[p] \in Nat
      BY DEF VisitTypes
    <3>2. environment[p] \in {variables[p], 0}
      BY DEF VisitRight
    <3>3. environment[p] <= variables[p]
      BY <3>1, <3>2
    <3> QED
      BY <3>3 DEF Counted
  <2> QED
    BY <2>1 DEF Provider!TypeOK, VisitTypes, ArgsRight, ResultRight, VisitStage, ChildState
<1>2. Provider!VariablesArrive
  BY DEF Provider!VariablesArrive, VisitRight, WebRight
<1>3. Provider!DependenciesDone
  BY DEF Provider!DependenciesDone, VisitRight, WebRight, TaskTypes
<1>4. Provider!ReleasedLast
  BY DEF Provider!ReleasedLast, VisitRight, WebRight, TaskTypes
<1>5. Provider!OnlyReportersAreLeft
  BY DEF Provider!OnlyReportersAreLeft, Provider!Outlives, VisitRight, ResultRight
<1>6. Provider!SuccessIsClean
  BY DEF Provider!SuccessIsClean, VisitRight, ResultRight
<1>7. Provider!OptionsArePassed
  BY DEF Provider!OptionsArePassed, ArgsRight, Provider!NoneKnown, VisitRight, Provider!Provided
<1>8. Provider!OnlyRacesCrash
  BY DEF Provider!OnlyRacesCrash, VisitRight, ResultRight
<1> QED
  BY <1>1, <1>2, <1>3, <1>4, <1>5, <1>6, <1>7, <1>8 DEF Provider!ProvidersAreRight

(* One pipe changes.                                                       *)
LEMMA PipeChanges ==
  ASSUME NEW S, NEW f \in [Provider!Provided -> S], NEW p \in Provider!Provided, NEW s \in S,
         NEW g, g = [f EXCEPT ![p] = s]
  PROVE  g \in [Provider!Provided -> S] /\ g[p] = s /\ \A q \in Provider!Provided \ {p} : g[q] = f[q]
OBVIOUS

LEMMA EmptyPipe == <<>> \in Seq(Messages) /\ 0 + Len(<<>>) <= 0
<1>1. Len(<<>>) = 0
  OBVIOUS
<1> QED
  BY <1>1

LEMMA ProvidersInit == Provider!Init => ProvidersInv
<1> SUFFICES ASSUME Provider!Init PROVE ProvidersInv
  OBVIOUS
<1> USE DEF Provider!Init
<1>1. TaskTypes
  BY DEF TaskTypes
<1>2. VisitTypes /\ PipeTypes
  <2>1. PipeTypes
    BY EmptyPipe DEF PipeTypes
  <2> QED
    BY <2>1 DEF VisitTypes, VisitStage, ChildState
<1>3. ASSUME NEW p \in Provider!Provided PROVE VisitRight(p) /\ Counted(p)
  <2>1. variables[p] = 0 /\ sent[p] = 0 /\ pipe[p] = <<>>
    OBVIOUS
  <2>2. variables[p] + Len(pipe[p]) <= sent[p]
    BY <2>1, EmptyPipe
  <2> QED
    BY <2>2 DEF VisitRight, Counted
<1>4. WebRight /\ ArgsRight /\ ResultRight
  BY DEF WebRight, ArgsRight, ResultRight
<1> QED
  BY <1>1, <1>2, <1>3, <1>4 DEF ProvidersInv

LEMMA NothingRead ==
  ASSUME ProvidersInv, UNCHANGED <<pipe, sent, variables>>
  PROVE  PipeTypes' /\ \A p \in Provider!Provided : Counted(p)'
BY DEF ProvidersInv, PipeTypes, Counted

LEMMA ProvidersGiven == ASSUME ProvidersInv, Provider!Given PROVE ProvidersInv'
<1> USE DEF ProvidersInv
<1>1. /\ verb = "none" /\ verb' \in {"up", "down"} /\ users' \subseteq Provider!Provided
      /\ given' \subseteq Provider!Options
      /\ web' = IF verb' = "down" THEN "created" ELSE "none"
      /\ UNCHANGED <<args, visit, child, pipe, sent, variables, environment, halted, provided>>
  BY DEF Provider!Given
<1>2. metadata' = Provider!NoMetadata \/ metadata'.required \subseteq metadata'.known
  BY DEF Provider!Given
<1>3. TaskTypes'
  BY <1>1, <1>2 DEF TaskTypes
<1>4. VisitTypes'
  BY <1>1 DEF VisitTypes
<1>5. (\A p \in Provider!Provided : visit[p] = "idle") /\ web = "none" /\ provided = "none"
  BY <1>1 DEF WebRight
<1>6. \A p \in Provider!Provided : VisitRight(p)'
  BY <1>1, <1>5 DEF VisitRight
<1>7. WebRight'
  BY <1>1, <1>5 DEF WebRight
<1>8. ArgsRight' /\ ResultRight'
  BY <1>1, <1>5 DEF ArgsRight, ResultRight, Provider!Provided
<1> QED
  BY <1>1, NothingRead, <1>3, <1>4, <1>6, <1>7, <1>8

LEMMA ProvidersVisit == ASSUME ProvidersInv, NEW p \in Provider!Provided, Provider!Visit(p) PROVE ProvidersInv'
<1> USE DEF ProvidersInv
<1>1. /\ verb # "none" /\ provided = "none" /\ visit[p] = "idle"
      /\ verb = "up" \/ p \notin users \/ web = "removed"
      /\ UNCHANGED <<Provider!task, pipe, sent, variables, environment, web, provided>>
  BY DEF Provider!Visit, Provider!Running, Provider!Turn
<1>2. \/ /\ visit' = [visit EXCEPT ![p] = "reading"] /\ child' = [child EXCEPT ![p] = "running"]
         /\ ~Provider!Missing(p) /\ args' = (IF p = "db" THEN Provider!Passed ELSE args) /\ halted' = halted
      \/ /\ visit' = [visit EXCEPT ![p] = "failed"] /\ halted' = (IF halted = "" THEN "failed" ELSE halted)
         /\ UNCHANGED <<child, args>>
  BY DEF Provider!Visit, Provider!Fail
<1>3. TaskTypes'
  BY <1>1, <1>2 DEF TaskTypes, Provider!task
<1>4. VisitTypes'
  BY <1>1, <1>2 DEF VisitTypes, VisitStage, ChildState
<1>5. ASSUME NEW q \in Provider!Provided PROVE VisitRight(q)'
  BY <1>1, <1>2 DEF VisitRight, Provider!task, VisitTypes, TaskTypes
<1>6. WebRight'
  BY <1>1, <1>2 DEF WebRight, Provider!task, TaskTypes, VisitTypes
<1>7. ArgsRight'
  BY <1>1, <1>2 DEF ArgsRight, Provider!task, Provider!Missing, Provider!Passed, Provider!NoneKnown, TaskTypes, VisitTypes, Provider!Provided, VisitRight
<1>8. ResultRight'
  BY <1>1 DEF ResultRight
<1> QED
  BY <1>1, NothingRead, <1>3, <1>4, <1>5, <1>6, <1>7, <1>8

LEMMA ProvidersSay ==
  ASSUME ProvidersInv, NEW p \in Provider!Provided, NEW m \in Messages, Provider!Say(p, m) PROVE ProvidersInv'
<1> USE DEF ProvidersInv
<1>1. /\ child[p] = "running"
      /\ sent' = [sent EXCEPT ![p] = sent[p] + 1]
      /\ UNCHANGED <<Provider!task, args, visit, child, variables, environment, web, halted, provided>>
  BY DEF Provider!Say
<1>2. pipe[p] \in Seq(Messages) /\ sent[p] \in Nat /\ variables[p] \in Nat
  BY DEF VisitTypes, PipeTypes
<1>3. /\ Append(pipe[p], m) \in Seq(Messages) /\ Len(Append(pipe[p], m)) = Len(pipe[p]) + 1
      /\ Len(pipe[p]) \in Nat
  BY <1>2
<1>4. PICK s \in Seq(Messages) : /\ s \in {Append(pipe[p], m), pipe[p]}
                                 /\ pipe' = [pipe EXCEPT ![p] = s]
  BY <1>2, <1>3 DEF Provider!Say
<1>5. PipeTypes' /\ pipe'[p] = s /\ \A q \in Provider!Provided \ {p} : pipe'[q] = pipe[q]
  BY <1>4, PipeChanges DEF PipeTypes
<1>6. TaskTypes' /\ VisitTypes'
  <2>1. TaskTypes'
    BY <1>1 DEF TaskTypes, Provider!task
  <2>2. sent \in [Provider!Provided -> Nat] /\ sent' \in [Provider!Provided -> Nat]
    BY <1>1 DEF VisitTypes
  <2> QED
    BY <1>1, <2>1, <2>2 DEF VisitTypes
<1>7. ASSUME NEW q \in Provider!Provided PROVE VisitRight(q)' /\ Counted(q)'
  <2>1. CASE q = p
    <3>1. sent'[p] = sent[p] + 1 /\ Len(pipe'[p]) <= Len(pipe[p]) + 1 /\ Len(pipe'[p]) \in Nat
      BY <1>1, <1>2, <1>3, <1>4, <1>5 DEF VisitTypes
    <3>2. variables[p] + Len(pipe[p]) <= sent[p]
      BY DEF Counted
    <3>3. variables'[p] + Len(pipe'[p]) <= sent'[p] /\ sent'[p] > 0
      BY <1>1, <1>2, <1>3, <3>1, <3>2
    <3> QED
      BY <1>1, <2>1, <3>3 DEF VisitRight, Counted, Provider!task
  <2>2. CASE q # p
    BY <1>1, <1>5, <2>2 DEF VisitRight, Counted, Provider!task, VisitTypes
  <2> QED
    BY <2>1, <2>2
<1>8. WebRight' /\ ArgsRight' /\ ResultRight'
  <2>1. WebRight'
    BY <1>1 DEF WebRight, Provider!task, TaskTypes
  <2>2. ArgsRight'
    BY <1>1 DEF ArgsRight, Provider!task
  <2>3. ResultRight'
    BY <1>1 DEF ResultRight, Provider!task
  <2> QED
    BY <2>1, <2>2, <2>3
<1> QED
  BY <1>5, <1>6, <1>7, <1>8

LEMMA ProvidersExit == ASSUME ProvidersInv, NEW p \in Provider!Provided, Provider!Exit(p) \/ Provider!Killed(p) PROVE ProvidersInv'
<1> USE DEF ProvidersInv
<1>1. /\ child[p] = "running"
      /\ \/ child' = [child EXCEPT ![p] = "succeeded"]
         \/ child' = [child EXCEPT ![p] = "failed"]
      /\ UNCHANGED <<Provider!task, args, visit, pipe, sent, variables, environment, web, halted, provided>>
  BY DEF Provider!Exit, Provider!Killed
<1>2. TaskTypes' /\ VisitTypes'
  BY <1>1 DEF TaskTypes, Provider!task, VisitTypes, ChildState
<1>3. ASSUME NEW q \in Provider!Provided PROVE VisitRight(q)'
  BY <1>1 DEF VisitRight, Provider!task, VisitTypes, Provider!NoChild
<1>4. WebRight' /\ ArgsRight' /\ ResultRight'
  <2>1. WebRight'
    BY <1>1 DEF WebRight, Provider!task, VisitTypes, Provider!NoChild, Provider!Provided, TaskTypes
  <2>2. ArgsRight'
    BY <1>1 DEF ArgsRight, Provider!task, VisitTypes, Provider!NoChild, Provider!Provided
  <2>3. ResultRight'
    BY <1>1 DEF ResultRight, Provider!task, VisitTypes, Provider!NoChild, Provider!Provided
  <2> QED
    BY <2>1, <2>2, <2>3
<1> QED
  BY <1>1, NothingRead, <1>2, <1>3, <1>4

LEMMA ProvidersRead == ASSUME ProvidersInv, NEW p \in Provider!Provided, Provider!Read(p) PROVE ProvidersInv'
<1> USE DEF ProvidersInv
<1>1. /\ visit[p] = "reading" /\ pipe[p] # <<>>
      /\ pipe' = [pipe EXCEPT ![p] = Tail(pipe[p])]
      /\ UNCHANGED <<Provider!task, args, child, sent, environment, web, provided>>
  BY DEF Provider!Read
<1>2. \/ UNCHANGED <<visit, halted, variables>>
      \/ variables' = [variables EXCEPT ![p] = variables[p] + 1] /\ UNCHANGED <<visit, halted>>
      \/ /\ visit' = [visit EXCEPT ![p] = "failed"] /\ halted' = (IF halted = "" THEN "failed" ELSE halted)
         /\ UNCHANGED variables
  BY DEF Provider!Read, Provider!Fail
<1>3. pipe[p] \in Seq(Messages) /\ sent[p] \in Nat /\ variables[p] \in Nat
  BY DEF VisitTypes, PipeTypes
<1>4. /\ Tail(pipe[p]) \in Seq(Messages) /\ Len(Tail(pipe[p])) = Len(pipe[p]) - 1
      /\ Len(pipe[p]) \in Nat \ {0}
  BY <1>1, <1>3
<1>5. /\ PipeTypes' /\ pipe'[p] = Tail(pipe[p])
      /\ \A q \in Provider!Provided \ {p} : pipe'[q] = pipe[q]
  BY <1>1, <1>4, PipeChanges DEF PipeTypes
<1>6. TaskTypes'
  BY <1>1, <1>2 DEF TaskTypes, Provider!task
<1>7. VisitTypes'
  <2>1. variables[p] \in Nat /\ variables[p] + 1 \in Nat
    BY <1>3
  <2>2. variables' \in [Provider!Provided -> Nat]
    BY <1>2, <2>1 DEF VisitTypes
  <2>3. visit' \in [Provider!Provided -> VisitStage]
    BY <1>2 DEF VisitTypes, VisitStage
  <2> QED
    BY <1>1, <2>2, <2>3 DEF VisitTypes
<1>8. variables[p] + Len(pipe[p]) <= sent[p] /\ environment[p] = 0
  BY <1>1 DEF VisitRight, Counted
<1>9. variables'[p] + Len(pipe'[p]) <= sent'[p] /\ sent'[p] > 0
  <2>1. variables'[p] \in {variables[p], variables[p] + 1}
    BY <1>2 DEF VisitTypes
  <2>2. Len(pipe'[p]) = Len(pipe[p]) - 1 /\ sent'[p] = sent[p]
    BY <1>1, <1>4, <1>5
  <2>3. Len(pipe[p]) \in Nat \ {0} /\ sent[p] \in Nat /\ variables[p] \in Nat
    BY <1>3, <1>4
  <2> QED
    BY <1>8, <2>1, <2>2, <2>3
<1>10. ASSUME NEW q \in Provider!Provided PROVE VisitRight(q)' /\ Counted(q)'
  <2>1. CASE q = p
    BY <1>1, <1>2, <1>8, <1>9, <2>1 DEF VisitRight, Counted, Provider!task, VisitTypes
  <2>2. CASE q # p
    BY <1>1, <1>2, <1>5, <2>2 DEF VisitRight, Counted, Provider!task, VisitTypes
  <2> QED
    BY <2>1, <2>2
<1>11. WebRight' /\ ArgsRight' /\ ResultRight'
  <2>1. WebRight'
    BY <1>1, <1>2 DEF WebRight, Provider!task, VisitTypes, Provider!Provided, TaskTypes
  <2>2. ArgsRight'
    BY <1>1, <1>2 DEF ArgsRight, Provider!task, VisitTypes, Provider!Provided
  <2>3. ResultRight'
    BY <1>1, <1>2 DEF ResultRight, Provider!task, VisitTypes, Provider!Provided
  <2> QED
    BY <2>1, <2>2, <2>3
<1> QED
  BY <1>5, <1>6, <1>7, <1>10, <1>11

LEMMA ProvidersWait == ASSUME ProvidersInv, NEW p \in Provider!Provided, Provider!Wait(p) PROVE ProvidersInv'
<1> USE DEF ProvidersInv
<1>1. /\ visit[p] = "reading" /\ child' = [child EXCEPT ![p] = "reaped"]
      /\ UNCHANGED <<Provider!task, args, pipe, sent, variables, environment, web, provided>>
      /\ child[p] \in {"succeeded", "failed"}
  BY DEF Provider!Wait
<1>2. \/ visit' = [visit EXCEPT ![p] = "ended"] /\ UNCHANGED halted
      \/ visit' = [visit EXCEPT ![p] = "failed"] /\ halted' = (IF halted = "" THEN "failed" ELSE halted)
  BY DEF Provider!Wait, Provider!Fail
<1>3. TaskTypes' /\ VisitTypes'
  BY <1>1, <1>2 DEF TaskTypes, Provider!task, VisitTypes, ChildState, VisitStage
<1>4. ASSUME NEW q \in Provider!Provided PROVE VisitRight(q)'
  BY <1>1, <1>2 DEF VisitRight, Provider!task, VisitTypes, Provider!NoChild
<1>5. WebRight' /\ ArgsRight' /\ ResultRight'
  <2>1. WebRight'
    BY <1>1, <1>2 DEF WebRight, Provider!task, VisitTypes, Provider!NoChild, Provider!Provided, TaskTypes
  <2>2. ArgsRight'
    BY <1>1, <1>2 DEF ArgsRight, Provider!task, VisitTypes, Provider!NoChild, Provider!Provided
  <2>3. ResultRight'
    BY <1>1, <1>2 DEF ResultRight, Provider!task, VisitTypes, Provider!NoChild, Provider!Provided
  <2> QED
    BY <2>1, <2>2, <2>3
<1> QED
  BY <1>1, NothingRead, <1>3, <1>4, <1>5

LEMMA ProvidersLock == ASSUME ProvidersInv, NEW p \in Provider!Provided, Provider!Lock(p) PROVE ProvidersInv'
<1> USE DEF ProvidersInv
<1>1. /\ visit[p] = "ended" /\ provided = "none" /\ verb # "none"
      /\ \/ visit' = [visit EXCEPT ![p] = "writing"] /\ p \in users
         \/ visit' = [visit EXCEPT ![p] = "done"] /\ p \notin users
      /\ UNCHANGED <<Provider!task, args, child, pipe, sent, variables, environment, web, halted, provided>>
  BY DEF Provider!Lock, Provider!Dependents, Provider!Running
<1>3. TaskTypes' /\ VisitTypes'
  BY <1>1 DEF TaskTypes, Provider!task, VisitTypes, VisitStage
<1>4. ASSUME NEW q \in Provider!Provided PROVE VisitRight(q)'
  BY <1>1 DEF VisitRight, Provider!task, VisitTypes
<1>5. WebRight' /\ ArgsRight' /\ ResultRight'
  <2>1. WebRight'
    BY <1>1 DEF WebRight, Provider!task, VisitTypes, Provider!Provided, TaskTypes
  <2>2. ArgsRight'
    BY <1>1 DEF ArgsRight, Provider!task, VisitTypes, Provider!Provided
  <2>3. ResultRight'
    BY <1>1 DEF ResultRight, Provider!task, VisitTypes, Provider!Provided
  <2> QED
    BY <2>1, <2>2, <2>3
<1> QED
  BY <1>1, NothingRead, <1>3, <1>4, <1>5

LEMMA ProvidersWrite == ASSUME ProvidersInv, NEW p \in Provider!Provided, Provider!Write(p) PROVE ProvidersInv'
<1> USE DEF ProvidersInv
<1>1. /\ visit[p] = "writing" /\ provided = "none" /\ verb # "none"
      /\ environment' = [environment EXCEPT ![p] = variables[p]]
      /\ visit' = [visit EXCEPT ![p] = "done"]
      /\ UNCHANGED <<Provider!task, args, child, pipe, sent, variables, web, halted, provided>>
  BY DEF Provider!Write, Provider!Running
<1>3. TaskTypes' /\ VisitTypes'
  BY <1>1 DEF TaskTypes, Provider!task, VisitTypes, VisitStage
<1>4. ASSUME NEW q \in Provider!Provided PROVE VisitRight(q)'
  BY <1>1 DEF VisitRight, Provider!task, VisitTypes
<1>5. WebRight' /\ ArgsRight' /\ ResultRight'
  <2>1. WebRight'
    BY <1>1 DEF WebRight, Provider!task, VisitTypes, Provider!Provided, TaskTypes
  <2>2. ArgsRight'
    BY <1>1 DEF ArgsRight, Provider!task, VisitTypes, Provider!Provided
  <2>3. ResultRight'
    BY <1>1 DEF ResultRight, Provider!task, VisitTypes, Provider!Provided
  <2> QED
    BY <2>1, <2>2, <2>3
<1> QED
  BY <1>1, NothingRead, <1>3, <1>4, <1>5

(* The steps that begin, end or interrupt the walk.                        *)
LEMMA ProvidersWalk ==
  ASSUME ProvidersInv, Provider!VisitWeb \/ Provider!Interrupt \/ Provider!Finish \/ Provider!Throw PROVE ProvidersInv'
<1> USE DEF ProvidersInv
<1>1. /\ UNCHANGED <<Provider!task, args, visit, child, pipe, sent, variables, environment>>
      /\ verb # "none" /\ provided = "none"
  BY DEF Provider!VisitWeb, Provider!Interrupt, Provider!Finish, Provider!Throw, Provider!Running
<1>2. \/ /\ verb = "up" /\ \A p \in users : visit[p] = "done"
         /\ web' = "created" /\ UNCHANGED <<halted, provided>>
      \/ web' = "removed" /\ UNCHANGED <<halted, provided>>
      \/ halted = "" /\ halted' = "interrupted" /\ UNCHANGED <<web, provided>>
      \/ /\ \A p \in Provider!Provided : visit[p] \in {"idle", "failed", "done"}
         /\ provided' = "err" /\ UNCHANGED <<web, halted>>
      \/ /\ \A p \in Provider!Provided : visit[p] = "done"
         /\ provided' = "nil" /\ UNCHANGED <<web, halted>>
      \/ /\ \E p \in Provider!Provided : visit[p] = "writing"
         /\ provided' = "fatal" /\ UNCHANGED <<web, halted>>
  BY DEF Provider!VisitWeb, Provider!Interrupt, Provider!Finish, Provider!Throw
<1>3. TaskTypes' /\ VisitTypes'
  BY <1>1, <1>2 DEF TaskTypes, Provider!task, VisitTypes
<1>4. ASSUME NEW q \in Provider!Provided PROVE VisitRight(q)'
  BY <1>1, <1>2 DEF VisitRight, Provider!task
<1>5. WebRight' /\ ArgsRight'
  BY <1>1, <1>2 DEF WebRight, ArgsRight, Provider!task
<1>6. ResultRight'
  BY <1>1, <1>2 DEF ResultRight
<1> QED
  BY <1>1, NothingRead, <1>3, <1>4, <1>5, <1>6

LEMMA ProvidersNext == ProvidersInv /\ [Provider!Next]_(Provider!vars) => ProvidersInv'
<1> SUFFICES ASSUME ProvidersInv, [Provider!Next]_(Provider!vars) PROVE ProvidersInv'
  OBVIOUS
<1>1. CASE UNCHANGED Provider!vars
  BY <1>1 DEF Provider!vars, ProvidersInv, TaskTypes, VisitTypes, PipeTypes, Counted, VisitRight, WebRight, ArgsRight, ResultRight
<1>2. CASE Provider!Given \/ Provider!VisitWeb \/ Provider!Interrupt \/ Provider!Finish \/ Provider!Throw
  BY <1>2, ProvidersGiven, ProvidersWalk
<1>3. ASSUME NEW p \in Provider!Provided,
             Provider!Visit(p) \/ Provider!Exit(p) \/ Provider!Killed(p) \/ Provider!Read(p) \/ Provider!Wait(p) \/ Provider!Lock(p) \/ Provider!Write(p)
      PROVE ProvidersInv'
  BY <1>3, ProvidersVisit, ProvidersExit, ProvidersRead, ProvidersWait, ProvidersLock, ProvidersWrite
<1>4. ASSUME NEW p \in Provider!Provided, NEW m \in Messages, Provider!Say(p, m) PROVE ProvidersInv'
  BY <1>4, ProvidersSay
<1> QED
  BY <1>1, <1>2, <1>3, <1>4 DEF Provider!Next, Messages

----------------------------------------------------------------------------
(* ensureModels is right for every set of models, although all goroutines  *)
(* assign to one err and look at it later, in every order of theirs        *)
(* (model.go:62).  What keeps it right is not the variable but that an     *)
(* error is only hidden by a pull that succeeded, and only made up from    *)
(* one that failed (SharedInv); a goroutine that fails cancels the others  *)
(* for good, and the first to fail has a cause (CauseInv); and what a      *)
(* goroutine has done can be told from where it is (StageInv).             *)

Stages == {"idle", "pull", "assign", "check", "configure", "done", "failed"}

TypesInv ==
  /\ Model!TypeOK
  /\ localModels \subseteq Models /\ listed \subseteq localModels
  /\ pullResult \in [Models -> BOOLEAN] /\ err \in BOOLEAN /\ modelFailed \in BOOLEAN
  /\ modelStep \in {"none", "list", "run", "done"}

(* Nothing has happened before the goroutines are started.                 *)
StartInv ==
  /\ modelStep \in {"none", "list"} =>
       /\ urls = "none" /\ ensured = "none" /\ ~modelFailed /\ listed = {}
       /\ \A m \in Models : goroutine[m] = "idle" /\ configured[m] = "no" /\ ~pullResult[m]
  /\ modelStep = "done" => ensured # "none"

StageInv ==
  \A m \in Models :
    /\ goroutine[m] = "done" <=> configured[m] = "yes"
    /\ configured[m] # "no" => goroutine[m] \in {"done", "failed"}
    /\ goroutine[m] = "failed" => modelFailed
    /\ goroutine[m] \in {"pull", "assign", "check"} => m \notin listed
    /\ pullResult[m] => m \in localModels /\ m \in pulls

SomePulled == \E n \in Models : pullResult[n]
Unpulled   == \E n \in Models \ listed : n \notin pulls /\ ~pullResult[n]

(* The shared err.                                                         *)
SharedInv ==
  \A m \in Models :
    /\ goroutine[m] = "assign" /\ ~pullResult[m] => modelFailed \/ m \notin pulls
    /\ goroutine[m] = "check" /\ ~pullResult[m] => err \/ SomePulled
    /\ goroutine[m] = "check" /\ err => modelFailed \/ Unpulled
    /\ goroutine[m] \in {"configure", "done"} => m \in listed \/ pullResult[m] \/ SomePulled

CauseInv ==
  /\ urls \in {"failed", "cancelled"} => modelFailed
  /\ modelFailed => \/ urls = "failed" \/ Unpulled
                    \/ \E m \in Models : configured[m] = "refused"

EndInv ==
  /\ ensured = "nil" => /\ ~modelFailed /\ urls # "none"
                        /\ \A m \in Models : goroutine[m] \in {"done", "failed"}
  /\ ensured = "err" /\ urls # "none" => modelFailed

ModelsInv == TypesInv /\ StartInv /\ StageInv /\ SharedInv /\ CauseInv /\ EndInv /\ Model!KeysAreRemoved

LEMMA InitInv == Model!Init => ModelsInv
BY DEF Model!Init, ModelsInv, TypesInv, Model!TypeOK, StartInv, StageInv, SharedInv, CauseInv, EndInv,
       Model!KeysAreRemoved, SomePulled, Unpulled

(* One lemma for each step of ensureModels, one step for each part.        *)
LEMMA BeginStep ==
  ASSUME ModelsInv, Model!Begin PROVE ModelsInv'
<1> USE DEF ModelsInv
<1>1. TypesInv'
  BY DEF TypesInv, Model!TypeOK, StartInv, Model!Begin
<1>2. StartInv'
  BY DEF TypesInv, Model!TypeOK, StartInv, Model!Begin
<1>3. StageInv'
  BY DEF TypesInv, Model!TypeOK, StartInv, StageInv, Model!Begin
<1>4. SharedInv'
  BY DEF TypesInv, Model!TypeOK, StartInv, StageInv, SharedInv, SomePulled, Unpulled, Model!Begin
<1>5. CauseInv'
  BY DEF TypesInv, Model!TypeOK, StartInv, StageInv, SharedInv, CauseInv, Unpulled, Model!Begin
<1>6. EndInv' /\ Model!KeysAreRemoved'
  BY DEF TypesInv, Model!TypeOK, StartInv, StageInv, CauseInv, EndInv, Model!KeysAreRemoved, Model!Begin
<1> QED
  BY <1>1, <1>2, <1>3, <1>4, <1>5, <1>6

LEMMA CannotBeginStep ==
  ASSUME ModelsInv, Model!CannotBegin PROVE ModelsInv'
<1> USE DEF ModelsInv
<1>1. TypesInv'
  BY DEF TypesInv, Model!TypeOK, Model!CannotBegin
<1>2. StartInv'
  BY DEF TypesInv, Model!TypeOK, StartInv, Model!CannotBegin
<1>3. StageInv'
  BY DEF TypesInv, Model!TypeOK, StartInv, StageInv, Model!CannotBegin
<1>4. SharedInv'
  BY DEF TypesInv, Model!TypeOK, StartInv, StageInv, SharedInv, SomePulled, Unpulled, Model!CannotBegin
<1>5. CauseInv'
  BY DEF TypesInv, Model!TypeOK, StartInv, StageInv, SharedInv, CauseInv, Unpulled, Model!CannotBegin
<1>6. EndInv' /\ Model!KeysAreRemoved'
  BY DEF TypesInv, Model!TypeOK, StartInv, StageInv, CauseInv, EndInv, Model!KeysAreRemoved, Model!CannotBegin
<1> QED
  BY <1>1, <1>2, <1>3, <1>4, <1>5, <1>6

LEMMA ListModelsStep ==
  ASSUME ModelsInv, Model!List PROVE ModelsInv'
<1> USE DEF ModelsInv
<1>1. TypesInv'
  BY DEF TypesInv, Model!TypeOK, Model!List
<1>2. StartInv'
  BY DEF TypesInv, Model!TypeOK, StartInv, Model!List
<1>3. StageInv'
  BY DEF TypesInv, Model!TypeOK, StartInv, StageInv, Model!List
<1>4. SharedInv'
  BY DEF TypesInv, Model!TypeOK, StartInv, StageInv, SharedInv, SomePulled, Unpulled, Model!List
<1>5. CauseInv'
  BY DEF TypesInv, Model!TypeOK, StartInv, StageInv, SharedInv, CauseInv, Unpulled, Model!List
<1>6. EndInv' /\ Model!KeysAreRemoved'
  BY DEF TypesInv, Model!TypeOK, StartInv, StageInv, CauseInv, EndInv, Model!KeysAreRemoved, Model!List
<1> QED
  BY <1>1, <1>2, <1>3, <1>4, <1>5, <1>6

LEMMA VariablesStep ==
  ASSUME ModelsInv, Model!SetModelVariables PROVE ModelsInv'
<1> USE DEF ModelsInv
<1>1. TypesInv'
  BY DEF TypesInv, Model!TypeOK, Model!SetModelVariables, Model!Runs
<1>2. StartInv'
  BY DEF TypesInv, Model!TypeOK, StartInv, Model!SetModelVariables, Model!Runs
<1>3. StageInv'
  BY DEF TypesInv, Model!TypeOK, StartInv, StageInv, Model!SetModelVariables, Model!Runs
<1>4. SharedInv'
  BY DEF TypesInv, Model!TypeOK, StartInv, StageInv, SharedInv, SomePulled, Unpulled, Model!SetModelVariables, Model!Runs
<1>5. CauseInv'
  BY DEF TypesInv, Model!TypeOK, StartInv, StageInv, SharedInv, CauseInv, Unpulled, Model!SetModelVariables, Model!Runs
<1>6. EndInv' /\ Model!KeysAreRemoved'
  BY DEF TypesInv, Model!TypeOK, StartInv, StageInv, CauseInv, EndInv, Model!KeysAreRemoved, Model!SetModelVariables, Model!Runs
<1> QED
  BY <1>1, <1>2, <1>3, <1>4, <1>5, <1>6

LEMMA StartStep ==
  ASSUME ModelsInv, NEW m \in Models, Model!StartModel(m) PROVE ModelsInv'
<1> USE DEF ModelsInv
<1>1. TypesInv'
  BY DEF TypesInv, Model!TypeOK, Model!StartModel, Model!Runs, Model!Goto
<1>2. StartInv'
  BY DEF TypesInv, Model!TypeOK, StartInv, Model!StartModel, Model!Runs, Model!Goto
<1>3. StageInv'
  BY DEF TypesInv, Model!TypeOK, StartInv, StageInv, Model!StartModel, Model!Runs, Model!Goto
<1>4. SharedInv'
  BY DEF TypesInv, Model!TypeOK, StartInv, StageInv, SharedInv, SomePulled, Unpulled, Model!StartModel, Model!Runs, Model!Goto
<1>5. CauseInv'
  BY DEF TypesInv, Model!TypeOK, StartInv, StageInv, SharedInv, CauseInv, Unpulled, Model!StartModel, Model!Runs, Model!Goto
<1>6. EndInv' /\ Model!KeysAreRemoved'
  BY DEF TypesInv, Model!TypeOK, StartInv, StageInv, CauseInv, EndInv, Model!KeysAreRemoved, Model!StartModel, Model!Runs, Model!Goto
<1> QED
  BY <1>1, <1>2, <1>3, <1>4, <1>5, <1>6

LEMMA PullStep ==
  ASSUME ModelsInv, NEW m \in Models, Model!PullModel(m) PROVE ModelsInv'
<1> USE DEF ModelsInv
<1>1. TypesInv'
  BY DEF TypesInv, Model!TypeOK, Model!PullModel, Model!Runs, Model!Goto
<1>2. StartInv'
  BY DEF TypesInv, Model!TypeOK, StartInv, Model!PullModel, Model!Runs, Model!Goto
<1>3. StageInv'
  BY DEF TypesInv, Model!TypeOK, StartInv, StageInv, Model!PullModel, Model!Runs, Model!Goto
<1>4. SharedInv'
  BY DEF TypesInv, Model!TypeOK, StartInv, StageInv, SharedInv, SomePulled, Unpulled, Model!PullModel, Model!Runs, Model!Goto
<1>5. CauseInv'
  BY DEF TypesInv, Model!TypeOK, StartInv, StageInv, SharedInv, CauseInv, Unpulled, Model!PullModel, Model!Runs, Model!Goto
<1>6. EndInv' /\ Model!KeysAreRemoved'
  BY DEF TypesInv, Model!TypeOK, StartInv, StageInv, CauseInv, EndInv, Model!KeysAreRemoved, Model!PullModel, Model!Runs, Model!Goto
<1> QED
  BY <1>1, <1>2, <1>3, <1>4, <1>5, <1>6

LEMMA AssignedStep ==
  ASSUME ModelsInv, NEW m \in Models, Model!Assign(m) PROVE ModelsInv'
<1> USE DEF ModelsInv
<1>1. TypesInv'
  BY DEF TypesInv, Model!TypeOK, Model!Assign, Model!Runs, Model!Goto
<1>2. StartInv'
  BY DEF TypesInv, Model!TypeOK, StartInv, Model!Assign, Model!Runs, Model!Goto
<1>3. StageInv'
  BY DEF TypesInv, Model!TypeOK, StartInv, StageInv, Model!Assign, Model!Runs, Model!Goto
<1>4. SharedInv'
  BY DEF TypesInv, Model!TypeOK, StartInv, StageInv, SharedInv, SomePulled, Unpulled, Model!Assign, Model!Runs, Model!Goto
<1>5. CauseInv'
  BY DEF TypesInv, Model!TypeOK, StartInv, StageInv, SharedInv, CauseInv, Unpulled, Model!Assign, Model!Runs, Model!Goto
<1>6. EndInv' /\ Model!KeysAreRemoved'
  BY DEF TypesInv, Model!TypeOK, StartInv, StageInv, CauseInv, EndInv, Model!KeysAreRemoved, Model!Assign, Model!Runs, Model!Goto
<1> QED
  BY <1>1, <1>2, <1>3, <1>4, <1>5, <1>6

LEMMA CheckStep ==
  ASSUME ModelsInv, NEW m \in Models, Model!CheckPull(m) PROVE ModelsInv'
<1> USE DEF ModelsInv
<1>1. TypesInv'
  BY DEF TypesInv, Model!TypeOK, Model!CheckPull, Model!Runs, Model!Goto, Model!PullFailed
<1>2. StartInv'
  BY DEF TypesInv, Model!TypeOK, StartInv, Model!CheckPull, Model!Runs, Model!Goto, Model!PullFailed
<1>3. StageInv'
  BY DEF TypesInv, Model!TypeOK, StartInv, StageInv, Model!CheckPull, Model!Runs, Model!Goto, Model!PullFailed
<1>4. SharedInv'
  BY DEF TypesInv, Model!TypeOK, StartInv, StageInv, SharedInv, SomePulled, Unpulled, Model!CheckPull, Model!Runs, Model!Goto, Model!PullFailed
<1>5. CauseInv'
  BY DEF TypesInv, Model!TypeOK, StartInv, StageInv, SharedInv, CauseInv, Unpulled, Model!CheckPull, Model!Runs, Model!Goto, Model!PullFailed
<1>6. EndInv' /\ Model!KeysAreRemoved'
  BY DEF TypesInv, Model!TypeOK, StartInv, StageInv, CauseInv, EndInv, Model!KeysAreRemoved, Model!CheckPull, Model!Runs, Model!Goto, Model!PullFailed
<1> QED
  BY <1>1, <1>2, <1>3, <1>4, <1>5, <1>6

LEMMA ConfigureStep ==
  ASSUME ModelsInv, NEW m \in Models, Model!ConfigureModel(m) PROVE ModelsInv'
<1> USE DEF ModelsInv
<1>1. TypesInv'
  BY DEF TypesInv, Model!TypeOK, Model!ConfigureModel, Model!Runs, Model!Goto
<1>2. StartInv'
  BY DEF TypesInv, Model!TypeOK, StartInv, Model!ConfigureModel, Model!Runs, Model!Goto
<1>3. StageInv'
  BY DEF TypesInv, Model!TypeOK, StartInv, StageInv, Model!ConfigureModel, Model!Runs, Model!Goto
<1>4. SharedInv'
  BY DEF TypesInv, Model!TypeOK, StartInv, StageInv, SharedInv, SomePulled, Unpulled, Model!ConfigureModel, Model!Runs, Model!Goto
<1>5. CauseInv'
  BY DEF TypesInv, Model!TypeOK, StartInv, StageInv, SharedInv, CauseInv, Unpulled, Model!ConfigureModel, Model!Runs, Model!Goto
<1>6. EndInv' /\ Model!KeysAreRemoved'
  BY DEF TypesInv, Model!TypeOK, StartInv, StageInv, CauseInv, EndInv, Model!KeysAreRemoved, Model!ConfigureModel, Model!Runs, Model!Goto
<1> QED
  BY <1>1, <1>2, <1>3, <1>4, <1>5, <1>6

LEMMA EndedStep ==
  ASSUME ModelsInv, Model!Ensured PROVE ModelsInv'
<1> USE DEF ModelsInv
<1>1. TypesInv'
  BY DEF TypesInv, Model!TypeOK, Model!Ensured, Model!Runs
<1>2. StartInv'
  BY DEF TypesInv, Model!TypeOK, StartInv, Model!Ensured, Model!Runs
<1>3. StageInv'
  BY DEF TypesInv, Model!TypeOK, StartInv, StageInv, Model!Ensured, Model!Runs
<1>4. SharedInv'
  BY DEF TypesInv, Model!TypeOK, StartInv, StageInv, SharedInv, SomePulled, Unpulled, Model!Ensured, Model!Runs
<1>5. CauseInv'
  BY DEF TypesInv, Model!TypeOK, StartInv, StageInv, SharedInv, CauseInv, Unpulled, Model!Ensured, Model!Runs
<1>6. EndInv' /\ Model!KeysAreRemoved'
  BY DEF TypesInv, Model!TypeOK, StartInv, StageInv, CauseInv, EndInv, Model!KeysAreRemoved, Model!Ensured, Model!Runs
<1> QED
  BY <1>1, <1>2, <1>3, <1>4, <1>5, <1>6

LEMMA ModelsNext == ModelsInv /\ [Model!Next]_(Model!vars) => ModelsInv'
<1> SUFFICES ASSUME ModelsInv, [Model!Next]_(Model!vars) PROVE ModelsInv'
  OBVIOUS
<1>1. CASE UNCHANGED Model!vars
  BY <1>1 DEF Model!vars, ModelsInv, TypesInv, Model!TypeOK, StartInv, StageInv, SharedInv, CauseInv, EndInv,
              Model!KeysAreRemoved, SomePulled, Unpulled
<1>2. CASE Model!Next
  BY <1>2, BeginStep, CannotBeginStep, ListModelsStep, VariablesStep, StartStep, PullStep,
     AssignedStep, CheckStep, ConfigureStep, EndedStep DEF Model!Next
<1> QED
  BY <1>1, <1>2

(* When the goroutines that succeeded have all outcome or found their       *)
(* models, every model is configured; when one has failed, it was for a    *)
(* cause of its own.                                                       *)
LEMMA InvIsEnough == ModelsInv => Model!ModelsAreRight
<1> SUFFICES ASSUME ModelsInv PROVE Model!ModelsAreRight
  OBVIOUS
<1>1. Model!ReadyOnSuccess
  BY DEF ModelsInv, TypesInv, Model!TypeOK, StageInv, SharedInv, CauseInv, EndInv, SomePulled, Model!ReadyOnSuccess
<1>2. Model!ErrorsAreReal
  BY DEF ModelsInv, CauseInv, EndInv, Unpulled, Model!ErrorsAreReal
<1> QED
  BY <1>1, <1>2 DEF ModelsInv, TypesInv, Model!ModelsAreRight

LEMMA ProvidersAlone ==
  ASSUME [MCNext]_allVars
  PROVE  Provider!Next \/ UNCHANGED providerVars
BY DEF MCNext, allVars

LEMMA ModelsAlone ==
  ASSUME [MCNext]_allVars
  PROVE  Model!Next \/ UNCHANGED modelVars
BY DEF MCNext, allVars

(* For any models, in every order of the visits and goroutines and of the  *)
(* messages of the commands: providers are ready before the services that  *)
(* use them, a success has configured every model, and pulled them if no   *)
(* failed pull was overwritten by one that succeeded, a failure has a      *)
(* cause, and keys are left only where models could not be looked at:      *)
(* runPlugin and ensureModels.                                             *)
THEOREM ExtensionsAreRightHolds == MCSpec => []ExtensionsAreRight
<1>1. MCInit => ProvidersInv
  BY ProvidersInit DEF MCInit
<1>2. ProvidersInv /\ [MCNext]_allVars => ProvidersInv'
  <2> SUFFICES ASSUME ProvidersInv, [MCNext]_allVars PROVE ProvidersInv'
    OBVIOUS
  <2>1. Provider!Next \/ UNCHANGED Provider!vars
    BY ProvidersAlone DEF providerVars, Provider!vars
  <2> QED
    BY <2>1, ProvidersNext
<1>4. MCInit => ModelsInv
  BY InitInv DEF MCInit
<1>5. ModelsInv /\ [MCNext]_allVars => ModelsInv'
  <2> SUFFICES ASSUME ModelsInv, [MCNext]_allVars PROVE ModelsInv'
    OBVIOUS
  <2>1. Model!Next \/ UNCHANGED Model!vars
    BY ModelsAlone DEF modelVars, Model!vars
  <2> QED
    BY <2>1, ModelsNext
<1>7. ProvidersInv /\ ModelsInv => ExtensionsAreRight
  BY ProvidersInvImplies, InvIsEnough DEF ExtensionsAreRight
<1> QED
  BY <1>1, <1>2, <1>4, <1>5, <1>7, PTL DEF MCSpec, allVars

----------------------------------------------------------------------------
(* The names of files, a directory, and the files of a version that are    *)
(* written first.                                                          *)
FileNames == {"compose.yaml", "override"}
Dirs      == [made : BOOLEAN, remote : BOOLEAN, files : Seq(FileNames)]
First(k)  == IF k = 0 THEN <<>> ELSE IF k = 1 THEN <<"compose.yaml">> ELSE Remote!Files

RemoteTypes ==
  /\ scheme \in {"none", "git", "oci"} /\ head \in Remote!Versions
  /\ load \in [Remote!Loaders -> {"idle", "resolve", "make", "remote", "write", "read"}]
  /\ version \in [Remote!Loaders -> {0} \cup Remote!Versions] /\ kept \in [Remote!Loaders -> {0} \cup Remote!Versions]
  /\ loadResult \in [Remote!Loaders -> {"none", "file", "err"}]
  /\ written \in [Remote!Loaders -> 0..2]
  /\ faulted \in [Remote!Loaders -> BOOLEAN] /\ faults \in BOOLEAN
  /\ crashes \in Nat
DirTypes ==
  /\ cache \in [Remote!Versions -> Dirs]
  /\ found \in [Remote!Loaders -> Seq(FileNames)]

(* Where a process can be, and what a directory has that is not there.     *)
Places ==
  /\ \A p \in Remote!Loaders :
       /\ load[p] \in {"make", "remote", "write", "read"} => version[p] \in Remote!Versions
       /\ load[p] = "remote" => scheme = "git" /\ cache[version[p]].made
       /\ load[p] \in {"make", "remote"} => written[p] = 0
       /\ load[p] # "idle" => loadResult[p] = "none" /\ scheme # "none"
  /\ \A v \in Remote!Versions : ~cache[v].made => ~cache[v].remote /\ cache[v].files = <<>>
  /\ scheme = "none" =>
       /\ \A v \in Remote!Versions : ~cache[v].made
       /\ \A p \in Remote!Loaders : loadResult[p] = "none" /\ found[p] = <<>>
  /\ scheme = "git" =>
       /\ \A v \in Remote!Versions : Len(cache[v].files) <= 2
       /\ \A p \in Remote!Loaders : Len(found[p]) <= 2

Busy(p, v)    == version[p] = v /\ load[p] \in {"make", "remote", "write"}
Knows(p, v)   == kept[p] = v \/ (version[p] = v /\ load[p] = "read")

(* A version that no two processes have loaded at once is loaded by one,   *)
(* step by step, and known once it is there.                               *)
AloneWith(v) ==
  /\ \A p, q \in Remote!Loaders : Busy(p, v) /\ Busy(q, v) => p = q
  /\ \A p \in Remote!Loaders :
       /\ Busy(p, v) /\ load[p] = "make" => ~cache[v].made
       /\ Busy(p, v) /\ load[p] = "remote" => cache[v].made /\ ~cache[v].remote /\ cache[v].files = <<>>
       /\ Busy(p, v) /\ load[p] = "write" => cache[v].made /\ cache[v].files = First(written[p])
       /\ Knows(p, v) => cache[v].made /\ ~Remote!AtWork(v)
  /\ cache[v].made /\ ~Remote!AtWork(v) =>
       cache[v].files = Remote!Files \/ (scheme = "git" /\ faults /\ cache[v].files = <<>>)

(* Of several that load a commit at once only one gets past git remote add.*)
OneWrites(v) ==
  /\ \A p, q \in Remote!Loaders : Busy(p, v) /\ load[p] = "write" /\ Busy(q, v) /\ load[q] = "write" => p = q
  /\ \A p \in Remote!Loaders :
       /\ Busy(p, v) /\ load[p] = "write" =>
            cache[v].made /\ cache[v].remote /\ cache[v].files = First(written[p])
       /\ Busy(p, v) /\ load[p] = "remote" => cache[v].made
  /\ ~cache[v].remote => cache[v].files = <<>>
  /\ cache[v].made /\ ~cache[v].remote => \E p \in Remote!Loaders : Busy(p, v) /\ load[p] = "remote"
  /\ cache[v].remote /\ (\A p \in Remote!Loaders : ~(Busy(p, v) /\ load[p] = "write")) =>
       cache[v].files = Remote!Files \/ (faults /\ cache[v].files = <<>>)

Unspoilt ==
  /\ \A v \in Remote!Versions \ (shared \cup spoilt) : AloneWith(v)
  /\ scheme = "git" => \A v \in Remote!Versions \ spoilt : OneWrites(v)

RemoteInv ==
  RemoteTypes /\ DirTypes /\ Places /\ Unspoilt /\ Remote!LoadedIsWhole /\ Remote!ErrorsHaveCauses

LEMMA RemoteInvImplies == RemoteInv => Remote!RemoteIsRight
<1> SUFFICES ASSUME RemoteInv PROVE Remote!RemoteIsRight
  OBVIOUS
<1>1. Remote!TypeOK
  BY DEF RemoteInv, RemoteTypes, Places, Remote!TypeOK
<1>2. Remote!GitIsNeverDoubled
  BY DEF RemoteInv, Places, Remote!GitIsNeverDoubled, Remote!Files
<1>3. Remote!CacheIsComplete
  <2> SUFFICES ASSUME NEW v \in Remote!Versions, cache[v].made, ~Remote!AtWork(v), v \notin spoilt
               PROVE  Remote!Complete(v) \/ (scheme = "git" /\ faults) \/ (scheme = "oci" /\ v \in shared)
    BY DEF Remote!CacheIsComplete, RemoteInv, RemoteTypes
  <2>1. CASE v \notin shared
    BY <2>1 DEF RemoteInv, Unspoilt, AloneWith, Remote!Complete
  <2>2. CASE scheme = "git"
    BY <2>2 DEF RemoteInv, Unspoilt, OneWrites, Remote!Complete, Remote!AtWork, Busy
  <2>3. scheme # "none"
    BY DEF RemoteInv, Places
  <2> QED
    BY <2>1, <2>2, <2>3 DEF RemoteInv, RemoteTypes
<1> QED
  BY <1>1, <1>2, <1>3 DEF RemoteInv, Remote!RemoteIsRight

LEMMA RemoteInit == Remote!Init => RemoteInv
<1> SUFFICES ASSUME Remote!Init PROVE RemoteInv
  OBVIOUS
<1>1. RemoteTypes
  <2>1. FALSE \in BOOLEAN /\ 0 \in 0..2 /\ 1 \in Remote!Versions
    BY DEF Remote!Versions
  <2> QED
    BY <2>1 DEF Remote!Init, RemoteTypes
<1>2. DirTypes
  <2>1. Remote!NoDir \in Dirs
    <3>1. FALSE \in BOOLEAN /\ <<>> \in Seq(FileNames)
      OBVIOUS
    <3> QED
      BY <3>1 DEF Remote!NoDir, Dirs
  <2>2. <<>> \in Seq(FileNames)
    OBVIOUS
  <2> QED
    BY <2>1, <2>2 DEF Remote!Init, DirTypes
<1>3. /\ \A v \in Remote!Versions : ~cache[v].made /\ ~cache[v].remote /\ cache[v].files = <<>>
      /\ \A p \in Remote!Loaders : load[p] = "idle" /\ loadResult[p] = "none" /\ found[p] = <<>> /\ kept[p] = 0
  BY DEF Remote!Init, Remote!NoDir
<1>4. Places
  BY <1>3 DEF Remote!Init, Places
<1>5. \A v \in Remote!Versions : AloneWith(v)
  BY <1>3 DEF AloneWith, Busy, Knows, Remote!Versions
<1> QED
  BY <1>1, <1>2, <1>3, <1>4, <1>5 DEF Remote!Init, RemoteInv, Unspoilt, Remote!LoadedIsWhole, Remote!ErrorsHaveCauses

----
(* What a new value of one field leaves of a directory.                    *)
LEMMA DirRight ==
  ASSUME NEW v \in Remote!Versions, DirTypes
  PROVE  /\ cache[v].made \in BOOLEAN /\ cache[v].remote \in BOOLEAN /\ cache[v].files \in Seq(FileNames)
         /\ DOMAIN cache = Remote!Versions
BY DEF DirTypes, Dirs

(* A version that the process of the step has nothing to do with.          *)
OthersStay(p) ==
  \A q \in Remote!Loaders \ {p} :
    load'[q] = load[q] /\ version'[q] = version[q] /\ kept'[q] = kept[q] /\ written'[q] = written[q]

LEMMA AtWorkIs == ASSUME NEW v PROVE Remote!AtWork(v) <=> \E p \in Remote!Loaders : Busy(p, v)
BY DEF Remote!AtWork, Busy

LEMMA AloneElsewhere ==
  ASSUME NEW v, AloneWith(v), NEW p \in Remote!Loaders, OthersStay(p), ~Busy(p, v), ~Busy(p, v)',
         Knows(p, v)' => Knows(p, v), cache'[v] = cache[v], scheme' = scheme, faults => faults'
  PROVE  AloneWith(v)'
<1>1. \A q \in Remote!Loaders : Busy(q, v)' = Busy(q, v) /\ (Knows(q, v)' => Knows(q, v))
  BY DEF OthersStay, Busy, Knows
<1>2. Remote!AtWork(v)' <=> Remote!AtWork(v)
  BY <1>1, AtWorkIs DEF Remote!AtWork, Busy
<1>3. \A q \in Remote!Loaders : Busy(q, v) => q # p /\ load'[q] = load[q] /\ written'[q] = written[q]
  BY DEF OthersStay
<1> QED
  BY <1>1, <1>2, <1>3 DEF AloneWith

LEMMA OneElsewhere ==
  ASSUME NEW v, OneWrites(v), NEW p \in Remote!Loaders, OthersStay(p),
         ~(Busy(p, v) /\ load[p] \in {"remote", "write"}),
         ~(Busy(p, v) /\ load[p] \in {"remote", "write"})',
         cache'[v] = cache[v], faults => faults'
  PROVE  OneWrites(v)'
<1>1. \A q \in Remote!Loaders : /\ (Busy(q, v) /\ load[q] = "write")' <=> (Busy(q, v) /\ load[q] = "write")
                                /\ (Busy(q, v) /\ load[q] = "remote")' <=> (Busy(q, v) /\ load[q] = "remote")
  BY DEF OthersStay, Busy
<1>2. \A q \in Remote!Loaders : Busy(q, v) /\ load[q] = "write" => written'[q] = written[q]
  BY DEF OthersStay
<1>3. \A q, r \in Remote!Loaders : (Busy(q, v) /\ load[q] = "write")' /\ (Busy(r, v) /\ load[r] = "write")' => q = r
  BY <1>1 DEF OneWrites
<1>5. cache'[v].made /\ ~cache'[v].remote => \E q \in Remote!Loaders : (Busy(q, v) /\ load[q] = "remote")'
  BY <1>1 DEF OneWrites
<1>6. cache'[v].remote /\ (\A q \in Remote!Loaders : ~(Busy(q, v) /\ load[q] = "write")') =>
        cache'[v].files = Remote!Files \/ (faults' /\ cache'[v].files = <<>>)
  BY <1>1 DEF OneWrites
<1>7. ~cache'[v].remote => cache'[v].files = <<>>
  BY DEF OneWrites
<1>8. (\A r, q \in Remote!Loaders : Busy(r, v) /\ load[r] = "write" /\ Busy(q, v) /\ load[q] = "write" => r = q)'
  BY <1>3
<1>9. \A q \in Remote!Loaders : (/\ Busy(q, v) /\ load[q] = "write" =>
                                      cache[v].made /\ cache[v].remote /\ cache[v].files = First(written[q])
                                 /\ Busy(q, v) /\ load[q] = "remote" => cache[v].made)'
  <2> SUFFICES ASSUME NEW q \in Remote!Loaders
               PROVE  (/\ Busy(q, v) /\ load[q] = "write" =>
                            cache[v].made /\ cache[v].remote /\ cache[v].files = First(written[q])
                       /\ Busy(q, v) /\ load[q] = "remote" => cache[v].made)'
    OBVIOUS
  <2>1. ASSUME (Busy(q, v) /\ load[q] = "write")'
        PROVE  cache'[v].made /\ cache'[v].remote /\ cache'[v].files = First(written'[q])
    <3>1. Busy(q, v) /\ load[q] = "write"
      BY <1>1, <2>1
    <3>2. cache[v].made /\ cache[v].remote /\ cache[v].files = First(written[q])
      BY <3>1 DEF OneWrites
    <3>3. written'[q] = written[q]
      BY <1>2, <3>1
    <3> QED
      BY <3>2, <3>3
  <2>2. (Busy(q, v) /\ load[q] = "remote")' => cache'[v].made
    BY <1>1 DEF OneWrites
  <2> QED
    BY <2>1, <2>2
<1>10. (cache[v].made /\ ~cache[v].remote => \E q \in Remote!Loaders : Busy(q, v) /\ load[q] = "remote")'
  BY <1>5
<1>11. (cache[v].remote /\ (\A q \in Remote!Loaders : ~(Busy(q, v) /\ load[q] = "write")) =>
          cache[v].files = Remote!Files \/ (faults /\ cache[v].files = <<>>))'
  BY <1>6
<1> QED
  BY <1>7, <1>8, <1>9, <1>10, <1>11 DEF OneWrites

(* What a load that has ended says.                                        *)
LoadResultRight(p) ==
  /\ loadResult[p] = "file" => found[p] = Remote!Files \/ version[p] \in spoilt \cup shared
  /\ loadResult[p] = "err" =>
       faulted[p] \/ version[p] \in spoilt \cup shared \/ (scheme = "git" /\ faults)

LEMMA ResultsKept ==
  ASSUME RemoteInv, NEW p \in Remote!Loaders, LoadResultRight(p)',
         \A q \in Remote!Loaders \ {p} : /\ loadResult'[q] = loadResult[q] /\ found'[q] = found[q]
                                         /\ version'[q] = version[q] /\ faulted'[q] = faulted[q],
         spoilt \subseteq spoilt', shared \subseteq shared', scheme' = scheme, faults => faults'
  PROVE  Remote!LoadedIsWhole' /\ Remote!ErrorsHaveCauses'
BY DEF RemoteInv, LoadResultRight, Remote!LoadedIsWhole, Remote!ErrorsHaveCauses

(* A step of one process that touches no directory, and is at work nowhere.*)
LEMMA IdleStep ==
  ASSUME RemoteInv, NEW p \in Remote!Loaders, OthersStay(p), UNCHANGED <<cache, scheme, spoilt>>,
         shared \subseteq shared', faults => faults',
         \A v \in Remote!Versions \ (shared' \cup spoilt) : ~Busy(p, v) /\ ~Busy(p, v)' /\ (Knows(p, v)' => Knows(p, v)),
         \A v \in Remote!Versions : ~(Busy(p, v) /\ load[p] \in {"remote", "write"})
         /\ ~(Busy(p, v) /\ load[p] \in {"remote", "write"})'
  PROVE  Unspoilt'
<1>1. ASSUME NEW v \in Remote!Versions \ (shared' \cup spoilt) PROVE AloneWith(v)'
  <2>1. AloneWith(v)
    BY DEF RemoteInv, Unspoilt
  <2> QED
    BY <2>1, AloneElsewhere
<1>2. ASSUME NEW v \in Remote!Versions \ spoilt, scheme = "git" PROVE OneWrites(v)'
  <2>1. OneWrites(v)
    BY <1>2 DEF RemoteInv, Unspoilt
  <2> QED
    BY <1>2, <2>1, OneElsewhere
<1> QED
  BY <1>1, <1>2 DEF Unspoilt

LEMMA ChooseKeeps == ASSUME RemoteInv, Remote!Choose PROVE RemoteInv'
<1>1. /\ scheme = "none" /\ scheme' \in {"git", "oci"}
      /\ UNCHANGED <<head, cache, load, version, written, kept, loads, faulted, found, loadResult, faults, crashes, shared, spoilt>>
  BY DEF Remote!Choose
<1>2. /\ \A v \in Remote!Versions : ~cache[v].made /\ ~cache[v].remote /\ cache[v].files = <<>>
      /\ \A p \in Remote!Loaders : loadResult[p] = "none" /\ found[p] = <<>> /\ load[p] = "idle"
  BY <1>1 DEF RemoteInv, Places, RemoteTypes
<1>3. RemoteTypes' /\ DirTypes'
  BY <1>1 DEF RemoteInv, RemoteTypes, DirTypes
<1>4. Places'
  BY <1>1, <1>2 DEF RemoteInv, Places
<1>5. ASSUME NEW v \in Remote!Versions \ (shared \cup spoilt) PROVE AloneWith(v)'
  <2>1. AloneWith(v)
    BY <1>5 DEF RemoteInv, Unspoilt
  <2> QED
    BY <1>1, <1>2, <2>1 DEF AloneWith, Busy, Knows, Remote!AtWork
<1>6. \A v \in Remote!Versions : OneWrites(v)'
  BY <1>1, <1>2 DEF OneWrites, Busy
<1>7. Remote!LoadedIsWhole' /\ Remote!ErrorsHaveCauses'
  BY <1>1, <1>2 DEF Remote!LoadedIsWhole, Remote!ErrorsHaveCauses
<1> QED
  BY <1>1, <1>3, <1>4, <1>5, <1>6, <1>7 DEF RemoteInv, Unspoilt

LEMMA RemoteUnmoved ==
  ASSUME RemoteInv, head' \in Remote!Versions,
         UNCHANGED <<scheme, cache, load, version, written, kept, faulted, found, loadResult, faults, crashes, shared, spoilt>>
  PROVE  RemoteInv'
<1>1. RemoteTypes' /\ DirTypes' /\ Places'
  BY DEF RemoteInv, RemoteTypes, DirTypes, Places
<1>2. Unspoilt'
  BY DEF RemoteInv, Unspoilt, AloneWith, OneWrites, Busy, Knows, Remote!AtWork
<1>3. Remote!LoadedIsWhole' /\ Remote!ErrorsHaveCauses'
  BY DEF RemoteInv, Remote!LoadedIsWhole, Remote!ErrorsHaveCauses
<1> QED
  BY <1>1, <1>2, <1>3 DEF RemoteInv

LEMMA BeginKeeps == ASSUME RemoteInv, NEW p \in Remote!Loaders, Remote!Load(p) PROVE RemoteInv'
<1>1. /\ scheme # "none" /\ load[p] = "idle"
      /\ faulted' = [faulted EXCEPT ![p] = FALSE] /\ found' = [found EXCEPT ![p] = <<>>]
      /\ loadResult' = [loadResult EXCEPT ![p] = "none"] /\ version' = [version EXCEPT ![p] = kept[p]]
      /\ load' = [load EXCEPT ![p] = IF kept[p] # 0 THEN "read" ELSE "resolve"]
      /\ UNCHANGED <<scheme, head, cache, written, kept, faults, crashes, shared, spoilt>>
  BY DEF Remote!Load, Remote!Goto
<1>2. /\ load'[p] = IF kept[p] # 0 THEN "read" ELSE "resolve"
      /\ version'[p] = kept[p] /\ loadResult'[p] = "none" /\ found'[p] = <<>> /\ kept[p] \in {0} \cup Remote!Versions
  BY <1>1 DEF RemoteInv, RemoteTypes, DirTypes
<1>3. OthersStay(p) /\ \A q \in Remote!Loaders \ {p} : /\ loadResult'[q] = loadResult[q] /\ found'[q] = found[q]
                                                       /\ faulted'[q] = faulted[q]
  BY <1>1 DEF RemoteInv, RemoteTypes, DirTypes, OthersStay
<1>4. RemoteTypes'
  <2>1. FALSE \in BOOLEAN
    OBVIOUS
  <2> QED
    BY <1>1, <2>1 DEF RemoteInv, RemoteTypes
<1>5. DirTypes'
  <2>1. <<>> \in Seq(FileNames)
    OBVIOUS
  <2> QED
    BY <1>1, <2>1 DEF RemoteInv, DirTypes
<1>6. Places'
  BY <1>1, <1>2, <1>3 DEF RemoteInv, Places, OthersStay
<1>7. Unspoilt'
  <2>1. \A v \in Remote!Versions : ~Busy(p, v) /\ ~Busy(p, v)' /\ (Knows(p, v)' => Knows(p, v))
    BY <1>1, <1>2 DEF Busy, Knows
  <2> QED
    BY <1>1, <1>3, <2>1, IdleStep
<1>8. Remote!LoadedIsWhole' /\ Remote!ErrorsHaveCauses'
  <2>1. LoadResultRight(p)'
    BY <1>2 DEF LoadResultRight
  <2> QED
    BY <1>1, <1>3, <2>1, ResultsKept DEF OthersStay
<1> QED
  BY <1>4, <1>5, <1>6, <1>7, <1>8 DEF RemoteInv

LEMMA ResolveKeeps == ASSUME RemoteInv, NEW p \in Remote!Loaders, Remote!Resolve(p) PROVE RemoteInv'
<1>1. /\ load[p] = "resolve" /\ head \in Remote!Versions
      /\ version' = [version EXCEPT ![p] = head] /\ written' = [written EXCEPT ![p] = 0]
      /\ shared' = shared \cup {v \in {head} : Remote!AtWork(v)}
      /\ UNCHANGED <<scheme, head, cache, faulted, found, loadResult, faults, crashes, spoilt>>
  BY DEF Remote!Resolve, RemoteInv, RemoteTypes
<1>2. \/ cache[head].made /\ load' = [load EXCEPT ![p] = "read"] /\ kept' = [kept EXCEPT ![p] = head]
      \/ ~cache[head].made /\ load' = [load EXCEPT ![p] = "make"] /\ kept' = kept
  BY DEF Remote!Resolve, Remote!Goto
<1>3. /\ version'[p] = head /\ written'[p] = 0
      /\ \/ cache[head].made /\ load'[p] = "read" /\ kept'[p] = head
         \/ ~cache[head].made /\ load'[p] = "make" /\ kept'[p] = kept[p]
  BY <1>1, <1>2 DEF RemoteInv, RemoteTypes
<1>4. OthersStay(p)
  BY <1>1, <1>2 DEF RemoteInv, RemoteTypes, OthersStay
<1>5. RemoteTypes'
  <2>1. /\ load' \in [Remote!Loaders -> {"idle", "resolve", "make", "remote", "write", "read"}]
        /\ kept' \in [Remote!Loaders -> {0} \cup Remote!Versions]
    BY <1>1, <1>2 DEF RemoteInv, RemoteTypes
  <2>2. version' \in [Remote!Loaders -> {0} \cup Remote!Versions] /\ written' \in [Remote!Loaders -> 0..2]
    BY <1>1 DEF RemoteInv, RemoteTypes
  <2> QED
    BY <1>1, <2>1, <2>2 DEF RemoteInv, RemoteTypes
<1>6. DirTypes'
  BY <1>1 DEF RemoteInv, DirTypes
<1>7. loadResult[p] = "none" /\ scheme # "none"
  BY <1>1 DEF RemoteInv, Places
<1>8. Places'
  BY <1>1, <1>3, <1>4, <1>7 DEF RemoteInv, Places, OthersStay
<1>9. Unspoilt'
  <2>1. ASSUME NEW v \in Remote!Versions \ (shared' \cup spoilt), v # head PROVE AloneWith(v)'
    <3>1. AloneWith(v)
      BY <1>1 DEF RemoteInv, Unspoilt
    <3>2. ~Busy(p, v) /\ ~Busy(p, v)' /\ (Knows(p, v)' => Knows(p, v))
      BY <1>1, <1>3, <2>1 DEF Busy, Knows
    <3> QED
      BY <1>1, <1>4, <3>1, <3>2, AloneElsewhere
  <2>2. ASSUME NEW v \in Remote!Versions \ (shared' \cup spoilt), v = head PROVE AloneWith(v)'
    <3>1. AloneWith(v) /\ ~Remote!AtWork(v)
      BY <1>1, <2>2 DEF RemoteInv, Unspoilt
    <3>2. \A q \in Remote!Loaders : Busy(q, v)' => q = p
      BY <1>4, <3>1 DEF OthersStay, Remote!AtWork, Busy
    <3>3. \A q \in Remote!Loaders \ {p} : Knows(q, v)' => cache[v].made
      BY <1>4, <3>1 DEF OthersStay, Knows, AloneWith
    <3>4. CASE cache[v].made
      <4>1. \A q \in Remote!Loaders : ~Busy(q, v)'
        BY <1>3, <2>2, <3>2, <3>4 DEF Busy
      <4>2. ~Remote!AtWork(v)'
        BY <4>1 DEF Remote!AtWork, Busy
      <4> QED
        BY <1>1, <3>1, <3>4, <4>1, <4>2 DEF AloneWith
    <3>5. CASE ~cache[v].made
      <4>1. ~Knows(p, v)
        BY <3>1, <3>5 DEF AloneWith
      <4>2. load'[p] = "make" /\ ~Knows(p, v)'
        BY <1>3, <2>2, <3>5, <4>1 DEF Knows
      <4> QED
        BY <1>1, <3>2, <3>3, <3>5, <4>2 DEF AloneWith
    <3> QED
      BY <3>4, <3>5
  <2>3. ASSUME NEW v \in Remote!Versions \ spoilt, scheme = "git" PROVE OneWrites(v)'
    <3>1. OneWrites(v)
      BY <2>3 DEF RemoteInv, Unspoilt
    <3>2. load[p] \notin {"remote", "write"} /\ load'[p] \notin {"remote", "write"}
      BY <1>1, <1>3
    <3> QED
      BY <1>1, <1>4, <3>1, <3>2, OneElsewhere
  <2> QED
    BY <1>1, <2>1, <2>2, <2>3 DEF Unspoilt
<1>10. Remote!LoadedIsWhole' /\ Remote!ErrorsHaveCauses'
  <2>1. LoadResultRight(p)'
    BY <1>1, <1>7 DEF LoadResultRight
  <2> QED
    BY <1>1, <1>4, <2>1, ResultsKept DEF OthersStay
<1> QED
  BY <1>5, <1>6, <1>8, <1>9, <1>10 DEF RemoteInv

(* A step of one process that is at work at one version.                   *)
LEMMA WorkStep ==
  ASSUME RemoteInv, NEW p \in Remote!Loaders, NEW v \in Remote!Versions, OthersStay(p),
         version[p] = v, version'[p] = v, kept'[p] \in {kept[p], v},
         \A w \in Remote!Versions \ {v} : cache'[w] = cache[w],
         UNCHANGED <<scheme, shared, spoilt>>, faults => faults',
         v \notin spoilt /\ v \notin shared => AloneWith(v)',
         v \notin spoilt /\ scheme = "git" => OneWrites(v)'
  PROVE  Unspoilt'
<1>1. ASSUME NEW w \in Remote!Versions \ {v}
      PROVE  ~Busy(p, w) /\ ~Busy(p, w)' /\ (Knows(p, w)' => Knows(p, w))
  BY DEF Busy, Knows
<1>2. ASSUME NEW w \in Remote!Versions \ (shared \cup spoilt), w # v PROVE AloneWith(w)'
  <2>1. AloneWith(w)
    BY DEF RemoteInv, Unspoilt
  <2> QED
    BY <1>1, <1>2, <2>1, AloneElsewhere
<1>3. ASSUME NEW w \in Remote!Versions \ spoilt, scheme = "git", w # v PROVE OneWrites(w)'
  <2>1. OneWrites(w)
    BY <1>3 DEF RemoteInv, Unspoilt
  <2> QED
    BY <1>1, <1>3, <2>1, OneElsewhere
<1> QED
  BY <1>2, <1>3 DEF Unspoilt

LEMMA MakeKeeps == ASSUME RemoteInv, NEW p \in Remote!Loaders, Remote!Make(p) PROVE RemoteInv'
<1> DEFINE v == version[p]
<1>1. /\ load[p] = "make" /\ cache' = [cache EXCEPT ![version[p]].made = TRUE]
      /\ load' = [load EXCEPT ![p] = IF scheme = "git" THEN "remote" ELSE "write"]
      /\ UNCHANGED <<scheme, head, version, written, kept, faulted, found, loadResult, faults, crashes, shared, spoilt>>
  BY DEF Remote!Make, Remote!Goto
<1>2. v \in Remote!Versions /\ written[p] = 0 /\ loadResult[p] = "none" /\ scheme # "none"
  BY <1>1 DEF RemoteInv, Places
<1>3. /\ cache'[v].made /\ cache'[v].remote = cache[v].remote /\ cache'[v].files = cache[v].files
      /\ cache'[v] \in Dirs
      /\ \A w \in Remote!Versions \ {v} : cache'[w] = cache[w]
  <2>1. cache[v] \in Dirs /\ DOMAIN cache = Remote!Versions /\ TRUE \in BOOLEAN
    BY <1>2 DEF RemoteInv, DirTypes
  <2>2. cache'[v] = [cache[v] EXCEPT !.made = TRUE]
    BY <1>1, <1>2, <2>1
  <2> QED
    BY <1>1, <1>2, <2>1, <2>2 DEF Dirs
<1>4. load'[p] = (IF scheme = "git" THEN "remote" ELSE "write") /\ OthersStay(p)
  BY <1>1 DEF RemoteInv, RemoteTypes, OthersStay
<1>5. RemoteTypes'
  BY <1>1 DEF RemoteInv, RemoteTypes
<1>6. DirTypes'
  BY <1>1, <1>2, <1>3 DEF RemoteInv, DirTypes
<1>7. Places'
  <2> HIDE DEF v
  <2>0. \A q \in Remote!Loaders : load'[q] = "remote" => scheme = "git" /\ cache'[version[q]].made
    <3>1. ASSUME NEW q \in Remote!Loaders, q # p, load'[q] = "remote" PROVE scheme = "git" /\ cache'[version[q]].made
      <4>1. load[q] = "remote" /\ version[q] \in Remote!Versions /\ cache[version[q]].made /\ scheme = "git"
        BY <1>4, <3>1 DEF RemoteInv, Places, OthersStay
      <4> QED
        BY <1>3, <4>1
    <3>2. load'[p] = "remote" => scheme = "git" /\ cache'[version[p]].made
      BY <1>3, <1>4 DEF v
    <3> QED
      BY <3>1, <3>2
  <2>1. \A q \in Remote!Loaders : /\ load'[q] \in {"make", "remote", "write", "read"} => version[q] \in Remote!Versions
                                  /\ load'[q] \in {"make", "remote"} => written[q] = 0
                                  /\ load'[q] # "idle" => loadResult[q] = "none" /\ scheme # "none"
    BY <1>1, <1>2, <1>4 DEF RemoteInv, Places, OthersStay, v
  <2>2. \A w \in Remote!Versions : ~cache'[w].made => ~cache'[w].remote /\ cache'[w].files = <<>>
    BY <1>3 DEF RemoteInv, Places
  <2>3. scheme = "git" => \A w \in Remote!Versions : Len(cache'[w].files) <= 2
    BY <1>3 DEF RemoteInv, Places
  <2> QED
    BY <1>1, <1>2, <2>0, <2>1, <2>2, <2>3 DEF RemoteInv, Places
<1>8. Unspoilt'
  <2>1. PICK w \in Remote!Versions : w = v
    BY <1>2
  <2>2. Busy(p, w) /\ Busy(p, w)' /\ Remote!AtWork(w) /\ Remote!AtWork(w)'
    BY <1>1, <1>4, <2>1 DEF Busy, Remote!AtWork
  <2>3. ASSUME w \notin spoilt, w \notin shared PROVE AloneWith(w)'
    <3>1. AloneWith(w) /\ ~cache[w].made
      BY <1>1, <2>1, <2>2, <2>3 DEF RemoteInv, Unspoilt, AloneWith
    <3>2. ~cache[w].remote /\ cache[w].files = <<>>
      BY <3>1 DEF RemoteInv, Places
    <3>3. \A q \in Remote!Loaders : (Busy(q, w)' => q = p) /\ ~Knows(q, w)
      BY <1>4, <2>2, <3>1 DEF OthersStay, Busy, AloneWith
    <3>4. \A q \in Remote!Loaders : ~Knows(q, w)'
      BY <1>1, <1>4, <3>3 DEF OthersStay, Knows
    <3> QED
      BY <1>1, <1>2, <1>3, <1>4, <2>1, <2>2, <3>2, <3>3, <3>4 DEF AloneWith, First
  <2>4. ASSUME w \notin spoilt, scheme = "git" PROVE OneWrites(w)'
    <3>1. OneWrites(w)
      BY <2>4 DEF RemoteInv, Unspoilt
    <3>2. \A q \in Remote!Loaders : (Busy(q, w) /\ load[q] = "write")' <=> (Busy(q, w) /\ load[q] = "write")
      BY <1>1, <1>4, <2>4 DEF OthersStay, Busy
    <3>3. load'[p] = "remote"
      BY <1>4, <2>4
    <3> QED
      BY <1>1, <1>3, <2>1, <2>2, <3>1, <3>2, <3>3 DEF OneWrites
  <2> QED
    BY <1>1, <1>3, <1>4, <2>1, <2>3, <2>4, WorkStep
<1>9. Remote!LoadedIsWhole' /\ Remote!ErrorsHaveCauses'
  BY <1>1 DEF RemoteInv, Remote!LoadedIsWhole, Remote!ErrorsHaveCauses
<1> QED
  BY <1>5, <1>6, <1>7, <1>8, <1>9 DEF RemoteInv

LEMMA AddRemoteKeeps == ASSUME RemoteInv, NEW p \in Remote!Loaders, Remote!AddRemote(p) PROVE RemoteInv'
<1> DEFINE v == version[p]
<1>1. /\ load[p] = "remote"
      /\ UNCHANGED <<scheme, head, version, written, kept, faulted, found, faults, crashes, shared, spoilt>>
      /\ \/ /\ cache[v].remote /\ cache' = cache
            /\ load' = [load EXCEPT ![p] = "idle"] /\ loadResult' = [loadResult EXCEPT ![p] = "err"]
         \/ /\ ~cache[v].remote /\ cache' = [cache EXCEPT ![version[p]].remote = TRUE]
            /\ load' = [load EXCEPT ![p] = "write"] /\ loadResult' = loadResult
  BY DEF Remote!AddRemote, Remote!Ends, Remote!Goto
<1>2. v \in Remote!Versions /\ written[p] = 0 /\ loadResult[p] = "none" /\ scheme = "git"
  BY <1>1 DEF RemoteInv, Places
<1>3. PICK w \in Remote!Versions : w = v
  BY <1>2
<1>4. Busy(p, w) /\ Remote!AtWork(w)
  BY <1>1, <1>3 DEF Busy, Remote!AtWork
<1>5. RemoteTypes'
  <2>1. load' \in [Remote!Loaders -> {"idle", "resolve", "make", "remote", "write", "read"}]
        /\ loadResult' \in [Remote!Loaders -> {"none", "file", "err"}]
    BY <1>1 DEF RemoteInv, RemoteTypes
  <2> QED
    BY <1>1, <2>1 DEF RemoteInv, RemoteTypes
<1>6. OthersStay(p) /\ \A q \in Remote!Loaders \ {p} : loadResult'[q] = loadResult[q]
  BY <1>1 DEF RemoteInv, RemoteTypes, OthersStay
<1>7. CASE cache[v].remote
  <2>1. cache' = cache /\ load'[p] = "idle" /\ loadResult'[p] = "err"
    BY <1>1, <1>7 DEF RemoteInv, RemoteTypes
  <2>2. DirTypes' /\ Places'
    <3>1. DirTypes'
      BY <1>1, <2>1 DEF RemoteInv, DirTypes
    <3>2. \A q \in Remote!Loaders : /\ load'[q] \in {"make", "remote", "write", "read"} => version[q] \in Remote!Versions
                                    /\ load'[q] = "remote" => scheme = "git" /\ cache[version[q]].made
                                    /\ load'[q] \in {"make", "remote"} => written[q] = 0
                                    /\ load'[q] # "idle" => loadResult'[q] = "none" /\ scheme # "none"
      BY <1>6, <2>1 DEF RemoteInv, Places, OthersStay
    <3> QED
      BY <1>1, <1>2, <2>1, <3>1, <3>2 DEF RemoteInv, Places
  <2>3. w \in spoilt \cup shared
    BY <1>1, <1>3, <1>4, <1>7 DEF RemoteInv, Unspoilt, AloneWith
  <2>4. ASSUME w \notin spoilt, scheme = "git" PROVE OneWrites(w)'
    <3>1. OneWrites(w)
      BY <2>4 DEF RemoteInv, Unspoilt
    <3>2. \A q \in Remote!Loaders : /\ (Busy(q, w) /\ load[q] = "write")' <=> (Busy(q, w) /\ load[q] = "write")
                                    /\ (Busy(q, w) /\ load[q] = "remote")' => (Busy(q, w) /\ load[q] = "remote")
      BY <1>1, <1>6, <2>1 DEF OthersStay, Busy
    <3> QED
      BY <1>1, <1>3, <1>7, <2>1, <3>1, <3>2 DEF OneWrites
  <2>5. Unspoilt'
    BY <1>1, <1>3, <1>6, <2>1, <2>3, <2>4, WorkStep
  <2>6. Remote!LoadedIsWhole' /\ Remote!ErrorsHaveCauses'
    <3>1. LoadResultRight(p)'
      BY <1>1, <1>3, <2>1, <2>3 DEF LoadResultRight, RemoteInv, RemoteTypes
    <3> QED
      BY <1>1, <1>6, <3>1, ResultsKept DEF OthersStay
  <2> QED
    BY <1>5, <2>2, <2>5, <2>6 DEF RemoteInv
<1>8. CASE ~cache[v].remote
  <2>1. /\ cache' = [cache EXCEPT ![version[p]].remote = TRUE]
        /\ load' = [load EXCEPT ![p] = "write"] /\ loadResult' = loadResult /\ load'[p] = "write"
    BY <1>1, <1>8 DEF RemoteInv, RemoteTypes
  <2>2. /\ cache'[w].remote /\ cache'[w].made = cache[w].made /\ cache'[w].files = cache[w].files
        /\ cache'[w] \in Dirs
        /\ \A x \in Remote!Versions \ {w} : cache'[x] = cache[x]
    <3>1. cache[w] \in Dirs /\ DOMAIN cache = Remote!Versions /\ TRUE \in BOOLEAN
      BY DEF RemoteInv, DirTypes
    <3>2. cache'[w] = [cache[w] EXCEPT !.remote = TRUE]
      BY <1>3, <2>1, <3>1
    <3> QED
      BY <1>3, <2>1, <3>1, <3>2 DEF Dirs
  <2>3. DirTypes'
    BY <1>1, <1>3, <2>1, <2>2 DEF RemoteInv, DirTypes
  <2>4. cache[w].made
    BY <1>1, <1>3 DEF RemoteInv, Places
  <2>5. Unspoilt'
    <3>1. Busy(p, w)' /\ Remote!AtWork(w)'
      BY <1>1, <1>3, <2>1 DEF Busy, Remote!AtWork
    <3>2. ASSUME w \notin spoilt, w \notin shared PROVE AloneWith(w)'
      <4>1. AloneWith(w)
        BY <3>2 DEF RemoteInv, Unspoilt
      <4>2. cache[w].made /\ cache[w].files = <<>>
        BY <1>1, <1>4, <4>1 DEF AloneWith
      <4>3. \A q \in Remote!Loaders : (Busy(q, w)' => q = p) /\ ~Knows(q, w)
        BY <1>4, <1>6, <4>1 DEF OthersStay, Busy, AloneWith
      <4>4. \A q \in Remote!Loaders : ~Knows(q, w)'
        BY <1>1, <1>6, <2>1, <4>3 DEF OthersStay, Knows
      <4> QED
        BY <1>1, <1>2, <2>1, <2>2, <3>1, <4>2, <4>3, <4>4 DEF AloneWith, First
    <3>3. ASSUME w \notin spoilt, scheme = "git" PROVE OneWrites(w)'
      <4>1. OneWrites(w) /\ cache[w].files = <<>> /\ cache[w].made
        BY <1>1, <1>3, <1>4, <1>8, <3>3 DEF RemoteInv, Unspoilt, OneWrites
      <4>2. \A q \in Remote!Loaders : ~(Busy(q, w) /\ load[q] = "write")
        BY <1>3, <1>8, <4>1 DEF OneWrites
      <4>3. \A q \in Remote!Loaders : (Busy(q, w) /\ load[q] = "write")' <=> q = p
        BY <1>6, <2>1, <3>1, <4>2 DEF OthersStay, Busy
      <4> QED
        BY <1>1, <1>2, <2>2, <4>1, <4>3 DEF OneWrites, First
    <3> QED
      BY <1>1, <1>3, <1>6, <2>2, <3>2, <3>3, WorkStep
  <2>6. Places'
    <3>1. \A q \in Remote!Loaders : load'[q] = "remote" => scheme = "git" /\ cache'[version[q]].made
      <4>1. ASSUME NEW q \in Remote!Loaders, load'[q] = "remote" PROVE scheme = "git" /\ cache'[version[q]].made
        <5>1. load[q] = "remote" /\ version[q] \in Remote!Versions /\ cache[version[q]].made /\ scheme = "git"
          BY <1>6, <2>1, <4>1 DEF RemoteInv, Places, OthersStay
        <5> QED
          BY <2>2, <2>4, <5>1
      <4> QED
        BY <4>1
    <3>2. \A q \in Remote!Loaders : /\ load'[q] \in {"make", "remote", "write", "read"} => version[q] \in Remote!Versions
                                    /\ load'[q] \in {"make", "remote"} => written[q] = 0
                                    /\ load'[q] # "idle" => loadResult[q] = "none" /\ scheme # "none"
      BY <1>1, <1>2, <1>6, <2>1 DEF RemoteInv, Places, OthersStay
    <3>3. \A x \in Remote!Versions : ~cache'[x].made => ~cache'[x].remote /\ cache'[x].files = <<>>
      BY <1>3, <2>2, <2>4 DEF RemoteInv, Places
    <3>4. scheme = "git" => \A x \in Remote!Versions : Len(cache'[x].files) <= 2
      BY <2>2 DEF RemoteInv, Places
    <3> QED
      BY <1>1, <1>2, <2>1, <3>1, <3>2, <3>3, <3>4 DEF RemoteInv, Places
  <2>7. Remote!LoadedIsWhole' /\ Remote!ErrorsHaveCauses'
    BY <1>1, <2>1 DEF RemoteInv, Remote!LoadedIsWhole, Remote!ErrorsHaveCauses
  <2> QED
    BY <1>5, <2>3, <2>5, <2>6, <2>7 DEF RemoteInv
<1> QED
  BY <1>7, <1>8

LEMMA AppendToOne == ASSUME NEW a, NEW b PROVE Append(<<a>>, b) = <<a, b>>
<1> DEFINE s == Append(<<a>>, b)
<1>1. <<a>> \in Seq({a, b}) /\ Len(<<a>>) = 1 /\ <<a>>[1] = a /\ b \in {a, b}
  OBVIOUS
<1>2. s \in Seq({a, b}) /\ Len(s) = 2 /\ s[1] = a /\ s[2] = b
  BY <1>1
<1> HIDE DEF s
<1>3. s = <<s[1], s[2]>>
  BY <1>2
<1> QED
  BY <1>2, <1>3 DEF s

LEMMA FirstGrows ==
  ASSUME RemoteInv, NEW p \in Remote!Loaders, NEW k \in {0, 1}, NEW dir, dir \in Dirs,
         written[p] = k, dir.files = First(k)
  PROVE  Remote!Put(p, dir).files = First(k + 1)
<1>1. Len(dir.files) = k /\ ~(Len(dir.files) > written[p])
  BY DEF First, Remote!Files
<1>2. Append(First(k), Remote!Files[k + 1]) = First(k + 1)
  <2>1. CASE k = 0
    BY <2>1 DEF First, Remote!Files
  <2>2. CASE k = 1
    <3>1. First(k) = <<"compose.yaml">> /\ Remote!Files[k + 1] = "override" /\ First(k + 1) = Remote!Files
      BY <2>2 DEF First, Remote!Files
    <3>2. Append(<<"compose.yaml">>, "override") = <<"compose.yaml", "override">>
      BY AppendToOne, Zenon
    <3> QED
      BY <3>1, <3>2 DEF Remote!Files
  <2> QED
    BY <2>1, <2>2
<1> QED
  BY <1>1, <1>2 DEF Remote!Put, Dirs

LEMMA WriteKeeps == ASSUME RemoteInv, NEW p \in Remote!Loaders, Remote!Write(p) PROVE RemoteInv'
<1> DEFINE v == version[p]
<1>1. /\ load[p] = "write" /\ written[p] < Len(Remote!Files) /\ cache[v].made
      /\ cache' = [cache EXCEPT ![version[p]] = Remote!Put(p, @)]
      /\ written' = [written EXCEPT ![p] = @ + 1]
      /\ UNCHANGED <<scheme, head, load, version, kept, faulted, found, loadResult, faults, crashes, shared, spoilt>>
  BY DEF Remote!Write
<1>2. v \in Remote!Versions /\ written[p] \in {0, 1} /\ written'[p] = written[p] + 1
  BY <1>1 DEF RemoteInv, Places, RemoteTypes, Remote!Files
<1>3. PICK w \in Remote!Versions : w = v
  BY <1>2
<1>4. Busy(p, w) /\ Busy(p, w)' /\ Remote!AtWork(w) /\ Remote!AtWork(w)'
  BY <1>1, <1>3 DEF Busy, Remote!AtWork
<1>5. RemoteTypes'
  <2>1. written' \in [Remote!Loaders -> 0..2]
    BY <1>1, <1>2 DEF RemoteInv, RemoteTypes
  <2> QED
    BY <1>1, <2>1 DEF RemoteInv, RemoteTypes
<1>6. OthersStay(p)
  BY <1>1 DEF RemoteInv, RemoteTypes, OthersStay
<1>7. /\ cache[w] \in Dirs /\ cache'[w] = Remote!Put(p, cache[w])
      /\ \A x \in Remote!Versions \ {w} : cache'[x] = cache[x]
  <2>1. cache[w] \in Dirs /\ DOMAIN cache = Remote!Versions
    BY DEF RemoteInv, DirTypes
  <2> QED
    BY <1>1, <1>3, <2>1
<1>8. /\ cache'[w] \in Dirs /\ cache'[w].made = cache[w].made /\ cache'[w].remote = cache[w].remote
      /\ scheme = "git" /\ Len(cache[w].files) <= 2 => Len(cache'[w].files) <= 2
  <2>1. Remote!Files[written[p] + 1] \in FileNames
    <3>1. CASE written[p] = 0
      BY <3>1 DEF Remote!Files, FileNames
    <3>2. CASE written[p] = 1
      BY <3>2 DEF Remote!Files, FileNames
    <3> QED
      BY <1>2, <3>1, <3>2
  <2>2. PICK f \in FileNames : f = Remote!Files[written[p] + 1]
    BY <2>1
  <2>3. cache[w].files \in Seq(FileNames)
    BY <1>7 DEF Dirs
  <2>4. /\ Append(cache[w].files, f) \in Seq(FileNames)
        /\ Len(Append(cache[w].files, f)) = Len(cache[w].files) + 1 /\ Len(cache[w].files) \in Nat
    BY <2>3
  <2>5. cache'[w] = [cache[w] EXCEPT !.files = IF scheme = "git" /\ Len(@) > written[p] THEN @ ELSE Append(@, f)]
    BY <1>7, <2>2 DEF Remote!Put
  <2>6. \/ cache'[w] = [cache[w] EXCEPT !.files = cache[w].files]
        \/ /\ cache'[w] = [cache[w] EXCEPT !.files = Append(cache[w].files, f)]
           /\ scheme = "git" => Len(cache[w].files) <= written[p]
    <3> DEFINE old == cache[w]
    <3>1. old.files = cache[w].files /\ DOMAIN old = {"made", "remote", "files"}
      BY <1>7 DEF Dirs
    <3>2. CASE scheme = "git" /\ Len(cache[w].files) > written[p]
      BY <2>5, <3>1, <3>2
    <3>3. CASE ~(scheme = "git" /\ Len(cache[w].files) > written[p])
      <4>1. scheme = "git" => Len(cache[w].files) <= written[p]
        BY <1>2, <2>4, <3>3
      <4>2. cache'[w] = [cache[w] EXCEPT !.files = Append(cache[w].files, f)]
        BY <2>5, <3>1, <3>3
      <4> QED
        BY <4>1, <4>2
    <3> QED
      BY <3>2, <3>3
  <2>7. CASE cache'[w] = [cache[w] EXCEPT !.files = cache[w].files]
    BY <1>7, <2>7 DEF Dirs
  <2>8. CASE /\ cache'[w] = [cache[w] EXCEPT !.files = Append(cache[w].files, f)]
             /\ scheme = "git" => Len(cache[w].files) <= written[p]
    <3>1. cache'[w] \in Dirs
      BY <1>7, <2>4, <2>8 DEF Dirs
    <3>2. cache'[w].files = Append(cache[w].files, f) /\ cache'[w].made = cache[w].made
          /\ cache'[w].remote = cache[w].remote
      BY <1>7, <2>8 DEF Dirs
    <3>3. scheme = "git" => Len(cache'[w].files) <= 2
      BY <1>2, <2>4, <2>8, <3>2
    <3> QED
      BY <3>1, <3>2, <3>3
  <2> QED
    BY <2>6, <2>7, <2>8
<1>9. DirTypes'
  BY <1>1, <1>3, <1>7, <1>8 DEF RemoteInv, DirTypes
<1>10. cache[w].files = First(written[p]) => cache'[w].files = First(written'[p])
  BY <1>2, <1>7, FirstGrows
<1>11. Places'
  <2>1. \A q \in Remote!Loaders : /\ load[q] \in {"make", "remote", "write", "read"} => version[q] \in Remote!Versions
                                  /\ load[q] \in {"make", "remote"} => written'[q] = 0
                                  /\ load[q] # "idle" => loadResult[q] = "none" /\ scheme # "none"
    BY <1>1, <1>6 DEF RemoteInv, Places, OthersStay
  <2>2. \A q \in Remote!Loaders : load[q] = "remote" => scheme = "git" /\ cache'[version[q]].made
    <3>1. ASSUME NEW q \in Remote!Loaders, load[q] = "remote" PROVE scheme = "git" /\ cache'[version[q]].made
      <4>1. version[q] \in Remote!Versions /\ cache[version[q]].made /\ scheme = "git"
        BY <3>1 DEF RemoteInv, Places
      <4> QED
        BY <1>7, <1>8, <4>1
    <3> QED
      BY <3>1
  <2>3. \A x \in Remote!Versions : ~cache'[x].made => ~cache'[x].remote /\ cache'[x].files = <<>>
    BY <1>1, <1>3, <1>7, <1>8 DEF RemoteInv, Places
  <2>4. scheme = "git" => \A x \in Remote!Versions : Len(cache'[x].files) <= 2
    BY <1>7, <1>8 DEF RemoteInv, Places
  <2> QED
    BY <1>1, <2>1, <2>2, <2>3, <2>4 DEF RemoteInv, Places
<1>12. Unspoilt'
  <2>1. ASSUME w \notin spoilt, w \notin shared PROVE AloneWith(w)'
    <3>1. AloneWith(w)
      BY <2>1 DEF RemoteInv, Unspoilt
    <3>2. cache[w].files = First(written[p])
      BY <1>1, <1>4, <3>1 DEF AloneWith
    <3>3. \A q \in Remote!Loaders : (Busy(q, w)' => q = p) /\ ~Knows(q, w)
      BY <1>4, <1>6, <3>1 DEF OthersStay, Busy, AloneWith
    <3>4. \A q \in Remote!Loaders : ~Knows(q, w)'
      BY <1>1, <3>3 DEF Knows
    <3> QED
      BY <1>1, <1>3, <1>4, <1>8, <1>10, <3>2, <3>3, <3>4 DEF AloneWith
  <2>2. ASSUME w \notin spoilt, scheme = "git" PROVE OneWrites(w)'
    <3>1. OneWrites(w)
      BY <2>2 DEF RemoteInv, Unspoilt
    <3>2. cache[w].remote /\ cache[w].files = First(written[p])
      BY <1>1, <1>4, <3>1 DEF OneWrites
    <3>3. \A q \in Remote!Loaders : Busy(q, w) /\ load[q] = "write" => q = p
      BY <1>1, <1>4, <3>1 DEF OneWrites
    <3>4. \A q \in Remote!Loaders : (Busy(q, w) /\ load[q] = "write")' <=> q = p
      BY <1>1, <1>4, <3>3 DEF Busy
    <3> QED
      BY <1>1, <1>3, <1>8, <1>10, <3>2, <3>4 DEF OneWrites
  <2> QED
    BY <1>1, <1>3, <1>6, <1>7, <2>1, <2>2, WorkStep
<1>13. Remote!LoadedIsWhole' /\ Remote!ErrorsHaveCauses'
  BY <1>1 DEF RemoteInv, Remote!LoadedIsWhole, Remote!ErrorsHaveCauses
<1> QED
  BY <1>5, <1>9, <1>11, <1>12, <1>13 DEF RemoteInv

LEMMA WrittenKeeps == ASSUME RemoteInv, NEW p \in Remote!Loaders, Remote!Written(p) PROVE RemoteInv'
<1> DEFINE v == version[p]
<1>1. /\ load[p] = "write" /\ written[p] = Len(Remote!Files)
      /\ kept' = [kept EXCEPT ![p] = version[p]] /\ load' = [load EXCEPT ![p] = "read"]
      /\ UNCHANGED <<scheme, head, cache, version, written, faulted, found, loadResult, faults, crashes, shared, spoilt>>
  BY DEF Remote!Written, Remote!Goto
<1>2. v \in Remote!Versions /\ written[p] = 2 /\ First(written[p]) = Remote!Files
  BY <1>1 DEF RemoteInv, Places, First, Remote!Files
<1>3. PICK w \in Remote!Versions : w = v
  BY <1>2
<1>4. Busy(p, w) /\ Remote!AtWork(w) /\ ~Busy(p, w)'
  BY <1>1, <1>3 DEF Busy, Remote!AtWork, RemoteInv, RemoteTypes
<1>5. load'[p] = "read" /\ kept'[p] = w
  BY <1>1, <1>3 DEF RemoteInv, RemoteTypes
<1>6. RemoteTypes' /\ DirTypes'
  <2>1. load' \in [Remote!Loaders -> {"idle", "resolve", "make", "remote", "write", "read"}]
        /\ kept' \in [Remote!Loaders -> {0} \cup Remote!Versions]
    BY <1>1, <1>2 DEF RemoteInv, RemoteTypes
  <2> QED
    BY <1>1, <2>1 DEF RemoteInv, RemoteTypes, DirTypes
<1>7. OthersStay(p)
  BY <1>1 DEF RemoteInv, RemoteTypes, OthersStay
<1>8. Places'
  BY <1>1, <1>2, <1>5, <1>7 DEF RemoteInv, Places, OthersStay
<1>9. Unspoilt'
  <2>1. ASSUME w \notin spoilt, w \notin shared PROVE AloneWith(w)'
    <3>1. AloneWith(w)
      BY <2>1 DEF RemoteInv, Unspoilt
    <3>2. cache[w].made /\ cache[w].files = Remote!Files
      BY <1>1, <1>2, <1>4, <3>1 DEF AloneWith
    <3>3. \A q \in Remote!Loaders : ~Busy(q, w)'
      BY <1>4, <1>7, <3>1 DEF OthersStay, Busy, AloneWith
    <3>4. ~Remote!AtWork(w)'
      BY <3>3 DEF Remote!AtWork, Busy
    <3> QED
      BY <1>1, <3>2, <3>3, <3>4 DEF AloneWith
  <2>2. ASSUME w \notin spoilt, scheme = "git" PROVE OneWrites(w)'
    <3>1. OneWrites(w)
      BY <2>2 DEF RemoteInv, Unspoilt
    <3>2. cache[w].made /\ cache[w].remote /\ cache[w].files = Remote!Files
      BY <1>1, <1>2, <1>4, <3>1 DEF OneWrites
    <3>3. \A q \in Remote!Loaders : ~(Busy(q, w) /\ load[q] = "write")'
      BY <1>1, <1>4, <1>7, <3>1 DEF OneWrites, OthersStay, Busy
    <3>4. \A q \in Remote!Loaders : (Busy(q, w) /\ load[q] = "remote")' => (Busy(q, w) /\ load[q] = "remote")
      BY <1>1, <1>5, <1>7 DEF OthersStay, Busy
    <3> QED
      BY <1>1, <3>2, <3>3, <3>4 DEF OneWrites
  <2> QED
    BY <1>1, <1>3, <1>5, <1>7, <2>1, <2>2, WorkStep
<1>10. Remote!LoadedIsWhole' /\ Remote!ErrorsHaveCauses'
  BY <1>1 DEF RemoteInv, Remote!LoadedIsWhole, Remote!ErrorsHaveCauses
<1> QED
  BY <1>6, <1>8, <1>9, <1>10 DEF RemoteInv

(* A failure before anything is made, or while files are written.          *)
LEMMA FailKeeps == ASSUME RemoteInv, NEW p \in Remote!Loaders, Remote!Fail(p) PROVE RemoteInv'
<1> DEFINE v == version[p]
<1>1. /\ load' = [load EXCEPT ![p] = "idle"] /\ loadResult' = [loadResult EXCEPT ![p] = "err"]
      /\ UNCHANGED <<scheme, head, version, written, kept, found, crashes, shared, spoilt>>
      /\ load[p] = "resolve" \/ (load[p] = "write" /\ (scheme = "git" => written[p] = 0))
  BY DEF Remote!Fail, Remote!Ends, Remote!Goto
<1>2. \/ faulted' = [faulted EXCEPT ![p] = TRUE] /\ faults' = TRUE
      \/ load[p] = "write" /\ ~cache[version[p]].made /\ UNCHANGED <<faulted, faults>>
  BY DEF Remote!Fail
<1>3. load'[p] = "idle" /\ loadResult'[p] = "err" /\ scheme # "none"
  BY <1>1 DEF RemoteInv, RemoteTypes, Places
<1>4. \/ faulted'[p] /\ faults'
      \/ load[p] = "write" /\ ~cache[version[p]].made /\ faulted'[p] = faulted[p] /\ faults' = faults
  BY <1>2 DEF RemoteInv, RemoteTypes
<1>5. faulted' \in [Remote!Loaders -> BOOLEAN] /\ faults' \in BOOLEAN /\ (faults => faults')
  <2>1. TRUE \in BOOLEAN
    OBVIOUS
  <2> QED
    BY <1>2, <2>1 DEF RemoteInv, RemoteTypes
<1>6. RemoteTypes'
  BY <1>1, <1>5 DEF RemoteInv, RemoteTypes
<1>7. /\ OthersStay(p) /\ \A w \in Remote!Versions : ~Busy(p, w)'
      /\ \A q \in Remote!Loaders \ {p} : loadResult'[q] = loadResult[q] /\ faulted'[q] = faulted[q]
  BY <1>1, <1>2, <1>3 DEF RemoteInv, RemoteTypes, OthersStay, Busy
<1>8. ASSUME ~faulted'[p] PROVE version[p] \in spoilt \cup shared
  <2>1. load[p] = "write" /\ ~cache[version[p]].made /\ version[p] \in Remote!Versions
    BY <1>4, <1>8 DEF RemoteInv, Places
  <2>2. PICK w \in Remote!Versions : w = version[p]
    BY <2>1
  <2>3. Busy(p, w) /\ load[p] = "write"
    BY <2>1, <2>2 DEF Busy
  <2> QED
    BY <1>8, <2>1, <2>2, <2>3 DEF RemoteInv, Unspoilt, AloneWith
<1>9. Remote!LoadedIsWhole' /\ Remote!ErrorsHaveCauses'
  <2>1. LoadResultRight(p)'
    BY <1>1, <1>3, <1>8 DEF LoadResultRight, RemoteInv, RemoteTypes
  <2> QED
    BY <1>1, <1>5, <1>7, <2>1, ResultsKept DEF OthersStay
<1>10. CASE ~Remote!CleanUp(p)
  <2>1. cache' = cache
    BY <1>10 DEF Remote!Fail
  <2>2. DirTypes' /\ Places'
    BY <1>1, <1>3, <1>7, <2>1 DEF RemoteInv, DirTypes, Places, OthersStay
  <2>3. CASE load[p] = "resolve"
    <3>1. \A w \in Remote!Versions : ~Busy(p, w) /\ ~Busy(p, w)' /\ (Knows(p, w)' => Knows(p, w))
      BY <1>1, <1>3, <1>7, <2>3 DEF Busy, Knows
    <3>2. Unspoilt'
      BY <1>1, <1>5, <1>7, <2>1, <3>1, IdleStep
    <3> QED
      BY <1>6, <1>9, <2>2, <3>2 DEF RemoteInv
  <2>4. CASE load[p] = "write"
    <3>1. scheme = "git" /\ written[p] = 0 /\ v \in Remote!Versions
      BY <1>1, <1>3, <1>10, <2>4 DEF Remote!CleanUp, RemoteInv, RemoteTypes, Places
    <3>2. PICK w \in Remote!Versions : w = v
      BY <3>1
    <3>3. Busy(p, w) /\ load[p] = "write"
      BY <2>4, <3>2 DEF Busy
    <3>4. ASSUME w \notin spoilt, w \notin shared PROVE AloneWith(w)'
      <4>1. AloneWith(w)
        BY <3>4 DEF RemoteInv, Unspoilt
      <4>2. cache[w].made /\ cache[w].files = <<>>
        BY <3>1, <3>3, <4>1 DEF AloneWith, First
      <4>3. faults'
        BY <1>4, <3>2, <4>2
      <4>4. \A q \in Remote!Loaders : ~Busy(q, w)'
        BY <1>7, <3>3, <4>1 DEF OthersStay, Busy, AloneWith
      <4>5. ~Remote!AtWork(w)'
        BY <4>4 DEF Remote!AtWork, Busy
      <4> QED
        BY <1>1, <2>1, <3>1, <4>2, <4>3, <4>4, <4>5 DEF AloneWith
    <3>5. ASSUME w \notin spoilt, scheme = "git" PROVE OneWrites(w)'
      <4>1. OneWrites(w)
        BY <3>5 DEF RemoteInv, Unspoilt
      <4>2. cache[w].made /\ cache[w].remote /\ cache[w].files = <<>>
        BY <3>1, <3>3, <4>1 DEF OneWrites, First
      <4>3. faults'
        BY <1>4, <3>2, <4>2
      <4>4. \A q \in Remote!Loaders : ~(Busy(q, w) /\ load[q] = "write")'
        BY <1>7, <3>3, <4>1 DEF OneWrites, OthersStay, Busy
      <4>5. \A q \in Remote!Loaders : (Busy(q, w) /\ load[q] = "remote")' => (Busy(q, w) /\ load[q] = "remote")
        BY <1>7 DEF OthersStay, Busy
      <4> QED
        BY <2>1, <4>2, <4>3, <4>4, <4>5 DEF OneWrites
    <3>6. Unspoilt'
      BY <1>1, <1>5, <1>7, <2>1, <3>2, <3>4, <3>5, WorkStep DEF RemoteInv, RemoteTypes
    <3> QED
      BY <1>6, <1>9, <2>2, <3>6 DEF RemoteInv
  <2> QED
    BY <1>1, <2>3, <2>4
<1>11. CASE Remote!CleanUp(p)
  <2>1. scheme = "oci" /\ load[p] = "write" /\ cache' = [cache EXCEPT ![version[p]] = Remote!NoDir] /\ v \in Remote!Versions
    BY <1>11 DEF Remote!Fail, Remote!CleanUp, RemoteInv, Places
  <2>2. PICK w \in Remote!Versions : w = v
    BY <2>1
  <2>3. /\ Remote!NoDir \in Dirs /\ ~Remote!NoDir.made /\ ~Remote!NoDir.remote /\ Remote!NoDir.files = <<>>
    <3>1. FALSE \in BOOLEAN /\ <<>> \in Seq(FileNames)
      OBVIOUS
    <3> QED
      BY <3>1 DEF Remote!NoDir, Dirs
  <2>4. cache'[w] = Remote!NoDir /\ \A x \in Remote!Versions \ {w} : cache'[x] = cache[x]
    BY <2>1, <2>2 DEF RemoteInv, DirTypes
  <2>5. DirTypes'
    BY <1>1, <2>1, <2>3 DEF RemoteInv, DirTypes
  <2>6. Places'
    <3>1. \A q \in Remote!Loaders : /\ load'[q] \in {"make", "remote", "write", "read"} => version[q] \in Remote!Versions
                                    /\ load'[q] # "remote"
                                    /\ load'[q] \in {"make", "remote"} => written[q] = 0
                                    /\ load'[q] # "idle" => loadResult'[q] = "none"
      BY <1>1, <1>3, <1>7, <2>1 DEF RemoteInv, Places, OthersStay
    <3>2. \A x \in Remote!Versions : ~cache'[x].made => ~cache'[x].remote /\ cache'[x].files = <<>>
      BY <2>3, <2>4 DEF RemoteInv, Places
    <3> QED
      BY <1>1, <2>1, <3>1, <3>2 DEF Places
  <2>7. Unspoilt'
    <3>1. Busy(p, w) /\ Remote!AtWork(w)
      BY <2>1, <2>2 DEF Busy, Remote!AtWork
    <3>2. ASSUME w \notin spoilt, w \notin shared PROVE AloneWith(w)'
      <4>1. AloneWith(w)
        BY <3>2 DEF RemoteInv, Unspoilt
      <4>2. \A q \in Remote!Loaders : ~Busy(q, w)' /\ ~Knows(q, w)
        BY <1>7, <3>1, <4>1 DEF OthersStay, Busy, AloneWith
      <4>3. \A q \in Remote!Loaders : ~Knows(q, w)'
        BY <1>1, <1>3, <1>7, <4>2 DEF OthersStay, Knows
      <4> QED
        BY <2>3, <2>4, <4>2, <4>3 DEF AloneWith
    <3> QED
      BY <1>1, <1>5, <1>7, <2>1, <2>2, <2>4, <3>2, WorkStep DEF RemoteInv, RemoteTypes
  <2> QED
    BY <1>6, <1>9, <2>5, <2>6, <2>7 DEF RemoteInv
<1> QED
  BY <1>10, <1>11

LEMMA ReadKeeps == ASSUME RemoteInv, NEW p \in Remote!Loaders, Remote!Read(p) PROVE RemoteInv'
<1>1. /\ load[p] = "read" /\ found' = [found EXCEPT ![p] = cache[version[p]].files]
      /\ load' = [load EXCEPT ![p] = "idle"]
      /\ loadResult' = [loadResult EXCEPT ![p] = IF found'[p] = <<>> THEN "err" ELSE "file"]
      /\ UNCHANGED <<scheme, head, cache, version, written, kept, faulted, faults, crashes, shared, spoilt>>
  BY DEF Remote!Read, Remote!Ends, Remote!Goto
<1>2. version[p] \in Remote!Versions /\ scheme # "none"
  BY <1>1 DEF RemoteInv, Places
<1>3. PICK w \in Remote!Versions : w = version[p]
  BY <1>2
<1>4. /\ load'[p] = "idle" /\ found'[p] = cache[w].files /\ cache[w].files \in Seq(FileNames)
      /\ loadResult'[p] = IF found'[p] = <<>> THEN "err" ELSE "file"
  BY <1>1, <1>3, DirRight DEF RemoteInv, RemoteTypes, DirTypes
<1>5. OthersStay(p) /\ \A q \in Remote!Loaders \ {p} : loadResult'[q] = loadResult[q] /\ found'[q] = found[q]
  BY <1>1 DEF RemoteInv, RemoteTypes, DirTypes, OthersStay
<1>6. RemoteTypes'
  <2>1. load' \in [Remote!Loaders -> {"idle", "resolve", "make", "remote", "write", "read"}]
        /\ loadResult' \in [Remote!Loaders -> {"none", "file", "err"}]
    BY <1>1 DEF RemoteInv, RemoteTypes
  <2> QED
    BY <1>1, <2>1 DEF RemoteInv, RemoteTypes
<1>7. DirTypes'
  BY <1>1, <1>3, <1>4 DEF RemoteInv, DirTypes
<1>8. Places'
  <2>1. \A q \in Remote!Loaders : /\ load'[q] \in {"make", "remote", "write", "read"} => version[q] \in Remote!Versions
                                  /\ load'[q] = "remote" => scheme = "git" /\ cache[version[q]].made
                                  /\ load'[q] \in {"make", "remote"} => written[q] = 0
                                  /\ load'[q] # "idle" => loadResult'[q] = "none"
    BY <1>4, <1>5 DEF RemoteInv, Places, OthersStay
  <2>2. scheme = "git" => \A q \in Remote!Loaders : Len(found'[q]) <= 2
    BY <1>4, <1>5 DEF RemoteInv, Places
  <2> QED
    BY <1>1, <1>2, <2>1, <2>2 DEF RemoteInv, Places
<1>9. Unspoilt'
  <2>1. \A v \in Remote!Versions : ~Busy(p, v) /\ ~Busy(p, v)' /\ (Knows(p, v)' => Knows(p, v))
    BY <1>1, <1>4 DEF Busy, Knows
  <2> QED
    BY <1>1, <1>5, <2>1, IdleStep
<1>10. Remote!LoadedIsWhole' /\ Remote!ErrorsHaveCauses'
  <2>1. ASSUME w \notin spoilt, w \notin shared
        PROVE  cache[w].files = Remote!Files \/ (scheme = "git" /\ faults /\ cache[w].files = <<>>)
    <3>1. AloneWith(w)
      BY <2>1 DEF RemoteInv, Unspoilt
    <3>2. Knows(p, w)
      BY <1>1, <1>3 DEF Knows
    <3> QED
      BY <3>1, <3>2 DEF AloneWith
  <2>2. Remote!Files # <<>>
    BY DEF Remote!Files
  <2>4. LoadResultRight(p)'
    BY <1>1, <1>3, <1>4, <2>1, <2>2 DEF LoadResultRight
  <2> QED
    BY <1>1, <1>5, <2>4, ResultsKept DEF OthersStay
<1> QED
  BY <1>6, <1>7, <1>8, <1>9, <1>10 DEF RemoteInv

(* A process killed at work spoils its version, unless it has made nothing.*)
LEMMA CrashKeeps == ASSUME RemoteInv, NEW p \in Remote!Loaders, Remote!Crash(p) PROVE RemoteInv'
<1>1. /\ crashes' = crashes + 1 /\ kept' = [kept EXCEPT ![p] = 0]
      /\ spoilt' = spoilt \cup {v \in {version[p]} : load[p] \in {"remote", "write"}}
      /\ load' = [load EXCEPT ![p] = "idle"] /\ loadResult' = [loadResult EXCEPT ![p] = "none"]
      /\ UNCHANGED <<scheme, head, cache, version, written, faulted, found, faults, shared>>
  BY DEF Remote!Crash, Remote!Ends, Remote!Goto
<1>2. load'[p] = "idle" /\ kept'[p] = 0 /\ loadResult'[p] = "none"
  BY <1>1 DEF RemoteInv, RemoteTypes
<1>3. RemoteTypes'
  BY <1>1 DEF RemoteInv, RemoteTypes
<1>4. DirTypes' /\ Places'
  BY <1>1 DEF RemoteInv, RemoteTypes, DirTypes, Places
<1>5. OthersStay(p) /\ \A q \in Remote!Loaders \ {p} : loadResult'[q] = loadResult[q]
  BY <1>1 DEF RemoteInv, RemoteTypes, OthersStay
<1>6. ASSUME NEW v \in Remote!Versions
      PROVE  ~Busy(p, v)' /\ ~Knows(p, v)'
  BY <1>1, <1>2 DEF Busy, Knows, Remote!Versions
<1>7. ASSUME NEW v \in Remote!Versions \ spoilt'
      PROVE  v \notin spoilt /\ ~(Busy(p, v) /\ load[p] \in {"remote", "write"})
  BY <1>1 DEF Busy
<1>8. ASSUME NEW v \in Remote!Versions \ (shared \cup spoilt') PROVE AloneWith(v)'
  <2>1. AloneWith(v)
    BY <1>7 DEF RemoteInv, Unspoilt
  <2>2. CASE ~Busy(p, v)
    BY <1>1, <1>5, <1>6, <2>1, <2>2, AloneElsewhere
  <2>3. CASE Busy(p, v)
    <3>1. ~cache[v].made /\ Remote!AtWork(v)
      BY <1>7, <2>1, <2>3 DEF AloneWith, Busy, Remote!AtWork
    <3>2. \A q \in Remote!Loaders : ~Busy(q, v)'
      BY <1>5, <1>6, <2>1, <2>3 DEF OthersStay, Busy, AloneWith
    <3>3. \A q \in Remote!Loaders : ~Knows(q, v)'
      BY <1>1, <1>5, <1>6, <2>1, <3>1 DEF OthersStay, Knows, AloneWith
    <3> QED
      BY <1>1, <3>1, <3>2, <3>3 DEF AloneWith
  <2> QED
    BY <2>2, <2>3
<1>9. ASSUME NEW v \in Remote!Versions \ spoilt', scheme = "git" PROVE OneWrites(v)'
  <2>1. OneWrites(v)
    BY <1>7, <1>9 DEF RemoteInv, Unspoilt
  <2> QED
    BY <1>1, <1>5, <1>6, <1>7, <2>1, OneElsewhere
<1>10. Unspoilt'
  BY <1>1, <1>8, <1>9 DEF Unspoilt
<1>11. Remote!LoadedIsWhole' /\ Remote!ErrorsHaveCauses'
  <2>1. LoadResultRight(p)'
    BY <1>2 DEF LoadResultRight
  <2> QED
    BY <1>1, <1>5, <2>1, ResultsKept
<1> QED
  BY <1>3, <1>4, <1>10, <1>11 DEF RemoteInv

LEMMA LeaveKeeps == ASSUME RemoteInv, NEW p \in Remote!Loaders, Remote!Exit(p) PROVE RemoteInv'
<1>1. /\ load[p] = "idle" /\ kept' = [kept EXCEPT ![p] = 0]
      /\ UNCHANGED <<scheme, head, cache, load, version, written, faulted, found, loadResult, faults, crashes, shared, spoilt>>
  BY DEF Remote!Exit
<1>2. RemoteTypes' /\ DirTypes' /\ Places'
  BY <1>1 DEF RemoteInv, RemoteTypes, DirTypes, Places
<1>3. OthersStay(p) /\ kept'[p] = 0
  BY <1>1 DEF RemoteInv, RemoteTypes, OthersStay
<1>4. Unspoilt'
  <2>1. \A v \in Remote!Versions : ~Busy(p, v) /\ ~Busy(p, v)' /\ (Knows(p, v)' => Knows(p, v))
    BY <1>1, <1>3 DEF Busy, Knows, Remote!Versions
  <2> QED
    BY <1>1, <1>3, <2>1, IdleStep
<1>5. Remote!LoadedIsWhole' /\ Remote!ErrorsHaveCauses'
  BY <1>1 DEF RemoteInv, Remote!LoadedIsWhole, Remote!ErrorsHaveCauses
<1> QED
  BY <1>2, <1>4, <1>5 DEF RemoteInv

LEMMA RemoteNext == ASSUME RemoteInv, Remote!Next \/ UNCHANGED Remote!vars PROVE RemoteInv'
<1>1. CASE Remote!Publish
  BY <1>1, RemoteUnmoved DEF Remote!Publish, Remote!Versions
<1>2. CASE UNCHANGED Remote!vars
  BY <1>2, RemoteUnmoved DEF Remote!vars, RemoteInv, RemoteTypes
<1> QED
  BY <1>1, <1>2, ChooseKeeps, BeginKeeps, ResolveKeeps, MakeKeeps, AddRemoteKeeps, WriteKeeps,
     WrittenKeeps, FailKeeps, ReadKeeps, CrashKeeps, LeaveKeeps
     DEF Remote!Next

----------------------------------------------------------------------------
(* The flags, the surroundings and the file once they are chosen, and the  *)
(* kinds of commands.                                                      *)
LoadTypes ==
  /\ flags.name \in BOOLEAN /\ flags.files \in {"none", "file", "remote"}
  /\ composeFile \in [name : BOOLEAN, broken : BOOLEAN, envFile : BOOLEAN]
  /\ \A c \in made : c.service \in Load!Services
  /\ invoked.services \subseteq Load!Services

(* No project is at hand before a command runs; then the process has the   *)
(* name of the environment, and the services are those selected.           *)
AtHand ==
  /\ invoked = Load!Idle => target = "" /\ selection = Load!NoProject
  /\ invoked # Load!Idle => processEnv = Load!SetEnvWithDotEnv
  /\ target = "" => selection = Load!NoProject
  /\ selection # Load!NoProject =>
       /\ selection \subseteq Load!Services /\ ("web" \in selection => "db" \in selection)
       /\ invoked.verb = "stop" => selection = Load!Selected(invoked.services)
  /\ invoked.verb = "up" /\ target # "" => selection # Load!NoProject

(* Nobody but an edit breaks the file, or takes away a container that      *)
(* another one depends on.                                                 *)
Unbroken ==
  ~disturbed =>
    /\ ~composeFile.broken
    /\ \A c \in made : c.service = "web" => \E d \in made : d.project = c.project /\ d.service = "db"

(* What config --hash has printed.                                         *)
HashPrinted ==
  invoked.verb = "hash" /\ ending = "ok" =>
    \A s \in DOMAIN printed : printed[s] = Load!Defined(FALSE, TRUE)

LoadInv == LoadTypes /\ AtHand /\ Unbroken /\ HashPrinted /\ Load!SameProject /\ Load!StartsTheSame /\ Load!StopsAll

LEMMA HashedAlike ==
  ASSUME composeFile.envFile = FALSE
  PROVE  Load!Defined(FALSE, TRUE) = Load!Defined(TRUE, TRUE)
BY DEF Load!Defined

LEMMA LoadInvImplies == LoadInv => Load!LoadingIsRight
<1> SUFFICES ASSUME LoadInv PROVE Load!LoadingIsRight
  OBVIOUS
<1>1. Load!HashIsLabel
  <2> SUFFICES ASSUME invoked.verb = "hash", ending = "ok", ~composeFile.envFile,
                      NEW c \in made, c.service \in DOMAIN printed
               PROVE  printed[c.service] = c.hash <=> c.hash = Load!Defined(TRUE, TRUE)
    BY DEF Load!HashIsLabel
  <2>1. composeFile.envFile = FALSE
    BY DEF LoadInv, LoadTypes
  <2>2. printed[c.service] = Load!Defined(TRUE, TRUE)
    BY <2>1, HashedAlike DEF LoadInv, HashPrinted
  <2> QED
    BY <2>2
<1> QED
  BY <1>1 DEF LoadInv, Load!LoadingIsRight

LEMMA Idling == Load!Idle.verb = "none" /\ Load!Idle.services = {}
BY DEF Load!Idle

LEMMA Running == ASSUME invoked.verb # "none" PROVE invoked # Load!Idle
BY Idling

LEMMA LoadInit == Load!Init => LoadInv
<1> SUFFICES ASSUME Load!Init PROVE LoadInv
  OBVIOUS
<1>1. invoked = Load!Idle /\ target = "" /\ selection = Load!NoProject /\ made = {} /\ ending = "none"
  BY DEF Load!Init
<1>2. LoadTypes
  <2>1. flags.name \in BOOLEAN /\ flags.files \in {"none", "file", "remote"}
    BY DEF Load!Init
  <2>2. composeFile \in [name : BOOLEAN, broken : BOOLEAN, envFile : BOOLEAN]
    BY DEF Load!Init
  <2> QED
    BY <1>1, <2>1, <2>2, Idling DEF LoadTypes
<1>3. AtHand
  BY <1>1 DEF AtHand, Load!Idle
<1>4. Unbroken
  BY <1>1 DEF Load!Init, Unbroken
<1>5. HashPrinted /\ Load!StartsTheSame /\ Load!StopsAll
  BY <1>1 DEF HashPrinted, Load!StartsTheSame, Load!StopsAll, Load!Idle
<1>6. Load!SameProject
  BY <1>1 DEF Load!SameProject, Load!NameIsGiven
<1> QED
  BY <1>2, <1>3, <1>4, <1>5, <1>6 DEF LoadInv

----
(* Between two commands nothing is said of a project.                      *)
LEMMA NothingSaid ==
  ASSUME target' = "", ending' = "none"
  PROVE  Load!SameProject' /\ Load!StartsTheSame' /\ Load!StopsAll' /\ HashPrinted'
BY DEF Load!SameProject, Load!NameIsGiven, Load!StartsTheSame, Load!StopsAll, HashPrinted

LEMMA LoadChoose == ASSUME LoadInv, Load!Choose PROVE LoadInv'
<1>1. /\ invoked = Load!Idle
      /\ UNCHANGED <<invoked, processEnv, target, selection, made, affected, printed, ending, disturbed>>
      /\ commands' = 1
  BY DEF Load!Choose
<1>2. target = "" /\ selection = Load!NoProject
  BY <1>1 DEF LoadInv, AtHand
<1>3. /\ flags'.name \in BOOLEAN /\ flags'.files \in {"none", "file", "remote"}
      /\ composeFile' \in [name : BOOLEAN, broken : BOOLEAN, envFile : BOOLEAN]
      /\ ~composeFile'.broken
  BY DEF Load!Choose
<1>4. LoadTypes'
  BY <1>1, <1>3 DEF LoadInv, LoadTypes
<1>5. AtHand'
  BY <1>1, <1>2 DEF AtHand, Load!Idle
<1>6. Unbroken'
  BY <1>1, <1>3 DEF LoadInv, Unbroken
<1>7. Load!SameProject' /\ Load!StartsTheSame' /\ Load!StopsAll' /\ HashPrinted'
  BY <1>1, <1>2 DEF Load!Idle, Load!SameProject, Load!NameIsGiven, Load!StartsTheSame, Load!StopsAll, HashPrinted
<1> QED
  BY <1>4, <1>5, <1>6, <1>7 DEF LoadInv

LEMMA LoadInvoke == ASSUME LoadInv, Load!Invoke PROVE LoadInv'
<1>1. /\ processEnv' = Load!SetEnvWithDotEnv
      /\ target' = "" /\ selection' = Load!NoProject /\ ending' = "none"
      /\ UNCHANGED <<flags, around, composeFile, made, disturbed>>
  BY DEF Load!Invoke
<1>6. invoked'.services \subseteq Load!Services
  <2>1. PICK v \in {"up", "start", "stop", "exec", "config", "model", "hash"},
             named \in {{}, {"web"}, {"tool"}} : invoked' = [verb |-> v, services |-> named]
    BY DEF Load!Invoke
  <2>2. invoked'.services = named
    BY <2>1
  <2> QED
    BY <2>2 DEF Load!Services
<1>2. Load!SetEnvWithDotEnv' = Load!SetEnvWithDotEnv
  BY <1>1 DEF Load!SetEnvWithDotEnv
<1>3. LoadTypes' /\ Unbroken'
  BY <1>1, <1>6 DEF LoadInv, LoadTypes, Unbroken
<1>4. AtHand'
  BY <1>1, <1>2 DEF AtHand
<1>5. Load!SameProject' /\ Load!StartsTheSame' /\ Load!StopsAll' /\ HashPrinted'
  BY <1>1, NothingSaid
<1> QED
  BY <1>3, <1>4, <1>5 DEF LoadInv

LEMMA LoadEdit == ASSUME LoadInv, Load!Edit PROVE LoadInv'
<1>1. /\ disturbed' = TRUE /\ invoked' = Load!Idle /\ target' = "" /\ selection' = Load!NoProject /\ ending' = "none"
      /\ UNCHANGED <<flags, around, processEnv>>
  BY DEF Load!Edit
<1>2. /\ composeFile' \in [name : BOOLEAN, broken : BOOLEAN, envFile : BOOLEAN]
      /\ made' \subseteq made
  <2>1. composeFile \in [name : BOOLEAN, broken : BOOLEAN, envFile : BOOLEAN]
    BY DEF LoadInv, LoadTypes
  <2>2. CASE composeFile' = [composeFile EXCEPT !.broken = TRUE] /\ made' = made
    <3>1. TRUE \in BOOLEAN
      OBVIOUS
    <3> QED
      BY <2>1, <2>2, <3>1
  <2>3. CASE composeFile' = [composeFile EXCEPT !.envFile = ~@] /\ made' = made
    <3>1. (~composeFile.envFile) \in BOOLEAN
      OBVIOUS
    <3> QED
      BY <2>1, <2>3, <3>1
  <2>4. CASE (\E c \in made : made' = made \ {c}) /\ composeFile' = composeFile
    BY <2>1, <2>4
  <2> QED
    BY <2>2, <2>3, <2>4 DEF Load!Edit
<1>3. LoadTypes'
  BY <1>1, <1>2, Idling DEF LoadInv, LoadTypes
<1>4. Unbroken'
  BY <1>1 DEF Unbroken
<1>5. AtHand'
  BY <1>1 DEF AtHand, Load!Idle
<1>6. Load!SameProject' /\ Load!StartsTheSame' /\ Load!StopsAll' /\ HashPrinted'
  BY <1>1, NothingSaid
<1> QED
  BY <1>3, <1>4, <1>5, <1>6 DEF LoadInv

----
(* The name that is found, by whatever way.                                *)
LEMMA NameFound ==
  ASSUME LoadInv, invoked # Load!Idle
  PROVE  /\ Load!ProjectName = Load!DocumentedName
         /\ processEnv # "" /\ ~flags.name => processEnv = Load!DocumentedName
         /\ flags.name => Load!DocumentedName = "flag"
         /\ Load!DocumentedName # ""
<1>1. processEnv = Load!SetEnvWithDotEnv
  BY DEF LoadInv, AtHand
<1>2. Load!DocumentedName # ""
  BY DEF Load!DocumentedName
<1>3. CASE flags.name
  <2>1. Load!ProjectName = "flag" /\ Load!DocumentedName = "flag"
    BY <1>3 DEF Load!ProjectName, Load!NameFrom, Load!DocumentedName
  <2> QED
    BY <1>2, <1>3, <2>1
<1>4. CASE ~flags.name /\ around.shell
  <2>1. processEnv = "shell"
    BY <1>1, <1>4 DEF Load!SetEnvWithDotEnv
  <2>2. Load!DocumentedName = "shell"
    BY <1>4 DEF Load!DocumentedName
  <2>3. Load!ProjectName = processEnv
    BY <1>4, <2>1 DEF Load!ProjectName, Load!NameFrom
  <2> QED
    BY <1>2, <1>4, <2>1, <2>2, <2>3
<1>5. CASE ~flags.name /\ ~around.shell /\ around.dotEnv
  <2>1. processEnv = "dotenv" \/ processEnv = ""
    BY <1>1, <1>5 DEF Load!SetEnvWithDotEnv
  <2>2. Load!DocumentedName = "dotenv"
    BY <1>5 DEF Load!DocumentedName
  <2>3. Load!ProjectName = "dotenv"
    BY <1>5, <2>1 DEF Load!ProjectName, Load!NameFrom
  <2> QED
    BY <1>2, <1>5, <2>1, <2>2, <2>3
<1>6. CASE ~flags.name /\ ~around.shell /\ ~around.dotEnv
  <2>1. processEnv = ""
    BY <1>1, <1>6 DEF Load!SetEnvWithDotEnv
  <2>2. Load!DocumentedName = IF composeFile.name THEN "file" ELSE "directory"
    BY <1>6 DEF Load!DocumentedName
  <2>3. Load!ProjectName = IF composeFile.name THEN "file" ELSE "directory"
    BY <1>6, <2>1 DEF Load!ProjectName, Load!NameFrom
  <2> QED
    BY <1>2, <1>6, <2>1, <2>2, <2>3
<1> QED
  BY <1>3, <1>4, <1>5, <1>6

LEMMA SelectedRight ==
  ASSUME NEW S, S \subseteq Load!Services
  PROVE  Load!Selected(S) \subseteq Load!Services /\ ("web" \in Load!Selected(S) => "db" \in Load!Selected(S))
<1>1. CASE S = {}
  BY <1>1 DEF Load!Selected, Load!Enabled, Load!Services, Load!Profiled
<1>2. CASE S # {}
  BY <1>2 DEF Load!Selected, Load!Closure, Load!DependsOn, Load!Services
<1> QED
  BY <1>1, <1>2

(* A step that finds a project, or fails.                                  *)
LEMMA Finding ==
  ASSUME LoadInv, invoked # Load!Idle,
         UNCHANGED <<flags, around, composeFile, processEnv, disturbed, invoked, made>>,
         ending' \in {"none", "err"} \/ invoked.verb = "model",
         ending' = "err" => composeFile.broken,
         target' = "" => selection' = Load!NoProject,
         selection' # Load!NoProject => selection' \subseteq Load!Services /\ ("web" \in selection' => "db" \in selection'),
         selection' # Load!NoProject /\ invoked.verb = "stop" => selection' = Load!Selected(invoked.services),
         target' # "" /\ invoked.verb = "up" => selection' # Load!NoProject,
         Load!SameProject'
  PROVE  LoadInv'
<1>1. LoadTypes' /\ Unbroken'
  BY DEF LoadInv, LoadTypes, Unbroken
<1>2. AtHand'
  <2>1. processEnv = Load!SetEnvWithDotEnv /\ Load!SetEnvWithDotEnv' = Load!SetEnvWithDotEnv
    BY DEF LoadInv, AtHand, Load!SetEnvWithDotEnv
  <2>2. Load!Selected(invoked.services)' = Load!Selected(invoked.services)
    BY DEF Load!Selected, Load!Enabled
  <2> QED
    BY <2>1, <2>2 DEF AtHand
<1>3. Load!StartsTheSame'
  BY DEF LoadInv, Unbroken, Load!StartsTheSame
<1>4. Load!StopsAll' /\ HashPrinted'
  BY DEF Load!StopsAll, HashPrinted
<1> QED
  BY <1>1, <1>2, <1>3, <1>4 DEF LoadInv

LEMMA NameKept ==
  ASSUME UNCHANGED <<flags, around, composeFile>>, target' = Load!DocumentedName \/ target' = ""
  PROVE  Load!SameProject'
BY DEF Load!SameProject, Load!NameIsGiven, Load!DocumentedName

LEMMA ProjectLoaded ==
  ASSUME LoadInv, invoked # Load!Idle, NEW S, S \subseteq Load!Services, Load!LoadProject(S),
         UNCHANGED <<flags, around, composeFile, processEnv, disturbed, invoked, made>>,
         ending' = "none", invoked.verb = "stop" => S = invoked.services
  PROVE  LoadInv'
<1>1. target' = Load!DocumentedName /\ selection' = Load!Selected(S) /\ Load!DocumentedName # ""
  BY NameFound DEF Load!LoadProject
<1>2. selection' \subseteq Load!Services /\ ("web" \in selection' => "db" \in selection') /\ selection' # Load!NoProject
  <2>1. "no project" \notin Load!Services
    BY DEF Load!Services
  <2> QED
    BY <1>1, <2>1, SelectedRight DEF Load!NoProject
<1>3. Load!SameProject'
  BY <1>1, NameKept
<1> QED
  BY <1>1, <1>2, <1>3, Finding

LEMMA LoadFails ==
  ASSUME LoadInv, invoked # Load!Idle, composeFile.broken, target = "", UNCHANGED <<target, selection>>,
         UNCHANGED <<flags, around, composeFile, processEnv, disturbed, invoked, made>>, ending' = "err"
  PROVE  LoadInv'
<1>1. target' = "" /\ selection' = Load!NoProject
  BY DEF LoadInv, AtHand
<1>2. Load!SameProject'
  BY <1>1, NameKept
<1> QED
  BY <1>1, <1>2, Finding

(* Only a name is found.                                                   *)
LEMMA NameOnly ==
  ASSUME LoadInv, invoked # Load!Idle, target = "", invoked.verb # "up", UNCHANGED selection, Load!SameProject',
         UNCHANGED <<flags, around, composeFile, processEnv, disturbed, invoked, made>>, ending' = "none"
  PROVE  LoadInv'
<1>1. selection' = Load!NoProject
  BY DEF LoadInv, AtHand
<1> QED
  BY <1>1, Finding

LEMMA LoadWithServices == ASSUME LoadInv, Load!WithServices PROVE LoadInv'
<1>1. /\ invoked.verb \in {"up", "config", "hash"} /\ target = "" /\ ending = "none"
      /\ UNCHANGED <<flags, around, composeFile, processEnv, disturbed, invoked, made>>
  BY DEF Load!WithServices, Load!Of, Load!Fixed, Load!Fails, Load!LoadProject
<1>2. invoked # Load!Idle /\ invoked.services \subseteq Load!Services
  <2>1. invoked.verb # "none"
    BY <1>1
  <2> QED
    BY <2>1, Running DEF LoadInv, LoadTypes
<1>3. CASE composeFile.broken
  BY <1>1, <1>2, <1>3, LoadFails DEF Load!WithServices, Load!Fails
<1>4. CASE ~composeFile.broken
  <2>1. PICK S \in {{}, invoked.services} : Load!LoadProject(S) /\ ending' = ending
    BY <1>4 DEF Load!WithServices
  <2> QED
    BY <1>1, <1>2, <2>1, ProjectLoaded
<1> QED
  BY <1>3, <1>4

LEMMA LoadProjectOrName == ASSUME LoadInv, Load!ProjectOrName PROVE LoadInv'
<1>1. /\ invoked.verb \in {"start", "stop"} /\ target = "" /\ ending = "none"
      /\ UNCHANGED <<flags, around, composeFile, processEnv, disturbed, invoked, made>>
  BY DEF Load!ProjectOrName, Load!Of, Load!Fixed, Load!Fails
<1>2. invoked # Load!Idle /\ invoked.services \subseteq Load!Services
  <2>1. invoked.verb # "none"
    BY <1>1
  <2> QED
    BY <2>1, Running DEF LoadInv, LoadTypes
<1>3. CASE flags.name /\ target' = "flag" /\ UNCHANGED <<selection, ending>>
  <2>1. Load!SameProject'
    BY <1>1, <1>2, <1>3, NameFound, NameKept
  <2> QED
    BY <1>1, <1>2, <1>3, <2>1, NameOnly
<1>4. CASE Load!LoadProject(invoked.services) /\ UNCHANGED ending
  BY <1>1, <1>2, <1>4, ProjectLoaded
<1>5. CASE /\ ~(flags.name /\ flags.files = "none") /\ composeFile.broken /\ processEnv # ""
           /\ target' = processEnv /\ UNCHANGED <<selection, ending>>
  <2>1. Load!SameProject'
    <3>1. CASE flags.name
      BY <1>1, <1>5, <3>1 DEF Load!SameProject
    <3>2. CASE ~flags.name
      BY <1>1, <1>2, <1>5, <3>2, NameFound, NameKept
    <3> QED
      BY <3>1, <3>2
  <2> QED
    BY <1>1, <1>2, <1>5, <2>1, NameOnly
<1>6. CASE composeFile.broken /\ Load!Fails /\ UNCHANGED <<target, selection>>
  BY <1>1, <1>2, <1>6, LoadFails DEF Load!Fails
<1> QED
  BY <1>3, <1>4, <1>5, <1>6 DEF Load!ProjectOrName

LEMMA LoadToProjectName == ASSUME LoadInv, Load!ToProjectName PROVE LoadInv'
<1>1. /\ invoked.verb = "exec" /\ target = "" /\ ending = "none"
      /\ UNCHANGED <<flags, around, composeFile, processEnv, disturbed, invoked, made>>
  BY DEF Load!ToProjectName, Load!Of, Load!Fixed, Load!Fails
<1>2. invoked # Load!Idle
  <2>1. invoked.verb # "none"
    BY <1>1
  <2> QED
    BY <2>1, Running
<1>3. CASE flags.name /\ target' = "flag" /\ UNCHANGED <<selection, ending>>
  <2>1. Load!SameProject'
    BY <1>1, <1>2, <1>3, NameFound, NameKept
  <2> QED
    BY <1>1, <1>2, <1>3, <2>1, NameOnly
<1>4. CASE ~flags.name /\ processEnv # "" /\ target' = processEnv /\ UNCHANGED <<selection, ending>>
  <2>1. Load!SameProject'
    BY <1>1, <1>2, <1>4, NameFound, NameKept
  <2> QED
    BY <1>1, <1>2, <1>4, <2>1, NameOnly
<1>5. CASE Load!LoadProject({}) /\ UNCHANGED ending
  BY <1>1, <1>2, <1>5, ProjectLoaded
<1>6. CASE composeFile.broken /\ Load!Fails /\ UNCHANGED <<target, selection>>
  BY <1>1, <1>2, <1>6, LoadFails DEF Load!Fails
<1> QED
  BY <1>3, <1>4, <1>5, <1>6 DEF Load!ToProjectName

LEMMA LoadToModel == ASSUME LoadInv, Load!ToModel PROVE LoadInv'
<1>1. /\ invoked.verb = "model" /\ target = ""
      /\ UNCHANGED <<flags, around, composeFile, processEnv, disturbed, invoked, made>>
  BY DEF Load!ToModel, Load!Of, Load!Fixed, Load!Fails, Load!Ends
<1>2. invoked # Load!Idle
  <2>1. invoked.verb # "none"
    BY <1>1
  <2> QED
    BY <2>1, Running
<1>3. CASE Load!Fails /\ UNCHANGED <<target, selection>>
  <2>1. target' = "" /\ selection' = Load!NoProject /\ ending' = "err"
    BY <1>1, <1>3 DEF Load!Fails, LoadInv, AtHand
  <2>2. LoadTypes' /\ Unbroken'
    BY <1>1 DEF LoadInv, LoadTypes, Unbroken
  <2>3. AtHand'
    BY <1>1, <1>2, <2>1 DEF LoadInv, AtHand, Load!SetEnvWithDotEnv
  <2>4. Load!SameProject' /\ Load!StartsTheSame' /\ Load!StopsAll' /\ HashPrinted'
    BY <1>1, <2>1 DEF Load!SameProject, Load!NameIsGiven, Load!StartsTheSame, Load!StopsAll, HashPrinted
  <2> QED
    BY <2>2, <2>3, <2>4 DEF LoadInv
<1>4. CASE /\ target' = (IF around.toml = "good" THEN Load!NameFrom(FALSE, "work_dir") ELSE Load!ProjectName)
           /\ selection' = Load!Services /\ Load!Ends
  <2>1. ending' = "ok" /\ target' # ""
    BY <1>1, <1>2, <1>4, NameFound DEF Load!Ends, Load!NameFrom
  <2>2. Load!SameProject'
    <3>1. CASE around.toml = "good"
      BY <1>1, <1>4, <3>1 DEF Load!SameProject
    <3>2. CASE around.toml # "good"
      BY <1>1, <1>2, <1>4, <3>2, NameFound, NameKept
    <3> QED
      BY <3>1, <3>2
  <2> QED
    BY <1>1, <1>2, <1>4, <2>1, <2>2, Finding DEF Load!Services
<1> QED
  BY <1>3, <1>4 DEF Load!ToModel

----
(* A step of a command that has its project.                               *)
LEMMA Finishing ==
  ASSUME LoadInv, invoked # Load!Idle,
         UNCHANGED <<flags, around, composeFile, processEnv, disturbed, invoked, target, selection>>,
         \A c \in made' : c.service \in Load!Services, Unbroken', Load!StartsTheSame', Load!StopsAll', HashPrinted'
  PROVE  LoadInv'
<1>1. LoadTypes'
  BY DEF LoadInv, LoadTypes
<1>2. AtHand'
  <2>1. processEnv = Load!SetEnvWithDotEnv /\ Load!SetEnvWithDotEnv' = Load!SetEnvWithDotEnv
    BY DEF LoadInv, AtHand, Load!SetEnvWithDotEnv
  <2>2. Load!Selected(invoked.services)' = Load!Selected(invoked.services)
    BY DEF Load!Selected, Load!Enabled
  <2> QED
    BY <2>1, <2>2 DEF LoadInv, AtHand
<1>3. Load!SameProject'
  BY DEF LoadInv, Load!SameProject, Load!NameIsGiven, Load!DocumentedName
<1> QED
  BY <1>1, <1>2, <1>3 DEF LoadInv

(* One that is neither start, stop nor hash, and makes nothing.            *)
LEMMA Passing ==
  ASSUME LoadInv, invoked.verb \in {"up", "exec", "config"}, UNCHANGED made,
         UNCHANGED <<flags, around, composeFile, processEnv, disturbed, invoked, target, selection>>
  PROVE  LoadInv'
<1>1. invoked # Load!Idle
  <2>1. invoked.verb # "none"
    OBVIOUS
  <2> QED
    BY <2>1, Running
<1>2. Unbroken' /\ \A c \in made' : c.service \in Load!Services
  BY DEF LoadInv, LoadTypes, Unbroken
<1>3. Load!StartsTheSame' /\ Load!StopsAll' /\ HashPrinted'
  BY DEF Load!StartsTheSame, Load!StopsAll, HashPrinted
<1> QED
  BY <1>1, <1>2, <1>3, Finishing

LEMMA LoadUp == ASSUME LoadInv, Load!Up PROVE LoadInv'
<1> DEFINE New == {[project |-> target, service |-> s, hash |-> Load!Defined(TRUE, TRUE)] : s \in selection}
<1>1. /\ invoked.verb = "up" /\ target # ""
      /\ UNCHANGED <<flags, around, composeFile, processEnv, disturbed, invoked, target, selection>>
      /\ made' = {c \in made : c.project # target \/ c.service \notin selection} \cup New
  BY DEF Load!Up, Load!At, Load!Fixed, Load!Ends
<1>2. selection \subseteq Load!Services /\ ("web" \in selection => "db" \in selection)
  BY <1>1 DEF LoadInv, AtHand
<1>3. \A c \in New : c.project = target /\ c.service \in selection
  <2> SUFFICES ASSUME NEW c \in New PROVE c.project = target /\ c.service \in selection
    OBVIOUS
  <2>1. PICK s \in selection : c = [project |-> target, service |-> s, hash |-> Load!Defined(TRUE, TRUE)]
    OBVIOUS
  <2> QED
    BY <2>1
<1>4. \A s \in selection : \E c \in New : c.project = target /\ c.service = s
  <2> SUFFICES ASSUME NEW s \in selection PROVE \E c \in New : c.project = target /\ c.service = s
    OBVIOUS
  <2> DEFINE c == [project |-> target, service |-> s, hash |-> Load!Defined(TRUE, TRUE)]
  <2>1. c \in New
    OBVIOUS
  <2>2. c.project = target /\ c.service = s
    OBVIOUS
  <2> QED
    BY <2>1, <2>2
<1> HIDE DEF New
<1>5. \A c \in made' : c.service \in Load!Services
  BY <1>1, <1>2, <1>3 DEF LoadInv, LoadTypes
<1>6. Unbroken'
  <2> SUFFICES ASSUME ~disturbed, NEW c \in made', c.service = "web"
               PROVE  \E d \in made' : d.project = c.project /\ d.service = "db"
    BY <1>1 DEF LoadInv, Unbroken
  <2>1. CASE c \in New
    <3>1. PICK d \in New : d.project = target /\ d.service = "db"
      BY <1>2, <1>3, <1>4, <2>1
    <3> QED
      BY <1>1, <1>3, <2>1, <3>1
  <2>2. CASE c \notin New
    <3>1. c \in made
      BY <1>1, <2>2
    <3>2. PICK d \in made : d.project = c.project /\ d.service = "db"
      BY <3>1 DEF LoadInv, Unbroken
    <3>3. CASE d.project # target \/ d.service \notin selection
      BY <1>1, <3>2, <3>3
    <3>4. CASE d.project = target /\ d.service \in selection
      <4>1. PICK e \in New : e.project = target /\ e.service = "db"
        BY <1>4, <3>2, <3>4
      <4> QED
        BY <1>1, <3>2, <3>4, <4>1
    <3> QED
      BY <3>3, <3>4
  <2> QED
    BY <2>1, <2>2
<1>7. Load!StartsTheSame' /\ Load!StopsAll' /\ HashPrinted'
  BY <1>1 DEF Load!StartsTheSame, Load!StopsAll, HashPrinted
<1>8. invoked # Load!Idle
  <2>1. invoked.verb # "none"
    BY <1>1
  <2> QED
    BY <2>1, Running
<1> QED
  BY <1>1, <1>5, <1>6, <1>7, <1>8, Finishing

LEMMA ExistingIs ==
  ASSUME UNCHANGED <<made, target>>
  PROVE  Load!Existing' = Load!Existing
BY DEF Load!Existing

LEMMA ExistingTyped == ASSUME LoadInv PROVE Load!Existing \subseteq Load!Services
BY DEF Load!Existing, LoadInv, LoadTypes

LEMMA LoadStop == ASSUME LoadInv, Load!Stop PROVE LoadInv'
<1>1. /\ invoked.verb = "stop" /\ target # ""
      /\ UNCHANGED <<flags, around, composeFile, processEnv, disturbed, invoked, target, selection, made>>
  BY DEF Load!Stop, Load!At, Load!Fixed, Load!Ends
<1>2. invoked # Load!Idle
  <2>1. invoked.verb # "none"
    BY <1>1
  <2> QED
    BY <2>1, Running
<1>3. Load!StopsAll'
  <2>1. ASSUME invoked.services = {} PROVE Load!Existing \cap Load!Enabled({}) \subseteq affected'
    <3>1. affected' = Load!Existing \cap (IF selection = Load!NoProject THEN Load!Existing ELSE selection)
      BY <2>1 DEF Load!Stop, Load!ProjectFromName
    <3>2. selection # Load!NoProject => selection = Load!Enabled({})
      BY <1>1, <2>1 DEF LoadInv, AtHand, Load!Selected
    <3> QED
      BY <3>1, <3>2
  <2>2. Load!Enabled({})' = Load!Enabled({}) /\ Load!Existing' = Load!Existing
    BY <1>1, ExistingIs DEF Load!Enabled
  <2> QED
    BY <1>1, <2>1, <2>2 DEF Load!StopsAll
<1>4. Unbroken' /\ Load!StartsTheSame' /\ HashPrinted' /\ \A c \in made' : c.service \in Load!Services
  BY <1>1 DEF LoadInv, LoadTypes, Unbroken, Load!StartsTheSame, HashPrinted
<1> QED
  BY <1>1, <1>2, <1>3, <1>4, Finishing

LEMMA LoadStartProject == ASSUME LoadInv, Load!StartProject PROVE LoadInv'
<1>1. /\ invoked.verb = "start" /\ selection # Load!NoProject
      /\ UNCHANGED <<flags, around, composeFile, processEnv, disturbed, invoked, target, selection, made>>
  BY DEF Load!StartProject, Load!At, Load!Fixed, Load!Ends, Load!Fails
<1>2. invoked # Load!Idle
  <2>1. invoked.verb # "none"
    BY <1>1
  <2> QED
    BY <2>1, Running
<1>3. Unbroken' /\ Load!StartsTheSame' /\ Load!StopsAll' /\ HashPrinted' /\ \A c \in made' : c.service \in Load!Services
  BY <1>1 DEF LoadInv, LoadTypes, Unbroken, Load!StartsTheSame, Load!StopsAll, HashPrinted
<1> QED
  BY <1>1, <1>2, <1>3, Finishing

(* What the containers say of the project is complete.                     *)
LEMMA ExistingClosed ==
  ASSUME LoadInv, ~disturbed, NEW S, S \subseteq Load!Existing
  PROVE  Load!Closure(S) \subseteq Load!Existing /\ Load!Closure(Load!Closure(S)) \subseteq Load!Existing
<1>1. "web" \in Load!Existing => "db" \in Load!Existing
  BY DEF LoadInv, Unbroken, Load!Existing
<1> QED
  BY <1>1 DEF Load!Closure, Load!DependsOn

LEMMA LoadStartFromName == ASSUME LoadInv, Load!StartFromName PROVE LoadInv'
<1> DEFINE chosen == IF invoked.services = {} THEN Load!Existing ELSE Load!Closure(invoked.services)
<1>1. /\ invoked.verb = "start" /\ selection = Load!NoProject
      /\ UNCHANGED <<flags, around, composeFile, processEnv, disturbed, invoked, target, selection, made>>
      /\ \/ /\ Load!Existing = {} \/ ~ Load!Closure(chosen) \subseteq Load!Existing
            /\ ending' = "err"
         \/ affected' = Load!Existing \cap chosen /\ ending' = "ok"
  BY DEF Load!StartFromName, Load!At, Load!Fixed, Load!Ends, Load!Fails, Load!ProjectFromName
<1>2. invoked # Load!Idle
  <2>1. invoked.verb # "none"
    BY <1>1
  <2> QED
    BY <2>1, Running
<1>3. Load!StartsTheSame'
  <2> SUFFICES ASSUME ~disturbed
               PROVE  /\ ending' = "ok" =>
                           /\ Load!Existing \cap Load!Selected(invoked.services) \subseteq affected'
                           /\ affected' \subseteq Load!Selected(invoked.services) \cup Load!Profiled
                      /\ ending' = "err" => Load!Existing = {} \/ ~ invoked.services \subseteq Load!Existing
    <3>1. Load!Existing' = Load!Existing /\ Load!Selected(invoked.services)' = Load!Selected(invoked.services)
      BY <1>1, ExistingIs DEF Load!Selected, Load!Enabled
    <3> QED
      BY <1>1, <3>1 DEF Load!StartsTheSame
  <2>1. ASSUME ending' = "ok"
        PROVE  /\ Load!Existing \cap Load!Selected(invoked.services) \subseteq affected'
               /\ affected' \subseteq Load!Selected(invoked.services) \cup Load!Profiled
    <3>1. affected' = Load!Existing \cap chosen
      BY <1>1, <2>1
    <3>2. Load!Existing \subseteq Load!Enabled({}) \cup Load!Profiled
      BY ExistingTyped DEF Load!Enabled
    <3> QED
      BY <3>1, <3>2 DEF Load!Selected
  <2>2. ASSUME ending' = "err", Load!Existing # {} PROVE ~ invoked.services \subseteq Load!Existing
    <3>1. ~ Load!Closure(chosen) \subseteq Load!Existing
      BY <1>1, <2>2
    <3>2. CASE invoked.services = {}
      BY <3>1, <3>2, ExistingClosed
    <3>3. CASE invoked.services # {}
      BY <3>1, <3>3, ExistingClosed
    <3> QED
      BY <3>2, <3>3
  <2> QED
    BY <2>1, <2>2
<1>4. Unbroken' /\ Load!StopsAll' /\ HashPrinted' /\ \A c \in made' : c.service \in Load!Services
  BY <1>1 DEF LoadInv, LoadTypes, Unbroken, Load!StopsAll, HashPrinted
<1> QED
  BY <1>1, <1>2, <1>3, <1>4, Finishing

LEMMA LoadHash == ASSUME LoadInv, Load!Hash PROVE LoadInv'
<1>1. /\ invoked.verb = "hash"
      /\ UNCHANGED <<flags, around, composeFile, processEnv, disturbed, invoked, target, selection, made>>
      /\ ending' # "ok" \/ \A s \in DOMAIN printed' : printed'[s] = Load!Defined(FALSE, TRUE)
  BY DEF Load!Hash, Load!At, Load!Fixed, Load!Ends, Load!Fails
<1>2. invoked # Load!Idle
  <2>1. invoked.verb # "none"
    BY <1>1
  <2> QED
    BY <2>1, Running
<1>3. HashPrinted'
  <2>1. Load!Defined(FALSE, TRUE)' = Load!Defined(FALSE, TRUE)
    BY <1>1 DEF Load!Defined
  <2> QED
    BY <1>1, <2>1 DEF HashPrinted
<1>4. Unbroken' /\ Load!StartsTheSame' /\ Load!StopsAll' /\ \A c \in made' : c.service \in Load!Services
  BY <1>1 DEF LoadInv, LoadTypes, Unbroken, Load!StartsTheSame, Load!StopsAll
<1> QED
  BY <1>1, <1>2, <1>3, <1>4, Finishing

LEMMA LoadNext == ASSUME LoadInv, Load!Next \/ UNCHANGED Load!vars PROVE LoadInv'
<1>1. CASE UNCHANGED Load!vars
  <2>1. LoadTypes' /\ Unbroken' /\ HashPrinted'
    BY <1>1 DEF Load!vars, LoadInv, LoadTypes, Unbroken, HashPrinted, Load!Defined
  <2>2. AtHand'
    BY <1>1 DEF Load!vars, LoadInv, AtHand, Load!SetEnvWithDotEnv, Load!Selected, Load!Enabled
  <2>3. Load!SameProject'
    BY <1>1 DEF Load!vars, LoadInv, Load!SameProject, Load!NameIsGiven, Load!DocumentedName
  <2>4. Load!StartsTheSame' /\ Load!StopsAll'
    BY <1>1 DEF Load!vars, LoadInv, Load!StartsTheSame, Load!StopsAll, Load!Existing, Load!Selected, Load!Enabled
  <2> QED
    BY <2>1, <2>2, <2>3, <2>4 DEF LoadInv
<1>2. CASE Load!Exec
  BY <1>2, Passing DEF Load!Exec, Load!At, Load!Fixed, Load!Ends, Load!Fails
<1>3. CASE Load!Config
  BY <1>3, Passing DEF Load!Config, Load!At, Load!Fixed, Load!Ends
<1> QED
  BY <1>1, <1>2, <1>3, LoadChoose, LoadInvoke, LoadWithServices, LoadProjectOrName, LoadToProjectName,
     LoadToModel, LoadUp, LoadStop, LoadStartProject, LoadStartFromName, LoadHash, LoadEdit
     DEF Load!Next

----------------------------------------------------------------------------
(* What the flags, the environment and the project can be.                 *)
Sessions == [detach : BOOLEAN, noStart : BOOLEAN, wait : BOOLEAN, cascadeStop : BOOLEAN,
             cascadeFail : BOOLEAN, exitCodeFrom : {"", "db"}, attach : {{}, {"db"}},
             attachDependencies : BOOLEAN, noAttach : {{}, {"db"}}, watch : BOOLEAN,
             named : {{}, {"web"}}, noDeps : BOOLEAN, menu : BOOLEAN]
BuildFlags   == [build : BOOLEAN, platforms : SUBSET {"amd", "arm"}, platform : {"", "amd", "arm"}]

GivenRight ==
  /\ cli.verb \in {"up", "create"}
  /\ cli.session \in Sessions
  /\ cli.project \in [Cli!ServiceNames -> BuildFlags]
  /\ cli.verb = "create" => ~cli.noInherit

(* What each check and each change has brought, for the stages after it.   *)
From(stages) == stage \in stages
Called    == {"called"}
Ready     == {"selected"} \cup Called
Applied   == {"applied"} \cup Ready
Agreed    == {"agreed"} \cup Applied
Checked   == {"checked"} \cup Agreed
Validated == {"validated"} \cup Checked
Limited   == {"limit"} \cup Validated
Displayed == {"display"} \cup Limited

FlagsRight ==
  /\ up \in Sessions /\ up.noAttach = cli.session.noAttach
  /\ From(Displayed) /\ cli.ansi # "unset" => display.ansi \in {cli.ansi, "never"}
  /\ From(Limited) /\ cli.parallel => limit = "flag"

SessionRight ==
  /\ From(Validated) =>
       /\ ~(cli.build /\ cli.noBuild) /\ ~(cli.forceRecreate /\ cli.noRecreate)
       /\ cli.verb = "up" =>
            /\ ~(cli.noInherit /\ cli.noRecreate)
            /\ up.exitCodeFrom # "" => up.cascadeStop \/ up.cascadeFail
            /\ up.wait => up.detach
            /\ up.detach => ~up.cascadeStop /\ ~up.cascadeFail /\ ~up.watch
  /\ From(Checked) =>
       /\ cli.verb = "up" => ~(Cli!IgnoreOrphans /\ Cli!RemoveOrphans)
       /\ up.menu <=> Cli!Menu
  /\ From(Agreed) /\ cli.verb = "up" /\ cli.remote /\ ~cli.yes => agreed = Cli!Questions
  /\ From(Ready) /\ cli.verb = "up" => up.exitCodeFrom \in Cli!Selected \cup {""}

ServicesRight ==
  /\ ~From(Applied) => services = cli.project \/ stage = "refused"
  /\ From(Applied) =>
       /\ \A n \in Cli!ServiceNames : ~Cli!Unsupported(cli.project[n])
       /\ services = [n \in Cli!ServiceNames |-> Cli!Platform(cli.project[n])]

CallRight ==
  /\ stage # "called" => call = Cli!None
  /\ Cli!SessionIsPossible /\ Cli!CreationIsPossible
  /\ stage = "called" /\ call.op = "up" =>
       /\ cli.menu = "no" => ~call.menu
       /\ (cli.menu = "yes" /\ cli.terminal /\ display.mode # "plain") => call.menu
       /\ cli.removeOrphans = "no" => ~call.creation.removeOrphans

CliInv == GivenRight /\ FlagsRight /\ SessionRight /\ ServicesRight /\ CallRight

----
LEMMA NoCall == Cli!None.op = "none"
BY DEF Cli!None

(* The sizes of sets are the same everywhere.                              *)
LEMMA PlatformSize == ASSUME NEW S PROVE Cli!Cardinality(S) = Cardinality(S)
BY DEF Cli!Cardinality, Cardinality

(* No more than one platform is left of a service.                         *)
Wish(s) == IF s.platform # "" THEN s.platform ELSE cli.defaultPlatform

LEMMA PlatformRight ==
  ASSUME NEW s \in BuildFlags, s.build, ~Cli!Unsupported(s), NEW wish, wish = Wish(s)
  PROVE  /\ wish # "" => /\ Cli!Platform(s).platform = wish
                         /\ Cli!Platform(s).platforms = {wish}
                         /\ s.platforms # {} => wish \in s.platforms
         /\ Cli!Cardinality(Cli!Platform(s).platforms) <= 1
         /\ Cli!Platform(s).platforms \subseteq s.platforms \cup {wish}
<1>1. /\ Cli!Platform(s).platform = wish
      /\ Cli!Platform(s).platforms = IF wish # "" THEN {wish}
                                 ELSE IF Cli!Cardinality(s.platforms) > 1 THEN {} ELSE s.platforms
  BY DEF Cli!Platform, BuildFlags, Wish
<1>2. Cli!Cardinality({wish}) = 1 /\ Cli!Cardinality({}) = 0
  BY FS_Singleton, FS_EmptySet, PlatformSize
<1>3. Cli!Cardinality(s.platforms) \in Nat
  <2>1. IsFiniteSet({"amd", "arm"})
    <3>1. IsFiniteSet({"amd"}) /\ IsFiniteSet({"arm"})
      BY FS_Singleton
    <3>2. {"amd", "arm"} = {"amd"} \cup {"arm"}
      OBVIOUS
    <3> QED
      BY <3>1, <3>2, FS_Union
  <2>2. s.platforms \subseteq {"amd", "arm"}
    BY DEF BuildFlags
  <2>3. IsFiniteSet(s.platforms)
    BY <2>1, <2>2, FS_Subset
  <2> QED
    BY <2>3, FS_CardinalityType, PlatformSize
<1>4. wish # "" /\ s.platforms # {} => wish \in s.platforms
  BY DEF Cli!Unsupported, BuildFlags, Wish
<1>5. Cli!Cardinality(Cli!Platform(s).platforms) <= 1
  <2>1. CASE wish # ""
    <3>1. Cli!Platform(s).platforms = {wish}
      BY <1>1, <2>1
    <3>2. Cli!Cardinality(Cli!Platform(s).platforms) = 1
      BY <1>2, <3>1, Zenon
    <3> QED
      BY <3>2
  <2>2. CASE wish = "" /\ Cli!Cardinality(s.platforms) > 1
    <3>1. Cli!Platform(s).platforms = {}
      BY <1>1, <2>2
    <3>2. Cli!Cardinality(Cli!Platform(s).platforms) = 0
      BY <1>2, <3>1, Zenon
    <3> QED
      BY <3>2
  <2>3. CASE wish = "" /\ ~ Cli!Cardinality(s.platforms) > 1
    <3>1. Cli!Platform(s).platforms = s.platforms
      BY <1>1, <2>3
    <3>2. Cli!Cardinality(Cli!Platform(s).platforms) = Cli!Cardinality(s.platforms)
      BY <3>1, Zenon
    <3>3. PICK c \in Nat : c = Cli!Cardinality(s.platforms)
      BY <1>3
    <3>4. ~(c > 1)
      BY <2>3, <3>3
    <3>5. c <= 1
      BY <3>4
    <3> QED
      BY <3>2, <3>3, <3>5
  <2> QED
    BY <2>1, <2>2, <2>3
<1>6. Cli!Platform(s).platforms \subseteq s.platforms \cup {wish}
  BY <1>1
<1>7. wish # "" => Cli!Platform(s).platform = wish /\ Cli!Platform(s).platforms = {wish}
  BY <1>1
<1> QED
  BY <1>4, <1>5, <1>6, <1>7

LEMMA CliInvImplies == CliInv => Cli!CommandLineIsRight
<1> SUFFICES ASSUME CliInv PROVE Cli!CommandLineIsRight
  OBVIOUS
<1>1. Cli!SessionIsPossible /\ Cli!CreationIsPossible
  BY DEF CliInv, CallRight
<1>2. Cli!FlagsWin
  BY DEF CliInv, CallRight, FlagsRight, From, Called, Ready, Applied, Agreed, Checked, Validated,
         Limited, Displayed, Cli!FlagsWin
<1>3. Cli!PlatformsAreRight
  <2>1. ASSUME stage = "called", NEW n \in Cli!ServiceNames, cli.project[n].build
        PROVE  LET theirs == cli.project[n]
                   wish == IF theirs.platform # "" THEN theirs.platform ELSE cli.defaultPlatform
               IN  /\ wish # "" => /\ services[n].platform = wish
                                   /\ services[n].platforms = {wish}
                                   /\ theirs.platforms # {} => wish \in theirs.platforms
                   /\ Cli!Cardinality(services[n].platforms) <= 1
                   /\ services[n].platforms \subseteq theirs.platforms \cup {wish}
    <3>1. ~Cli!Unsupported(cli.project[n]) /\ services[n] = Cli!Platform(cli.project[n])
      BY <2>1 DEF CliInv, ServicesRight, From, Applied, Ready, Called
    <3>2. cli.project[n] \in BuildFlags
      BY DEF CliInv, GivenRight
    <3>3. PICK s \in BuildFlags : s = cli.project[n]
      BY <3>2
    <3>4. PICK w : w = Wish(s)
      OBVIOUS
    <3>5. /\ w # "" => /\ Cli!Platform(s).platform = w
                       /\ Cli!Platform(s).platforms = {w}
                       /\ s.platforms # {} => w \in s.platforms
          /\ Cli!Cardinality(Cli!Platform(s).platforms) <= 1
          /\ Cli!Platform(s).platforms \subseteq s.platforms \cup {w}
      BY <2>1, <3>1, <3>3, <3>4, PlatformRight
    <3>6. w = IF cli.project[n].platform # "" THEN cli.project[n].platform ELSE cli.defaultPlatform
      BY <3>3, <3>4 DEF Wish
    <3>7. services[n] = Cli!Platform(s) /\ cli.project[n] = s
      BY <3>1, <3>3
    <3> HIDE <3>1, <3>2
    <3> QED
      BY <3>5, <3>6, <3>7
  <2> QED
    BY <2>1, Zenon DEF Cli!PlatformsAreRight
<1>4. Cli!AgreedFirst
  <2> SUFFICES ASSUME call.op # "none", cli.verb = "up", cli.remote, ~cli.yes
               PROVE  agreed = Cli!Questions
    BY DEF Cli!AgreedFirst
  <2>1. stage = "called"
    BY NoCall DEF CliInv, CallRight
  <2> QED
    BY <2>1 DEF CliInv, SessionRight, From, Agreed, Applied, Ready, Called
<1> QED
  BY <1>1, <1>2, <1>3, <1>4 DEF Cli!CommandLineIsRight

----
(* Every choice of flags is one of these.                                    *)
LEMMA GivenAre ==
  /\ Cli!Given.verb = "up" /\ Cli!Given.session = Cli!Session /\ Cli!Session \in Sessions /\ Cli!Plain \in BuildFlags
  /\ Cli!Given.project \in [Cli!ServiceNames -> BuildFlags]
  /\ {"verb", "session", "project"} \subseteq DOMAIN Cli!Given
<1>1. FALSE \in BOOLEAN /\ {} \in SUBSET {"amd", "arm"}
  OBVIOUS
<1>2. Cli!Session \in Sessions
  BY <1>1 DEF Cli!Session, Sessions
<1>3. Cli!Plain \in BuildFlags
  BY <1>1 DEF Cli!Plain, BuildFlags
<1> HIDE DEF Sessions, BuildFlags
<1> QED
  BY <1>2, <1>3 DEF Cli!Given

(* What With makes of some flags.                                          *)
LEMMA WithIs ==
  ASSUME NEW some
  PROVE  /\ Cli!With(some).verb = IF "verb" \in DOMAIN some THEN some.verb ELSE Cli!Given.verb
         /\ Cli!With(some).session = IF "session" \in DOMAIN some THEN some.session ELSE Cli!Given.session
         /\ Cli!With(some).project = IF "project" \in DOMAIN some THEN some.project ELSE Cli!Given.project
<1>1. {"verb", "session", "project"} \subseteq DOMAIN Cli!Given
  BY GivenAre
<1> QED
  BY <1>1 DEF Cli!With

LEMMA FlagsAre ==
  ASSUME NEW f \in Cli!Flags
  PROVE  /\ f.verb \in {"up", "create"} /\ f.session \in Sessions
         /\ f.project \in [Cli!ServiceNames -> BuildFlags]
<1>1. /\ Cli!Given.verb = "up" /\ Cli!Given.session \in Sessions /\ Cli!Given.project \in [Cli!ServiceNames -> BuildFlags]
  BY GivenAre
<1>2. PICK some \in Cli!DisplayFlags \cup Cli!CallFlags \cup Cli!SessionFlags \cup Cli!CreationFlags
                    \cup Cli!OrphanFlags \cup Cli!PlatformFlags \cup Cli!RemoteFlags : f = Cli!With(some)
  BY DEF Cli!Flags
<1>6. /\ some \in Cli!DisplayFlags => DOMAIN some = {"ansi", "noAnsi", "envAnsi", "noColor", "progress", "terminal"}
      /\ some \in Cli!CallFlags => DOMAIN some = {"parallel", "envParallel", "workDir", "projectDir", "menu",
                                              "envMenu", "terminal"}
      /\ some \in Cli!SessionFlags => DOMAIN some = {"session"}
      /\ some \in Cli!PlatformFlags => DOMAIN some = {"project", "defaultPlatform"}
  BY DEF Cli!DisplayFlags, Cli!CallFlags, Cli!SessionFlags, Cli!PlatformFlags
<1>7. /\ some \in Cli!CreationFlags => /\ some.verb \in {"up", "create"}
                                       /\ "session" \notin DOMAIN some /\ "project" \notin DOMAIN some
      /\ some \in Cli!OrphanFlags => /\ some.verb \in {"up", "create"}
                                     /\ "session" \notin DOMAIN some /\ "project" \notin DOMAIN some
      /\ some \in Cli!RemoteFlags => /\ some.verb \in {"up", "create"}
                                     /\ "session" \notin DOMAIN some /\ "project" \notin DOMAIN some
  BY DEF Cli!CreationFlags, Cli!OrphanFlags, Cli!RemoteFlags
<1>3. "verb" \in DOMAIN some => some.verb \in {"up", "create"}
  BY <1>2, <1>6, <1>7
<1>4. "session" \in DOMAIN some => some.session \in Sessions
  <2>1. CASE some \in Cli!SessionFlags
    <3>1. some.session \in [detach : BOOLEAN, noStart : BOOLEAN, wait : BOOLEAN, cascadeStop : BOOLEAN,
              cascadeFail : BOOLEAN, exitCodeFrom : {"", "db"}, attach : {{}, {"db"}},
              attachDependencies : BOOLEAN, noAttach : {{}, {"db"}}, watch : BOOLEAN,
              named : {{}, {"web"}}, noDeps : BOOLEAN, menu : {FALSE}]
      BY <2>1 DEF Cli!SessionFlags
    <3> QED
      BY <3>1 DEF Sessions
  <2> QED
    BY <1>2, <1>6, <1>7, <2>1
<1>5. "project" \in DOMAIN some => some.project \in [Cli!ServiceNames -> BuildFlags]
  <2>1. CASE some \in Cli!PlatformFlags
    <3>1. some.project \in [Cli!ServiceNames -> {Cli!Plain} \cup [build : {TRUE}, platforms : SUBSET {"amd", "arm"},
                                                          platform : {"", "amd", "arm"}]]
      BY <2>1 DEF Cli!PlatformFlags
    <3>2. [build : {TRUE}, platforms : SUBSET {"amd", "arm"}, platform : {"", "amd", "arm"}] \subseteq BuildFlags
      BY DEF BuildFlags
    <3>3. Cli!Plain \in BuildFlags
      BY GivenAre
    <3> QED
      BY <3>1, <3>2, <3>3
  <2> QED
    BY <1>2, <1>6, <1>7, <2>1
<1> QED
  BY <1>1, <1>2, <1>3, <1>4, <1>5, WithIs

LEMMA CliInit == Cli!Init => CliInv
<1> SUFFICES ASSUME Cli!Init PROVE CliInv
  OBVIOUS
<1>1. cli = Cli!Given /\ stage = "start" /\ up = Cli!Session /\ call = Cli!None
      /\ services = [n \in Cli!ServiceNames |-> Cli!Plain]
  BY DEF Cli!Init
<1>2. GivenRight
  BY <1>1, GivenAre DEF GivenRight, Cli!Given
<1>3. FlagsRight
  BY <1>1, GivenAre DEF FlagsRight, From, Called, Ready, Applied, Agreed, Checked, Validated,
     Limited, Displayed, Cli!Given
<1>4. SessionRight
  BY <1>1 DEF SessionRight, From, Called, Ready, Applied, Agreed, Checked, Validated
<1>5. ServicesRight
  BY <1>1 DEF ServicesRight, From, Called, Ready, Applied, Cli!Given
<1>6. CallRight
  BY <1>1 DEF CallRight, Cli!None, Cli!SessionIsPossible, Cli!CreationIsPossible
<1> QED
  BY <1>2, <1>3, <1>4, <1>5, <1>6 DEF CliInv

----
(* Nothing is asked of the layer below before the last step.               *)
LEMMA CallLater ==
  ASSUME stage # "called", CliInv, UNCHANGED call, stage' # "called"
  PROVE  CallRight'
<1>1. call' = Cli!None /\ Cli!None.op = "none"
  BY NoCall DEF CliInv, CallRight
<1>2. Cli!SessionIsPossible' /\ Cli!CreationIsPossible'
  BY <1>1 DEF Cli!SessionIsPossible, Cli!CreationIsPossible
<1> QED
  BY <1>1, <1>2 DEF CallRight

(* A refusal ends it all.                                                  *)
LEMMA Refused ==
  ASSUME CliInv, stage # "called", stage' = "refused",
         UNCHANGED <<cli, up, display, limit, services, agreed, call>>
  PROVE  CliInv'
<1>1. GivenRight'
  BY DEF CliInv, GivenRight
<1>2. FlagsRight' /\ SessionRight' /\ ServicesRight'
  BY DEF CliInv, FlagsRight, SessionRight, ServicesRight, From, Called, Ready, Applied, Agreed, Checked,
         Validated, Limited, Displayed
<1>3. CallRight'
  BY CallLater
<1> QED
  BY <1>1, <1>2, <1>3 DEF CliInv

LEMMA CliParse == ASSUME CliInv, Cli!Parse PROVE CliInv'
<1>1. /\ stage = "start" /\ stage' = "parsed"
      /\ cli' \in Cli!Flags /\ (cli'.verb = "create" => ~cli'.noInherit)
      /\ up' = cli'.session /\ services' = cli'.project
      /\ UNCHANGED <<display, limit, agreed, call>>
  BY DEF Cli!Parse
<1>2. PICK f \in Cli!Flags : cli' = f
  BY <1>1
<1>3. GivenRight'
  BY <1>1, <1>2, FlagsAre DEF GivenRight
<1>4. FlagsRight'
  BY <1>1, <1>2, FlagsAre DEF FlagsRight, From, Called, Ready, Applied, Agreed, Checked, Validated,
     Limited, Displayed
<1>5. SessionRight' /\ ServicesRight'
  BY <1>1 DEF SessionRight, ServicesRight, From, Called, Ready, Applied, Agreed, Checked, Validated
<1>6. CallRight'
  BY <1>1, CallLater
<1> QED
  BY <1>3, <1>4, <1>5, <1>6 DEF CliInv

LEMMA CliChooseDisplay == ASSUME CliInv, Cli!ChooseDisplay PROVE CliInv'
<1>1. CASE Cli!Refuse /\ UNCHANGED display
  BY <1>1, Refused DEF Cli!ChooseDisplay, Cli!Refuse
<1>2. CASE /\ display' = [ansi |-> IF cli.noColor THEN "never" ELSE Cli!Ansi, mode |-> Cli!Mode(Cli!Ansi), writer |-> Cli!Writer(Cli!Ansi)]
           /\ stage' = "display"
  <2>1. stage = "parsed" /\ UNCHANGED <<cli, up, limit, services, agreed, call>>
    BY DEF Cli!ChooseDisplay
  <2>2. cli.ansi # "unset" => display'.ansi \in {cli.ansi, "never"}
    BY <1>2 DEF Cli!Ansi
  <2>3. GivenRight' /\ FlagsRight' /\ SessionRight' /\ ServicesRight'
    BY <1>2, <2>1, <2>2 DEF CliInv, GivenRight, FlagsRight, SessionRight, ServicesRight, From, Called,
       Ready, Applied, Agreed, Checked, Validated, Limited, Displayed
  <2>4. CallRight'
    BY <1>2, <2>1, CallLater
  <2> QED
    BY <2>3, <2>4 DEF CliInv
<1> QED
  BY <1>1, <1>2 DEF Cli!ChooseDisplay

LEMMA CliChooseLimit == ASSUME CliInv, Cli!ChooseLimit PROVE CliInv'
<1>1. CASE Cli!Refuse /\ UNCHANGED limit
  BY <1>1, Refused DEF Cli!ChooseLimit, Cli!Refuse
<1>2. CASE /\ limit' = (IF cli.parallel THEN "flag"
                       ELSE IF cli.envParallel = "set" THEN "environment" ELSE "none")
           /\ stage' = "limit"
  <2>1. stage = "display" /\ UNCHANGED <<cli, up, display, services, agreed, call>>
    BY DEF Cli!ChooseLimit
  <2>2. cli.parallel => limit' = "flag"
    BY <1>2
  <2>3. GivenRight' /\ FlagsRight' /\ SessionRight' /\ ServicesRight'
    BY <1>2, <2>1, <2>2 DEF CliInv, GivenRight, FlagsRight, SessionRight, ServicesRight, From, Called,
       Ready, Applied, Agreed, Checked, Validated, Limited, Displayed
  <2>4. CallRight'
    BY <1>2, <2>1, CallLater
  <2> QED
    BY <2>3, <2>4 DEF CliInv
<1> QED
  BY <1>1, <1>2 DEF Cli!ChooseLimit

(* What the flags imply, if they do not contradict each other.             *)
LEMMA ImpliedRight ==
  ASSUME up \in Sessions, ~Cli!Contradicting
  PROVE  /\ Cli!Implied \in Sessions /\ Cli!Implied.noAttach = up.noAttach
         /\ ~(cli.build /\ cli.noBuild) /\ ~(cli.forceRecreate /\ cli.noRecreate)
         /\ cli.verb = "up" =>
              /\ ~(cli.noInherit /\ cli.noRecreate)
              /\ Cli!Implied.exitCodeFrom # "" => Cli!Implied.cascadeStop \/ Cli!Implied.cascadeFail
              /\ Cli!Implied.wait => Cli!Implied.detach
              /\ Cli!Implied.detach => ~Cli!Implied.cascadeStop /\ ~Cli!Implied.cascadeFail /\ ~Cli!Implied.watch
<1>1. (up.cascadeStop \/ (up.exitCodeFrom # "" /\ ~up.cascadeFail)) \in BOOLEAN
      /\ (up.detach \/ up.wait) \in BOOLEAN
  OBVIOUS
<1>2. PICK s \in BOOLEAN, d \in BOOLEAN :
        /\ s <=> (up.cascadeStop \/ (up.exitCodeFrom # "" /\ ~up.cascadeFail))
        /\ d <=> (up.detach \/ up.wait)
        /\ Cli!Implied = [up EXCEPT !.cascadeStop = s, !.detach = d]
  BY <1>1 DEF Cli!Implied
<1>3. Cli!Implied \in Sessions
  BY <1>2 DEF Sessions
<1>4. /\ (Cli!Implied.cascadeStop <=> s) /\ (Cli!Implied.detach <=> d)
      /\ Cli!Implied.noAttach = up.noAttach /\ Cli!Implied.exitCodeFrom = up.exitCodeFrom
      /\ Cli!Implied.wait = up.wait /\ Cli!Implied.cascadeFail = up.cascadeFail
  BY <1>2 DEF Sessions
<1>5. ~(cli.build /\ cli.noBuild) /\ ~(cli.forceRecreate /\ cli.noRecreate)
  BY DEF Cli!Contradicting
<1>6. ASSUME cli.verb = "up"
      PROVE  /\ ~(cli.noInherit /\ cli.noRecreate)
             /\ Cli!Implied.detach => ~Cli!Implied.cascadeStop /\ ~Cli!Implied.cascadeFail /\ ~Cli!Implied.watch
  BY <1>6 DEF Cli!Contradicting
<1> QED
  BY <1>2, <1>3, <1>4, <1>5, <1>6

LEMMA CliValidateFlags == ASSUME CliInv, Cli!ValidateFlags PROVE CliInv'
<1>1. CASE Cli!Contradicting
  BY <1>1, Refused DEF Cli!ValidateFlags, Cli!Refuse
<1>2. CASE ~Cli!Contradicting
  <2>1. /\ stage = "limit" /\ stage' = "validated" /\ UNCHANGED <<cli, display, limit, services, agreed, call>>
        /\ up' = (IF cli.verb = "up" THEN Cli!Implied ELSE up)
    BY <1>2 DEF Cli!ValidateFlags
  <2>2. up \in Sessions
    BY DEF CliInv, FlagsRight
  <2>3. up' \in Sessions /\ up'.noAttach = up.noAttach
    BY <1>2, <2>1, <2>2, ImpliedRight
  <2>4. GivenRight' /\ FlagsRight' /\ ServicesRight'
    BY <2>1, <2>3 DEF CliInv, GivenRight, FlagsRight, ServicesRight, From, Called,
       Ready, Applied, Agreed, Checked, Validated, Limited, Displayed
  <2>5. SessionRight'
    BY <1>2, <2>1, <2>2, ImpliedRight DEF SessionRight, From, Called, Ready, Applied, Agreed, Checked, Validated
  <2>6. CallRight'
    BY <2>1, CallLater
  <2> QED
    BY <2>4, <2>5, <2>6 DEF CliInv
<1> QED
  BY <1>1, <1>2

LEMMA CliCheck == ASSUME CliInv, Cli!Check PROVE CliInv'
<1>1. CASE Cli!Refuse /\ UNCHANGED up
  BY <1>1, Refused DEF Cli!Check, Cli!Refuse
<1>2. CASE /\ ~(cli.verb = "up" /\ ((Cli!IgnoreOrphans /\ Cli!RemoveOrphans) \/
                                      (up.attach # {} /\ up.attachDependencies)))
           /\ up' = [up EXCEPT !.menu = Cli!Menu]
           /\ stage' = IF cli.verb = "up" THEN "checked" ELSE "agreed"
  <2>1. stage = "validated" /\ UNCHANGED <<cli, display, limit, services, agreed, call>>
    BY DEF Cli!Check
  <2>2. Cli!Menu \in BOOLEAN
    BY DEF Cli!Menu
  <2>3. PICK m \in BOOLEAN : (m <=> Cli!Menu) /\ up' = [up EXCEPT !.menu = m]
    BY <1>2, <2>2
  <2>4. up \in Sessions
    BY DEF CliInv, FlagsRight
  <2>5. /\ up' \in Sessions /\ up'.noAttach = up.noAttach
        /\ up'.exitCodeFrom = up.exitCodeFrom /\ up'.cascadeStop = up.cascadeStop
        /\ up'.cascadeFail = up.cascadeFail /\ up'.wait = up.wait /\ up'.detach = up.detach
        /\ up'.watch = up.watch /\ (up'.menu <=> Cli!Menu)
    BY <2>3, <2>4 DEF Sessions
  <2>6. stage' \in {"checked", "agreed"} /\ (cli.verb = "up" => stage' = "checked")
    BY <1>2
  <2>7. GivenRight' /\ FlagsRight' /\ ServicesRight'
    BY <2>1, <2>5, <2>6 DEF CliInv, GivenRight, FlagsRight, ServicesRight, From, Called,
       Ready, Applied, Agreed, Checked, Validated, Limited, Displayed
  <2>8. SessionRight'
    <3>1. Cli!Menu' = Cli!Menu /\ Cli!IgnoreOrphans' = Cli!IgnoreOrphans /\ Cli!RemoveOrphans' = Cli!RemoveOrphans
      BY <2>1 DEF Cli!Menu, Cli!IgnoreOrphans, Cli!RemoveOrphans
    <3>2. /\ ~(cli.build /\ cli.noBuild) /\ ~(cli.forceRecreate /\ cli.noRecreate)
          /\ cli.verb = "up" =>
               /\ ~(cli.noInherit /\ cli.noRecreate)
               /\ up.exitCodeFrom # "" => up.cascadeStop \/ up.cascadeFail
               /\ up.wait => up.detach
               /\ up.detach => ~up.cascadeStop /\ ~up.cascadeFail /\ ~up.watch
      BY <2>1 DEF CliInv, SessionRight, From, Validated
    <3> QED
      BY <1>2, <2>1, <2>5, <2>6, <3>1, <3>2 DEF SessionRight, From, Called, Ready, Applied, Agreed,
         Checked, Validated
  <2>9. CallRight'
    BY <2>1, <2>6, CallLater
  <2> QED
    BY <2>7, <2>8, <2>9 DEF CliInv
<1> QED
  BY <1>1, <1>2 DEF Cli!Check

(* A stage that is reached with the flags as they are.                     *)
LEMMA NextStage ==
  ASSUME CliInv, stage \in {"checked", "agreed", "applied"}, stage' \in Agreed, stage' # "called",
         UNCHANGED <<cli, up, display, limit, call>>, ServicesRight',
         cli.verb = "up" /\ cli.remote /\ ~cli.yes => agreed' = Cli!Questions,
         stage' = "selected" /\ cli.verb = "up" => up.exitCodeFrom \in Cli!Selected \cup {""}
  PROVE  CliInv'
<1>1. GivenRight' /\ FlagsRight'
  BY DEF CliInv, GivenRight, FlagsRight, From, Called, Ready, Applied, Agreed, Checked, Validated,
         Limited, Displayed
<1>2. SessionRight'
  <2>1. /\ Cli!Menu' = Cli!Menu /\ Cli!IgnoreOrphans' = Cli!IgnoreOrphans /\ Cli!RemoveOrphans' = Cli!RemoveOrphans
        /\ Cli!Questions' = Cli!Questions /\ Cli!Selected' = Cli!Selected
    BY DEF Cli!Menu, Cli!IgnoreOrphans, Cli!RemoveOrphans, Cli!Questions, Cli!Selected
  <2> QED
    BY <2>1 DEF CliInv, SessionRight, From, Called, Ready, Applied, Agreed, Checked, Validated
<1>3. CallRight'
  BY CallLater
<1> QED
  BY <1>1, <1>2, <1>3 DEF CliInv

LEMMA CliAsk == ASSUME CliInv, Cli!Ask PROVE CliInv'
<1>1. CASE Cli!Refuse /\ UNCHANGED agreed
  BY <1>1, Refused DEF Cli!Ask, Cli!Refuse
<1>2. CASE stage' = "agreed" /\ (cli.remote /\ ~cli.yes => agreed' = Cli!Questions)
  <2>1. stage = "checked" /\ UNCHANGED <<cli, up, display, limit, services, call>>
    BY DEF Cli!Ask
  <2>2. ServicesRight'
    BY <1>2, <2>1 DEF CliInv, ServicesRight, From, Called, Ready, Applied
  <2> QED
    BY <1>2, <2>1, <2>2, NextStage DEF Agreed, Applied
<1> QED
  BY <1>1, <1>2 DEF Cli!Ask

LEMMA CliApply == ASSUME CliInv, Cli!Apply PROVE CliInv'
<1>1. CASE Cli!Refuse /\ UNCHANGED services
  BY <1>1, Refused DEF Cli!Apply, Cli!Refuse
<1>2. CASE /\ ~(\E n \in Cli!ServiceNames : Cli!Unsupported(services[n]))
           /\ services' = [n \in Cli!ServiceNames |-> Cli!Platform(services[n])] /\ stage' = "applied"
  <2>1. stage = "agreed" /\ UNCHANGED <<cli, up, display, limit, agreed, call>>
    BY DEF Cli!Apply
  <2>2. services = cli.project
    BY <2>1 DEF CliInv, ServicesRight, From, Called, Ready, Applied
  <2>3. ServicesRight'
    <3>1. \A s : Cli!Unsupported(s)' <=> Cli!Unsupported(s)
      BY <2>1 DEF Cli!Unsupported
    <3>2. [n \in Cli!ServiceNames |-> Cli!Platform(cli.project[n])]' = [n \in Cli!ServiceNames |-> Cli!Platform(cli.project[n])]
      BY <2>1 DEF Cli!Platform
    <3> QED
      BY <1>2, <2>1, <2>2, <3>2 DEF ServicesRight, From, Called, Ready, Applied, Cli!Unsupported
  <2>4. cli.verb = "up" /\ cli.remote /\ ~cli.yes => agreed' = Cli!Questions
    BY <2>1 DEF CliInv, SessionRight, From, Agreed
  <2> QED
    BY <1>2, <2>1, <2>3, <2>4, NextStage DEF Agreed, Applied
<1> QED
  BY <1>1, <1>2 DEF Cli!Apply

LEMMA CliSelectServices == ASSUME CliInv, Cli!SelectServices PROVE CliInv'
<1>1. stage = "applied" /\ UNCHANGED <<cli, up, display, limit, services, agreed, call>>
  BY DEF Cli!SelectServices
<1>2. CASE stage' = "refused"
  BY <1>1, <1>2, Refused
<1>3. CASE stage' = "selected" /\ (cli.verb = "up" => up.exitCodeFrom \in Cli!Selected \cup {""})
  <2>1. ServicesRight'
    BY <1>1, <1>3 DEF CliInv, ServicesRight, From, Called, Ready, Applied, Cli!Unsupported, Cli!Platform
  <2>2. cli.verb = "up" /\ cli.remote /\ ~cli.yes => agreed' = Cli!Questions
    BY <1>1 DEF CliInv, SessionRight, From, Agreed, Applied
  <2> QED
    BY <1>1, <1>3, <2>1, <2>2, NextStage DEF Agreed, Applied, Ready
<1> QED
  BY <1>2, <1>3 DEF Cli!SelectServices, Cli!Refuse

----
(* How the containers are to be made.                                      *)
LEMMA CreationIs ==
  /\ Cli!Creation.builds <=> ~cli.noBuild
  /\ Cli!Creation.removeOrphans <=> Cli!RemoveOrphans
  /\ Cli!Creation.ignoreOrphans <=> Cli!IgnoreOrphans
  /\ Cli!Creation.recreate = Cli!RecreateStrategy
  /\ Cli!Creation.inherit <=> ~cli.noInherit
BY DEF Cli!Creation

LEMMA CreationRight ==
  ASSUME CliInv, stage = "selected"
  PROVE  /\ Cli!Creation.recreate = "never" => Cli!Creation.inherit /\ ~cli.forceRecreate
         /\ ~(Cli!Creation.removeOrphans /\ Cli!Creation.ignoreOrphans)
         /\ cli.build => Cli!Creation.builds
         /\ cli.verb = "up" /\ cli.removeOrphans = "no" => ~Cli!Creation.removeOrphans
<1>1. /\ ~(cli.build /\ cli.noBuild) /\ ~(cli.forceRecreate /\ cli.noRecreate)
      /\ cli.verb = "up" => ~(cli.noInherit /\ cli.noRecreate) /\ ~(Cli!IgnoreOrphans /\ Cli!RemoveOrphans)
      /\ cli.verb = "create" => ~cli.noInherit
      /\ cli.verb \in {"up", "create"}
  BY DEF CliInv, GivenRight, SessionRight, From, Ready, Applied, Agreed, Checked, Validated
<1>2. Cli!RecreateStrategy = "never" => cli.noRecreate
  BY DEF Cli!RecreateStrategy
<1>3. cli.verb # "up" => ~Cli!IgnoreOrphans
  BY DEF Cli!IgnoreOrphans
<1>4. cli.removeOrphans = "no" => ~Cli!RemoveOrphans
  BY DEF Cli!RemoveOrphans
<1> QED
  BY <1>1, <1>2, <1>3, <1>4, CreationIs

(* The call changes nothing but what it asks for.                          *)
LEMMA Calling ==
  ASSUME CliInv, stage = "selected", stage' = "called",
         UNCHANGED <<cli, up, display, limit, services, agreed>>, CallRight'
  PROVE  CliInv'
<1>1. GivenRight' /\ FlagsRight'
  BY DEF CliInv, GivenRight, FlagsRight, From, Called, Ready, Applied, Agreed, Checked, Validated,
         Limited, Displayed
<1>2. SessionRight'
  BY DEF CliInv, SessionRight, From, Called, Ready, Applied, Agreed, Checked, Validated, Cli!Menu,
         Cli!IgnoreOrphans, Cli!RemoveOrphans, Cli!Questions, Cli!Selected
<1>3. ServicesRight'
  BY DEF CliInv, ServicesRight, From, Called, Ready, Applied, Cli!Unsupported, Cli!Platform
<1> QED
  BY <1>1, <1>2, <1>3 DEF CliInv

LEMMA CliCallCreate == ASSUME CliInv, Cli!CallCreate PROVE CliInv'
<1>1. /\ stage = "selected" /\ stage' = "called"
      /\ UNCHANGED <<cli, up, display, limit, services, agreed>>
      /\ call'.op = "create" /\ call'.creation = Cli!Creation
  BY DEF Cli!CallCreate
<1>2. Cli!CreationIsPossible'
  BY <1>1, CreationRight DEF Cli!CreationIsPossible
<1>3. CallRight'
  BY <1>1, <1>2 DEF CallRight, Cli!SessionIsPossible
<1> QED
  BY <1>1, <1>3, Calling

LEMMA SelectedTyped ==
  ASSUME up \in Sessions
  PROVE  Cli!Selected \subseteq Cli!ServiceNames /\ up.named \subseteq Cli!Selected
BY DEF Sessions, Cli!Selected, Cli!ServiceNames

LEMMA CliCallUp == ASSUME CliInv, Cli!CallUp PROVE CliInv'
<1>1. CASE Cli!Refuse /\ UNCHANGED call
  BY <1>1, Refused DEF Cli!CallUp, Cli!Refuse
<1>2. CASE /\ up.detach \/ up.attach \subseteq Cli!Selected
           /\ call' = [op |-> "up", creation |-> Cli!Creation,
                       consumer |-> ~up.detach,
                       attachTo |-> IF up.detach THEN {} ELSE Cli!Attached,
                       onExit |-> Cli!OnExit, exitCodeFrom |-> up.exitCodeFrom,
                       wait |-> up.wait, watch |-> up.watch,
                       menu |-> up.menu /\ display.mode # "plain"]
           /\ stage' = "called"
  <2>1. /\ stage = "selected" /\ cli.verb = "up"
        /\ UNCHANGED <<cli, up, display, limit, services, agreed>>
    BY DEF Cli!CallUp
  <2>2. /\ call'.op = "up" /\ call'.creation = Cli!Creation /\ (call'.consumer <=> ~up.detach)
        /\ call'.attachTo = (IF up.detach THEN {} ELSE Cli!Attached)
        /\ call'.onExit = Cli!OnExit /\ call'.exitCodeFrom = up.exitCodeFrom
        /\ (call'.wait <=> up.wait) /\ (call'.watch <=> up.watch)
        /\ (call'.menu <=> up.menu /\ display.mode # "plain")
    BY <1>2
  <2>3. /\ up.exitCodeFrom # "" => up.cascadeStop \/ up.cascadeFail
        /\ up.wait => up.detach
        /\ up.detach => ~up.cascadeStop /\ ~up.cascadeFail /\ ~up.watch
        /\ up.menu <=> Cli!Menu
        /\ up.exitCodeFrom \in Cli!Selected \cup {""}
        /\ up \in Sessions /\ up.noAttach = cli.session.noAttach
    BY <2>1 DEF CliInv, FlagsRight, SessionRight, From, Ready, Applied, Agreed, Checked, Validated
  <2>4. ~up.detach => Cli!Attached \subseteq Cli!Selected \ up.noAttach
    BY <1>2, <2>3, SelectedTyped DEF Cli!Attached
  <2>5. Cli!OnExit # "ignore" <=> up.cascadeStop \/ up.cascadeFail
    BY DEF Cli!OnExit
  <2>6. Cli!Selected' = Cli!Selected
    BY <2>1 DEF Cli!Selected
  <2>7. Cli!SessionIsPossible'
    BY <2>1, <2>2, <2>3, <2>4, <2>5, <2>6 DEF Cli!SessionIsPossible
  <2>8. Cli!CreationIsPossible'
    BY <2>1, <2>2, CreationRight DEF Cli!CreationIsPossible
  <2>9. /\ cli.menu = "no" => ~Cli!Menu
        /\ cli.menu = "yes" /\ cli.terminal => Cli!Menu
    BY DEF Cli!Menu
  <2>10. CallRight'
    BY <1>2, <2>1, <2>2, <2>3, <2>7, <2>8, <2>9, CreationRight DEF CallRight
  <2> QED
    BY <1>2, <2>1, <2>10, Calling
<1> QED
  BY <1>1, <1>2 DEF Cli!CallUp

LEMMA CliNext == ASSUME CliInv, Cli!Next \/ UNCHANGED Cli!vars PROVE CliInv'
<1>1. CASE UNCHANGED Cli!vars
  <2>1. GivenRight' /\ FlagsRight'
    BY <1>1 DEF Cli!vars, CliInv, GivenRight, FlagsRight, From
  <2>2. SessionRight'
    BY <1>1 DEF Cli!vars, CliInv, SessionRight, From, Cli!Menu, Cli!IgnoreOrphans, Cli!RemoveOrphans, Cli!Questions, Cli!Selected
  <2>3. ServicesRight'
    BY <1>1 DEF Cli!vars, CliInv, ServicesRight, From, Cli!Unsupported, Cli!Platform
  <2>4. CallRight'
    BY <1>1 DEF Cli!vars, CliInv, CallRight, Cli!SessionIsPossible, Cli!CreationIsPossible, Cli!Selected
  <2> QED
    BY <2>1, <2>2, <2>3, <2>4 DEF CliInv
<1> QED
  BY <1>1, CliParse, CliChooseDisplay, CliChooseLimit, CliValidateFlags, CliCheck, CliAsk, CliApply,
     CliSelectServices, CliCallCreate, CliCallUp DEF Cli!Next

LEMMA RemoteAlone ==
  ASSUME [MCNext]_allVars
  PROVE  Remote!Next \/ UNCHANGED remoteVars
BY DEF MCNext, allVars

LEMMA LoadAlone ==
  ASSUME [MCNext]_allVars
  PROVE  Load!Next \/ UNCHANGED loadingVars
BY DEF MCNext, allVars

LEMMA CliAlone ==
  ASSUME [MCNext]_allVars
  PROVE  Cli!Next \/ UNCHANGED commandLineVars
BY DEF MCNext, allVars

(* For any number of loads and of processes killed: what is loaded of a    *)
(* version is whole, and a failure has its cause, unless a process was     *)
(* killed while it filled that version's directory, or two loaded it at    *)
(* once (git.go, oci.go).  For any number of commands: all work on one project, start    *)
(* and stop what is meant, and print the hashes that containers have       *)
(* (compose.go, loader.go).  With any flags: what up and create ask for    *)
(* can be done, and is what was said (up.go, create.go, options.go).       *)
THEOREM LoadingIsRightHolds == MCSpec => []LoadingIsRight
<1>1. MCInit => RemoteInv
  BY RemoteInit DEF MCInit
<1>2. RemoteInv /\ [MCNext]_allVars => RemoteInv'
  <2> SUFFICES ASSUME RemoteInv, [MCNext]_allVars PROVE RemoteInv'
    OBVIOUS
  <2>1. Remote!Next \/ UNCHANGED Remote!vars
    BY RemoteAlone DEF remoteVars, Remote!vars
  <2> QED
    BY <2>1, RemoteNext
<1>4. MCInit => LoadInv
  BY LoadInit DEF MCInit
<1>5. LoadInv /\ [MCNext]_allVars => LoadInv'
  <2> SUFFICES ASSUME LoadInv, [MCNext]_allVars PROVE LoadInv'
    OBVIOUS
  <2>1. Load!Next \/ UNCHANGED Load!vars
    BY LoadAlone DEF loadingVars, Load!vars
  <2> QED
    BY <2>1, LoadNext
<1>7. MCInit => CliInv
  BY CliInit DEF MCInit
<1>8. CliInv /\ [MCNext]_allVars => CliInv'
  <2> SUFFICES ASSUME CliInv, [MCNext]_allVars PROVE CliInv'
    OBVIOUS
  <2>1. Cli!Next \/ UNCHANGED Cli!vars
    BY CliAlone DEF commandLineVars, Cli!vars
  <2> QED
    BY <2>1, CliNext
<1>10. RemoteInv /\ LoadInv /\ CliInv => LoadingIsRight
  BY RemoteInvImplies, LoadInvImplies, CliInvImplies DEF LoadingIsRight
<1> QED
  BY <1>1, <1>2, <1>4, <1>5, <1>7, <1>8, <1>10, PTL DEF MCSpec, allVars

----------------------------------------------------------------------------
(* What the project object can have of a file, once it is loaded: an       *)
(* address moves to the settings of the network, an interface name to the  *)
(* options, and the replicas are forgotten.                                *)
ObjectTypes == [mac : {"", "one", "two"}, ifoption : BOOLEAN, replicas : BOOLEAN]
Objects(f) ==
  {o \in ObjectTypes :
     /\ o.mac = f.networkMac \/ (f.settings /\ f.networkMac = "" /\ o.mac = f.mac)
     /\ o.ifoption => f.ifname /\ f.options
     /\ o.replicas => f.deploy}

Labels(f) == {Hash(f, o) : o \in Objects(f)}

CreatedRight(c) ==
  /\ c.file \in Files
  /\ c.request = Declared(c.file)
  /\ c.label \in Labels(c.file)

(* Where the process, its goroutines and the loop are.                     *)
StateTypes ==
  /\ DOMAIN containers = Numbers /\ DOMAIN routine = Numbers /\ DOMAIN label = Numbers
  /\ command \in {"none", "loaded", "converge", "ended", "failed"}
  /\ policy \in {"diverged", "force"} /\ fresh \in BOOLEAN

Working ==
  /\ command # "none" => object \in Objects(file)
  /\ command = "loaded" => object = Loaded(file)
  /\ command \notin {"converge", "failed"} => \A n \in Numbers : routine[n] = "none"
  /\ undecided # {} => command = "converge"
  /\ \A n \in undecided : routine[n] = "none"
  /\ \A n \in Numbers : routine[n] \in {"address", "create"} => label[n] \in Labels(file)

(* What the creation has been through is as declared or about to be; what  *)
(* it should add is wanted, or under way.                                  *)
Progressing ==
  command = "converge" =>
    /\ \A n \in Existing \ undecided : routine[n] # "none" \/ containers[n].request = Declared(file)
    /\ fresh \/ ~file.deploy => \A n \in Numbers : n \in Existing \cup Missing \/ routine[n] # "none"

AllThere == Ended /\ (fresh \/ ~file.deploy) => Existing = Numbers

ContainersInv ==
  /\ TypeOK /\ StateTypes
  /\ \A n \in Existing : CreatedRight(containers[n])
  /\ Working /\ Progressing
  /\ AsDeclared /\ AllThere /\ NeedlessOnlyIfMoved

LEMMA ContainersInvImplies == ContainersInv => AsDeclared /\ ReplicasAreRight
<1>1. Cardinality(Numbers) = Scale
  BY FS_Interval, ScaleAssumption DEF Numbers
<1> QED
  BY <1>1 DEF ContainersInv, AllThere, ReplicasAreRight, ScaleReached

----
(* Whatever has become of the object, the request is what the file         *)
(* declares, and so is that of a container with the same hash.             *)
LEMMA RequestRight == ASSUME NEW f \in Files, NEW o \in Objects(f) PROVE Request(f, o) = Declared(f)
BY DEF Files, Objects, Request, Declared

LEMMA SameHash ==
  ASSUME NEW f \in Files, NEW o \in Objects(f), NEW g \in Files, Hash(f, o) \in Labels(g)
  PROVE  Declared(g) = Declared(f)
<1>1. PICK p \in Objects(g) : Hash(f, o) = Hash(g, p)
  BY DEF Labels
<1>2. o.mac = p.mac /\ f.mac = g.mac /\ f.ifname = g.ifname
  BY <1>1 DEF Hash
<1>3. Request(f, o) = Request(g, p)
  BY <1>2 DEF Request
<1> QED
  BY <1>3, RequestRight

(* The hash of one file differs only if something has moved.               *)
LEMMA HashMoves ==
  ASSUME NEW f \in Files, NEW o \in Objects(f), Hash(f, o) \notin Labels(f) \/ \E l \in Labels(f) : l # Hash(f, o)
  PROVE  (f.settings /\ f.mac # "" /\ f.networkMac = "") \/ (f.ifname /\ f.options)
<1>1. PICK p \in Objects(f) : Hash(f, p) # Hash(f, o)
  BY DEF Labels
<1>2. p.mac # o.mac \/ p.ifoption # o.ifoption
  BY <1>1 DEF Hash
<1>3. o.ifoption \in BOOLEAN /\ p.ifoption \in BOOLEAN
  BY DEF Objects, ObjectTypes
<1> QED
  BY <1>2, <1>3 DEF Objects

LEMMA LoadedRight == ASSUME NEW f \in Files PROVE Loaded(f) \in Objects(f)
<1>1. Loaded(f) \in ObjectTypes
  BY DEF Loaded, Files, ObjectTypes
<1> QED
  BY <1>1 DEF Loaded, Objects

LEMMA HashedRight == ASSUME NEW f \in Files, NEW o \in Objects(f) PROVE Hashed(o) \in Objects(f)
<1>1. o \in ObjectTypes /\ FALSE \in BOOLEAN
  BY DEF Objects
<1>2. Hashed(o) \in ObjectTypes
  BY <1>1 DEF Hashed, ObjectTypes
<1>3. Hashed(o).mac = o.mac /\ Hashed(o).ifoption = o.ifoption
  BY <1>1 DEF Hashed, ObjectTypes
<1>4. ~Hashed(o).replicas
  BY <1>1 DEF Hashed, ObjectTypes
<1> QED
  BY <1>2, <1>3, <1>4 DEF Objects

LEMMA AddressMoved ==
  ASSUME NEW f \in Files, NEW o \in Objects(f), f.settings, o.mac = ""
  PROVE  [o EXCEPT !.mac = f.mac] \in Objects(f)
<1> DEFINE p == [o EXCEPT !.mac = f.mac]
<1>1. o \in ObjectTypes /\ f.mac \in {"", "one", "two"} /\ f.networkMac = ""
  BY DEF Objects, Files
<1>2. p \in ObjectTypes
  BY <1>1 DEF ObjectTypes
<1>3. p.mac = f.mac /\ p.ifoption = o.ifoption /\ p.replicas = o.replicas
  BY <1>1 DEF ObjectTypes
<1> HIDE DEF p
<1>4. p \in Objects(f)
  BY <1>1, <1>2, <1>3 DEF Objects
<1> QED
  BY <1>4 DEF p

LEMMA NameMoved ==
  ASSUME NEW f \in Files, NEW o \in Objects(f), f.ifname, f.options
  PROVE  [o EXCEPT !.ifoption = TRUE] \in Objects(f)
<1> DEFINE p == [o EXCEPT !.ifoption = TRUE]
<1>1. o \in ObjectTypes /\ TRUE \in BOOLEAN
  BY DEF Objects
<1>2. p \in ObjectTypes
  BY <1>1 DEF ObjectTypes
<1>3. p.mac = o.mac /\ p.replicas = o.replicas
  BY <1>1 DEF ObjectTypes
<1> HIDE DEF p
<1>4. p \in Objects(f)
  BY <1>1, <1>2, <1>3 DEF Objects
<1> QED
  BY <1>4 DEF p

(* What is wanted is none, and no hash; a container is there.              *)
LEMMA KindsDiffer ==
  ASSUME NEW f, NEW o, NEW r, NEW l
  PROVE  /\ Hash(f, o) # [request |-> "wanted"] /\ None # [request |-> "wanted"]
         /\ [request |-> r, label |-> l, file |-> f] # None
<1>1. "mac" \in DOMAIN Hash(f, o) /\ "mac" \notin DOMAIN [request |-> "wanted"]
  BY DEF Hash
<1>2. "file" \in DOMAIN [request |-> r, label |-> l, file |-> f] /\ "file" \notin DOMAIN None
  BY DEF None
<1>3. None.request # [request |-> "wanted"].request
  BY DEF None
<1> QED
  BY <1>1, <1>2, <1>3

LEMMA ContainersInit == Init => ContainersInv
<1> SUFFICES ASSUME Init PROVE ContainersInv
  OBVIOUS
<1> USE DEF Init
<1>1. Existing = {}
  BY DEF Existing
<1>2. Loaded(file) \in ObjectTypes
  BY LoadedRight DEF Objects
<1>3. TypeOK
  BY <1>1, <1>2 DEF TypeOK, ObjectTypes
<1>4. StateTypes /\ Working
  BY DEF StateTypes, Working
<1>5. Progressing /\ AsDeclared /\ AllThere /\ NeedlessOnlyIfMoved
  BY <1>1 DEF Progressing, AsDeclared, AllThere, Ended, NeedlessOnlyIfMoved
<1> QED
  BY <1>1, <1>3, <1>4, <1>5 DEF ContainersInv

LEMMA EditFileKeeps == ASSUME ContainersInv, EditFile PROVE ContainersInv'
<1>1. /\ command = "none" /\ file' \in Files /\ needless' = {}
      /\ UNCHANGED <<object, containers, undecided, routine, label, command, policy, fresh>>
  BY DEF EditFile
<1>2. Existing' = Existing
  BY <1>1 DEF Existing
<1>3. TypeOK'
  BY <1>1, <1>2 DEF ContainersInv, TypeOK
<1>4. StateTypes' /\ \A n \in Existing' : CreatedRight(containers'[n])
  BY <1>1, <1>2 DEF ContainersInv, StateTypes
<1>5. Working'
  BY <1>1 DEF ContainersInv, Working
<1>6. Progressing' /\ AsDeclared' /\ AllThere' /\ NeedlessOnlyIfMoved'
  BY <1>1 DEF Progressing, AsDeclared, AllThere, Ended, NeedlessOnlyIfMoved
<1> QED
  BY <1>3, <1>4, <1>5, <1>6 DEF ContainersInv, CreatedRight, Declared, Labels, Objects, Hash

LEMMA LoadProjectKeeps == ASSUME ContainersInv, LoadProject PROVE ContainersInv'
<1>1. /\ command = "none" /\ command' = "loaded" /\ object' = Loaded(file) /\ fresh' = TRUE
      /\ UNCHANGED <<file, containers, undecided, routine, label, policy, needless>>
  BY DEF LoadProject
<1>2. Existing' = Existing
  BY <1>1 DEF Existing
<1>3. object' \in Objects(file')
  BY <1>1, LoadedRight DEF ContainersInv, TypeOK
<1>4. TypeOK'
  BY <1>1, <1>2, <1>3 DEF ContainersInv, TypeOK, Objects, ObjectTypes
<1>5. StateTypes' /\ \A n \in Existing' : CreatedRight(containers'[n])
  BY <1>1, <1>2 DEF ContainersInv, StateTypes
<1>6. Working'
  BY <1>1, <1>3 DEF ContainersInv, Working, Loaded
<1>7. Progressing' /\ AsDeclared' /\ AllThere' /\ NeedlessOnlyIfMoved'
  BY <1>1 DEF ContainersInv, Progressing, AsDeclared, AllThere, Ended, NeedlessOnlyIfMoved, Moves
<1> QED
  BY <1>4, <1>5, <1>6, <1>7 DEF ContainersInv, CreatedRight, Declared, Labels, Objects, Hash

LEMMA ExitKeeps == ASSUME ContainersInv, Exit PROVE ContainersInv'
<1>1. /\ command' = "none" /\ \A n \in Numbers : routine[n] = "none"
      /\ command \in {"ended", "failed"}
      /\ UNCHANGED <<file, object, containers, undecided, routine, label, policy, fresh, needless>>
  BY DEF Exit
<1>2. Existing' = Existing
  BY <1>1 DEF Existing
<1>3. TypeOK'
  BY <1>1, <1>2 DEF ContainersInv, TypeOK
<1>4. StateTypes' /\ \A n \in Existing' : CreatedRight(containers'[n])
  BY <1>1, <1>2 DEF ContainersInv, StateTypes
<1>5. Working'
  BY <1>1 DEF ContainersInv, Working
<1>6. Progressing' /\ AsDeclared' /\ AllThere' /\ NeedlessOnlyIfMoved'
  BY <1>1 DEF ContainersInv, Progressing, AsDeclared, AllThere, Ended, NeedlessOnlyIfMoved, Moves
<1> QED
  BY <1>3, <1>4, <1>5, <1>6 DEF ContainersInv, CreatedRight, Declared, Labels, Objects, Hash

LEMMA BeginCreateKeeps == ASSUME ContainersInv, BeginCreate PROVE ContainersInv'
<1>1. /\ command \in {"loaded", "ended"} /\ command' = "converge"
      /\ policy' \in {"diverged", "force"} /\ fresh' = (command = "loaded")
      /\ UNCHANGED <<file, object, needless>>
  BY DEF BeginCreate
<1>2. PICK rest \in SUBSET Existing :
        /\ containers' = [n \in Numbers |-> IF n \in rest THEN containers[n] ELSE None]
        /\ undecided' = rest
        /\ routine' = [n \in Numbers |-> "none"]
        /\ label' = [n \in Numbers |-> IF n \notin rest /\ n <= Expected THEN [request |-> "wanted"] ELSE None]
  BY DEF BeginCreate
<1>3. Existing' = rest /\ rest \subseteq Numbers
  BY <1>2 DEF Existing
<1>4. \A n \in rest : containers'[n] = containers[n]
  BY <1>2, <1>3
<1>5. TypeOK'
  BY <1>1, <1>2, <1>3, <1>4 DEF ContainersInv, TypeOK
<1>6. StateTypes' /\ \A n \in Existing' : CreatedRight(containers'[n])
  BY <1>1, <1>2, <1>3, <1>4 DEF ContainersInv, StateTypes
<1>7. Working'
  BY <1>1, <1>2, <1>3 DEF ContainersInv, Working
<1>8. Progressing'
  <2>1. fresh' \/ ~file.deploy => Expected = Scale
    <3>1. command = "loaded" => object.replicas = file.deploy
      BY DEF ContainersInv, Working, Loaded
    <3>2. command = "loaded" \/ ~file.deploy => Expected = Scale
      BY <3>1 DEF Expected
    <3> QED
      BY <1>1, <3>2
  <2>2. ASSUME fresh' \/ ~file.deploy, NEW n \in Numbers \ rest PROVE n \in Missing'
    <3>1. n <= Expected
      BY <2>1, <2>2, ScaleAssumption DEF Numbers
    <3> QED
      BY <1>2, <2>2, <3>1 DEF Missing
  <2> QED
    BY <1>1, <1>2, <1>3, <2>2 DEF Progressing
<1>9. AsDeclared' /\ AllThere' /\ NeedlessOnlyIfMoved'
  BY <1>1 DEF ContainersInv, AsDeclared, AllThere, Ended, NeedlessOnlyIfMoved, Moves
<1> QED
  BY <1>5, <1>6, <1>7, <1>8, <1>9 DEF ContainersInv

LEMMA DecideKeeps == ASSUME ContainersInv, Decide PROVE ContainersInv'
<1>1. PICK n \in undecided :
        /\ undecided' = undecided \ {n}
        /\ routine' = IF MustRecreate(n) THEN [routine EXCEPT ![n] = "label"] ELSE routine
        /\ needless' = IF MustRecreate(n) /\ policy = "diverged" /\ containers[n].file = file
                       THEN needless \cup {n} ELSE needless
  BY DEF Decide
<1>2. /\ command = "converge"
      /\ object' = IF policy = "diverged" THEN Hashed(object) ELSE object
      /\ UNCHANGED <<file, containers, label, command, policy, fresh>>
  BY DEF Decide
<1>3. n \in Existing /\ n \in Numbers /\ CreatedRight(containers[n]) /\ routine[n] = "none"
  BY DEF ContainersInv, TypeOK, Existing, Working
<1>4. Existing' = Existing /\ Missing' = Missing
  BY <1>2 DEF Existing, Missing
<1>5. file \in Files /\ object \in Objects(file) /\ object' \in Objects(file)
  BY <1>2, HashedRight DEF ContainersInv, TypeOK, Working
<1>6. /\ \A m \in Numbers \ {n} : routine'[m] = routine[m]
      /\ routine'[n] = IF MustRecreate(n) THEN "label" ELSE "none"
      /\ DOMAIN routine' = Numbers
  BY <1>1, <1>3 DEF ContainersInv, StateTypes
<1>7. TypeOK'
  <2>1. object' \in ObjectTypes
    BY <1>5 DEF Objects
  <2> QED
    BY <1>1, <1>2, <1>3, <1>4, <1>6, <2>1 DEF ContainersInv, TypeOK, ObjectTypes
<1>8. StateTypes' /\ \A m \in Existing' : CreatedRight(containers'[m])
  BY <1>2, <1>4, <1>6 DEF ContainersInv, StateTypes
<1>9. Working'
  BY <1>1, <1>2, <1>3, <1>5, <1>6 DEF ContainersInv, Working
<1>10. ~MustRecreate(n) => containers[n].request = Declared(file)
  BY <1>3, <1>5, SameHash DEF MustRecreate, CreatedRight
<1>11. Progressing'
  <2>1. \A m \in Existing' \ undecided' : routine'[m] # "none" \/ containers'[m].request = Declared(file')
    BY <1>1, <1>2, <1>3, <1>4, <1>6, <1>10 DEF ContainersInv, Progressing, Existing
  <2>2. fresh' \/ ~file'.deploy => \A m \in Numbers : m \in Existing' \cup Missing' \/ routine'[m] # "none"
    BY <1>2, <1>3, <1>4, <1>6 DEF ContainersInv, Progressing
  <2> QED
    BY <2>1, <2>2 DEF Progressing
<1>12. NeedlessOnlyIfMoved'
  <2>1. CASE MustRecreate(n) /\ policy = "diverged" /\ containers[n].file = file
    <3>1. containers[n].label # Hash(file, object) /\ containers[n].label \in Labels(file)
      BY <1>3, <2>1 DEF MustRecreate, CreatedRight
    <3> QED
      BY <1>2, <1>5, <3>1, HashMoves DEF NeedlessOnlyIfMoved, Moves
  <2>2. CASE ~(MustRecreate(n) /\ policy = "diverged" /\ containers[n].file = file)
    BY <1>1, <1>2, <2>2 DEF ContainersInv, NeedlessOnlyIfMoved, Moves
  <2> QED
    BY <2>1, <2>2
<1> QED
  BY <1>2, <1>7, <1>8, <1>9, <1>11, <1>12 DEF ContainersInv, AsDeclared, AllThere, Ended

LEMMA LaunchMissingKeeps == ASSUME ContainersInv, LaunchMissing PROVE ContainersInv'
<1>1. /\ command = "converge" /\ undecided = {}
      /\ routine' = [n \in Numbers |-> IF n \in Missing THEN "label" ELSE routine[n]]
      /\ label' = [n \in Numbers |-> IF n \in Missing THEN None ELSE label[n]]
      /\ UNCHANGED <<file, object, containers, undecided, command, policy, fresh, needless>>
  BY DEF LaunchMissing
<1>2. Existing' = Existing
  BY <1>1 DEF Existing
<1>3. \A n \in Numbers : IF n \in Missing THEN routine'[n] = "label"
                         ELSE routine'[n] = routine[n] /\ label'[n] = label[n]
  BY <1>1
<1>4. TypeOK'
  BY <1>1, <1>2, <1>3 DEF ContainersInv, TypeOK
<1>5. StateTypes' /\ \A n \in Existing' : CreatedRight(containers'[n])
  BY <1>1, <1>2 DEF ContainersInv, StateTypes
<1>6. Working'
  BY <1>1, <1>3 DEF ContainersInv, Working
<1>7. Progressing'
  <2>1. \A n \in Existing' \ undecided' : routine'[n] # "none" \/ containers'[n].request = Declared(file')
    BY <1>1, <1>2, <1>3 DEF ContainersInv, Progressing, Existing
  <2>2. fresh' \/ ~file'.deploy => \A n \in Numbers : n \in Existing' \/ routine'[n] # "none"
    BY <1>1, <1>2, <1>3 DEF ContainersInv, Progressing
  <2> QED
    BY <2>1, <2>2 DEF Progressing
<1>8. AsDeclared' /\ AllThere' /\ NeedlessOnlyIfMoved'
  BY <1>1 DEF ContainersInv, AsDeclared, AllThere, Ended, NeedlessOnlyIfMoved, Moves
<1> QED
  BY <1>4, <1>5, <1>6, <1>7, <1>8 DEF ContainersInv

LEMMA PrepareLabelsKeeps ==
  ASSUME ContainersInv, NEW n \in Numbers, PrepareLabels(n)
  PROVE  ContainersInv'
<1>1. /\ routine[n] = "label" /\ object' = Hashed(object)
      /\ label' = [label EXCEPT ![n] = Hash(file, object)]
      /\ routine' = [routine EXCEPT ![n] = "address"]
      /\ UNCHANGED <<file, containers, undecided, command, policy, fresh, needless>>
  BY DEF PrepareLabels
<1>2. Existing' = Existing
  BY <1>1 DEF Existing
<1>3. command \in {"converge", "failed"}
  BY <1>1 DEF ContainersInv, Working
<1>4. object \in Objects(file) /\ object' \in Objects(file)
  BY <1>1, <1>3, HashedRight DEF ContainersInv, Working, TypeOK
<1>5. /\ DOMAIN routine' = Numbers /\ DOMAIN label' = Numbers
      /\ \A m \in Numbers \ {n} : routine'[m] = routine[m] /\ label'[m] = label[m]
      /\ routine'[n] = "address" /\ label'[n] = Hash(file, object)
  BY <1>1 DEF ContainersInv, StateTypes
<1>6. label'[n] \in Labels(file)
  BY <1>4, <1>5 DEF Labels
<1>7. TypeOK'
  <2>1. object' \in ObjectTypes
    BY <1>4 DEF Objects
  <2> QED
    BY <1>1, <1>2, <1>5, <2>1 DEF ContainersInv, TypeOK, ObjectTypes
<1>8. StateTypes' /\ \A m \in Existing' : CreatedRight(containers'[m])
  BY <1>1, <1>2, <1>5 DEF ContainersInv, StateTypes
<1>9. Working'
  BY <1>1, <1>3, <1>4, <1>5, <1>6 DEF ContainersInv, Working
<1>10. Progressing'
  <2>1. \A m \in Numbers \ {n} : m \in Missing => m \in Missing'
    BY <1>5 DEF Missing
  <2>2. command' = "converge" =>
          \A m \in Existing' \ undecided' : routine'[m] # "none" \/ containers'[m].request = Declared(file')
    BY <1>1, <1>2, <1>5 DEF ContainersInv, Progressing, Existing
  <2> QED
    BY <1>1, <1>2, <1>5, <2>1, <2>2 DEF ContainersInv, Progressing
<1> QED
  BY <1>1, <1>3, <1>7, <1>8, <1>9, <1>10
     DEF ContainersInv, AsDeclared, AllThere, Ended, NeedlessOnlyIfMoved, Moves

LEMMA PrepareMACAddressKeeps ==
  ASSUME ContainersInv, NEW n \in Numbers, PrepareMACAddress(n)
  PROVE  ContainersInv'
<1>1. /\ routine[n] = "address"
      /\ UNCHANGED <<file, containers, label, policy, fresh, needless>>
      /\ \/ command' = "failed" /\ routine' = [routine EXCEPT ![n] = "none"] /\ undecided' = {} /\ UNCHANGED object
         \/ /\ object' = IF file.settings /\ object.mac = "" THEN [object EXCEPT !.mac = file.mac] ELSE object
            /\ routine' = [routine EXCEPT ![n] = "create"] /\ UNCHANGED <<command, undecided>>
  BY DEF PrepareMACAddress
<1>2. Existing' = Existing /\ Missing' = Missing
  BY <1>1 DEF Existing, Missing
<1>3. command \in {"converge", "failed"}
  BY <1>1 DEF ContainersInv, Working
<1>4. object \in Objects(file) /\ object' \in Objects(file)
  <2>1. object \in Objects(file) /\ file \in Files
    BY <1>3 DEF ContainersInv, Working, TypeOK
  <2> QED
    BY <1>1, <2>1, AddressMoved
<1>5. /\ DOMAIN routine' = Numbers
      /\ \A m \in Numbers \ {n} : routine'[m] = routine[m]
      /\ \/ routine'[n] = "none" /\ command' = "failed" /\ undecided' = {}
         \/ routine'[n] = "create" /\ UNCHANGED <<command, undecided>>
  BY <1>1 DEF ContainersInv, StateTypes
<1>6. TypeOK'
  <2>1. object' \in ObjectTypes
    BY <1>4 DEF Objects
  <2> QED
    BY <1>1, <1>2, <1>5, <2>1 DEF ContainersInv, TypeOK, ObjectTypes
<1>7. StateTypes' /\ \A m \in Existing' : CreatedRight(containers'[m])
  BY <1>1, <1>2, <1>5 DEF ContainersInv, StateTypes
<1>8. Working'
  <2>1. \A m \in undecided' : m # n /\ routine'[m] = "none"
    BY <1>1, <1>5 DEF ContainersInv, Working, TypeOK, Existing
  <2>2. \A m \in Numbers : routine'[m] \in {"address", "create"} => label'[m] \in Labels(file')
    BY <1>1, <1>5 DEF ContainersInv, Working
  <2> QED
    BY <1>1, <1>3, <1>4, <1>5, <2>1, <2>2 DEF ContainersInv, Working
<1>9. Progressing'
  BY <1>1, <1>2, <1>3, <1>5 DEF ContainersInv, Progressing, Existing
<1> QED
  BY <1>1, <1>3, <1>5, <1>6, <1>7, <1>8, <1>9
     DEF ContainersInv, AsDeclared, AllThere, Ended, NeedlessOnlyIfMoved, Moves

LEMMA CreateContainerKeeps ==
  ASSUME ContainersInv, NEW n \in Numbers, CreateContainer(n)
  PROVE  ContainersInv'
<1>1. /\ routine[n] = "create"
      /\ object' = IF file.ifname /\ file.options THEN [object EXCEPT !.ifoption = TRUE] ELSE object
      /\ containers' = [containers EXCEPT ![n] =
           [request |-> Request(file, object), label |-> label[n], file |-> file]]
      /\ label' = [label EXCEPT ![n] = None]
      /\ routine' = [routine EXCEPT ![n] = "none"]
      /\ UNCHANGED <<file, undecided, command, policy, fresh, needless>>
  BY DEF CreateContainer
<1>2. command \in {"converge", "failed"} /\ label[n] \in Labels(file)
  BY <1>1 DEF ContainersInv, Working
<1>3. file \in Files /\ object \in Objects(file) /\ object' \in Objects(file)
  BY <1>1, <1>2, NameMoved DEF ContainersInv, Working, TypeOK
<1>4. /\ DOMAIN routine' = Numbers /\ DOMAIN label' = Numbers /\ DOMAIN containers' = Numbers
      /\ \A m \in Numbers \ {n} : routine'[m] = routine[m] /\ label'[m] = label[m] /\ containers'[m] = containers[m]
      /\ routine'[n] = "none" /\ label'[n] = None
      /\ containers'[n] = [request |-> Declared(file), label |-> label[n], file |-> file]
  BY <1>1, <1>3, RequestRight DEF ContainersInv, StateTypes
<1>5. Existing' = Existing \cup {n}
  BY <1>4, KindsDiffer DEF Existing
<1>6. CreatedRight(containers'[n])
  BY <1>2, <1>3, <1>4 DEF CreatedRight
<1>7. TypeOK'
  <2>1. object' \in ObjectTypes
    BY <1>3 DEF Objects
  <2>2. \A m \in Existing' : containers'[m].file \in Files
    <3>1. containers'[n].file = file
      BY <1>4
    <3>2. \A m \in Existing \ {n} : containers'[m].file \in Files
      BY <1>4 DEF ContainersInv, TypeOK, Existing
    <3> QED
      BY <1>3, <1>5, <3>1, <3>2
  <2> QED
    BY <1>1, <1>3, <1>4, <1>5, <2>1, <2>2 DEF ContainersInv, TypeOK, ObjectTypes
<1>8. StateTypes'
  BY <1>1, <1>4 DEF ContainersInv, StateTypes
<1>9. \A m \in Existing' : CreatedRight(containers'[m])
  BY <1>4, <1>5, <1>6 DEF ContainersInv, Existing
<1>10. Working'
  BY <1>1, <1>2, <1>3, <1>4 DEF ContainersInv, Working
<1>11. Progressing'
  <2>1. \A m \in Numbers \ {n} : m \in Missing => m \in Missing'
    BY <1>4 DEF Missing
  <2>2. command' = "converge" =>
          \A m \in Existing' \ undecided' : routine'[m] # "none" \/ containers'[m].request = Declared(file')
    BY <1>1, <1>4, <1>5 DEF ContainersInv, Progressing, Existing
  <2> QED
    BY <1>1, <1>4, <1>5, <2>1, <2>2 DEF ContainersInv, Progressing
<1> QED
  BY <1>1, <1>2, <1>7, <1>8, <1>9, <1>10, <1>11
     DEF ContainersInv, AsDeclared, AllThere, Ended, NeedlessOnlyIfMoved, Moves

LEMMA EndCreateKeeps == ASSUME ContainersInv, EndCreate PROVE ContainersInv'
<1>1. /\ command = "converge" /\ command' = "ended" /\ undecided = {} /\ Missing = {}
      /\ \A n \in Numbers : routine[n] = "none"
      /\ UNCHANGED <<file, object, containers, undecided, routine, label, policy, fresh, needless>>
  BY DEF EndCreate
<1>2. Existing' = Existing /\ Existing \subseteq Numbers
  BY <1>1 DEF Existing
<1>3. TypeOK'
  BY <1>1, <1>2 DEF ContainersInv, TypeOK
<1>4. StateTypes' /\ \A n \in Existing' : CreatedRight(containers'[n])
  BY <1>1, <1>2 DEF ContainersInv, StateTypes
<1>5. Working'
  BY <1>1 DEF ContainersInv, Working
<1>6. AsDeclared'
  BY <1>1, <1>2 DEF ContainersInv, Progressing, AsDeclared
<1>7. AllThere'
  BY <1>1, <1>2 DEF ContainersInv, Progressing, AllThere
<1> QED
  BY <1>1, <1>3, <1>4, <1>5, <1>6, <1>7 DEF ContainersInv, Progressing, NeedlessOnlyIfMoved, Moves

LEMMA ContainersNext == ASSUME ContainersInv, [Next]_vars PROVE ContainersInv'
<1>1. CASE UNCHANGED vars
  <2>1. /\ Existing' = Existing /\ Missing' = Missing /\ Moves' = Moves
        /\ UNCHANGED <<file, object, containers, undecided, routine, label, command, policy, fresh, needless>>
    BY <1>1 DEF vars, Existing, Missing, Moves
  <2>2. TypeOK' /\ StateTypes' /\ Working'
    BY <2>1 DEF ContainersInv, TypeOK, StateTypes, Working
  <2> QED
    BY <2>1, <2>2 DEF ContainersInv, Progressing, AsDeclared, AllThere, Ended, NeedlessOnlyIfMoved
<1> QED
  BY <1>1, EditFileKeeps, LoadProjectKeeps, ExitKeeps, BeginCreateKeeps, DecideKeeps, LaunchMissingKeeps,
     PrepareLabelsKeeps, PrepareMACAddressKeeps, CreateContainerKeeps, EndCreateKeeps DEF Next

LEMMA ContainersAlone ==
  ASSUME [MCNext]_allVars
  PROVE  Next \/ UNCHANGED vars
BY DEF MCNext, allVars

(* However many replicas there are, in whatever order their goroutines     *)
(* write to the object they share, and for any number of creations and of  *)
(* edits of the file: a creation ends with every container as the file     *)
(* declares it, with all replicas if its process is new or they are given  *)
(* by scale, and without a needless recreation unless a MAC address or an  *)
(* interface name moves with the order of the networks:                    *)
(* ensureService, getCreateConfigs and ServiceHash.                        *)
THEOREM ContainersAreRightHolds == MCSpec => []ContainersAreRight
<1>1. MCInit => ContainersInv
  BY ContainersInit DEF MCInit, NoContainers
<1>2. ContainersInv /\ [MCNext]_allVars => ContainersInv'
  <2> SUFFICES ASSUME ContainersInv, [MCNext]_allVars PROVE ContainersInv'
    OBVIOUS
  <2>1. Next \/ UNCHANGED vars
    BY ContainersAlone
  <2> QED
    BY <2>1, ContainersNext
<1>3. ContainersInv => ContainersAreRight
  BY ContainersInvImplies DEF ContainersAreRight
<1> QED
  BY <1>1, <1>2, <1>3, PTL DEF MCSpec, allVars
=============================================================================
