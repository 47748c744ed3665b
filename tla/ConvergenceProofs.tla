-------------------------- MODULE ConvergenceProofs --------------------------
(***************************************************************************)
(* Proofs about ensureService for one service (Convergence), for every set *)
(* of configurations, scales and policies, any number of commands and any  *)
(* number of faults.                                                       *)
(***************************************************************************)
EXTENDS MCConvergence, FiniteSetTheorems, WellFoundedInduction, TLAPS

States     == {"created", "exited", "paused"}
Names      == [replaces : Nat, number : Nat]
Containers == [name : Names, number : Nat, config : Configs, state : States]
Wants      == [config : Configs, scale : Scales, policy : Policies]

Removals    == [kind : {"remove"}, id : Nat, number : Nat, at : {"stop", "remove"}]
Recreations == [kind : {"recreate"}, id : Nat, number : Nat, at : {"create", "stop", "remove", "rename"}]
Starts      == [kind : {"start"}, id : Nat, number : Nat, at : {"start"}]
Creations   == [kind : {"create"}, id : {0}, number : Nat, at : {"create"}]
Tasks       == Removals \cup Recreations \cup Starts \cup Creations

Observed == DOMAIN observed

----------------------------------------------------------------------------
(* The layers of the inductive invariant.                                  *)

ContainersOK ==
  /\ nextID \in Nat \ {0}
  /\ containers \in [IDs -> Containers]
  /\ IsFiniteSet(IDs)
  /\ IDs \subseteq 1..(nextID - 1)
  /\ \A id \in IDs : /\ containers[id].name.number = containers[id].number
                     /\ containers[id].name.replaces < nextID
  /\ \A id, other \in IDs : containers[id].name = containers[other].name => id = other

ListOK ==
  /\ observed \in [Observed -> Containers]
  /\ IsFiniteSet(Observed)
  /\ Observed \subseteq 1..(nextID - 1)
  /\ rest \subseteq Observed
  /\ updated \subseteq 1..(nextID - 1)
  /\ lost \subseteq 1..(nextID - 1)
  /\ lost \cap IDs = {}
  /\ IsFiniteSet(lost)

TasksOK ==
  /\ tasks \subseteq Tasks
  /\ IsFiniteSet(tasks)
  /\ \A t \in tasks :
       IF t.kind = "create" THEN t.number \notin {observed[id].number : id \in Observed}
                            ELSE t.id \in Observed
  /\ \A t \in tasks : t.kind = "recreate" => t.number = observed[t.id].number

ScalarsOK ==
  /\ dependents \in {"running", "stopped"}
  /\ faultsBefore \in 0..faults /\ faults \in 0..Faults /\ commands \in 0..MaxCommands
  /\ phase \in {"idle", "loop", "wait", "ok", "failed"}
  /\ phase = "idle" <=> commands = 0
  /\ phase \in {"idle", "ok"} => tasks = {}
  /\ phase \in {"idle", "wait", "ok"} => rest = {}
  /\ phase = "idle" => IDs = {} /\ faults = 0
  /\ phase = "ok" => ~cancelled
  /\ cancelled \in BOOLEAN
  /\ want \in Wants

Typed == ContainersOK /\ ListOK /\ TasksOK /\ ScalarsOK

(* Counting.  The goroutines that will take a container away.              *)
Takes(t) == t.kind = "remove" \/ (t.kind = "recreate" /\ t.at \in {"stop", "remove"})
Taking   == {t \in tasks : Takes(t)}

Kept == IF Index < want.scale THEN Index ELSE want.scale

Counted == Cardinality(IDs) + Cardinality(lost) >= Cardinality(Taking) + Kept + Cardinality(rest)

(* Every container is accounted for as long as nothing went wrong.         *)
Regular == phase \in {"loop", "wait", "ok"} /\ ~cancelled /\ lost = {}

Replacing(t) == t.kind = "recreate" /\ t.at \in {"stop", "remove", "rename"}
Replaced(t)  == t.kind = "recreate" /\ t.at \in {"create", "stop", "remove"}

Pending(id) ==
  \/ id \in rest
  \/ \E t \in tasks : t.id = id /\ (t.kind = "remove" \/ Replaced(t))
  \/ \E t \in tasks : Replacing(t) /\ containers[id].name = TmpNameOf(t)

OneTaskEach ==
  \A t, u \in tasks : t.kind # "create" /\ u.kind # "create" /\ t.id = u.id => t = u

NotInRest == \A t \in tasks : t.kind # "create" => t.id \notin rest

ListedStays == rest \subseteq IDs /\ updated \subseteq IDs /\ rest \cap updated = {}

AllAccounted == \A id \in IDs : id \in updated \/ Pending(id)

TargetsThere == \A t \in tasks : t.kind = "remove" \/ Replaced(t) => t.id \in IDs \ updated

ReplacedNotUpdated == \A t \in tasks : t.kind = "recreate" => t.id \notin updated

ReplacementsThere ==
  \A t \in tasks : Replacing(t) =>
    \E id \in IDs \ (Observed \cup updated) : containers[id].name = TmpNameOf(t)

Accounted ==
  Regular => ListedStays /\ AllAccounted /\ TargetsThere /\ ReplacedNotUpdated /\ ReplacementsThere

(* As long as there was no fault.                                          *)
Busy(id) == id \in rest \/ \E t \in tasks : t.kind = "recreate" /\ t.id = id

Unpaused ==
  /\ \A id \in IDs : containers[id].state # "paused"
  /\ \A id \in Observed : observed[id].state # "paused"
  /\ \A t \in tasks : t.kind # "start"

ReplacedGone == \A t \in tasks : t.kind = "recreate" /\ t.at = "rename" => t.id \notin IDs

NumbersDiffer ==
  \A id, other \in Observed : observed[id].number = observed[other].number => id = other

NewNumbersFree ==
  /\ \A t \in tasks : t.kind = "create" => \A id \in IDs : containers[id].number # t.number
  /\ phase = "loop" => \A t \in tasks : t.kind # "create"
  /\ phase = "loop" => \A id \in IDs : \E old \in Observed : containers[id].number = observed[old].number

TemporaryNamesUsed ==
  \A id \in IDs : containers[id].name.replaces # 0 =>
    \E t \in tasks : Replacing(t) /\ containers[id].name = TmpNameOf(t)

SuccessorsOnly ==
  \A id \in IDs, old \in Observed :
    Busy(old) /\ containers[id].number = observed[old].number =>
      \/ id = old
      \/ \E t \in tasks : t.id = old /\ Replacing(t) /\ containers[id].name = TmpNameOf(t)

Calm ==
  /\ phase # "failed" /\ ~cancelled /\ lost = {}
  /\ Unpaused /\ ReplacedGone /\ NumbersDiffer /\ NewNumbersFree
  /\ TemporaryNamesUsed /\ SuccessorsOnly

Smooth == faults = 0 => Calm

Apart == OneTaskEach /\ NotInRest

Inv == Typed /\ (commands > 0 => Counted) /\ Apart /\ Accounted /\ Smooth

----------------------------------------------------------------------------
(* The smaller of two integers is what Min of FiniteSetsExt chooses.       *)
LEMMA MinOfTwo ==
  ASSUME NEW a \in Int, NEW b \in Int
  PROVE  Min({a, b}) = IF a <= b THEN a ELSE b
BY DEF Min

(* A finite set of numbers that is not empty has a greatest one.           *)
LEMMA GreatestExists ==
  ASSUME NEW S \in SUBSET Nat, IsFiniteSet(S), S # {}
  PROVE  \E m \in S : \A n \in S : n <= m
<1> DEFINE Bad == {R \in SUBSET S : R # {} /\ ~\E m \in R : \A n \in R : n <= m}
<1> SUFFICES ASSUME S \in Bad PROVE FALSE
  OBVIOUS
<1>1. IsWellFoundedOn(StrictSubsetOrdering(S), FiniteSubsetsOf(S))
  BY FS_StrictSubsetOrderingWellFounded
<1>2. Bad \subseteq FiniteSubsetsOf(S)
  BY FS_Subset DEF FiniteSubsetsOf
<1>3. PICK R \in Bad : \A Q \in Bad : ~(<<Q, R>> \in StrictSubsetOrdering(S))
  <2> HIDE DEF Bad
  <2> QED  BY <1>1, <1>2, WFMin
<1>4. PICK x \in R : TRUE
  OBVIOUS
<1> DEFINE Q == R \ {x}
<1>5. Q \notin Bad
  BY <1>3, <1>4 DEF StrictSubsetOrdering
<1>6. CASE Q = {}
  BY <1>4, <1>6
<1>7. CASE Q # {}
  <2>1. PICK m \in Q : \A n \in Q : n <= m
    BY <1>5, <1>7
  <2>2. CASE x <= m
    BY <2>1, <2>2, <1>4
  <2>3. CASE ~(x <= m)
    <3>1. \A n \in R : n <= x
      BY <2>1, <2>3, <1>4
    <3> QED  BY <3>1, <1>4
  <2> QED  BY <2>2, <2>3
<1> QED  BY <1>6, <1>7

(* The numbers of the containers of a finite list are finitely many.       *)
LEMMA NumbersFinite ==
  ASSUME NEW D, IsFiniteSet(D), NEW f \in [D -> Containers]
  PROVE  IsFiniteSet({f[id].number : id \in D})
<1> DEFINE N == {f[id].number : id \in D}
<1> DEFINE g == [id \in D |-> f[id].number]
<1>1. g \in Surjection(D, N)
  BY DEF Surjection
<1> QED  BY <1>1, FS_Surjection

(* What the engine does.                                                   *)
LEMMA CreatedEffect ==
  ASSUME ContainersOK, NEW name, NEW number, Created(name, number)
  PROVE  /\ IDs' = IDs \cup {nextID} /\ nextID \notin IDs /\ nextID' = nextID + 1
         /\ containers' = [id \in IDs' |-> containers'[id]]
         /\ containers'[nextID] =
              [name |-> name, number |-> number, config |-> want.config, state |-> "created"]
         /\ \A id \in IDs : containers'[id] = containers[id]
<1>1. nextID \notin IDs
  BY DEF ContainersOK
<1> DEFINE new == [name |-> name, number |-> number, config |-> want.config, state |-> "created"]
<1>2. containers' = [id \in IDs \cup {nextID} |-> IF id \in IDs THEN containers[id] ELSE new]
  BY DEF Created
<1> HIDE DEF new
<1> QED  BY <1>1, <1>2 DEF IDs, Created, new

LEMMA CreatedOK ==
  ASSUME ContainersOK, want \in Wants, NEW name \in Names, NEW number \in Nat,
         name.number = number, name.replaces < nextID, ~NameTaken(name), Created(name, number)
  PROVE  ContainersOK'
<1>1. /\ IDs' = IDs \cup {nextID} /\ nextID \notin IDs /\ nextID' = nextID + 1
      /\ containers' = [id \in IDs' |-> containers'[id]]
      /\ containers'[nextID] =
           [name |-> name, number |-> number, config |-> want.config, state |-> "created"]
      /\ \A id \in IDs : containers'[id] = containers[id]
  BY CreatedEffect
<1>2. containers'[nextID] \in Containers
  BY <1>1 DEF Containers, Wants, States
<1>3. nextID' \in Nat \ {0} /\ IDs' \subseteq 1..(nextID' - 1)
  BY <1>1 DEF ContainersOK
<1>4. containers' \in [IDs' -> Containers]
  BY <1>1, <1>2 DEF ContainersOK
<1>5. IsFiniteSet(IDs')
  BY <1>1, FS_AddElement DEF ContainersOK
<1>6. \A id \in IDs' : /\ containers'[id].name.number = containers'[id].number
                       /\ containers'[id].name.replaces < nextID'
  <2>1. \A id \in IDs : containers[id].name.replaces \in Nat
    BY DEF ContainersOK, Containers, Names
  <2>2. name.replaces \in Nat
    BY DEF Names
  <2> QED  BY <1>1, <2>1, <2>2 DEF ContainersOK
<1>7. \A id, other \in IDs' : containers'[id].name = containers'[other].name => id = other
  BY <1>1 DEF ContainersOK, NameTaken
<1> QED  BY <1>3, <1>4, <1>5, <1>6, <1>7 DEF ContainersOK, IDs

LEMMA StateOK ==
  ASSUME ContainersOK, NEW id \in IDs, NEW s \in States, UNCHANGED nextID,
         Becomes(id, [containers[id] EXCEPT !.state = s])
  PROVE  /\ ContainersOK'
         /\ IDs' = IDs
         /\ \A i \in IDs : /\ containers'[i].name = containers[i].name
                           /\ containers'[i].number = containers[i].number
                           /\ containers'[i].config = containers[i].config
                           /\ containers'[i].state \in {containers[i].state, s}
<1>1. IDs' = IDs
  BY DEF Becomes, IDs, ContainersOK
<1>2. containers'[id] \in Containers
  BY DEF Becomes, IDs, ContainersOK, Containers
<1>3. \A i \in IDs : /\ containers'[i].name = containers[i].name
                     /\ containers'[i].number = containers[i].number
                     /\ containers'[i].config = containers[i].config
                     /\ containers'[i].state \in {containers[i].state, s}
  BY DEF Becomes, IDs, ContainersOK, Containers
<1>4. containers' \in [IDs -> Containers]
  BY <1>2 DEF Becomes, IDs, ContainersOK
<1>5. ContainersOK'
  BY <1>1, <1>3, <1>4 DEF ContainersOK
<1> QED  BY <1>1, <1>3, <1>5

LEMMA GoneOK ==
  ASSUME ContainersOK, NEW id, Gone(id), UNCHANGED nextID
  PROVE  /\ ContainersOK'
         /\ IDs' = IDs \ {id}
         /\ \A i \in IDs' : containers'[i] = containers[i]
<1>1. IDs' = IDs \ {id} /\ \A i \in IDs' : containers'[i] = containers[i]
  BY DEF Gone, IDs
<1>2. containers' \in [IDs' -> Containers]
  BY <1>1 DEF Gone, IDs, ContainersOK
<1>3. IsFiniteSet(IDs')
  BY <1>1, FS_RemoveElement DEF ContainersOK
<1>4. ContainersOK'
  <2>1. nextID' \in Nat \ {0} /\ IDs' \subseteq 1..(nextID' - 1)
    BY <1>1 DEF ContainersOK
  <2>2. \A i \in IDs' : /\ containers'[i].name.number = containers'[i].number
                        /\ containers'[i].name.replaces < nextID'
    BY <1>1 DEF ContainersOK
  <2>3. \A i, other \in IDs' : containers'[i].name = containers'[other].name => i = other
    BY <1>1 DEF ContainersOK
  <2> QED  BY <2>1, <2>2, <2>3, <1>2, <1>3 DEF ContainersOK
<1> QED  BY <1>1, <1>4

LEMMA RenamedOK ==
  ASSUME ContainersOK, NEW id \in IDs, NEW name \in Names, UNCHANGED nextID,
         name.number = containers[id].number, name.replaces < nextID, ~NameTaken(name),
         Becomes(id, [containers[id] EXCEPT !.name = name])
  PROVE  /\ ContainersOK'
         /\ IDs' = IDs
         /\ containers'[id] = [containers[id] EXCEPT !.name = name]
         /\ containers'[id].name = name
         /\ \A i \in IDs : containers'[i].number = containers[i].number
         /\ \A i \in IDs : containers'[i].state = containers[i].state
         /\ \A i \in IDs : containers'[i].config = containers[i].config
         /\ \A i \in IDs \ {id} : containers'[i] = containers[i]
<1>1. /\ IDs' = IDs
      /\ containers'[id] = [containers[id] EXCEPT !.name = name]
      /\ containers'[id] \in Containers
      /\ containers'[id].name = name
      /\ \A i \in IDs : containers'[i].number = containers[i].number
      /\ \A i \in IDs : containers'[i].state = containers[i].state
      /\ \A i \in IDs : containers'[i].config = containers[i].config
      /\ \A i \in IDs \ {id} : containers'[i] = containers[i]
  BY DEF Becomes, IDs, ContainersOK, Containers
<1>2. containers' \in [IDs' -> Containers]
  BY <1>1 DEF Becomes, IDs, ContainersOK
<1>3. ContainersOK'
  <2>1. nextID' \in Nat \ {0} /\ IDs' \subseteq 1..(nextID' - 1) /\ IsFiniteSet(IDs')
    BY <1>1 DEF ContainersOK
  <2>2. \A i \in IDs' : /\ containers'[i].name.number = containers'[i].number
                        /\ containers'[i].name.replaces < nextID'
    <3>1. \A i \in IDs : /\ containers[i].name.number = containers[i].number
                         /\ containers[i].name.replaces < nextID
      BY DEF ContainersOK
    <3>2. nextID' = nextID
      OBVIOUS
    <3>3. /\ containers'[id].name.number = containers'[id].number
          /\ containers'[id].name.replaces < nextID'
      BY <1>1, <3>2
    <3> QED  BY <1>1, <3>1, <3>2, <3>3
  <2>3. \A i, other \in IDs' : containers'[i].name = containers'[other].name => i = other
    <3>1. \A i \in IDs : containers[i].name # name
      BY DEF NameTaken
    <3>2. \A i \in IDs \ {id} : containers'[i].name # containers'[id].name
      BY <3>1, <1>1
    <3>3. \A i, other \in IDs : containers[i].name = containers[other].name => i = other
      BY DEF ContainersOK
    <3>4. \A i, other \in IDs \ {id} : containers'[i].name = containers'[other].name => i = other
      BY <1>1, <3>3
    <3> SUFFICES ASSUME NEW i \in IDs, NEW other \in IDs,
                        containers'[i].name = containers'[other].name
                 PROVE  i = other
      BY <1>1
    <3>5. CASE i = id
      BY <3>2, <3>5
    <3>6. CASE other = id
      BY <3>2, <3>6
    <3>7. CASE i # id /\ other # id
      BY <3>4, <3>7
    <3> QED  BY <3>5, <3>6, <3>7
  <2> QED  BY <2>1, <2>2, <2>3, <1>2 DEF ContainersOK
<1> QED  BY <1>1, <1>3

LEMMA SameContainersOK ==
  ASSUME ContainersOK, UNCHANGED <<containers, nextID>>
  PROVE  ContainersOK' /\ IDs' = IDs
BY DEF ContainersOK, IDs

(* What is listed stays as it is while IDs are given out.                  *)
LEMMA SameListOK ==
  ASSUME ContainersOK, ContainersOK', ListOK, UNCHANGED <<observed, lost>>, nextID' \in {nextID, nextID + 1},
         rest' \subseteq rest, updated' \subseteq 1..(nextID' - 1),
         IDs' \subseteq IDs \cup {nextID}
  PROVE  ListOK'
<1>1. nextID \in Nat /\ nextID' \in Nat /\ 1..(nextID - 1) \subseteq 1..(nextID' - 1)
  BY DEF ContainersOK
<1>2. lost' \cap IDs' = {}
  BY DEF ContainersOK, ListOK
<1> QED  BY <1>1, <1>2 DEF ListOK, Observed

----------------------------------------------------------------------------
(* Goroutines keep their kind and what they work on.                       *)
LEMMA EndsOK ==
  ASSUME TasksOK, NEW t \in tasks, Ends(t), UNCHANGED observed
  PROVE  TasksOK'
<1>1. tasks' \subseteq tasks /\ IsFiniteSet(tasks')
  BY FS_RemoveElement DEF TasksOK, Ends
<1> QED  BY <1>1 DEF TasksOK, Observed

LEMMA GoesOK ==
  ASSUME TasksOK, NEW t \in tasks, NEW at, Goes(t, at), UNCHANGED observed,
         t.kind # "create", [t EXCEPT !.at = at] \in Tasks
  PROVE  /\ TasksOK'
         /\ tasks' = (tasks \ {t}) \cup {[t EXCEPT !.at = at]}
         /\ [t EXCEPT !.at = at].kind = t.kind /\ [t EXCEPT !.at = at].id = t.id
         /\ [t EXCEPT !.at = at].number = t.number /\ [t EXCEPT !.at = at].at = at
<1> DEFINE u == [t EXCEPT !.at = at]
<1>1. u.kind = t.kind /\ u.id = t.id /\ u.number = t.number /\ u.at = at
  BY DEF TasksOK, Tasks, Removals, Recreations, Starts, Creations
<1>2. tasks' = (tasks \ {t}) \cup {u}
  BY DEF Goes
<1> HIDE DEF u
<1>3. IsFiniteSet(tasks')
  BY <1>2, FS_RemoveElement, FS_AddElement DEF TasksOK
<1>4. u \in Tasks
  BY DEF u
<1>5. TasksOK'
  BY <1>1, <1>2, <1>3, <1>4 DEF TasksOK, Observed
<1> QED  BY <1>1, <1>2, <1>5 DEF u

LEMMA AddedOK ==
  ASSUME TasksOK, NEW u \in Tasks, tasks' = tasks \cup {u}, UNCHANGED observed,
         u.kind # "create", u.id \in Observed,
         u.kind = "recreate" => u.number = observed[u.id].number
  PROVE  TasksOK'
<1>1. IsFiniteSet(tasks')
  BY FS_AddElement DEF TasksOK
<1> QED  BY <1>1 DEF TasksOK, Observed

(* nextContainerNumber is above every number in the list.                  *)
LEMMA NextNumberIsFree ==
  ASSUME ListOK
  PROVE  /\ NextContainerNumber \in Nat \ {0}
         /\ \A id \in Observed : observed[id].number < NextContainerNumber
<1> DEFINE N == {observed[id].number : id \in Observed}
           S == {0} \cup N
<1>1. N \subseteq Nat
  BY DEF ListOK, Containers
<1>2. IsFiniteSet(N)
  BY NumbersFinite DEF ListOK
<1>3. S \in SUBSET Nat /\ IsFiniteSet(S) /\ S # {}
  <2>1. S = N \cup {0}
    OBVIOUS
  <2>2. IsFiniteSet(N \cup {0})
    BY <1>2, FS_AddElement
  <2> HIDE DEF N
  <2> QED  BY <1>1, <2>1, <2>2
<1>4. Max(S) \in S /\ \A n \in S : n <= Max(S)
  <2> HIDE DEF S
  <2>1. PICK m \in S : \A n \in S : n <= m
    BY <1>3, GreatestExists
  <2>2. m \in S /\ \A n \in S : m >= n
    BY <2>1, <1>3
  <2>3. Max(S) \in S /\ \A n \in S : Max(S) >= n
    BY <2>2 DEF Max
  <2> QED  BY <2>3, <1>3
<1>5. NextContainerNumber = Max(S) + 1
  BY DEF NextContainerNumber, Observed
<1>7. Max(S) \in Nat
  BY <1>3, <1>4
<1>8. \A id \in Observed : observed[id].number <= Max(S) /\ observed[id].number \in Nat
  BY <1>1, <1>4
<1> HIDE DEF S
<1> QED  BY <1>5, <1>7, <1>8

(* What ScaleUp launches: finitely many creations of distinct new numbers. *)
Missing == want.scale - Cardinality(Observed)
Additions == {Creation(NextContainerNumber + i) : i \in 0..(Missing - 1)}

LEMMA AdditionsOK ==
  ASSUME ListOK, want \in Wants
  PROVE  /\ Cardinality(Observed) \in Nat /\ want.scale \in Nat /\ Missing \in Int
         /\ IsFiniteSet(Additions)
         /\ Cardinality(Additions) = IF Missing <= 0 THEN 0 ELSE Missing
         /\ Additions \subseteq Creations
         /\ \A u \in Additions : u.kind = "create" /\ u.number >= NextContainerNumber
         /\ \A u \in Additions : u.number \notin {observed[id].number : id \in Observed}
<1>1. /\ NextContainerNumber \in Nat \ {0}
      /\ \A id \in Observed : observed[id].number < NextContainerNumber
  BY NextNumberIsFree
<1>2. Cardinality(Observed) \in Nat
  BY FS_CardinalityType DEF ListOK
<1>3. want.scale \in Nat
  BY ScalesAssumption DEF Wants
<1>4. Missing \in Int
  BY <1>2, <1>3 DEF Missing
<1>5. IsFiniteSet(0..(Missing - 1)) /\ Cardinality(0..(Missing - 1)) = IF Missing <= 0 THEN 0 ELSE Missing
  <2>1. /\ IsFiniteSet(0..(Missing - 1))
        /\ Cardinality(0..(Missing - 1)) = IF 0 > Missing - 1 THEN 0 ELSE Missing - 1 - 0 + 1
    BY <1>4, FS_Interval
  <2> QED  BY <1>4, <2>1
<1> DEFINE f == [i \in 0..(Missing - 1) |-> Creation(NextContainerNumber + i)]
<1>6. f \in Surjection(0..(Missing - 1), Additions)
  BY DEF Surjection, Additions
<1>7. f \in Injection(0..(Missing - 1), Additions)
  <2>1. f \in [0..(Missing - 1) -> Additions]
    BY DEF Additions
  <2>2. \A i, j \in 0..(Missing - 1) : f[i] = f[j] => i = j
    <3> SUFFICES ASSUME NEW i \in 0..(Missing - 1), NEW j \in 0..(Missing - 1), f[i] = f[j]
                 PROVE  i = j
      OBVIOUS
    <3>1. f[i].number = NextContainerNumber + i /\ f[j].number = NextContainerNumber + j
      BY DEF Creation
    <3>2. NextContainerNumber + i = NextContainerNumber + j
      BY <3>1
    <3>3. i \in Int /\ j \in Int /\ NextContainerNumber \in Int
      BY <1>1, <1>4
    <3> HIDE DEF f
    <3> QED  BY <3>2, <3>3
  <2> HIDE DEF f
  <2> QED  BY <2>1, <2>2 DEF Injection, IsInjective
<1>8. IsFiniteSet(Additions) /\ Cardinality(Additions) = Cardinality(0..(Missing - 1))
  <2> HIDE DEF f
  <2> QED  BY <1>5, <1>6, <1>7, FS_Surjection
<1>9. \A u \in Additions : u \in Creations /\ u.kind = "create" /\ u.number >= NextContainerNumber
  BY <1>1, <1>4 DEF Additions, Creation, Creations
<1>10. \A u \in Additions : u.number \notin {observed[id].number : id \in Observed}
  <2> SUFFICES ASSUME NEW u \in Additions, NEW id \in Observed, u.number = observed[id].number
               PROVE  FALSE
    OBVIOUS
  <2>1. u.number \in Nat
    BY <1>9 DEF Creations
  <2>2. observed[id].number \in Nat
    BY DEF ListOK, Containers
  <2> QED  BY <1>1, <1>9, <2>1, <2>2
<1> QED  BY <1>2, <1>3, <1>4, <1>5, <1>8, <1>9, <1>10

----------------------------------------------------------------------------
(* Every step keeps the types.                                             *)
LEMMA BeginTyped ==
  ASSUME Typed, Begin
  PROVE  Typed' /\ IDs' = IDs
<1> USE DEF Typed
<1>1. ContainersOK' /\ IDs' = IDs
  BY SameContainersOK DEF Begin
<1>2. ListOK'
  <2>1. Observed' = IDs /\ observed' = containers /\ nextID' = nextID /\ rest' = IDs
    BY DEF Begin, Observed, IDs
  <2> QED  BY <2>1, FS_EmptySet DEF Begin, ListOK, ContainersOK
<1>3. TasksOK'
  BY FS_EmptySet DEF Begin, TasksOK
<1>4. ScalarsOK'
  <2>1. /\ dependents' \in {"running", "stopped"} /\ want' \in Wants
        /\ faultsBefore' \in 0..faults' /\ faults' \in 0..Faults /\ commands' \in 0..MaxCommands
    BY BoundsAssumption DEF ScalarsOK, Begin, Wants
  <2>2. cancelled' \in BOOLEAN
    BY DEF ScalarsOK, Begin
  <2>3. phase' \in {"idle", "loop", "wait", "ok", "failed"} /\ (phase' = "idle" <=> commands' = 0)
    BY DEF ScalarsOK, Begin
  <2>4. /\ phase' \in {"idle", "ok"} => tasks' = {}
        /\ phase' \in {"idle", "wait", "ok"} => rest' = {}
    BY DEF ScalarsOK, Begin
  <2>5. phase' = "idle" => IDs' = {} /\ faults' = 0
    BY <1>1 DEF ScalarsOK, Begin
  <2>6. phase' = "ok" => ~cancelled'
    BY DEF ScalarsOK, Begin
  <2> QED  BY <2>1, <2>2, <2>3, <2>4, <2>5, <2>6 DEF ScalarsOK
<1> QED  BY <1>1, <1>2, <1>3, <1>4

LEMMA LoopRemovesTyped ==
  ASSUME Typed, NEW id \in rest, LoopRemoves(id)
  PROVE  Typed' /\ IDs' = IDs
<1> USE DEF Typed
<1>1. ContainersOK' /\ IDs' = IDs
  BY SameContainersOK DEF LoopRemoves, LoopStep
<1>2. ListOK'
  BY <1>1, SameListOK DEF LoopRemoves, LoopStep, ListOK
<1>3. TasksOK'
  <2>1. Removal(id) \in Tasks /\ Removal(id).kind = "remove" /\ Removal(id).id = id /\ id \in Observed
    BY DEF Removal, Tasks, Removals, ListOK, ContainersOK
  <2> QED  BY <2>1, AddedOK DEF LoopRemoves, LoopStep
<1>4. ScalarsOK'
  BY <1>1 DEF ScalarsOK, LoopRemoves, LoopStep
<1> QED  BY <1>1, <1>2, <1>3, <1>4

LEMMA LoopRecreatesTyped ==
  ASSUME Typed, NEW id \in rest, LoopRecreates(id)
  PROVE  Typed' /\ IDs' = IDs
<1> USE DEF Typed
<1>1. ContainersOK' /\ IDs' = IDs
  BY SameContainersOK DEF LoopRecreates, LoopStep
<1>2. ListOK'
  BY <1>1, SameListOK DEF LoopRecreates, LoopStep, ListOK
<1>3. TasksOK'
  <2>1. id \in Observed /\ id \in Nat /\ observed[id].number \in Nat
    BY DEF ListOK, ContainersOK, Containers
  <2>2. /\ Recreation(id) \in Tasks /\ Recreation(id).kind = "recreate" /\ Recreation(id).id = id
        /\ Recreation(id).number = observed[id].number
    BY <2>1 DEF Recreation, Tasks, Recreations
  <2> QED  BY <2>1, <2>2, AddedOK DEF LoopRecreates, LoopStep
<1>4. ScalarsOK'
  BY <1>1 DEF ScalarsOK, LoopRecreates, LoopStep
<1> QED  BY <1>1, <1>2, <1>3, <1>4

LEMMA LoopKeepsTyped ==
  ASSUME Typed, NEW id \in rest, LoopKeeps(id)
  PROVE  Typed' /\ IDs' = IDs
<1> USE DEF Typed
<1>1. ContainersOK' /\ IDs' = IDs
  BY SameContainersOK DEF LoopKeeps, LoopStep
<1>2. ListOK'
  <2>1. updated' \subseteq 1..(nextID' - 1)
    BY DEF LoopKeeps, LoopStep, ListOK
  <2> QED  BY <1>1, <2>1, SameListOK DEF LoopKeeps, LoopStep, ListOK
<1>3. TasksOK'
  <2>1. Start(id) \in Tasks /\ Start(id).kind = "start" /\ Start(id).id = id /\ id \in Observed
    BY DEF Start, Tasks, Starts, ListOK, ContainersOK
  <2>2. UNCHANGED observed
    BY DEF LoopKeeps, LoopStep
  <2>3. CASE observed[id].state = "paused"
    <3>1. tasks' = tasks \cup {Start(id)}
      BY <2>3 DEF LoopKeeps
    <3> QED  BY <2>1, <2>2, <3>1, AddedOK
  <2>4. CASE observed[id].state # "paused"
    <3>1. tasks' = tasks
      BY <2>4 DEF LoopKeeps
    <3> QED  BY <2>2, <3>1 DEF TasksOK, Observed
  <2> QED  BY <2>3, <2>4
<1>4. ScalarsOK'
  BY <1>1 DEF ScalarsOK, LoopKeeps, LoopStep
<1> QED  BY <1>1, <1>2, <1>3, <1>4

LEMMA LoopReturnsEarlyTyped ==
  ASSUME Typed, NEW id \in rest, LoopReturnsEarly(id)
  PROVE  Typed' /\ IDs' = IDs
<1> USE DEF Typed
<1>1. ContainersOK' /\ IDs' = IDs
  BY SameContainersOK DEF LoopReturnsEarly, engine
<1>2. ListOK'
  BY <1>1, SameListOK DEF LoopReturnsEarly, engine, ListOK
<1>3. TasksOK'
  BY DEF LoopReturnsEarly, TasksOK, Observed
<1>4. ScalarsOK'
  <2>1. /\ dependents' \in {"running", "stopped"} /\ want' \in Wants
        /\ faultsBefore' \in 0..faults' /\ faults' \in 0..Faults /\ commands' \in 0..MaxCommands
    BY BoundsAssumption DEF ScalarsOK, LoopReturnsEarly, engine
  <2>2. cancelled' \in BOOLEAN
    BY DEF ScalarsOK, LoopReturnsEarly, engine
  <2>3. phase' \in {"idle", "loop", "wait", "ok", "failed"} /\ (phase' = "idle" <=> commands' = 0)
    BY DEF ScalarsOK, LoopReturnsEarly, engine
  <2>4. /\ phase' \in {"idle", "ok"} => tasks' = {}
        /\ phase' \in {"idle", "wait", "ok"} => rest' = {}
    BY DEF ScalarsOK, LoopReturnsEarly, engine
  <2>5. phase' = "idle" => IDs' = {} /\ faults' = 0
    BY <1>1 DEF ScalarsOK, LoopReturnsEarly, engine
  <2>6. phase' = "ok" => ~cancelled'
    BY DEF ScalarsOK, LoopReturnsEarly, engine
  <2> QED  BY <2>1, <2>2, <2>3, <2>4, <2>5, <2>6 DEF ScalarsOK
<1> QED  BY <1>1, <1>2, <1>3, <1>4

LEMMA ScaleUpTyped ==
  ASSUME Typed, ScaleUp
  PROVE  Typed' /\ IDs' = IDs /\ tasks' = tasks \cup Additions
<1> USE DEF Typed
<1>1. ContainersOK' /\ IDs' = IDs
  BY SameContainersOK DEF ScaleUp, engine
<1>2. ListOK'
  BY <1>1, SameListOK DEF ScaleUp, engine, ListOK
<1>3. tasks' = tasks \cup Additions
  BY DEF ScaleUp, Additions, Missing, Observed
<1>4. TasksOK'
  <2>1. /\ IsFiniteSet(Additions) /\ Additions \subseteq Creations
        /\ \A u \in Additions : u.kind = "create"
        /\ \A u \in Additions : u.number \notin {observed[id].number : id \in Observed}
    BY AdditionsOK DEF ScalarsOK
  <2>2. IsFiniteSet(tasks \cup Additions)
    BY <2>1, FS_Union DEF TasksOK
  <2>3. UNCHANGED observed
    BY DEF ScaleUp
  <2> HIDE DEF Additions
  <2> QED  BY <1>3, <2>1, <2>2, <2>3 DEF TasksOK, Tasks, Observed
<1>5. ScalarsOK'
  <2>1. /\ dependents' \in {"running", "stopped"} /\ want' \in Wants
        /\ faultsBefore' \in 0..faults' /\ faults' \in 0..Faults /\ commands' \in 0..MaxCommands
    BY BoundsAssumption DEF ScalarsOK, ScaleUp, engine
  <2>2. cancelled' \in BOOLEAN
    BY DEF ScalarsOK, ScaleUp, engine
  <2>3. phase' \in {"idle", "loop", "wait", "ok", "failed"} /\ (phase' = "idle" <=> commands' = 0)
    BY DEF ScalarsOK, ScaleUp, engine
  <2>4. /\ phase' \in {"idle", "ok"} => tasks' = {}
        /\ phase' \in {"idle", "wait", "ok"} => rest' = {}
    BY DEF ScalarsOK, ScaleUp, engine
  <2>5. phase' = "idle" => IDs' = {} /\ faults' = 0
    BY <1>1 DEF ScalarsOK, ScaleUp, engine
  <2>6. phase' = "ok" => ~cancelled'
    BY DEF ScalarsOK, ScaleUp, engine
  <2> QED  BY <2>1, <2>2, <2>3, <2>4, <2>5, <2>6 DEF ScalarsOK
<1> QED  BY <1>1, <1>2, <1>3, <1>4, <1>5

LEMMA WaitReturnsTyped ==
  ASSUME Typed, WaitReturns
  PROVE  Typed' /\ IDs' = IDs
<1> USE DEF Typed
<1>1. ContainersOK' /\ IDs' = IDs
  BY SameContainersOK DEF WaitReturns, engine
<1>2. ListOK'
  BY <1>1, SameListOK DEF WaitReturns, engine, ListOK
<1>3. TasksOK'
  BY DEF WaitReturns, TasksOK, Observed
<1>4. ScalarsOK'
  <2>1. /\ dependents' \in {"running", "stopped"} /\ want' \in Wants
        /\ faultsBefore' \in 0..faults' /\ faults' \in 0..Faults /\ commands' \in 0..MaxCommands
    BY BoundsAssumption DEF ScalarsOK, WaitReturns, engine
  <2>2. cancelled' \in BOOLEAN
    BY DEF ScalarsOK, WaitReturns, engine
  <2>3. phase' \in {"idle", "loop", "wait", "ok", "failed"} /\ (phase' = "idle" <=> commands' = 0)
    BY DEF ScalarsOK, WaitReturns, engine
  <2>4. /\ phase' \in {"idle", "ok"} => tasks' = {}
        /\ phase' \in {"idle", "wait", "ok"} => rest' = {}
    BY DEF ScalarsOK, WaitReturns, engine
  <2>5. phase' = "idle" => IDs' = {} /\ faults' = 0
    BY <1>1 DEF ScalarsOK, WaitReturns, engine
  <2>6. phase' = "ok" => ~cancelled'
    BY DEF ScalarsOK, WaitReturns, engine
  <2> QED  BY <2>1, <2>2, <2>3, <2>4, <2>5, <2>6 DEF ScalarsOK
<1> QED  BY <1>1, <1>2, <1>3, <1>4

LEMMA KilledTyped ==
  ASSUME Typed, Killed
  PROVE  Typed' /\ IDs' = IDs
<1> USE DEF Typed
<1>1. ContainersOK' /\ IDs' = IDs
  BY SameContainersOK DEF Killed, engine
<1>2. ListOK'
  BY <1>1, SameListOK DEF Killed, engine, ListOK
<1>3. TasksOK'
  BY FS_EmptySet DEF Killed, TasksOK
<1>4. ScalarsOK'
  <2>1. /\ dependents' \in {"running", "stopped"} /\ want' \in Wants
        /\ faultsBefore' \in 0..faults' /\ faults' \in 0..Faults /\ commands' \in 0..MaxCommands
    BY BoundsAssumption DEF ScalarsOK, Killed, engine
  <2>2. cancelled' \in BOOLEAN
    BY DEF ScalarsOK, Killed, engine
  <2>3. phase' \in {"idle", "loop", "wait", "ok", "failed"} /\ (phase' = "idle" <=> commands' = 0)
    BY DEF ScalarsOK, Killed, engine
  <2>4. /\ phase' \in {"idle", "ok"} => tasks' = {}
        /\ phase' \in {"idle", "wait", "ok"} => rest' = {}
    BY DEF ScalarsOK, Killed, engine
  <2>5. phase' = "idle" => IDs' = {} /\ faults' = 0
    BY <1>1 DEF ScalarsOK, Killed, engine
  <2>6. phase' = "ok" => ~cancelled'
    BY DEF ScalarsOK, Killed, engine
  <2> QED  BY <2>1, <2>2, <2>3, <2>4, <2>5, <2>6 DEF ScalarsOK
<1> QED  BY <1>1, <1>2, <1>3, <1>4

LEMMA RemovedByOthersTyped ==
  ASSUME Typed, NEW id \in IDs, RemovedByOthers(id)
  PROVE  Typed' /\ IDs' = IDs \ {id}
<1> USE DEF Typed
<1>1. ContainersOK' /\ IDs' = IDs \ {id}
  BY GoneOK DEF RemovedByOthers
<1>2. ListOK'
  <2>1. IsFiniteSet(lost') /\ lost' = lost \cup {id}
    BY FS_AddElement DEF RemovedByOthers, ListOK
  <2> QED  BY <1>1, <2>1 DEF ListOK, RemovedByOthers, command, Observed, ContainersOK
<1>3. TasksOK'
  BY DEF RemovedByOthers, command, TasksOK, Observed
<1>4. ScalarsOK'
  <2>1. /\ dependents' \in {"running", "stopped"} /\ want' \in Wants
        /\ faultsBefore' \in 0..faults' /\ faults' \in 0..Faults /\ commands' \in 0..MaxCommands
    BY BoundsAssumption DEF ScalarsOK, RemovedByOthers, command
  <2>2. cancelled' \in BOOLEAN
    BY DEF ScalarsOK, RemovedByOthers, command
  <2>3. phase' \in {"idle", "loop", "wait", "ok", "failed"} /\ (phase' = "idle" <=> commands' = 0)
    BY DEF ScalarsOK, RemovedByOthers, command
  <2>4. /\ phase' \in {"idle", "ok"} => tasks' = {}
        /\ phase' \in {"idle", "wait", "ok"} => rest' = {}
    BY DEF ScalarsOK, RemovedByOthers, command
  <2>5. phase' = "idle" => IDs' = {} /\ faults' = 0
    BY <1>1 DEF ScalarsOK, RemovedByOthers, command
  <2>6. phase' = "ok" => ~cancelled'
    BY DEF ScalarsOK, RemovedByOthers, command
  <2> QED  BY <2>1, <2>2, <2>3, <2>4, <2>5, <2>6 DEF ScalarsOK
<1> QED  BY <1>1, <1>2, <1>3, <1>4

LEMMA PausedByOthersTyped ==
  ASSUME Typed, NEW id \in IDs, PausedByOthers(id)
  PROVE  Typed' /\ IDs' = IDs
<1> USE DEF Typed
<1>1. ContainersOK' /\ IDs' = IDs
  BY StateOK DEF PausedByOthers, States
<1>2. ListOK'
  BY <1>1, SameListOK DEF PausedByOthers, command, ListOK
<1>3. TasksOK'
  BY DEF PausedByOthers, command, TasksOK, Observed
<1>4. ScalarsOK'
  <2>1. /\ dependents' \in {"running", "stopped"} /\ want' \in Wants
        /\ faultsBefore' \in 0..faults' /\ faults' \in 0..Faults /\ commands' \in 0..MaxCommands
    BY BoundsAssumption DEF ScalarsOK, PausedByOthers, command
  <2>2. cancelled' \in BOOLEAN
    BY DEF ScalarsOK, PausedByOthers, command
  <2>3. phase' \in {"idle", "loop", "wait", "ok", "failed"} /\ (phase' = "idle" <=> commands' = 0)
    BY DEF ScalarsOK, PausedByOthers, command
  <2>4. /\ phase' \in {"idle", "ok"} => tasks' = {}
        /\ phase' \in {"idle", "wait", "ok"} => rest' = {}
    BY DEF ScalarsOK, PausedByOthers, command
  <2>5. phase' = "idle" => IDs' = {} /\ faults' = 0
    BY <1>1 DEF ScalarsOK, PausedByOthers, command
  <2>6. phase' = "ok" => ~cancelled'
    BY DEF ScalarsOK, PausedByOthers, command
  <2> QED  BY <2>1, <2>2, <2>3, <2>4, <2>5, <2>6 DEF ScalarsOK
<1> QED  BY <1>1, <1>2, <1>3, <1>4

(* Which goroutine may do which call.                                      *)
LEMMA KindOf ==
  ASSUME TasksOK, NEW t \in tasks
  PROVE  /\ t.kind \in {"remove", "recreate", "start", "create"}
         /\ t.kind = "remove" <=> t \in Removals
         /\ t.kind = "recreate" <=> t \in Recreations
         /\ t.kind = "start" <=> t \in Starts
         /\ t.kind = "create" <=> t \in Creations
         /\ t.id \in Nat /\ t.number \in Nat
         /\ t.kind = "remove" => t.at \in {"stop", "remove"}
         /\ t.kind = "recreate" => t.at \in {"create", "stop", "remove", "rename"}
         /\ t.kind = "start" => t.at = "start"
         /\ t.kind = "create" => t.at = "create"
BY DEF TasksOK, Tasks, Removals, Recreations, Starts, Creations

LEMMA TmpNameOK ==
  ASSUME Typed, NEW t \in tasks, t.kind = "recreate"
  PROVE  /\ TmpNameOf(t) \in Names
         /\ TmpNameOf(t).number = t.number /\ TmpNameOf(t).replaces = t.id
         /\ t.id \in Observed /\ t.id \in 1..(nextID - 1)
<1>1. t.id \in Nat /\ t.number \in Nat
  BY KindOf DEF Typed
<1>2. t.id \in Observed /\ t.id \in 1..(nextID - 1)
  BY DEF Typed, TasksOK, ListOK
<1> QED  BY <1>1, <1>2 DEF TmpNameOf, TmpName, Names

LEMMA NameOK ==
  ASSUME Typed, NEW t \in tasks
  PROVE  Name(t.number) \in Names /\ Name(t.number).number = t.number /\ Name(t.number).replaces = 0
         /\ 0 < nextID
<1>1. t.number \in Nat /\ nextID \in Nat \ {0}
  BY KindOf DEF Typed, ContainersOK
<1> QED  BY <1>1 DEF Name, Names

LEMMA StopToRemoveTyped ==
  ASSUME Typed, NEW t \in tasks, StopToRemove(t)
  PROVE  Typed' /\ IDs' = IDs
<1> USE DEF Typed
<1>1. ContainersOK' /\ IDs' = IDs
  <2>1. CASE t.id \in IDs
    BY <2>1, StateOK DEF StopToRemove, States
  <2>2. CASE t.id \notin IDs
    BY <2>2, SameContainersOK DEF StopToRemove
  <2> QED  BY <2>1, <2>2
<1>2. ListOK'
  BY <1>1, SameListOK DEF StopToRemove, Progress, ListOK
<1>3. TasksOK'
  <2>1. UNCHANGED observed
    BY DEF StopToRemove, Progress
  <2>2. CASE t.id \in IDs
    <3>1. Goes(t, "remove")
      BY <2>2 DEF StopToRemove
    <3>2. t.kind # "create" /\ [t EXCEPT !.at = "remove"] \in Tasks
      BY KindOf DEF StopToRemove, Tasks, Removals
    <3> QED  BY <2>1, <3>1, <3>2, GoesOK
  <2>3. CASE t.id \notin IDs
    BY <2>1, <2>3, EndsOK DEF StopToRemove
  <2> QED  BY <2>2, <2>3
<1>4. ScalarsOK'
  <2>1. UNCHANGED <<dependents, faults, commands, faultsBefore, phase, want, rest, cancelled>>
    BY DEF StopToRemove, Progress
  <2>2. phase \in {"idle", "ok"} => FALSE
    BY DEF ScalarsOK
  <2> QED  BY <2>1, <2>2 DEF ScalarsOK
<1> QED  BY <1>1, <1>2, <1>3, <1>4

LEMMA ForceRemoveTyped ==
  ASSUME Typed, NEW t \in tasks, ForceRemove(t)
  PROVE  Typed' /\ IDs' = IDs \ {t.id}
<1> USE DEF Typed
<1>1. ContainersOK' /\ IDs' = IDs \ {t.id}
  BY GoneOK DEF ForceRemove
<1>2. ListOK'
  BY <1>1, SameListOK DEF ForceRemove, Progress, ListOK
<1>3. TasksOK'
  BY EndsOK DEF ForceRemove, Progress
<1>4. ScalarsOK'
  <2>1. UNCHANGED <<dependents, faults, commands, faultsBefore, phase, want, rest, cancelled>>
    BY DEF ForceRemove, Progress
  <2>2. phase \in {"idle", "ok"} => FALSE
    BY DEF ScalarsOK
  <2> QED  BY <2>1, <2>2 DEF ScalarsOK
<1> QED  BY <1>1, <1>2, <1>3, <1>4

LEMMA CreateReplacementTyped ==
  ASSUME Typed, NEW t \in tasks, CreateReplacement(t)
  PROVE  Typed' /\ IDs' = IDs \cup {nextID} /\ nextID \notin IDs
<1> USE DEF Typed
<1>1. ContainersOK' /\ IDs' = IDs \cup {nextID} /\ nextID \notin IDs /\ nextID' = nextID + 1
  <2>1. /\ TmpNameOf(t) \in Names /\ t.number \in Nat
        /\ TmpNameOf(t).number = t.number /\ TmpNameOf(t).replaces < nextID
    BY TmpNameOK, KindOf DEF CreateReplacement, ContainersOK
  <2>2. ~NameTaken(TmpNameOf(t)) /\ Created(TmpNameOf(t), t.number) /\ want \in Wants
    BY DEF CreateReplacement, ScalarsOK
  <2> QED  BY <2>1, <2>2, CreatedOK, CreatedEffect
<1>2. ListOK'
  <2>1. updated' \subseteq 1..(nextID' - 1)
    BY <1>1 DEF CreateReplacement, ListOK, ContainersOK
  <2> QED  BY <1>1, <2>1, SameListOK DEF CreateReplacement, Progress
<1>3. TasksOK'
  <2>1. [t EXCEPT !.at = "stop"] \in Tasks
    BY KindOf DEF CreateReplacement, Tasks, Recreations
  <2> QED  BY <2>1, GoesOK DEF CreateReplacement, Progress
<1>4. ScalarsOK'
  <2>1. UNCHANGED <<dependents, faults, commands, faultsBefore, phase, want, rest, cancelled>>
    BY DEF CreateReplacement, Progress
  <2>2. phase \in {"idle", "ok"} => FALSE
    BY DEF ScalarsOK
  <2> QED  BY <2>1, <2>2 DEF ScalarsOK
<1> QED  BY <1>1, <1>2, <1>3, <1>4

LEMMA StopReplacedTyped ==
  ASSUME Typed, NEW t \in tasks, StopReplaced(t)
  PROVE  Typed' /\ IDs' = IDs
<1> USE DEF Typed
<1>1. ContainersOK' /\ IDs' = IDs
  BY StateOK DEF StopReplaced, States
<1>2. ListOK'
  BY <1>1, SameListOK DEF StopReplaced, Progress, ListOK
<1>3. TasksOK'
  <2>1. [t EXCEPT !.at = "remove"] \in Tasks
    BY KindOf DEF StopReplaced, Tasks, Recreations
  <2> QED  BY <2>1, GoesOK DEF StopReplaced, Progress
<1>4. ScalarsOK'
  <2>1. UNCHANGED <<dependents, faults, commands, faultsBefore, phase, want, rest, cancelled>>
    BY DEF StopReplaced, Progress
  <2>2. phase \in {"idle", "ok"} => FALSE
    BY DEF ScalarsOK
  <2> QED  BY <2>1, <2>2 DEF ScalarsOK
<1> QED  BY <1>1, <1>2, <1>3, <1>4

LEMMA RemoveReplacedTyped ==
  ASSUME Typed, NEW t \in tasks, RemoveReplaced(t)
  PROVE  Typed' /\ IDs' = IDs \ {t.id}
<1> USE DEF Typed
<1>1. ContainersOK' /\ IDs' = IDs \ {t.id}
  BY GoneOK DEF RemoveReplaced
<1>2. ListOK'
  BY <1>1, SameListOK DEF RemoveReplaced, Progress, ListOK
<1>3. TasksOK'
  <2>1. [t EXCEPT !.at = "rename"] \in Tasks
    BY KindOf DEF RemoveReplaced, Tasks, Recreations
  <2> QED  BY <2>1, GoesOK DEF RemoveReplaced, Progress
<1>4. ScalarsOK'
  <2>1. UNCHANGED <<dependents, faults, commands, faultsBefore, phase, want, rest, cancelled>>
    BY DEF RemoveReplaced, Progress
  <2>2. phase \in {"idle", "ok"} => FALSE
    BY DEF ScalarsOK
  <2> QED  BY <2>1, <2>2 DEF ScalarsOK
<1> QED  BY <1>1, <1>2, <1>3, <1>4

(* What giving the replacement its name does.                              *)
LEMMA RenameEffect ==
  ASSUME Typed, NEW t \in tasks, RenameReplacement(t)
  PROVE  \E id \in IDs :
           /\ containers[id].name = TmpNameOf(t) /\ containers[id].number = t.number
           /\ ContainersOK' /\ IDs' = IDs
           /\ containers'[id].name = Name(t.number)
           /\ \A i \in IDs : containers'[i].number = containers[i].number
           /\ \A i \in IDs : containers'[i].state = containers[i].state
           /\ \A i \in IDs : containers'[i].config = containers[i].config
           /\ \A i \in IDs \ {id} : containers'[i] = containers[i]
           /\ updated' = updated \cup {id}
<1> USE DEF Typed
<1>1. PICK id \in Replacements(t) :
        /\ Becomes(id, [containers[id] EXCEPT !.name = Name(t.number)])
        /\ updated' = updated \cup {id}
  BY DEF RenameReplacement
<1>2. id \in IDs /\ containers[id].name = TmpNameOf(t)
  BY <1>1 DEF Replacements
<1>3. containers[id].number = t.number
  <2>1. TmpNameOf(t).number = t.number
    BY TmpNameOK DEF RenameReplacement
  <2> QED  BY <1>2, <2>1 DEF ContainersOK
<1>4. /\ Name(t.number) \in Names /\ Name(t.number).number = containers[id].number
      /\ Name(t.number).replaces < nextID
  BY <1>3, NameOK
<1>5. ~NameTaken(Name(t.number)) /\ UNCHANGED nextID
  BY DEF RenameReplacement
<1> QED  BY <1>1, <1>2, <1>3, <1>4, <1>5, RenamedOK

LEMMA RenameReplacementTyped ==
  ASSUME Typed, NEW t \in tasks, RenameReplacement(t)
  PROVE  Typed' /\ IDs' = IDs
<1> USE DEF Typed
<1>1. ContainersOK' /\ IDs' = IDs
  BY RenameEffect
<1>2. ListOK'
  <2>1. PICK id \in IDs : updated' = updated \cup {id}
    BY RenameEffect
  <2>2. updated' \subseteq 1..(nextID' - 1)
    BY <2>1 DEF RenameReplacement, ListOK, ContainersOK
  <2> QED  BY <1>1, <2>2, SameListOK DEF RenameReplacement, Progress
<1>3. TasksOK'
  BY EndsOK DEF RenameReplacement, Progress
<1>4. ScalarsOK'
  <2>1. UNCHANGED <<dependents, faults, commands, faultsBefore, phase, want, rest, cancelled>>
    BY DEF RenameReplacement, Progress
  <2>2. phase \in {"idle", "ok"} => FALSE
    BY DEF ScalarsOK
  <2> QED  BY <2>1, <2>2 DEF ScalarsOK
<1> QED  BY <1>1, <1>2, <1>3, <1>4

LEMMA CreateReplicaTyped ==
  ASSUME Typed, NEW t \in tasks, CreateReplica(t)
  PROVE  Typed' /\ IDs' = IDs \cup {nextID} /\ nextID \notin IDs
<1> USE DEF Typed
<1>1. ContainersOK' /\ IDs' = IDs \cup {nextID} /\ nextID \notin IDs /\ nextID' = nextID + 1
  <2>1. /\ Name(t.number) \in Names /\ t.number \in Nat
        /\ Name(t.number).number = t.number /\ Name(t.number).replaces < nextID
    BY NameOK, KindOf
  <2>2. ~NameTaken(Name(t.number)) /\ Created(Name(t.number), t.number) /\ want \in Wants
    BY DEF CreateReplica, ScalarsOK
  <2> QED  BY <2>1, <2>2, CreatedOK, CreatedEffect
<1>2. ListOK'
  <2>1. updated' \subseteq 1..(nextID' - 1)
    BY <1>1 DEF CreateReplica, ListOK, ContainersOK
  <2> QED  BY <1>1, <2>1, SameListOK DEF CreateReplica, Progress
<1>3. TasksOK'
  BY EndsOK DEF CreateReplica, Progress
<1>4. ScalarsOK'
  <2>1. UNCHANGED <<dependents, faults, commands, faultsBefore, phase, want, rest, cancelled>>
    BY DEF CreateReplica, Progress
  <2>2. phase \in {"idle", "ok"} => FALSE
    BY DEF ScalarsOK
  <2> QED  BY <2>1, <2>2 DEF ScalarsOK
<1> QED  BY <1>1, <1>2, <1>3, <1>4

LEMMA FailsTyped ==
  ASSUME Typed, NEW t \in tasks, Fails(t)
  PROVE  Typed' /\ IDs' = IDs
<1> USE DEF Typed
<1>1. ContainersOK' /\ IDs' = IDs
  BY SameContainersOK DEF Fails, engine
<1>2. ListOK'
  BY <1>1, SameListOK DEF Fails, engine, ListOK
<1>3. TasksOK'
  BY EndsOK DEF Fails
<1>4. ScalarsOK'
  <2>1. phase \in {"idle", "ok"} => FALSE
    BY DEF ScalarsOK
  <2>2. UNCHANGED <<dependents, faults, commands, faultsBefore, phase, want, rest>> /\ cancelled' = TRUE
    BY DEF Fails, engine
  <2>3. cancelled' \in BOOLEAN
    BY <2>2
  <2> QED  BY <2>1, <2>2, <2>3 DEF ScalarsOK
<1> QED  BY <1>1, <1>2, <1>3, <1>4

(* An engine call that fails may have created the container.               *)
LEMMA EngineFailsEffect ==
  ASSUME Typed, NEW t \in tasks, EngineFails(t)
  PROVE  /\ ContainersOK'
         /\ \/ UNCHANGED <<containers, nextID>> /\ IDs' = IDs
            \/ IDs' = IDs \cup {nextID} /\ nextID \notin IDs /\ nextID' = nextID + 1
<1> USE DEF Typed
<1>1. CASE UNCHANGED <<containers, nextID>>
  BY <1>1, SameContainersOK
<1>2. CASE t.at = "create" /\ ~Refused(t) /\ Created(IF t.kind = "create" THEN Name(t.number) ELSE TmpNameOf(t), t.number)
  <2>1. t.number \in Nat /\ want \in Wants
    BY KindOf DEF ScalarsOK
  <2>2. CASE t.kind = "create"
    <3>1. Created(Name(t.number), t.number) /\ ~NameTaken(Name(t.number))
      BY <1>2, <2>2 DEF Refused
    <3>2. /\ Name(t.number) \in Names /\ Name(t.number).number = t.number
          /\ Name(t.number).replaces < nextID
      BY NameOK
    <3> QED  BY <2>1, <3>1, <3>2, CreatedOK, CreatedEffect
  <2>3. CASE t.kind # "create"
    <3>1. t.kind = "recreate"
      BY <1>2, <2>3, KindOf
    <3>2. Created(TmpNameOf(t), t.number) /\ ~NameTaken(TmpNameOf(t))
      BY <1>2, <3>1 DEF Refused
    <3>3. /\ TmpNameOf(t) \in Names /\ TmpNameOf(t).number = t.number
          /\ TmpNameOf(t).replaces = t.id /\ t.id \in 1..(nextID - 1)
      BY <3>1, TmpNameOK
    <3>4. nextID \in Nat
      BY DEF ContainersOK
    <3>5. t.id < nextID
      BY <3>3, <3>4
    <3>6. TmpNameOf(t).replaces < nextID
      BY <3>3, <3>5
    <3> QED  BY <2>1, <3>2, <3>3, <3>6, CreatedOK, CreatedEffect
  <2> QED  BY <2>2, <2>3
<1> QED  BY <1>1, <1>2 DEF EngineFails

LEMMA EngineFailsTyped ==
  ASSUME Typed, NEW t \in tasks, EngineFails(t)
  PROVE  Typed'
<1> USE DEF Typed
<1>1. /\ ContainersOK' /\ IDs' \subseteq IDs \cup {nextID} /\ nextID' \in {nextID, nextID + 1}
  BY EngineFailsEffect
<1>2. ListOK'
  <2>1. updated' \subseteq 1..(nextID' - 1)
    <3>1. updated' = updated
      BY DEF EngineFails
    <3>2. nextID \in Nat /\ updated \subseteq 1..(nextID - 1)
      BY DEF ListOK, ContainersOK
    <3>3. CASE nextID' = nextID
      BY <3>1, <3>2, <3>3
    <3>4. CASE nextID' = nextID + 1
      BY <3>1, <3>2, <3>4
    <3> QED  BY <1>1, <3>3, <3>4
  <2>2. UNCHANGED <<observed, lost>> /\ rest' \subseteq rest
    BY DEF EngineFails
  <2> QED  BY <1>1, <2>1, <2>2, SameListOK
<1>3. TasksOK'
  BY EndsOK DEF EngineFails
<1>4. ScalarsOK'
  <2>1. phase \in {"idle", "ok"} => FALSE
    BY DEF ScalarsOK
  <2>2. /\ UNCHANGED <<dependents, commands, faultsBefore, phase, want, rest>> /\ cancelled' = TRUE
        /\ faults' = faults + 1 /\ faults < Faults
    BY DEF EngineFails
  <2>3. cancelled' \in BOOLEAN
    BY <2>2
  <2>4. faultsBefore' \in 0..faults' /\ faults' \in 0..Faults
    BY <2>2, BoundsAssumption DEF ScalarsOK
  <2> QED  BY <2>1, <2>2, <2>3, <2>4 DEF ScalarsOK
<1> QED  BY <1>1, <1>2, <1>3, <1>4

----------------------------------------------------------------------------
(* Counting.                                                               *)
LEMMA Cards ==
  ASSUME Typed
  PROVE  /\ Cardinality(IDs) \in Nat /\ Cardinality(lost) \in Nat /\ Cardinality(Taking) \in Nat
         /\ Cardinality(Observed) \in Nat /\ Cardinality(rest) \in Nat
         /\ Cardinality(rest) <= Cardinality(Observed)
         /\ IsFiniteSet(rest) /\ IsFiniteSet(Taking)
         /\ want.scale \in Nat
         /\ Index = Cardinality(Observed) - Cardinality(rest) /\ Index \in Nat /\ Kept \in Nat
<1>1. IsFiniteSet(rest) /\ Cardinality(rest) <= Cardinality(Observed)
  BY FS_Subset DEF Typed, ListOK
<1>2. IsFiniteSet(Taking)
  <2>1. Taking \in SUBSET tasks /\ IsFiniteSet(tasks)
    BY DEF Taking, Typed, TasksOK
  <2> QED  BY <2>1, FS_Subset
<1>3. /\ Cardinality(IDs) \in Nat /\ Cardinality(lost) \in Nat /\ Cardinality(Taking) \in Nat
      /\ Cardinality(Observed) \in Nat /\ Cardinality(rest) \in Nat
  BY <1>1, <1>2, FS_CardinalityType DEF Typed, ContainersOK, ListOK
<1>4. want.scale \in Nat
  BY ScalesAssumption DEF Typed, ScalarsOK, Wants
<1>5. Index = Cardinality(Observed) - Cardinality(rest) /\ Index \in Nat
  BY <1>1, <1>3 DEF Index, Observed
<1>6. Kept \in Nat
  BY <1>4, <1>5 DEF Kept
<1> QED  BY <1>1, <1>2, <1>3, <1>4, <1>5, <1>6

(* A step that takes no more containers than it takes goroutines that were *)
(* to take one keeps the count.                                            *)
LEMMA CountedKept ==
  ASSUME Typed, Typed', Counted, UNCHANGED <<observed, want, rest>>,
         Cardinality(IDs') + Cardinality(lost') + Cardinality(Taking)
           >= Cardinality(IDs) + Cardinality(lost) + Cardinality(Taking')
  PROVE  Counted'
<1>1. Kept' = Kept
  BY DEF Kept, Index
<1>2. /\ Cardinality(IDs) \in Nat /\ Cardinality(lost) \in Nat /\ Cardinality(Taking) \in Nat
      /\ Cardinality(rest) \in Nat /\ Kept \in Nat
  BY Cards
<1>3. Cardinality(IDs') \in Nat /\ Cardinality(lost') \in Nat /\ Cardinality(Taking') \in Nat
  <2>1. IsFiniteSet(IDs') /\ IsFiniteSet(lost') /\ IsFiniteSet(tasks')
    BY DEF Typed, ContainersOK, ListOK, TasksOK
  <2>2. Taking' \in SUBSET tasks'
    BY DEF Taking
  <2> QED  BY <2>1, <2>2, FS_Subset, FS_CardinalityType
<1> QED  BY <1>1, <1>2, <1>3 DEF Counted

LEMMA TakingEnds ==
  ASSUME Typed, NEW t \in tasks, Ends(t)
  PROVE  Cardinality(Taking') = IF Takes(t) THEN Cardinality(Taking) - 1 ELSE Cardinality(Taking)
<1>1. Taking' = Taking \ {t} /\ (t \in Taking <=> Takes(t))
  BY DEF Ends, Taking
<1> QED  BY <1>1, Cards, FS_RemoveElement

LEMMA TakingGoes ==
  ASSUME Typed, NEW t \in tasks, NEW at, Goes(t, at), t.kind # "create", [t EXCEPT !.at = at] \in Tasks
  PROVE  /\ t.kind = "remove" => Cardinality(Taking') <= Cardinality(Taking)
         /\ t.kind = "recreate" /\ t.at = "create" => Cardinality(Taking') <= Cardinality(Taking) + 1
         /\ t.kind = "recreate" /\ t.at = "stop" => Cardinality(Taking') <= Cardinality(Taking)
         /\ t.kind = "recreate" /\ t.at = "remove" /\ at = "rename" =>
              Cardinality(Taking') <= Cardinality(Taking) - 1
<1> DEFINE u == [t EXCEPT !.at = at]
<1>1. u.kind = t.kind /\ u.at = at
  BY DEF Typed, TasksOK, Tasks, Removals, Recreations, Starts, Creations
<1>2. tasks' = (tasks \ {t}) \cup {u}
  BY DEF Goes
<1> HIDE DEF u
<1> DEFINE Left == Taking \ {t}
<1>3. Cardinality(Left) = (IF Takes(t) THEN Cardinality(Taking) - 1 ELSE Cardinality(Taking)) /\ IsFiniteSet(Left)
  <2>1. t \in Taking <=> Takes(t)
    BY DEF Taking
  <2> QED  BY <2>1, Cards, FS_RemoveElement
<1>4. Cardinality(Left) \in Nat
  BY <1>3, FS_CardinalityType
<1>5. CASE Takes(u)
  <2>1. Taking' = Left \cup {u}
    BY <1>2, <1>5 DEF Taking
  <2>2. Cardinality(Taking') <= Cardinality(Left) + 1
    <3>1. Cardinality(Left \cup {u}) = IF u \in Left THEN Cardinality(Left) ELSE Cardinality(Left) + 1
      BY <1>3, FS_AddElement
    <3> HIDE DEF Left
    <3> QED  BY <2>1, <3>1, <1>4
  <2>3. Cardinality(Taking) \in Nat
    BY Cards
  <2> HIDE DEF Left
  <2>4. Cardinality(Taking') \in Nat
    BY <2>1, <1>3, FS_AddElement, FS_CardinalityType
  <2>5. t.kind = "remove" \/ (t.kind = "recreate" /\ t.at \in {"stop", "remove"}) => Takes(t)
    BY DEF Takes
  <2>6. t.kind = "recreate" => at \in {"stop", "remove"}
    BY <1>1, <1>5 DEF Takes
  <2>7. t.kind = "recreate" /\ t.at = "create" => ~Takes(t)
    BY DEF Takes
  <2> QED  BY <1>3, <1>4, <2>2, <2>3, <2>4, <2>5, <2>6, <2>7
<1>6. CASE ~Takes(u)
  <2>1. Taking' = Left
    BY <1>2, <1>6 DEF Taking
  <2>2. Cardinality(Taking) \in Nat
    BY Cards
  <2>3. t.kind = "recreate" /\ t.at = "remove" => Takes(t)
    BY DEF Takes
  <2> HIDE DEF Left
  <2> QED  BY <1>3, <1>4, <2>1, <2>2, <2>3
<1> QED  BY <1>5, <1>6

LEMMA TakingFinite ==
  ASSUME Typed'
  PROVE  IsFiniteSet(Taking') /\ Cardinality(Taking') \in Nat
<1>1. IsFiniteSet(tasks') /\ Taking' \in SUBSET tasks'
  BY DEF Typed, TasksOK, Taking
<1> QED  BY <1>1, FS_Subset, FS_CardinalityType

LEMMA StopToRemoveCounted ==
  ASSUME Typed, Typed', Counted, NEW t \in tasks, StopToRemove(t)
  PROVE  Counted'
<1>1. IDs' = IDs
  BY StopToRemoveTyped
<1>2. Cardinality(Taking') <= Cardinality(Taking)
  <2>1. CASE Goes(t, "remove")
    <3>1. t.kind = "remove" /\ [t EXCEPT !.at = "remove"] \in Tasks
      BY KindOf DEF StopToRemove, Tasks, Removals, Typed
    <3> QED  BY <2>1, <3>1, TakingGoes
  <2>2. CASE Ends(t)
    BY <2>2, Cards, TakingEnds
  <2> QED  BY <2>1, <2>2 DEF StopToRemove
<1>3. UNCHANGED <<observed, want, rest>> /\ lost' = lost
  BY DEF StopToRemove, Progress
<1>4. /\ Cardinality(IDs) \in Nat /\ Cardinality(lost) \in Nat /\ Cardinality(Taking) \in Nat
      /\ IsFiniteSet(IDs) /\ IsFiniteSet(Taking)
  BY Cards DEF Typed, ContainersOK
<1>5. Cardinality(Taking') \in Nat
  BY TakingFinite
<1> QED  BY <1>1, <1>2, <1>3, <1>4, <1>5, CountedKept

LEMMA ForceRemoveCounted ==
  ASSUME Typed, Typed', Counted, NEW t \in tasks, ForceRemove(t)
  PROVE  Counted'
<1>1. IDs' = IDs \ {t.id} /\ Cardinality(IDs') >= Cardinality(IDs) - 1 /\ Cardinality(IDs') \in Nat
  <2>1. IDs' = IDs \ {t.id}
    BY ForceRemoveTyped
  <2>2. IsFiniteSet(IDs) /\ Cardinality(IDs) \in Nat /\ IsFiniteSet(IDs')
    BY Cards DEF Typed, ContainersOK
  <2>3. Cardinality(IDs \ {t.id}) \in {Cardinality(IDs) - 1, Cardinality(IDs)}
    BY <2>2, FS_RemoveElement
  <2>4. Cardinality(IDs') \in Nat
    BY <2>2, FS_CardinalityType
  <2> QED  BY <2>1, <2>2, <2>3, <2>4
<1>2. Cardinality(Taking') = Cardinality(Taking) - 1
  BY TakingEnds DEF ForceRemove, Takes
<1>3. UNCHANGED <<observed, want, rest>> /\ lost' = lost
  BY DEF ForceRemove, Progress
<1>4. /\ Cardinality(IDs) \in Nat /\ Cardinality(lost) \in Nat /\ Cardinality(Taking) \in Nat
      /\ IsFiniteSet(IDs) /\ IsFiniteSet(Taking)
  BY Cards DEF Typed, ContainersOK
<1>5. Cardinality(Taking') \in Nat
  BY TakingFinite
<1> QED  BY <1>1, <1>2, <1>3, <1>4, <1>5, CountedKept

LEMMA CreateReplacementCounted ==
  ASSUME Typed, Typed', Counted, NEW t \in tasks, CreateReplacement(t)
  PROVE  Counted'
<1>1. Cardinality(IDs') = Cardinality(IDs) + 1
  <2>1. IDs' = IDs \cup {nextID} /\ nextID \notin IDs
    BY CreateReplacementTyped
  <2>2. IsFiniteSet(IDs)
    BY DEF Typed, ContainersOK
  <2> QED  BY <2>1, <2>2, FS_AddElement
<1>2. Cardinality(Taking') <= Cardinality(Taking) + 1
  <2>1. t.kind # "create" /\ [t EXCEPT !.at = "stop"] \in Tasks
    BY KindOf DEF CreateReplacement, Tasks, Recreations, Typed
  <2> QED  BY <2>1, TakingGoes DEF CreateReplacement
<1>3. UNCHANGED <<observed, want, rest>> /\ lost' = lost
  BY DEF CreateReplacement, Progress
<1>4. /\ Cardinality(IDs) \in Nat /\ Cardinality(lost) \in Nat /\ Cardinality(Taking) \in Nat
      /\ IsFiniteSet(IDs) /\ IsFiniteSet(Taking)
  BY Cards DEF Typed, ContainersOK
<1>5. Cardinality(Taking') \in Nat
  BY TakingFinite
<1> QED  BY <1>1, <1>2, <1>3, <1>4, <1>5, CountedKept

LEMMA StopReplacedCounted ==
  ASSUME Typed, Typed', Counted, NEW t \in tasks, StopReplaced(t)
  PROVE  Counted'
<1>1. IDs' = IDs
  BY StopReplacedTyped
<1>2. Cardinality(Taking') <= Cardinality(Taking)
  <2>1. t.kind # "create" /\ [t EXCEPT !.at = "remove"] \in Tasks
    BY KindOf DEF StopReplaced, Tasks, Recreations, Typed
  <2> QED  BY <2>1, TakingGoes DEF StopReplaced
<1>3. UNCHANGED <<observed, want, rest>> /\ lost' = lost
  BY DEF StopReplaced, Progress
<1>4. /\ Cardinality(IDs) \in Nat /\ Cardinality(lost) \in Nat /\ Cardinality(Taking) \in Nat
      /\ IsFiniteSet(IDs) /\ IsFiniteSet(Taking)
  BY Cards DEF Typed, ContainersOK
<1>5. Cardinality(Taking') \in Nat
  BY TakingFinite
<1> QED  BY <1>1, <1>2, <1>3, <1>4, <1>5, CountedKept

LEMMA RemoveReplacedCounted ==
  ASSUME Typed, Typed', Counted, NEW t \in tasks, RemoveReplaced(t)
  PROVE  Counted'
<1>1. IDs' = IDs \ {t.id} /\ Cardinality(IDs') >= Cardinality(IDs) - 1 /\ Cardinality(IDs') \in Nat
  <2>1. IDs' = IDs \ {t.id}
    BY RemoveReplacedTyped
  <2>2. IsFiniteSet(IDs) /\ Cardinality(IDs) \in Nat /\ IsFiniteSet(IDs')
    BY Cards DEF Typed, ContainersOK
  <2>3. Cardinality(IDs \ {t.id}) \in {Cardinality(IDs) - 1, Cardinality(IDs)}
    BY <2>2, FS_RemoveElement
  <2>4. Cardinality(IDs') \in Nat
    BY <2>2, FS_CardinalityType
  <2> QED  BY <2>1, <2>2, <2>3, <2>4
<1>2. Cardinality(Taking') <= Cardinality(Taking) - 1
  <2>1. t.kind # "create" /\ [t EXCEPT !.at = "rename"] \in Tasks
    BY KindOf DEF RemoveReplaced, Tasks, Recreations, Typed
  <2> QED  BY <2>1, TakingGoes DEF RemoveReplaced
<1>3. UNCHANGED <<observed, want, rest>> /\ lost' = lost
  BY DEF RemoveReplaced, Progress
<1>4. /\ Cardinality(IDs) \in Nat /\ Cardinality(lost) \in Nat /\ Cardinality(Taking) \in Nat
      /\ IsFiniteSet(IDs) /\ IsFiniteSet(Taking)
  BY Cards DEF Typed, ContainersOK
<1>5. Cardinality(Taking') \in Nat
  BY TakingFinite
<1> QED  BY <1>1, <1>2, <1>3, <1>4, <1>5, CountedKept

LEMMA RenameReplacementCounted ==
  ASSUME Typed, Typed', Counted, NEW t \in tasks, RenameReplacement(t)
  PROVE  Counted'
<1>1. IDs' = IDs
  BY RenameReplacementTyped
<1>2. Cardinality(Taking') <= Cardinality(Taking)
  BY Cards, TakingEnds DEF RenameReplacement
<1>3. UNCHANGED <<observed, want, rest>> /\ lost' = lost
  BY DEF RenameReplacement, Progress
<1>4. /\ Cardinality(IDs) \in Nat /\ Cardinality(lost) \in Nat /\ Cardinality(Taking) \in Nat
      /\ IsFiniteSet(IDs) /\ IsFiniteSet(Taking)
  BY Cards DEF Typed, ContainersOK
<1>5. Cardinality(Taking') \in Nat
  BY TakingFinite
<1> QED  BY <1>1, <1>2, <1>3, <1>4, <1>5, CountedKept

LEMMA CreateReplicaCounted ==
  ASSUME Typed, Typed', Counted, NEW t \in tasks, CreateReplica(t)
  PROVE  Counted'
<1>1. Cardinality(IDs') = Cardinality(IDs) + 1
  <2>1. IDs' = IDs \cup {nextID} /\ nextID \notin IDs
    BY CreateReplicaTyped
  <2>2. IsFiniteSet(IDs)
    BY DEF Typed, ContainersOK
  <2> QED  BY <2>1, <2>2, FS_AddElement
<1>2. Cardinality(Taking') <= Cardinality(Taking)
  BY Cards, TakingEnds DEF CreateReplica
<1>3. UNCHANGED <<observed, want, rest>> /\ lost' = lost
  BY DEF CreateReplica, Progress
<1>4. /\ Cardinality(IDs) \in Nat /\ Cardinality(lost) \in Nat /\ Cardinality(Taking) \in Nat
      /\ IsFiniteSet(IDs) /\ IsFiniteSet(Taking)
  BY Cards DEF Typed, ContainersOK
<1>5. Cardinality(Taking') \in Nat
  BY TakingFinite
<1> QED  BY <1>1, <1>2, <1>3, <1>4, <1>5, CountedKept

LEMMA FailsCounted ==
  ASSUME Typed, Typed', Counted, NEW t \in tasks, Fails(t)
  PROVE  Counted'
<1>1. IDs' = IDs
  BY FailsTyped
<1>2. Cardinality(Taking') <= Cardinality(Taking)
  BY Cards, TakingEnds DEF Fails
<1>3. UNCHANGED <<observed, want, rest>> /\ lost' = lost
  BY DEF Fails, engine
<1>4. /\ Cardinality(IDs) \in Nat /\ Cardinality(lost) \in Nat /\ Cardinality(Taking) \in Nat
      /\ IsFiniteSet(IDs) /\ IsFiniteSet(Taking)
  BY Cards DEF Typed, ContainersOK
<1>5. Cardinality(Taking') \in Nat
  BY TakingFinite
<1> QED  BY <1>1, <1>2, <1>3, <1>4, <1>5, CountedKept

LEMMA EngineFailsCounted ==
  ASSUME Typed, Typed', Counted, NEW t \in tasks, EngineFails(t)
  PROVE  Counted'
<1>1. Cardinality(IDs') >= Cardinality(IDs) /\ Cardinality(IDs') \in Nat
  <2>1. IDs' = IDs \/ IDs' = IDs \cup {nextID}
    BY EngineFailsEffect
  <2>2. IsFiniteSet(IDs) /\ Cardinality(IDs) \in Nat
    BY Cards DEF Typed, ContainersOK
  <2>3. Cardinality(IDs \cup {nextID}) \in {Cardinality(IDs), Cardinality(IDs) + 1}
    BY <2>2, FS_AddElement
  <2> QED  BY <2>1, <2>2, <2>3
<1>2. Cardinality(Taking') <= Cardinality(Taking)
  BY Cards, TakingEnds DEF EngineFails
<1>3. UNCHANGED <<observed, want, rest>> /\ lost' = lost
  BY DEF EngineFails
<1>4. /\ Cardinality(IDs) \in Nat /\ Cardinality(lost) \in Nat /\ Cardinality(Taking) \in Nat
      /\ IsFiniteSet(IDs) /\ IsFiniteSet(Taking)
  BY Cards DEF Typed, ContainersOK
<1>5. Cardinality(Taking') \in Nat
  BY TakingFinite
<1> QED  BY <1>1, <1>2, <1>3, <1>4, <1>5, CountedKept

LEMMA RestShrinks ==
  ASSUME Typed, NEW id \in rest, LoopStep(id)
  PROVE  /\ Cardinality(rest') = Cardinality(rest) - 1 /\ Index' = Index + 1
         /\ UNCHANGED <<observed, want, lost>>
<1>1. Cardinality(rest') = Cardinality(rest) - 1
  BY Cards, FS_RemoveElement DEF LoopStep
<1>2. UNCHANGED <<observed, want, lost>>
  BY DEF LoopStep
<1>3. Cardinality(Observed) \in Nat /\ Cardinality(rest) \in Nat
  BY Cards
<1>4. Index' = Cardinality(Observed) - Cardinality(rest')
  BY <1>2 DEF Index, Observed
<1>5. Index = Cardinality(Observed) - Cardinality(rest)
  BY DEF Index, Observed
<1> QED  BY <1>1, <1>2, <1>3, <1>4, <1>5

LEMMA LoopRemovesCounted ==
  ASSUME Typed, Typed', Counted, NEW id \in rest, LoopRemoves(id)
  PROVE  Counted'
<1>1. IDs' = IDs
  BY LoopRemovesTyped
<1>2. /\ Cardinality(rest') = Cardinality(rest) - 1 /\ Index' = Index + 1
      /\ UNCHANGED <<observed, want, lost>>
  BY RestShrinks DEF LoopRemoves
<1>3. Cardinality(Taking') <= Cardinality(Taking) + 1
  <2>1. Taking' \subseteq Taking \cup {Removal(id)}
    BY DEF LoopRemoves, Taking
  <2>2. IsFiniteSet(Taking) /\ Cardinality(Taking) \in Nat
    BY Cards
  <2>3. /\ IsFiniteSet(Taking \cup {Removal(id)})
        /\ Cardinality(Taking \cup {Removal(id)}) \in {Cardinality(Taking), Cardinality(Taking) + 1}
    BY <2>2, FS_AddElement
  <2>4. Cardinality(Taking') <= Cardinality(Taking \cup {Removal(id)})
    BY <2>1, <2>3, FS_Subset
  <2> QED  BY <2>2, <2>3, <2>4, TakingFinite, FS_CardinalityType
<1>4. Kept' = Kept
  <2>1. Index \in Nat /\ want.scale \in Nat
    BY Cards
  <2>2. Index >= want.scale
    BY DEF LoopRemoves, ScaleDown
  <2> QED  BY <1>2, <2>1, <2>2 DEF Kept
<1>5. Cardinality(Taking') \in Nat
  BY TakingFinite
<1> QED  BY <1>1, <1>2, <1>3, <1>4, <1>5, Cards DEF Counted

(* Keeping or recreating a container launches nobody who takes one yet.    *)
LEMMA KeptGrows ==
  ASSUME Typed, Typed', Counted, NEW id \in rest, LoopStep(id), ~ScaleDown(id),
         IDs' = IDs, Taking' = Taking
  PROVE  Counted'
<1>1. /\ Cardinality(rest') = Cardinality(rest) - 1 /\ Index' = Index + 1
      /\ UNCHANGED <<observed, want, lost>>
  BY RestShrinks
<1>2. Kept' = Kept + 1
  <2>1. Index \in Nat /\ want.scale \in Nat
    BY Cards
  <2>2. Index < want.scale
    BY <2>1 DEF ScaleDown
  <2> QED  BY <1>1, <2>1, <2>2 DEF Kept
<1> QED  BY <1>1, <1>2, Cards DEF Counted

LEMMA LoopRecreatesCounted ==
  ASSUME Typed, Typed', Counted, NEW id \in rest, LoopRecreates(id)
  PROVE  Counted'
<1>1. IDs' = IDs
  BY LoopRecreatesTyped
<1>2. Taking' = Taking
  BY DEF LoopRecreates, Taking, Takes, Recreation
<1> QED  BY <1>1, <1>2, KeptGrows DEF LoopRecreates

LEMMA LoopKeepsCounted ==
  ASSUME Typed, Typed', Counted, NEW id \in rest, LoopKeeps(id)
  PROVE  Counted'
<1>1. IDs' = IDs
  BY LoopKeepsTyped
<1>2. Taking' = Taking
  BY DEF LoopKeeps, Taking, Takes, Start
<1> QED  BY <1>1, <1>2, KeptGrows DEF LoopKeeps

LEMMA ScaleUpCounted ==
  ASSUME Typed, Typed', Counted, ScaleUp
  PROVE  Counted'
<1>1. IDs' = IDs /\ tasks' = tasks \cup Additions
  BY ScaleUpTyped
<1>2. \A u \in Additions : ~Takes(u)
  BY AdditionsOK DEF Takes, Typed, ScalarsOK
<1>3. Taking' = Taking
  BY <1>1, <1>2 DEF Taking
<1>4. UNCHANGED <<observed, want, rest>> /\ lost' = lost
  BY DEF ScaleUp
<1> QED  BY <1>1, <1>3, <1>4, Cards, CountedKept

LEMMA BeginCounted ==
  ASSUME Typed, Typed', Begin
  PROVE  Counted'
<1>1. IDs' = IDs
  BY BeginTyped
<1>2. /\ Cardinality(lost') = 0 /\ Cardinality(Taking') = 0
  BY FS_EmptySet DEF Begin, Taking
<1>3. Cardinality(rest') = Cardinality(IDs) /\ Index' = Cardinality(IDs) - Cardinality(IDs)
  BY DEF Begin, Index, IDs
<1>4. Cardinality(IDs) \in Nat
  BY Cards
<1>5. want'.scale \in Nat
  BY ScalesAssumption DEF Typed, ScalarsOK, Wants
<1>6. Kept' = 0
  BY <1>3, <1>4, <1>5 DEF Kept
<1> QED  BY <1>1, <1>2, <1>3, <1>4, <1>6 DEF Counted

LEMMA RemovedByOthersCounted ==
  ASSUME Typed, Typed', Counted, NEW id \in IDs, RemovedByOthers(id)
  PROVE  Counted'
<1>1. Cardinality(IDs') = Cardinality(IDs) - 1
  <2>1. IDs' = IDs \ {id} /\ IsFiniteSet(IDs)
    BY RemovedByOthersTyped DEF Typed, ContainersOK
  <2> QED  BY <2>1, FS_RemoveElement
<1>2. Cardinality(lost') = Cardinality(lost) + 1
  <2>1. lost' = lost \cup {id} /\ id \notin lost /\ IsFiniteSet(lost)
    BY DEF RemovedByOthers, Typed, ListOK
  <2> QED  BY <2>1, FS_AddElement
<1>3. UNCHANGED <<observed, want, rest>> /\ Taking' = Taking
  BY DEF RemovedByOthers, command, Taking
<1> QED  BY <1>1, <1>2, <1>3, Cards, CountedKept

LEMMA CountedStutters ==
  ASSUME Typed, Typed', Counted, IDs' = IDs, UNCHANGED <<observed, want, rest, lost>>,
         tasks' \subseteq tasks
  PROVE  Counted'
<1>1. Cardinality(Taking') <= Cardinality(Taking)
  <2>1. Taking' \subseteq Taking
    BY DEF Taking
  <2> QED  BY <2>1, Cards, FS_Subset
<1>2. UNCHANGED <<observed, want, rest>> /\ Cardinality(Taking') \in Nat
  BY TakingFinite
<1> QED  BY <1>1, <1>2, Cards, CountedKept

----------------------------------------------------------------------------
(* No two goroutines work on the same container.                           *)
LEMMA ApartEnds ==
  ASSUME Apart, tasks' \subseteq tasks, rest' \subseteq rest
  PROVE  Apart'
BY DEF Apart, OneTaskEach, NotInRest

LEMMA ApartGoes ==
  ASSUME Typed, Apart, NEW t \in tasks, NEW at, Goes(t, at), rest' = rest,
         t.kind # "create", [t EXCEPT !.at = at] \in Tasks, UNCHANGED observed
  PROVE  Apart'
<1>1. PICK u \in tasks' : /\ tasks' = (tasks \ {t}) \cup {u}
                          /\ u.kind = t.kind /\ u.id = t.id
  <2>1. TasksOK
    BY DEF Typed
  <2> QED  BY <2>1, GoesOK
<1> QED  BY <1>1 DEF Apart, OneTaskEach, NotInRest

LEMMA ApartLoop ==
  ASSUME Apart, NEW id \in rest, rest' = rest \ {id}, NEW u, tasks' \subseteq tasks \cup {u},
         u.id = id
  PROVE  Apart'
BY DEF Apart, OneTaskEach, NotInRest

LEMMA ApartStep ==
  ASSUME Typed, Apart, Next
  PROVE  Apart'
<1>1. CASE Begin
  BY <1>1 DEF Begin, Apart, OneTaskEach, NotInRest
<1>2. CASE ScaleUp
  <2>1. tasks' = tasks \cup Additions /\ \A u \in Additions : u.kind = "create"
    BY <1>2, ScaleUpTyped, AdditionsOK DEF Typed, ScalarsOK
  <2>2. rest' = rest
    BY <1>2 DEF ScaleUp
  <2> QED  BY <2>1, <2>2 DEF Apart, OneTaskEach, NotInRest
<1>3. CASE WaitReturns \/ Killed
  BY <1>3, ApartEnds DEF WaitReturns, Killed
<1>4. ASSUME NEW id \in rest, LoopRemoves(id) \/ LoopRecreates(id) \/ LoopKeeps(id) \/ LoopReturnsEarly(id)
      PROVE  Apart'
  <2>1. CASE LoopRemoves(id)
    <3>1. Removal(id).id = id
      BY DEF Removal
    <3> QED  BY <2>1, <3>1, ApartLoop DEF LoopRemoves, LoopStep
  <2>2. CASE LoopRecreates(id)
    <3>1. Recreation(id).id = id
      BY DEF Recreation
    <3> QED  BY <2>2, <3>1, ApartLoop DEF LoopRecreates, LoopStep
  <2>3. CASE LoopKeeps(id)
    <3>1. Start(id).id = id
      BY DEF Start
    <3>2. tasks' \subseteq tasks \cup {Start(id)} /\ rest' = rest \ {id}
      BY <2>3 DEF LoopKeeps, LoopStep
    <3> QED  BY <3>1, <3>2, ApartLoop
  <2>4. CASE LoopReturnsEarly(id)
    BY <2>4, ApartEnds DEF LoopReturnsEarly
  <2> QED  BY <1>4, <2>1, <2>2, <2>3, <2>4
<1>5. ASSUME NEW t \in tasks, Goroutine(t)
      PROVE  Apart'
  <2>1. CASE StopToRemove(t)
    <3>1. t.kind # "create" /\ [t EXCEPT !.at = "remove"] \in Tasks
      BY <2>1, KindOf DEF StopToRemove, Tasks, Removals, Typed
    <3>2. UNCHANGED <<observed, rest>>
      BY <2>1 DEF StopToRemove, Progress
    <3>3. CASE Goes(t, "remove")
      BY <3>1, <3>2, <3>3, ApartGoes
    <3>4. CASE Ends(t)
      BY <3>2, <3>4, ApartEnds DEF Ends
    <3> QED  BY <2>1, <3>3, <3>4 DEF StopToRemove
  <2>2. CASE CreateReplacement(t)
    <3>1. t.kind # "create" /\ [t EXCEPT !.at = "stop"] \in Tasks
      BY <2>2, KindOf DEF CreateReplacement, Tasks, Recreations, Typed
    <3> QED  BY <2>2, <3>1, ApartGoes DEF CreateReplacement, Progress
  <2>3. CASE StopReplaced(t)
    <3>1. t.kind # "create" /\ [t EXCEPT !.at = "remove"] \in Tasks
      BY <2>3, KindOf DEF StopReplaced, Tasks, Recreations, Typed
    <3> QED  BY <2>3, <3>1, ApartGoes DEF StopReplaced, Progress
  <2>4. CASE RemoveReplaced(t)
    <3>1. t.kind # "create" /\ [t EXCEPT !.at = "rename"] \in Tasks
      BY <2>4, KindOf DEF RemoveReplaced, Tasks, Recreations, Typed
    <3> QED  BY <2>4, <3>1, ApartGoes DEF RemoveReplaced, Progress
  <2>5. CASE ForceRemove(t) \/ RenameReplacement(t) \/ CreateReplica(t)
    BY <2>5, ApartEnds DEF ForceRemove, RenameReplacement, CreateReplica, Progress, Ends
  <2>6. CASE Fails(t)
    BY <2>6, ApartEnds DEF Fails, Ends
  <2>7. CASE EngineFails(t)
    BY <2>7, ApartEnds DEF EngineFails, Ends
  <2> QED  BY <1>5, <2>1, <2>2, <2>3, <2>4, <2>5, <2>6, <2>7
           DEF Goroutine, EngineRefuses, ContextCancelled
<1>6. ASSUME NEW id \in IDs, RemovedByOthers(id) \/ PausedByOthers(id)
      PROVE  Apart'
  BY <1>6, ApartEnds DEF RemovedByOthers, PausedByOthers, command
<1> QED  BY <1>1, <1>2, <1>3, <1>4, <1>5, <1>6 DEF Next

----------------------------------------------------------------------------
(* Accounting for every container.                                         *)
Books == ListedStays /\ AllAccounted /\ TargetsThere /\ ReplacedNotUpdated /\ ReplacementsThere

(* Temporary names tell the recreations apart.                             *)
LEMMA TmpNamesDiffer ==
  ASSUME Apart, NEW t \in tasks, NEW u \in tasks, t.kind = "recreate", u.kind = "recreate",
         TmpNameOf(t) = TmpNameOf(u)
  PROVE  t = u
<1>1. t.id = u.id
  BY DEF TmpNameOf, TmpName
<1> QED  BY <1>1 DEF Apart, OneTaskEach

(* A goroutine that goes on to another call: who else waits for a          *)
(* container waits for it still.                                           *)
LEMMA BooksGo ==
  ASSUME Books, NEW t \in tasks, NEW u, tasks' = (tasks \ {t}) \cup {u},
         u.kind = t.kind, u.id = t.id, TmpNameOf(u) = TmpNameOf(t),
         Replaced(t) <=> Replaced(u), Replacing(t) <=> Replacing(u),
         IDs' = IDs, \A id \in IDs : containers'[id].name = containers[id].name,
         UNCHANGED <<rest, updated, observed>>
  PROVE  Books'
<1>1. ListedStays'
  BY DEF Books, ListedStays
<1>2. AllAccounted'
  <2> SUFFICES ASSUME NEW id \in IDs PROVE (id \in updated)' \/ Pending(id)'
    BY DEF AllAccounted
  <2>1. CASE id \in updated \/ id \in rest
    BY <2>1 DEF Pending
  <2>2. CASE \E v \in tasks : v.id = id /\ (v.kind = "remove" \/ Replaced(v))
    <3>1. \E v \in tasks' : v.id = id /\ (v.kind = "remove" \/ Replaced(v))
      BY <2>2
    <3> QED  BY <3>1 DEF Pending
  <2>3. CASE \E v \in tasks : Replacing(v) /\ containers[id].name = TmpNameOf(v)
    <3>1. \E v \in tasks' : Replacing(v) /\ containers'[id].name = TmpNameOf(v)
      BY <2>3
    <3> QED  BY <3>1 DEF Pending
  <2> QED  BY <2>1, <2>2, <2>3 DEF Books, AllAccounted, Pending
<1>3. TargetsThere'
  BY DEF Books, TargetsThere
<1>4. ReplacedNotUpdated'
  BY DEF Books, ReplacedNotUpdated
<1>5. ReplacementsThere'
  BY DEF Books, ReplacementsThere, Observed
<1> QED  BY <1>1, <1>2, <1>3, <1>4, <1>5 DEF Books

LEMMA StopToRemoveBooks ==
  ASSUME Typed, Apart, Books, NEW t \in tasks, StopToRemove(t)
  PROVE  Books'
<1>1. t.id \in IDs
  BY DEF Books, TargetsThere, StopToRemove
<1>2. Goes(t, "remove") /\ Becomes(t.id, [containers[t.id] EXCEPT !.state = "exited"])
  BY <1>1 DEF StopToRemove
<1>3. ContainersOK /\ TasksOK /\ t.kind # "create" /\ [t EXCEPT !.at = "remove"] \in Tasks
  BY KindOf DEF StopToRemove, Tasks, Removals, Typed
<1> DEFINE u == [t EXCEPT !.at = "remove"]
<1>4. UNCHANGED <<rest, updated, observed>>
  BY DEF StopToRemove, Progress
<1>5. tasks' = (tasks \ {t}) \cup {u} /\ u.kind = t.kind /\ u.id = t.id /\ u.number = t.number
  BY <1>2, <1>3, <1>4, GoesOK
<1>6. IDs' = IDs /\ \A id \in IDs : containers'[id].name = containers[id].name
  BY <1>1, <1>2, <1>3, StateOK DEF StopToRemove, States
<1>7. TmpNameOf(u) = TmpNameOf(t) /\ (Replaced(t) <=> Replaced(u)) /\ (Replacing(t) <=> Replacing(u))
  BY <1>5 DEF TmpNameOf, Replaced, Replacing, StopToRemove
<1> HIDE DEF u
<1> QED  BY <1>4, <1>5, <1>6, <1>7, BooksGo

LEMMA StopReplacedBooks ==
  ASSUME Typed, Apart, Books, NEW t \in tasks, StopReplaced(t)
  PROVE  Books'
<1>1. t.id \in IDs
  BY DEF StopReplaced
<1>2. Goes(t, "remove") /\ Becomes(t.id, [containers[t.id] EXCEPT !.state = "exited"])
  BY DEF StopReplaced
<1>3. ContainersOK /\ TasksOK /\ t.kind # "create" /\ [t EXCEPT !.at = "remove"] \in Tasks
  BY KindOf DEF StopReplaced, Tasks, Recreations, Typed
<1> DEFINE u == [t EXCEPT !.at = "remove"]
<1>4. UNCHANGED <<rest, updated, observed>>
  BY DEF StopReplaced, Progress
<1>5. /\ tasks' = (tasks \ {t}) \cup {u} /\ u.kind = t.kind /\ u.id = t.id /\ u.number = t.number
      /\ u.at = "remove"
  BY <1>2, <1>3, <1>4, GoesOK
<1>6. IDs' = IDs /\ \A id \in IDs : containers'[id].name = containers[id].name
  BY <1>1, <1>2, <1>3, StateOK DEF StopReplaced, States
<1>7. TmpNameOf(u) = TmpNameOf(t) /\ (Replaced(t) <=> Replaced(u)) /\ (Replacing(t) <=> Replacing(u))
  BY <1>5 DEF TmpNameOf, Replaced, Replacing, StopReplaced
<1> HIDE DEF u
<1> QED  BY <1>4, <1>5, <1>6, <1>7, BooksGo

LEMMA ForceRemoveBooks ==
  ASSUME Typed, Apart, Books, NEW t \in tasks, ForceRemove(t)
  PROVE  Books'
<1>1. IDs' = IDs \ {t.id} /\ \A i \in IDs' : containers'[i] = containers[i]
  BY GoneOK DEF ForceRemove, Typed
<1>2. UNCHANGED <<rest, updated, observed>> /\ tasks' = tasks \ {t} /\ t.kind = "remove"
  BY DEF ForceRemove, Progress, Ends
<1>3. t.id \notin rest /\ t.id \notin updated /\ t.id \in Observed
  BY <1>2 DEF Apart, NotInRest, Books, TargetsThere, Typed, TasksOK
<1>4. \A v \in tasks' : v.kind # "create" => v.id # t.id
  BY <1>2 DEF Apart, OneTaskEach
<1>5. ListedStays'
  BY <1>1, <1>2, <1>3 DEF Books, ListedStays
<1>6. AllAccounted'
  <2> SUFFICES ASSUME NEW id \in IDs, id # t.id PROVE (id \in updated)' \/ Pending(id)'
    BY <1>1 DEF AllAccounted
  <2>1. CASE id \in updated \/ id \in rest
    BY <1>2, <2>1 DEF Pending
  <2>2. CASE \E v \in tasks : v.id = id /\ (v.kind = "remove" \/ Replaced(v))
    <3>1. \E v \in tasks' : v.id = id /\ (v.kind = "remove" \/ Replaced(v))
      BY <1>2, <2>2
    <3> QED  BY <3>1 DEF Pending
  <2>3. CASE \E v \in tasks : Replacing(v) /\ containers[id].name = TmpNameOf(v)
    <3>1. \E v \in tasks' : Replacing(v) /\ containers'[id].name = TmpNameOf(v)
      BY <1>1, <1>2, <2>3 DEF Replacing
    <3> QED  BY <3>1 DEF Pending
  <2> QED  BY <2>1, <2>2, <2>3 DEF Books, AllAccounted, Pending
<1>7. TargetsThere'
  BY <1>1, <1>2, <1>4 DEF Books, TargetsThere, Replaced
<1>8. ReplacedNotUpdated'
  BY <1>2 DEF Books, ReplacedNotUpdated
<1>9. ReplacementsThere'
  BY <1>1, <1>2, <1>3 DEF Books, ReplacementsThere, Observed
<1> QED  BY <1>5, <1>6, <1>7, <1>8, <1>9 DEF Books

LEMMA RemoveReplacedBooks ==
  ASSUME Typed, Apart, Books, NEW t \in tasks, RemoveReplaced(t)
  PROVE  Books'
<1>1. IDs' = IDs \ {t.id} /\ \A i \in IDs' : containers'[i] = containers[i]
  BY GoneOK DEF RemoveReplaced, Typed
<1>2. UNCHANGED <<rest, updated, observed>> /\ t.kind = "recreate" /\ t.at = "remove"
  BY DEF RemoveReplaced, Progress
<1> DEFINE u == [t EXCEPT !.at = "rename"]
<1>3. tasks' = (tasks \ {t}) \cup {u} /\ u.kind = t.kind /\ u.id = t.id /\ u.number = t.number /\ u.at = "rename"
  <2>1. [t EXCEPT !.at = "rename"] \in Tasks /\ TasksOK
    BY KindOf DEF RemoveReplaced, Tasks, Recreations, Typed
  <2> QED  BY <1>2, <2>1, GoesOK DEF RemoveReplaced
<1> HIDE DEF u
<1>4. t.id \notin rest /\ t.id \notin updated /\ t.id \in Observed
  BY <1>2 DEF Apart, NotInRest, Books, ReplacedNotUpdated, Typed, TasksOK
<1>5. \A v \in tasks \ {t} : v.kind # "create" => v.id # t.id
  BY <1>2 DEF Apart, OneTaskEach
<1>6. TmpNameOf(u) = TmpNameOf(t) /\ Replacing(u) /\ Replacing(t) /\ ~Replaced(u)
  BY <1>2, <1>3 DEF TmpNameOf, Replacing, Replaced
<1>7. ListedStays'
  BY <1>1, <1>2, <1>4 DEF Books, ListedStays
<1>8. AllAccounted'
  <2> SUFFICES ASSUME NEW id \in IDs, id # t.id PROVE (id \in updated)' \/ Pending(id)'
    BY <1>1 DEF AllAccounted
  <2>1. CASE id \in updated \/ id \in rest
    BY <1>2, <2>1 DEF Pending
  <2>2. CASE \E v \in tasks : v.id = id /\ (v.kind = "remove" \/ Replaced(v))
    <3>1. \E v \in tasks' : v.id = id /\ (v.kind = "remove" \/ Replaced(v))
      BY <1>3, <2>2
    <3> QED  BY <3>1 DEF Pending
  <2>3. CASE \E v \in tasks : Replacing(v) /\ containers[id].name = TmpNameOf(v)
    <3>1. \E v \in tasks' : Replacing(v) /\ containers'[id].name = TmpNameOf(v)
      BY <1>1, <1>3, <1>6, <2>3
    <3> QED  BY <3>1 DEF Pending
  <2> QED  BY <2>1, <2>2, <2>3 DEF Books, AllAccounted, Pending
<1>9. TargetsThere'
  <2>1. \A v \in tasks \ {t} : v.kind = "remove" \/ Replaced(v) => v.id \in IDs' \ updated'
    BY <1>1, <1>2, <1>5 DEF Books, TargetsThere, Replaced
  <2> QED  BY <1>2, <1>3, <1>6, <2>1 DEF TargetsThere
<1>10. ReplacedNotUpdated'
  BY <1>2, <1>3 DEF Books, ReplacedNotUpdated
<1>11. ReplacementsThere'
  <2> SUFFICES ASSUME NEW v \in tasks', Replacing(v)
               PROVE  \E id \in IDs' \ (Observed \cup updated) : containers'[id].name = TmpNameOf(v)
    BY <1>2 DEF ReplacementsThere, Observed
  <2>1. PICK w \in tasks : Replacing(w) /\ TmpNameOf(w) = TmpNameOf(v)
    BY <1>3, <1>6
  <2>2. PICK id \in IDs \ (Observed \cup updated) : containers[id].name = TmpNameOf(w)
    BY <2>1 DEF Books, ReplacementsThere
  <2> QED  BY <1>1, <1>4, <2>1, <2>2
<1> QED  BY <1>7, <1>8, <1>9, <1>10, <1>11 DEF Books

LEMMA CreateReplacementBooks ==
  ASSUME Typed, Apart, Books, NEW t \in tasks, CreateReplacement(t)
  PROVE  Books'
<1>1. /\ IDs' = IDs \cup {nextID} /\ nextID \notin IDs
      /\ \A i \in IDs : containers'[i] = containers[i]
      /\ containers'[nextID].name = TmpNameOf(t)
  <2>1. Created(TmpNameOf(t), t.number) /\ ContainersOK
    BY DEF CreateReplacement, Typed
  <2>2. /\ IDs' = IDs \cup {nextID} /\ nextID \notin IDs
        /\ containers'[nextID] =
             [name |-> TmpNameOf(t), number |-> t.number, config |-> want.config, state |-> "created"]
        /\ \A i \in IDs : containers'[i] = containers[i]
    BY <2>1, CreatedEffect
  <2> QED  BY <2>2
<1>2. UNCHANGED <<rest, updated, observed>> /\ t.kind = "recreate" /\ t.at = "create"
  BY DEF CreateReplacement, Progress
<1> DEFINE u == [t EXCEPT !.at = "stop"]
<1>3. tasks' = (tasks \ {t}) \cup {u} /\ u.kind = t.kind /\ u.id = t.id /\ u.number = t.number /\ u.at = "stop"
  <2>1. [t EXCEPT !.at = "stop"] \in Tasks /\ TasksOK
    BY KindOf DEF CreateReplacement, Tasks, Recreations, Typed
  <2> QED  BY <1>2, <2>1, GoesOK DEF CreateReplacement
<1> HIDE DEF u
<1>4. TmpNameOf(u) = TmpNameOf(t) /\ Replacing(u) /\ ~Replacing(t) /\ Replaced(u) /\ Replaced(t)
  BY <1>2, <1>3 DEF TmpNameOf, Replacing, Replaced
<1>5. nextID \notin Observed /\ nextID \notin updated
  BY DEF Typed, ListOK, ContainersOK
<1>6. ListedStays'
  BY <1>1, <1>2 DEF Books, ListedStays
<1>7. AllAccounted'
  <2> SUFFICES ASSUME NEW id \in IDs' PROVE (id \in updated)' \/ Pending(id)'
    BY DEF AllAccounted
  <2>1. CASE id \in updated \/ id \in rest
    BY <1>2, <2>1 DEF Pending
  <2>2. CASE \E v \in tasks : v.id = id /\ (v.kind = "remove" \/ Replaced(v))
    <3>1. \E v \in tasks' : v.id = id /\ (v.kind = "remove" \/ Replaced(v))
      BY <1>3, <1>4, <2>2
    <3> QED  BY <3>1 DEF Pending
  <2>3. CASE id \in IDs /\ \E v \in tasks : Replacing(v) /\ containers[id].name = TmpNameOf(v)
    <3>1. \E v \in tasks' : Replacing(v) /\ containers'[id].name = TmpNameOf(v)
      BY <1>1, <1>3, <1>4, <2>3
    <3> QED  BY <3>1 DEF Pending
  <2>4. CASE id = nextID
    BY <1>1, <1>3, <1>4, <2>4 DEF Pending
  <2> QED  BY <1>1, <2>1, <2>2, <2>3, <2>4 DEF Books, AllAccounted, Pending
<1>8. TargetsThere'
  BY <1>1, <1>2, <1>3, <1>4 DEF Books, TargetsThere
<1>9. ReplacedNotUpdated'
  BY <1>2, <1>3 DEF Books, ReplacedNotUpdated
<1>10. ReplacementsThere'
  <2> SUFFICES ASSUME NEW v \in tasks', Replacing(v)
               PROVE  \E id \in IDs' \ (Observed \cup updated) : containers'[id].name = TmpNameOf(v)
    BY <1>2 DEF ReplacementsThere, Observed
  <2>1. CASE v = u
    BY <1>1, <1>4, <1>5, <2>1
  <2>2. CASE v # u
    <3>1. PICK id \in IDs \ (Observed \cup updated) : containers[id].name = TmpNameOf(v)
      BY <1>3, <2>2 DEF Books, ReplacementsThere
    <3> QED  BY <1>1, <3>1
  <2> QED  BY <2>1, <2>2
<1> QED  BY <1>6, <1>7, <1>8, <1>9, <1>10 DEF Books

LEMMA RenameReplacementBooks ==
  ASSUME Typed, Apart, Books, NEW t \in tasks, RenameReplacement(t)
  PROVE  Books'
<1>1. PICK new \in IDs :
        /\ containers[new].name = TmpNameOf(t) /\ IDs' = IDs
        /\ \A i \in IDs \ {new} : containers'[i] = containers[i]
        /\ updated' = updated \cup {new}
  BY RenameEffect
<1>2. UNCHANGED <<rest, observed>> /\ tasks' = tasks \ {t} /\ t.kind = "recreate" /\ t.at = "rename"
  BY DEF RenameReplacement, Progress, Ends
<1>3. Replacing(t) /\ ~Replaced(t)
  BY <1>2 DEF Replacing, Replaced
<1>4. new \notin Observed /\ new \notin updated
  <2>1. PICK id \in IDs \ (Observed \cup updated) : containers[id].name = TmpNameOf(t)
    BY <1>3 DEF Books, ReplacementsThere
  <2> QED  BY <1>1, <2>1 DEF Typed, ContainersOK
<1>5. rest \subseteq Observed /\ \A v \in tasks : v.kind # "create" => v.id \in Observed
  BY DEF Typed, ListOK, TasksOK
<1>6. ListedStays'
  BY <1>1, <1>2, <1>4, <1>5 DEF Books, ListedStays
<1>7. AllAccounted'
  <2> SUFFICES ASSUME NEW id \in IDs, id # new PROVE (id \in updated)' \/ Pending(id)'
    BY <1>1 DEF AllAccounted
  <2>1. CASE id \in updated \/ id \in rest
    BY <1>1, <1>2, <2>1 DEF Pending
  <2>2. CASE \E v \in tasks : v.id = id /\ (v.kind = "remove" \/ Replaced(v))
    <3>1. \E v \in tasks' : v.id = id /\ (v.kind = "remove" \/ Replaced(v))
      BY <1>2, <1>3, <2>2
    <3> QED  BY <3>1 DEF Pending
  <2>3. CASE \E v \in tasks : Replacing(v) /\ containers[id].name = TmpNameOf(v)
    <3>1. PICK v \in tasks : Replacing(v) /\ containers[id].name = TmpNameOf(v)
      BY <2>3
    <3>2. v # t
      BY <1>1, <3>1 DEF Typed, ContainersOK
    <3>3. \E w \in tasks' : Replacing(w) /\ containers'[id].name = TmpNameOf(w)
      BY <1>1, <1>2, <3>1, <3>2
    <3> QED  BY <3>3 DEF Pending
  <2> QED  BY <2>1, <2>2, <2>3 DEF Books, AllAccounted, Pending
<1>8. TargetsThere'
  BY <1>1, <1>2, <1>4, <1>5 DEF Books, TargetsThere, Replaced
<1>9. ReplacedNotUpdated'
  BY <1>1, <1>2, <1>4, <1>5 DEF Books, ReplacedNotUpdated
<1>10. ReplacementsThere'
  <2> SUFFICES ASSUME NEW v \in tasks', Replacing(v)
               PROVE  \E id \in IDs' \ (Observed \cup updated') : containers'[id].name = TmpNameOf(v)
    BY <1>2 DEF ReplacementsThere, Observed
  <2>1. PICK id \in IDs \ (Observed \cup updated) : containers[id].name = TmpNameOf(v)
    BY <1>2 DEF Books, ReplacementsThere
  <2>2. TmpNameOf(v) # TmpNameOf(t)
    BY <1>2, TmpNamesDiffer DEF Replacing
  <2>3. id # new
    BY <1>1, <2>1, <2>2
  <2> QED  BY <1>1, <2>1, <2>3
<1> QED  BY <1>6, <1>7, <1>8, <1>9, <1>10 DEF Books

LEMMA CreateReplicaBooks ==
  ASSUME Typed, Apart, Books, NEW t \in tasks, CreateReplica(t)
  PROVE  Books'
<1>1. /\ IDs' = IDs \cup {nextID} /\ nextID \notin IDs
      /\ \A i \in IDs : containers'[i] = containers[i]
      /\ updated' = updated \cup {nextID}
  BY CreatedEffect DEF CreateReplica, Typed
<1>2. UNCHANGED <<rest, observed>> /\ tasks' = tasks \ {t} /\ t.kind = "create"
  BY DEF CreateReplica, Progress, Ends
<1>3. ~Replacing(t) /\ ~Replaced(t)
  BY <1>2 DEF Replacing, Replaced
<1>4. nextID \notin Observed /\ rest \subseteq Observed /\ \A v \in tasks : v.kind # "create" => v.id \in Observed
  BY DEF Typed, ListOK, ContainersOK, TasksOK
<1>5. ListedStays'
  BY <1>1, <1>2, <1>4 DEF Books, ListedStays
<1>6. AllAccounted'
  <2> SUFFICES ASSUME NEW id \in IDs PROVE (id \in updated)' \/ Pending(id)'
    BY <1>1 DEF AllAccounted
  <2>1. CASE id \in updated \/ id \in rest
    BY <1>1, <1>2, <2>1 DEF Pending
  <2>2. CASE \E v \in tasks : v.id = id /\ (v.kind = "remove" \/ Replaced(v))
    <3>1. \E v \in tasks' : v.id = id /\ (v.kind = "remove" \/ Replaced(v))
      BY <1>2, <1>3, <2>2
    <3> QED  BY <3>1 DEF Pending
  <2>3. CASE \E v \in tasks : Replacing(v) /\ containers[id].name = TmpNameOf(v)
    <3>1. \E v \in tasks' : Replacing(v) /\ containers'[id].name = TmpNameOf(v)
      BY <1>1, <1>2, <1>3, <2>3
    <3> QED  BY <3>1 DEF Pending
  <2> QED  BY <2>1, <2>2, <2>3 DEF Books, AllAccounted, Pending
<1>7. TargetsThere'
  BY <1>1, <1>2, <1>4 DEF Books, TargetsThere, Replaced
<1>8. ReplacedNotUpdated'
  BY <1>1, <1>2, <1>4 DEF Books, ReplacedNotUpdated
<1>9. ReplacementsThere'
  <2> SUFFICES ASSUME NEW v \in tasks', Replacing(v)
               PROVE  \E id \in IDs' \ (Observed \cup updated') : containers'[id].name = TmpNameOf(v)
    BY <1>2 DEF ReplacementsThere, Observed
  <2>1. PICK id \in IDs \ (Observed \cup updated) : containers[id].name = TmpNameOf(v)
    BY <1>2 DEF Books, ReplacementsThere
  <2> QED  BY <1>1, <2>1
<1> QED  BY <1>5, <1>6, <1>7, <1>8, <1>9 DEF Books

(* The loop passes a container on, to a goroutine or as it is.             *)
LEMMA LoopBooks ==
  ASSUME Typed, Apart, Books, NEW id \in rest, LoopRemoves(id) \/ LoopRecreates(id) \/ LoopKeeps(id)
  PROVE  Books'
<1>1. IDs' = IDs
  BY LoopRemovesTyped, LoopRecreatesTyped, LoopKeepsTyped
<1>2. rest' = rest \ {id} /\ UNCHANGED <<containers, observed>>
  BY DEF LoopRemoves, LoopRecreates, LoopKeeps, LoopStep
<1>3. id \in IDs /\ id \notin updated /\ id \in Observed
  BY DEF Books, ListedStays, Typed, ListOK
<1>4. tasks \subseteq tasks'
  BY DEF LoopRemoves, LoopRecreates, LoopKeeps
<1>5. \A v \in tasks' \ tasks :
        /\ v.id = id
        /\ v.kind \in {"remove", "recreate"} => updated' = updated
        /\ ~Replacing(v)
  BY DEF LoopRemoves, LoopRecreates, LoopKeeps, Removal, Recreation, Start, Replacing
<1>6. updated' = updated \/ updated' = updated \cup {id}
  BY DEF LoopRemoves, LoopRecreates, LoopKeeps
<1>7. \A v \in tasks : v.kind # "create" => v.id # id
  BY DEF Apart, NotInRest
<1>8. id \in updated' \/ \E v \in tasks' : v.id = id /\ (v.kind = "remove" \/ Replaced(v))
  <2>1. CASE LoopRemoves(id)
    <3>1. Removal(id) \in tasks' /\ Removal(id).id = id /\ Removal(id).kind = "remove"
      BY <2>1 DEF LoopRemoves, Removal
    <3> QED  BY <3>1
  <2>2. CASE LoopRecreates(id)
    <3>1. Recreation(id) \in tasks' /\ Recreation(id).id = id /\ Replaced(Recreation(id))
      BY <2>2 DEF LoopRecreates, Recreation, Replaced
    <3> QED  BY <3>1
  <2>3. CASE LoopKeeps(id)
    BY <2>3 DEF LoopKeeps
  <2> QED  BY <2>1, <2>2, <2>3
<1>9. ListedStays'
  BY <1>1, <1>2, <1>3, <1>6 DEF Books, ListedStays
<1>10. AllAccounted'
  <2> SUFFICES ASSUME NEW i \in IDs PROVE (i \in updated)' \/ Pending(i)'
    BY <1>1 DEF AllAccounted
  <2>1. CASE i = id
    BY <1>8, <2>1 DEF Pending
  <2>2. CASE i # id
    <3>1. i \in updated \/ Pending(i)
      BY DEF Books, AllAccounted
    <3>2. Pending(i) => Pending(i)'
      BY <1>2, <1>4, <2>2 DEF Pending
    <3> QED  BY <1>6, <3>1, <3>2
  <2> QED  BY <2>1, <2>2
<1>11. TargetsThere'
  <2>1. \A v \in tasks : v.kind = "remove" \/ Replaced(v) => v.id \in IDs \ updated /\ v.id # id
    BY <1>7 DEF Books, TargetsThere, Replaced
  <2>2. \A v \in tasks' \ tasks : v.kind = "remove" \/ Replaced(v) => v.id \in IDs \ updated'
    BY <1>3, <1>5 DEF Replaced
  <2> QED  BY <1>1, <1>6, <2>1, <2>2 DEF TargetsThere
<1>12. ReplacedNotUpdated'
  <2>1. \A v \in tasks : v.kind = "recreate" => v.id \notin updated /\ v.id # id
    BY <1>7 DEF Books, ReplacedNotUpdated
  <2>2. \A v \in tasks' \ tasks : v.kind = "recreate" => v.id \notin updated'
    BY <1>3, <1>5
  <2> QED  BY <1>6, <2>1, <2>2 DEF ReplacedNotUpdated
<1>13. ReplacementsThere'
  <2> SUFFICES ASSUME NEW v \in tasks', Replacing(v)
               PROVE  \E i \in IDs' \ (Observed \cup updated') : containers'[i].name = TmpNameOf(v)
    BY <1>2 DEF ReplacementsThere, Observed
  <2>1. PICK i \in IDs \ (Observed \cup updated) : containers[i].name = TmpNameOf(v)
    BY <1>5 DEF Books, ReplacementsThere
  <2>2. i # id
    BY <1>3, <2>1
  <2> QED  BY <1>1, <1>2, <1>6, <2>1, <2>2
<1> QED  BY <1>9, <1>10, <1>11, <1>12, <1>13 DEF Books

LEMMA ScaleUpBooks ==
  ASSUME Typed, Apart, Books, ScaleUp
  PROVE  Books'
<1>1. IDs' = IDs /\ tasks' = tasks \cup Additions /\ \A v \in Additions : v.kind = "create"
  BY ScaleUpTyped, AdditionsOK DEF Typed, ScalarsOK
<1>2. UNCHANGED <<containers, rest, updated, observed>>
  BY DEF ScaleUp, engine
<1>3. ListedStays'
  BY <1>1, <1>2 DEF Books, ListedStays
<1>4. AllAccounted'
  BY <1>1, <1>2 DEF Books, AllAccounted, Pending
<1>5. TargetsThere'
  BY <1>1, <1>2 DEF Books, TargetsThere, Replaced
<1>6. ReplacedNotUpdated'
  BY <1>1, <1>2 DEF Books, ReplacedNotUpdated
<1>7. ReplacementsThere'
  BY <1>1, <1>2 DEF Books, ReplacementsThere, Replacing, Observed
<1> QED  BY <1>3, <1>4, <1>5, <1>6, <1>7 DEF Books

LEMMA BeginBooks ==
  ASSUME Typed, Begin
  PROVE  Books'
<1>1. IDs' = IDs /\ rest' = IDs /\ updated' = {} /\ tasks' = {}
  BY BeginTyped DEF Begin
<1> QED  BY <1>1 DEF Books, ListedStays, AllAccounted, Pending, TargetsThere, ReplacedNotUpdated,
                     ReplacementsThere

LEMMA SameBooks ==
  ASSUME Books, IDs' = IDs, \A id \in IDs : containers'[id].name = containers[id].name,
         UNCHANGED <<rest, updated, observed, tasks>>
  PROVE  Books'
<1>1. ListedStays' /\ TargetsThere' /\ ReplacedNotUpdated'
  BY DEF Books, ListedStays, TargetsThere, ReplacedNotUpdated
<1>2. AllAccounted'
  BY DEF Books, AllAccounted, Pending
<1>3. ReplacementsThere'
  BY DEF Books, ReplacementsThere, Observed
<1> QED  BY <1>1, <1>2, <1>3 DEF Books

LEMMA AccountedStep ==
  ASSUME Typed, Apart, Accounted, Next
  PROVE  Accounted'
<1> SUFFICES ASSUME Regular' PROVE Books'
  BY DEF Accounted, Books
<1>0. Regular => Books
  BY DEF Accounted, Books
<1>1. CASE Begin
  BY <1>1, BeginBooks
<1>2. CASE ScaleUp
  <2>1. Regular
    BY <1>2 DEF ScaleUp, Regular
  <2> QED  BY <1>0, <1>2, <2>1, ScaleUpBooks
<1>3. CASE WaitReturns
  <2>1. Regular
    BY <1>3 DEF WaitReturns, Regular
  <2>2. IDs' = IDs /\ UNCHANGED <<containers, rest, updated, observed, tasks>>
    BY <1>3, WaitReturnsTyped DEF WaitReturns, engine
  <2> QED  BY <1>0, <2>1, <2>2, SameBooks
<1>4. CASE Killed
  BY <1>4 DEF Killed, Regular
<1>5. ASSUME NEW id \in rest, LoopRemoves(id) \/ LoopRecreates(id) \/ LoopKeeps(id) \/ LoopReturnsEarly(id)
      PROVE  Books'
  <2>1. CASE LoopReturnsEarly(id)
    BY <2>1 DEF LoopReturnsEarly, Regular
  <2>2. CASE LoopRemoves(id) \/ LoopRecreates(id) \/ LoopKeeps(id)
    <3>1. Regular
      BY <2>2 DEF LoopRemoves, LoopRecreates, LoopKeeps, LoopStep, Regular
    <3> QED  BY <1>0, <2>2, <3>1, LoopBooks
  <2> QED  BY <1>5, <2>1, <2>2
<1>6. ASSUME NEW t \in tasks, Goroutine(t)
      PROVE  Books'
  <2>1. CASE Fails(t) \/ EngineFails(t)
    <3>1. cancelled' = TRUE
      BY <2>1 DEF Fails, EngineFails
    <3> QED  BY <3>1 DEF Regular
  <2>2. CASE \/ StopToRemove(t) \/ ForceRemove(t) \/ CreateReplacement(t) \/ StopReplaced(t)
             \/ RemoveReplaced(t) \/ RenameReplacement(t) \/ CreateReplica(t)
    <3>1. Progress
      BY <2>2 DEF StopToRemove, ForceRemove, CreateReplacement, StopReplaced, RemoveReplaced,
                  RenameReplacement, CreateReplica
    <3>2. Regular
      BY <3>1 DEF Progress, Regular
    <3> QED  BY <1>0, <2>2, <3>2, StopToRemoveBooks, ForceRemoveBooks, CreateReplacementBooks,
                StopReplacedBooks, RemoveReplacedBooks, RenameReplacementBooks, CreateReplicaBooks
  <2> QED  BY <1>6, <2>1, <2>2 DEF Goroutine, EngineRefuses, ContextCancelled
<1>7. ASSUME NEW id \in IDs, RemovedByOthers(id)
      PROVE  Books'
  BY <1>7 DEF RemovedByOthers, Regular
<1>8. ASSUME NEW id \in IDs, PausedByOthers(id)
      PROVE  Books'
  <2>1. Regular
    BY <1>8 DEF PausedByOthers, command, Regular
  <2>2. IDs' = IDs /\ \A i \in IDs : containers'[i].name = containers[i].name
    BY <1>8, StateOK DEF PausedByOthers, States, Typed
  <2>3. UNCHANGED <<rest, updated, observed, tasks>>
    BY <1>8 DEF PausedByOthers, command
  <2> QED  BY <1>0, <2>1, <2>2, <2>3, SameBooks
<1> QED  BY <1>1, <1>2, <1>3, <1>4, <1>5, <1>6, <1>7, <1>8 DEF Next

----------------------------------------------------------------------------
(* Without faults nothing is refused.                                      *)
LEMMA NothingRefused ==
  ASSUME Typed, Apart, Accounted, Calm, NEW t \in tasks
  PROVE  ~Refused(t) /\ Books
<1>1. phase \in {"loop", "wait"}
  BY DEF Calm, Typed, ScalarsOK
<1>2. Books
  BY <1>1 DEF Calm, Accounted, Books, Regular
<1>3. t.kind \in {"remove", "recreate", "create"}
  BY KindOf DEF Calm, Unpaused, Typed
<1>4. CASE t.kind = "create"
  <2>1. \A id \in IDs : containers[id].name # Name(t.number)
    BY <1>4, NameOK DEF Calm, NewNumbersFree, Typed, ContainersOK
  <2> QED  BY <1>2, <1>4, <2>1 DEF Refused, NameTaken
<1>5. CASE t.kind = "recreate" /\ t.at = "create"
  <2>1. \A id \in IDs : containers[id].name # TmpNameOf(t)
    <3> SUFFICES ASSUME NEW id \in IDs, containers[id].name = TmpNameOf(t) PROVE FALSE
      OBVIOUS
    <3>1. containers[id].name.replaces # 0
      BY <1>5, TmpNameOK DEF Typed, ContainersOK
    <3>2. PICK u \in tasks : Replacing(u) /\ containers[id].name = TmpNameOf(u)
      BY <3>1 DEF Calm, TemporaryNamesUsed
    <3>3. u = t
      BY <1>5, <3>2, TmpNamesDiffer DEF Replacing
    <3> QED  BY <1>5, <3>2, <3>3 DEF Replacing
  <2> QED  BY <1>2, <1>5, <2>1 DEF Refused, NameTaken
<1>6. CASE t.kind = "recreate" /\ t.at = "rename"
  <2>1. Replacements(t) # {}
    BY <1>2, <1>6 DEF Books, ReplacementsThere, Replacing, Replacements
  <2>2. \A id \in IDs : containers[id].name # Name(t.number)
    <3> SUFFICES ASSUME NEW id \in IDs, containers[id].name = Name(t.number) PROVE FALSE
      OBVIOUS
    <3>1. containers[id].number = t.number /\ containers[id].name.replaces = 0
      BY NameOK DEF Typed, ContainersOK
    <3>2. t.id \in Observed /\ t.number = observed[t.id].number /\ Busy(t.id)
      BY <1>6 DEF Typed, TasksOK, Busy
    <3>3. id # t.id
      BY <1>6 DEF Calm, ReplacedGone
    <3>4. PICK u \in tasks : u.id = t.id /\ Replacing(u) /\ containers[id].name = TmpNameOf(u)
      BY <3>1, <3>2, <3>3 DEF Calm, SuccessorsOnly
    <3>5. containers[id].name.replaces = u.id /\ u.id \in 1..(nextID - 1)
      BY <3>4, TmpNameOK DEF Replacing
    <3> QED  BY <3>1, <3>5
  <2> QED  BY <1>2, <1>6, <2>1, <2>2 DEF Refused, NameTaken
<1>7. CASE t.kind = "recreate" /\ t.at \in {"stop", "remove"}
  BY <1>2, <1>7 DEF Refused, Books, TargetsThere, Replaced
<1>8. CASE t.kind = "remove"
  BY <1>2, <1>8 DEF Refused
<1>9. t.kind = "recreate" => t.at \in {"create", "stop", "remove", "rename"}
  BY KindOf DEF Typed
<1> QED  BY <1>3, <1>4, <1>5, <1>6, <1>7, <1>8, <1>9

(* A goroutine that goes on while containers keep their names and numbers. *)
LEMMA CalmGoes ==
  ASSUME Calm, NEW t \in tasks, NEW u, tasks' = (tasks \ {t}) \cup {u},
         u.kind = t.kind, u.id = t.id, u.at # "rename", t.kind # "create", TmpNameOf(u) = TmpNameOf(t),
         Replacing(t) => Replacing(u),
         IDs' = IDs,
         \A id \in IDs : /\ containers'[id].name = containers[id].name
                         /\ containers'[id].number = containers[id].number
                         /\ containers'[id].state # "paused",
         UNCHANGED <<rest, observed, phase, cancelled, lost>>
  PROVE  Calm'
<1>1. Unpaused'
  BY DEF Calm, Unpaused, Observed
<1>2. ReplacedGone'
  BY DEF Calm, ReplacedGone
<1>3. NumbersDiffer'
  BY DEF Calm, NumbersDiffer, Observed
<1>4. NewNumbersFree'
  BY DEF Calm, NewNumbersFree, Observed
<1>5. \A v \in tasks : Replacing(v) =>
        \E w \in tasks' : w.id = v.id /\ Replacing(w) /\ TmpNameOf(w) = TmpNameOf(v)
  OBVIOUS
<1>6. TemporaryNamesUsed'
  BY <1>5 DEF Calm, TemporaryNamesUsed
<1>7. SuccessorsOnly'
  <2>1. \A old \in Observed : Busy(old)' => Busy(old)
    BY DEF Busy
  <2> QED  BY <1>5, <2>1 DEF Calm, SuccessorsOnly, Observed
<1> QED  BY <1>1, <1>2, <1>3, <1>4, <1>6, <1>7 DEF Calm

LEMMA StopToRemoveCalm ==
  ASSUME Typed, Apart, Books, Calm, NEW t \in tasks, StopToRemove(t)
  PROVE  Calm'
<1>1. t.id \in IDs
  BY DEF Books, TargetsThere, StopToRemove
<1>2. Goes(t, "remove") /\ Becomes(t.id, [containers[t.id] EXCEPT !.state = "exited"])
  BY <1>1 DEF StopToRemove
<1>3. ContainersOK /\ TasksOK /\ t.kind # "create" /\ [t EXCEPT !.at = "remove"] \in Tasks
  BY KindOf DEF StopToRemove, Tasks, Removals, Typed
<1> DEFINE u == [t EXCEPT !.at = "remove"]
<1>4. UNCHANGED <<rest, observed, phase, cancelled, lost>>
  BY DEF StopToRemove, Progress
<1>5. /\ tasks' = (tasks \ {t}) \cup {u} /\ u.kind = t.kind /\ u.id = t.id /\ u.number = t.number
      /\ u.at = "remove"
  BY <1>2, <1>3, <1>4, GoesOK
<1>6. IDs' = IDs /\ \A id \in IDs : /\ containers'[id].name = containers[id].name
                                    /\ containers'[id].number = containers[id].number
                                    /\ containers'[id].state \in {containers[id].state, "exited"}
  BY <1>1, <1>2, <1>3, StateOK DEF StopToRemove, States
<1>7. TmpNameOf(u) = TmpNameOf(t) /\ (Replacing(t) => Replacing(u)) /\ u.at # "rename"
  BY <1>5 DEF TmpNameOf, Replacing, StopToRemove
<1>8. \A id \in IDs : containers'[id].state # "paused"
  BY <1>6 DEF Calm, Unpaused
<1> HIDE DEF u
<1> QED  BY <1>3, <1>4, <1>5, <1>6, <1>7, <1>8, CalmGoes

LEMMA StopReplacedCalm ==
  ASSUME Typed, Apart, Books, Calm, NEW t \in tasks, StopReplaced(t)
  PROVE  Calm'
<1>1. t.id \in IDs
  BY DEF StopReplaced
<1>2. Goes(t, "remove") /\ Becomes(t.id, [containers[t.id] EXCEPT !.state = "exited"])
  BY DEF StopReplaced
<1>3. ContainersOK /\ TasksOK /\ t.kind # "create" /\ [t EXCEPT !.at = "remove"] \in Tasks
  BY KindOf DEF StopReplaced, Tasks, Recreations, Typed
<1> DEFINE u == [t EXCEPT !.at = "remove"]
<1>4. UNCHANGED <<rest, observed, phase, cancelled, lost>>
  BY DEF StopReplaced, Progress
<1>5. /\ tasks' = (tasks \ {t}) \cup {u} /\ u.kind = t.kind /\ u.id = t.id /\ u.number = t.number
      /\ u.at = "remove"
  BY <1>2, <1>3, <1>4, GoesOK
<1>6. IDs' = IDs /\ \A id \in IDs : /\ containers'[id].name = containers[id].name
                                    /\ containers'[id].number = containers[id].number
                                    /\ containers'[id].state \in {containers[id].state, "exited"}
  BY <1>1, <1>2, <1>3, StateOK DEF StopReplaced, States
<1>7. TmpNameOf(u) = TmpNameOf(t) /\ (Replacing(t) => Replacing(u)) /\ u.at # "rename"
  BY <1>5 DEF TmpNameOf, Replacing, StopReplaced
<1>8. \A id \in IDs : containers'[id].state # "paused"
  BY <1>6 DEF Calm, Unpaused
<1> HIDE DEF u
<1> QED  BY <1>3, <1>4, <1>5, <1>6, <1>7, <1>8, CalmGoes

(* Containers go while goroutines stay what they are.                      *)
LEMMA CalmGone ==
  ASSUME Calm, IDs' \subseteq IDs, \A i \in IDs' : containers'[i] = containers[i],
         \A v \in tasks' : \E w \in tasks : w.kind = v.kind /\ w.id = v.id /\ w.number = v.number,
         \A v \in tasks : Replacing(v) =>
           \E w \in tasks' : w.id = v.id /\ Replacing(w) /\ TmpNameOf(w) = TmpNameOf(v),
         ReplacedGone', UNCHANGED <<rest, observed, phase, cancelled, lost>>
  PROVE  Calm'
<1>1. Unpaused'
  BY DEF Calm, Unpaused, Observed
<1>2. NumbersDiffer'
  BY DEF Calm, NumbersDiffer, Observed
<1>3. NewNumbersFree'
  BY DEF Calm, NewNumbersFree, Observed
<1>4. TemporaryNamesUsed'
  BY DEF Calm, TemporaryNamesUsed
<1>5. SuccessorsOnly'
  <2>1. \A old \in Observed : Busy(old)' => Busy(old)
    BY DEF Busy
  <2> QED  BY <2>1 DEF Calm, SuccessorsOnly, Observed
<1> QED  BY <1>1, <1>2, <1>3, <1>4, <1>5 DEF Calm

LEMMA ForceRemoveCalm ==
  ASSUME Typed, Calm, NEW t \in tasks, ForceRemove(t)
  PROVE  Calm'
<1>1. IDs' = IDs \ {t.id} /\ \A i \in IDs' : containers'[i] = containers[i]
  BY GoneOK DEF ForceRemove, Typed
<1>2. tasks' = tasks \ {t} /\ t.kind = "remove" /\ UNCHANGED <<rest, observed, phase, cancelled, lost>>
  BY DEF ForceRemove, Progress, Ends
<1>3. ReplacedGone'
  BY <1>1, <1>2 DEF Calm, ReplacedGone
<1>4. \A v \in tasks' : \E w \in tasks : w.kind = v.kind /\ w.id = v.id /\ w.number = v.number
  BY <1>2
<1>5. \A v \in tasks : Replacing(v) =>
        \E w \in tasks' : w.id = v.id /\ Replacing(w) /\ TmpNameOf(w) = TmpNameOf(v)
  BY <1>2 DEF Replacing
<1> QED  BY <1>1, <1>2, <1>3, <1>4, <1>5, CalmGone

LEMMA RemoveReplacedCalm ==
  ASSUME Typed, Apart, Calm, NEW t \in tasks, RemoveReplaced(t)
  PROVE  Calm'
<1>1. IDs' = IDs \ {t.id} /\ \A i \in IDs' : containers'[i] = containers[i]
  BY GoneOK DEF RemoveReplaced, Typed
<1>2. UNCHANGED <<rest, observed, phase, cancelled, lost>> /\ t.kind = "recreate" /\ t.at = "remove"
  BY DEF RemoveReplaced, Progress
<1> DEFINE u == [t EXCEPT !.at = "rename"]
<1>3. tasks' = (tasks \ {t}) \cup {u} /\ u.kind = t.kind /\ u.id = t.id /\ u.number = t.number /\ u.at = "rename"
  <2>1. [t EXCEPT !.at = "rename"] \in Tasks /\ TasksOK
    BY KindOf DEF RemoveReplaced, Tasks, Recreations, Typed
  <2> QED  BY <1>2, <2>1, GoesOK DEF RemoveReplaced
<1> HIDE DEF u
<1>4. TmpNameOf(u) = TmpNameOf(t) /\ Replacing(u)
  BY <1>2, <1>3 DEF TmpNameOf, Replacing
<1>5. ReplacedGone'
  BY <1>1, <1>3 DEF Calm, ReplacedGone
<1>6. \A v \in tasks' : \E w \in tasks : w.kind = v.kind /\ w.id = v.id /\ w.number = v.number
  BY <1>3
<1>7. \A v \in tasks : Replacing(v) =>
        \E w \in tasks' : w.id = v.id /\ Replacing(w) /\ TmpNameOf(w) = TmpNameOf(v)
  BY <1>3, <1>4
<1> QED  BY <1>1, <1>2, <1>5, <1>6, <1>7, CalmGone

LEMMA CreateReplacementCalm ==
  ASSUME Typed, Apart, Calm, NEW t \in tasks, CreateReplacement(t)
  PROVE  Calm'
<1>1. /\ IDs' = IDs \cup {nextID} /\ nextID \notin IDs
      /\ \A i \in IDs : containers'[i] = containers[i]
      /\ containers'[nextID].name = TmpNameOf(t) /\ containers'[nextID].number = t.number
      /\ containers'[nextID].state = "created"
  <2>1. Created(TmpNameOf(t), t.number) /\ ContainersOK
    BY DEF CreateReplacement, Typed
  <2>2. /\ IDs' = IDs \cup {nextID} /\ nextID \notin IDs
        /\ containers'[nextID] =
             [name |-> TmpNameOf(t), number |-> t.number, config |-> want.config, state |-> "created"]
        /\ \A i \in IDs : containers'[i] = containers[i]
    BY <2>1, CreatedEffect
  <2> QED  BY <2>2
<1>2. UNCHANGED <<rest, observed, phase, cancelled, lost>> /\ t.kind = "recreate" /\ t.at = "create"
  BY DEF CreateReplacement, Progress
<1> DEFINE u == [t EXCEPT !.at = "stop"]
<1>3. tasks' = (tasks \ {t}) \cup {u} /\ u.kind = t.kind /\ u.id = t.id /\ u.number = t.number /\ u.at = "stop"
  <2>1. [t EXCEPT !.at = "stop"] \in Tasks /\ TasksOK
    BY KindOf DEF CreateReplacement, Tasks, Recreations, Typed
  <2> QED  BY <1>2, <2>1, GoesOK DEF CreateReplacement
<1> HIDE DEF u
<1>4. TmpNameOf(u) = TmpNameOf(t) /\ Replacing(u) /\ ~Replacing(t)
  BY <1>2, <1>3 DEF TmpNameOf, Replacing
<1>5. /\ t.id \in Observed /\ t.number = observed[t.id].number
      /\ \A v \in tasks : v.kind = "create" => v.number # t.number
      /\ \A v \in tasks : v.kind # "create" => v.id # nextID
      /\ Observed' = Observed
  BY <1>2 DEF Typed, TasksOK, ListOK, ContainersOK, Observed
<1>6. Unpaused'
  BY <1>1, <1>2, <1>3 DEF Calm, Unpaused, Observed
<1>7. ReplacedGone'
  BY <1>1, <1>2, <1>3, <1>5 DEF Calm, ReplacedGone
<1>8. NumbersDiffer'
  BY <1>2, <1>5 DEF Calm, NumbersDiffer
<1>9. NewNumbersFree'
  <2>1. \A v \in tasks' : v.kind = "create" => v \in tasks
    BY <1>2, <1>3
  <2>2. \A v \in tasks' : v.kind = "create" => \A id \in IDs' : containers'[id].number # v.number
    BY <1>1, <1>5, <2>1 DEF Calm, NewNumbersFree
  <2>3. phase = "loop" => \A id \in IDs' : \E old \in Observed : containers'[id].number = observed[old].number
    BY <1>1, <1>5 DEF Calm, NewNumbersFree
  <2> QED  BY <1>2, <1>5, <2>1, <2>2, <2>3 DEF Calm, NewNumbersFree
<1>10. \A v \in tasks : Replacing(v) => v \in tasks'
  BY <1>3, <1>4
<1>11. u \in tasks'
  BY <1>3
<1>12. TemporaryNamesUsed'
  BY <1>1, <1>4, <1>10, <1>11 DEF Calm, TemporaryNamesUsed
<1>13. SuccessorsOnly'
  <2> SUFFICES ASSUME NEW id \in IDs', NEW old \in Observed, Busy(old)',
                      containers'[id].number = observed[old].number, id # old
               PROVE  \E v \in tasks' : v.id = old /\ Replacing(v) /\ containers'[id].name = TmpNameOf(v)
    BY <1>2, <1>5 DEF SuccessorsOnly
  <2>1. CASE id = nextID
    <3>1. old = t.id
      BY <1>1, <1>5, <2>1 DEF Calm, NumbersDiffer
    <3> QED  BY <1>1, <1>3, <1>4, <1>11, <2>1, <3>1
  <2>2. CASE id \in IDs
    <3>1. Busy(old)
      BY <1>2, <1>3 DEF Busy
    <3>2. PICK v \in tasks : v.id = old /\ Replacing(v) /\ containers[id].name = TmpNameOf(v)
      BY <1>1, <2>2, <3>1 DEF Calm, SuccessorsOnly
    <3> QED  BY <1>1, <1>10, <2>2, <3>2
  <2> QED  BY <1>1, <2>1, <2>2
<1> QED  BY <1>2, <1>6, <1>7, <1>8, <1>9, <1>12, <1>13 DEF Calm

LEMMA RenameReplacementCalm ==
  ASSUME Typed, Apart, Calm, NEW t \in tasks, RenameReplacement(t)
  PROVE  Calm'
<1>1. PICK new \in IDs :
        /\ containers[new].name = TmpNameOf(t) /\ containers[new].number = t.number /\ IDs' = IDs
        /\ containers'[new].name = Name(t.number)
        /\ \A i \in IDs : containers'[i].number = containers[i].number
        /\ \A i \in IDs : containers'[i].state = containers[i].state
        /\ \A i \in IDs \ {new} : containers'[i] = containers[i]
  BY RenameEffect
<1>2. /\ UNCHANGED <<rest, observed, phase, cancelled, lost>> /\ Observed' = Observed
      /\ tasks' = tasks \ {t} /\ t.kind = "recreate"
  BY DEF RenameReplacement, Progress, Ends, Observed
<1>3. /\ t.id \in Observed /\ t.number = observed[t.id].number
      /\ t.id \notin rest /\ \A v \in tasks' : v.kind # "create" => v.id # t.id
  BY <1>2 DEF Typed, TasksOK, Apart, OneTaskEach, NotInRest
<1>4. Unpaused'
  BY <1>1, <1>2 DEF Calm, Unpaused
<1>5. ReplacedGone'
  BY <1>1, <1>2 DEF Calm, ReplacedGone
<1>6. NumbersDiffer'
  BY <1>2 DEF Calm, NumbersDiffer
<1>7. NewNumbersFree'
  BY <1>1, <1>2 DEF Calm, NewNumbersFree
<1>8. TemporaryNamesUsed'
  <2> SUFFICES ASSUME NEW id \in IDs, containers'[id].name.replaces # 0
               PROVE  \E v \in tasks' : Replacing(v) /\ containers'[id].name = TmpNameOf(v)
    BY <1>1 DEF TemporaryNamesUsed
  <2>1. id # new
    BY <1>1, NameOK
  <2>2. PICK v \in tasks : Replacing(v) /\ containers[id].name = TmpNameOf(v)
    BY <1>1, <2>1 DEF Calm, TemporaryNamesUsed
  <2>3. v # t
    BY <1>1, <2>1, <2>2 DEF Typed, ContainersOK
  <2> QED  BY <1>1, <1>2, <2>1, <2>2, <2>3
<1>9. SuccessorsOnly'
  <2> SUFFICES ASSUME NEW id \in IDs, NEW old \in Observed, Busy(old)',
                      containers[id].number = observed[old].number, id # old
               PROVE  \E v \in tasks' : v.id = old /\ Replacing(v) /\ containers'[id].name = TmpNameOf(v)
    BY <1>1, <1>2 DEF SuccessorsOnly
  <2>1. Busy(old) /\ old # t.id
    BY <1>2, <1>3 DEF Busy
  <2>2. id # new
    BY <1>1, <1>3, <2>1 DEF Calm, NumbersDiffer
  <2>3. PICK v \in tasks : v.id = old /\ Replacing(v) /\ containers[id].name = TmpNameOf(v)
    BY <2>1 DEF Calm, SuccessorsOnly
  <2> QED  BY <1>1, <1>2, <2>1, <2>2, <2>3
<1> QED  BY <1>2, <1>4, <1>5, <1>6, <1>7, <1>8, <1>9 DEF Calm

LEMMA CreateReplicaCalm ==
  ASSUME Typed, Apart, Calm, NEW t \in tasks, CreateReplica(t)
  PROVE  Calm'
<1>1. /\ IDs' = IDs \cup {nextID} /\ nextID \notin IDs
      /\ \A i \in IDs : containers'[i] = containers[i]
      /\ containers'[nextID].name = Name(t.number) /\ containers'[nextID].number = t.number
      /\ containers'[nextID].state = "created"
  <2>1. Created(Name(t.number), t.number) /\ ContainersOK
    BY DEF CreateReplica, Typed
  <2>2. /\ IDs' = IDs \cup {nextID} /\ nextID \notin IDs
        /\ containers'[nextID] =
             [name |-> Name(t.number), number |-> t.number, config |-> want.config, state |-> "created"]
        /\ \A i \in IDs : containers'[i] = containers[i]
    BY <2>1, CreatedEffect
  <2> QED  BY <2>2
<1>2. /\ UNCHANGED <<rest, observed, phase, cancelled, lost>> /\ Observed' = Observed
      /\ tasks' = tasks \ {t} /\ t.kind = "create" /\ ~Replacing(t) /\ phase # "loop"
  BY DEF CreateReplica, Progress, Ends, Observed, Replacing, Calm, NewNumbersFree
<1>3. /\ \A old \in Observed : observed[old].number # t.number
      /\ \A v \in tasks : v.kind # "create" => v.id # nextID
      /\ \A v \in tasks' : v.kind = "create" => v.number # t.number
  <2>1. \A old \in Observed : observed[old].number # t.number
    BY <1>2 DEF Typed, TasksOK
  <2>2. \A v \in tasks : v.kind # "create" => v.id # nextID
    BY DEF Typed, TasksOK, ListOK, ContainersOK
  <2>3. \A v \in tasks : v.kind = "create" => v \in Creations
    BY KindOf DEF Typed
  <2>4. \A v \in tasks' : v.kind = "create" => v.number # t.number
    BY <1>2, <2>3 DEF Creations
  <2> QED  BY <2>1, <2>2, <2>4
<1>4. Unpaused'
  BY <1>1, <1>2 DEF Calm, Unpaused
<1>5. ReplacedGone'
  BY <1>1, <1>2, <1>3 DEF Calm, ReplacedGone
<1>6. NumbersDiffer'
  BY <1>2 DEF Calm, NumbersDiffer
<1>7. NewNumbersFree'
  BY <1>1, <1>2, <1>3 DEF Calm, NewNumbersFree
<1>8. TemporaryNamesUsed'
  BY <1>1, <1>2, NameOK DEF Calm, TemporaryNamesUsed
<1>9. SuccessorsOnly'
  <2>1. \A old \in Observed : Busy(old)' => Busy(old)
    BY <1>2 DEF Busy
  <2> QED  BY <1>1, <1>2, <1>3, <2>1 DEF Calm, SuccessorsOnly
<1> QED  BY <1>2, <1>4, <1>5, <1>6, <1>7, <1>8, <1>9 DEF Calm

LEMMA LoopCalm ==
  ASSUME Typed, Apart, Calm, NEW id \in rest, LoopRemoves(id) \/ LoopRecreates(id) \/ LoopKeeps(id)
  PROVE  Calm'
<1>1. /\ IDs' = IDs /\ Observed' = Observed /\ phase = "loop"
      /\ UNCHANGED <<containers, observed, phase, cancelled, lost>>
  BY LoopRemovesTyped, LoopRecreatesTyped, LoopKeepsTyped
  DEF LoopRemoves, LoopRecreates, LoopKeeps, LoopStep, Observed
<1>2. rest' = rest \ {id} /\ id \in Observed /\ tasks \subseteq tasks'
  BY DEF LoopRemoves, LoopRecreates, LoopKeeps, LoopStep, Typed, ListOK
<1>3. observed[id].state # "paused"
  BY <1>2 DEF Calm, Unpaused
<1>4. \A v \in tasks' \ tasks :
        v.id = id /\ v.kind \in {"remove", "recreate"} /\ v.at # "rename"
  BY <1>3 DEF LoopRemoves, LoopRecreates, LoopKeeps, Removal, Recreation
<1>5. Unpaused'
  BY <1>1, <1>4 DEF Calm, Unpaused
<1>6. ReplacedGone'
  BY <1>1, <1>4 DEF Calm, ReplacedGone
<1>7. NumbersDiffer'
  BY <1>1 DEF Calm, NumbersDiffer
<1>8. NewNumbersFree'
  BY <1>1, <1>4 DEF Calm, NewNumbersFree
<1>9. TemporaryNamesUsed'
  BY <1>1, <1>2 DEF Calm, TemporaryNamesUsed
<1>10. SuccessorsOnly'
  <2>1. \A old \in Observed : Busy(old)' => Busy(old)
    BY <1>2, <1>4 DEF Busy
  <2> QED  BY <1>1, <1>2, <2>1 DEF Calm, SuccessorsOnly
<1> QED  BY <1>1, <1>5, <1>6, <1>7, <1>8, <1>9, <1>10 DEF Calm

LEMMA ScaleUpCalm ==
  ASSUME Typed, Apart, Calm, ScaleUp
  PROVE  Calm'
<1>1. /\ IDs' = IDs /\ Observed' = Observed /\ phase = "loop" /\ phase' = "wait"
      /\ UNCHANGED <<containers, observed, rest, cancelled, lost>>
      /\ tasks' = tasks \cup Additions
  BY ScaleUpTyped DEF ScaleUp, engine, Observed
<1>2. \A v \in Additions : v.kind = "create" /\ v.number \notin {observed[old].number : old \in Observed}
  BY AdditionsOK DEF Typed, ScalarsOK
<1>3. Unpaused'
  BY <1>1, <1>2 DEF Calm, Unpaused
<1>4. ReplacedGone'
  BY <1>1, <1>2 DEF Calm, ReplacedGone
<1>5. NumbersDiffer'
  BY <1>1 DEF Calm, NumbersDiffer
<1>6. NewNumbersFree'
  <2>1. \A v \in Additions, id \in IDs : containers[id].number # v.number
    BY <1>1, <1>2 DEF Calm, NewNumbersFree
  <2>2. \A v \in tasks : v.kind # "create"
    BY <1>1 DEF Calm, NewNumbersFree
  <2> QED  BY <1>1, <2>1, <2>2 DEF NewNumbersFree
<1>7. TemporaryNamesUsed'
  BY <1>1 DEF Calm, TemporaryNamesUsed
<1>8. SuccessorsOnly'
  <2>1. \A old \in Observed : Busy(old)' => Busy(old)
    BY <1>1, <1>2 DEF Busy
  <2> QED  BY <1>1, <2>1 DEF Calm, SuccessorsOnly
<1> QED  BY <1>1, <1>3, <1>4, <1>5, <1>6, <1>7, <1>8 DEF Calm

LEMMA BeginCalm ==
  ASSUME Typed, Calm, Begin
  PROVE  Calm'
<1>1. tasks = {}
  BY DEF Begin, Calm, Typed, ScalarsOK
<1>2. /\ IDs' = IDs /\ Observed' = IDs /\ observed' = containers /\ UNCHANGED containers
      /\ tasks' = {} /\ cancelled' = FALSE /\ lost' = {} /\ phase' = "loop"
  BY BeginTyped DEF Begin, Observed, IDs
<1>3. \A id \in IDs : containers[id].name.replaces = 0
  BY <1>1 DEF Calm, TemporaryNamesUsed
<1>4. \A id, other \in IDs : containers[id].number = containers[other].number => id = other
  <2> SUFFICES ASSUME NEW id \in IDs, NEW other \in IDs,
                      containers[id].number = containers[other].number
               PROVE  id = other
    OBVIOUS
  <2>1. containers[id].name \in Names /\ containers[other].name \in Names
    BY DEF Typed, ContainersOK, Containers
  <2>2. containers[id].name.number = containers[other].name.number
    BY DEF Typed, ContainersOK
  <2>3. containers[id].name.replaces = containers[other].name.replaces
    BY <1>3
  <2>4. containers[id].name = containers[other].name
    BY <2>1, <2>2, <2>3 DEF Names
  <2> QED  BY <2>4 DEF Typed, ContainersOK
<1>5. Unpaused'
  BY <1>2 DEF Calm, Unpaused
<1>6. ReplacedGone'
  BY <1>2 DEF ReplacedGone
<1>7. NumbersDiffer'
  BY <1>2, <1>4 DEF NumbersDiffer
<1>8. NewNumbersFree'
  BY <1>2 DEF NewNumbersFree
<1>9. TemporaryNamesUsed'
  BY <1>2, <1>3 DEF TemporaryNamesUsed
<1>10. SuccessorsOnly'
  BY <1>2, <1>4 DEF SuccessorsOnly
<1> QED  BY <1>2, <1>5, <1>6, <1>7, <1>8, <1>9, <1>10 DEF Calm

LEMMA WaitReturnsCalm ==
  ASSUME Typed, Calm, WaitReturns
  PROVE  Calm'
<1>1. /\ IDs' = IDs /\ Observed' = Observed /\ phase' = "ok"
      /\ UNCHANGED <<containers, observed, rest, tasks, cancelled, lost>>
  BY WaitReturnsTyped DEF WaitReturns, engine, Observed, Calm
<1>2. Unpaused' /\ ReplacedGone' /\ NumbersDiffer'
  BY <1>1 DEF Calm, Unpaused, ReplacedGone, NumbersDiffer
<1>3. NewNumbersFree'
  BY <1>1 DEF Calm, NewNumbersFree
<1>4. TemporaryNamesUsed'
  BY <1>1 DEF Calm, TemporaryNamesUsed
<1>5. SuccessorsOnly'
  <2>1. \A old \in Observed : Busy(old)' => Busy(old)
    BY <1>1 DEF Busy
  <2> QED  BY <1>1, <2>1 DEF Calm, SuccessorsOnly
<1> QED  BY <1>1, <1>2, <1>3, <1>4, <1>5 DEF Calm

LEMMA SmoothStep ==
  ASSUME Typed, Typed', Apart, Accounted, Smooth, Next
  PROVE  Smooth'
<1> SUFFICES ASSUME faults' = 0 PROVE Calm'
  BY DEF Smooth
<1>0. faults \in Nat /\ (faults = 0 => Calm)
  BY BoundsAssumption DEF Smooth, Typed, ScalarsOK
<1>1. CASE Begin
  BY <1>0, <1>1, BeginCalm DEF Begin
<1>2. CASE ScaleUp
  BY <1>0, <1>2, ScaleUpCalm DEF ScaleUp
<1>3. CASE WaitReturns
  BY <1>0, <1>3, WaitReturnsCalm DEF WaitReturns
<1>4. CASE Killed
  BY <1>0, <1>4 DEF Killed
<1>5. ASSUME NEW id \in rest, LoopRemoves(id) \/ LoopRecreates(id) \/ LoopKeeps(id) \/ LoopReturnsEarly(id)
      PROVE  Calm'
  <2>1. CASE LoopReturnsEarly(id)
    BY <1>0, <2>1 DEF LoopReturnsEarly
  <2>2. CASE LoopRemoves(id) \/ LoopRecreates(id) \/ LoopKeeps(id)
    <3>1. faults = 0
      BY <2>2 DEF LoopRemoves, LoopRecreates, LoopKeeps, LoopStep
    <3> QED  BY <1>0, <2>2, <3>1, LoopCalm
  <2> QED  BY <1>5, <2>1, <2>2
<1>6. ASSUME NEW t \in tasks, Goroutine(t)
      PROVE  Calm'
  <2>1. CASE EngineFails(t)
    BY <1>0, <2>1 DEF EngineFails
  <2>2. CASE Fails(t) /\ (Refused(t) \/ cancelled)
    <3>1. faults = 0
      BY <2>2 DEF Fails
    <3>2. ~Refused(t) /\ ~cancelled
      BY <1>0, <3>1, NothingRefused DEF Calm
    <3> QED  BY <2>2, <3>2
  <2>3. CASE \/ StopToRemove(t) \/ ForceRemove(t) \/ CreateReplacement(t) \/ StopReplaced(t)
             \/ RemoveReplaced(t) \/ RenameReplacement(t) \/ CreateReplica(t)
    <3>1. Progress
      BY <2>3 DEF StopToRemove, ForceRemove, CreateReplacement, StopReplaced, RemoveReplaced,
                  RenameReplacement, CreateReplica
    <3>2. faults = 0
      BY <3>1 DEF Progress
    <3>3. Calm /\ Books
      BY <1>0, <3>2, NothingRefused
    <3> QED  BY <2>3, <3>3, StopToRemoveCalm, ForceRemoveCalm, CreateReplacementCalm,
                StopReplacedCalm, RemoveReplacedCalm, RenameReplacementCalm, CreateReplicaCalm
  <2> QED  BY <1>6, <2>1, <2>2, <2>3 DEF Goroutine, EngineRefuses, ContextCancelled
<1>7. ASSUME NEW id \in IDs, RemovedByOthers(id) \/ PausedByOthers(id)
      PROVE  Calm'
  BY <1>0, <1>7 DEF RemovedByOthers, PausedByOthers
<1> QED  BY <1>1, <1>2, <1>3, <1>4, <1>5, <1>6, <1>7 DEF Next

----------------------------------------------------------------------------
(* The invariant.                                                          *)
LEMMA TypedStep ==
  ASSUME Typed, Next
  PROVE  Typed'
<1>1. ASSUME NEW id \in rest, LoopRemoves(id) \/ LoopRecreates(id) \/ LoopKeeps(id) \/ LoopReturnsEarly(id)
      PROVE  Typed'
  BY <1>1, LoopRemovesTyped, LoopRecreatesTyped, LoopKeepsTyped, LoopReturnsEarlyTyped
<1>2. ASSUME NEW t \in tasks, Goroutine(t)
      PROVE  Typed'
  BY <1>2, StopToRemoveTyped, ForceRemoveTyped, CreateReplacementTyped, StopReplacedTyped,
     RemoveReplacedTyped, RenameReplacementTyped, CreateReplicaTyped, FailsTyped, EngineFailsTyped
  DEF Goroutine, EngineRefuses, ContextCancelled
<1>3. ASSUME NEW id \in IDs, RemovedByOthers(id) \/ PausedByOthers(id)
      PROVE  Typed'
  BY <1>3, RemovedByOthersTyped, PausedByOthersTyped
<1> QED  BY <1>1, <1>2, <1>3, BeginTyped, ScaleUpTyped, WaitReturnsTyped, KilledTyped DEF Next

LEMMA CountedStep ==
  ASSUME Typed, Typed', commands > 0 => Counted, Next
  PROVE  commands' > 0 => Counted'
<1>0. commands = 0 => tasks = {} /\ rest = {} /\ phase = "idle" /\ IDs = {}
  BY DEF Typed, ScalarsOK
<1>a. commands \in Nat
  BY BoundsAssumption DEF Typed, ScalarsOK
<1>1. CASE Begin
  BY <1>1, BeginCounted
<1>2. CASE ScaleUp
  BY <1>0, <1>a, <1>2, ScaleUpCounted DEF ScaleUp
<1>3. CASE WaitReturns \/ Killed
  <2>1. /\ UNCHANGED <<observed, want, rest, lost>> /\ tasks' \subseteq tasks /\ IDs' = IDs
        /\ commands > 0
    BY <1>0, <1>a, <1>3, WaitReturnsTyped, KilledTyped DEF WaitReturns, Killed
  <2> QED  BY <2>1, CountedStutters
<1>4. ASSUME NEW id \in rest, LoopRemoves(id) \/ LoopRecreates(id) \/ LoopKeeps(id) \/ LoopReturnsEarly(id)
      PROVE  Counted'
  <2>1. Counted
    BY <1>0, <1>a
  <2>2. CASE LoopReturnsEarly(id)
    <3>1. UNCHANGED <<observed, want, rest, lost>> /\ tasks' \subseteq tasks /\ IDs' = IDs
      BY <2>2, LoopReturnsEarlyTyped DEF LoopReturnsEarly
    <3> QED  BY <2>1, <3>1, CountedStutters
  <2> QED  BY <1>4, <2>1, <2>2, LoopRemovesCounted, LoopRecreatesCounted, LoopKeepsCounted
<1>5. ASSUME NEW t \in tasks, Goroutine(t)
      PROVE  Counted'
  <2>1. Counted
    BY <1>0, <1>a
  <2> QED  BY <1>5, <2>1, StopToRemoveCounted, ForceRemoveCounted, CreateReplacementCounted,
              StopReplacedCounted, RemoveReplacedCounted, RenameReplacementCounted,
              CreateReplicaCounted, FailsCounted, EngineFailsCounted
           DEF Goroutine, EngineRefuses, ContextCancelled
<1>6. ASSUME NEW id \in IDs, RemovedByOthers(id)
      PROVE  Counted'
  BY <1>0, <1>a, <1>6, RemovedByOthersCounted
<1>7. ASSUME NEW id \in IDs, PausedByOthers(id)
      PROVE  Counted'
  <2>1. Counted
    BY <1>0, <1>a
  <2>2. UNCHANGED <<observed, want, rest, lost>> /\ tasks' \subseteq tasks /\ IDs' = IDs
    BY <1>7, PausedByOthersTyped DEF PausedByOthers, command
  <2> QED  BY <2>1, <2>2, CountedStutters
<1> QED  BY <1>1, <1>2, <1>3, <1>4, <1>5, <1>6, <1>7 DEF Next

LEMMA InitInv == Init => Inv
<1> SUFFICES ASSUME Init PROVE Inv
  OBVIOUS
<1>1. IDs = {} /\ Observed = {} /\ tasks = {} /\ rest = {}
  BY DEF Init, IDs, Observed
<1>2. ContainersOK
  BY <1>1, FS_EmptySet DEF Init, ContainersOK
<1>3. ListOK
  BY <1>1, FS_EmptySet DEF Init, ListOK
<1>4. TasksOK
  BY <1>1, FS_EmptySet DEF Init, TasksOK
<1>5. ScalarsOK
  <2>1. faultsBefore \in 0..faults /\ faults \in 0..Faults /\ commands \in 0..MaxCommands
    BY BoundsAssumption DEF Init
  <2>2. dependents \in {"running", "stopped"} /\ phase = "idle" /\ commands = 0 /\ faults = 0
    BY DEF Init
  <2>3. cancelled \in BOOLEAN /\ want \in Wants
    BY DEF Init, Wants
  <2> QED  BY <1>1, <2>1, <2>2, <2>3 DEF ScalarsOK
<1>6. Apart
  BY <1>1 DEF Apart, OneTaskEach, NotInRest
<1>7. Accounted
  BY DEF Init, Accounted, Regular
<1>8. Calm
  BY <1>1 DEF Init, Calm, Unpaused, ReplacedGone, NumbersDiffer, NewNumbersFree, TemporaryNamesUsed,
              SuccessorsOnly
<1> QED  BY <1>2, <1>3, <1>4, <1>5, <1>6, <1>7, <1>8 DEF Inv, Typed, Smooth, Init

LEMMA StepInv == Inv /\ [Next]_vars => Inv'
<1> SUFFICES ASSUME Inv, [Next]_vars PROVE Inv'
  OBVIOUS
<1>1. CASE Next
  BY <1>1, TypedStep, CountedStep, ApartStep, AccountedStep, SmoothStep DEF Inv
<1>2. CASE UNCHANGED vars
  <2>1. /\ IDs' = IDs /\ Observed' = Observed /\ Taking' = Taking /\ Kept' = Kept
        /\ UNCHANGED <<containers, nextID, dependents, faults, faultsBefore, commands, phase, want>>
        /\ UNCHANGED <<observed, rest, tasks, cancelled, updated, lost>>
    BY <1>2 DEF vars, engine, command, IDs, Observed, Taking, Kept, Index
  <2>2. Typed'
    BY <2>1 DEF Inv, Typed, ContainersOK, ListOK, TasksOK, ScalarsOK
  <2>3. (commands > 0 => Counted)'
    BY <2>1 DEF Inv, Counted
  <2>4. Apart'
    BY <2>1 DEF Inv, Apart, OneTaskEach, NotInRest
  <2>5. Accounted'
    <3>1. Regular' = Regular /\ \A id \in IDs : Pending(id)' = Pending(id)
      BY <2>1 DEF Regular, Pending
    <3> QED  BY <2>1, <3>1 DEF Inv, Accounted, ListedStays, AllAccounted, TargetsThere,
                               ReplacedNotUpdated, ReplacementsThere
  <2>6. Smooth'
    <3>1. \A old \in Observed : Busy(old)' <=> Busy(old)
      BY <2>1 DEF Busy
    <3>2. Calm => Calm'
      BY <2>1, <3>1 DEF Calm, Unpaused, ReplacedGone, NumbersDiffer, NewNumbersFree,
                        TemporaryNamesUsed, SuccessorsOnly
    <3> QED  BY <2>1, <3>2 DEF Inv, Smooth
  <2> QED  BY <2>2, <2>3, <2>4, <2>5, <2>6 DEF Inv
<1> QED  BY <1>1, <1>2

LEMMA Invariant == Spec => []Inv
BY InitInv, StepInv, PTL DEF Spec

----------------------------------------------------------------------------
(* ensureService never leaves fewer containers than it found, or than are  *)
(* wanted if these are less, whichever engine calls fail and wherever the  *)
(* command is killed.                                                      *)
THEOREM NeverFewerHolds == Spec => []NeverFewer
<1>1. Inv => NeverFewer
  <2> SUFFICES ASSUME Inv, commands > 0
               PROVE  Cardinality(IDs) + Cardinality(lost) >= Min({Cardinality(Observed), want.scale})
    BY DEF NeverFewer, Observed
  <2>1. Counted
    BY DEF Inv
  <2>2. /\ Cardinality(IDs) \in Nat /\ Cardinality(lost) \in Nat /\ Cardinality(Taking) \in Nat
        /\ Cardinality(Observed) \in Nat /\ Cardinality(rest) \in Nat
        /\ want.scale \in Nat
        /\ Index = Cardinality(Observed) - Cardinality(rest) /\ Index \in Nat /\ Kept \in Nat
    BY Cards DEF Inv
  <2>3. Min({Cardinality(Observed), want.scale}) =
          IF Cardinality(Observed) <= want.scale THEN Cardinality(Observed) ELSE want.scale
    BY <2>2, MinOfTwo
  <2>4. Kept + Cardinality(rest) >= Cardinality(Observed) \/ Kept + Cardinality(rest) >= want.scale
    BY <2>2 DEF Kept
  <2> QED  BY <2>1, <2>2, <2>3, <2>4 DEF Counted
<1> QED  BY <1>1, Invariant, PTL

LEMMA TypedTypeOK == Typed => TypeOK
<1> SUFFICES ASSUME Typed PROVE TypeOK
  OBVIOUS
<1>1. ASSUME NEW id \in IDs
      PROVE  /\ id \in 1..(nextID - 1)
             /\ containers[id].name \in {Name(containers[id].number)}
                  \cup {TmpName(old, containers[id].number) : old \in 1..(nextID - 1)}
             /\ containers[id].config \in Configs
             /\ containers[id].state \in {"created", "exited", "paused"}
  <2>1. containers[id] \in Containers /\ id \in 1..(nextID - 1)
    BY DEF Typed, ContainersOK
  <2>2. containers[id].name.number = containers[id].number /\ containers[id].name.replaces < nextID
    BY DEF Typed, ContainersOK
  <2>3. containers[id].name = TmpName(containers[id].name.replaces, containers[id].number)
    BY <2>1, <2>2 DEF Containers, Names, TmpName
  <2>4. containers[id].name.replaces \in 0..(nextID - 1)
    BY <2>1, <2>2 DEF Containers, Names, Typed, ContainersOK
  <2>5. TmpName(0, containers[id].number) = Name(containers[id].number)
    BY DEF TmpName, Name
  <2>6. containers[id].name.replaces = 0 \/ containers[id].name.replaces \in 1..(nextID - 1)
    BY <2>4
  <2> QED  BY <2>1, <2>3, <2>5, <2>6 DEF Containers, States
<1>2. \A id, other \in IDs : containers[id].name = containers[other].name => id = other
  BY DEF Typed, ContainersOK
<1>3. /\ dependents \in {"running", "stopped"}
      /\ faultsBefore \in 0..faults /\ faults \in 0..Faults /\ commands \in 0..MaxCommands
      /\ phase \in {"idle", "loop", "wait", "ok", "failed"}
      /\ want \in [config : Configs, scale : Scales, policy : Policies]
  BY DEF Typed, ScalarsOK, Wants
<1>4. rest \subseteq DOMAIN observed /\ updated \subseteq 1..(nextID - 1) /\ lost \subseteq 1..(nextID - 1)
  BY DEF Typed, ListOK, Observed
<1>5. \A t \in tasks : IF t.kind = "create" THEN t.number \notin {observed[id].number : id \in DOMAIN observed}
                                            ELSE t.id \in DOMAIN observed
  BY DEF Typed, TasksOK, Observed
<1> QED  BY <1>1, <1>2, <1>3, <1>4, <1>5 DEF TypeOK

(* Types; what ensureService passes on to dependents are the containers    *)
(* there are; without faults no command fails over names or removals of    *)
(* its own, and none leaves a temporary name.                              *)
THEOREM UndisturbedHolds == Spec => []Undisturbed
<1>1. Inv => Undisturbed
  <2> SUFFICES ASSUME Inv PROVE Undisturbed
    OBVIOUS
  <2>1. TypeOK
    BY TypedTypeOK DEF Inv
  <2>2. ObservedIsActual
    <3> SUFFICES ASSUME phase = "ok", lost = {} PROVE updated = IDs
      BY DEF ObservedIsActual
    <3>1. tasks = {} /\ rest = {} /\ ~cancelled
      BY DEF Inv, Typed, ScalarsOK
    <3>2. ListedStays /\ AllAccounted
      BY <3>1 DEF Inv, Accounted, Regular
    <3> QED  BY <3>1, <3>2 DEF ListedStays, AllAccounted, Pending
  <2>3. NoSpuriousFailure
    BY DEF Inv, Smooth, Calm, NoSpuriousFailure
  <2>4. NoTemporaryNames
    <3> SUFFICES ASSUME phase = "ok", faults = 0, NEW id \in IDs
                 PROVE  containers[id].name = Name(containers[id].number)
      BY DEF NoTemporaryNames
    <3>1. tasks = {}
      BY DEF Inv, Typed, ScalarsOK
    <3>2. containers[id].name.replaces = 0
      BY <3>1 DEF Inv, Smooth, Calm, TemporaryNamesUsed
    <3>3. containers[id].name \in Names /\ containers[id].name.number = containers[id].number
      BY DEF Inv, Typed, ContainersOK, Containers
    <3> QED  BY <3>2, <3>3 DEF Names, Name
  <2> QED  BY <2>1, <2>2, <2>3, <2>4 DEF Undisturbed
<1> QED  BY <1>1, Invariant, PTL

----------------------------------------------------------------------------
(* What a success means: the layers on top of Inv.  Containers keep their  *)
(* configuration, and new ones have the wanted one; the loop launches no   *)
(* creation, and recreates what must be; a container that must be          *)
(* recreated waits for its goroutine until one fails.                      *)
ConfigsKept ==
  /\ \A id \in IDs \cap Observed : containers[id].config = observed[id].config
  /\ \A id \in IDs \ Observed : containers[id].config = want.config

NamesAreOlder == \A id \in IDs : containers[id].name.replaces < id

NoEarlyCreations ==
  /\ phase = "loop" => \A t \in tasks : t.kind # "create"
  /\ phase = "loop" /\ rest = Observed => IDs \subseteq Observed

RecreatedMustBe == \A t \in tasks : t.kind = "recreate" => MustRecreate(t.id)

ObsoletePending ==
  phase \in {"loop", "wait", "ok"} /\ ~cancelled =>
    \A id \in IDs \cap Observed : MustRecreate(id) =>
      id \in rest \/ \E t \in tasks : t.id = id /\ (t.kind = "remove" \/ Replaced(t))

Facts ==
  /\ ConfigsKept /\ NamesAreOlder /\ NoEarlyCreations /\ RecreatedMustBe /\ ReplacedGone
  /\ ObsoletePending

(* Every wanted container is there or has a goroutine that makes it.       *)
Builders == {t \in tasks : t.kind \in {"recreate", "create"}}

Tally == Cardinality(updated) + Cardinality(Builders) = IF phase = "loop" THEN Kept ELSE want.scale

KeptFresh == \A id \in updated \cap Observed : ~MustRecreate(id)

Complete == Regular => Tally /\ KeptFresh

(* Each goroutine works on a container of the list; no creation in a loop  *)
(* with the whole list to go over.                                         *)
LEMMA GoroutineEffect ==
  ASSUME Typed, NEW t \in tasks, Goroutine(t)
  PROVE  /\ \A id \in IDs' \cap IDs : containers'[id].config = containers[id].config
         /\ \A id \in IDs' \cap IDs : \/ containers'[id].name = containers[id].name
                                      \/ containers'[id].name.replaces = 0
         /\ IDs' \subseteq IDs \cup {nextID}
         /\ nextID \in IDs' => /\ containers'[nextID].config = want.config
                               /\ containers'[nextID].name.replaces < nextID
                               /\ t.at = "create" /\ t.kind \in {"create", "recreate"}
         /\ nextID \notin IDs /\ nextID \notin Observed
         /\ UNCHANGED <<observed, rest, want, phase>>
         /\ \A v \in tasks' : \E w \in tasks : w.kind = v.kind /\ w.id = v.id /\ w.number = v.number
<1> USE DEF Typed
<1>1. nextID \notin IDs /\ nextID \notin Observed /\ nextID \in Nat \ {0}
  BY DEF ContainersOK, ListOK
<1>2. ASSUME NEW at, Goes(t, at), t.kind # "create", [t EXCEPT !.at = at] \in Tasks
      PROVE  \A v \in tasks' : \E w \in tasks : w.kind = v.kind /\ w.id = v.id /\ w.number = v.number
  <2>1. PICK u : /\ tasks' = (tasks \ {t}) \cup {u}
                 /\ u.kind = t.kind /\ u.id = t.id /\ u.number = t.number
    BY <1>2 DEF Goes, TasksOK, Tasks, Removals, Recreations, Starts, Creations
  <2> QED  BY <2>1
<1>3. ASSUME Ends(t)
      PROVE  \A v \in tasks' : \E w \in tasks : w.kind = v.kind /\ w.id = v.id /\ w.number = v.number
  BY <1>3 DEF Ends
<1>4. CASE Fails(t) \/ (EngineFails(t) /\ UNCHANGED <<containers, nextID>>)
  <2>1. IDs' = IDs /\ Ends(t) /\ UNCHANGED <<containers, observed, rest, want, phase>>
    BY <1>4 DEF Fails, EngineFails, engine, IDs
  <2> QED  BY <1>1, <1>3, <2>1
<1>5. ASSUME NEW name, Created(name, t.number), name.replaces < nextID, t.at = "create",
             t.kind \in {"create", "recreate"}, UNCHANGED <<observed, rest, want, phase>>
      PROVE  /\ \A id \in IDs' \cap IDs : containers'[id].config = containers[id].config
             /\ \A id \in IDs' \cap IDs : \/ containers'[id].name = containers[id].name
                                          \/ containers'[id].name.replaces = 0
             /\ IDs' \subseteq IDs \cup {nextID}
             /\ nextID \in IDs' => /\ containers'[nextID].config = want.config
                                   /\ containers'[nextID].name.replaces < nextID
                                   /\ t.at = "create" /\ t.kind \in {"create", "recreate"}
             /\ UNCHANGED <<observed, rest, want, phase>>
  <2>1. /\ IDs' = IDs \cup {nextID} /\ nextID \notin IDs
        /\ containers'[nextID] =
             [name |-> name, number |-> t.number, config |-> want.config, state |-> "created"]
        /\ \A i \in IDs : containers'[i] = containers[i]
    BY <1>5, CreatedEffect
  <2> QED  BY <1>5, <2>1
<1>6. CASE CreateReplacement(t)
  <2>1. TmpNameOf(t).replaces < nextID
    BY <1>6, <1>1, TmpNameOK, KindOf DEF CreateReplacement
  <2>2. [t EXCEPT !.at = "stop"] \in Tasks /\ t.kind # "create" /\ Goes(t, "stop")
    BY <1>6, KindOf DEF CreateReplacement, Tasks, Recreations
  <2>3. Created(TmpNameOf(t), t.number) /\ t.at = "create" /\ t.kind \in {"create", "recreate"}
        /\ UNCHANGED <<observed, rest, want, phase>>
    BY <1>6 DEF CreateReplacement, Progress
  <2> QED  BY <1>1, <1>2, <1>5, <2>1, <2>2, <2>3
<1>7. CASE CreateReplica(t)
  <2>1. Name(t.number).replaces < nextID
    BY <1>1 DEF Name
  <2>2. Created(Name(t.number), t.number) /\ t.at = "create" /\ t.kind \in {"create", "recreate"}
        /\ UNCHANGED <<observed, rest, want, phase>> /\ Ends(t)
    BY <1>7, KindOf DEF CreateReplica, Progress
  <2> QED  BY <1>1, <1>3, <1>5, <2>1, <2>2
<1>8. CASE EngineFails(t) /\ ~UNCHANGED <<containers, nextID>>
  <2>1. /\ t.at = "create" /\ Ends(t) /\ UNCHANGED <<observed, rest, want, phase>>
        /\ Created(IF t.kind = "create" THEN Name(t.number) ELSE TmpNameOf(t), t.number)
    BY <1>8 DEF EngineFails
  <2>2. t.kind \in {"create", "recreate"}
    BY <2>1, KindOf
  <2>3. CASE t.kind = "create"
    <3>1. Created(Name(t.number), t.number) /\ Name(t.number).replaces < nextID
      BY <1>1, <2>1, <2>3 DEF Name
    <3> QED  BY <1>1, <1>3, <1>5, <2>1, <2>2, <3>1
  <2>4. CASE t.kind = "recreate"
    <3>1. Created(TmpNameOf(t), t.number) /\ TmpNameOf(t).replaces < nextID
      BY <1>1, <2>1, <2>4, TmpNameOK, KindOf
    <3> QED  BY <1>1, <1>3, <1>5, <2>1, <2>2, <3>1
  <2> QED  BY <2>2, <2>3, <2>4
<1>9. CASE StopToRemove(t)
  <2>1. UNCHANGED <<observed, rest, want, phase>>
    BY <1>9 DEF StopToRemove, Progress
  <2>2. CASE t.id \in IDs
    <3>1. /\ IDs' = IDs
          /\ \A i \in IDs : /\ containers'[i].name = containers[i].name
                            /\ containers'[i].config = containers[i].config
      BY <1>9, <2>2, StateOK DEF StopToRemove, States
    <3>2. Goes(t, "remove") /\ t.kind # "create" /\ [t EXCEPT !.at = "remove"] \in Tasks
      BY <1>9, <2>2, KindOf DEF StopToRemove, Tasks, Removals
    <3> QED  BY <1>1, <1>2, <2>1, <3>1, <3>2
  <2>3. CASE t.id \notin IDs
    <3>1. IDs' = IDs /\ Ends(t) /\ UNCHANGED containers
      BY <1>9, <2>3 DEF StopToRemove, IDs
    <3> QED  BY <1>1, <1>3, <2>1, <3>1
  <2> QED  BY <2>2, <2>3
<1>10. CASE StopReplaced(t)
  <2>1. UNCHANGED <<observed, rest, want, phase>>
    BY <1>10 DEF StopReplaced, Progress
  <2>2. /\ IDs' = IDs
        /\ \A i \in IDs : /\ containers'[i].name = containers[i].name
                          /\ containers'[i].config = containers[i].config
    BY <1>10, StateOK DEF StopReplaced, States
  <2>3. Goes(t, "remove") /\ t.kind # "create" /\ [t EXCEPT !.at = "remove"] \in Tasks
    BY <1>10, KindOf DEF StopReplaced, Tasks, Recreations
  <2> QED  BY <1>1, <1>2, <2>1, <2>2, <2>3
<1>11. CASE ForceRemove(t)
  <2>1. UNCHANGED <<observed, rest, want, phase>> /\ Ends(t)
    BY <1>11 DEF ForceRemove, Progress
  <2>2. IDs' = IDs \ {t.id} /\ \A i \in IDs' : containers'[i] = containers[i]
    BY <1>11, GoneOK DEF ForceRemove
  <2> QED  BY <1>1, <1>3, <2>1, <2>2
<1>12. CASE RemoveReplaced(t)
  <2>1. UNCHANGED <<observed, rest, want, phase>>
    BY <1>12 DEF RemoveReplaced, Progress
  <2>2. IDs' = IDs \ {t.id} /\ \A i \in IDs' : containers'[i] = containers[i]
    BY <1>12, GoneOK DEF RemoveReplaced
  <2>3. Goes(t, "rename") /\ t.kind # "create" /\ [t EXCEPT !.at = "rename"] \in Tasks
    BY <1>12, KindOf DEF RemoveReplaced, Tasks, Recreations
  <2> QED  BY <1>1, <1>2, <2>1, <2>2, <2>3
<1>13. CASE RenameReplacement(t)
  <2>1. UNCHANGED <<observed, rest, want, phase>> /\ Ends(t)
    BY <1>13 DEF RenameReplacement, Progress
  <2>2. /\ IDs' = IDs /\ \A i \in IDs : containers'[i].config = containers[i].config
        /\ \A i \in IDs : \/ containers'[i].name = containers[i].name
                          \/ containers'[i].name.replaces = 0
    <3>1. PICK new \in IDs :
            /\ IDs' = IDs /\ containers'[new].name = Name(t.number)
            /\ \A i \in IDs : containers'[i].config = containers[i].config
            /\ \A i \in IDs \ {new} : containers'[i] = containers[i]
      BY <1>13, RenameEffect
    <3>2. containers'[new].name.replaces = 0
      BY <3>1, NameOK
    <3> QED  BY <3>1, <3>2
  <2> QED  BY <1>1, <1>3, <2>1, <2>2
<1> QED  BY <1>4, <1>6, <1>7, <1>8, <1>9, <1>10, <1>11, <1>12, <1>13
         DEF Goroutine, EngineRefuses, ContextCancelled

LEMMA GoroutineGone ==
  ASSUME Typed, ReplacedGone, NEW t \in tasks, Goroutine(t)
  PROVE  ReplacedGone'
<1> SUFFICES ASSUME NEW v \in tasks', v.kind = "recreate", v.at = "rename" PROVE v.id \notin IDs'
  BY DEF ReplacedGone
<1>1. IDs' \subseteq IDs \cup {nextID} /\ nextID \notin Observed
  BY GoroutineEffect
<1>2. CASE v \in tasks
  BY <1>1, <1>2 DEF ReplacedGone, Typed, TasksOK
<1>3. CASE v \notin tasks
  <2>1. ASSUME NEW at, Goes(t, at), t.kind # "create", [t EXCEPT !.at = at] \in Tasks
        PROVE  v.id = t.id /\ v.at = at
    BY <1>3, <2>1 DEF Goes, Typed, TasksOK, Tasks, Removals, Recreations, Starts, Creations
  <2>2. CASE \/ ForceRemove(t) \/ RenameReplacement(t) \/ CreateReplica(t) \/ Fails(t) \/ EngineFails(t)
             \/ (StopToRemove(t) /\ t.id \notin IDs)
    BY <1>3, <2>2 DEF ForceRemove, RenameReplacement, CreateReplica, Fails, EngineFails, StopToRemove, Ends
  <2>3. CASE StopToRemove(t) /\ t.id \in IDs
    <3>1. Goes(t, "remove") /\ t.kind # "create" /\ [t EXCEPT !.at = "remove"] \in Tasks
      BY <2>3, KindOf DEF StopToRemove, Tasks, Removals, Typed
    <3> QED  BY <2>1, <3>1
  <2>4. CASE CreateReplacement(t)
    <3>1. Goes(t, "stop") /\ t.kind # "create" /\ [t EXCEPT !.at = "stop"] \in Tasks
      BY <2>4, KindOf DEF CreateReplacement, Tasks, Recreations, Typed
    <3> QED  BY <2>1, <3>1
  <2>5. CASE StopReplaced(t)
    <3>1. Goes(t, "remove") /\ t.kind # "create" /\ [t EXCEPT !.at = "remove"] \in Tasks
      BY <2>5, KindOf DEF StopReplaced, Tasks, Recreations, Typed
    <3> QED  BY <2>1, <3>1
  <2>6. CASE RemoveReplaced(t)
    <3>1. Goes(t, "rename") /\ t.kind # "create" /\ [t EXCEPT !.at = "rename"] \in Tasks
      BY <2>6, KindOf DEF RemoveReplaced, Tasks, Recreations, Typed
    <3>2. IDs' = IDs \ {t.id}
      BY <2>6, RemoveReplacedTyped
    <3> QED  BY <2>1, <3>1, <3>2
  <2> QED  BY <2>2, <2>3, <2>4, <2>5, <2>6 DEF Goroutine, EngineRefuses, ContextCancelled
<1> QED  BY <1>2, <1>3

LEMMA GoroutinePending ==
  ASSUME Typed, ObsoletePending, NEW t \in tasks, Goroutine(t)
  PROVE  ObsoletePending'
<1> SUFFICES ASSUME phase' \in {"loop", "wait", "ok"}, ~cancelled',
                    NEW id \in IDs' \cap Observed', MustRecreate(id)'
             PROVE  id \in rest' \/ \E v \in tasks' : v.id = id /\ (v.kind = "remove" \/ Replaced(v))
  BY DEF ObsoletePending
<1>1. /\ UNCHANGED <<observed, rest, want, phase>> /\ id \in IDs /\ id \in Observed /\ MustRecreate(id)
  <2>1. UNCHANGED <<observed, rest, want, phase>>
    BY GoroutineEffect
  <2>2. Observed' = Observed
    BY <2>1 DEF Observed
  <2>3. id \in IDs
    BY <2>2, GoroutineEffect
  <2> QED  BY <2>1, <2>2, <2>3 DEF MustRecreate
<1>2. ~Fails(t) /\ ~EngineFails(t)
  BY DEF Fails, EngineFails
<1>3. \/ StopToRemove(t) \/ ForceRemove(t) \/ CreateReplacement(t) \/ StopReplaced(t)
      \/ RemoveReplaced(t) \/ RenameReplacement(t) \/ CreateReplica(t)
  BY <1>2 DEF Goroutine, EngineRefuses, ContextCancelled
<1>4. tasks \ {t} \subseteq tasks' /\ UNCHANGED cancelled
  BY <1>3 DEF StopToRemove, ForceRemove, CreateReplacement, StopReplaced, RemoveReplaced,
              RenameReplacement, CreateReplica, Goes, Ends, Progress
<1>5. id \in rest \/ \E v \in tasks : v.id = id /\ (v.kind = "remove" \/ Replaced(v))
  BY <1>1, <1>4 DEF ObsoletePending
<1>6. CASE t.id = id /\ (t.kind = "remove" \/ Replaced(t))
  <2>1. ASSUME NEW at, Goes(t, at), t.kind # "create", [t EXCEPT !.at = at] \in Tasks,
               t.kind = "remove" \/ at \in {"stop", "remove"}
        PROVE  \E v \in tasks' : v.id = id /\ (v.kind = "remove" \/ Replaced(v))
    <3>1. PICK u : /\ u \in tasks' /\ u.kind = t.kind /\ u.id = t.id /\ u.at = at
      BY <2>1 DEF Goes, Typed, TasksOK, Tasks, Removals, Recreations, Starts, Creations
    <3> QED  BY <1>6, <2>1, <3>1 DEF Replaced
  <2>2. CASE StopToRemove(t)
    <3>1. Goes(t, "remove") /\ t.kind # "create" /\ [t EXCEPT !.at = "remove"] \in Tasks
      BY <1>1, <1>6, <2>2, KindOf DEF StopToRemove, Tasks, Removals, Typed
    <3> QED  BY <2>1, <3>1
  <2>3. CASE CreateReplacement(t)
    <3>1. Goes(t, "stop") /\ t.kind # "create" /\ [t EXCEPT !.at = "stop"] \in Tasks
      BY <2>3, KindOf DEF CreateReplacement, Tasks, Recreations, Typed
    <3> QED  BY <2>1, <3>1
  <2>4. CASE StopReplaced(t)
    <3>1. Goes(t, "remove") /\ t.kind # "create" /\ [t EXCEPT !.at = "remove"] \in Tasks
      BY <2>4, KindOf DEF StopReplaced, Tasks, Recreations, Typed
    <3> QED  BY <2>1, <3>1
  <2>5. CASE ForceRemove(t) \/ RemoveReplaced(t)
    <3>1. IDs' = IDs \ {t.id}
      BY <2>5, ForceRemoveTyped, RemoveReplacedTyped
    <3> QED  BY <1>6, <3>1
  <2>6. CASE RenameReplacement(t) \/ CreateReplica(t)
    BY <1>6, <2>6 DEF RenameReplacement, CreateReplica, Replaced
  <2> QED  BY <1>3, <2>2, <2>3, <2>4, <2>5, <2>6
<1> QED  BY <1>1, <1>4, <1>5, <1>6

LEMMA GoroutineFacts ==
  ASSUME Typed, Apart, Facts, NEW t \in tasks, Goroutine(t)
  PROVE  Facts'
<1>1. /\ \A id \in IDs' \cap IDs : containers'[id].config = containers[id].config
      /\ \A id \in IDs' \cap IDs : \/ containers'[id].name = containers[id].name
                                   \/ containers'[id].name.replaces = 0
      /\ IDs' \subseteq IDs \cup {nextID}
      /\ nextID \in IDs' => /\ containers'[nextID].config = want.config
                            /\ containers'[nextID].name.replaces < nextID
                            /\ t.at = "create" /\ t.kind \in {"create", "recreate"}
      /\ nextID \notin IDs /\ nextID \notin Observed
      /\ UNCHANGED <<observed, rest, want, phase>>
      /\ \A v \in tasks' : \E w \in tasks : w.kind = v.kind /\ w.id = v.id /\ w.number = v.number
  BY GoroutineEffect
<1>2. Observed' = Observed /\ \A id : MustRecreate(id)' <=> MustRecreate(id)
  BY <1>1 DEF Observed, MustRecreate
<1>3. ConfigsKept'
  BY <1>1, <1>2 DEF Facts, ConfigsKept
<1>4. NamesAreOlder'
  <2>1. \A id \in IDs : 0 < id
    BY DEF Typed, ContainersOK
  <2> QED  BY <1>1, <2>1 DEF Facts, NamesAreOlder
<1>5. NoEarlyCreations'
  <2>1. CASE phase # "loop"
    BY <1>1, <2>1 DEF NoEarlyCreations
  <2>2. CASE phase = "loop"
    <3>1. \A v \in tasks : v.kind # "create"
      BY <2>2 DEF Facts, NoEarlyCreations
    <3>2. \A v \in tasks' : v.kind # "create"
      BY <1>1, <3>1
    <3>3. rest # Observed
      BY <3>1 DEF Typed, TasksOK, Apart, NotInRest
    <3> QED  BY <1>1, <1>2, <3>2, <3>3 DEF NoEarlyCreations
  <2> QED  BY <2>1, <2>2
<1>6. RecreatedMustBe'
  BY <1>1, <1>2 DEF Facts, RecreatedMustBe
<1>7. ReplacedGone' /\ ObsoletePending'
  BY GoroutineGone, GoroutinePending DEF Facts
<1> QED  BY <1>3, <1>4, <1>5, <1>6, <1>7 DEF Facts

(* A step that leaves the engine, the list and the wants alone.            *)
LEMMA QuietFacts ==
  ASSUME Facts, IDs' \subseteq IDs,
         \A id \in IDs' : /\ containers'[id].config = containers[id].config
                          /\ containers'[id].name = containers[id].name,
         UNCHANGED <<observed, rest, want>>, tasks' = tasks \/ tasks' = {},
         phase' = phase \/ phase' \in {"ok", "failed"},
         phase' \in {"loop", "wait", "ok"} /\ ~cancelled' =>
           phase \in {"loop", "wait", "ok"} /\ ~cancelled /\ tasks' = tasks
  PROVE  Facts'
<1>1. Observed' = Observed /\ \A id : MustRecreate(id)' <=> MustRecreate(id)
  BY DEF Observed, MustRecreate
<1>2. ConfigsKept' /\ NamesAreOlder'
  BY <1>1 DEF Facts, ConfigsKept, NamesAreOlder
<1>3. NoEarlyCreations'
  BY <1>1 DEF Facts, NoEarlyCreations
<1>4. RecreatedMustBe' /\ ReplacedGone'
  BY <1>1 DEF Facts, RecreatedMustBe, ReplacedGone
<1>5. ObsoletePending'
  BY <1>1 DEF Facts, ObsoletePending
<1> QED  BY <1>2, <1>3, <1>4, <1>5 DEF Facts

LEMMA LoopFacts ==
  ASSUME Typed, Apart, Facts, NEW id \in rest, LoopRemoves(id) \/ LoopRecreates(id) \/ LoopKeeps(id)
  PROVE  Facts'
<1>1. /\ IDs' = IDs /\ Observed' = Observed /\ rest' = rest \ {id} /\ id \in Observed
      /\ UNCHANGED <<containers, observed, want, phase, cancelled>> /\ tasks \subseteq tasks'
  BY LoopRemovesTyped, LoopRecreatesTyped, LoopKeepsTyped
  DEF LoopRemoves, LoopRecreates, LoopKeeps, LoopStep, Observed, Typed, ListOK
<1>2. \A i : MustRecreate(i)' <=> MustRecreate(i)
  BY <1>1 DEF MustRecreate
<1>3. \A v \in tasks' \ tasks :
        /\ v.id = id /\ v.kind # "create" /\ v.at # "rename"
        /\ v.kind = "recreate" => MustRecreate(id)
  BY DEF LoopRemoves, LoopRecreates, LoopKeeps, Removal, Recreation, Start
<1>4. ConfigsKept' /\ NamesAreOlder'
  BY <1>1 DEF Facts, ConfigsKept, NamesAreOlder
<1>5. NoEarlyCreations'
  <2>1. rest' # Observed'
    BY <1>1
  <2> QED  BY <1>1, <1>3, <2>1 DEF Facts, NoEarlyCreations
<1>6. RecreatedMustBe'
  BY <1>2, <1>3 DEF Facts, RecreatedMustBe
<1>7. ReplacedGone'
  BY <1>1, <1>3 DEF Facts, ReplacedGone
<1>8. ~MustRecreate(id) \/ \E v \in tasks' : v.id = id /\ (v.kind = "remove" \/ Replaced(v))
  <2>1. CASE LoopRemoves(id)
    <3>1. Removal(id) \in tasks' /\ Removal(id).id = id /\ Removal(id).kind = "remove"
      BY <2>1 DEF LoopRemoves, Removal
    <3> QED  BY <3>1
  <2>2. CASE LoopRecreates(id)
    <3>1. Recreation(id) \in tasks' /\ Recreation(id).id = id /\ Replaced(Recreation(id))
      BY <2>2 DEF LoopRecreates, Recreation, Replaced
    <3> QED  BY <3>1
  <2>3. CASE LoopKeeps(id)
    BY <2>3 DEF LoopKeeps
  <2> QED  BY <2>1, <2>2, <2>3
<1>9. ObsoletePending'
  BY <1>1, <1>2, <1>8 DEF Facts, ObsoletePending
<1> QED  BY <1>4, <1>5, <1>6, <1>7, <1>9 DEF Facts

LEMMA FactsStep ==
  ASSUME Typed, Apart, Facts, Next
  PROVE  Facts'
<1>1. CASE Begin
  <2>1. /\ IDs' = IDs /\ Observed' = IDs /\ observed' = containers /\ UNCHANGED containers
        /\ tasks' = {} /\ rest' = IDs
    BY <1>1, BeginTyped DEF Begin, Observed, IDs
  <2> QED  BY <2>1 DEF Facts, ConfigsKept, NamesAreOlder, NoEarlyCreations, RecreatedMustBe, ReplacedGone,
                       ObsoletePending
<1>2. CASE ScaleUp
  <2>1. /\ IDs' = IDs /\ tasks' = tasks \cup Additions
        /\ \A v \in Additions : v.kind = "create" /\ Observed' = Observed
        /\ UNCHANGED <<containers, observed, rest, want, cancelled>>
        /\ phase = "loop" /\ phase' = "wait"
    BY <1>2, ScaleUpTyped, AdditionsOK DEF ScaleUp, engine, Typed, ScalarsOK, Observed
  <2>2. Observed' = Observed /\ \A id : MustRecreate(id)' <=> MustRecreate(id)
    BY <2>1 DEF MustRecreate, Observed
  <2>3. ConfigsKept' /\ NamesAreOlder' /\ NoEarlyCreations'
    BY <2>1, <2>2 DEF Facts, ConfigsKept, NamesAreOlder, NoEarlyCreations
  <2>4. RecreatedMustBe' /\ ReplacedGone'
    BY <2>1, <2>2 DEF Facts, RecreatedMustBe, ReplacedGone
  <2>5. ObsoletePending'
    BY <2>1, <2>2 DEF Facts, ObsoletePending
  <2> QED  BY <2>3, <2>4, <2>5 DEF Facts
<1>3. CASE WaitReturns
  <2>1. /\ IDs' = IDs /\ UNCHANGED <<containers, observed, rest, want, tasks, cancelled>>
        /\ phase = "wait" /\ phase' \in {"ok", "failed"}
    BY <1>3, WaitReturnsTyped DEF WaitReturns, engine
  <2> QED  BY <2>1, QuietFacts
<1>4. CASE Killed
  <2>1. /\ IDs' = IDs /\ UNCHANGED <<containers, observed, rest, want>> /\ tasks' = {} /\ phase' = "failed"
    BY <1>4, KilledTyped DEF Killed, engine
  <2> QED  BY <2>1, QuietFacts
<1>5. ASSUME NEW id \in rest, LoopRemoves(id) \/ LoopRecreates(id) \/ LoopKeeps(id) \/ LoopReturnsEarly(id)
      PROVE  Facts'
  <2>1. CASE LoopReturnsEarly(id)
    <3>1. IDs' = IDs /\ UNCHANGED <<containers, observed, rest, want, tasks>> /\ phase' = "failed"
      BY <2>1, LoopReturnsEarlyTyped DEF LoopReturnsEarly, engine
    <3> QED  BY <3>1, QuietFacts
  <2> QED  BY <1>5, <2>1, LoopFacts
<1>6. ASSUME NEW t \in tasks, Goroutine(t)
      PROVE  Facts'
  BY <1>6, GoroutineFacts
<1>7. ASSUME NEW id \in IDs, RemovedByOthers(id)
      PROVE  Facts'
  <2>1. /\ IDs' \subseteq IDs /\ \A i \in IDs' : containers'[i] = containers[i]
        /\ UNCHANGED <<observed, rest, want, tasks, phase, cancelled>>
    BY <1>7, GoneOK DEF RemovedByOthers, command, Typed
  <2> QED  BY <2>1, QuietFacts
<1>8. ASSUME NEW id \in IDs, PausedByOthers(id)
      PROVE  Facts'
  <2>1. /\ IDs' = IDs
        /\ \A i \in IDs : /\ containers'[i].name = containers[i].name
                          /\ containers'[i].config = containers[i].config
    BY <1>8, StateOK DEF PausedByOthers, States, Typed
  <2>2. UNCHANGED <<observed, rest, want, tasks, phase, cancelled>>
    BY <1>8 DEF PausedByOthers, command
  <2> QED  BY <2>1, <2>2, QuietFacts
<1> QED  BY <1>1, <1>2, <1>3, <1>4, <1>5, <1>6, <1>7, <1>8 DEF Next

----------------------------------------------------------------------------
(* The tally of what is there and what is being made.                      *)
LEMMA TallyCards ==
  ASSUME Typed
  PROVE  /\ IsFiniteSet(updated) /\ Cardinality(updated) \in Nat
         /\ IsFiniteSet(Builders) /\ Cardinality(Builders) \in Nat
<1>1. IsFiniteSet(1..(nextID - 1)) /\ updated \subseteq 1..(nextID - 1)
  <2>1. 1 \in Int /\ nextID - 1 \in Int
    BY DEF Typed, ContainersOK
  <2> QED  BY <2>1, FS_Interval DEF Typed, ListOK
<1>2. IsFiniteSet(updated)
  BY <1>1, FS_Subset
<1>3. IsFiniteSet(Builders)
  <2>1. Builders \in SUBSET tasks /\ IsFiniteSet(tasks)
    BY DEF Builders, Typed, TasksOK
  <2> QED  BY <2>1, FS_Subset
<1> QED  BY <1>2, <1>3, FS_CardinalityType

LEMMA BuildersGo ==
  ASSUME Typed, Apart, NEW t \in tasks, NEW at, Goes(t, at), t.kind # "create", [t EXCEPT !.at = at] \in Tasks
  PROVE  Cardinality(Builders') = Cardinality(Builders)
<1>1. PICK u : tasks' = (tasks \ {t}) \cup {u} /\ u.kind = t.kind /\ u.id = t.id
  BY DEF Goes, Typed, TasksOK, Tasks, Removals, Recreations, Starts, Creations
<1>2. CASE t.kind # "recreate"
  <2>1. Builders' = Builders
    BY <1>1, <1>2 DEF Builders
  <2> QED  BY <2>1
<1>3. CASE t.kind = "recreate"
  <2> DEFINE Others == Builders \ {t}
  <2>1. Builders' = Others \cup {u} /\ t \in Builders
    BY <1>1, <1>3 DEF Builders
  <2>2. u \notin Others
    BY <1>1, <1>3 DEF Builders, Apart, OneTaskEach
  <2>3. IsFiniteSet(Builders) /\ Cardinality(Builders) \in Nat
    BY TallyCards
  <2>4. IsFiniteSet(Others) /\ Cardinality(Others) = Cardinality(Builders) - 1
    BY <2>1, <2>3, FS_RemoveElement
  <2>5. Cardinality(Others \cup {u}) = Cardinality(Others) + 1
    BY <2>2, <2>4, FS_AddElement
  <2> HIDE DEF Others
  <2> QED  BY <2>1, <2>3, <2>4, <2>5
<1> QED  BY <1>2, <1>3

(* A goroutine that made its container hands it over.                      *)
LEMMA BuilderEnds ==
  ASSUME Typed, NEW t \in Builders, Ends(t), NEW new, new \notin updated, updated' = updated \cup {new}
  PROVE  Cardinality(updated') + Cardinality(Builders') = Cardinality(updated) + Cardinality(Builders)
<1>1. Builders' = Builders \ {t}
  BY DEF Builders, Ends
<1>2. /\ IsFiniteSet(updated) /\ Cardinality(updated) \in Nat
      /\ IsFiniteSet(Builders) /\ Cardinality(Builders) \in Nat
  BY TallyCards
<1>3. Cardinality(Builders') = Cardinality(Builders) - 1
  BY <1>1, <1>2, FS_RemoveElement
<1>4. Cardinality(updated') = Cardinality(updated) + 1
  BY <1>2, FS_AddElement
<1> QED  BY <1>2, <1>3, <1>4

LEMMA SameTally ==
  ASSUME Tally, UNCHANGED <<observed, rest, want, phase>>,
         Cardinality(updated') + Cardinality(Builders') = Cardinality(updated) + Cardinality(Builders)
  PROVE  Tally'
BY DEF Tally, Kept, Index

LEMMA SameKeptFresh ==
  ASSUME KeptFresh, UNCHANGED <<observed, want>>, \A id \in updated' \ updated : id \notin Observed
  PROVE  KeptFresh'
<1>1. Observed' = Observed /\ \A id : MustRecreate(id)' <=> MustRecreate(id)
  BY DEF Observed, MustRecreate
<1> QED  BY <1>1 DEF KeptFresh

LEMMA GoroutineComplete ==
  ASSUME Typed, Apart, Books, Tally, KeptFresh, NEW t \in tasks, Goroutine(t), ~cancelled'
  PROVE  Tally' /\ KeptFresh'
<1>1. UNCHANGED <<observed, rest, want, phase>>
  BY GoroutineEffect
<1>2. ASSUME updated' = updated, Builders' = Builders
      PROVE  Tally' /\ KeptFresh'
  <2>1. Cardinality(updated') + Cardinality(Builders') = Cardinality(updated) + Cardinality(Builders)
    BY <1>2
  <2>2. \A id \in updated' \ updated : id \notin Observed
    BY <1>2
  <2> QED  BY <1>1, <2>1, <2>2, SameTally, SameKeptFresh
<1>3. ASSUME NEW at, Goes(t, at), t.kind # "create", [t EXCEPT !.at = at] \in Tasks, updated' = updated
      PROVE  Tally' /\ KeptFresh'
  <2>1. Cardinality(updated') + Cardinality(Builders') = Cardinality(updated) + Cardinality(Builders)
    BY <1>3, BuildersGo
  <2>2. \A id \in updated' \ updated : id \notin Observed
    BY <1>3
  <2> QED  BY <1>1, <2>1, <2>2, SameTally, SameKeptFresh
<1>4. CASE StopToRemove(t)
  <2>1. CASE t.id \in IDs
    <3>1. Goes(t, "remove") /\ t.kind # "create" /\ [t EXCEPT !.at = "remove"] \in Tasks /\ updated' = updated
      BY <1>4, <2>1, KindOf DEF StopToRemove, Tasks, Removals, Typed
    <3> QED  BY <1>3, <3>1
  <2>2. CASE t.id \notin IDs
    <3>1. Builders' = Builders /\ updated' = updated
      BY <1>4, <2>2 DEF StopToRemove, Ends, Builders
    <3> QED  BY <1>2, <3>1
  <2> QED  BY <2>1, <2>2
<1>5. CASE ForceRemove(t)
  <2>1. Builders' = Builders /\ updated' = updated
    BY <1>5 DEF ForceRemove, Ends, Builders
  <2> QED  BY <1>2, <2>1
<1>6. CASE CreateReplacement(t)
  <2>1. Goes(t, "stop") /\ t.kind # "create" /\ [t EXCEPT !.at = "stop"] \in Tasks /\ updated' = updated
    BY <1>6, KindOf DEF CreateReplacement, Tasks, Recreations, Typed
  <2> QED  BY <1>3, <2>1
<1>7. CASE StopReplaced(t)
  <2>1. Goes(t, "remove") /\ t.kind # "create" /\ [t EXCEPT !.at = "remove"] \in Tasks /\ updated' = updated
    BY <1>7, KindOf DEF StopReplaced, Tasks, Recreations, Typed
  <2> QED  BY <1>3, <2>1
<1>8. CASE RemoveReplaced(t)
  <2>1. Goes(t, "rename") /\ t.kind # "create" /\ [t EXCEPT !.at = "rename"] \in Tasks /\ updated' = updated
    BY <1>8, KindOf DEF RemoveReplaced, Tasks, Recreations, Typed
  <2> QED  BY <1>3, <2>1
<1>9. CASE RenameReplacement(t)
  <2>1. PICK new \in IDs : containers[new].name = TmpNameOf(t) /\ updated' = updated \cup {new}
    BY <1>9, RenameEffect
  <2>2. t.kind = "recreate" /\ t.at = "rename" /\ Ends(t)
    BY <1>9 DEF RenameReplacement
  <2>3. new \notin Observed /\ new \notin updated
    <3>1. PICK id \in IDs \ (Observed \cup updated) : containers[id].name = TmpNameOf(t)
      BY <2>2 DEF Books, ReplacementsThere, Replacing
    <3> QED  BY <2>1, <3>1 DEF Typed, ContainersOK
  <2>4. t \in Builders
    BY <2>2 DEF Builders
  <2>5. Cardinality(updated') + Cardinality(Builders') = Cardinality(updated) + Cardinality(Builders)
    BY <2>1, <2>2, <2>3, <2>4, BuilderEnds
  <2> QED  BY <1>1, <2>1, <2>3, <2>5, SameTally, SameKeptFresh
<1>10. CASE CreateReplica(t)
  <2>1. t \in Builders /\ Ends(t) /\ updated' = updated \cup {nextID}
    BY <1>10 DEF CreateReplica, Builders
  <2>2. nextID \notin updated /\ nextID \notin Observed
    BY DEF Typed, ListOK, ContainersOK
  <2>3. Cardinality(updated') + Cardinality(Builders') = Cardinality(updated) + Cardinality(Builders)
    BY <2>1, <2>2, BuilderEnds
  <2> QED  BY <1>1, <2>1, <2>2, <2>3, SameTally, SameKeptFresh
<1>11. ~Fails(t) /\ ~EngineFails(t)
  BY DEF Fails, EngineFails
<1> QED  BY <1>4, <1>5, <1>6, <1>7, <1>8, <1>9, <1>10, <1>11
         DEF Goroutine, EngineRefuses, ContextCancelled

LEMMA LoopComplete ==
  ASSUME Typed, Typed', Apart, Books, Tally, KeptFresh, NEW id \in rest,
         LoopRemoves(id) \/ LoopRecreates(id) \/ LoopKeeps(id)
  PROVE  Tally' /\ KeptFresh'
<1>1. LoopStep(id) /\ phase = "loop" /\ phase' = "loop" /\ UNCHANGED <<observed, want>>
  BY DEF LoopRemoves, LoopRecreates, LoopKeeps, LoopStep
<1>2. Index' = Index + 1 /\ Index \in Nat /\ want.scale \in Nat /\ want' = want
  BY <1>1, RestShrinks, Cards
<1>3. /\ IsFiniteSet(updated) /\ Cardinality(updated) \in Nat
      /\ IsFiniteSet(Builders) /\ Cardinality(Builders) \in Nat
  BY TallyCards
<1>4. Cardinality(updated) + Cardinality(Builders) = Kept
  BY <1>1 DEF Tally
<1>5. CASE LoopRemoves(id)
  <2>1. Builders' = Builders /\ updated' = updated
    BY <1>5 DEF LoopRemoves, Builders, Removal
  <2>2. Kept' = Kept
    BY <1>2, <1>5 DEF LoopRemoves, ScaleDown, Kept
  <2>3. Tally'
    BY <1>1, <1>4, <2>1, <2>2 DEF Tally
  <2>4. \A i \in updated' \ updated : i \notin Observed
    BY <2>1
  <2> QED  BY <1>1, <2>3, <2>4, SameKeptFresh
<1>6. ~ScaleDown(id) => Kept' = Kept + 1
  BY <1>2 DEF ScaleDown, Kept
<1>7. CASE LoopRecreates(id)
  <2>1. Builders' = Builders \cup {Recreation(id)} /\ updated' = updated
    BY <1>7 DEF LoopRecreates, Builders, Recreation
  <2>2. Recreation(id) \notin Builders
    <3>1. Recreation(id).kind # "create" /\ Recreation(id).id = id
      BY DEF Recreation
    <3> QED  BY <3>1 DEF Builders, Apart, NotInRest
  <2>3. Cardinality(Builders') = Cardinality(Builders) + 1
    BY <1>3, <2>1, <2>2, FS_AddElement
  <2>4. Tally'
    BY <1>1, <1>3, <1>4, <1>6, <1>7, <2>1, <2>3 DEF Tally, LoopRecreates
  <2>5. \A i \in updated' \ updated : i \notin Observed
    BY <2>1
  <2> QED  BY <1>1, <2>4, <2>5, SameKeptFresh
<1>8. CASE LoopKeeps(id)
  <2>1. Builders' = Builders /\ updated' = updated \cup {id}
    BY <1>8 DEF LoopKeeps, Builders, Start
  <2>2. id \notin updated
    BY DEF Books, ListedStays
  <2>3. Cardinality(updated') = Cardinality(updated) + 1
    BY <1>3, <2>1, <2>2, FS_AddElement
  <2>4. Tally'
    BY <1>1, <1>3, <1>4, <1>6, <1>8, <2>1, <2>3 DEF Tally, LoopKeeps
  <2>5. Observed' = Observed /\ \A i : MustRecreate(i)' <=> MustRecreate(i)
    BY <1>1 DEF Observed, MustRecreate
  <2>6. ~MustRecreate(id)
    BY <1>8 DEF LoopKeeps
  <2>7. KeptFresh'
    BY <2>1, <2>5, <2>6 DEF KeptFresh
  <2> QED  BY <2>4, <2>7
<1> QED  BY <1>5, <1>7, <1>8

LEMMA ScaleUpComplete ==
  ASSUME Typed, Facts, Tally, KeptFresh, ScaleUp
  PROVE  Tally' /\ KeptFresh'
<1>1. /\ phase = "loop" /\ phase' = "wait" /\ rest = {} /\ UNCHANGED <<observed, want, updated>>
      /\ tasks' = tasks \cup Additions
  BY ScaleUpTyped DEF ScaleUp
<1>2. /\ Cardinality(Observed) \in Nat /\ want.scale \in Nat
      /\ IsFiniteSet(Additions)
      /\ Cardinality(Additions) = IF Missing <= 0 THEN 0 ELSE Missing
      /\ \A u \in Additions : u.kind = "create"
  BY AdditionsOK DEF Typed, ScalarsOK
<1>3. Builders' = Builders \cup Additions /\ Builders \cap Additions = {}
  BY <1>1, <1>2 DEF Builders, Facts, NoEarlyCreations
<1>4. /\ IsFiniteSet(updated) /\ Cardinality(updated) \in Nat
      /\ IsFiniteSet(Builders) /\ Cardinality(Builders) \in Nat
  BY TallyCards
<1>5. Cardinality(Builders') = Cardinality(Builders) + Cardinality(Additions)
  <2>1. Cardinality(Builders \cap Additions) = 0
    BY <1>3, FS_EmptySet
  <2>2. Cardinality(Builders \cup Additions) =
          Cardinality(Builders) + Cardinality(Additions) - Cardinality(Builders \cap Additions)
    BY <1>2, <1>4, FS_Union
  <2>3. Cardinality(Additions) \in Nat
    BY <1>2, FS_CardinalityType
  <2> QED  BY <1>3, <1>4, <2>1, <2>2, <2>3
<1>6. Index = Cardinality(Observed)
  <2>1. Cardinality(rest) = 0
    BY <1>1, FS_EmptySet
  <2> QED  BY <1>2, <2>1 DEF Index, Observed
<1>7. Missing = want.scale - Cardinality(Observed)
  BY DEF Missing
<1>8. Kept = IF Cardinality(Observed) < want.scale THEN Cardinality(Observed) ELSE want.scale
  BY <1>6 DEF Kept
<1>9. Cardinality(updated) + Cardinality(Builders) = Kept
  BY <1>1 DEF Tally
<1>10. Cardinality(updated) + Cardinality(Builders') = want.scale
  BY <1>2, <1>4, <1>5, <1>7, <1>8, <1>9
<1>11. Tally'
  BY <1>1, <1>10 DEF Tally
<1>12. \A i \in updated' \ updated : i \notin Observed
  BY <1>1
<1> QED  BY <1>1, <1>11, <1>12, SameKeptFresh

LEMMA BeginComplete ==
  ASSUME Typed, Begin
  PROVE  Tally' /\ KeptFresh'
<1>1. updated' = {} /\ Builders' = {} /\ phase' = "loop"
  BY DEF Begin, Builders
<1>2. Cardinality(updated') = 0 /\ Cardinality(Builders') = 0
  BY <1>1, FS_EmptySet
<1>3. Index' = Cardinality(IDs) - Cardinality(IDs) /\ Cardinality(IDs) \in Nat
  BY Cards DEF Begin, Index, IDs
<1>4. want'.scale \in Nat
  BY ScalesAssumption DEF Begin
<1>5. Kept' = 0
  BY <1>3, <1>4 DEF Kept
<1> QED  BY <1>1, <1>2, <1>5 DEF Tally, KeptFresh

LEMMA CompleteStep ==
  ASSUME Typed, Typed', Apart, Accounted, Facts, Complete, Next
  PROVE  Complete'
<1> SUFFICES ASSUME Regular' PROVE Tally' /\ KeptFresh'
  BY DEF Complete
<1>0. Regular => Books /\ Tally /\ KeptFresh
  BY DEF Accounted, Books, Complete
<1>1. CASE Begin
  BY <1>1, BeginComplete
<1>2. CASE ScaleUp
  <2>1. Regular
    BY <1>2 DEF ScaleUp, Regular
  <2> QED  BY <1>0, <1>2, <2>1, ScaleUpComplete
<1>3. CASE WaitReturns
  <2>1. Regular /\ phase = "wait" /\ phase' \in {"ok", "failed"}
    BY <1>3 DEF WaitReturns, Regular
  <2>2. UNCHANGED <<updated, observed, tasks, want>>
    BY <1>3 DEF WaitReturns
  <2>3. Tally'
    BY <1>0, <2>1, <2>2 DEF Tally, Builders
  <2>4. \A i \in updated' \ updated : i \notin Observed
    BY <2>2
  <2> QED  BY <1>0, <2>1, <2>2, <2>3, <2>4, SameKeptFresh
<1>4. CASE Killed
  BY <1>4 DEF Killed, Regular
<1>5. ASSUME NEW id \in rest, LoopRemoves(id) \/ LoopRecreates(id) \/ LoopKeeps(id) \/ LoopReturnsEarly(id)
      PROVE  Tally' /\ KeptFresh'
  <2>1. CASE LoopReturnsEarly(id)
    BY <2>1 DEF LoopReturnsEarly, Regular
  <2>2. CASE LoopRemoves(id) \/ LoopRecreates(id) \/ LoopKeeps(id)
    <3>1. Regular
      BY <2>2 DEF LoopRemoves, LoopRecreates, LoopKeeps, LoopStep, Regular
    <3> QED  BY <1>0, <2>2, <3>1, LoopComplete
  <2> QED  BY <1>5, <2>1, <2>2
<1>6. ASSUME NEW t \in tasks, Goroutine(t)
      PROVE  Tally' /\ KeptFresh'
  <2>1. ~cancelled'
    BY DEF Regular
  <2>2. \/ StopToRemove(t) \/ ForceRemove(t) \/ CreateReplacement(t) \/ StopReplaced(t)
        \/ RemoveReplaced(t) \/ RenameReplacement(t) \/ CreateReplica(t)
    BY <1>6, <2>1 DEF Goroutine, EngineRefuses, ContextCancelled, Fails, EngineFails
  <2>3. Progress
    BY <2>2 DEF StopToRemove, ForceRemove, CreateReplacement, StopReplaced, RemoveReplaced,
                RenameReplacement, CreateReplica
  <2>4. Regular
    BY <2>3 DEF Progress, Regular
  <2> QED  BY <1>0, <1>6, <2>1, <2>4, GoroutineComplete
<1>7. ASSUME NEW id \in IDs, RemovedByOthers(id)
      PROVE  Tally' /\ KeptFresh'
  BY <1>7 DEF RemovedByOthers, Regular
<1>8. ASSUME NEW id \in IDs, PausedByOthers(id)
      PROVE  Tally' /\ KeptFresh'
  <2>1. Regular /\ UNCHANGED <<rest, updated, observed, tasks, want, phase>>
    BY <1>8 DEF PausedByOthers, command, Regular
  <2>2. Cardinality(updated') + Cardinality(Builders') = Cardinality(updated) + Cardinality(Builders)
    BY <2>1 DEF Builders
  <2>3. \A i \in updated' \ updated : i \notin Observed
    BY <2>1
  <2> QED  BY <1>0, <2>1, <2>2, <2>3, SameTally, SameKeptFresh
<1> QED  BY <1>1, <1>2, <1>3, <1>4, <1>5, <1>6, <1>7, <1>8 DEF Next

Whole == Inv /\ Facts /\ Complete

LEMMA InitWhole == Init => Whole
<1> SUFFICES ASSUME Init PROVE Whole
  OBVIOUS
<1>1. Inv
  BY InitInv
<1>2. IDs = {} /\ tasks = {} /\ phase = "idle"
  BY DEF Init, IDs
<1>3. Facts
  BY <1>2 DEF Facts, ConfigsKept, NamesAreOlder, NoEarlyCreations, RecreatedMustBe, ReplacedGone,
              ObsoletePending
<1>4. Complete
  BY <1>2 DEF Complete, Regular
<1> QED  BY <1>1, <1>3, <1>4 DEF Whole

LEMMA StepWhole == Whole /\ [Next]_vars => Whole'
<1> SUFFICES ASSUME Whole, [Next]_vars PROVE Whole'
  OBVIOUS
<1>1. Inv'
  BY StepInv DEF Whole
<1>2. CASE Next
  BY <1>1, <1>2, FactsStep, CompleteStep DEF Whole, Inv
<1>3. CASE UNCHANGED vars
  <2>1. /\ IDs' = IDs /\ Observed' = Observed /\ Builders' = Builders /\ Kept' = Kept
        /\ UNCHANGED <<containers, phase, want, observed, rest, tasks, cancelled, updated, lost>>
    BY <1>3 DEF vars, engine, command, IDs, Observed, Builders, Kept, Index
  <2>2. \A id : MustRecreate(id)' <=> MustRecreate(id)
    BY <2>1 DEF MustRecreate
  <2>3. Facts'
    BY <2>1, <2>2 DEF Whole, Facts, ConfigsKept, NamesAreOlder, NoEarlyCreations, RecreatedMustBe,
                      ReplacedGone, ObsoletePending
  <2>4. Complete'
    BY <2>1, <2>2 DEF Whole, Complete, Regular, Tally, KeptFresh
  <2> QED  BY <1>1, <2>3, <2>4 DEF Whole
<1> QED  BY <1>2, <1>3

LEMMA WholeInvariant == Spec => []Whole
BY InitWhole, StepWhole, PTL DEF Spec

LEMMA WholeConverged == Whole => Converged
<1> SUFFICES ASSUME Whole, phase = "ok", lost = {}
             PROVE  /\ Cardinality(IDs) = want.scale
                    /\ want.policy # "never" => \A id \in IDs : containers[id].config = want.config
                    /\ want.policy = "force" => IDs \cap DOMAIN observed = {}
  BY DEF Converged
<1>1. tasks = {} /\ rest = {} /\ ~cancelled /\ want \in Wants
  BY DEF Whole, Inv, Typed, ScalarsOK
<1>2. Regular
  BY <1>1 DEF Regular
<1>3. updated = IDs
  <2>1. ListedStays /\ AllAccounted
    BY <1>2 DEF Whole, Inv, Accounted
  <2> QED  BY <1>1, <2>1 DEF ListedStays, AllAccounted, Pending
<1>4. Tally /\ KeptFresh
  BY <1>2 DEF Whole, Complete
<1>5. Cardinality(IDs) = want.scale
  <2>1. Cardinality(Builders) = 0
    BY <1>1, FS_EmptySet DEF Builders
  <2>2. Cardinality(IDs) \in Nat
    BY Cards DEF Whole, Inv
  <2> QED  BY <1>3, <1>4, <2>1, <2>2 DEF Tally
<1>6. want.policy \in {"diverged", "force", "never"}
  BY <1>1, PoliciesAssumption DEF Wants
<1>7. \A id \in IDs \cap Observed : ~MustRecreate(id)
  BY <1>3, <1>4 DEF KeptFresh
<1>8. ASSUME want.policy # "never", NEW id \in IDs
      PROVE  containers[id].config = want.config
  <2>1. CASE id \notin Observed
    BY <2>1 DEF Whole, Facts, ConfigsKept
  <2>2. CASE id \in Observed
    <3>1. observed[id].config = want.config
      BY <1>6, <1>7, <1>8, <2>2 DEF MustRecreate
    <3> QED  BY <2>2, <3>1 DEF Whole, Facts, ConfigsKept
  <2> QED  BY <2>1, <2>2
<1>9. want.policy = "force" => IDs \cap Observed = {}
  BY <1>7 DEF MustRecreate
<1> QED  BY <1>5, <1>8, <1>9 DEF Observed

(* A nil of ensureService means a converged service: the wanted number of  *)
(* containers, of the wanted configuration unless they were not to be      *)
(* recreated, none of them an old one if all were, whatever commands that  *)
(* failed or were killed have left before.                                 *)
THEOREM ConvergedHolds == Spec => []Converged
BY WholeInvariant, WholeConverged, PTL

----------------------------------------------------------------------------
(* One replica heals.  As long as the commands wanted at most one replica, *)
(* never forced it to be recreated, and one that failed was run again:     *)
(* every container has the number 1; two of them are an obsolete one and   *)
(* its replacement; a creation finds nothing there, a recreation only the  *)
(* container it replaces and later the replacement.                        *)
WantsOne == commands > 0 => Plain(want)

NumbersAreOne ==
  /\ \A id \in IDs : containers[id].number = 1
  /\ \A id \in Observed : observed[id].number = 1
  /\ \A t \in tasks : t.kind \in {"recreate", "create"} => t.number = 1

OldAndNew(f) ==
  \A id, other \in DOMAIN f : id # other =>
    /\ want.policy = "diverged"
    /\ f[id].config = want.config <=> f[other].config # want.config

CreatesAlone == \A t \in tasks : t.kind = "create" => IDs = {} /\ Observed = {}

RecreatesAlone ==
  \A t \in tasks : t.kind = "recreate" =>
    /\ Observed = {t.id}
    /\ t.at = "create" => IDs \subseteq Observed
    /\ \A id \in IDs \ Observed : containers[id].name = TmpNameOf(t)

(* What RetryHeals needs: nothing goes wrong by itself.                    *)
Untouched == faults = faultsBefore /\ \A id \in Observed : observed[id].state # "paused"

GoesWell == /\ phase # "failed" /\ ~cancelled /\ lost = {}
            /\ \A t \in tasks : t.kind # "start"

Alone ==
  /\ WantsOne /\ NumbersAreOne /\ OldAndNew(containers) /\ OldAndNew(observed)
  /\ CreatesAlone /\ RecreatesAlone

Lone == Alone /\ (Untouched => GoesWell)

Heals == oneReplica => Lone

(* A step that creates and renames nothing and launches no goroutine that  *)
(* does.                                                                   *)
LEMMA AloneShrinks ==
  ASSUME Alone, IDs' \subseteq IDs,
         \A id \in IDs' : /\ containers'[id].number = containers[id].number
                          /\ containers'[id].config = containers[id].config
                          /\ containers'[id].name = containers[id].name,
         UNCHANGED <<observed, want, commands>>,
         \A v \in tasks' : v.kind \in {"recreate", "create"} =>
           \E w \in tasks : /\ w.kind = v.kind /\ w.id = v.id /\ w.number = v.number
                            /\ v.at = "create" => w.at = "create"
  PROVE  Alone'
<1>1. Observed' = Observed
  BY DEF Observed
<1>2. WantsOne'
  BY DEF Alone, WantsOne
<1>3. NumbersAreOne'
  BY <1>1 DEF Alone, NumbersAreOne
<1>4. OldAndNew(containers)'
  BY DEF Alone, OldAndNew, IDs
<1>5. OldAndNew(observed)'
  BY DEF Alone, OldAndNew
<1>6. CreatesAlone'
  BY <1>1 DEF Alone, CreatesAlone
<1>7. RecreatesAlone'
  <2> SUFFICES ASSUME NEW v \in tasks', v.kind = "recreate"
               PROVE  /\ Observed = {v.id}
                      /\ v.at = "create" => IDs' \subseteq Observed
                      /\ \A id \in IDs' \ Observed : containers'[id].name = TmpNameOf(v)
    BY <1>1 DEF RecreatesAlone
  <2>1. PICK w \in tasks : /\ w.kind = v.kind /\ w.id = v.id /\ w.number = v.number
                           /\ v.at = "create" => w.at = "create"
    OBVIOUS
  <2>2. TmpNameOf(v) = TmpNameOf(w)
    BY <2>1 DEF TmpNameOf
  <2> QED  BY <2>1, <2>2 DEF Alone, RecreatesAlone
<1> QED  BY <1>2, <1>3, <1>4, <1>5, <1>6, <1>7 DEF Alone

(* Who creates or recreates is the only one to.                            *)
LEMMA OnlyMaker ==
  ASSUME Typed, Apart, Alone, NEW t \in tasks, t.kind \in {"create", "recreate"},
         NEW v \in tasks, v.kind \in {"create", "recreate"}
  PROVE  v = t
<1>1. t.kind = "create" => Observed = {}
  BY DEF Alone, CreatesAlone
<1>2. v.kind = "create" => Observed = {}
  BY DEF Alone, CreatesAlone
<1>3. t.kind = "recreate" => Observed = {t.id}
  BY DEF Alone, RecreatesAlone
<1>4. v.kind = "recreate" => Observed = {v.id}
  BY DEF Alone, RecreatesAlone
<1>5. CASE t.kind = "create" /\ v.kind = "create"
  <2>1. t \in Creations /\ v \in Creations
    BY <1>5, KindOf DEF Typed
  <2>2. t.number = 1 /\ v.number = 1
    BY DEF Alone, NumbersAreOne
  <2> QED  BY <2>1, <2>2 DEF Creations
<1>6. CASE t.kind = "recreate" /\ v.kind = "recreate"
  <2>1. t.id = v.id
    BY <1>3, <1>4, <1>6
  <2> QED  BY <1>6, <2>1 DEF Apart, OneTaskEach
<1> QED  BY <1>1, <1>2, <1>3, <1>4, <1>5, <1>6

LEMMA CreatedAlone ==
  ASSUME Whole, Alone, commands > 0, NEW t \in tasks, t.at = "create", t.kind \in {"create", "recreate"},
         NEW name, Created(name, t.number), UNCHANGED want
  PROVE  /\ IDs' = IDs \cup {nextID} /\ nextID \notin IDs
         /\ IDs \subseteq {t.id} \cap Observed
         /\ containers'[nextID].name = name
         /\ \A id \in IDs' : containers'[id].number = 1
         /\ OldAndNew(containers)'
<1>1. /\ IDs' = IDs \cup {nextID} /\ nextID \notin IDs
      /\ containers'[nextID] =
           [name |-> name, number |-> t.number, config |-> want.config, state |-> "created"]
      /\ \A id \in IDs : containers'[id] = containers[id]
  BY CreatedEffect DEF Whole, Inv, Typed
<1>2. t.number = 1
  BY DEF Alone, NumbersAreOne
<1>3. \A id \in IDs' : containers'[id].number = 1
  BY <1>1, <1>2 DEF Alone, NumbersAreOne
<1>4. CASE t.kind = "create"
  <2>1. IDs = {}
    BY <1>4 DEF Alone, CreatesAlone
  <2>2. OldAndNew(containers)'
    BY <1>1, <2>1 DEF OldAndNew, IDs
  <2> QED  BY <1>1, <1>3, <2>1, <2>2
<1>5. CASE t.kind = "recreate"
  <2>1. Observed = {t.id} /\ IDs \subseteq Observed
    BY <1>5 DEF Alone, RecreatesAlone
  <2>2. MustRecreate(t.id)
    BY <1>5 DEF Whole, Facts, RecreatedMustBe
  <2>3. want.policy = "diverged" /\ observed[t.id].config # want.config
    BY <2>2 DEF Alone, WantsOne, Plain, MustRecreate
  <2>4. \A id \in IDs : id = t.id /\ containers[id].config # want.config
    BY <2>1, <2>3 DEF Whole, Facts, ConfigsKept
  <2>5. OldAndNew(containers)'
    BY <1>1, <2>3, <2>4 DEF OldAndNew, IDs
  <2> QED  BY <1>1, <1>3, <2>1, <2>5
<1> QED  BY <1>4, <1>5

LEMMA GoneMaker ==
  ASSUME Typed, Apart, Alone, NEW t \in tasks, t.kind \in {"create", "recreate"}, Ends(t)
  PROVE  CreatesAlone' /\ RecreatesAlone'
<1>1. \A v \in tasks' : v \in tasks /\ v # t
  BY DEF Ends
<1>2. \A v \in tasks' : v.kind \notin {"create", "recreate"}
  BY <1>1, OnlyMaker
<1> QED  BY <1>2 DEF CreatesAlone, RecreatesAlone

LEMMA MakerAlone ==
  ASSUME Whole, Alone, commands > 0, NEW t \in tasks, t.kind \in {"create", "recreate"}, Ends(t),
         UNCHANGED <<observed, want, commands>>,
         \/ IDs' = IDs /\ \A id \in IDs : /\ containers'[id].number = containers[id].number
                                          /\ containers'[id].config = containers[id].config
         \/ t.at = "create" /\ \E name : Created(name, t.number)
  PROVE  Alone'
<1>1. Observed' = Observed /\ Typed /\ Apart
  BY DEF Observed, Whole, Inv
<1>2. CreatesAlone' /\ RecreatesAlone'
  BY <1>1, GoneMaker
<1>3. WantsOne'
  BY DEF Alone, WantsOne
<1>4. OldAndNew(observed)'
  BY DEF Alone, OldAndNew
<1>5. \A v \in tasks' : v \in tasks
  BY DEF Ends
<1>6. (\A id \in IDs' : containers'[id].number = 1) /\ OldAndNew(containers)'
  <2>1. CASE IDs' = IDs /\ \A id \in IDs : /\ containers'[id].number = containers[id].number
                                           /\ containers'[id].config = containers[id].config
    BY <2>1 DEF Alone, NumbersAreOne, OldAndNew, IDs
  <2>2. CASE t.at = "create" /\ \E name : Created(name, t.number)
    <3>1. PICK name : Created(name, t.number)
      BY <2>2
    <3> QED  BY <2>2, <3>1, CreatedAlone
  <2> QED  BY <2>1, <2>2
<1>7. NumbersAreOne'
  BY <1>1, <1>5, <1>6 DEF Alone, NumbersAreOne
<1> QED  BY <1>2, <1>3, <1>4, <1>6, <1>7 DEF Alone

LEMMA CreateReplacementAlone ==
  ASSUME Whole, Alone, commands > 0, NEW t \in tasks, CreateReplacement(t)
  PROVE  Alone'
<1>1. t.kind = "recreate" /\ t.at = "create" /\ UNCHANGED <<observed, want, commands>> /\ Typed /\ Apart
  BY DEF CreateReplacement, Progress, Whole, Inv
<1>2. Observed' = Observed
  BY <1>1 DEF Observed
<1>3. /\ IDs' = IDs \cup {nextID} /\ nextID \notin IDs
      /\ IDs \subseteq {t.id} \cap Observed
      /\ containers'[nextID].name = TmpNameOf(t)
      /\ \A id \in IDs' : containers'[id].number = 1
      /\ OldAndNew(containers)'
  BY <1>1, CreatedAlone DEF CreateReplacement
<1> DEFINE u == [t EXCEPT !.at = "stop"]
<1>4. /\ tasks' = (tasks \ {t}) \cup {u}
      /\ u.kind = t.kind /\ u.id = t.id /\ u.number = t.number /\ u.at = "stop"
  <2>1. [t EXCEPT !.at = "stop"] \in Tasks /\ TasksOK
    BY <1>1, KindOf DEF Tasks, Recreations, Typed
  <2>2. Goes(t, "stop") /\ t.kind # "create"
    BY <1>1 DEF CreateReplacement
  <2> QED  BY <1>1, <2>1, <2>2, GoesOK
<1> HIDE DEF u
<1>5. \A v \in tasks' : v.kind \in {"create", "recreate"} => v = u
  BY <1>1, <1>4, OnlyMaker
<1>6. TmpNameOf(u) = TmpNameOf(t)
  BY <1>4 DEF TmpNameOf
<1>7. CreatesAlone'
  BY <1>1, <1>4, <1>5 DEF CreatesAlone
<1>8. RecreatesAlone'
  <2>1. Observed = {t.id}
    BY <1>1 DEF Alone, RecreatesAlone
  <2>2. \A id \in IDs' \ Observed : containers'[id].name = TmpNameOf(u)
    BY <1>3, <1>6
  <2> QED  BY <1>2, <1>4, <1>5, <2>1, <2>2 DEF RecreatesAlone
<1>9. NumbersAreOne'
  BY <1>1, <1>2, <1>3, <1>4, <1>5 DEF Alone, NumbersAreOne
<1>10. WantsOne' /\ OldAndNew(observed)'
  BY <1>1 DEF Alone, WantsOne, OldAndNew
<1> QED  BY <1>3, <1>7, <1>8, <1>9, <1>10 DEF Alone

LEMMA GoroutineAlone ==
  ASSUME Whole, Alone, commands > 0, NEW t \in tasks, Goroutine(t)
  PROVE  Alone'
<1>1. Typed /\ TasksOK /\ ContainersOK
  BY DEF Whole, Inv, Typed
<1>2. UNCHANGED <<observed, want, commands>>
  BY DEF Goroutine, EngineRefuses, ContextCancelled, StopToRemove, ForceRemove, CreateReplacement,
         StopReplaced, RemoveReplaced, RenameReplacement, CreateReplica, Progress, Fails, EngineFails
<1>3. ASSUME NEW at, Goes(t, at), t.kind # "create", [t EXCEPT !.at = at] \in Tasks, at # "create",
             IDs' \subseteq IDs,
             \A id \in IDs' : /\ containers'[id].number = containers[id].number
                              /\ containers'[id].config = containers[id].config
                              /\ containers'[id].name = containers[id].name
      PROVE  Alone'
  <2>1. PICK u : /\ tasks' = (tasks \ {t}) \cup {u}
                 /\ u.kind = t.kind /\ u.id = t.id /\ u.number = t.number /\ u.at = at
    BY <1>1, <1>3 DEF Goes, TasksOK, Tasks, Removals, Recreations, Starts, Creations
  <2>2. \A v \in tasks' : v.kind \in {"recreate", "create"} =>
          \E w \in tasks : /\ w.kind = v.kind /\ w.id = v.id /\ w.number = v.number
                           /\ v.at = "create" => w.at = "create"
    BY <1>3, <2>1
  <2> QED  BY <1>2, <1>3, <2>2, AloneShrinks
<1>4. ASSUME Ends(t), IDs' \subseteq IDs,
             \A id \in IDs' : /\ containers'[id].number = containers[id].number
                              /\ containers'[id].config = containers[id].config
                              /\ containers'[id].name = containers[id].name
      PROVE  Alone'
  <2>1. \A v \in tasks' : v.kind \in {"recreate", "create"} =>
          \E w \in tasks : /\ w.kind = v.kind /\ w.id = v.id /\ w.number = v.number
                           /\ v.at = "create" => w.at = "create"
    BY <1>4 DEF Ends
  <2> QED  BY <1>2, <1>4, <2>1, AloneShrinks
<1>5. CASE StopToRemove(t)
  <2>1. CASE t.id \in IDs
    <3>1. /\ IDs' = IDs
          /\ \A id \in IDs : /\ containers'[id].name = containers[id].name
                             /\ containers'[id].number = containers[id].number
                             /\ containers'[id].config = containers[id].config
      BY <1>1, <1>5, <2>1, StateOK DEF StopToRemove, States
    <3>2. Goes(t, "remove") /\ t.kind # "create" /\ [t EXCEPT !.at = "remove"] \in Tasks
      BY <1>1, <1>5, <2>1, KindOf DEF StopToRemove, Tasks, Removals
    <3> QED  BY <1>3, <3>1, <3>2
  <2>2. CASE t.id \notin IDs
    <3>1. IDs' = IDs /\ Ends(t) /\ UNCHANGED containers
      BY <1>5, <2>2 DEF StopToRemove, IDs
    <3> QED  BY <1>4, <3>1
  <2> QED  BY <2>1, <2>2
<1>6. CASE ForceRemove(t)
  <2>1. IDs' = IDs \ {t.id} /\ (\A i \in IDs' : containers'[i] = containers[i]) /\ Ends(t)
    BY <1>1, <1>6, GoneOK DEF ForceRemove
  <2> QED  BY <1>4, <2>1
<1>7. CASE StopReplaced(t)
  <2>1. /\ IDs' = IDs
        /\ \A id \in IDs : /\ containers'[id].name = containers[id].name
                           /\ containers'[id].number = containers[id].number
                           /\ containers'[id].config = containers[id].config
    BY <1>1, <1>7, StateOK DEF StopReplaced, States
  <2>2. Goes(t, "remove") /\ t.kind # "create" /\ [t EXCEPT !.at = "remove"] \in Tasks
    BY <1>1, <1>7, KindOf DEF StopReplaced, Tasks, Recreations
  <2> QED  BY <1>3, <2>1, <2>2
<1>8. CASE RemoveReplaced(t)
  <2>1. IDs' = IDs \ {t.id} /\ \A i \in IDs' : containers'[i] = containers[i]
    BY <1>1, <1>8, GoneOK DEF RemoveReplaced
  <2>2. Goes(t, "rename") /\ t.kind # "create" /\ [t EXCEPT !.at = "rename"] \in Tasks
    BY <1>1, <1>8, KindOf DEF RemoveReplaced, Tasks, Recreations
  <2> QED  BY <1>3, <2>1, <2>2
<1>9. CASE RenameReplacement(t)
  <2>1. PICK new \in IDs : /\ IDs' = IDs
                           /\ \A i \in IDs : containers'[i].number = containers[i].number
                           /\ \A i \in IDs : containers'[i].config = containers[i].config
    BY <1>1, <1>9, RenameEffect
  <2>2. t.kind \in {"create", "recreate"} /\ Ends(t)
    BY <1>9 DEF RenameReplacement
  <2> QED  BY <1>2, <2>1, <2>2, MakerAlone
<1>10. CASE CreateReplica(t)
  <2>1. t.kind \in {"create", "recreate"} /\ t.at = "create" /\ Ends(t) /\ Created(Name(t.number), t.number)
    BY <1>1, <1>10, KindOf DEF CreateReplica
  <2> QED  BY <1>2, <2>1, MakerAlone
<1>11. CASE CreateReplacement(t)
  BY <1>11, CreateReplacementAlone
<1>12. CASE Fails(t)
  <2>1. IDs' = IDs /\ Ends(t) /\ UNCHANGED containers
    BY <1>12 DEF Fails, engine, IDs
  <2> QED  BY <1>4, <2>1
<1>13. CASE EngineFails(t)
  <2>1. Ends(t)
    BY <1>13 DEF EngineFails
  <2>2. CASE UNCHANGED <<containers, nextID>>
    <3>1. IDs' = IDs /\ UNCHANGED containers
      BY <2>2 DEF IDs
    <3> QED  BY <1>4, <2>1, <3>1
  <2>3. CASE ~UNCHANGED <<containers, nextID>>
    <3>1. t.at = "create" /\ \E name : Created(name, t.number)
      BY <1>13, <2>3 DEF EngineFails
    <3>2. t.kind \in {"create", "recreate"}
      BY <1>1, <3>1, KindOf
    <3> QED  BY <1>2, <2>1, <3>1, <3>2, MakerAlone
  <2> QED  BY <2>2, <2>3
<1> QED  BY <1>5, <1>6, <1>7, <1>8, <1>9, <1>10, <1>11, <1>12, <1>13
         DEF Goroutine, EngineRefuses, ContextCancelled

LEMMA BeginAlone ==
  ASSUME Whole, Alone, Begin, Plain(want'), phase = "failed" => want' = want
  PROVE  Alone'
<1>1. /\ IDs' = IDs /\ Observed' = IDs /\ observed' = containers /\ UNCHANGED containers /\ tasks' = {}
  BY BeginTyped DEF Whole, Inv, Begin, Observed, IDs
<1>2. OldAndNew(containers)' /\ OldAndNew(observed)'
  <2>1. CASE phase = "failed"
    BY <1>1, <2>1 DEF Alone, OldAndNew
  <2>2. CASE phase # "failed"
    <3>1. \A id, other \in IDs : id = other
      <4> SUFFICES ASSUME NEW id \in IDs, NEW other \in IDs, id # other PROVE FALSE
        OBVIOUS
      <4>1. phase = "ok"
        BY <2>2 DEF Whole, Inv, Typed, ScalarsOK, Begin
      <4>2. ~cancelled /\ tasks = {} /\ rest = {}
        BY <4>1 DEF Whole, Inv, Typed, ScalarsOK
      <4>3. \A i \in IDs \cap Observed : ~MustRecreate(i)
        BY <4>1, <4>2 DEF Whole, Facts, ObsoletePending
      <4>4. /\ want.policy = "diverged"
            /\ containers[id].config = want.config <=> containers[other].config # want.config
        BY DEF Alone, OldAndNew, IDs
      <4>5. \A i \in IDs : containers[i].config = want.config
        BY <4>3, <4>4 DEF Whole, Facts, ConfigsKept, MustRecreate
      <4> QED  BY <4>4, <4>5
    <3> QED  BY <1>1, <3>1 DEF OldAndNew, IDs
  <2> QED  BY <2>1, <2>2
<1>3. NumbersAreOne'
  BY <1>1 DEF Alone, NumbersAreOne
<1>4. WantsOne' /\ CreatesAlone' /\ RecreatesAlone'
  BY <1>1 DEF WantsOne, CreatesAlone, RecreatesAlone
<1> QED  BY <1>2, <1>3, <1>4 DEF Alone

LEMMA ScaleUpAlone ==
  ASSUME Whole, Alone, commands > 0, ScaleUp
  PROVE  Alone'
<1>1. /\ phase = "loop" /\ rest = {} /\ UNCHANGED <<containers, observed, want, commands>>
      /\ tasks' = tasks \cup Additions /\ IDs' = IDs /\ Observed' = Observed
  BY ScaleUpTyped DEF ScaleUp, engine, Whole, Inv, Observed
<1>2. ListOK /\ want \in Wants /\ want.scale <= 1
  BY DEF Whole, Inv, Typed, ScalarsOK, Alone, WantsOne, Plain
<1>3. /\ Cardinality(Observed) \in Nat /\ want.scale \in Nat /\ Missing \in Int
      /\ IsFiniteSet(Additions)
      /\ Cardinality(Additions) = IF Missing <= 0 THEN 0 ELSE Missing
      /\ \A u \in Additions : u.kind = "create"
  BY <1>2, AdditionsOK
<1>4. CASE Missing <= 0
  <2>1. Additions = {}
    BY <1>3, <1>4, FS_EmptySet
  <2>2. UNCHANGED <<tasks, observed, want, commands, containers>> /\ IDs' = IDs
    BY <1>1, <2>1
  <2>3. \A v \in tasks' : v.kind \in {"recreate", "create"} =>
          \E w \in tasks : /\ w.kind = v.kind /\ w.id = v.id /\ w.number = v.number
                           /\ v.at = "create" => w.at = "create"
    BY <2>2
  <2> QED  BY <2>2, <2>3, AloneShrinks
<1>5. CASE ~(Missing <= 0)
  <2>1. Missing = 1 /\ Cardinality(Observed) = 0
    BY <1>2, <1>3, <1>5 DEF Missing
  <2>2. Observed = {}
    BY <1>2, <2>1, FS_EmptySet DEF ListOK
  <2>3. IDs = {}
    BY <1>1, <2>2 DEF Whole, Facts, NoEarlyCreations
  <2>4. NextContainerNumber = 1
    <3>1. {0} \cup {observed[id].number : id \in DOMAIN observed} = {0}
      BY <2>2 DEF Observed
    <3>2. Max({0}) = 0
      BY DEF Max
    <3> QED  BY <3>1, <3>2 DEF NextContainerNumber
  <2>5. \A u \in Additions : u.number = 1
    BY <2>1, <2>4 DEF Additions, Creation
  <2>6. tasks = {} \/ \A v \in tasks : v.kind = "create"
    BY <2>2 DEF Whole, Inv, Typed, TasksOK
  <2>7. CreatesAlone'
    BY <1>1, <2>2, <2>3 DEF CreatesAlone
  <2>8. RecreatesAlone'
    BY <1>1, <1>3, <2>6 DEF RecreatesAlone
  <2>9. NumbersAreOne'
    BY <1>1, <2>5 DEF Alone, NumbersAreOne
  <2>10. WantsOne' /\ OldAndNew(containers)' /\ OldAndNew(observed)'
    BY <1>1 DEF Alone, WantsOne, OldAndNew
  <2> QED  BY <2>7, <2>8, <2>9, <2>10 DEF Alone
<1> QED  BY <1>4, <1>5

LEMMA LoopRecreatesAlone ==
  ASSUME Whole, Alone, commands > 0, NEW id \in rest, LoopRecreates(id)
  PROVE  Alone'
<1>1. /\ phase = "loop" /\ UNCHANGED <<containers, observed, want, commands>> /\ Observed' = Observed
      /\ tasks' = tasks \cup {Recreation(id)} /\ IDs' = IDs /\ id \in Observed /\ MustRecreate(id)
      /\ rest \subseteq Observed /\ IsFiniteSet(Observed)
  BY LoopRecreatesTyped DEF LoopRecreates, LoopStep, Whole, Inv, Observed, Typed, ListOK
<1>2. want.scale <= 1 /\ want.policy = "diverged" /\ observed[id].config # want.config
  BY <1>1 DEF Alone, WantsOne, Plain, MustRecreate
<1>3. rest = Observed
  <2>1. /\ Cardinality(Observed) \in Nat /\ Cardinality(rest) \in Nat /\ want.scale \in Nat
        /\ Index = Cardinality(Observed) - Cardinality(rest) /\ Index \in Nat
    BY Cards DEF Whole, Inv
  <2>2. Index < want.scale
    BY <2>1 DEF LoopRecreates, ScaleDown
  <2>3. Cardinality(Observed) = Cardinality(rest)
    BY <1>2, <2>1, <2>2
  <2> QED  BY <1>1, <2>3, FS_Subset
<1>4. Observed = {id}
  <2>1. \A i \in rest : MustRecreate(i)
    BY <1>1 DEF LoopRecreates, LoopStep, NextInLoop
  <2>2. \A i \in Observed : observed[i].config # want.config
    BY <1>2, <1>3, <2>1 DEF MustRecreate
  <2>3. \A i \in Observed : i = id
    BY <1>1, <2>2 DEF Alone, OldAndNew, Observed
  <2> QED  BY <1>1, <2>3
<1>5. IDs \subseteq Observed
  BY <1>1, <1>3 DEF Whole, Facts, NoEarlyCreations
<1>6. /\ Recreation(id).kind = "recreate" /\ Recreation(id).id = id
      /\ Recreation(id).number = observed[id].number
  BY DEF Recreation
<1>7. CreatesAlone'
  BY <1>1, <1>6 DEF Alone, CreatesAlone
<1>8. RecreatesAlone'
  BY <1>1, <1>4, <1>5, <1>6 DEF Alone, RecreatesAlone
<1>9. NumbersAreOne'
  BY <1>1, <1>6 DEF Alone, NumbersAreOne
<1>10. WantsOne' /\ OldAndNew(containers)' /\ OldAndNew(observed)'
  BY <1>1 DEF Alone, WantsOne, OldAndNew
<1> QED  BY <1>7, <1>8, <1>9, <1>10 DEF Alone

LEMMA AloneStep ==
  ASSUME Whole, Alone, Next, commands' # commands => Plain(want') /\ (phase = "failed" => want' = want)
  PROVE  Alone'
<1>0. commands \in Nat /\ (commands = 0 => tasks = {} /\ rest = {} /\ phase = "idle" /\ IDs = {})
  BY BoundsAssumption DEF Whole, Inv, Typed, ScalarsOK
<1>a. Typed /\ ContainersOK
  BY DEF Whole, Inv, Typed
<1>b. ASSUME IDs' \subseteq IDs, UNCHANGED <<observed, want, commands>>,
             \A id \in IDs' : /\ containers'[id].number = containers[id].number
                              /\ containers'[id].config = containers[id].config
                              /\ containers'[id].name = containers[id].name,
             \A v \in tasks' : v \in tasks \/ v.kind \in {"remove", "start"}
      PROVE  Alone'
  <2>1. \A v \in tasks' : v.kind \in {"recreate", "create"} =>
          \E w \in tasks : /\ w.kind = v.kind /\ w.id = v.id /\ w.number = v.number
                           /\ v.at = "create" => w.at = "create"
    BY <1>b
  <2> QED  BY <1>b, <2>1, AloneShrinks
<1>1. CASE Begin
  <2>1. commands' # commands
    BY <1>0, <1>1 DEF Begin
  <2> QED  BY <1>1, <2>1, BeginAlone
<1>2. CASE ScaleUp
  <2>1. commands > 0
    BY <1>0, <1>2 DEF ScaleUp
  <2> QED  BY <1>2, <2>1, ScaleUpAlone
<1>3. CASE WaitReturns
  <2>1. IDs' = IDs /\ UNCHANGED <<containers, observed, want, commands, tasks>>
    BY <1>3 DEF WaitReturns, engine, IDs
  <2> QED  BY <1>b, <2>1
<1>4. CASE Killed
  <2>1. IDs' = IDs /\ UNCHANGED <<containers, observed, want, commands>> /\ tasks' = {}
    BY <1>4 DEF Killed, engine, IDs
  <2> QED  BY <1>b, <2>1
<1>5. ASSUME NEW id \in rest, LoopRemoves(id) \/ LoopRecreates(id) \/ LoopKeeps(id) \/ LoopReturnsEarly(id)
      PROVE  Alone'
  <2>1. CASE LoopRecreates(id)
    <3>1. commands > 0
      BY <1>0
    <3> QED  BY <2>1, <3>1, LoopRecreatesAlone
  <2>2. CASE LoopRemoves(id) \/ LoopKeeps(id)
    <3>1. IDs' = IDs /\ UNCHANGED <<containers, observed, want, commands>>
      BY <2>2 DEF LoopRemoves, LoopKeeps, LoopStep, IDs
    <3>2. \A v \in tasks' : v \in tasks \/ v.kind \in {"remove", "start"}
      BY <2>2 DEF LoopRemoves, LoopKeeps, Removal, Start
    <3> QED  BY <1>b, <3>1, <3>2
  <2>3. CASE LoopReturnsEarly(id)
    <3>1. IDs' = IDs /\ UNCHANGED <<containers, observed, want, commands, tasks>>
      BY <2>3 DEF LoopReturnsEarly, engine, IDs
    <3> QED  BY <1>b, <3>1
  <2> QED  BY <1>5, <2>1, <2>2, <2>3
<1>6. ASSUME NEW t \in tasks, Goroutine(t)
      PROVE  Alone'
  <2>1. commands > 0
    BY <1>0
  <2> QED  BY <1>6, <2>1, GoroutineAlone
<1>7. ASSUME NEW id \in IDs, RemovedByOthers(id)
      PROVE  Alone'
  <2>1. IDs' = IDs \ {id} /\ \A i \in IDs' : containers'[i] = containers[i]
    BY <1>a, <1>7, GoneOK DEF RemovedByOthers
  <2>2. UNCHANGED <<observed, want, commands, tasks>>
    BY <1>7 DEF RemovedByOthers, command
  <2> QED  BY <1>b, <2>1, <2>2
<1>8. ASSUME NEW id \in IDs, PausedByOthers(id)
      PROVE  Alone'
  <2>1. /\ IDs' = IDs
        /\ \A i \in IDs : /\ containers'[i].name = containers[i].name
                          /\ containers'[i].number = containers[i].number
                          /\ containers'[i].config = containers[i].config
    BY <1>a, <1>8, StateOK DEF PausedByOthers, States
  <2>2. UNCHANGED <<observed, want, commands, tasks>>
    BY <1>8 DEF PausedByOthers, command
  <2> QED  BY <1>b, <2>1, <2>2
<1> QED  BY <1>1, <1>2, <1>3, <1>4, <1>5, <1>6, <1>7, <1>8 DEF Next

(* The engine refuses nothing.                                             *)
LEMMA NothingRefusedAlone ==
  ASSUME Whole, Alone, GoesWell, NEW t \in tasks
  PROVE  ~Refused(t)
<1>1. phase \in {"loop", "wait"} /\ Typed /\ Apart /\ Accounted /\ Facts
  BY DEF GoesWell, Whole, Inv, Typed, ScalarsOK
<1>2. Books
  BY <1>1 DEF GoesWell, Accounted, Books, Regular
<1>3. t.kind \in {"remove", "recreate", "create"}
  BY <1>1, KindOf DEF GoesWell, Typed
<1>4. CASE t.kind = "create"
  <2>1. IDs = {}
    BY <1>4 DEF Alone, CreatesAlone
  <2> QED  BY <1>4, <2>1 DEF Refused, NameTaken
<1>5. CASE t.kind = "recreate" /\ t.at = "create"
  <2>1. IDs \subseteq {t.id}
    BY <1>5 DEF Alone, RecreatesAlone
  <2>2. TmpNameOf(t).replaces = t.id /\ t.id \in Nat
    BY <1>1, <1>5, TmpNameOK, KindOf DEF Typed
  <2>3. \A id \in IDs : containers[id].name.replaces < t.id
    BY <1>1, <2>1 DEF Facts, NamesAreOlder
  <2>4. ~NameTaken(TmpNameOf(t))
    BY <2>2, <2>3 DEF NameTaken
  <2> QED  BY <1>5, <2>4 DEF Refused
<1>6. CASE t.kind = "recreate" /\ t.at = "rename"
  <2>1. Replacements(t) # {}
    BY <1>2, <1>6 DEF Books, ReplacementsThere, Replacing, Replacements
  <2>2. ~NameTaken(Name(t.number))
    <3>1. t.id \notin IDs
      BY <1>1, <1>6 DEF Facts, ReplacedGone
    <3>2. \A id \in IDs : containers[id].name = TmpNameOf(t)
      BY <1>6, <3>1 DEF Alone, RecreatesAlone
    <3>3. TmpNameOf(t).replaces = t.id /\ t.id \in 1..(nextID - 1) /\ Name(t.number).replaces = 0
      BY <1>1, <1>6, TmpNameOK DEF Name
    <3> QED  BY <3>2, <3>3 DEF NameTaken
  <2> QED  BY <1>6, <2>1, <2>2 DEF Refused
<1>7. CASE t.kind = "recreate" /\ t.at \in {"stop", "remove"}
  BY <1>2, <1>7 DEF Refused, Books, TargetsThere, Replaced
<1>8. CASE t.kind = "remove"
  BY <1>8 DEF Refused
<1>9. t.kind = "recreate" => t.at \in {"create", "stop", "remove", "rename"}
  BY <1>1, KindOf DEF Typed
<1> QED  BY <1>3, <1>4, <1>5, <1>6, <1>7, <1>8, <1>9

LEMMA GoesWellStep ==
  ASSUME Whole, Alone, Untouched => GoesWell, Next
  PROVE  Untouched' => GoesWell'
<1> SUFFICES ASSUME Untouched' PROVE GoesWell'
  OBVIOUS
<1>0. faults \in Nat /\ faultsBefore \in Nat /\ faultsBefore <= faults /\ Typed
  BY BoundsAssumption DEF Whole, Inv, Typed, ScalarsOK
<1>a. ASSUME faults' = faults + 1, faultsBefore' = faultsBefore
      PROVE  FALSE
  <2>1. faults' = faultsBefore'
    BY DEF Untouched
  <2> QED  BY <1>0, <1>a, <2>1
<1>b. ASSUME UNCHANGED <<faults, faultsBefore, observed>>
      PROVE  Untouched /\ GoesWell
  BY <1>b DEF Untouched, Observed
<1>1. CASE Begin
  BY <1>1 DEF Begin, GoesWell
<1>2. CASE ScaleUp
  <2>1. GoesWell
    BY <1>2, <1>b DEF ScaleUp
  <2>2. tasks' = tasks \cup Additions /\ \A u \in Additions : u.kind = "create"
    BY <1>0, <1>2, ScaleUpTyped, AdditionsOK DEF Typed, ScalarsOK
  <2> QED  BY <1>2, <2>1, <2>2 DEF ScaleUp, GoesWell
<1>3. CASE WaitReturns
  <2>1. GoesWell
    BY <1>3, <1>b DEF WaitReturns
  <2> QED  BY <1>3, <2>1 DEF WaitReturns, GoesWell
<1>4. CASE Killed
  BY <1>4, <1>a DEF Killed
<1>5. ASSUME NEW id \in rest, LoopRemoves(id) \/ LoopRecreates(id) \/ LoopKeeps(id) \/ LoopReturnsEarly(id)
      PROVE  GoesWell'
  <2>1. CASE LoopReturnsEarly(id)
    BY <1>a, <2>1 DEF LoopReturnsEarly
  <2>2. CASE LoopRemoves(id) \/ LoopRecreates(id) \/ LoopKeeps(id)
    <3>1. LoopStep(id) /\ phase = "loop" /\ phase' = phase
      BY <2>2 DEF LoopRemoves, LoopRecreates, LoopKeeps, LoopStep
    <3>a. dependents' \in {dependents, "stopped"} /\ UNCHANGED <<observed, faults, faultsBefore, cancelled, lost>>
      BY <2>2 DEF LoopRemoves, LoopRecreates, LoopKeeps, LoopStep
    <3>2. Untouched /\ GoesWell
      BY <1>b, <3>a
    <3>3. id \in Observed /\ observed[id].state # "paused"
      BY <1>0, <3>2 DEF Untouched, Typed, ListOK
    <3>4. \A v \in tasks' : v \in tasks \/ v.kind # "start"
      BY <2>2, <3>3 DEF LoopRemoves, LoopRecreates, LoopKeeps, Removal, Recreation
    <3> QED  BY <3>1, <3>a, <3>2, <3>4 DEF GoesWell
  <2> QED  BY <1>5, <2>1, <2>2
<1>6. ASSUME NEW t \in tasks, Goroutine(t)
      PROVE  GoesWell'
  <2>1. ~EngineFails(t)
    BY <1>a DEF EngineFails
  <2>2. UNCHANGED <<faults, faultsBefore, observed, phase, lost>>
    BY <1>6, <2>1 DEF Goroutine, EngineRefuses, ContextCancelled, StopToRemove, ForceRemove,
       CreateReplacement, StopReplaced, RemoveReplaced, RenameReplacement, CreateReplica, Progress, Fails
  <2>3. GoesWell
    BY <1>b, <2>2
  <2>4. ~Refused(t) /\ ~cancelled
    BY <2>3, NothingRefusedAlone DEF GoesWell
  <2>5. UNCHANGED cancelled
    BY <1>6, <2>1, <2>4 DEF Goroutine, EngineRefuses, ContextCancelled, StopToRemove, ForceRemove,
       CreateReplacement, StopReplaced, RemoveReplaced, RenameReplacement, CreateReplica, Progress
  <2>6. \A v \in tasks' : \E w \in tasks : w.kind = v.kind
    BY <1>0, <1>6, GoroutineEffect
  <2> QED  BY <2>2, <2>3, <2>5, <2>6 DEF GoesWell
<1>7. ASSUME NEW id \in IDs, RemovedByOthers(id) \/ PausedByOthers(id)
      PROVE  GoesWell'
  BY <1>7, <1>a DEF RemovedByOthers, PausedByOthers, command
<1> QED  BY <1>1, <1>2, <1>3, <1>4, <1>5, <1>6, <1>7 DEF Next

LEMMA MCInvariant == MCSpec => [](Whole /\ Heals)
<1>1. MCInit => Whole /\ Heals
  <2> SUFFICES ASSUME MCInit PROVE Whole /\ Heals
    OBVIOUS
  <2>1. Whole
    BY InitWhole DEF MCInit
  <2>2. IDs = {} /\ Observed = {} /\ tasks = {} /\ phase = "idle" /\ commands = 0 /\ ~cancelled /\ lost = {}
    BY DEF MCInit, Init, IDs, Observed
  <2>3. Alone
    BY <2>2 DEF Alone, WantsOne, NumbersAreOne, OldAndNew, CreatesAlone, RecreatesAlone, IDs, Observed
  <2>4. GoesWell
    BY <2>2 DEF GoesWell
  <2> QED  BY <2>1, <2>3, <2>4 DEF Heals, Lone
<1>2. Whole /\ Heals /\ [MCNext]_<<vars, oneReplica>> => (Whole /\ Heals)'
  <2> SUFFICES ASSUME Whole, Heals, [MCNext]_<<vars, oneReplica>> PROVE Whole' /\ Heals'
    OBVIOUS
  <2>1. [Next]_vars
    BY DEF MCNext
  <2>2. Whole'
    BY <2>1, StepWhole
  <2>3. CASE MCNext
    <3> SUFFICES ASSUME oneReplica' PROVE Lone'
      BY <2>2 DEF Heals
    <3>1. Lone /\ Next /\ (commands' # commands => Plain(want') /\ (phase = "failed" => want' = want))
      BY <2>3 DEF MCNext, Heals, Retried
    <3>2. Alone'
      BY <3>1, AloneStep DEF Lone
    <3>3. Untouched' => GoesWell'
      BY <3>1, GoesWellStep DEF Lone
    <3> QED  BY <3>2, <3>3 DEF Lone
  <2>4. CASE UNCHANGED <<vars, oneReplica>>
    <3>1. /\ IDs' = IDs /\ Observed' = Observed /\ UNCHANGED oneReplica
          /\ UNCHANGED <<containers, faults, faultsBefore, commands, phase, want, observed>>
          /\ UNCHANGED <<tasks, cancelled, lost>>
      BY <2>4 DEF vars, engine, command, IDs, Observed
    <3>2. Alone => Alone'
      BY <3>1 DEF Alone, WantsOne, NumbersAreOne, OldAndNew, CreatesAlone, RecreatesAlone
    <3>3. (Untouched <=> Untouched') /\ (GoesWell => GoesWell')
      BY <3>1 DEF Untouched, GoesWell
    <3> QED  BY <2>2, <3>1, <3>2, <3>3 DEF Heals, Lone
  <2> QED  BY <2>2, <2>3, <2>4
<1> QED  BY <1>1, <1>2, PTL DEF MCSpec

(* A nil of the command means a converged service, and one replica heals   *)
(* from whatever an earlier command left: run again after a failure, or    *)
(* after being killed between any two calls of recreateContainer, the      *)
(* command succeeds if nothing fails and nobody interferes any more.       *)
THEOREM ReconciledHolds == MCSpec => []Reconciled
<1>1. Whole /\ Heals => Reconciled
  <2> SUFFICES ASSUME Whole, Heals PROVE Reconciled
    OBVIOUS
  <2>1. Converged
    BY WholeConverged
  <2>2. OneReplicaHeals
    BY DEF OneReplicaHeals, Heals, Lone, RetryHeals, Untouched, GoesWell, Observed
  <2> QED  BY <2>1, <2>2 DEF Reconciled
<1> QED  BY <1>1, MCInvariant, PTL
=============================================================================
