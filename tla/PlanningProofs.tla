--------------------------- MODULE PlanningProofs ---------------------------
(* Proofs about planning: the compiler of graphs, for every set of names    *)
(* and every input, the Planner, for every number of turns and every choice *)
(* of faults, and the revisions of a graph, for every set of occasions.     *)
EXTENDS Compiler, Planner, Revision, FiniteSetTheorems, WellFoundedInduction, TLAPS

(***************************************************************************)
(* Module Compiler.                                                        *)
(***************************************************************************)

Unvisited(n) ==
    {i \in DepIndices(in.edges) : in.edges[i].to = n /\ in.edges[i].from \notin visited}

(* The inductive invariant.  KahnCounts alone is not inductive: it also    *)
(* takes that a visited node has no dependency left and that the batches   *)
(* hold exactly the visited nodes.  The accepting half of the cycle check  *)
(* is carried by a set-wise statement that grows with visited, so that no  *)
(* induction on the batches is needed.                                     *)
Placed == visited = UNION {batches[k] : k \in DOMAIN batches}

VisitedFinished ==
    pc = "kahn" =>
        /\ errors = {}
        /\ visited \subseteq DOMAIN degrees
        /\ \A n \in visited : degrees[n] = 0
        /\ \A S \in (SUBSET visited) \ {{}} : \E n \in S : \A m \in S : ~DependsOn(m, n)

Fresh == pc = "validate" => batches = <<>> /\ visited = {} /\ errors = {}

(* Past validation every endpoint is a declared node.                      *)
EndpointsKnown ==
    pc = "kahn" =>
        \A i \in DOMAIN in.edges :
            {in.edges[i].from, in.edges[i].to} \subseteq NodeNames(in.nodes)

IInv == TypeOK /\ Fresh /\ EndpointsKnown /\ Placed /\ VisitedFinished /\ KahnCounts
            /\ BatchesTopological /\ CycleVerdict

(* An edge list is finite, so its cardinalities are naturals.              *)
LEMMA EdgesFinite ==
    ASSUME NEW edges \in Seq(Edge), NEW S, S \subseteq DOMAIN edges
    PROVE  IsFiniteSet(S) /\ Cardinality(S) \in Nat
<1>1. IsFiniteSet(DOMAIN edges)
  <2>1. DOMAIN edges = 1..Len(edges) /\ Len(edges) \in Nat
    OBVIOUS
  <2> QED BY <2>1, FS_Interval
<1> QED BY <1>1, FS_Subset, FS_CardinalityType

(* The Kahn step subtracts exactly the edges it releases.                  *)
LEMMA ReleaseCount ==
    ASSUME NEW edges \in Seq(Edge), NEW S, S \subseteq DOMAIN edges, NEW T, T \subseteq S
    PROVE  Cardinality(S) - Cardinality(T) = Cardinality(S \ T)
<1>1. IsFiniteSet(S)
  BY EdgesFinite
<1>2. S \cap T = T
  OBVIOUS
<1>3. Cardinality(S \ T) = Cardinality(S) - Cardinality(S \cap T)
  BY <1>1, FS_Difference
<1> QED BY <1>2, <1>3

(* A degree of zero leaves no unvisited dependency.                        *)
LEMMA ZeroMeansNone ==
    ASSUME NEW edges \in Seq(Edge), NEW S, S \subseteq DOMAIN edges
    PROVE  Cardinality(S) = 0 <=> S = {}
BY EdgesFinite, FS_EmptySet

(* In the loop, a node of the next batch or an already visited node has    *)
(* all its dependencies visited.                                           *)
LEMMA FinishedHasNoUnvisited ==
    ASSUME IInv, pc = "kahn", NEW n \in visited \cup ready
    PROVE  n \in DOMAIN degrees /\ Unvisited(n) = {}
<1>1. n \in DOMAIN degrees /\ degrees[n] = 0
  BY DEF IInv, KahnCounts, VisitedFinished
<1>2. degrees[n] = Cardinality(Unvisited(n))
  BY <1>1 DEF IInv, KahnCounts, Unvisited
<1>3. Unvisited(n) \subseteq DOMAIN in.edges /\ in.edges \in Seq(Edge)
  BY DEF Unvisited, DepIndices, IInv, TypeOK
<1> QED BY <1>1, <1>2, <1>3, ZeroMeansNone

(* Declared node names are names.                                          *)
LEMMA NamesTyped ==
    ASSUME TypeOK
    PROVE  NodeNames(in.nodes) \subseteq Names
<1>1. \A i \in DOMAIN in.nodes : in.nodes[i] \in NodeDecl
  BY DEF TypeOK
<1> QED BY <1>1 DEF NodeNames, NodeDecl

(* A call begins with nothing visited and no batch.                        *)
LEMMA InitInv == Init => IInv
<1> SUFFICES ASSUME Init PROVE IInv
  OBVIOUS
<1>1. TypeOK
  BY InputsAssumption DEF Init, TypeOK
<1>2. Placed /\ BatchesTopological
  BY DEF Init, Placed, BatchesTopological
<1>3. Fresh /\ VisitedFinished /\ KahnCounts /\ CycleVerdict /\ EndpointsKnown
  BY DEF Init, Fresh, VisitedFinished, KahnCounts, CycleVerdict, EndpointsKnown
<1> QED BY <1>1, <1>2, <1>3 DEF IInv

(* validate_shape counts every dependency once, so the first batch is      *)
(* exact.                                                                  *)
LEMMA ValidateInv == IInv /\ Validate => IInv'
<1> SUFFICES ASSUME IInv, Validate PROVE IInv'
  OBVIOUS
<1> DEFINE into(n) == {i \in DepIndices(in.edges) : in.edges[i].to = n}
<1>t. TypeOK /\ in.edges \in Seq(Edge) /\ in' = in /\ visited = {} /\ batches = <<>>
  BY DEF IInv, TypeOK, Fresh, Validate, Incoming
<1>n. NodeNames(in.nodes) \subseteq Names
  BY <1>t, NamesTyped
<1>c. \A n : into(n) \subseteq DOMAIN in.edges
  BY DEF DepIndices
<1>f. \A n : Cardinality(into(n)) \in Nat /\ (Cardinality(into(n)) = 0 <=> into(n) = {})
  BY <1>t, <1>c, EdgesFinite, ZeroMeansNone
<1>1. CASE pc' = "err"
  <2>1. degrees' = degrees /\ ready' = ready /\ errors' # {} /\ "E101" \notin errors'
    BY <1>1 DEF Validate, Incoming, When, nodeErrors, edgeErrors, feedbackTargetErrors
  <2>2. errors' \subseteq {"E001", "E201", "E202", "E203", "E204", "E205", "E206", "E208"}
    BY DEF Validate, Incoming, When, nodeErrors, edgeErrors, feedbackTargetErrors
  <2>3. TypeOK'
    BY <1>t, <1>1, <2>1, <2>2 DEF TypeOK, Validate, Incoming
  <2>4. Placed' /\ BatchesTopological'
    BY <1>t DEF Validate, Incoming, Placed, BatchesTopological
  <2>5. Fresh' /\ VisitedFinished' /\ KahnCounts' /\ CycleVerdict' /\ EndpointsKnown'
    BY <1>1, <2>1 DEF Fresh, VisitedFinished, KahnCounts, CycleVerdict, EndpointsKnown
  <2> QED BY <2>3, <2>4, <2>5 DEF IInv
<1>2. CASE pc' # "err"
  <2>1. /\ pc' = "kahn" /\ errors' = {} /\ visited' = {} /\ batches' = <<>>
        /\ degrees' = [n \in NodeNames(in.nodes) |-> Cardinality(into(n))]
        /\ ready' = roots(in.nodes, in.edges)
    BY <1>t, <1>2 DEF Validate, Incoming
  <2>2. TypeOK'
    BY <1>t, <1>n, <1>f, <2>1 DEF TypeOK, roots
  <2>3. Placed' /\ BatchesTopological' /\ Fresh' /\ VisitedFinished'
    BY <2>1 DEF Placed, BatchesTopological, Fresh, VisitedFinished
  <2>4. CycleVerdict' /\ EndpointsKnown'
    <3>1. edgeErrors(in.nodes, in.edges) = {}
      BY <2>1 DEF Validate, Incoming
    <3> QED BY <1>t, <2>1, <3>1 DEF CycleVerdict, EndpointsKnown, edgeErrors, When
  <2>5. KahnCounts'
    <3>1. \A n : {i \in DepIndices(in.edges) : in.edges[i].to = n
                                           /\ in.edges[i].from \notin visited'} = into(n)
      BY <2>1
    <3>2. ready' = {n \in DOMAIN degrees' \ visited' : degrees'[n] = 0}
      BY <1>f, <2>1 DEF roots
    <3> HIDE DEF into
    <3>3. \A n \in DOMAIN degrees' : degrees'[n] = Cardinality(into(n))
      BY <2>1
    <3> QED BY <1>t, <2>1, <3>1, <3>2, <3>3 DEF KahnCounts
  <2> QED BY <2>2, <2>3, <2>4, <2>5 DEF IInv
<1> QED BY <1>1, <1>2

(* A batch releases the edges that leave it: the counts stay exact and     *)
(* what it frees has all its dependencies in earlier batches.              *)
LEMMA KahnBatchInv == IInv /\ KahnBatch => IInv'
<1> SUFFICES ASSUME IInv, KahnBatch PROVE IInv'
  OBVIOUS
<1> DEFINE released(n) == {i \in DepIndices(in.edges) :
                              in.edges[i].to = n /\ in.edges[i].from \in ready}
<1> DEFINE left(n) == {i \in DepIndices(in.edges) :
                              in.edges[i].to = n /\ in.edges[i].from \notin visited'}
<1>t. /\ in.edges \in Seq(Edge) /\ in' = in /\ pc = "kahn" /\ pc' = "kahn"
      /\ errors' = errors /\ errors = {} /\ visited' = visited \cup ready
      /\ batches' = Append(batches, ready) /\ batches \in Seq(SUBSET Names)
      /\ DOMAIN degrees = NodeNames(in.nodes) /\ degrees \in [DOMAIN degrees -> Nat]
      /\ ready \subseteq DOMAIN degrees /\ visited \subseteq DOMAIN degrees
      /\ ready \cap visited = {} /\ DOMAIN degrees \subseteq Names
  BY DEF IInv, TypeOK, KahnCounts, VisitedFinished, KahnBatch, Released, NextBatch
<1>d. /\ degrees' = [n \in DOMAIN degrees |-> degrees[n] - Cardinality(released(n))]
      /\ ready' = {n \in DOMAIN degrees : released(n) # {} /\ degrees'[n] = 0}
  BY DEF KahnBatch, Released, NextBatch
<1>u. \A n \in visited \cup ready : Unvisited(n) = {}
  BY <1>t, FinishedHasNoUnvisited
<1>s. ASSUME NEW n
      PROVE  /\ released(n) \subseteq Unvisited(n) /\ left(n) = Unvisited(n) \ released(n)
             /\ Unvisited(n) \subseteq DOMAIN in.edges
  BY <1>t DEF Unvisited, DepIndices
<1>c. ASSUME NEW n \in DOMAIN degrees
      PROVE  /\ degrees[n] = Cardinality(Unvisited(n))
             /\ degrees'[n] = Cardinality(left(n)) /\ Cardinality(left(n)) \in Nat
             /\ degrees'[n] = 0 <=> left(n) = {}
  <2>1. degrees[n] = Cardinality(Unvisited(n))
    BY <1>t DEF IInv, KahnCounts, Unvisited
  <2> HIDE DEF released, left
  <2>2. degrees'[n] = Cardinality(Unvisited(n)) - Cardinality(released(n))
    BY <1>d, <2>1
  <2>3. degrees'[n] = Cardinality(left(n))
    BY <1>t, <1>s, <2>2, ReleaseCount
  <2>4. left(n) \subseteq DOMAIN in.edges
    BY <1>s
  <2> QED BY <1>t, <2>1, <2>3, <2>4, EdgesFinite, ZeroMeansNone
<1>1. TypeOK'
  <2>1. degrees' \in [DOMAIN degrees -> Nat] /\ DOMAIN degrees' = DOMAIN degrees
    BY <1>c, <1>d
  <2>2. ready' \subseteq Names /\ visited' \subseteq Names
    BY <1>d, <1>t
  <2>3. batches' \in Seq(SUBSET Names)
    BY <1>t
  <2> QED BY <1>t, <2>1, <2>2, <2>3 DEF IInv, TypeOK
<1>2. Placed'
  <2>1. /\ DOMAIN batches' = DOMAIN batches \cup {Len(batches) + 1}
        /\ batches'[Len(batches) + 1] = ready
        /\ \A k \in DOMAIN batches : batches'[k] = batches[k]
    BY <1>t
  <2> QED BY <1>t, <2>1 DEF IInv, Placed
<1>3. VisitedFinished'
  <2>1. ASSUME NEW n \in visited' PROVE degrees'[n] = 0
    <3>1. n \in DOMAIN degrees /\ Unvisited(n) = {}
      BY <1>t, <1>u
    <3>2. left(n) = {}
      BY <1>s, <3>1
    <3> QED BY <1>c, <3>1, <3>2
  <2>2. ASSUME NEW S \in (SUBSET visited') \ {{}}
        PROVE  \E n \in S : \A m \in S : ~DependsOn(m, n)
    <3>p. \A n \in visited \cup ready : \A m : DependsOn(m, n) => m \in visited
      BY <1>u DEF Unvisited, DependsOn
    <3>1. CASE S \cap visited = {}
      BY <1>t, <3>p, <3>1
    <3>2. CASE S \cap visited # {}
      <4>1. PICK n \in S \cap visited : \A m \in S \cap visited : ~DependsOn(m, n)
        BY <1>t, <3>2 DEF IInv, VisitedFinished
      <4> QED BY <3>p, <4>1
    <3> QED BY <3>1, <3>2
  <2>3. \A m, n : DependsOn(m, n)' <=> DependsOn(m, n)
    BY <1>t DEF DependsOn
  <2>4. DOMAIN degrees' = DOMAIN degrees
    BY <1>d
  <2> QED BY <1>t, <2>1, <2>2, <2>3, <2>4 DEF VisitedFinished
<1>4. KahnCounts'
  <2>1. \A n \in DOMAIN degrees' : degrees'[n] = Cardinality(left(n))
    BY <1>c, <1>d
  <2>2. ready' = {n \in DOMAIN degrees' \ visited' : degrees'[n] = 0}
    <3>1. ASSUME NEW n \in DOMAIN degrees, degrees'[n] = 0
          PROVE  released(n) # {} <=> n \notin visited'
      <4>1. left(n) = {}
        BY <1>c, <3>1
      <4>2. CASE n \in visited'
        BY <1>s, <1>t, <1>u, <4>2
      <4>3. CASE n \notin visited' /\ released(n) = {}
        <5>1. Unvisited(n) = {}
          BY <1>s, <4>1, <4>3
        <5>2. degrees[n] = Cardinality({})
          BY <1>c, <5>1
        <5>3. degrees[n] = 0 /\ n \notin visited /\ n \notin ready
          BY <1>t, <4>3, <5>2, FS_EmptySet
        <5>4. ready = {x \in DOMAIN degrees \ visited : degrees[x] = 0}
          BY <1>t DEF IInv, KahnCounts
        <5> QED BY <5>3, <5>4
      <4> QED BY <4>2, <4>3
    <3> QED BY <1>d, <3>1
  <2>3. \A n : left(n) = {i \in DepIndices(in'.edges) : /\ in'.edges[i].to = n
                                                        /\ in'.edges[i].from \notin visited'}
    BY <1>t
  <2>4. DOMAIN degrees' = NodeNames(in'.nodes)
    BY <1>t, <1>d
  <2> HIDE DEF left
  <2> QED BY <2>1, <2>2, <2>3, <2>4 DEF KahnCounts
<1>5. BatchesTopological'
  <2>1. /\ DOMAIN batches' = DOMAIN batches \cup {Len(batches) + 1}
        /\ DOMAIN batches = 1..Len(batches) /\ Len(batches) \in Nat
        /\ batches'[Len(batches) + 1] = ready
        /\ \A k \in DOMAIN batches : batches'[k] = batches[k]
    BY <1>t
  <2>2. \A m, n : DependsOn(m, n)' <=> DependsOn(m, n)
    BY <1>t DEF DependsOn
  <2> SUFFICES ASSUME NEW k \in DOMAIN batches', NEW n \in batches'[k], NEW m \in Names,
                      DependsOn(m, n)
               PROVE  \E j \in 1..(k - 1) : m \in batches'[j]
    BY <2>2 DEF BatchesTopological
  <2>3. CASE k \in DOMAIN batches
    <3>1. PICK j \in 1..(k - 1) : m \in batches[j]
      BY <2>1, <2>3 DEF IInv, BatchesTopological
    <3>2. j \in DOMAIN batches
      BY <2>1, <2>3
    <3> QED BY <2>1, <3>1, <3>2
  <2>4. CASE k = Len(batches) + 1
    <3>1. m \in visited
      BY <1>u, <2>1, <2>4 DEF Unvisited, DependsOn
    <3>2. PICK j \in DOMAIN batches : m \in batches[j]
      BY <3>1 DEF IInv, Placed
    <3> QED BY <2>1, <2>4, <3>2
  <2> QED BY <2>1, <2>3, <2>4
<1>6. Fresh' /\ CycleVerdict' /\ EndpointsKnown'
  BY <1>t DEF IInv, Fresh, CycleVerdict, EndpointsKnown
<1> QED BY <1>1, <1>2, <1>3, <1>4, <1>5, <1>6 DEF IInv

(* When the batches run out, the nodes outside visited each depend on one  *)
(* another; when visited is everything, the graph is acyclic.              *)
LEMMA CycleCheckInv == IInv /\ CycleCheck => IInv'
<1> SUFFICES ASSUME IInv, CycleCheck PROVE IInv'
  OBVIOUS
<1>t. /\ in' = in /\ pc = "kahn" /\ ready = {} /\ in.edges \in Seq(Edge) /\ errors = {}
      /\ UNCHANGED <<degrees, ready, visited, batches>> /\ visited \subseteq NodeNames(in.nodes)
      /\ DOMAIN degrees = NodeNames(in.nodes) /\ degrees \in [DOMAIN degrees -> Nat]
  BY DEF IInv, TypeOK, VisitedFinished, KahnCounts, CycleCheck, AllVisited
<1>a. Acyclic' <=> Acyclic
  BY <1>t DEF Acyclic, DependsOn
<1>1. visited = NodeNames(in.nodes) => Acyclic
  BY <1>t DEF IInv, VisitedFinished, Acyclic
<1>2. visited # NodeNames(in.nodes) => ~Acyclic
  <2> SUFFICES ASSUME visited # NodeNames(in.nodes), Acyclic PROVE FALSE
    OBVIOUS
  <2> DEFINE S == NodeNames(in.nodes) \ visited
  <2>1. PICK n \in S : \A m \in S : ~DependsOn(m, n)
    BY <1>t DEF Acyclic
  <2>2. degrees[n] # 0 /\ degrees[n] = Cardinality(Unvisited(n))
    BY <1>t, <2>1 DEF IInv, KahnCounts, Unvisited
  <2>3. Unvisited(n) \subseteq DOMAIN in.edges
    BY DEF Unvisited, DepIndices
  <2>4. PICK i \in Unvisited(n) : TRUE
    BY <1>t, <2>2, <2>3, ZeroMeansNone
  <2>5. in.edges[i].from \notin NodeNames(in.nodes)
    BY <2>1, <2>4 DEF Unvisited, DependsOn
  <2> QED BY <1>t, <2>4, <2>5 DEF Unvisited, DepIndices, IInv, EndpointsKnown
<1>3. TypeOK'
  BY <1>t DEF IInv, TypeOK, CycleCheck, AllVisited
<1>4. Placed' /\ BatchesTopological'
  BY <1>t DEF IInv, Placed, BatchesTopological, DependsOn
<1>5. Fresh' /\ VisitedFinished' /\ KahnCounts'
  BY DEF CycleCheck, AllVisited, Fresh, VisitedFinished, KahnCounts
<1>6. CycleVerdict'
  BY <1>t, <1>a, <1>1, <1>2 DEF CycleVerdict, CycleCheck, AllVisited
<1>7. EndpointsKnown'
  BY <1>t DEF IInv, EndpointsKnown, CycleCheck, AllVisited
<1> QED BY <1>3, <1>4, <1>5, <1>6, <1>7 DEF IInv

(* The remaining sections only add diagnostics other than E101.            *)
LEMMA LateChecksInv == IInv /\ (FeedbackCheck \/ RedundancyCheck) => IInv'
<1> SUFFICES ASSUME IInv, FeedbackCheck \/ RedundancyCheck PROVE IInv'
  OBVIOUS
<1>t. /\ pc \in {"feedback", "redundancy"} /\ pc' \in {"redundancy", "ok", "err"}
      /\ UNCHANGED <<in, degrees, ready, visited, batches>>
      /\ errors' \subseteq {"E207", "E209"}
  BY DEF FeedbackCheck, RedundancyCheck, feedbackPathErrors, When
<1>a. Acyclic' <=> Acyclic
  BY <1>t DEF Acyclic, DependsOn
<1>1. TypeOK'
  BY <1>t DEF IInv, TypeOK
<1>2. Placed' /\ BatchesTopological'
  BY <1>t DEF IInv, Placed, BatchesTopological, DependsOn
<1>3. Fresh' /\ VisitedFinished' /\ KahnCounts' /\ EndpointsKnown'
  BY <1>t DEF Fresh, VisitedFinished, KahnCounts, EndpointsKnown
<1>4. CycleVerdict'
  BY <1>t, <1>a DEF IInv, CycleVerdict
<1> QED BY <1>1, <1>2, <1>3, <1>4 DEF IInv

(* A call that has returned changes nothing.                               *)
LEMMA StutterInv == IInv /\ UNCHANGED vars => IInv'
<1> SUFFICES ASSUME IInv, UNCHANGED vars PROVE IInv'
  OBVIOUS
<1>1. Acyclic' <=> Acyclic
  BY DEF vars, Acyclic, DependsOn
<1>2. TypeOK' /\ Fresh' /\ Placed' /\ KahnCounts' /\ EndpointsKnown'
  BY DEF vars, IInv, TypeOK, Fresh, Placed, KahnCounts, EndpointsKnown
<1>d. \A m, n : DependsOn(m, n)' <=> DependsOn(m, n)
  BY DEF vars, DependsOn
<1>3. BatchesTopological' /\ VisitedFinished'
  BY <1>d DEF vars, IInv, BatchesTopological, VisitedFinished
<1>4. CycleVerdict'
  BY <1>1 DEF vars, IInv, CycleVerdict
<1> QED BY <1>2, <1>3, <1>4 DEF IInv

(* The inductive invariant of a call, one case per step of compile.        *)
THEOREM Invariance == Spec => []IInv
<1>1. IInv /\ [Next]_vars => IInv'
  BY ValidateInv, KahnBatchInv, CycleCheckInv, LateChecksInv, StutterInv DEF Next, Returned
<1> QED BY <1>1, InitInv, PTL DEF Spec

(* Type correctness of compile, in particular: no decrement of a degree    *)
(* ever goes below zero, whatever graph is submitted.                      *)
THEOREM TypeCorrect == Spec => []TypeOK
BY Invariance, PTL DEF IInv

(* In the Kahn loop a degree counts exactly the unvisited dependencies.    *)
THEOREM DegreesAreExact == Spec => []KahnCounts
BY Invariance, PTL DEF IInv

(* Every batch the compiler emits only depends on earlier batches.         *)
THEOREM BatchOrder == Spec => []BatchesTopological
BY Invariance, PTL DEF IInv

(* compile decides acyclicity: no cyclic graph passes the check and E101   *)
(* is reported for cyclic graphs only.                                     *)
THEOREM CycleCheckDecides == Spec => []CycleVerdict
BY Invariance, PTL DEF IInv

(* What the worklist searches behind E207 and E209 compute.                 *)

(* The sets that no kept edge leaves, and the least one that contains S.   *)
ClosedUnder(edges, keep, S) == \A i \in keep : edges[i].from \in S => edges[i].to \in S

Hull(edges, keep, S) ==
    {b \in Names : \A T \in SUBSET Names : S \subseteq T /\ ClosedUnder(edges, keep, T) => b \in T}

(* One round of the worklist.                                              *)
Grown(edges, keep, S) == S \cup Successors(edges, keep, S)

(* A round stays among the names, reaches nothing new exactly when S is    *)
(* closed, and does not change what S will lead to.                        *)
LEMMA RoundKeepsHull ==
    ASSUME NEW edges \in Seq(Edge), NEW keep \in SUBSET (DOMAIN edges), NEW S \in SUBSET Names
    PROVE  /\ Grown(edges, keep, S) \in SUBSET Names /\ S \subseteq Grown(edges, keep, S)
           /\ Grown(edges, keep, S) = S => Hull(edges, keep, S) = S
           /\ Hull(edges, keep, Grown(edges, keep, S)) = Hull(edges, keep, S)
<1>t. \A i \in keep : edges[i].from \in Names /\ edges[i].to \in Names
  <2>1. \A i \in keep : edges[i] \in Edge
    OBVIOUS
  <2> QED BY <2>1 DEF Edge
<1>1. Grown(edges, keep, S) \in SUBSET Names /\ S \subseteq Grown(edges, keep, S)
  BY <1>t DEF Grown, Successors
<1>2. ASSUME Grown(edges, keep, S) = S PROVE Hull(edges, keep, S) = S
  <2>1. ClosedUnder(edges, keep, S)
    BY <1>2 DEF Grown, Successors, ClosedUnder
  <2> QED BY <2>1 DEF Hull
<1>3. ASSUME NEW T \in SUBSET Names, ClosedUnder(edges, keep, T)
      PROVE  S \subseteq T <=> Grown(edges, keep, S) \subseteq T
  BY <1>3 DEF Grown, Successors, ClosedUnder
<1>4. Hull(edges, keep, Grown(edges, keep, S)) = Hull(edges, keep, S)
  BY <1>3 DEF Hull
<1> QED BY <1>1, <1>2, <1>4

\* The order in which a worklist makes progress.
LessThan == {p \in Nat \X Nat : p[1] < p[2]}

LEMMA LessThanWellFounded == IsWellFoundedOn(LessThan, Nat)
BY NatLessThanWellFounded DEF OpToRel, LessThan

\* Of a non-empty collection, a member of least measure.
LEMMA LeastMeasure ==
    ASSUME NEW C, C # {}, NEW size \in [C -> Nat]
    PROVE  \E c \in C : \A d \in C : ~(size[d] < size[c])
<1> DEFINE T == {size[c] : c \in C}
<1>1. T \subseteq Nat /\ T # {}
  OBVIOUS
<1>2. PICK n \in T : \A m \in T : ~(<<m, n>> \in LessThan)
  <2> HIDE DEF T
  <2> QED BY <1>1, LessThanWellFounded, WFMin, Zenon
<1>3. PICK c \in C : n = size[c]
  OBVIOUS
<1>4. ASSUME NEW d \in C PROVE ~(size[d] < size[c])
  <2>1. size[d] \in T /\ size[d] \in Nat /\ size[c] \in Nat
    OBVIOUS
  <2>2. ~(<<size[d], size[c]>> \in LessThan)
    BY <1>2, <1>3, <2>1
  <2> QED BY <2>1, <2>2 DEF LessThan
<1> QED BY <1>4

(* A larger set leaves fewer elements to find.                             *)
LEMMA FewerLeft ==
    ASSUME NEW U, IsFiniteSet(U), NEW S \in SUBSET U, NEW T \in SUBSET U, S \subseteq T, S # T
    PROVE  /\ Cardinality(U \ S) \in Nat /\ Cardinality(U \ T) \in Nat
           /\ Cardinality(U \ T) < Cardinality(U \ S)
<1>1. IsFiniteSet(U \ S) /\ IsFiniteSet(U \ T)
  BY FS_Subset
<1>2. U \ T \subseteq U \ S /\ U \ T # U \ S
  OBVIOUS
<1> QED BY <1>1, <1>2, FS_CardinalityType, FS_Subset

(* A function that obeys the worklist's equation maps a set to its hull.   *)
LEMMA WorklistFindsHull ==
    ASSUME NEW edges \in Seq(Edge), NEW keep \in SUBSET (DOMAIN edges), NEW grow,
           grow = [S \in SUBSET Names |->
                      IF Grown(edges, keep, S) = S THEN S ELSE grow[Grown(edges, keep, S)]],
           NEW S0 \in SUBSET Names
    PROVE  grow[S0] = Hull(edges, keep, S0)
<1> DEFINE bad == {S \in SUBSET Names : grow[S] # Hull(edges, keep, S)}
<1> SUFFICES ASSUME bad # {} PROVE FALSE
  OBVIOUS
<1> DEFINE size == [S \in bad |-> Cardinality(Names \ S)]
<1>1. size \in [bad -> Nat]
  <2>1. ASSUME NEW S \in bad PROVE Cardinality(Names \ S) \in Nat
    BY NamesAssumption, FS_Subset, FS_CardinalityType
  <2> QED BY <2>1
<1>2. PICK S \in bad : \A T \in bad : ~(size[T] < size[S])
  <2> HIDE DEF bad, size
  <2> QED BY <1>1, LeastMeasure
<1> DEFINE next == Grown(edges, keep, S)
<1>3. /\ S \in SUBSET Names /\ next \in SUBSET Names /\ S \subseteq next
      /\ next = S => Hull(edges, keep, S) = S
      /\ Hull(edges, keep, next) = Hull(edges, keep, S)
  BY RoundKeepsHull
<1>4. next # S /\ grow[S] = grow[next]
  <2>1. grow[S] = IF next = S THEN S ELSE grow[next]
    BY <1>3
  <2> HIDE DEF next
  <2> QED BY <1>3, <2>1
<1>5. next \in bad
  <2> HIDE DEF next
  <2> QED BY <1>3, <1>4
<1>6. size[next] < size[S]
  <2>1. size[next] = Cardinality(Names \ next) /\ size[S] = Cardinality(Names \ S)
    BY <1>5
  <2> HIDE DEF next, size
  <2>2. Cardinality(Names \ next) < Cardinality(Names \ S)
    <3>1. IsFiniteSet(Names) /\ S # next
      BY <1>4, NamesAssumption
    <3> HIDE DEF bad
    <3> QED BY <1>3, <3>1, FewerLeft
  <2> QED BY <2>1, <2>2
<1> QED BY <1>2, <1>5, <1>6

(* The worklist search finds the least closed set with its start.          *)
LEMMA SearchFindsHull ==
    ASSUME NEW edges \in Seq(Edge), NEW keep \in SUBSET (DOMAIN edges), NEW start \in Names
    PROVE  Reach(edges, keep, start) = Hull(edges, keep, {start})
<1> DEFINE Obeys(g) == g = [S \in SUBSET Names |->
                    IF Grown(edges, keep, S) = S THEN S ELSE g[Grown(edges, keep, S)]]
<1> DEFINE hull == [S \in SUBSET Names |-> Hull(edges, keep, S)]
<1> DEFINE grow == CHOOSE g : Obeys(g)
<1>1. Obeys(hull)
  <2>1. ASSUME NEW S \in SUBSET Names
        PROVE  Hull(edges, keep, S) = IF Grown(edges, keep, S) = S THEN S
                                      ELSE hull[Grown(edges, keep, S)]
    BY RoundKeepsHull
  <2> QED BY <2>1
<1>2. Obeys(grow)
  <2> HIDE DEF hull
  <2> QED BY <1>1, Zenon
<1>3. grow[{start}] = Hull(edges, keep, {start})
  <2>1. {start} \in SUBSET Names
    OBVIOUS
  <2> HIDE DEF grow
  <2> QED BY <1>2, <2>1, WorklistFindsHull, Zenon
<1>4. Reach(edges, keep, start) = grow[{start}]
  BY DEF Reach, Grown
<1> QED BY <1>3, <1>4

(* What a verdict promises, section by section.  Past validation the lists *)
(* are well formed; past the feedback section every feedback edge closes a *)
(* path; an accepted call satisfies the policy on redundant edges, and a   *)
(* rejected one is not legal.                                              *)
WellFormed ==
    /\ in.finalCheck => in.nodes # <<>>
    /\ \A i, j \in DOMAIN in.nodes :
          i # j => Fold[in.nodes[i].name] # Fold[in.nodes[j].name]
    /\ \A i \in DOMAIN in.nodes :
          in.nodes[i].name # EmptyName /\ in.nodes[i].task # EmptyTask
    /\ \A i \in DOMAIN in.edges :
          /\ in.edges[i].from # in.edges[i].to
          /\ in.edges[i].from \in NodeNames(in.nodes)
          /\ in.edges[i].to \in NodeNames(in.nodes)
    /\ \A i, j \in DOMAIN in.edges :
          i # j => <<in.edges[i].from, in.edges[i].to>> # <<in.edges[j].from, in.edges[j].to>>
    /\ \A i, j \in FeedbackIndices(in.edges) :
          in.edges[i].from = in.edges[j].from => i = j

FeedbackCloses ==
    \A i \in FeedbackIndices(in.edges) : Reachable(in.edges[i].to, in.edges[i].from, {})

NoneRedundant ==
    in.rejectRedundant =>
        \A i \in DepIndices(in.edges) : ~Reachable(in.edges[i].from, in.edges[i].to, {i})

Progress ==
    /\ pc \in {"kahn", "feedback", "redundancy", "ok"} => WellFormed /\ errors = {}
    /\ pc \in {"redundancy", "ok"} => FeedbackCloses
    /\ pc = "ok" => NoneRedundant
    /\ pc = "err" => ~Legal /\ errors # {}
    /\ "E209" \in errors => WellFormed /\ Acyclic

(* A legal call is one that passes the four parts.                         *)
LEMMA LegalInParts == Legal <=> WellFormed /\ Acyclic /\ FeedbackCloses /\ NoneRedundant
<1> DEFINE A == in.finalCheck => in.nodes # <<>>
<1> DEFINE B == \A i, j \in DOMAIN in.nodes :
                   i # j => Fold[in.nodes[i].name] # Fold[in.nodes[j].name]
<1> DEFINE C == \A i \in DOMAIN in.nodes :
                   in.nodes[i].name # EmptyName /\ in.nodes[i].task # EmptyTask
<1> DEFINE D == \A i \in DOMAIN in.edges :
                   /\ in.edges[i].from # in.edges[i].to
                   /\ in.edges[i].from \in NodeNames(in.nodes)
                   /\ in.edges[i].to \in NodeNames(in.nodes)
<1> DEFINE E == \A i, j \in DOMAIN in.edges : i # j =>
                   <<in.edges[i].from, in.edges[i].to>> # <<in.edges[j].from, in.edges[j].to>>
<1> DEFINE F == \A i, j \in FeedbackIndices(in.edges) :
                   in.edges[i].from = in.edges[j].from => i = j
<1>1. WellFormed <=> A /\ B /\ C /\ D /\ E /\ F
  BY Zenon DEF WellFormed
<1>2. Legal <=> /\ A /\ B /\ C /\ D /\ E /\ Acyclic /\ NoneRedundant
                /\ \A i \in FeedbackIndices(in.edges) :
                      /\ Reachable(in.edges[i].to, in.edges[i].from, {})
                      /\ \A j \in FeedbackIndices(in.edges) :
                            in.edges[i].from = in.edges[j].from => i = j
  BY Zenon DEF Legal, NoneRedundant
<1>3. (\A i \in FeedbackIndices(in.edges) :
                      /\ Reachable(in.edges[i].to, in.edges[i].from, {})
                      /\ \A j \in FeedbackIndices(in.edges) :
                            in.edges[i].from = in.edges[j].from => i = j)
      <=> F /\ FeedbackCloses
  BY Zenon DEF FeedbackCloses
<1> HIDE DEF A, B, C, D, E, F
<1> QED BY <1>1, <1>2, <1>3

(* Validation finds nothing exactly when the lists are well formed.        *)
LEMMA ValidationDecides ==
    LET found == When("E001", in.finalCheck /\ in.nodes = <<>>)
                 \cup nodeErrors(in.nodes) \cup edgeErrors(in.nodes, in.edges)
                 \cup feedbackTargetErrors(in.edges)
    IN  found = {} <=> WellFormed
<1> DEFINE found == When("E001", in.finalCheck /\ in.nodes = <<>>)
                    \cup nodeErrors(in.nodes) \cup edgeErrors(in.nodes, in.edges)
                    \cup feedbackTargetErrors(in.edges)
<1>w. \A c, cond : When(c, cond) = {} <=> ~cond
  BY DEF When
<1>1. When("E001", in.finalCheck /\ in.nodes = <<>>) = {}
      <=> (in.finalCheck => in.nodes # <<>>)
  BY DEF When
<1>2. nodeErrors(in.nodes) = {} <=>
        /\ \A i, j \in DOMAIN in.nodes :
              i # j => Fold[in.nodes[i].name] # Fold[in.nodes[j].name]
        /\ \A i \in DOMAIN in.nodes :
              in.nodes[i].name # EmptyName /\ in.nodes[i].task # EmptyTask
  BY DEF nodeErrors, When, NodeNames
<1>3. edgeErrors(in.nodes, in.edges) = {} <=>
        /\ \A i \in DOMAIN in.edges :
              /\ in.edges[i].from # in.edges[i].to
              /\ in.edges[i].from \in NodeNames(in.nodes)
              /\ in.edges[i].to \in NodeNames(in.nodes)
        /\ \A i, j \in DOMAIN in.edges : i # j =>
              ~(in.edges[i].from = in.edges[j].from /\ in.edges[i].to = in.edges[j].to)
  BY DEF edgeErrors, When
<1>4. feedbackTargetErrors(in.edges) = {} <=>
        \A i, j \in FeedbackIndices(in.edges) :
            in.edges[i].from = in.edges[j].from => in.edges[i].to = in.edges[j].to
  BY DEF feedbackTargetErrors, When
<1>5. \A a, b, c, d : <<a, b>> # <<c, d>> <=> ~(a = c /\ b = d)
  OBVIOUS
<1>6. FeedbackIndices(in.edges) \subseteq DOMAIN in.edges
  BY DEF FeedbackIndices
<1>7. found = {} <=> WellFormed
  <2>1. found = {} <=> /\ When("E001", in.finalCheck /\ in.nodes = <<>>) = {}
                       /\ nodeErrors(in.nodes) = {} /\ edgeErrors(in.nodes, in.edges) = {}
                       /\ feedbackTargetErrors(in.edges) = {}
    OBVIOUS
  <2> HIDE DEF found
  <2>2. ASSUME found = {} PROVE WellFormed
    <3>1. \A i, j \in FeedbackIndices(in.edges) :
              in.edges[i].from = in.edges[j].from => i = j
      BY <1>3, <1>4, <1>6, <2>1, <2>2, Zenon
    <3>2. \A i, j \in DOMAIN in.edges : i # j =>
              <<in.edges[i].from, in.edges[i].to>> # <<in.edges[j].from, in.edges[j].to>>
      BY <1>3, <1>5, <2>1, <2>2, Zenon
    <3>3. in.finalCheck => in.nodes # <<>>
      BY <1>1, <2>1, <2>2, Zenon
    <3> QED BY <1>2, <1>3, <2>1, <2>2, <3>1, <3>2, <3>3, Zenon DEF WellFormed
  <2>3. ASSUME WellFormed PROVE found = {}
    <3>1. /\ When("E001", in.finalCheck /\ in.nodes = <<>>) = {} /\ nodeErrors(in.nodes) = {}
      BY <1>1, <1>2, <2>3, Zenon DEF WellFormed
    <3>2. edgeErrors(in.nodes, in.edges) = {}
      BY <1>3, <1>5, <2>3, Zenon DEF WellFormed
    <3>3. feedbackTargetErrors(in.edges) = {}
      BY <1>4, <2>3, Zenon DEF WellFormed
    <3> QED BY <2>1, <3>1, <3>2, <3>3
  <2> QED BY <2>2, <2>3
<1> QED BY <1>7

(* Being in every closed set is being in the hull of the start.            *)
LEMMA ReachableIsHull ==
    ASSUME NEW a \in Names, NEW b \in Names, NEW except
    PROVE  Reachable(a, b, except)
           <=> b \in Hull(in.edges, DepIndices(in.edges) \ except, {a})
BY DEF Reachable, Closed, Hull, ClosedUnder

LEMMA EndsAreNames ==
    ASSUME TypeOK, NEW i \in DOMAIN in.edges
    PROVE  in.edges[i].from \in Names /\ in.edges[i].to \in Names
<1>1. in.edges[i] \in Edge
  BY DEF TypeOK
<1> QED BY <1>1 DEF Edge

(* The search behind E207 decides whether every feedback edge closes a     *)
(* path, and the search behind E209 whether a dependency is implied by     *)
(* the others.                                                             *)
LEMMA FeedbackSearchDecides ==
    ASSUME TypeOK
    PROVE  feedbackPathErrors(in.edges) = {} <=> FeedbackCloses
<1>1. ASSUME NEW i \in FeedbackIndices(in.edges)
      PROVE  in.edges[i].from \in downstream(in.edges, in.edges[i].to)
             <=> Reachable(in.edges[i].to, in.edges[i].from, {})
  <2>1. in.edges[i].from \in Names /\ in.edges[i].to \in Names
    BY EndsAreNames DEF FeedbackIndices
  <2>2. in.edges \in Seq(Edge) /\ DepIndices(in.edges) \in SUBSET (DOMAIN in.edges)
    BY DEF TypeOK, DepIndices
  <2>3. DepIndices(in.edges) \ {} = DepIndices(in.edges)
    OBVIOUS
  <2>4. downstream(in.edges, in.edges[i].to)
          = Hull(in.edges, DepIndices(in.edges), {in.edges[i].to})
    BY <2>1, <2>2, SearchFindsHull DEF downstream
  <2> QED BY <2>1, <2>3, <2>4, ReachableIsHull
<1> QED BY <1>1 DEF feedbackPathErrors, When, FeedbackCloses

LEMMA RedundancySearchDecides ==
    ASSUME TypeOK, WellFormed, NEW i \in DepIndices(in.edges)
    PROVE  i \in redundantEdges(in.edges)
           <=> Reachable(in.edges[i].from, in.edges[i].to, {i})
<1> DEFINE u == in.edges[i].from
<1> DEFINE v == in.edges[i].to
<1> DEFINE keep == {j \in DepIndices(in.edges) :
                       ~(in.edges[j].from = u /\ in.edges[j].to = v)}
<1>1. i \in DOMAIN in.edges /\ u \in Names /\ v \in Names /\ u # v
  BY EndsAreNames DEF DepIndices, WellFormed
<1>2. keep = DepIndices(in.edges) \ {i}
  BY DEF WellFormed, DepIndices
<1>3. in.edges \in Seq(Edge) /\ keep \in SUBSET (DOMAIN in.edges)
  BY DEF TypeOK, DepIndices
<1>4. i \in redundantEdges(in.edges) <=> v \in Reach(in.edges, keep, u)
  BY <1>1 DEF redundantEdges, alternate_dependency_path
<1> HIDE DEF u, v, keep
<1>5. Reach(in.edges, keep, u) = Hull(in.edges, DepIndices(in.edges) \ {i}, {u})
  BY <1>1, <1>2, <1>3, SearchFindsHull
<1>6. i \in redundantEdges(in.edges) <=> Reachable(u, v, {i})
  BY <1>1, <1>4, <1>5, ReachableIsHull
<1> QED BY <1>6 DEF u, v

(* The verdict follows the sections.                                       *)
LEMMA ProgressInit == Init => Progress
BY DEF Init, Progress

LEMMA PartsKept ==
    ASSUME in' = in
    PROVE  /\ WellFormed' <=> WellFormed
           /\ FeedbackCloses' <=> FeedbackCloses
           /\ NoneRedundant' <=> NoneRedundant
           /\ Acyclic' <=> Acyclic
           /\ Legal' <=> Legal
<1>1. WellFormed' <=> WellFormed
  BY DEF WellFormed, FeedbackIndices
<1>2. FeedbackCloses' <=> FeedbackCloses
  BY DEF FeedbackCloses, FeedbackIndices, Reachable, Closed, DepIndices
<1>3. NoneRedundant' <=> NoneRedundant
  BY DEF NoneRedundant, Reachable, Closed, DepIndices
<1>4. Acyclic' <=> Acyclic
  BY DEF Acyclic, DependsOn, DepIndices
<1>5. Legal' <=> WellFormed' /\ Acyclic' /\ FeedbackCloses' /\ NoneRedundant'
  BY LegalInParts, PTL
<1> QED BY <1>1, <1>2, <1>3, <1>4, <1>5, LegalInParts

LEMMA ProgressStep ==
    ASSUME IInv, IInv', Progress, [Next]_vars
    PROVE  Progress'
<1>k. in' = in => /\ WellFormed' <=> WellFormed
                  /\ FeedbackCloses' <=> FeedbackCloses
                  /\ NoneRedundant' <=> NoneRedundant
                  /\ Acyclic' <=> Acyclic
                  /\ Legal' <=> Legal
  BY PartsKept
<1>t. TypeOK /\ (pc \in {"feedback", "redundancy", "ok"} => Acyclic)
      /\ ("E101" \in errors' => ~Acyclic')
  BY DEF IInv, CycleVerdict
<1>1. CASE Validate
  <2>1. in' = in /\ (errors' = {} <=> WellFormed) /\ "E209" \notin errors'
        /\ (errors' # {} => pc' = "err") /\ (errors' = {} => pc' = "kahn")
    BY <1>1, ValidationDecides
       DEF Validate, When, nodeErrors, edgeErrors, feedbackTargetErrors
  <2> QED BY <1>k, <2>1, LegalInParts DEF Progress
<1>2. CASE KahnBatch
  <2>1. in' = in /\ errors' = errors /\ pc = "kahn" /\ pc' = "kahn"
    BY <1>2 DEF KahnBatch
  <2> QED BY <1>k, <2>1 DEF Progress
<1>3. CASE CycleCheck
  <2>1. /\ in' = in /\ pc = "kahn"
        /\ (errors' = {"E101"} /\ pc' = "err") \/ (errors' = errors /\ pc' = "feedback")
    BY <1>3 DEF CycleCheck
  <2> QED BY <1>k, <1>t, <2>1, LegalInParts DEF Progress
<1>4. CASE FeedbackCheck
  <2>1. in' = in /\ pc = "feedback" /\ errors' = feedbackPathErrors(in.edges)
        /\ "E209" \notin errors'
        /\ pc' = IF errors' # {} THEN "err" ELSE "redundancy"
    BY <1>4 DEF FeedbackCheck, feedbackPathErrors, When
  <2>2. errors' = {} <=> FeedbackCloses
    BY <1>t, <2>1, FeedbackSearchDecides
  <2> QED BY <1>k, <2>1, <2>2, LegalInParts DEF Progress
<1>5. CASE RedundancyCheck
  <2>1. /\ in' = in /\ pc = "redundancy" /\ (errors' # {} => pc' = "err")
        /\ (errors' = {} => pc' = "ok")
        /\ errors' = {} <=> ~(in.rejectRedundant /\ redundantEdges(in.edges) # {})
    BY <1>5 DEF RedundancyCheck, When
  <2>2. WellFormed /\ Acyclic /\ FeedbackCloses
    BY <1>t, <2>1 DEF Progress
  <2>3. redundantEdges(in.edges) \subseteq DepIndices(in.edges)
    BY DEF redundantEdges
  <2>4. errors' = {} <=> NoneRedundant
    BY <1>t, <2>1, <2>2, <2>3, RedundancySearchDecides DEF NoneRedundant
  <2> QED BY <1>k, <2>1, <2>2, <2>4, LegalInParts DEF Progress
<1>6. CASE UNCHANGED vars
  BY <1>k, <1>6 DEF Progress, vars
<1> QED BY <1>1, <1>2, <1>3, <1>4, <1>5, <1>6 DEF Next, Returned

(* How the batches grow: they are disjoint, the first one is the roots,    *)
(* and a node of a later batch was released by the batch right before it.  *)
DependsOnSome(n, S) == \E m \in S : DependsOn(m, n)

Layers ==
    /\ \A j, k \in DOMAIN batches : j # k => batches[j] \cap batches[k] = {}
    /\ \A k \in DOMAIN batches : k > 1 => \A n \in batches[k] : DependsOnSome(n, batches[k - 1])
    /\ batches # <<>> => batches[1] = roots(in.nodes, in.edges)
    /\ pc = "kahn" /\ batches = <<>> => ready = roots(in.nodes, in.edges)
    /\ pc = "kahn" /\ batches # <<>> => \A n \in ready : DependsOnSome(n, batches[Len(batches)])
    /\ pc \in {"feedback", "redundancy", "ok"} => visited = NodeNames(in.nodes)
    /\ pc = "ok" => plan = [execution_batches |-> batches,
                            root_nodes |-> roots(in.nodes, in.edges),
                            terminals |-> terminals(in.nodes, in.edges)]

LEMMA LayersInit == Init => Layers
BY DEF Init, Layers

LEMMA LayersStep ==
    ASSUME IInv, Layers, [Next]_vars
    PROVE  Layers'
<1>d. ASSUME in' = in
      PROVE  /\ \A n, S : DependsOnSome(n, S)' <=> DependsOnSome(n, S)
             /\ roots(in.nodes, in.edges)' = roots(in.nodes, in.edges)
             /\ terminals(in.nodes, in.edges)' = terminals(in.nodes, in.edges)
             /\ NodeNames(in.nodes)' = NodeNames(in.nodes)
  BY <1>d DEF DependsOnSome, DependsOn
<1>1. CASE Validate
  <2>1. /\ in' = in /\ batches = <<>> /\ batches' = <<>> /\ pc' \in {"kahn", "err"}
        /\ pc' = "kahn" => ready' = roots(in.nodes, in.edges)
    BY <1>1 DEF Validate, IInv, Fresh
  <2> QED BY <1>d, <2>1 DEF Layers
<1>2. CASE KahnBatch
  <2>t. /\ in' = in /\ pc = "kahn" /\ pc' = "kahn" /\ batches \in Seq(SUBSET Names)
        /\ batches' = Append(batches, ready) /\ ready \subseteq Names
        /\ ready \cap visited = {}
    BY <1>2 DEF KahnBatch, IInv, TypeOK, KahnCounts
  <2>b. /\ DOMAIN batches' = DOMAIN batches \cup {Len(batches) + 1}
        /\ DOMAIN batches = 1..Len(batches) /\ Len(batches) \in Nat
        /\ Len(batches') = Len(batches) + 1 /\ batches' # <<>>
        /\ batches'[Len(batches) + 1] = ready
        /\ \A k \in DOMAIN batches : batches'[k] = batches[k]
        /\ batches = <<>> <=> Len(batches) = 0
    BY <2>t
  <2>v. \A k \in DOMAIN batches : batches[k] \subseteq visited
    BY DEF IInv, Placed
  <2>1. \A j, k \in DOMAIN batches' : j # k => batches'[j] \cap batches'[k] = {}
    <3>1. ASSUME NEW j \in DOMAIN batches, NEW k \in DOMAIN batches, j # k
          PROVE  batches'[j] \cap batches'[k] = {}
      BY <2>b, <3>1 DEF Layers
    <3>2. ASSUME NEW k \in DOMAIN batches PROVE batches'[k] \cap ready = {}
      BY <2>b, <2>t, <2>v
    <3> QED BY <2>b, <3>1, <3>2
  <2>2. ASSUME NEW k \in DOMAIN batches', k > 1, NEW n \in batches'[k]
        PROVE  DependsOnSome(n, batches'[k - 1])
    <3>1. CASE k \in DOMAIN batches
      <4>1. k - 1 \in DOMAIN batches
        BY <2>2, <2>b, <3>1
      <4> QED BY <2>2, <2>b, <3>1, <4>1 DEF Layers
    <3>2. CASE k = Len(batches) + 1
      <4>1. k - 1 = Len(batches) /\ k - 1 \in DOMAIN batches /\ batches # <<>> /\ n \in ready
        BY <2>2, <2>b, <3>2
      <4> QED BY <2>b, <2>t, <4>1 DEF Layers
    <3> QED BY <2>b, <3>1, <3>2
  <2>3. batches'[1] = roots(in.nodes, in.edges)
    <3>1. CASE batches = <<>>
      BY <2>b, <2>t, <3>1 DEF Layers
    <3>2. CASE batches # <<>>
      <4>1. 1 \in DOMAIN batches
        BY <2>b, <3>2
      <4> QED BY <2>b, <3>2, <4>1 DEF Layers
    <3> QED BY <3>1, <3>2
  <2>4. ASSUME NEW n \in ready' PROVE DependsOnSome(n, batches'[Len(batches')])
    <3>1. n \in NextBatch(degrees')
      BY <1>2 DEF KahnBatch
    <3>2. PICK i \in DepIndices(in.edges) : in.edges[i].to = n /\ in.edges[i].from \in ready
      BY <3>1 DEF NextBatch, Released
    <3> QED BY <2>b, <3>2 DEF DependsOnSome, DependsOn
  <2> QED BY <1>d, <2>t, <2>b, <2>1, <2>2, <2>3, <2>4 DEF Layers
<1>3. CASE CycleCheck
  <2>1. /\ UNCHANGED <<in, batches>> /\ pc' \in {"err", "feedback"}
        /\ pc' = "feedback" => visited' = NodeNames(in.nodes)
    BY <1>3 DEF CycleCheck, AllVisited
  <2> QED BY <1>d, <2>1 DEF Layers
<1>4. CASE FeedbackCheck
  <2>1. /\ UNCHANGED <<in, batches, visited>> /\ pc' \in {"err", "redundancy"} /\ pc = "feedback"
    BY <1>4 DEF FeedbackCheck
  <2> QED BY <1>d, <2>1 DEF Layers
<1>5. CASE RedundancyCheck
  <2>1. /\ UNCHANGED <<in, batches, visited>> /\ pc = "redundancy" /\ pc' \in {"err", "ok"}
        /\ pc' = "ok" => plan' = [execution_batches |-> batches,
                                  root_nodes |-> roots(in.nodes, in.edges),
                                  terminals |-> terminals(in.nodes, in.edges)]
    BY <1>5 DEF RedundancyCheck
  <2> QED BY <1>d, <2>1 DEF Layers
<1>6. CASE UNCHANGED vars
  BY <1>d, <1>6 DEF Layers, vars
<1> QED BY <1>1, <1>2, <1>3, <1>4, <1>5, <1>6 DEF Next, Returned

(* The plan of an accepted call layers its nodes.                          *)
LEMMA PlanFromLayers ==
    ASSUME IInv, Progress, Layers
    PROVE  PlanIsLayering
<1> SUFFICES ASSUME pc = "ok" PROVE PlanIsLayering
  BY DEF PlanIsLayering
<1>p. /\ plan.execution_batches = batches
      /\ plan.root_nodes = roots(in.nodes, in.edges)
      /\ plan.terminals = terminals(in.nodes, in.edges)
      /\ visited = NodeNames(in.nodes)
  BY DEF Layers
<1>b. DOMAIN batches = 1..Len(batches) /\ Len(batches) \in Nat
  BY DEF IInv, TypeOK
<1>1. UNION {batches[k] : k \in DOMAIN batches} = NodeNames(in.nodes)
  BY <1>p DEF IInv, Placed
<1>2. \A j, k \in DOMAIN batches : j # k => batches[j] \cap batches[k] = {}
  BY DEF Layers
<1>3. ASSUME NEW k \in DOMAIN batches, NEW n \in batches[k]
      PROVE  /\ k > 1 => \E m \in batches[k - 1] : DependsOn(m, n)
             /\ k = 1 <=> n \in roots(in.nodes, in.edges)
  <2>1. k > 1 => \E m \in batches[k - 1] : DependsOn(m, n)
    BY DEF Layers, DependsOnSome
  <2>2. 1 \in DOMAIN batches /\ batches # <<>>
    BY <1>b
  <2>3. batches[1] = roots(in.nodes, in.edges)
    BY <2>2 DEF Layers
  <2> QED BY <1>2, <2>1, <2>2, <2>3
<1>4. ASSUME NEW n \in NodeNames(in.nodes)
      PROVE  n \in terminals(in.nodes, in.edges)
             <=> \A m \in NodeNames(in.nodes) : ~DependsOn(n, m)
  <2>1. \A i \in DOMAIN in.edges : in.edges[i].to \in NodeNames(in.nodes)
    BY DEF Progress, WellFormed
  <2> QED BY <2>1 DEF terminals, DependsOn, DepIndices
<1> QED BY <1>p, <1>1, <1>2, <1>3, <1>4 DEF PlanIsLayering

(* The verdict: the sections decide legality.                              *)
LEMMA VerdictFromProgress ==
    ASSUME IInv, Progress
    PROVE  VerdictCorrect
BY LegalInParts DEF IInv, CycleVerdict, Progress, VerdictCorrect
(* Reachability over all dependencies.                                     *)
Leads(a, b) == Reachable(a, b, {})

LEMMA LeadsFacts ==
    ASSUME TypeOK
    PROVE  /\ \A a : Leads(a, a)
           /\ \A a, b, c : Leads(a, b) /\ Leads(b, c) => Leads(a, c)
           /\ \A i \in DepIndices(in.edges) : Leads(in.edges[i].from, in.edges[i].to)
<1>1. \A a : Leads(a, a)
  BY DEF Leads, Reachable
<1>2. \A a, b, c : Leads(a, b) /\ Leads(b, c) => Leads(a, c)
  BY DEF Leads, Reachable
<1>3. \A i \in DepIndices(in.edges) : Leads(in.edges[i].from, in.edges[i].to)
  BY DEF Leads, Reachable, Closed
<1> QED BY <1>1, <1>2, <1>3

(* What a node leads to, other than itself, it leads to through a last     *)
(* dependency.                                                             *)
LEMMA LastDependency ==
    ASSUME TypeOK, NEW a \in Names, NEW b \in Names, Leads(a, b), a # b
    PROVE  \E m \in Names : Leads(a, m) /\ DependsOn(m, b)
<1> SUFFICES ASSUME \A m \in Names : Leads(a, m) => ~DependsOn(m, b) PROVE FALSE
  OBVIOUS
<1> DEFINE T == {z \in Names : Leads(a, z)} \ {b}
<1>1. T \in SUBSET Names /\ a \in T
  BY LeadsFacts
<1>2. ASSUME NEW i \in DepIndices(in.edges) \ {}, in.edges[i].from \in T
      PROVE  in.edges[i].to \in T
  <2>1. in.edges[i].from \in Names /\ in.edges[i].to \in Names
    BY EndsAreNames DEF DepIndices
  <2>2. Leads(a, in.edges[i].to)
    BY <1>2, LeadsFacts
  <2>3. in.edges[i].to # b
    BY <1>2, <2>1 DEF DependsOn
  <2> QED BY <2>1, <2>2, <2>3
<1>3. Closed(T, {})
  BY <1>2 DEF Closed
<1>4. b \in T
  <2> HIDE DEF T
  <2> QED BY <1>1, <1>3 DEF Leads, Reachable
<1> QED BY <1>4

(* In an acyclic graph two nodes do not lead to each other.                *)
LEMMA NoWayBack ==
    ASSUME TypeOK, WellFormed, Acyclic,
           NEW x \in NodeNames(in.nodes), NEW y \in NodeNames(in.nodes), Leads(x, y), Leads(y, x)
    PROVE  x = y
<1> SUFFICES ASSUME x # y PROVE FALSE
  OBVIOUS
<1> DEFINE S == {z \in NodeNames(in.nodes) : Leads(x, z) /\ Leads(z, x)}
<1>n. NodeNames(in.nodes) \subseteq Names
  BY NamesTyped
<1>1. S \in (SUBSET NodeNames(in.nodes)) \ {{}} /\ x \in S /\ y \in S
  BY LeadsFacts
<1>2. PICK n \in S : \A m \in S : ~DependsOn(m, n)
  <2> HIDE DEF S
  <2> QED BY <1>1 DEF Acyclic
<1>3. PICK w \in S : w # n
  BY <1>1
<1>4. Leads(w, n)
  BY LeadsFacts
<1>5. PICK m \in Names : Leads(w, m) /\ DependsOn(m, n)
  BY <1>n, <1>3, <1>4, LastDependency
<1>6. Leads(m, n) /\ m \in NodeNames(in.nodes)
  BY <1>5, LeadsFacts DEF DependsOn, WellFormed, DepIndices
<1>7. m \in S
  BY <1>5, <1>6, LeadsFacts
<1> QED BY <1>2, <1>5, <1>7

(* What lies between two nodes.                                            *)
Between(u, v) == {z \in Names : Leads(u, z) /\ Leads(z, v)}

Gap(i) == Between(in.edges[i].from, in.edges[i].to)

Leaves(i, S) == in.edges[i].from \in S /\ in.edges[i].to \notin S

(* A redundant edge that leaves a set closed under all others is not the   *)
(* only one: between its ends there is another, with less between.         *)
LEMMA AnotherLeaves ==
    ASSUME TypeOK, WellFormed, Acyclic, NEW S \in SUBSET Names,
           NEW i \in DepIndices(in.edges), Leaves(i, S),
           Reachable(in.edges[i].from, in.edges[i].to, {i})
    PROVE  \E j \in DepIndices(in.edges) :
              Leaves(j, S) /\ Gap(j) \subseteq Gap(i) /\ Gap(j) # Gap(i)
<1> DEFINE u == in.edges[i].from
<1> DEFINE v == in.edges[i].to
<1> DEFINE U == {z \in Names : Leads(u, z) /\ (z \in S \/ ~Leads(z, v))}
<1>u. u \in Names /\ v \in Names /\ u \in NodeNames(in.nodes) /\ v \in NodeNames(in.nodes)
      /\ Leads(u, v)
  BY EndsAreNames, LeadsFacts DEF DepIndices, WellFormed
<1>1. U \in SUBSET Names /\ u \in U /\ v \notin U
  BY <1>u, LeadsFacts DEF Leaves
<1>2. ~Closed(U, {i})
  <2> HIDE DEF U
  <2> QED BY <1>1 DEF Reachable
<1>3. PICK j \in DepIndices(in.edges) \ {i} : in.edges[j].from \in U /\ in.edges[j].to \notin U
  <2> HIDE DEF U
  <2> QED BY <1>2 DEF Closed
<1> DEFINE x == in.edges[j].from
<1> DEFINE y == in.edges[j].to
<1>4. x \in Names /\ y \in Names /\ x \in NodeNames(in.nodes) /\ y \in NodeNames(in.nodes)
      /\ Leads(x, y) /\ (x # u \/ y # v)
  BY EndsAreNames, LeadsFacts DEF DepIndices, WellFormed
<1>5. Leads(u, x) /\ Leads(u, y)
  BY <1>3, <1>4, LeadsFacts
<1>6. y \notin S /\ Leads(y, v)
  BY <1>3, <1>4, <1>5
<1>7. Leads(x, v) /\ x \in S
  BY <1>3, <1>4, <1>6, LeadsFacts
<1> HIDE DEF u, v, x, y, U
<1>8. Between(x, y) \subseteq Between(u, v)
  BY <1>5, <1>6, LeadsFacts DEF Between
<1>9. u \in Between(u, v) /\ v \in Between(u, v)
  BY <1>u, LeadsFacts DEF Between
<1>10. ASSUME Between(x, y) = Between(u, v) PROVE FALSE
  <2>1. Leads(x, u) /\ Leads(v, y)
    BY <1>9, <1>10 DEF Between
  <2>2. x = u /\ y = v
    BY <1>u, <1>4, <1>5, <1>6, <2>1, NoWayBack
  <2> QED BY <1>4, <2>2
<1>11. x \in S /\ y \notin S /\ Between(x, y) \subseteq Between(u, v)
       /\ Between(x, y) # Between(u, v)
  BY <1>6, <1>7, <1>8, <1>10
<1> QED BY <1>11 DEF u, v, x, y, Leaves, Gap

(* A set closed under the edges that are not redundant is closed.          *)
LEMMA RestSuffices ==
    ASSUME TypeOK, WellFormed, Acyclic, NEW S \in SUBSET Names,
           Closed(S, redundantEdges(in.edges))
    PROVE  Closed(S, {})
<1> DEFINE leaving == {i \in DepIndices(in.edges) : Leaves(i, S)}
<1> SUFFICES ASSUME leaving # {} PROVE FALSE
  BY DEF Closed, Leaves
<1> DEFINE size == [i \in leaving |-> Cardinality(Gap(i))]
<1>1. \A i : IsFiniteSet(Gap(i)) /\ Cardinality(Gap(i)) \in Nat
  <2>1. \A i : Gap(i) \subseteq Names
    BY DEF Between, Gap
  <2> QED BY <2>1, NamesAssumption, FS_Subset, FS_CardinalityType
<1>2. size \in [leaving -> Nat]
  <2> HIDE DEF leaving
  <2> QED BY <1>1
<1>3. PICK i \in leaving : \A j \in leaving : ~(size[j] < size[i])
  <2> HIDE DEF leaving, size
  <2> QED BY <1>2, LeastMeasure
<1>4. i \in redundantEdges(in.edges)
  BY DEF Closed, Leaves
<1>5. Reachable(in.edges[i].from, in.edges[i].to, {i})
  BY <1>4, RedundancySearchDecides
<1>6. PICK j \in leaving : Gap(j) \subseteq Gap(i) /\ Gap(j) # Gap(i)
  BY <1>5, AnotherLeaves
<1>7. size[j] < size[i]
  <2>1. Cardinality(Gap(j)) < Cardinality(Gap(i))
    BY <1>1, <1>6, FS_Subset
  <2> QED BY <2>1
<1> QED BY <1>3, <1>6, <1>7

LEMMA AdviceFromProgress ==
    ASSUME IInv, Progress
    PROVE  RedundancyAdviceIsSafe
<1> SUFFICES ASSUME "E209" \in errors, NEW a \in NodeNames(in.nodes), NEW b \in NodeNames(in.nodes),
                    Reachable(a, b, {}), NEW S \in SUBSET Names, a \in S,
                    Closed(S, redundantEdges(in.edges))
             PROVE  b \in S
  BY DEF RedundancyAdviceIsSafe, Reachable
<1>1. Closed(S, {})
  BY RestSuffices DEF IInv, Progress
<1> QED BY <1>1 DEF Reachable

(* The inductive invariant once more, now with the progress of the verdict *)
(* and the shape of the batches.                                           *)
THEOREM Verdicts == Spec => [](IInv /\ Progress /\ Layers)
<1>1. Init => Progress /\ Layers
  BY ProgressInit, LayersInit
<1>2. IInv /\ IInv' /\ Progress /\ Layers /\ [Next]_vars => Progress' /\ Layers'
  BY ProgressStep, LayersStep
<1> QED BY <1>1, <1>2, Invariance, PTL DEF Spec

(* compile accepts exactly the legal graphs, rejects the others with a     *)
(* diagnostic, and the plan it returns layers the nodes of the graph.      *)
THEOREM CompileDecides == Spec => []CompileExact
<1>1. IInv /\ Progress /\ Layers => CompileExact
  BY VerdictFromProgress, PlanFromLayers DEF CompileExact
<1> QED BY <1>1, Verdicts, PTL

(* Removing every edge that E209 reports at once keeps every ordering.     *)
THEOREM AdviceIsSafe == Spec => []RedundancyAdviceIsSafe
<1>1. IInv /\ Progress /\ Layers => RedundancyAdviceIsSafe
  BY AdviceFromProgress
<1> QED BY <1>1, Verdicts, PTL

(***************************************************************************)
(* Module Planner.                                                         *)
(***************************************************************************)
(* The inductive invariant of module Planner.                              *)

\* The types of the Planner's variables.
Statuses == {"none", "running", "success", "failed"}
Marks == {"started", "graph", "failed", "aborted", "finished"}
Failures == {"failed", "aborted", "finished"}

\* The projection of the Run, the running attempts, the turn, a recovery and the user.
RunType == [phase : Phases, serial : BOOLEAN, approved : BOOLEAN, paused : BOOLEAN,
            stop : BOOLEAN, graph : 0 .. MaxTurns, pending : BOOLEAN, review : BOOLEAN,
            last : 0 .. MaxTurns, status : Statuses]
ExecType == [Execs -> {"idle", "running", "stopping"}]
TurnType == [pc : Pcs, id : 0 .. MaxTurns, kind : Kinds, resume : BOOLEAN, slot : BOOLEAN,
             killed : BOOLEAN, denied : BOOLEAN]
BootType == [pc : {"up", "down", "scan", "event"}, todo : SUBSET Turns, at : 0 .. MaxTurns,
             cut : BOOLEAN]
UserType == [acts : Nat, can : SUBSET Possible, turns : 0 .. MaxTurns,
             kinds : [Turns -> Kinds], asked : SUBSET (0 .. MaxTurns),
             hold : {"none", "pause", "stop"}]

\* Each variable has its type.
TypeInv ==
    /\ flag \in BOOLEAN /\ refuse \in BOOLEAN /\ cancel \in {"none", "planner", "run"}
    /\ run \in RunType /\ exec \in ExecType /\ turn \in TurnType
    /\ disk \in [Turns -> Statuses] /\ rec \in [Turns -> SUBSET Marks]
    /\ wrote \in 0 .. MaxTurns /\ stopper \in {"off", "planning", "quiet"}
    /\ boot \in BootType /\ user \in UserType

\* The stages of a turn: before it is announced, up to its commit, and failed.
Opening == {"check", "prepare", "announce"}
Working == {"route", "select", "launch", "engine", "drain", "commit"}
Failing == {"spoil", "abort"}
OfTurn(k, pcs) == turn.kind = k /\ turn.pc \in pcs
Idle == \A e \in Execs : exec[e] = "idle"
\* A recovery has yet to read the summary of turn t, or to record what it says.
Unread(t) ==
    ~Up /\ (boot.pc = "down" \/ t \in boot.todo \/ (boot.pc = "event" /\ boot.at = t))

\* What belongs to a turn is there only while the turn is, and nothing of the
\* process outlives a crash.
Shape ==
    /\ flag = (turn.pc # "off")
    /\ turn.pc = "off" => turn = Off
    /\ turn.pc # "off" =>
          turn.id = user.turns /\ turn.id \in Turns /\ turn.kind = user.kinds[turn.id]
    /\ ~Up => turn.pc = "off" /\ stopper = "off" /\ cancel = "none" /\ ~refuse /\ Idle
         /\ Can("crash")
    /\ boot.pc = "event" => boot.at \in Turns /\ disk[boot.at] = "failed"
    /\ \A t \in boot.todo : disk[t] # "none"
    /\ turn.pc \in {"check", "prepare"} => disk[turn.id] = "none" /\ rec[turn.id] = {}
    /\ turn.resume => /\ turn.kind # "new"
                      /\ turn.pc \notin Opening \cup {"off", "route", "select", "launch", "engine"}
    /\ turn.pc = "resume" => turn.resume
    /\ turn.slot => turn.kind = "revise" /\ run.approved
    /\ turn.pc = "drain" => run.approved /\ turn.kind # "new"
    /\ stopper = "quiet" => turn.pc \in {"off", "check"}
    /\ run.last <= user.turns /\ run.graph <= user.turns /\ wrote <= user.turns
    /\ \A t \in Turns : t > user.turns => disk[t] = "none" /\ rec[t] = {}

\* Until its first event a Run is blank.
NewRun ==
    /\ run.phase = "none" => /\ stopper = "off" /\ run.last = 0 /\ run.graph = 0
                             /\ ~run.approved /\ ~run.paused /\ ~run.stop /\ ~run.review
                             /\ run.status = "none" /\ turn.kind = "new"
                             /\ turn.pc \notin Working \cup Failing \cup {"seal"}
    /\ OfTurn("new", Opening) => run.phase = "none"
    /\ OfTurn("new", Working) => run.phase = "planning" /\ ~run.approved /\ run.last = turn.id
    /\ OfTurn("new", Working) /\ run.stop => cancel # "none"
    /\ OfTurn("new", Failing) /\ ~Can("approval") /\ ~Can("disk") =>
          run.phase = "planning" /\ ~run.approved /\ run.last = turn.id

\* A Run gets its first event from the only turn that has a summary.
Firsts ==
    /\ \A t \in Turns : run.phase = "none" /\ disk[t] # "none" =>
          /\ user.kinds[t] = "new" /\ t = user.turns /\ disk[t] # "success"
          /\ turn.pc = "announce" \/ Unread(t)
    /\ \A t, u \in Turns : t < u /\ u <= user.turns /\ user.kinds[u] = "new" => disk[t] = "none"

\* A review runs alone: nothing executes, and nothing else pauses the Run.
Reviews ==
    /\ run.review => /\ run.last = user.turns /\ run.last \in Turns
                     /\ user.kinds[run.last] = "review" /\ "started" \in rec[run.last]
                     /\ boot.pc = "down" \/ OfTurn("review", Working \cup Failing)
    /\ OfTurn("review", Working) => run.review
    /\ OfTurn("review", Failing) => run.review \/ Can("disk")
    /\ turn.kind = "review" => Idle
    /\ run.phase = "completed" => Idle /\ ~run.paused
    /\ ~run.approved => Idle /\ ~run.paused
    /\ run.phase = "awaiting" => ~run.approved

\* Whose summary still says that it runs, and whose bytes wait for a capture.
Leftovers ==
    /\ \A t \in Turns : disk[t] = "running" =>
          \/ user.kinds[t] = "review"
          \/ t = user.turns /\ (Unread(t) \/ turn.pc \in {"announce", "seal", "spoil"} \cup Working)
    /\ wrote # 0 => user.kinds[wrote] = "revise"
    /\ wrote # 0 /\ wrote = user.turns => run.approved /\ ~run.review
    /\ boot.pc = "event" /\ boot.cut => user.kinds[boot.at] = "review" \/ boot.at = user.turns

\* A Run that the user stopped is paused, and a turn on its way is cancelled.
Stops ==
    /\ user.hold = "stop" => run.stop /\ (run.approved => run.paused)
    /\ user.hold = "stop" /\ turn.pc \in Opening \cup Working =>
          cancel # "none" \/ OfTurn("review", Opening)

\* A pause for safety is one, is no turn's own, and falls into no review.
Pauses ==
    ~Can("pause") /\ user.hold = "pause" =>
        /\ run.paused /\ ~turn.resume
        /\ ~run.review /\ ~OfTurn("review", Working \cup Failing \cup {"seal"})

\* A pause that is nobody's is that of a drain, and its turn can undo it.
NoRefusedResume == ~Can("stopnode") /\ ~(Can("stop") /\ Can("approve"))
Draining == {"drain", "commit", "seal", "spoil", "abort", "end", "resume"}
Drains ==
    NoRefusedResume =>
        /\ run.paused /\ user.hold = "none" =>
              \/ boot.pc = "down"
              \/ /\ Up /\ turn.resume /\ turn.pc \in Draining
                 /\ run.approved /\ run.phase = "paused" /\ ~run.stop /\ cancel # "run"
                 /\ \A e \in Execs : exec[e] # "stopping"
        /\ cancel = "run" /\ turn.pc \in {"prepare", "announce"} \cup Working =>
              \A e \in Execs : exec[e] # "running"
        /\ \A e \in Execs : exec[e] = "stopping" => run.paused
        /\ user.hold = "none" /\ run.stop => ~run.approved

\* What runs, has run or is reviewed was approved.
Approvals ==
    ~Can("disk") =>
        /\ run.phase \in {"running", "completed"} => run.approved
        /\ OfTurn("review", Working \cup Failing) => run.approved
        /\ run.review => run.approved

\* Without a run-wide Stop a cancellation is for the turn that runs.
Cancels ==
    ~Can("stop") =>
        /\ stopper = "off" /\ cancel # "run" /\ ~run.stop
        /\ cancel # "none" => flag /\ turn.id \in user.asked
        /\ turn.denied => turn.id \in user.asked

\* Bytes that wait for a capture get it from an execution or from the turn.
Writes ==
    ~Can("crash") /\ wrote # 0 =>
        \/ exec["lender"] # "idle"
        \/ turn.slot /\ turn.pc \in {"engine", "drain", "commit", "spoil", "abort"}

\* The graph of the Run, and a success it tells of, are in the store.
Stores == \A t \in Turns : run.graph = t \/ Committed(t) => "graph" \in rec[t]

\* The summary and the store agree about a turn that is over,
Told(t) ==
    \/ disk[t] = "none" /\ rec[t] = {}
    \/ disk[t] = "success" /\ "graph" \in rec[t]
    \/ disk[t] = "failed" /\ "graph" \notin rec[t] /\ rec[t] \cap Failures # {}
    \/ disk[t] = "running" /\ rec[t] = {} /\ user.kinds[t] = "review" /\ ~Can("crash")

\* about the turn that runs,
Begun(t) == rec[t] = IF user.kinds[t] = "revise" THEN {} ELSE {"started"}
Telling(t) ==
    /\ turn.pc = "announce" => disk[t] = "running" /\ rec[t] = {}
    /\ turn.pc \in Working \cup {"spoil"} => disk[t] = "running" /\ Begun(t)
    /\ turn.pc = "seal" => disk[t] = "running" /\ "graph" \in rec[t] /\ Committed(t)
    /\ turn.pc = "abort" => disk[t] = "failed" /\ Begun(t)
    /\ turn.pc \in {"end", "resume", "finish"} => Told(t)

\* and about one that a crash cut off: either its graph is in the store, or
\* the recovery will record its failure.
CutAfterGraph(t) ==
    disk[t] = "running" /\ "graph" \in rec[t] /\ Committed(t) /\ ~run.review
CutBeforeGraph(t) ==
    /\ disk[t] \in {"running", "failed"} /\ "graph" \notin rec[t]
    /\ user.kinds[t] = "new" =>
          /\ ~run.approved
          /\ run.phase = "none" \/ (run.last = t /\ run.phase \in {"planning", "planning_failed"})
    /\ user.kinds[t] = "revise" => rec[t] = {}
    /\ user.kinds[t] = "review" => "finished" \in rec[t] \/ (boot.pc = "down" /\ run.review)

\* A turn that a crash cut off is either.
Cut(t) == CutAfterGraph(t) \/ CutBeforeGraph(t)

\* What must be true of a turn's summary and events, by where it is.
Tale(t) ==
    IF t = user.turns /\ turn.pc # "off" THEN Telling(t)
    ELSE Told(t) \/ (t = user.turns /\ Unread(t) /\ Cut(t))

\* When the records are to be true: no failing disk or approval, and no review that a
\* recovery may misread.
Sound == ~Can("approval") /\ ~Can("disk") /\ ~Misread
Tales == Sound => \A t \in Turns : Tale(t)

\* The inductive invariant.
PlannerInv ==
    /\ TypeInv /\ Shape /\ NewRun /\ Firsts /\ Reviews /\ Leftovers /\ Stops /\ Pauses /\ Drains
    /\ Approvals /\ Cancels /\ Writes /\ Stores /\ Tales

----------------------------------------------------------------------------

\* What the type invariant says of each field.
LEMMA Typed ==
    ASSUME TypeInv
    PROVE  /\ run \in RunType /\ turn \in TurnType /\ user \in UserType /\ boot \in BootType
           /\ exec \in ExecType /\ disk \in [Turns -> Statuses]
           /\ rec \in [Turns -> SUBSET Marks] /\ wrote \in 0 .. MaxTurns
           /\ MaxTurns \in Nat /\ user.turns \in 0 .. MaxTurns /\ user.acts \in Nat
           /\ turn.id \in 0 .. MaxTurns /\ run.last \in 0 .. MaxTurns
           /\ run.graph \in 0 .. MaxTurns /\ boot.at \in 0 .. MaxTurns
           /\ run.phase \in Phases /\ turn.kind \in Kinds /\ turn.pc \in Pcs
<1>1. /\ run \in RunType /\ turn \in TurnType /\ user \in UserType /\ boot \in BootType
      /\ exec \in ExecType /\ disk \in [Turns -> Statuses]
      /\ rec \in [Turns -> SUBSET Marks] /\ wrote \in 0 .. MaxTurns
  BY DEF TypeInv
<1>2. run.last \in 0 .. MaxTurns /\ run.graph \in 0 .. MaxTurns /\ run.phase \in Phases
  BY <1>1 DEF RunType
<1>3. turn.id \in 0 .. MaxTurns /\ turn.kind \in Kinds /\ turn.pc \in Pcs
  BY <1>1 DEF TurnType
<1>4. user.turns \in 0 .. MaxTurns /\ user.acts \in Nat
  BY <1>1 DEF UserType
<1>5. boot.at \in 0 .. MaxTurns
  BY <1>1 DEF BootType
<1> QED BY <1>1, <1>2, <1>3, <1>4, <1>5, BoundsAssumption

\* A step of a turn disturbs the tale of no other.
LEMMA TalesOfTurn ==
    ASSUME PlannerInv, turn.pc # "off", turn'.pc # "off", turn'.id = turn.id,
           user'.turns = user.turns, user'.kinds = user.kinds, user'.can = user.can,
           \A t \in Turns : t # turn.id => disk'[t] = disk[t] /\ rec'[t] = rec[t],
           "started" \in rec'[turn.id] => "started" \in rec[turn.id] \/ turn.pc = "announce",
           disk[turn.id] # "none" => disk'[turn.id] # "none",
           turn'.pc = "announce" => turn.pc \in {"prepare", "announce"},
           Sound /\ Sound' => Telling(turn.id)'
    PROVE  Tales'
<1>1. turn.id = user.turns /\ turn.id \in Turns
  BY DEF PlannerInv, Shape
<1>2. Misread => Misread'
  <2>1. SUFFICES ASSUME Can("crash"), NEW t \in Turns,
                        user.kinds[t] = "review", "started" \notin rec[t], disk[t] # "none",
                        ~(turn.pc = "announce" /\ turn.id = t)
                 PROVE  Misread'
    BY DEF Misread
  <2>2. "started" \notin rec'[t] /\ disk'[t] # "none"
    BY <2>1
  <2>3. ~(turn'.pc = "announce" /\ turn'.id = t)
    BY <2>1 DEF PlannerInv, Shape
  <2> QED BY <2>1, <2>3 DEF Misread, Can
<1>3. Sound' => Sound
  BY <1>2 DEF Sound, Can
<1>4. ASSUME Sound, NEW t \in Turns, t # turn.id
      PROVE  Tale(t)'
  <2>1. Told(t)
    BY <1>1, <1>4 DEF PlannerInv, Tales, Tale
  <2> QED BY <1>1, <1>4, <2>1 DEF Told, Tale, Can
<1>5. Sound /\ Sound' => Tale(turn.id)'
  BY <1>1 DEF Tale
<1> QED BY <1>1, <1>3, <1>4, <1>5 DEF Tales

----------------------------------------------------------------------------
(* What the operators on the Run's projection do to its fields.            *)
LEMMA GraphedRun ==
    ASSUME TypeInv, NEW c \in BOOLEAN, NEW r, r = Graphed(c)
    PROVE  /\ r \in RunType
           /\ r.approved = run.approved /\ r.paused = run.paused /\ r.review = run.review
           /\ r.last = turn.id /\ r.status = "success"
           /\ r.graph = (IF c THEN turn.id ELSE run.graph)
           /\ r.stop = (turn.kind = "new" /\ run.stop)
           /\ r.pending = (run.pending \/ c)
           /\ r.phase = IF ~run.approved THEN "awaiting"
                        ELSE IF ~c THEN run.phase
                        ELSE IF run.paused THEN "paused" ELSE "running"
<1> DEFINE g == [run EXCEPT !.last = turn.id, !.status = "success",
                            !.graph = IF c THEN turn.id ELSE @,
                            !.stop = IF turn.kind = "new" THEN @ ELSE FALSE,
                            !.pending = @ \/ c]
<1>1. PICK s : s = [run EXCEPT !.last = turn.id, !.status = "success"]
  OBVIOUS
<1>2. PICK q : q = [s EXCEPT !.graph = IF c THEN turn.id ELSE @,
                             !.stop = IF turn.kind = "new" THEN @ ELSE FALSE,
                             !.pending = @ \/ c]
  OBVIOUS
<1>3. s \in RunType /\ run \in RunType
  BY <1>1, Typed DEF RunType, Statuses
<1>4. q \in RunType
  BY <1>2, <1>3, Typed DEF RunType
<1>5. r = IF ~q.approved THEN [q EXCEPT !.phase = "awaiting"]
          ELSE IF c THEN [q EXCEPT !.phase = IF q.paused THEN "paused" ELSE "running"]
          ELSE q
  BY <1>1, <1>2 DEF Graphed, LastTurn
<1>6. r \in RunType
  BY <1>4, <1>5 DEF RunType, Phases
<1>7. /\ q.approved = run.approved /\ q.paused = run.paused /\ q.review = run.review
      /\ q.last = turn.id /\ q.status = "success"
      /\ q.graph = (IF c THEN turn.id ELSE run.graph)
      /\ q.stop = (turn.kind = "new" /\ run.stop)
      /\ q.pending = (run.pending \/ c) /\ q.phase = run.phase
  BY <1>1, <1>2, <1>3 DEF RunType
<1> QED BY <1>4, <1>5, <1>6, <1>7 DEF RunType

\* PlannerReviewFinished: what is left of the phase when a review ends.
LEMMA ReviewedRun ==
    ASSUME NEW p \in RunType, NEW a \in BOOLEAN, NEW r, r = Reviewed(p, a)
    PROVE  /\ r \in RunType
           /\ r.approved = (p.approved /\ ~a) /\ r.paused = (p.paused /\ ~a) /\ ~r.review
           /\ r.last = p.last /\ r.status = p.status /\ r.graph = p.graph
           /\ r.stop = p.stop /\ r.pending = p.pending
           /\ r.phase = IF a THEN "awaiting" ELSE IF p.stop \/ p.paused THEN "paused"
                        ELSE IF p.pending THEN "running" ELSE "completed"
<1>1. CASE a
  <2>1. r = [p EXCEPT !.review = FALSE, !.approved = FALSE, !.paused = FALSE, !.phase = "awaiting"]
    BY <1>1 DEF Reviewed
  <2>2. r \in RunType
    BY <2>1 DEF RunType, Phases
  <2> QED BY <1>1, <2>1, <2>2 DEF RunType
<1>2. CASE ~a
  <2>1. r = [p EXCEPT !.review = FALSE,
                      !.phase = IF p.stop \/ p.paused THEN "paused"
                                ELSE IF p.pending THEN "running" ELSE "completed"]
    BY <1>2 DEF Reviewed
  <2>2. r \in RunType
    BY <2>1 DEF RunType, Phases
  <2> QED BY <1>2, <2>1, <2>2 DEF RunType
<1> QED BY <1>1, <1>2

\* A turn that fails leaves the graph; a review also gives the phase back.
LEMMA AbortedRun ==
    ASSUME TypeInv, NEW p \in RunType, NEW r, r = Aborted(p)
    PROVE  /\ r \in RunType
           /\ r.approved = p.approved /\ r.paused = p.paused /\ r.stop = p.stop
           /\ r.graph = p.graph /\ r.pending = p.pending /\ r.status = "failed"
           /\ r.review = (p.review /\ turn.kind # "review")
           /\ r.last = (IF turn.kind = "review" THEN p.last ELSE turn.id)
           /\ r.phase = IF turn.kind # "review" THEN p.phase
                        ELSE IF p.stop \/ p.paused THEN "paused"
                        ELSE IF p.pending THEN "running" ELSE "completed"
<1>1. CASE turn.kind = "review"
  <2>1. PICK q : q = [p EXCEPT !.status = "failed"]
    OBVIOUS
  <2>2. q \in RunType
    BY <2>1 DEF RunType, Statuses
  <2>3. r = Reviewed(q, FALSE)
    BY <1>1, <2>1 DEF Aborted
  <2>4. /\ r \in RunType
        /\ r.approved = (q.approved /\ ~FALSE) /\ r.paused = (q.paused /\ ~FALSE) /\ ~r.review
        /\ r.last = q.last /\ r.status = q.status /\ r.graph = q.graph
        /\ r.stop = q.stop /\ r.pending = q.pending
        /\ r.phase = IF FALSE THEN "awaiting" ELSE IF q.stop \/ q.paused THEN "paused"
                     ELSE IF q.pending THEN "running" ELSE "completed"
    BY <2>2, <2>3, ReviewedRun
  <2> QED BY <1>1, <2>1, <2>4 DEF RunType
<1>2. CASE turn.kind # "review"
  <2>1. r = [p EXCEPT !.last = turn.id, !.status = "failed"]
    BY <1>2 DEF Aborted
  <2>2. r \in RunType
    BY Typed, <2>1 DEF RunType, Statuses
  <2> QED BY <1>2, <2>1, <2>2 DEF RunType
<1> QED BY <1>1, <1>2


\* recover: an interrupted Run is opened paused, or failed if it was being planned.
LEMMA ReopenedRun ==
    ASSUME NEW p \in RunType, NEW r, r = Reopened(p)
    PROVE  /\ r \in RunType
           /\ r.stop = p.stop /\ r.graph = p.graph /\ r.last = p.last /\ ~r.review
           /\ r.status = IF p.review THEN "failed" ELSE p.status
           /\ r.approved = (p.approved /\ ~(p.review /\ p.pending))
           /\ p.review => /\ r.paused = (p.paused /\ ~p.pending)
                          /\ r.phase = IF p.pending THEN "awaiting"
                                       ELSE IF p.stop \/ p.paused THEN "paused" ELSE "completed"
           /\ ~p.review => IF p.approved /\ p.phase \notin {"completed", "paused"}
                           THEN r.paused /\ r.phase = "paused"
                           ELSE r.paused = p.paused /\ r.phase = p.phase
<1>1. CASE p.review
  <2>1. PICK q : q = [p EXCEPT !.status = "failed"]
    OBVIOUS
  <2>2. q \in RunType
    BY <2>1 DEF RunType, Statuses
  <2>3. PICK s : s = Reviewed(q, q.pending)
    OBVIOUS
  <2>4. q.pending \in BOOLEAN
    BY <2>2 DEF RunType
  <2>5. /\ s \in RunType
        /\ s.approved = (q.approved /\ ~q.pending) /\ s.paused = (q.paused /\ ~q.pending)
        /\ ~s.review
        /\ s.last = q.last /\ s.status = q.status /\ s.graph = q.graph
        /\ s.stop = q.stop /\ s.pending = q.pending
        /\ s.phase = IF q.pending THEN "awaiting" ELSE IF q.stop \/ q.paused THEN "paused"
                     ELSE IF q.pending THEN "running" ELSE "completed"
    BY <2>2, <2>3, <2>4, ReviewedRun
  <2>6. q.pending = p.pending
    BY <2>1
  <2>7. s = Reviewed([p EXCEPT !.status = "failed"], p.pending)
    BY <2>1, <2>3
  <2>8. r = IF s.approved /\ s.phase \notin {"completed", "paused"}
            THEN [s EXCEPT !.paused = TRUE, !.phase = "paused"] ELSE s
    BY <1>1, <2>7 DEF Reopened
  <2>9. r = s
    BY <2>5, <2>8
  <2> QED BY <1>1, <2>1, <2>5, <2>9 DEF RunType
<1>2. CASE ~p.review
  <2>1. r = IF p.approved /\ p.phase \notin {"completed", "paused"}
            THEN [p EXCEPT !.paused = TRUE, !.phase = "paused"] ELSE p
    BY <1>2 DEF Reopened
  <2>2. r \in RunType
    BY <2>1 DEF RunType, Phases
  <2> QED BY <1>2, <2>1, <2>2 DEF RunType
<1> QED BY <1>1, <1>2

\* A turn begins when no other runs.
LEMMA BeginKeeps ==
    ASSUME PlannerInv, NEW k \in Kinds, Begin(k) PROVE PlannerInv'
<1>1. TypeInv
  BY DEF PlannerInv
<1>2. /\ flag' = TRUE /\ ~flag /\ user.turns < MaxTurns /\ turn.pc = "off" /\ Up
      /\ k = "new" => run.phase = "none"
      /\ k = "revise" => run.phase # "none"
      /\ k = "review" => run.phase = "completed"
      /\ UNCHANGED <<cancel, refuse, run, exec, disk, rec, wrote, stopper, boot>>
  BY DEF Begin, At
<1>3. /\ user.turns + 1 \in Turns /\ user.turns + 1 \in 0 .. MaxTurns
  BY <1>1, Typed, <1>2 DEF Turns
<1>4. /\ turn' \in TurnType
      /\ turn'.pc = "check" /\ turn'.id = user.turns + 1 /\ turn'.kind = k
      /\ ~turn'.resume /\ ~turn'.slot /\ ~turn'.denied
  <2>1. Off \in TurnType
    BY BoundsAssumption DEF Off, TurnType, Pcs, Kinds
  <2>2. turn' = [Off EXCEPT !.pc = "check", !.id = user.turns + 1, !.kind = k]
    BY DEF Begin
  <2>3. turn' \in TurnType
    BY <1>3, <2>1, <2>2 DEF TurnType, Pcs
  <2> QED BY <2>2, <2>3 DEF Off
<1>5. /\ user' \in UserType
      /\ user'.turns = user.turns + 1 /\ user'.can = user.can /\ user'.asked = user.asked
      /\ user'.kinds[user.turns + 1] = k
      /\ \A t \in Turns : t # user.turns + 1 => user'.kinds[t] = user.kinds[t]
      /\ user'.hold = IF k # "revise" \/ user.hold # "stop" THEN user.hold
                      ELSE IF run.paused THEN "pause" ELSE "none"
  <2>1. user' = [user EXCEPT !.turns = @ + 1, !.kinds[user.turns + 1] = k,
                             !.hold = IF k # "revise" \/ @ # "stop" THEN @
                                      ELSE IF run.paused THEN "pause" ELSE "none"]
    BY DEF Begin
  <2>2. user \in UserType /\ user.kinds \in [Turns -> Kinds]
    BY <1>1, Typed DEF UserType
  <2>3. user' \in UserType
    BY <1>3, <2>1, <2>2 DEF UserType
  <2> QED BY <1>3, <2>1, <2>3 DEF UserType
<1>6. TypeInv'
  BY <1>4, <1>5 DEF PlannerInv, TypeInv, Begin
<1>7. Shape'
  <2>1. \A t \in Turns : t > user.turns => disk'[t] = "none" /\ rec'[t] = {}
    BY <1>2 DEF PlannerInv, Shape
  <2>4. \A t \in Turns : t > user'.turns => disk'[t] = "none" /\ rec'[t] = {}
    BY <1>1, Typed, <1>5, <2>1 DEF Turns
  <2>5. disk'[turn'.id] = "none" /\ rec'[turn'.id] = {}
    BY <1>1, Typed, <1>3, <1>4, <2>1
  <2>2. run'.last <= user'.turns /\ run'.graph <= user'.turns /\ wrote' <= user'.turns
    BY Typed, <1>2, <1>5 DEF PlannerInv, Shape
  <2>3. turn'.id = user'.turns /\ turn'.id \in Turns /\ turn'.kind = user'.kinds[turn'.id]
    BY <1>3, <1>4, <1>5
  <2> QED BY <1>2, <1>4, <2>2, <2>3, <2>4, <2>5 DEF PlannerInv, Shape, Up
<1>8. NewRun'
  BY <1>2, <1>4, <1>5 DEF PlannerInv, NewRun, OfTurn, Opening, Working, Failing, Can, Shape, Kinds
<1>9. Firsts'
  <2>1. run.phase = "none" => \A t \in Turns : disk[t] = "none"
    BY <1>2 DEF PlannerInv, Firsts, Unread
  <2>2. ASSUME NEW t \in Turns, NEW u \in Turns, t < u, u <= user'.turns, user'.kinds[u] = "new"
        PROVE  disk[t] = "none"
    <3>1. CASE u = user.turns + 1
      BY <1>2, <1>5, <2>1, <2>2, <3>1
    <3>2. CASE u # user.turns + 1
      <4>1. u \in Nat /\ user.turns \in Nat
        BY <1>1, Typed DEF Turns
      <4>2. u <= user.turns
        BY <1>5, <2>2, <3>2, <4>1
      <4>3. user.kinds[u] = "new"
        BY <1>5, <2>2, <3>2
      <4> QED BY <2>2, <4>2, <4>3 DEF PlannerInv, Firsts
    <3> QED BY <3>1, <3>2
  <2> QED BY <1>2, <2>1, <2>2 DEF Firsts
<1>10. Reviews'
  BY <1>2, <1>4, <1>5 DEF PlannerInv, Reviews, OfTurn, Working, Failing, Idle, Up, Can, Shape
<1>11. Leftovers'
  <2>1. \A t \in Turns : disk'[t] = "running" => user'.kinds[t] = "review"
    BY Typed, <1>2, <1>3, <1>5 DEF PlannerInv, Leftovers, Shape, Unread, Working, Turns
  <2>2. wrote' # 0 => wrote \in Turns /\ wrote # user.turns + 1 /\ user'.kinds[wrote'] = "revise"
    BY Typed, <1>2, <1>5 DEF PlannerInv, Leftovers, Shape, Turns
  <2> QED BY <1>2, <1>5, <2>1, <2>2 DEF Leftovers, Up
<1>12. Stops'
  BY <1>2, <1>4, <1>5 DEF PlannerInv, Stops, OfTurn, Opening, Working, NewRun, Kinds
<1>13. Pauses'
  BY <1>2, <1>4, <1>5 DEF PlannerInv, Pauses, OfTurn, Working, Failing, Can, Reviews, Up
<1>14. Drains'
  BY <1>2, <1>4, <1>5
     DEF PlannerInv, Drains, NoRefusedResume, Draining, Can, Up, Working, Shape, Stops
<1>15. Approvals'
  BY <1>2, <1>4, <1>5 DEF PlannerInv, Approvals, OfTurn, Working, Failing, Can
<1>16. Cancels'
  BY <1>2, <1>4, <1>5 DEF PlannerInv, Cancels, Can
<1>17. Writes'
  BY <1>2, <1>5 DEF PlannerInv, Writes, Can
<1>18. Stores'
  BY <1>2, <1>5 DEF PlannerInv, Stores, Committed
<1>19. Tales'
  BY Typed, <1>2, <1>4, <1>5
     DEF PlannerInv, Tales, Sound, Misread, Can, Tale, Telling, Told, Begun, Working, Committed,
         Failures, Up, Unread, Cut, CutAfterGraph, CutBeforeGraph, Shape
<1> QED BY <1>6, <1>7, <1>8, <1>9, <1>10, <1>11, <1>12, <1>13, <1>14, <1>15, <1>16, <1>17, <1>18,
           <1>19
           DEF PlannerInv

\* A review begins only over a Run at rest.
LEMMA CheckKeeps ==
    ASSUME PlannerInv, Check PROVE PlannerInv'
<1>1. TypeInv
  BY DEF PlannerInv
<1>2. /\ turn.pc = "check" /\ Up
      /\ stopper = "off"
      /\ UNCHANGED <<flag, cancel, refuse, run, exec, disk, rec, wrote, stopper, boot, user>>
  BY DEF Check, Locked, At
<1>3. /\ turn' \in TurnType
      /\ \/ turn'.pc = "prepare" /\ cancel = "none" /\ turn'.denied = turn.denied
         \/ turn'.pc = "end" /\ cancel # "none" /\ turn'.denied
      /\ turn'.id = turn.id /\ turn'.kind = turn.kind
      /\ turn'.resume = turn.resume /\ turn'.slot = turn.slot
  BY <1>1, Typed DEF Check, TurnType, Pcs
<1>4. TypeInv'
  BY <1>3 DEF PlannerInv, TypeInv, Check
<1>5. Shape'
  BY <1>2, <1>3 DEF PlannerInv, Shape, Up, Off, Idle, Can, Opening, Turns
<1>6. NewRun'
  BY <1>2, <1>3 DEF PlannerInv, NewRun, OfTurn, Opening, Working, Failing, Can
<1>7. Firsts'
  BY <1>2 DEF PlannerInv, Firsts, Unread, Up
<1>8. Reviews'
  BY <1>2, <1>3 DEF PlannerInv, Reviews, OfTurn, Working, Failing, Idle, Up, Can
<1>9. Leftovers'
  BY <1>2 DEF PlannerInv, Leftovers, Up, Unread, Working
<1>10. Stops'
  BY <1>2, <1>3 DEF PlannerInv, Stops, OfTurn, Opening, Working
<1>11. Pauses'
  BY <1>2, <1>3 DEF PlannerInv, Pauses, OfTurn, Working, Failing, Can
<1>12. Drains'
  BY <1>2, <1>3 DEF PlannerInv, Drains, NoRefusedResume, Draining, Can, Up, Working
<1>13. Approvals'
  BY <1>2, <1>3 DEF PlannerInv, Approvals, OfTurn, Working, Failing, Can
<1>14. Cancels'
  BY <1>2, <1>3 DEF PlannerInv, Cancels, Can
<1>15. Writes'
  BY <1>2 DEF PlannerInv, Writes, Can
<1>16. Stores'
  BY <1>2 DEF PlannerInv, Stores, Committed
<1>17. Tales'
  <2>1. Sound /\ Sound' => Telling(turn.id)'
    BY <1>2, <1>3
       DEF PlannerInv, Tales, Tale, Telling, Told, Begun, Working, Committed, Failures, Can, Shape
  <2> QED BY <1>2, <1>3, <2>1, TalesOfTurn DEF PlannerInv, Shape
<1> QED BY <1>4, <1>5, <1>6, <1>7, <1>8, <1>9, <1>10, <1>11, <1>12, <1>13, <1>14, <1>15, <1>16,
           <1>17
           DEF PlannerInv

\* The summary is written before the first event.
LEMMA PrepareKeeps ==
    ASSUME PlannerInv, Prepare PROVE PlannerInv'
<1>1. TypeInv
  BY DEF PlannerInv
<1>2. /\ turn.pc = "prepare" /\ Up
      /\ stopper = "off"
      /\ UNCHANGED <<flag, cancel, refuse, run, exec, rec, wrote, stopper, boot, user>>
      /\ disk' = [disk EXCEPT ![turn.id] = "running"]
  BY DEF Prepare, Locked, At, SideCar
<1>3. /\ turn' \in TurnType
      /\ turn'.pc = "announce"
      /\ turn'.id = turn.id /\ turn'.kind = turn.kind
      /\ turn'.resume = turn.resume /\ turn'.slot = turn.slot /\ turn'.denied = turn.denied
  BY <1>1, Typed DEF Prepare, Goto, TurnType, Pcs
<1>4. /\ disk' \in [Turns -> Statuses]
      /\ \A t \in Turns : t = turn.id => disk'[t] = "running"
      /\ \A t \in Turns : t # turn.id => disk'[t] = disk[t]
  BY <1>1, Typed, <1>2 DEF Statuses
<1>5. TypeInv'
  BY <1>3, <1>4 DEF PlannerInv, TypeInv, Prepare
<1>6. Shape'
  BY <1>2, <1>3 DEF PlannerInv, Shape, Up, Off, Idle, Can, Opening, Turns
<1>7. NewRun'
  BY <1>2, <1>3 DEF PlannerInv, NewRun, OfTurn, Opening, Working, Failing, Can
<1>8. Firsts'
  BY <1>2, <1>3 DEF PlannerInv, Firsts, Unread, Up, Shape, NewRun, Turns
<1>9. Reviews'
  BY <1>2, <1>3 DEF PlannerInv, Reviews, OfTurn, Working, Failing, Idle, Up, Can
<1>10. Leftovers'
  BY <1>2, <1>3 DEF PlannerInv, Leftovers, Up, Unread, Working, Shape
<1>11. Stops'
  BY <1>2, <1>3 DEF PlannerInv, Stops, OfTurn, Opening, Working
<1>12. Pauses'
  BY <1>2, <1>3 DEF PlannerInv, Pauses, OfTurn, Working, Failing, Can
<1>13. Drains'
  BY <1>2 DEF PlannerInv, Drains, NoRefusedResume, Draining, Can, Up, Working
<1>14. Approvals'
  BY <1>2, <1>3 DEF PlannerInv, Approvals, OfTurn, Working, Failing, Can
<1>15. Cancels'
  BY <1>2, <1>3 DEF PlannerInv, Cancels, Can
<1>16. Writes'
  BY <1>2 DEF PlannerInv, Writes, Can
<1>17. Stores'
  BY <1>2 DEF PlannerInv, Stores, Committed
<1>18. Tales'
  <2>1. Sound /\ Sound' => Telling(turn.id)'
    BY <1>2, <1>3, <1>4
       DEF PlannerInv, Tales, Tale, Telling, Told, Begun, Working, Committed, Failures, Can, Shape
  <2> QED BY <1>2, <1>3, <2>1, TalesOfTurn DEF PlannerInv, Shape
<1> QED BY <1>5, <1>6, <1>7, <1>8, <1>9, <1>10, <1>11, <1>12, <1>13, <1>14, <1>15, <1>16, <1>17,
           <1>18
           DEF PlannerInv

\* The first event of the turn, and the summary agree.
LEMMA AnnounceKeeps ==
    ASSUME PlannerInv, Announce PROVE PlannerInv'
<1>1. TypeInv
  BY DEF PlannerInv
<1>2. /\ turn.pc = "announce" /\ Up
      /\ stopper = "off"
      /\ UNCHANGED <<flag, cancel, refuse, exec, disk, wrote, stopper, boot, user>>
      /\ turn.kind = "review" => run.phase = "completed" /\ ~run.stop /\ ~run.pending
  BY DEF Announce, Locked, At, ReviewRefused
<1>3. /\ turn' \in TurnType
      /\ turn'.pc = "route"
      /\ turn'.id = turn.id /\ turn'.kind = turn.kind
      /\ turn'.resume = turn.resume /\ turn'.slot = turn.slot /\ turn'.denied = turn.denied
  BY <1>1, Typed DEF Announce, Goto, TurnType, Pcs
<1>4. /\ run' \in RunType
      /\ run'.serial = run.serial /\ run'.approved = run.approved /\ run'.paused = run.paused
      /\ run'.stop = run.stop /\ run'.graph = run.graph /\ run'.pending = run.pending
      /\ turn.kind = "revise" => UNCHANGED <<run, rec>>
      /\ turn.kind # "revise" =>
           /\ run'.phase = "planning" /\ run'.review = (run.review \/ turn.kind = "review")
                                  /\ run'.last = turn.id /\ run'.status = "running"
  BY <1>1, Typed, <1>2, <1>3 DEF Announce, LastTurn, RunType, Phases, Statuses
<1>5. /\ rec' \in [Turns -> SUBSET Marks]
      /\ \A t \in Turns : t = turn.id /\ turn.kind # "revise" => rec'[t] = rec[t] \cup {"started"}
      /\ \A t \in Turns : t # turn.id => rec'[t] = rec[t]
  BY <1>1, Typed DEF Announce, Record, Marks
<1>6. TypeInv'
  BY <1>3, <1>4, <1>5 DEF PlannerInv, TypeInv, Announce
<1>7. Shape'
  BY <1>2, <1>3, <1>4, <1>5 DEF PlannerInv, Shape, Up, Off, Idle, Can, Opening, Turns
<1>8. NewRun'
  BY <1>2, <1>3, <1>4, <1>5 DEF PlannerInv, NewRun, OfTurn, Opening, Working, Failing, Can
<1>9. Firsts'
  BY <1>2, <1>4, <1>5 DEF PlannerInv, Firsts, Unread, Up, Shape, Turns
<1>10. Reviews'
  BY <1>1, Typed, <1>2, <1>3, <1>4, <1>5
     DEF PlannerInv, Reviews, OfTurn, Working, Failing, Idle, Up, Can, Shape, NewRun
<1>11. Leftovers'
  BY <1>2, <1>3, <1>4, <1>5 DEF PlannerInv, Leftovers, Up, Unread, Working, Shape
<1>12. Stops'
  BY <1>2, <1>4, <1>5 DEF PlannerInv, Stops, OfTurn, Opening, Working
<1>13. Pauses'
  BY <1>2, <1>3, <1>4, <1>5 DEF PlannerInv, Pauses, OfTurn, Working, Failing, Can, Reviews
<1>14. Drains'
  BY <1>2, <1>4, <1>5 DEF PlannerInv, Drains, NoRefusedResume, Draining, Can, Up, Working
<1>15. Approvals'
  BY <1>2, <1>3, <1>4, <1>5 DEF PlannerInv, Approvals, OfTurn, Working, Failing, Can
<1>16. Cancels'
  BY <1>2, <1>3, <1>4, <1>5 DEF PlannerInv, Cancels, Can
<1>17. Writes'
  BY <1>2, <1>5 DEF PlannerInv, Writes, Can
<1>18. Stores'
  BY <1>4, <1>5 DEF PlannerInv, Stores, Committed
<1>19. Tales'
  <2>1. turn.id = user.turns /\ turn.id \in Turns /\ turn.kind = user.kinds[turn.id]
    BY <1>2 DEF PlannerInv, Shape
  <2>2. Sound => disk[turn.id] = "running" /\ rec[turn.id] = {}
    BY <1>2, <2>1 DEF PlannerInv, Tales, Tale, Telling
  <2>3. Sound => rec'[turn.id] = IF turn.kind = "revise" THEN {} ELSE {"started"}
    BY <1>4, <1>5, <2>1, <2>2
  <2>4. Sound => Telling(turn.id)'
    BY <1>2, <1>3, <2>1, <2>2, <2>3 DEF Telling, Begun, Working
  <2>5. "started" \in rec'[turn.id] => turn.pc = "announce"
    BY <1>2
  <2> QED BY <1>2, <1>3, <1>5, <2>1, <2>2, <2>4, <2>5, TalesOfTurn
<1> QED BY <1>6, <1>7, <1>8, <1>9, <1>10, <1>11, <1>12, <1>13, <1>14, <1>15, <1>16, <1>17, <1>18,
           <1>19
           DEF PlannerInv

\* A turn that may not begin leaves nothing behind.
LEMMA RefusedKeeps ==
    ASSUME PlannerInv, Refused PROVE PlannerInv'
<1>1. TypeInv
  BY DEF PlannerInv
<1>2. /\ turn.pc = "announce" /\ Up
      /\ stopper = "off"
      /\ UNCHANGED <<flag, cancel, refuse, run, exec, disk, rec, wrote, stopper, boot, user>>
      /\ turn.kind = "review"
  BY DEF Refused, Locked, At, ReviewRefused
<1>3. /\ turn' \in TurnType
      /\ turn'.pc = "end"
      /\ turn'.id = turn.id /\ turn'.kind = turn.kind
      /\ turn'.resume = turn.resume /\ turn'.slot = turn.slot /\ turn'.denied = turn.denied
  BY <1>1, Typed DEF Refused, Goto, TurnType, Pcs
<1>4. TypeInv'
  BY <1>3 DEF PlannerInv, TypeInv, Refused
<1>5. Shape'
  BY <1>2, <1>3 DEF PlannerInv, Shape, Up, Off, Idle, Can, Opening, Turns
<1>6. NewRun'
  BY <1>2, <1>3 DEF PlannerInv, NewRun, OfTurn, Opening, Working, Failing, Can
<1>7. Firsts'
  BY <1>2 DEF PlannerInv, Firsts, Unread, Up, Shape
<1>8. Reviews'
  BY <1>2, <1>3 DEF PlannerInv, Reviews, OfTurn, Working, Failing, Idle, Up, Can
<1>9. Leftovers'
  BY <1>2 DEF PlannerInv, Leftovers, Up, Unread, Working, Shape
<1>10. Stops'
  BY <1>2, <1>3 DEF PlannerInv, Stops, OfTurn, Opening, Working
<1>11. Pauses'
  BY <1>2, <1>3 DEF PlannerInv, Pauses, OfTurn, Working, Failing, Can
<1>12. Drains'
  BY <1>2 DEF PlannerInv, Drains, NoRefusedResume, Draining, Can, Up, Working
<1>13. Approvals'
  BY <1>2, <1>3 DEF PlannerInv, Approvals, OfTurn, Working, Failing, Can
<1>14. Cancels'
  BY <1>2, <1>3 DEF PlannerInv, Cancels, Can
<1>15. Writes'
  BY <1>2 DEF PlannerInv, Writes, Can
<1>16. Stores'
  BY <1>2 DEF PlannerInv, Stores, Committed
<1>17. Tales'
  <2>1. Sound /\ Sound' => Telling(turn.id)'
    BY <1>2, <1>3
       DEF PlannerInv, Tales, Tale, Telling, Told, Begun, Working, Committed, Failures, Can, Shape,
           Sound, Misread, Can
  <2> QED BY <1>2, <1>3, <2>1, TalesOfTurn DEF PlannerInv, Shape
<1> QED BY <1>4, <1>5, <1>6, <1>7, <1>8, <1>9, <1>10, <1>11, <1>12, <1>13, <1>14, <1>15, <1>16,
           <1>17
           DEF PlannerInv

\* A revision chooses what it looks at.
LEMMA RouteKeeps ==
    ASSUME PlannerInv, NEW s \in BOOLEAN, Route(s) PROVE PlannerInv'
<1>1. TypeInv
  BY DEF PlannerInv
<1>2. /\ turn.pc = "route" /\ Up
      /\ stopper = "off"
      /\ UNCHANGED <<flag, cancel, refuse, exec, disk, rec, wrote, stopper, boot, user>>
  BY DEF Route, Locked, At
<1>3. /\ turn' \in TurnType
      /\ \/ turn'.pc \in {"spoil", "commit"} /\ turn.kind = "new"
         \/ turn'.pc = "select"
      /\ turn'.id = turn.id /\ turn'.kind = turn.kind
      /\ turn'.resume = turn.resume /\ turn'.slot = turn.slot /\ turn'.denied = turn.denied
  BY <1>1, Typed DEF Route, Goto, Fails, TurnType, Pcs
<1>4. /\ run' \in RunType
      /\ run'.phase = run.phase /\ run'.approved = run.approved /\ run'.paused = run.paused
      /\ run'.stop = run.stop /\ run'.graph = run.graph /\ run'.pending = run.pending
      /\ run'.review = run.review /\ run'.last = run.last /\ run'.status = run.status
  BY <1>1, Typed DEF Route, RunType
<1>5. TypeInv'
  BY <1>3, <1>4 DEF PlannerInv, TypeInv, Route
<1>6. Shape'
  BY <1>2, <1>3, <1>4 DEF PlannerInv, Shape, Up, Off, Idle, Can, Opening, Turns
<1>7. NewRun'
  BY <1>2, <1>3, <1>4 DEF PlannerInv, NewRun, OfTurn, Opening, Working, Failing, Can
<1>8. Firsts'
  BY <1>2, <1>4 DEF PlannerInv, Firsts, Unread, Up
<1>9. Reviews'
  BY <1>2, <1>3, <1>4 DEF PlannerInv, Reviews, OfTurn, Working, Failing, Idle, Up
<1>10. Leftovers'
  BY <1>2, <1>3, <1>4 DEF PlannerInv, Leftovers, Up, Unread, Working
<1>11. Stops'
  BY <1>2, <1>4 DEF PlannerInv, Stops, OfTurn, Opening, Working
<1>12. Pauses'
  BY <1>2, <1>3, <1>4 DEF PlannerInv, Pauses, OfTurn, Working, Failing, Can
<1>13. Drains'
  BY <1>2, <1>4 DEF PlannerInv, Drains, NoRefusedResume, Draining, Can, Up, Working
<1>14. Approvals'
  BY <1>2, <1>3, <1>4 DEF PlannerInv, Approvals, OfTurn, Working, Failing, Can
<1>15. Cancels'
  BY <1>2, <1>3, <1>4 DEF PlannerInv, Cancels, Can
<1>16. Writes'
  BY <1>2 DEF PlannerInv, Writes, Can
<1>17. Stores'
  BY <1>2, <1>4 DEF PlannerInv, Stores, Committed
<1>18. Tales'
  BY <1>2, <1>3
     DEF PlannerInv, Tales, Sound, Misread, Can, Tale, Telling, Told, Begun, Working, Committed,
         Failures, Up, Unread, Cut, CutAfterGraph, CutBeforeGraph
<1> QED BY <1>5, <1>6, <1>7, <1>8, <1>9, <1>10, <1>11, <1>12, <1>13, <1>14, <1>15, <1>16, <1>17,
           <1>18
           DEF PlannerInv

\* The turn borrows a workspace, or does without.
LEMMA SelectKeeps ==
    ASSUME PlannerInv, NEW s \in BOOLEAN, Select(s) PROVE PlannerInv'
<1>1. TypeInv
  BY DEF PlannerInv
<1>2. /\ turn.pc = "select" /\ Up
      /\ stopper = "off"
      /\ UNCHANGED <<flag, cancel, refuse, exec, disk, rec, wrote, stopper, boot, user>>
  BY DEF Select, Locked, At
<1>3. /\ turn' \in TurnType
      /\ \/ turn'.pc = "spoil" /\ turn'.denied /\ cancel # "none" /\ turn'.slot = turn.slot
              /\ run' = run
         \/ /\ turn'.pc = "launch" /\ turn'.denied = turn.denied
            /\ turn'.slot => turn.kind = "revise" /\ run.approved
            /\ run'.last = turn.id /\ run'.status = "running"
      /\ turn'.id = turn.id /\ turn'.kind = turn.kind
      /\ turn'.resume = turn.resume
      /\ run' \in RunType
      /\ run'.phase = run.phase /\ run'.serial = run.serial /\ run'.approved = run.approved
      /\ run'.paused = run.paused /\ run'.stop = run.stop /\ run'.graph = run.graph
      /\ run'.pending = run.pending /\ run'.review = run.review
  <2>1. CASE turn.kind = "revise" /\ cancel # "none"
    <3>1. run' = run /\ turn' = [turn EXCEPT !.pc = "spoil", !.denied = TRUE]
      BY <2>1 DEF Select, Denied
    <3>2. turn' \in TurnType
      BY <1>1, Typed, <3>1 DEF TurnType, Pcs
    <3> QED BY <1>1, Typed, <2>1, <3>1, <3>2 DEF TurnType
  <2>2. CASE ~(turn.kind = "revise" /\ cancel # "none")
    <3>1. /\ turn' = [turn EXCEPT !.pc = "launch", !.slot = s]
          /\ run' = [run EXCEPT !.last = turn.id, !.status = "running"]
          /\ s => turn.kind = "revise" /\ run.approved
      BY <2>2 DEF Select, LastTurn
    <3>2. turn' \in TurnType
      BY <1>1, Typed, <3>1 DEF TurnType, Pcs
    <3>3. run' \in RunType
      BY <1>1, Typed, <3>1 DEF RunType, Statuses
    <3> QED BY <3>1, <3>2, <3>3 DEF TurnType, RunType
  <2> QED BY <2>1, <2>2
<1>4. TypeInv'
  BY <1>3 DEF PlannerInv, TypeInv, Select
<1>5. Shape'
  BY <1>2, <1>3 DEF PlannerInv, Shape, Up, Off, Idle, Can, Opening, Turns
<1>6. NewRun'
  BY <1>2, <1>3 DEF PlannerInv, NewRun, OfTurn, Opening, Working, Failing, Can
<1>7. Firsts'
  BY <1>2, <1>3 DEF PlannerInv, Firsts, Unread, Up
<1>8. Reviews'
  BY <1>2, <1>3 DEF PlannerInv, Reviews, OfTurn, Working, Failing, Idle, Up, Can, Shape
<1>9. Leftovers'
  BY <1>2, <1>3 DEF PlannerInv, Leftovers, Up, Unread, Working
<1>10. Stops'
  BY <1>2, <1>3 DEF PlannerInv, Stops, OfTurn, Opening, Working
<1>11. Pauses'
  BY <1>2, <1>3 DEF PlannerInv, Pauses, OfTurn, Working, Failing, Can
<1>12. Drains'
  BY <1>2, <1>3 DEF PlannerInv, Drains, NoRefusedResume, Draining, Can, Up, Working
<1>13. Approvals'
  BY <1>2, <1>3 DEF PlannerInv, Approvals, OfTurn, Working, Failing, Can
<1>14. Cancels'
  BY <1>2, <1>3 DEF PlannerInv, Cancels, Can
<1>15. Writes'
  BY <1>2 DEF PlannerInv, Writes, Can
<1>16. Stores'
  BY <1>2, <1>3 DEF PlannerInv, Stores, Committed
<1>17. Tales'
  BY <1>2, <1>3
     DEF PlannerInv, Tales, Sound, Misread, Can, Tale, Telling, Told, Begun, Working, Committed,
         Failures, Up, Unread, Cut, CutAfterGraph, CutBeforeGraph
<1> QED BY <1>4, <1>5, <1>6, <1>7, <1>8, <1>9, <1>10, <1>11, <1>12, <1>13, <1>14, <1>15, <1>16,
           <1>17
           DEF PlannerInv

\* The engine starts unless a Stop came before.
LEMMA LaunchKeeps ==
    ASSUME PlannerInv, Launch PROVE PlannerInv'
<1>1. TypeInv
  BY DEF PlannerInv
<1>2. /\ turn.pc = "launch" /\ Up
      /\ UNCHANGED <<flag, cancel, refuse, run, exec, disk, rec, wrote, stopper, boot, user>>
  BY DEF Launch, At
<1>3. /\ turn' \in TurnType
      /\ \/ turn'.pc = "engine" /\ turn'.denied = turn.denied
         \/ turn'.pc = "spoil" /\ cancel # "none" /\ turn'.denied
      /\ turn'.id = turn.id /\ turn'.kind = turn.kind
      /\ turn'.resume = turn.resume /\ turn'.slot = turn.slot
  BY <1>1, Typed, <1>2 DEF Launch, Goto, Denied, TurnType, Pcs
<1>4. TypeInv'
  BY <1>3 DEF PlannerInv, TypeInv, Launch
<1>5. Shape'
  BY <1>2, <1>3 DEF PlannerInv, Shape, Up, Off, Idle, Can, Opening, Turns
<1>6. NewRun'
  BY <1>2, <1>3 DEF PlannerInv, NewRun, OfTurn, Opening, Working, Failing, Can
<1>7. Firsts'
  BY <1>2 DEF PlannerInv, Firsts, Unread, Up
<1>8. Reviews'
  BY <1>2, <1>3 DEF PlannerInv, Reviews, OfTurn, Working, Failing, Idle, Up, Can
<1>9. Leftovers'
  BY <1>2, <1>3 DEF PlannerInv, Leftovers, Up, Unread, Working
<1>10. Stops'
  BY <1>2 DEF PlannerInv, Stops, OfTurn, Opening, Working
<1>11. Pauses'
  BY <1>2, <1>3 DEF PlannerInv, Pauses, OfTurn, Working, Failing, Can
<1>12. Drains'
  BY <1>2 DEF PlannerInv, Drains, NoRefusedResume, Draining, Can, Up, Working
<1>13. Approvals'
  BY <1>2, <1>3 DEF PlannerInv, Approvals, OfTurn, Working, Failing, Can
<1>14. Cancels'
  BY <1>2, <1>3 DEF PlannerInv, Cancels, Can
<1>15. Writes'
  BY <1>2 DEF PlannerInv, Writes, Can
<1>16. Stores'
  BY <1>2 DEF PlannerInv, Stores, Committed
<1>17. Tales'
  BY <1>2, <1>3
     DEF PlannerInv, Tales, Sound, Misread, Can, Tale, Telling, Told, Begun, Working, Committed,
         Failures, Up, Unread, Cut, CutAfterGraph, CutBeforeGraph
<1> QED BY <1>4, <1>5, <1>6, <1>7, <1>8, <1>9, <1>10, <1>11, <1>12, <1>13, <1>14, <1>15, <1>16,
           <1>17
           DEF PlannerInv

\* Only a revision writes in a borrowed workspace.
LEMMA WriteKeeps ==
    ASSUME PlannerInv, Write PROVE PlannerInv'
<1>1. TypeInv
  BY DEF PlannerInv
<1>2. /\ turn.pc = "engine" /\ Up
      /\ turn.slot
      /\ UNCHANGED <<flag, cancel, refuse, run, exec, turn, disk, rec, stopper, boot, user>>
      /\ wrote' = turn.id
  BY DEF Write, At
<1>3. TypeInv'
  BY Typed DEF PlannerInv, TypeInv, Write
<1>4. Shape'
  BY <1>2 DEF PlannerInv, Shape, Up, Off, Idle, Can, Opening, Turns
<1>5. NewRun'
  BY <1>2 DEF PlannerInv, NewRun, OfTurn, Opening, Working, Failing, Can
<1>6. Firsts'
  BY <1>2 DEF PlannerInv, Firsts, Unread, Up
<1>7. Reviews'
  BY <1>2 DEF PlannerInv, Reviews, OfTurn, Working, Failing, Idle, Up, Can
<1>8. Leftovers'
  BY <1>2 DEF PlannerInv, Leftovers, Up, Unread, Working, Shape, Reviews, OfTurn
<1>9. Stops'
  BY <1>2 DEF PlannerInv, Stops, OfTurn, Opening, Working
<1>10. Pauses'
  BY <1>2 DEF PlannerInv, Pauses, OfTurn, Working, Failing, Can
<1>11. Drains'
  BY <1>2 DEF PlannerInv, Drains, NoRefusedResume, Draining, Can, Up, Working
<1>12. Approvals'
  BY <1>2 DEF PlannerInv, Approvals, OfTurn, Working, Failing, Can
<1>13. Cancels'
  BY <1>2 DEF PlannerInv, Cancels, Can
<1>14. Writes'
  BY <1>2 DEF Writes, Can
<1>15. Stores'
  BY <1>2 DEF PlannerInv, Stores, Committed
<1>16. Tales'
  BY <1>2
     DEF PlannerInv, Tales, Sound, Misread, Can, Tale, Telling, Told, Begun, Working, Committed,
         Failures, Up, Unread, Cut, CutAfterGraph, CutBeforeGraph
<1> QED BY <1>3, <1>4, <1>5, <1>6, <1>7, <1>8, <1>9, <1>10, <1>11, <1>12, <1>13, <1>14, <1>15, <1>16
           DEF PlannerInv

\* The engine ends; a cancelled turn fails.
LEMMA EngineEndsKeeps ==
    ASSUME PlannerInv, NEW ok \in BOOLEAN, EngineEnds(ok) PROVE PlannerInv'
<1>1. TypeInv
  BY DEF PlannerInv
<1>2. /\ turn.pc = "engine" /\ Up
      /\ UNCHANGED <<flag, cancel, refuse, run, exec, disk, rec, wrote, stopper, boot, user>>
  BY DEF EngineEnds, At
<1>3. /\ turn' \in TurnType
      /\ \/ turn'.pc = "drain" /\ run.approved /\ turn.kind # "new" /\ turn'.denied = turn.denied
         \/ turn'.pc = "commit" /\ turn'.denied = turn.denied
         \/ turn'.pc = "spoil" /\ turn'.denied = (cancel # "none")
      /\ turn'.id = turn.id /\ turn'.kind = turn.kind
      /\ turn'.resume = turn.resume /\ turn'.slot = turn.slot
  <2>1. \/ turn' = [turn EXCEPT !.pc = "drain"] /\ run.approved /\ turn.kind # "new"
        \/ turn' = [turn EXCEPT !.pc = "commit"]
        \/ turn' = [turn EXCEPT !.pc = "spoil", !.denied = (cancel # "none")]
    BY DEF EngineEnds, Goto
  <2>2. turn' \in TurnType
    BY <1>1, Typed, <2>1 DEF TurnType, Pcs
  <2> QED BY <2>1, <2>2 DEF TurnType
<1>4. TypeInv'
  BY <1>3 DEF PlannerInv, TypeInv, EngineEnds
<1>5. Shape'
  BY <1>2, <1>3 DEF PlannerInv, Shape, Up, Off, Idle, Can, Opening, Turns
<1>6. NewRun'
  BY <1>2, <1>3 DEF PlannerInv, NewRun, OfTurn, Opening, Working, Failing, Can
<1>7. Firsts'
  BY <1>2 DEF PlannerInv, Firsts, Unread, Up
<1>8. Reviews'
  BY <1>2, <1>3 DEF PlannerInv, Reviews, OfTurn, Working, Failing, Idle, Up, Can
<1>9. Leftovers'
  BY <1>2, <1>3 DEF PlannerInv, Leftovers, Up, Unread, Working
<1>10. Stops'
  BY <1>2 DEF PlannerInv, Stops, OfTurn, Opening, Working
<1>11. Pauses'
  BY <1>2, <1>3 DEF PlannerInv, Pauses, OfTurn, Working, Failing, Can
<1>12. Drains'
  BY <1>2 DEF PlannerInv, Drains, NoRefusedResume, Draining, Can, Up, Working
<1>13. Approvals'
  BY <1>2, <1>3 DEF PlannerInv, Approvals, OfTurn, Working, Failing, Can
<1>14. Cancels'
  BY <1>2, <1>3 DEF PlannerInv, Cancels, Can
<1>15. Writes'
  BY <1>2, <1>3 DEF PlannerInv, Writes, Can
<1>16. Stores'
  BY <1>2 DEF PlannerInv, Stores, Committed
<1>17. Tales'
  BY <1>2, <1>3
     DEF PlannerInv, Tales, Sound, Misread, Can, Tale, Telling, Told, Begun, Working, Committed,
         Failures, Up, Unread, Cut, CutAfterGraph, CutBeforeGraph
<1> QED BY <1>4, <1>5, <1>6, <1>7, <1>8, <1>9, <1>10, <1>11, <1>12, <1>13, <1>14, <1>15, <1>16,
           <1>17
           DEF PlannerInv

\* A drain pauses what runs, once, and remembers that it did.
LEMMA DrainKeeps ==
    ASSUME PlannerInv, Drain PROVE PlannerInv'
<1>1. TypeInv
  BY DEF PlannerInv
<1>2. /\ turn.pc = "drain" /\ Up
      /\ stopper = "off"
      /\ UNCHANGED <<flag, cancel, refuse, exec, disk, rec, wrote, stopper, boot, user>>
  BY DEF Drain, Locked, At
<1>3. /\ turn' \in TurnType
      /\ \/ turn'.pc = "commit" /\ turn'.resume = turn.resume /\ run' = run
         \/ /\ turn'.pc = "drain" /\ turn'.resume /\ exec["touched"] # "idle" /\ ~run.paused
            /\ run'.paused /\ run'.phase = "paused"
      /\ turn'.id = turn.id /\ turn'.kind = turn.kind
      /\ turn'.slot = turn.slot /\ turn'.denied = turn.denied
  BY <1>1, Typed, <1>2 DEF Drain, Goto, TurnType, RunType, Pcs
<1>4. /\ run' \in RunType
      /\ run'.serial = run.serial /\ run'.approved = run.approved /\ run'.stop = run.stop
      /\ run'.graph = run.graph /\ run'.pending = run.pending /\ run'.review = run.review
      /\ run'.last = run.last /\ run'.status = run.status
  BY <1>1, Typed, <1>2 DEF Drain, RunType, Phases
<1>5. TypeInv'
  BY <1>3, <1>4 DEF PlannerInv, TypeInv, Drain
<1>6. Shape'
  BY <1>2, <1>3, <1>4 DEF PlannerInv, Shape, Up, Off, Idle, Can, Opening, Turns
<1>7. NewRun'
  BY <1>2, <1>3 DEF PlannerInv, NewRun, OfTurn, Opening, Working, Failing, Can, Shape
<1>8. Firsts'
  BY <1>2, <1>3 DEF PlannerInv, Firsts, Unread, Up
<1>9. Reviews'
  BY <1>2, <1>3, <1>4 DEF PlannerInv, Reviews, OfTurn, Working, Failing, Idle, Up, Can, Shape
<1>10. Leftovers'
  BY <1>2, <1>3, <1>4 DEF PlannerInv, Leftovers, Up, Unread, Working
<1>11. Stops'
  BY <1>2, <1>3, <1>4 DEF PlannerInv, Stops, OfTurn, Opening, Working
<1>12. Pauses'
  BY <1>2, <1>3 DEF PlannerInv, Pauses, OfTurn, Working, Failing, Can, Shape
<1>13. Drains'
  <2>1. exec["touched"] \in {"idle", "running", "stopping"} /\ "touched" \in Execs
    BY <1>1, Typed DEF ExecType, Execs
  <2>2. run.approved
    BY <1>2 DEF PlannerInv, Shape
  <2> QED BY <1>2, <1>3, <1>4, <2>1, <2>2
             DEF PlannerInv, Drains, NoRefusedResume, Draining, Can, Up, Working
<1>14. Approvals'
  BY <1>2, <1>3, <1>4 DEF PlannerInv, Approvals, OfTurn, Working, Failing, Can
<1>15. Cancels'
  BY <1>2, <1>3, <1>4 DEF PlannerInv, Cancels, Can
<1>16. Writes'
  BY <1>2, <1>3 DEF PlannerInv, Writes, Can
<1>17. Stores'
  BY <1>2, <1>4 DEF PlannerInv, Stores, Committed
<1>18. Tales'
  BY <1>2, <1>3
     DEF PlannerInv, Tales, Sound, Misread, Can, Tale, Telling, Told, Begun, Working, Committed,
         Failures, Up, Unread, Cut, CutAfterGraph, CutBeforeGraph
<1> QED BY <1>5, <1>6, <1>7, <1>8, <1>9, <1>10, <1>11, <1>12, <1>13, <1>14, <1>15, <1>16, <1>17,
           <1>18
           DEF PlannerInv

\* The graph is recorded under the mutex, when the executions it touches have ended.
LEMMA CommitKeeps ==
    ASSUME PlannerInv, NEW c \in BOOLEAN, NEW a \in BOOLEAN, Commit(c, a) PROVE PlannerInv'
<1>1. TypeInv
  BY DEF PlannerInv
<1>2. /\ turn.pc = "commit" /\ Up
      /\ stopper = "off"
      /\ cancel = "none"
      /\ turn.kind = "new" => c
      /\ UNCHANGED <<flag, cancel, refuse, exec, disk, stopper, boot, user>>
      /\ wrote' = AfterCapture
  BY DEF Commit, Locked, At
<1>3. /\ turn' \in TurnType
      /\ turn'.pc = "seal"
      /\ turn'.id = turn.id /\ turn'.kind = turn.kind
      /\ turn'.resume = turn.resume /\ turn'.slot = turn.slot /\ turn'.denied = turn.denied
  BY <1>1, Typed DEF Commit, Goto, TurnType, Pcs
<1>4. /\ rec' \in [Turns -> SUBSET Marks]
      /\ \A t \in Turns : t = turn.id => rec'[t] = rec[t] \cup {"graph"}
      /\ \A t \in Turns : t # turn.id => rec'[t] = rec[t]
  BY <1>1, Typed DEF Commit, Record, Marks
<1>5. /\ wrote' \in 0 .. MaxTurns
      /\ wrote' = wrote \/ wrote' = 0
      /\ turn.slot /\ exec["lender"] = "idle" => wrote' = 0
  BY <1>1, Typed, <1>2 DEF AfterCapture, Capturable
<1>6. /\ run' \in RunType
      /\ run'.last = turn.id /\ run'.status = "success" /\ run'.graph \in {run.graph, turn.id}
      /\ run'.stop = (turn.kind = "new" /\ run.stop)
      /\ run'.review = (run.review /\ turn.kind # "review")
      /\ \/ /\ turn.kind # "review" /\ ~run.approved
            /\ run'.approved /\ run'.paused = run.paused /\ run'.phase = "running"
         \/ /\ turn.kind # "review" /\ run'.approved = run.approved /\ run'.paused = run.paused
            /\ run'.phase = IF ~run.approved THEN "awaiting" ELSE IF ~c THEN run.phase
                            ELSE IF run.paused THEN "paused" ELSE "running"
         \/ /\ turn.kind = "review" /\ ~run'.approved /\ ~run'.paused /\ run'.phase = "awaiting"
         \/ /\ turn.kind = "review" /\ run'.approved = run.approved /\ run'.paused = run.paused
            /\ IF run.paused THEN run'.phase = "paused" ELSE run'.phase \in {"running", "completed"}
  <2>1. PICK g : g = Graphed(c)
    OBVIOUS
  <2>2. /\ g \in RunType
        /\ g.approved = run.approved /\ g.paused = run.paused /\ g.review = run.review
        /\ g.last = turn.id /\ g.status = "success"
        /\ g.graph = (IF c THEN turn.id ELSE run.graph)
        /\ g.stop = (turn.kind = "new" /\ run.stop)
        /\ g.pending = (run.pending \/ c)
        /\ g.phase = IF ~run.approved THEN "awaiting"
                     ELSE IF ~c THEN run.phase
                     ELSE IF run.paused THEN "paused" ELSE "running"
    BY <1>1, <2>1, GraphedRun
  <2>3. CASE turn.kind # "review" /\ ~run.approved /\ (a \/ run.serial)
    <3>1. run' = [g EXCEPT !.approved = TRUE, !.phase = "running"]
      BY <2>1, <2>3 DEF Commit, Approves, Approved
    <3>2. run' \in RunType
      BY <2>2, <3>1 DEF RunType, Phases
    <3> QED BY <2>2, <2>3, <3>1, <3>2 DEF RunType
  <2>4. CASE turn.kind = "review"
    <3>1. PICK b \in BOOLEAN : b = (g.pending /\ ~a)
      OBVIOUS
    <3>2. run' = Reviewed(g, b)
      BY <2>1, <2>4, <3>1 DEF Commit, Approves
    <3>3. /\ run' \in RunType
          /\ run'.approved = (g.approved /\ ~b) /\ run'.paused = (g.paused /\ ~b) /\ ~run'.review
          /\ run'.last = g.last /\ run'.status = g.status /\ run'.graph = g.graph
          /\ run'.stop = g.stop /\ run'.pending = g.pending
          /\ run'.phase = IF b THEN "awaiting" ELSE IF g.stop \/ g.paused THEN "paused"
                          ELSE IF g.pending THEN "running" ELSE "completed"
      BY <2>2, <3>2, ReviewedRun
    <3> QED BY <2>2, <2>4, <3>3 DEF RunType
  <2>5. CASE turn.kind # "review" /\ ~(~run.approved /\ (a \/ run.serial))
    <3>1. run' = g
      BY <2>1, <2>5 DEF Commit, Approves
    <3> QED BY <2>2, <2>5, <3>1 DEF RunType
  <2> QED BY <2>3, <2>4, <2>5
<1>7. TypeInv'
  BY <1>3, <1>4, <1>5, <1>6 DEF PlannerInv, TypeInv, Commit
<1>8. Shape'
  <2>1. \A t \in Turns : t > user'.turns => disk'[t] = "none" /\ rec'[t] = {}
    BY <1>2, <1>4, <1>5, <1>6 DEF PlannerInv, Shape, Turns
  <2>2. run'.last <= user'.turns /\ run'.graph <= user'.turns /\ wrote' <= user'.turns
    BY Typed, <1>2, <1>5, <1>6 DEF PlannerInv, Shape
  <2>3. \A t \in boot'.todo : disk'[t] # "none"
    BY <1>2, <1>5, <1>6 DEF PlannerInv, Shape, BootType
  <2> QED BY <1>2, <1>3, <1>5, <1>6, <2>1, <2>2, <2>3 DEF PlannerInv, Shape, Up, Opening
<1>9. NewRun'
  BY <1>3, <1>5, <1>6 DEF PlannerInv, NewRun, OfTurn, Opening, Working, Failing, Can
<1>10. Firsts'
  BY <1>2, <1>5, <1>6 DEF PlannerInv, Firsts, Unread, Up
<1>11. Reviews'
  BY <1>2, <1>3, <1>5, <1>6 DEF PlannerInv, Reviews, OfTurn, Working, Failing, Idle, Up, Can
<1>12. Leftovers'
  <2>1. turn.id = user.turns /\ turn.kind = user.kinds[user.turns]
    BY <1>2 DEF PlannerInv, Shape
  <2>2. wrote' # 0 /\ wrote' = user'.turns => run'.approved /\ ~run'.review
    BY <1>2, <1>5, <1>6, <2>1 DEF PlannerInv, Leftovers
  <2> QED BY <1>2, <1>3, <1>5, <2>1, <2>2 DEF PlannerInv, Leftovers, Up, Unread, Working
<1>13. Stops'
  BY <1>2, <1>5, <1>6 DEF PlannerInv, Stops, OfTurn, Opening, Working
<1>14. Pauses'
  BY <1>2, <1>3, <1>5, <1>6 DEF PlannerInv, Pauses, OfTurn, Working, Failing, Can
<1>15. Drains'
  BY <1>2, <1>3, <1>5, <1>6
     DEF PlannerInv, Drains, NoRefusedResume, Draining, Can, Up, Working, NewRun, OfTurn, Reviews,
         Idle
<1>16. Approvals'
  BY <1>2, <1>3, <1>5, <1>6 DEF PlannerInv, Approvals, OfTurn, Working, Failing, Can
<1>17. Cancels'
  BY <1>2, <1>3, <1>5, <1>6 DEF PlannerInv, Cancels, Can
<1>18. Writes'
  BY <1>2, <1>5, <1>6 DEF PlannerInv, Writes, Can
<1>19. Stores'
  BY <1>4, <1>5, <1>6 DEF PlannerInv, Stores, Committed
<1>20. Tales'
  <2>1. Sound /\ Sound' => Telling(turn.id)'
    BY <1>2, <1>3, <1>4, <1>5, <1>6
       DEF PlannerInv, Tales, Tale, Telling, Told, Begun, Working, Committed, Failures, Can, Shape
  <2> QED BY <1>2, <1>3, <1>4, <1>5, <1>6, <2>1, TalesOfTurn DEF PlannerInv, Shape
<1> QED BY <1>7, <1>8, <1>9, <1>10, <1>11, <1>12, <1>13, <1>14, <1>15, <1>16, <1>17, <1>18, <1>19,
           <1>20
           DEF PlannerInv

\* A cancelled turn commits nothing.
LEMMA CommitDeniedKeeps ==
    ASSUME PlannerInv, CommitDenied PROVE PlannerInv'
<1>1. TypeInv
  BY DEF PlannerInv
<1>2. /\ turn.pc = "commit" /\ Up
      /\ stopper = "off"
      /\ cancel # "none"
      /\ UNCHANGED <<flag, cancel, refuse, run, exec, disk, rec, wrote, stopper, boot, user>>
  BY DEF CommitDenied, Locked, At
<1>3. /\ turn' \in TurnType
      /\ turn'.pc = "spoil" /\ turn'.denied
      /\ turn'.id = turn.id /\ turn'.kind = turn.kind
      /\ turn'.resume = turn.resume /\ turn'.slot = turn.slot
  BY <1>1, Typed DEF CommitDenied, Denied, TurnType, Pcs
<1>4. TypeInv'
  BY <1>3 DEF PlannerInv, TypeInv, CommitDenied
<1>5. Shape'
  BY <1>2, <1>3 DEF PlannerInv, Shape, Up, Off, Idle, Can, Opening, Turns
<1>6. NewRun'
  BY <1>2, <1>3 DEF PlannerInv, NewRun, OfTurn, Opening, Working, Failing, Can
<1>7. Firsts'
  BY <1>2 DEF PlannerInv, Firsts, Unread, Up
<1>8. Reviews'
  BY <1>2, <1>3 DEF PlannerInv, Reviews, OfTurn, Working, Failing, Idle, Up, Can
<1>9. Leftovers'
  BY <1>2, <1>3 DEF PlannerInv, Leftovers, Up, Unread, Working
<1>10. Stops'
  BY <1>2 DEF PlannerInv, Stops, OfTurn, Opening, Working
<1>11. Pauses'
  BY <1>2, <1>3 DEF PlannerInv, Pauses, OfTurn, Working, Failing, Can
<1>12. Drains'
  BY <1>2, <1>3 DEF PlannerInv, Drains, NoRefusedResume, Draining, Can, Up, Working
<1>13. Approvals'
  BY <1>2, <1>3 DEF PlannerInv, Approvals, OfTurn, Working, Failing, Can
<1>14. Cancels'
  BY <1>2, <1>3 DEF PlannerInv, Cancels, Can
<1>15. Writes'
  BY <1>2, <1>3 DEF PlannerInv, Writes, Can
<1>16. Stores'
  BY <1>2 DEF PlannerInv, Stores, Committed
<1>17. Tales'
  BY <1>2, <1>3
     DEF PlannerInv, Tales, Sound, Misread, Can, Tale, Telling, Told, Begun, Working, Committed,
         Failures, Up, Unread, Cut, CutAfterGraph, CutBeforeGraph
<1> QED BY <1>4, <1>5, <1>6, <1>7, <1>8, <1>9, <1>10, <1>11, <1>12, <1>13, <1>14, <1>15, <1>16,
           <1>17
           DEF PlannerInv

\* A graph that is refused fails the turn.
LEMMA CommitFailsKeeps ==
    ASSUME PlannerInv, CommitFails PROVE PlannerInv'
<1>1. TypeInv
  BY DEF PlannerInv
<1>2. /\ turn.pc = "commit" /\ Up
      /\ stopper = "off"
      /\ UNCHANGED <<flag, cancel, refuse, run, exec, disk, rec, wrote, stopper, boot, user>>
  BY DEF CommitFails, Locked, At
<1>3. /\ turn' \in TurnType
      /\ turn'.pc = "spoil"
      /\ turn'.id = turn.id /\ turn'.kind = turn.kind
      /\ turn'.resume = turn.resume /\ turn'.slot = turn.slot /\ turn'.denied = turn.denied
  BY <1>1, Typed DEF CommitFails, Fails, TurnType, Pcs
<1>4. TypeInv'
  BY <1>3 DEF PlannerInv, TypeInv, CommitFails
<1>5. Shape'
  BY <1>2, <1>3 DEF PlannerInv, Shape, Up, Off, Idle, Can, Opening, Turns
<1>6. NewRun'
  BY <1>2, <1>3 DEF PlannerInv, NewRun, OfTurn, Opening, Working, Failing, Can
<1>7. Firsts'
  BY <1>2 DEF PlannerInv, Firsts, Unread, Up
<1>8. Reviews'
  BY <1>2, <1>3 DEF PlannerInv, Reviews, OfTurn, Working, Failing, Idle, Up, Can
<1>9. Leftovers'
  BY <1>2, <1>3 DEF PlannerInv, Leftovers, Up, Unread, Working
<1>10. Stops'
  BY <1>2 DEF PlannerInv, Stops, OfTurn, Opening, Working
<1>11. Pauses'
  BY <1>2, <1>3 DEF PlannerInv, Pauses, OfTurn, Working, Failing, Can
<1>12. Drains'
  BY <1>2, <1>3 DEF PlannerInv, Drains, NoRefusedResume, Draining, Can, Up, Working
<1>13. Approvals'
  BY <1>2, <1>3 DEF PlannerInv, Approvals, OfTurn, Working, Failing, Can
<1>14. Cancels'
  BY <1>2, <1>3 DEF PlannerInv, Cancels, Can
<1>15. Writes'
  BY <1>2, <1>3 DEF PlannerInv, Writes, Can
<1>16. Stores'
  BY <1>2 DEF PlannerInv, Stores, Committed
<1>17. Tales'
  BY <1>2, <1>3
     DEF PlannerInv, Tales, Sound, Misread, Can, Tale, Telling, Told, Begun, Working, Committed,
         Failures, Up, Unread, Cut, CutAfterGraph, CutBeforeGraph
<1> QED BY <1>4, <1>5, <1>6, <1>7, <1>8, <1>9, <1>10, <1>11, <1>12, <1>13, <1>14, <1>15, <1>16,
           <1>17
           DEF PlannerInv

\* A failing approval leaves the new graph: the fault the records except.
LEMMA ApprovalFailsKeeps ==
    ASSUME PlannerInv, NEW c \in BOOLEAN, ApprovalFails(c) PROVE PlannerInv'
<1>1. TypeInv
  BY DEF PlannerInv
<1>2. /\ turn.pc = "commit" /\ Up
      /\ stopper = "off"
      /\ cancel = "none" /\ Can("approval")
      /\ turn.kind # "review" /\ ~run.approved
      /\ UNCHANGED <<flag, cancel, refuse, exec, disk, stopper, boot, user>>
      /\ wrote' = AfterCapture
  BY DEF ApprovalFails, Locked, At, Approves, Can
<1>3. /\ turn' \in TurnType
      /\ turn'.pc = "spoil"
      /\ turn'.id = turn.id /\ turn'.kind = turn.kind
      /\ turn'.resume = turn.resume /\ turn'.slot = turn.slot /\ turn'.denied = turn.denied
  BY <1>1, Typed DEF ApprovalFails, Fails, TurnType, Pcs
<1>4. /\ rec' \in [Turns -> SUBSET Marks]
      /\ \A t \in Turns : t = turn.id => rec'[t] = rec[t] \cup {"graph"}
      /\ \A t \in Turns : t # turn.id => rec'[t] = rec[t]
  BY <1>1, Typed DEF ApprovalFails, Record, Marks
<1>5. /\ wrote' \in 0 .. MaxTurns
      /\ wrote' = wrote \/ wrote' = 0
      /\ turn.slot /\ exec["lender"] = "idle" => wrote' = 0
  BY <1>1, Typed, <1>2 DEF AfterCapture, Capturable
<1>6. /\ run' \in RunType
      /\ run'.last = turn.id /\ run'.status = "success" /\ run'.graph \in {run.graph, turn.id}
      /\ run'.stop = (turn.kind = "new" /\ run.stop)
      /\ run'.approved = run.approved /\ run'.paused = run.paused /\ run'.review = run.review
      /\ run'.phase = "awaiting"
  <2>1. run' = Graphed(c)
    BY DEF ApprovalFails
  <2> QED BY <1>1, <1>2, <2>1, GraphedRun
<1>7. TypeInv'
  BY <1>3, <1>4, <1>5, <1>6 DEF PlannerInv, TypeInv, ApprovalFails
<1>8. Shape'
  <2>1. \A t \in Turns : t > user'.turns => disk'[t] = "none" /\ rec'[t] = {}
    BY <1>2, <1>4, <1>5, <1>6 DEF PlannerInv, Shape, Turns
  <2>2. run'.last <= user'.turns /\ run'.graph <= user'.turns /\ wrote' <= user'.turns
    BY Typed, <1>2, <1>5, <1>6 DEF PlannerInv, Shape
  <2>3. \A t \in boot'.todo : disk'[t] # "none"
    BY <1>2, <1>5, <1>6 DEF PlannerInv, Shape, BootType
  <2> QED BY <1>2, <1>3, <1>5, <1>6, <2>1, <2>2, <2>3 DEF PlannerInv, Shape, Up, Opening
<1>9. NewRun'
  BY <1>2, <1>3, <1>5, <1>6 DEF PlannerInv, NewRun, OfTurn, Opening, Working, Failing, Can
<1>10. Firsts'
  BY <1>2, <1>5, <1>6 DEF PlannerInv, Firsts, Unread, Up
<1>11. Reviews'
  BY <1>2, <1>3, <1>5, <1>6 DEF PlannerInv, Reviews, OfTurn, Working, Failing, Idle, Up, Can
<1>12. Leftovers'
  BY <1>2, <1>3, <1>5, <1>6 DEF PlannerInv, Leftovers, Up, Unread, Working
<1>13. Stops'
  BY <1>2, <1>5, <1>6 DEF PlannerInv, Stops, OfTurn, Opening, Working
<1>14. Pauses'
  BY <1>2, <1>3, <1>5, <1>6 DEF PlannerInv, Pauses, OfTurn, Working, Failing, Can
<1>15. Drains'
  BY <1>2, <1>5, <1>6 DEF PlannerInv, Drains, NoRefusedResume, Draining, Can, Up, Working
<1>16. Approvals'
  BY <1>2, <1>3, <1>5, <1>6 DEF PlannerInv, Approvals, OfTurn, Working, Failing, Can
<1>17. Cancels'
  BY <1>2, <1>3, <1>5, <1>6 DEF PlannerInv, Cancels, Can
<1>18. Writes'
  BY <1>2, <1>5, <1>6 DEF PlannerInv, Writes, Can
<1>19. Stores'
  BY <1>4, <1>5, <1>6 DEF PlannerInv, Stores, Committed
<1>20. Tales'
  BY <1>2, <1>5, <1>6
     DEF PlannerInv, Tales, Sound, Misread, Can, Tale, Telling, Told, Begun, Working, Committed,
         Failures, Up, Unread, Cut, CutAfterGraph, CutBeforeGraph
<1> QED BY <1>7, <1>8, <1>9, <1>10, <1>11, <1>12, <1>13, <1>14, <1>15, <1>16, <1>17, <1>18, <1>19,
           <1>20
           DEF PlannerInv

\* The summary says success only after the graph is in the store.
LEMMA SealKeeps ==
    ASSUME PlannerInv, Seal PROVE PlannerInv'
<1>1. TypeInv
  BY DEF PlannerInv
<1>2. /\ turn.pc = "seal" /\ Up
      /\ UNCHANGED <<flag, cancel, refuse, run, exec, rec, wrote, stopper, boot, user>>
  BY DEF Seal, At
<1>3. /\ \/ turn' = [turn EXCEPT !.pc = "end"] /\ disk' = [disk EXCEPT ![turn.id] = "success"]
         \/ turn' = [turn EXCEPT !.pc = "spoil"] /\ disk' = disk /\ Can("disk")
  BY DEF Seal, Goto, Fails, SideCar, Can
<1>4. /\ turn' \in TurnType
      /\ turn'.pc \in {"end", "spoil"}
      /\ turn'.id = turn.id /\ turn'.kind = turn.kind
      /\ turn'.resume = turn.resume /\ turn'.slot = turn.slot /\ turn'.denied = turn.denied
  BY <1>1, Typed, <1>3 DEF TurnType, Pcs
<1>5. /\ disk' \in [Turns -> Statuses]
      /\ \/ turn'.pc = "end" /\ \A t \in Turns : t = turn.id => disk'[t] = "success"
         \/ turn'.pc = "spoil" /\ disk' = disk /\ Can("disk")
      /\ \A t \in Turns : t # turn.id => disk'[t] = disk[t]
  BY <1>1, Typed, <1>3 DEF TurnType, Statuses
<1>6. TypeInv'
  BY <1>4, <1>5 DEF PlannerInv, TypeInv, Seal
<1>7. Shape'
  <2>1. \A t \in Turns : t > user'.turns => disk'[t] = "none" /\ rec'[t] = {}
    BY <1>2, <1>5 DEF PlannerInv, Shape, Turns
  <2>2. run'.last <= user'.turns /\ run'.graph <= user'.turns /\ wrote' <= user'.turns
    BY <1>2 DEF PlannerInv, Shape
  <2>3. \A t \in boot'.todo : disk'[t] # "none"
    BY Typed, <1>2, <1>5 DEF PlannerInv, Shape, BootType
  <2> QED BY <1>2, <1>4, <2>1, <2>2, <2>3 DEF PlannerInv, Shape, Up, Opening
<1>8. NewRun'
  BY <1>2, <1>5 DEF PlannerInv, NewRun, OfTurn, Opening, Working, Failing, Can
<1>9. Firsts'
  BY <1>2, <1>5 DEF PlannerInv, Firsts, Unread, Up, Shape, NewRun, Turns, Working, Failing
<1>10. Reviews'
  BY <1>2, <1>4, <1>5 DEF PlannerInv, Reviews, OfTurn, Working, Failing, Idle, Up, Can
<1>11. Leftovers'
  BY <1>2, <1>5 DEF PlannerInv, Leftovers, Up, Unread, Working, Shape
<1>12. Stops'
  BY <1>2, <1>5 DEF PlannerInv, Stops, OfTurn, Opening, Working
<1>13. Pauses'
  BY <1>2, <1>4, <1>5 DEF PlannerInv, Pauses, OfTurn, Working, Failing, Can, Shape
<1>14. Drains'
  BY <1>2, <1>4, <1>5 DEF PlannerInv, Drains, NoRefusedResume, Draining, Can, Up, Working
<1>15. Approvals'
  BY <1>2, <1>5 DEF PlannerInv, Approvals, OfTurn, Working, Failing, Can
<1>16. Cancels'
  BY <1>2, <1>4, <1>5 DEF PlannerInv, Cancels, Can
<1>17. Writes'
  BY <1>2, <1>5 DEF PlannerInv, Writes, Can
<1>18. Stores'
  BY <1>2, <1>5 DEF PlannerInv, Stores, Committed
<1>19. Tales'
  <2>1. Sound /\ Sound' => Telling(turn.id)'
    BY <1>2, <1>4, <1>5
       DEF PlannerInv, Tales, Tale, Telling, Told, Begun, Working, Committed, Failures, Can, Shape,
           Sound
  <2> QED BY <1>2, <1>4, <1>5, <2>1, TalesOfTurn DEF PlannerInv, Shape
<1> QED BY <1>6, <1>7, <1>8, <1>9, <1>10, <1>11, <1>12, <1>13, <1>14, <1>15, <1>16, <1>17, <1>18,
           <1>19
           DEF PlannerInv

\* The summary says failed before the failure is recorded.
LEMMA SpoilKeeps ==
    ASSUME PlannerInv, Spoil PROVE PlannerInv'
<1>1. TypeInv
  BY DEF PlannerInv
<1>2. /\ turn.pc = "spoil" /\ Up
      /\ UNCHANGED <<flag, cancel, refuse, run, exec, rec, wrote, stopper, boot, user>>
      /\ disk' = [disk EXCEPT ![turn.id] = "failed"]
  BY DEF Spoil, At, SideCar
<1>3. /\ turn' \in TurnType
      /\ turn'.pc = "abort"
      /\ turn'.id = turn.id /\ turn'.kind = turn.kind
      /\ turn'.resume = turn.resume /\ turn'.slot = turn.slot /\ turn'.denied = turn.denied
  BY <1>1, Typed DEF Spoil, Goto, TurnType, Pcs
<1>4. /\ disk' \in [Turns -> Statuses]
      /\ \A t \in Turns : t = turn.id => disk'[t] = "failed"
      /\ \A t \in Turns : t # turn.id => disk'[t] = disk[t]
  BY <1>1, Typed, <1>2 DEF Statuses
<1>5. TypeInv'
  BY <1>3, <1>4 DEF PlannerInv, TypeInv, Spoil
<1>6. Shape'
  BY <1>2, <1>3 DEF PlannerInv, Shape, Up, Off, Idle, Can, Opening, Turns
<1>7. NewRun'
  BY <1>2, <1>3 DEF PlannerInv, NewRun, OfTurn, Opening, Working, Failing, Can
<1>8. Firsts'
  BY <1>2 DEF PlannerInv, Firsts, Unread, Up, Shape, NewRun, Turns, Working, Failing
<1>9. Reviews'
  BY <1>2, <1>3 DEF PlannerInv, Reviews, OfTurn, Working, Failing, Idle, Up, Can
<1>10. Leftovers'
  BY <1>2, <1>4 DEF PlannerInv, Leftovers, Up, Unread, Working, Shape
<1>11. Stops'
  BY <1>2, <1>3 DEF PlannerInv, Stops, OfTurn, Opening, Working
<1>12. Pauses'
  BY <1>2, <1>3 DEF PlannerInv, Pauses, OfTurn, Working, Failing, Can
<1>13. Drains'
  BY <1>2, <1>3 DEF PlannerInv, Drains, NoRefusedResume, Draining, Can, Up, Working
<1>14. Approvals'
  BY <1>2, <1>3 DEF PlannerInv, Approvals, OfTurn, Working, Failing, Can
<1>15. Cancels'
  BY <1>2, <1>3 DEF PlannerInv, Cancels, Can
<1>16. Writes'
  BY <1>2, <1>3 DEF PlannerInv, Writes, Can
<1>17. Stores'
  BY <1>2 DEF PlannerInv, Stores, Committed
<1>18. Tales'
  <2>1. turn.id = user.turns /\ turn.id \in Turns /\ turn'.id \in Turns
    BY <1>2, <1>3 DEF PlannerInv, Shape
  <2>2. Sound => Begun(turn.id)
    BY <1>2, <2>1 DEF PlannerInv, Tales, Tale, Telling, Begun
  <2>3. Sound => Telling(turn.id)'
    BY <1>2, <1>3, <1>4, <2>1, <2>2 DEF Telling, Begun, Working
  <2> QED BY <1>2, <1>3, <2>1, <2>2, <2>3, TalesOfTurn
<1> QED BY <1>5, <1>6, <1>7, <1>8, <1>9, <1>10, <1>11, <1>12, <1>13, <1>14, <1>15, <1>16, <1>17,
           <1>18
           DEF PlannerInv

\* A first turn that fails leaves a Run that can be planned again.
LEMMA AbortNewKeeps ==
    ASSUME PlannerInv, AbortNew PROVE PlannerInv'
<1>1. TypeInv
  BY DEF PlannerInv
<1>2. /\ turn.pc = "abort" /\ Up
      /\ turn.kind = "new"
      /\ stopper = "off"
      /\ UNCHANGED <<flag, cancel, refuse, exec, disk, wrote, stopper, boot, user>>
  BY DEF AbortNew, Locked, At
<1>3. /\ turn' \in TurnType
      /\ turn'.pc = "end"
      /\ turn'.id = turn.id /\ turn'.kind = turn.kind
      /\ turn'.resume = turn.resume /\ turn'.slot = turn.slot /\ turn'.denied = turn.denied
  BY <1>1, Typed DEF AbortNew, Goto, TurnType, Pcs
<1>4. /\ rec' \in [Turns -> SUBSET Marks]
      /\ \A t \in Turns : t = turn.id => rec'[t] = rec[t] \cup {"failed"}
      /\ \A t \in Turns : t # turn.id => rec'[t] = rec[t]
  BY <1>1, Typed DEF AbortNew, Record, Marks
<1>5. /\ run' \in RunType
      /\ run'.serial = run.serial /\ run'.approved = run.approved /\ run'.paused = run.paused
      /\ run'.stop = run.stop /\ run'.graph = run.graph /\ run'.pending = run.pending
      /\ run'.review = run.review
      /\ run'.phase = "planning_failed" /\ run'.last = turn.id /\ run'.status = "failed"
  BY <1>1, Typed DEF AbortNew, LastTurn, RunType, Phases, Statuses
<1>6. TypeInv'
  BY <1>3, <1>4, <1>5 DEF PlannerInv, TypeInv, AbortNew
<1>7. Shape'
  <2>1. \A t \in Turns : t > user'.turns => disk'[t] = "none" /\ rec'[t] = {}
    BY <1>2, <1>4 DEF PlannerInv, Shape, Turns
  <2>2. run'.last <= user'.turns /\ run'.graph <= user'.turns /\ wrote' <= user'.turns
    BY Typed, <1>2, <1>5 DEF PlannerInv, Shape
  <2> QED BY <1>2, <1>3, <2>1, <2>2 DEF PlannerInv, Shape, Up
<1>8. NewRun'
  BY <1>3, <1>5 DEF PlannerInv, NewRun, OfTurn, Opening, Working, Failing, Can
<1>9. Firsts'
  BY <1>2, <1>5 DEF PlannerInv, Firsts, Unread, Up
<1>10. Reviews'
  BY <1>2, <1>3, <1>5 DEF PlannerInv, Reviews, OfTurn, Working, Failing, Idle, Up, Can, Shape
<1>11. Leftovers'
  BY <1>2, <1>5 DEF PlannerInv, Leftovers, Up, Unread, Working
<1>12. Stops'
  BY <1>2, <1>3, <1>5 DEF PlannerInv, Stops, OfTurn, Opening, Working
<1>13. Pauses'
  BY <1>2, <1>3, <1>5 DEF PlannerInv, Pauses, OfTurn, Working, Failing, Can
<1>14. Drains'
  BY <1>2, <1>3, <1>5 DEF PlannerInv, Drains, NoRefusedResume, Draining, Can, Up, Working, Shape
<1>15. Approvals'
  BY <1>2, <1>3, <1>5 DEF PlannerInv, Approvals, OfTurn, Working, Failing, Can
<1>16. Cancels'
  BY <1>2, <1>3, <1>5 DEF PlannerInv, Cancels, Can
<1>17. Writes'
  BY <1>2, <1>5 DEF PlannerInv, Writes, Can, Shape
<1>18. Stores'
  BY <1>4, <1>5 DEF PlannerInv, Stores, Committed
<1>19. Tales'
  <2>1. Sound /\ Sound' => Telling(turn.id)'
    BY <1>2, <1>3, <1>4, <1>5
       DEF PlannerInv, Tales, Tale, Telling, Told, Begun, Working, Committed, Failures, Can, Shape
  <2> QED BY <1>2, <1>3, <1>4, <1>5, <2>1, TalesOfTurn DEF PlannerInv, Shape
<1> QED BY <1>6, <1>7, <1>8, <1>9, <1>10, <1>11, <1>12, <1>13, <1>14, <1>15, <1>16, <1>17, <1>18,
           <1>19
           DEF PlannerInv

\* A revision that fails gives back the workspace it borrowed.
LEMMA AbortRevisionKeeps ==
    ASSUME PlannerInv, AbortRevision PROVE PlannerInv'
<1>1. TypeInv
  BY DEF PlannerInv
<1>2. /\ turn.pc = "abort" /\ Up
      /\ turn.kind # "new"
      /\ stopper = "off"
      /\ UNCHANGED <<flag, cancel, refuse, exec, disk, stopper, boot, user>>
      /\ wrote' = IF run.approved THEN AfterCapture ELSE wrote
  BY DEF AbortRevision, Locked, At
<1>3. /\ turn' \in TurnType
      /\ turn'.pc = "end"
      /\ turn'.id = turn.id /\ turn'.kind = turn.kind
      /\ turn'.resume = turn.resume /\ turn'.slot = turn.slot /\ turn'.denied = turn.denied
  BY <1>1, Typed DEF AbortRevision, Goto, TurnType, Pcs
<1>4. /\ rec' \in [Turns -> SUBSET Marks]
      /\ \A t \in Turns : t = turn.id => rec'[t] = rec[t] \cup {"aborted"}
      /\ \A t \in Turns : t # turn.id => rec'[t] = rec[t]
  BY <1>1, Typed DEF AbortRevision, Record, Marks
<1>5. /\ wrote' \in 0 .. MaxTurns
      /\ wrote' = wrote \/ wrote' = 0
      /\ turn.slot /\ run.approved /\ exec["lender"] = "idle" => wrote' = 0
  BY <1>1, Typed, <1>2 DEF AfterCapture, Capturable
<1>6. /\ run' \in RunType
      /\ run'.stop = run.stop /\ run'.graph = run.graph /\ run'.pending = run.pending
      /\ run'.status = "failed"
      /\ run'.review = (run.review /\ turn.kind # "review")
      /\ run'.last = (IF turn.kind = "review" THEN run.last ELSE turn.id)
      /\ run'.approved = run.approved /\ run'.paused = run.paused
      /\ run'.phase = IF turn.kind # "review" THEN run.phase
                   ELSE IF run.stop \/ run.paused THEN "paused"
                   ELSE IF run.pending THEN "running" ELSE "completed"
  <2>1. run' = Aborted(run)
    BY DEF AbortRevision
  <2> QED BY <1>1, Typed, <2>1, AbortedRun
<1>7. TypeInv'
  BY <1>3, <1>4, <1>5, <1>6 DEF PlannerInv, TypeInv, AbortRevision
<1>8. Shape'
  <2>1. \A t \in Turns : t > user'.turns => disk'[t] = "none" /\ rec'[t] = {}
    BY <1>2, <1>4 DEF PlannerInv, Shape, Turns
  <2>2. run'.last <= user'.turns /\ run'.graph <= user'.turns /\ wrote' <= user'.turns
    BY Typed, <1>2, <1>5, <1>6 DEF PlannerInv, Shape
  <2> QED BY <1>2, <1>3, <1>6, <2>1, <2>2 DEF PlannerInv, Shape, Up, Opening
<1>9. NewRun'
  BY <1>2, <1>3, <1>5, <1>6 DEF PlannerInv, NewRun, OfTurn, Opening, Working, Failing, Can
<1>10. Firsts'
  BY <1>2, <1>5, <1>6 DEF PlannerInv, Firsts, Unread, Up
<1>11. Reviews'
  BY <1>1, Typed, <1>2, <1>3, <1>5, <1>6
     DEF PlannerInv, Reviews, OfTurn, Working, Failing, Idle, Up, Can, Shape
<1>12. Leftovers'
  BY Typed, <1>2, <1>5, <1>6 DEF PlannerInv, Leftovers, Up, Unread, Working, Shape
<1>13. Stops'
  BY <1>2, <1>3, <1>5, <1>6 DEF PlannerInv, Stops, OfTurn, Opening, Working
<1>14. Pauses'
  BY <1>2, <1>3, <1>5, <1>6 DEF PlannerInv, Pauses, OfTurn, Working, Failing, Can
<1>15. Drains'
  BY <1>2, <1>3, <1>5, <1>6
     DEF PlannerInv, Drains, NoRefusedResume, Draining, Can, Up, Working, Shape
<1>16. Approvals'
  BY <1>2, <1>3, <1>5, <1>6 DEF PlannerInv, Approvals, OfTurn, Working, Failing, Can
<1>17. Cancels'
  BY <1>2, <1>3, <1>5, <1>6 DEF PlannerInv, Cancels, Can
<1>18. Writes'
  BY <1>2, <1>5, <1>6 DEF PlannerInv, Writes, Can, Shape
<1>19. Stores'
  BY <1>4, <1>5, <1>6 DEF PlannerInv, Stores, Committed
<1>20. Tales'
  <2>1. Sound /\ Sound' => Telling(turn.id)'
    BY <1>2, <1>3, <1>4, <1>5, <1>6
       DEF PlannerInv, Tales, Tale, Telling, Told, Begun, Working, Committed, Failures, Can, Shape
  <2> QED BY <1>2, <1>3, <1>4, <1>5, <1>6, <2>1, TalesOfTurn DEF PlannerInv, Shape
<1> QED BY <1>7, <1>8, <1>9, <1>10, <1>11, <1>12, <1>13, <1>14, <1>15, <1>16, <1>17, <1>18, <1>19,
           <1>20
           DEF PlannerInv

\* The capture may fail; the failure is recorded all the same.
LEMMA AbortUncapturedKeeps ==
    ASSUME PlannerInv, AbortUncaptured PROVE PlannerInv'
<1>1. TypeInv
  BY DEF PlannerInv
<1>2. /\ turn.pc = "abort" /\ Up
      /\ turn.kind # "new" /\ run.approved /\ turn.slot
      /\ stopper = "off"
      /\ UNCHANGED <<flag, cancel, refuse, exec, disk, stopper, boot>>
      /\ wrote' = 0
  BY DEF AbortUncaptured, Locked, At, CaptureFails, Capturable
<1>3. /\ turn' \in TurnType
      /\ turn'.pc = "end" /\ ~turn'.resume
      /\ turn'.id = turn.id /\ turn'.kind = turn.kind
      /\ turn'.slot = turn.slot /\ turn'.denied = turn.denied
  BY <1>1, Typed DEF AbortUncaptured, TurnType, Pcs
<1>4. /\ rec' \in [Turns -> SUBSET Marks]
      /\ \A t \in Turns : t = turn.id => rec'[t] = rec[t] \cup {"aborted"}
      /\ \A t \in Turns : t # turn.id => rec'[t] = rec[t]
  BY <1>1, Typed DEF AbortUncaptured, Record, Marks
<1>5. /\ user' \in UserType
      /\ user'.can = user.can /\ user'.turns = user.turns /\ user'.kinds = user.kinds
      /\ user'.asked = user.asked
      /\ user'.hold = IF user.hold = "none" THEN "pause" ELSE user.hold
  BY <1>1, Typed DEF AbortUncaptured, Hold, UserType
<1>6. /\ run' \in RunType
      /\ run'.stop = run.stop /\ run'.graph = run.graph /\ run'.pending = run.pending
      /\ run'.status = "failed"
      /\ run'.review = (run.review /\ turn.kind # "review")
      /\ run'.last = (IF turn.kind = "review" THEN run.last ELSE turn.id)
      /\ run'.approved /\ run'.paused
      /\ run'.phase = "paused"
  <2>1. PICK p : p = [run EXCEPT !.paused = TRUE, !.phase = "paused"]
    OBVIOUS
  <2>2. p \in RunType
    BY <1>1, Typed, <2>1 DEF RunType, Phases
  <2>3. run' = Aborted(p)
    BY <2>1 DEF AbortUncaptured
  <2>4. /\ run' \in RunType
        /\ run'.approved = p.approved /\ run'.paused = p.paused /\ run'.stop = p.stop
        /\ run'.graph = p.graph /\ run'.pending = p.pending /\ run'.status = "failed"
        /\ run'.review = (p.review /\ turn.kind # "review")
        /\ run'.last = (IF turn.kind = "review" THEN p.last ELSE turn.id)
        /\ run'.phase = IF turn.kind # "review" THEN p.phase
                        ELSE IF p.stop \/ p.paused THEN "paused"
                        ELSE IF p.pending THEN "running" ELSE "completed"
    BY <1>1, <2>2, <2>3, AbortedRun
  <2> QED BY <1>2, <2>1, <2>4 DEF RunType
<1>7. TypeInv'
  BY Typed, <1>3, <1>4, <1>5, <1>6 DEF PlannerInv, TypeInv, AbortUncaptured
<1>8. Shape'
  BY <1>2, <1>3, <1>4, <1>5, <1>6 DEF PlannerInv, Shape, Up, Off, Idle, Can, Opening, Turns
<1>9. NewRun'
  BY <1>3, <1>5, <1>6 DEF PlannerInv, NewRun, OfTurn, Opening, Working, Failing, Can
<1>10. Firsts'
  BY <1>2, <1>5, <1>6 DEF PlannerInv, Firsts, Unread, Up
<1>11. Reviews'
  BY <1>2, <1>3, <1>5, <1>6 DEF PlannerInv, Reviews, OfTurn, Working, Failing, Idle, Up, Can, Shape
<1>12. Leftovers'
  BY <1>2, <1>5, <1>6 DEF PlannerInv, Leftovers, Up, Unread, Working, Shape
<1>13. Stops'
  BY <1>3, <1>5, <1>6 DEF PlannerInv, Stops, OfTurn, Opening, Working
<1>14. Pauses'
  BY <1>2, <1>3, <1>5, <1>6
     DEF PlannerInv, Pauses, OfTurn, Working, Failing, Can, Reviews, Shape, Up
<1>15. Drains'
  BY <1>3, <1>5, <1>6 DEF PlannerInv, Drains, NoRefusedResume, Draining, Can, Up, Working
<1>16. Approvals'
  BY <1>5, <1>6 DEF PlannerInv, Approvals, OfTurn, Working, Failing, Can
<1>17. Cancels'
  BY <1>2, <1>3, <1>5, <1>6 DEF PlannerInv, Cancels, Can
<1>18. Writes'
  BY <1>2, <1>5, <1>6 DEF PlannerInv, Writes, Can
<1>19. Stores'
  BY <1>4, <1>5, <1>6 DEF PlannerInv, Stores, Committed
<1>20. Tales'
  <2>1. Sound /\ Sound' => Telling(turn.id)'
    BY <1>2, <1>3, <1>4, <1>5, <1>6
       DEF PlannerInv, Tales, Tale, Telling, Told, Begun, Working, Committed, Failures, Can, Shape
  <2> QED BY <1>2, <1>3, <1>4, <1>5, <1>6, <2>1, TalesOfTurn DEF PlannerInv, Shape
<1> QED BY <1>7, <1>8, <1>9, <1>10, <1>11, <1>12, <1>13, <1>14, <1>15, <1>16, <1>17, <1>18, <1>19,
           <1>20
           DEF PlannerInv

\* The turn reads the state it ends in.
LEMMA ReadEndKeeps ==
    ASSUME PlannerInv, ReadEnd PROVE PlannerInv'
<1>1. TypeInv
  BY DEF PlannerInv
<1>2. /\ turn.pc = "end" /\ Up
      /\ UNCHANGED <<flag, cancel, refuse, run, exec, disk, rec, wrote, stopper, boot, user>>
  BY DEF ReadEnd, At
<1>3. /\ turn' \in TurnType
      /\ \/ turn'.pc = "resume" /\ turn.resume /\ cancel # "run"
         \/ turn'.pc = "finish" /\ (cancel = "run" \/ ~turn.resume)
      /\ turn'.id = turn.id /\ turn'.kind = turn.kind
      /\ turn'.resume = turn.resume /\ turn'.slot = turn.slot /\ turn'.denied = turn.denied
  <2>1. turn' = [turn EXCEPT !.pc = IF cancel = "run" \/ ~turn.resume THEN "finish" ELSE "resume"]
    BY DEF ReadEnd, Goto
  <2>2. turn' \in TurnType
    BY <1>1, Typed, <2>1 DEF TurnType, Pcs
  <2> QED BY <2>1, <2>2
<1>4. TypeInv'
  BY <1>3 DEF PlannerInv, TypeInv, ReadEnd
<1>5. Shape'
  BY <1>2, <1>3 DEF PlannerInv, Shape, Up, Off, Idle, Can, Opening, Turns
<1>6. NewRun'
  BY <1>2, <1>3 DEF PlannerInv, NewRun, OfTurn, Opening, Working, Failing, Can
<1>7. Firsts'
  BY <1>2 DEF PlannerInv, Firsts, Unread, Up
<1>8. Reviews'
  BY <1>2, <1>3 DEF PlannerInv, Reviews, OfTurn, Working, Failing, Idle, Up, Can
<1>9. Leftovers'
  BY <1>2 DEF PlannerInv, Leftovers, Up, Unread, Working
<1>10. Stops'
  BY <1>2, <1>3 DEF PlannerInv, Stops, OfTurn, Opening, Working
<1>11. Pauses'
  BY <1>2, <1>3 DEF PlannerInv, Pauses, OfTurn, Working, Failing, Can
<1>12. Drains'
  BY <1>2, <1>3 DEF PlannerInv, Drains, NoRefusedResume, Draining, Can, Up, Working
<1>13. Approvals'
  BY <1>2, <1>3 DEF PlannerInv, Approvals, OfTurn, Working, Failing, Can
<1>14. Cancels'
  BY <1>2, <1>3 DEF PlannerInv, Cancels, Can
<1>15. Writes'
  BY <1>2 DEF PlannerInv, Writes, Can
<1>16. Stores'
  BY <1>2 DEF PlannerInv, Stores, Committed
<1>17. Tales'
  <2>1. Sound /\ Sound' => Telling(turn.id)'
    BY <1>2, <1>3
       DEF PlannerInv, Tales, Tale, Telling, Told, Begun, Working, Committed, Failures, Can, Shape
  <2> QED BY <1>2, <1>3, <2>1, TalesOfTurn DEF PlannerInv, Shape
<1> QED BY <1>4, <1>5, <1>6, <1>7, <1>8, <1>9, <1>10, <1>11, <1>12, <1>13, <1>14, <1>15, <1>16,
           <1>17
           DEF PlannerInv

\* The pause of a drain is undone, unless a node or the Run is being stopped.
LEMMA UndoKeeps ==
    ASSUME PlannerInv, Undo PROVE PlannerInv'
<1>1. TypeInv
  BY DEF PlannerInv
<1>2. /\ turn.pc = "resume" /\ Up
      /\ stopper = "off"
      /\ UNCHANGED <<flag, cancel, refuse, exec, disk, rec, wrote, stopper, boot, user>>
  BY DEF Undo, Locked, At
<1>3. /\ turn' \in TurnType
      /\ turn'.pc = "finish"
      /\ turn'.id = turn.id /\ turn'.kind = turn.kind
      /\ turn'.resume = turn.resume /\ turn'.slot = turn.slot /\ turn'.denied = turn.denied
  BY <1>1, Typed DEF Undo, Goto, TurnType, Pcs
<1>4. /\ run' \in RunType
      /\ run'.serial = run.serial /\ run'.approved = run.approved /\ run'.graph = run.graph
      /\ run'.pending = run.pending /\ run'.review = run.review /\ run'.last = run.last
      /\ run'.status = run.status
      /\ \/ /\ ~run.stop /\ run.approved /\ run.paused /\ run.phase = "paused" /\ ~run'.stop
            /\ ~run'.paused /\ run'.phase = "running" /\ \A e \in Execs : exec[e] # "stopping"
         \/ /\ run' = run
            /\ ~(/\ ~run.stop /\ run.approved /\ run.paused /\ run.phase = "paused"
                 /\ \A e \in Execs : exec[e] # "stopping")
  <2>1. CASE /\ ~run.stop /\ run.approved /\ run.paused /\ run.phase = "paused"
             /\ \A e \in Execs : exec[e] # "stopping"
    <3>1. run' = [run EXCEPT !.paused = FALSE, !.stop = FALSE, !.phase = "running"]
      BY <2>1 DEF Undo
    <3>2. run' \in RunType
      BY <1>1, Typed, <3>1 DEF RunType, Phases
    <3> QED BY <2>1, <3>1, <3>2 DEF RunType
  <2>2. CASE ~(/\ ~run.stop /\ run.approved /\ run.paused /\ run.phase = "paused"
               /\ \A e \in Execs : exec[e] # "stopping")
    <3>1. run' = run
      BY <2>2 DEF Undo
    <3> QED BY <1>1, Typed, <2>2, <3>1
  <2> QED BY <2>1, <2>2
<1>5. TypeInv'
  BY <1>3, <1>4 DEF PlannerInv, TypeInv, Undo
<1>6. Shape'
  BY <1>2, <1>3, <1>4 DEF PlannerInv, Shape, Up, Off, Idle, Can, Opening, Turns
<1>7. NewRun'
  BY <1>2, <1>3, <1>4 DEF PlannerInv, NewRun, OfTurn, Opening, Working, Failing, Can
<1>8. Firsts'
  BY <1>2, <1>4 DEF PlannerInv, Firsts, Unread, Up
<1>9. Reviews'
  BY <1>2, <1>3, <1>4 DEF PlannerInv, Reviews, OfTurn, Working, Failing, Idle, Up, Can
<1>10. Leftovers'
  BY <1>2, <1>4 DEF PlannerInv, Leftovers, Up, Unread, Working
<1>11. Stops'
  BY <1>2, <1>3, <1>4 DEF PlannerInv, Stops, OfTurn, Opening, Working
<1>12. Pauses'
  BY <1>2 DEF PlannerInv, Pauses, OfTurn, Working, Failing, Can, Shape
<1>13. Drains'
  BY <1>2, <1>3, <1>4 DEF PlannerInv, Drains, NoRefusedResume, Draining, Can, Up, Working
<1>14. Approvals'
  BY <1>2, <1>3, <1>4 DEF PlannerInv, Approvals, OfTurn, Working, Failing, Can
<1>15. Cancels'
  BY <1>2, <1>3, <1>4 DEF PlannerInv, Cancels, Can
<1>16. Writes'
  BY <1>2 DEF PlannerInv, Writes, Can
<1>17. Stores'
  BY <1>2, <1>4 DEF PlannerInv, Stores, Committed
<1>18. Tales'
  <2>1. Sound /\ Sound' => Telling(turn.id)'
    BY <1>2, <1>3
       DEF PlannerInv, Tales, Tale, Telling, Told, Begun, Working, Committed, Failures, Can, Shape
  <2> QED BY <1>2, <1>3, <2>1, TalesOfTurn DEF PlannerInv, Shape
<1> QED BY <1>5, <1>6, <1>7, <1>8, <1>9, <1>10, <1>11, <1>12, <1>13, <1>14, <1>15, <1>16, <1>17,
           <1>18
           DEF PlannerInv

\* The turn is over and its cancellation with it.
LEMMA FinishKeeps ==
    ASSUME PlannerInv, Finish PROVE PlannerInv'
<1>1. TypeInv
  BY DEF PlannerInv
<1>2. /\ turn.pc = "finish" /\ Up
      /\ UNCHANGED <<run, exec, disk, rec, wrote, stopper, boot, user>>
      /\ flag' = FALSE /\ cancel' = "none" /\ refuse' = FALSE
      /\ turn' = Off
  BY DEF Finish, At
<1>3. /\ turn' \in TurnType
      /\ turn'.pc = "off" /\ turn'.id = 0 /\ turn'.kind = "new"
      /\ ~turn'.resume /\ ~turn'.slot /\ ~turn'.denied
  BY <1>2, BoundsAssumption DEF Off, TurnType, Pcs, Kinds
<1>4. TypeInv'
  BY <1>3 DEF PlannerInv, TypeInv, Finish
<1>5. Shape'
  BY <1>2 DEF PlannerInv, Shape, Up, Off, Idle, Can, Opening, Turns
<1>6. NewRun'
  BY <1>2, <1>3 DEF PlannerInv, NewRun, OfTurn, Opening, Working, Failing, Can
<1>7. Firsts'
  BY <1>2 DEF PlannerInv, Firsts, Unread, Up
<1>8. Reviews'
  BY <1>2, <1>3 DEF PlannerInv, Reviews, OfTurn, Working, Failing, Idle, Up, Can, Shape
<1>9. Leftovers'
  BY <1>2 DEF PlannerInv, Leftovers, Up, Unread, Working, Shape
<1>10. Stops'
  BY <1>2, <1>3 DEF PlannerInv, Stops, OfTurn, Opening, Working
<1>11. Pauses'
  BY <1>2, <1>3 DEF PlannerInv, Pauses, OfTurn, Working, Failing, Can
<1>12. Drains'
  BY <1>2 DEF PlannerInv, Drains, NoRefusedResume, Draining, Can, Up, Working
<1>13. Approvals'
  BY <1>2, <1>3 DEF PlannerInv, Approvals, OfTurn, Working, Failing, Can
<1>14. Cancels'
  BY <1>2, <1>3 DEF PlannerInv, Cancels, Can
<1>15. Writes'
  BY <1>2 DEF PlannerInv, Writes, Can
<1>16. Stores'
  BY <1>2 DEF PlannerInv, Stores, Committed
<1>17. Tales'
  BY <1>2, <1>3
     DEF PlannerInv, Tales, Sound, Misread, Can, Tale, Telling, Told, Begun, Working, Committed,
         Failures, Up, Unread, Cut, CutAfterGraph, CutBeforeGraph, Shape
<1> QED BY <1>4, <1>5, <1>6, <1>7, <1>8, <1>9, <1>10, <1>11, <1>12, <1>13, <1>14, <1>15, <1>16,
           <1>17
           DEF PlannerInv

\* The user pauses.
LEMMA PauseKeeps ==
    ASSUME PlannerInv, Pause PROVE PlannerInv'
<1>1. TypeInv
  BY DEF PlannerInv
<1>2. /\ Up /\ Can("pause") /\ stopper = "off" /\ run.approved
      /\ UNCHANGED <<flag, cancel, refuse, turn, disk, rec, wrote, stopper, boot>>
  BY DEF Pause, Acting, Can
<1>3. /\ run' \in RunType
      /\ run'.serial = run.serial /\ run'.approved = run.approved /\ run'.stop = run.stop
      /\ run'.graph = run.graph /\ run'.pending = run.pending /\ run'.review = run.review
      /\ run'.last = run.last /\ run'.status = run.status
      /\ run'.paused /\ run'.phase = "paused"
  BY <1>1, Typed DEF Pause, RunType, Phases
<1>4. /\ exec' \in ExecType
      /\ \A e \in Execs : exec'[e] = IF exec[e] = "running" THEN "stopping" ELSE exec[e]
  BY <1>1, Typed DEF Pause, Stopping, ExecType
<1>5. /\ user' \in UserType
      /\ user'.can = user.can /\ user'.turns = user.turns /\ user'.kinds = user.kinds
      /\ user'.asked = user.asked
      /\ user'.hold = "pause"
  <2>1. user.acts \in Nat /\ user.acts > 0
    BY <1>1, Typed DEF Pause, Acting
  <2>2. user' = [user EXCEPT !.acts = @ - 1, !.hold = "pause"]
    BY DEF Pause, Act
  <2>3. user.acts - 1 \in Nat
    BY <2>1
  <2>4. user' \in UserType
    BY <1>1, Typed, <2>2, <2>3 DEF UserType
  <2> QED BY <2>2, <2>4
<1>6. TypeInv'
  BY <1>3, <1>4, <1>5 DEF PlannerInv, TypeInv, Pause
<1>7. Shape'
  BY <1>2, <1>3, <1>5 DEF PlannerInv, Shape, Up, Off, Idle, Can, Opening, Turns, Reviews
<1>8. NewRun'
  BY <1>2, <1>3, <1>5 DEF PlannerInv, NewRun, OfTurn, Opening, Working, Failing, Can, Shape
<1>9. Firsts'
  BY <1>2, <1>3, <1>5 DEF PlannerInv, Firsts, Unread, Up
<1>10. Reviews'
  BY <1>2, <1>3, <1>4, <1>5 DEF PlannerInv, Reviews, OfTurn, Working, Failing, Idle, Up, Can
<1>11. Leftovers'
  BY <1>2, <1>3, <1>5 DEF PlannerInv, Leftovers, Up, Unread, Working
<1>12. Stops'
  BY <1>5 DEF PlannerInv, Stops, OfTurn, Opening, Working
<1>13. Pauses'
  BY <1>2, <1>5 DEF PlannerInv, Pauses, OfTurn, Working, Failing, Can
<1>14. Drains'
  BY <1>3, <1>4, <1>5 DEF PlannerInv, Drains, NoRefusedResume, Draining, Can, Up, Working
<1>15. Approvals'
  BY <1>2, <1>3, <1>5 DEF PlannerInv, Approvals, OfTurn, Working, Failing, Can
<1>16. Cancels'
  BY <1>2, <1>3, <1>5 DEF PlannerInv, Cancels, Can
<1>17. Writes'
  BY <1>2, <1>4, <1>5 DEF PlannerInv, Writes, Can, Execs
<1>18. Stores'
  BY <1>2, <1>3, <1>5 DEF PlannerInv, Stores, Committed
<1>19. Tales'
  BY <1>2, <1>3, <1>5
     DEF PlannerInv, Tales, Sound, Misread, Can, Tale, Telling, Told, Begun, Working, Committed,
         Failures, Up, Unread, Cut, CutAfterGraph, CutBeforeGraph
<1> QED BY <1>6, <1>7, <1>8, <1>9, <1>10, <1>11, <1>12, <1>13, <1>14, <1>15, <1>16, <1>17, <1>18,
           <1>19
           DEF PlannerInv

\* The user resumes.
LEMMA ResumeKeeps ==
    ASSUME PlannerInv, Resume PROVE PlannerInv'
<1>1. TypeInv
  BY DEF PlannerInv
<1>2. /\ Up /\ stopper = "off" /\ run.approved /\ run.paused
      /\ \A e \in Execs : exec[e] # "stopping"
      /\ UNCHANGED <<flag, cancel, refuse, exec, turn, disk, rec, wrote, stopper, boot>>
  BY DEF Resume, Acting
<1>3. /\ run' \in RunType
      /\ run'.serial = run.serial /\ run'.approved = run.approved /\ run'.graph = run.graph
      /\ run'.pending = run.pending /\ run'.review = run.review /\ run'.last = run.last
      /\ run'.status = run.status
      /\ ~run'.paused /\ ~run'.stop /\ run'.phase = "running"
  BY <1>1, Typed DEF Resume, RunType, Phases
<1>4. /\ user' \in UserType
      /\ user'.can = user.can /\ user'.turns = user.turns /\ user'.kinds = user.kinds
      /\ user'.asked = user.asked
      /\ user'.hold = "none"
  <2>1. user.acts \in Nat /\ user.acts > 0
    BY <1>1, Typed DEF Resume, Acting
  <2>2. user' = [user EXCEPT !.acts = @ - 1, !.hold = "none"]
    BY DEF Resume, Act
  <2>3. user.acts - 1 \in Nat
    BY <2>1
  <2>4. user' \in UserType
    BY <1>1, Typed, <2>2, <2>3 DEF UserType
  <2> QED BY <2>2, <2>4
<1>5. TypeInv'
  BY <1>3, <1>4 DEF PlannerInv, TypeInv, Resume
<1>6. Shape'
  BY <1>2, <1>3, <1>4 DEF PlannerInv, Shape, Up, Off, Idle, Can, Opening, Turns
<1>7. NewRun'
  BY <1>2, <1>3, <1>4 DEF PlannerInv, NewRun, OfTurn, Opening, Working, Failing, Can
<1>8. Firsts'
  BY <1>2, <1>3, <1>4 DEF PlannerInv, Firsts, Unread, Up
<1>9. Reviews'
  BY <1>2, <1>3, <1>4
     DEF PlannerInv, Reviews, OfTurn, Working, Failing, Idle, Up, Can, Shape, NewRun
<1>10. Leftovers'
  BY <1>2, <1>3, <1>4 DEF PlannerInv, Leftovers, Up, Unread, Working
<1>11. Stops'
  BY <1>4 DEF PlannerInv, Stops, OfTurn, Opening, Working
<1>12. Pauses'
  BY <1>4 DEF PlannerInv, Pauses, OfTurn, Working, Failing, Can
<1>13. Drains'
  BY <1>2, <1>3, <1>4 DEF PlannerInv, Drains, NoRefusedResume, Draining, Can, Up, Working
<1>14. Approvals'
  BY <1>2, <1>3 DEF PlannerInv, Approvals, OfTurn, Working, Failing, Can
<1>15. Cancels'
  BY <1>2, <1>3, <1>4 DEF PlannerInv, Cancels, Can
<1>16. Writes'
  BY <1>2, <1>4 DEF PlannerInv, Writes, Can
<1>17. Stores'
  BY <1>2, <1>3 DEF PlannerInv, Stores, Committed
<1>18. Tales'
  BY <1>2, <1>3, <1>4
     DEF PlannerInv, Tales, Sound, Misread, Can, Tale, Telling, Told, Begun, Working, Committed,
         Failures, Up, Unread, Cut, CutAfterGraph, CutBeforeGraph
<1> QED BY <1>5, <1>6, <1>7, <1>8, <1>9, <1>10, <1>11, <1>12, <1>13, <1>14, <1>15, <1>16, <1>17,
           <1>18
           DEF PlannerInv

\* The user approves the draft.
LEMMA ApproveKeeps ==
    ASSUME PlannerInv, Approve PROVE PlannerInv'
<1>1. TypeInv
  BY DEF PlannerInv
<1>2. /\ Up /\ stopper = "off" /\ ~flag /\ run.phase = "awaiting" /\ Can("approve")
      /\ UNCHANGED <<flag, cancel, refuse, exec, turn, disk, rec, wrote, stopper, boot>>
  BY DEF Approve, Acting, Can
<1>3. /\ run' \in RunType
      /\ run'.serial = run.serial /\ run'.paused = run.paused /\ run'.stop = run.stop
      /\ run'.graph = run.graph /\ run'.pending = run.pending /\ run'.review = run.review
      /\ run'.last = run.last /\ run'.status = run.status
      /\ run'.approved /\ run'.phase = "running"
  BY <1>1, Typed DEF Approve, Approved, RunType, Phases
<1>4. /\ user' \in UserType
      /\ user'.can = user.can /\ user'.turns = user.turns /\ user'.kinds = user.kinds
      /\ user'.asked = user.asked
      /\ user'.hold = "none"
  <2>1. user.acts \in Nat /\ user.acts > 0
    BY <1>1, Typed DEF Approve, Acting
  <2>2. user' = [user EXCEPT !.acts = @ - 1, !.hold = "none"]
    BY DEF Approve, Act
  <2>3. user.acts - 1 \in Nat
    BY <2>1
  <2>4. user' \in UserType
    BY <1>1, Typed, <2>2, <2>3 DEF UserType
  <2> QED BY <2>2, <2>4
<1>5. TypeInv'
  BY <1>3, <1>4 DEF PlannerInv, TypeInv, Approve
<1>6. Shape'
  BY <1>2, <1>3, <1>4 DEF PlannerInv, Shape, Up, Off, Idle, Can, Opening, Turns
<1>7. NewRun'
  BY <1>2, <1>3 DEF PlannerInv, NewRun, OfTurn, Opening, Working, Failing, Can, Shape
<1>8. Firsts'
  BY <1>2, <1>3, <1>4 DEF PlannerInv, Firsts, Unread, Up
<1>9. Reviews'
  BY <1>2, <1>3 DEF PlannerInv, Reviews, OfTurn, Working, Failing, Idle, Up, Can, Shape
<1>10. Leftovers'
  BY <1>2, <1>3, <1>4 DEF PlannerInv, Leftovers, Up, Unread, Working
<1>11. Stops'
  BY <1>4 DEF PlannerInv, Stops, OfTurn, Opening, Working
<1>12. Pauses'
  BY <1>4 DEF PlannerInv, Pauses, OfTurn, Working, Failing, Can
<1>13. Drains'
  <2>1. turn.pc = "off" /\ Idle /\ ~run.paused
    <3>1. flag = (turn.pc # "off") /\ (run.phase = "awaiting" => ~run.approved)
          /\ (~run.approved => Idle /\ ~run.paused)
      BY DEF PlannerInv, Shape, Reviews
    <3> QED BY <1>2, <3>1
  <2> QED BY <1>2, <1>3, <1>4, <2>1
             DEF PlannerInv, Drains, Cancels, NoRefusedResume, Draining, Can, Up, Working, Idle
<1>14. Approvals'
  BY <1>3 DEF PlannerInv, Approvals, OfTurn, Working, Failing, Can
<1>15. Cancels'
  BY <1>2, <1>3, <1>4 DEF PlannerInv, Cancels, Can
<1>16. Writes'
  BY <1>2, <1>4 DEF PlannerInv, Writes, Can
<1>17. Stores'
  BY <1>2, <1>3 DEF PlannerInv, Stores, Committed
<1>18. Tales'
  BY <1>2, <1>3, <1>4
     DEF PlannerInv, Tales, Sound, Misread, Can, Tale, Telling, Told, Begun, Working, Committed,
         Failures, Up, Unread, Cut, CutAfterGraph, CutBeforeGraph
<1> QED BY <1>5, <1>6, <1>7, <1>8, <1>9, <1>10, <1>11, <1>12, <1>13, <1>14, <1>15, <1>16, <1>17,
           <1>18
           DEF PlannerInv

\* The user stops a node.
LEMMA StopNodeKeeps ==
    ASSUME PlannerInv, NEW e \in Execs, StopNode(e) PROVE PlannerInv'
<1>1. TypeInv
  BY DEF PlannerInv
<1>2. /\ Up /\ stopper = "off" /\ Can("stopnode") /\ exec[e] = "running"
      /\ UNCHANGED <<flag, cancel, refuse, run, turn, disk, rec, wrote, stopper, boot>>
  BY DEF StopNode, Acting, Can
<1>3. /\ exec' \in ExecType
      /\ exec'[e] = "stopping" /\ \A x \in Execs : x # e => exec'[x] = exec[x]
  BY <1>1, Typed DEF StopNode, ExecType
<1>4. /\ user' \in UserType
      /\ user'.can = user.can /\ user'.turns = user.turns /\ user'.kinds = user.kinds
      /\ user'.asked = user.asked
      /\ user'.hold = user.hold
  <2>1. user.acts \in Nat /\ user.acts > 0
    BY <1>1, Typed DEF StopNode, Acting
  <2>2. user' = [user EXCEPT !.acts = @ - 1, !.hold = user.hold]
    BY DEF StopNode, Act
  <2>3. user.acts - 1 \in Nat
    BY <2>1
  <2>4. user' \in UserType
    BY <1>1, Typed, <2>2, <2>3 DEF UserType
  <2> QED BY <2>2, <2>4
<1>5. TypeInv'
  BY <1>3, <1>4 DEF PlannerInv, TypeInv, StopNode
<1>6. Shape'
  BY <1>2, <1>4 DEF PlannerInv, Shape, Up, Off, Idle, Can, Opening, Turns
<1>7. NewRun'
  BY <1>2, <1>4 DEF PlannerInv, NewRun, OfTurn, Opening, Working, Failing, Can
<1>8. Firsts'
  BY <1>2, <1>4 DEF PlannerInv, Firsts, Unread, Up
<1>9. Reviews'
  BY <1>2 DEF PlannerInv, Reviews, OfTurn, Working, Failing, Idle, Up, Can, Shape
<1>10. Leftovers'
  BY <1>2, <1>4 DEF PlannerInv, Leftovers, Up, Unread, Working
<1>11. Stops'
  BY <1>2, <1>4 DEF PlannerInv, Stops, OfTurn, Opening, Working
<1>12. Pauses'
  BY <1>2, <1>4 DEF PlannerInv, Pauses, OfTurn, Working, Failing, Can
<1>13. Drains'
  BY <1>2, <1>4 DEF Drains, NoRefusedResume, Can
<1>14. Approvals'
  BY <1>2, <1>4 DEF PlannerInv, Approvals, OfTurn, Working, Failing, Can
<1>15. Cancels'
  BY <1>2, <1>4 DEF PlannerInv, Cancels, Can
<1>16. Writes'
  BY <1>2, <1>3, <1>4 DEF PlannerInv, Writes, Can, Execs
<1>17. Stores'
  BY <1>2 DEF PlannerInv, Stores, Committed
<1>18. Tales'
  BY <1>2, <1>4
     DEF PlannerInv, Tales, Sound, Misread, Can, Tale, Telling, Told, Begun, Working, Committed,
         Failures, Up, Unread, Cut, CutAfterGraph, CutBeforeGraph
<1> QED BY <1>5, <1>6, <1>7, <1>8, <1>9, <1>10, <1>11, <1>12, <1>13, <1>14, <1>15, <1>16, <1>17,
           <1>18
           DEF PlannerInv

\* The user stops the turn.
LEMMA StopPlannerKeeps ==
    ASSUME PlannerInv, StopPlanner PROVE PlannerInv'
<1>1. TypeInv
  BY DEF PlannerInv
<1>2. /\ Up /\ Can("stopplanner") /\ flag /\ run.phase # "none"
      /\ UNCHANGED <<flag, run, exec, turn, disk, rec, wrote, stopper, boot>>
      /\ cancel' = "planner" /\ refuse' = TRUE
  BY DEF StopPlanner, Acting, Can
<1>3. /\ user' \in UserType
      /\ user'.can = user.can /\ user'.turns = user.turns /\ user'.kinds = user.kinds
      /\ user'.hold = user.hold
      /\ user'.asked = user.asked \cup {turn.id}
  <2>1. user.acts \in Nat /\ user.acts > 0
    BY <1>1, Typed DEF StopPlanner, Acting
  <2>2. user' = [user EXCEPT !.acts = @ - 1, !.asked = @ \cup {turn.id}]
    BY DEF StopPlanner
  <2>3. user.acts - 1 \in Nat
    BY <2>1
  <2>4. user' \in UserType
    BY <1>1, Typed, <2>2, <2>3 DEF UserType
  <2> QED BY <2>2, <2>4
<1>4. TypeInv'
  BY <1>3 DEF PlannerInv, TypeInv, StopPlanner
<1>5. Shape'
  BY <1>2, <1>3 DEF PlannerInv, Shape, Up, Off, Idle, Can, Opening, Turns
<1>6. NewRun'
  BY <1>2, <1>3 DEF PlannerInv, NewRun, OfTurn, Opening, Working, Failing, Can
<1>7. Firsts'
  BY <1>2, <1>3 DEF PlannerInv, Firsts, Unread, Up
<1>8. Reviews'
  BY <1>2, <1>3 DEF PlannerInv, Reviews, OfTurn, Working, Failing, Idle, Up, Can
<1>9. Leftovers'
  BY <1>2, <1>3 DEF PlannerInv, Leftovers, Up, Unread, Working
<1>10. Stops'
  BY <1>2, <1>3 DEF PlannerInv, Stops, OfTurn, Opening, Working
<1>11. Pauses'
  BY <1>2, <1>3 DEF PlannerInv, Pauses, OfTurn, Working, Failing, Can
<1>12. Drains'
  BY <1>2, <1>3 DEF PlannerInv, Drains, NoRefusedResume, Draining, Can, Up, Working
<1>13. Approvals'
  BY <1>2, <1>3 DEF PlannerInv, Approvals, OfTurn, Working, Failing, Can
<1>14. Cancels'
  BY <1>2, <1>3 DEF PlannerInv, Cancels, Can
<1>15. Writes'
  BY <1>2, <1>3 DEF PlannerInv, Writes, Can
<1>16. Stores'
  BY <1>2 DEF PlannerInv, Stores, Committed
<1>17. Tales'
  BY <1>2, <1>3
     DEF PlannerInv, Tales, Sound, Misread, Can, Tale, Telling, Told, Begun, Working, Committed,
         Failures, Up, Unread, Cut, CutAfterGraph, CutBeforeGraph
<1> QED BY <1>4, <1>5, <1>6, <1>7, <1>8, <1>9, <1>10, <1>11, <1>12, <1>13, <1>14, <1>15, <1>16,
           <1>17
           DEF PlannerInv

\* The run-wide Stop looks at the planning flag first.
LEMMA StopRunKeeps ==
    ASSUME PlannerInv, StopRun PROVE PlannerInv'
<1>1. TypeInv
  BY DEF PlannerInv
<1>2. /\ Up /\ Can("stop") /\ stopper = "off" /\ run.phase # "none"
      /\ UNCHANGED <<flag, cancel, refuse, run, exec, turn, disk, rec, wrote, boot>>
      /\ stopper' = IF flag THEN "planning" ELSE "quiet"
  BY DEF StopRun, Acting, Can
<1>3. /\ user' \in UserType
      /\ user'.can = user.can /\ user'.turns = user.turns /\ user'.kinds = user.kinds
      /\ user'.hold = user.hold
  <2>1. user.acts \in Nat /\ user.acts > 0
    BY <1>1, Typed DEF StopRun, Acting
  <2>2. user' = [user EXCEPT !.acts = @ - 1, !.asked = IF flag THEN @ \cup {turn.id} ELSE @]
    BY DEF StopRun
  <2>3. user.acts - 1 \in Nat
    BY <2>1
  <2>4. user' \in UserType
    BY <1>1, Typed, <2>2, <2>3 DEF UserType
  <2> QED BY <2>2, <2>4
<1>4. TypeInv'
  BY <1>3 DEF PlannerInv, TypeInv, StopRun
<1>5. Shape'
  BY <1>2, <1>3 DEF PlannerInv, Shape, Up, Off, Idle, Can, Opening, Turns
<1>6. NewRun'
  BY <1>2, <1>3 DEF PlannerInv, NewRun, OfTurn, Opening, Working, Failing, Can
<1>7. Firsts'
  BY <1>2, <1>3 DEF PlannerInv, Firsts, Unread, Up
<1>8. Reviews'
  BY <1>2, <1>3 DEF PlannerInv, Reviews, OfTurn, Working, Failing, Idle, Up, Can
<1>9. Leftovers'
  BY <1>2, <1>3 DEF PlannerInv, Leftovers, Up, Unread, Working
<1>10. Stops'
  BY <1>2, <1>3 DEF PlannerInv, Stops, OfTurn, Opening, Working
<1>11. Pauses'
  BY <1>2, <1>3 DEF PlannerInv, Pauses, OfTurn, Working, Failing, Can
<1>12. Drains'
  BY <1>2, <1>3 DEF PlannerInv, Drains, NoRefusedResume, Draining, Can, Up, Working
<1>13. Approvals'
  BY <1>2, <1>3 DEF PlannerInv, Approvals, OfTurn, Working, Failing, Can
<1>14. Cancels'
  BY <1>2, <1>3 DEF Cancels, Can
<1>15. Writes'
  BY <1>2, <1>3 DEF PlannerInv, Writes, Can
<1>16. Stores'
  BY <1>2 DEF PlannerInv, Stores, Committed
<1>17. Tales'
  BY <1>2, <1>3
     DEF PlannerInv, Tales, Sound, Misread, Can, Tale, Telling, Told, Begun, Working, Committed,
         Failures, Up, Unread, Cut, CutAfterGraph, CutBeforeGraph
<1> QED BY <1>4, <1>5, <1>6, <1>7, <1>8, <1>9, <1>10, <1>11, <1>12, <1>13, <1>14, <1>15, <1>16,
           <1>17
           DEF PlannerInv

\* It then cancels the turn, or stops the Run.
LEMMA StopRunApplyKeeps ==
    ASSUME PlannerInv, StopRunApply PROVE PlannerInv'
<1>1. TypeInv
  BY DEF PlannerInv
<1>2. /\ Up /\ stopper # "off"
      /\ UNCHANGED <<flag, refuse, disk, rec, wrote, boot>>
      /\ stopper' = "off"
      /\ cancel' = IF stopper = "planning" THEN "run" ELSE cancel
  BY DEF StopRunApply
<1>3. /\ run' \in RunType
      /\ run'.serial = run.serial /\ run'.approved = run.approved /\ run'.graph = run.graph
      /\ run'.pending = run.pending /\ run'.review = run.review /\ run'.last = run.last
      /\ run'.status = run.status
      /\ run'.stop /\ run'.paused = (run.paused \/ run.approved)
      /\ run'.phase = IF run.approved THEN "paused" ELSE run.phase
  BY <1>1, Typed DEF StopRunApply, RunType, Phases
<1>4. /\ exec' \in ExecType
      /\ \A e \in Execs : exec'[e] = IF exec[e] = "running" THEN "stopping" ELSE exec[e]
  BY <1>1, Typed DEF StopRunApply, Stopping, ExecType
<1>5. /\ turn' \in TurnType
      /\ turn'.pc = turn.pc
      /\ turn'.id = turn.id /\ turn'.kind = turn.kind
      /\ turn'.resume = turn.resume /\ turn'.slot = turn.slot /\ turn'.denied = turn.denied
  BY <1>1, Typed DEF StopRunApply, TurnType
<1>6. /\ turn.pc = "off" => turn' = turn
  BY <1>1, Typed, <1>5 DEF StopRunApply, TurnType
<1>7. /\ user' \in UserType
      /\ user'.acts = user.acts /\ user'.can = user.can /\ user'.turns = user.turns
      /\ user'.kinds = user.kinds /\ user'.asked = user.asked
      /\ user'.hold = IF stopper # "quiet" \/ turn.kind # "revise" THEN "stop"
                      ELSE IF run.approved THEN "pause" ELSE "none"
  BY <1>1, Typed, <1>5, <1>6 DEF StopRunApply, UserType
<1>8. /\ Idle => Idle'
      /\ run.phase # "none" /\ ~OfTurn("new", Opening) /\ (~run.approved => Idle /\ ~run.paused)
      /\ stopper = "quiet" => turn.pc \in {"off", "check"}
      /\ turn.pc = "off" => turn.kind = "new"
      /\ stopper = "planning" \/ stopper = "quiet"
  BY <1>2, <1>4, <1>5, <1>6, <1>7 DEF PlannerInv, NewRun, Reviews, Shape, Idle, Off, TypeInv
<1>9. TypeInv'
  BY <1>3, <1>4, <1>5, <1>6, <1>7, <1>8 DEF PlannerInv, TypeInv, StopRunApply
<1>10. Shape'
  BY <1>2, <1>3, <1>5, <1>6, <1>7, <1>8 DEF PlannerInv, Shape, Up, Off, Idle, Can, Opening, Turns
<1>11. NewRun'
  BY <1>2, <1>3, <1>5, <1>7, <1>8
     DEF PlannerInv, NewRun, OfTurn, Opening, Working, Failing, Can, Shape
<1>12. Firsts'
  BY <1>2, <1>3, <1>5, <1>6, <1>7, <1>8 DEF PlannerInv, Firsts, Unread, Up
<1>13. Reviews'
  BY <1>2, <1>3, <1>5, <1>7, <1>8 DEF PlannerInv, Reviews, OfTurn, Working, Failing, Up, Can
<1>14. Leftovers'
  BY <1>2, <1>3, <1>5, <1>6, <1>7, <1>8 DEF PlannerInv, Leftovers, Up, Unread, Working
<1>15. Stops'
  BY Typed, <1>2, <1>3, <1>5, <1>6, <1>7, <1>8
     DEF PlannerInv, Stops, OfTurn, Opening, Working, Kinds
<1>16. Pauses'
  BY <1>3, <1>5, <1>6, <1>7, <1>8
     DEF PlannerInv, Pauses, OfTurn, Working, Failing, Can, Reviews, Up, Shape, Opening
<1>17. Drains'
  BY <1>3, <1>4, <1>5, <1>6, <1>7, <1>8
     DEF PlannerInv, Drains, NoRefusedResume, Draining, Can, Up, Working, Idle
<1>18. Approvals'
  BY <1>3, <1>5, <1>6, <1>7, <1>8 DEF PlannerInv, Approvals, OfTurn, Working, Failing, Can
<1>19. Cancels'
  BY <1>5, <1>6, <1>7, <1>8 DEF PlannerInv, Cancels, Can
<1>20. Writes'
  BY <1>2, <1>4, <1>5, <1>6, <1>7, <1>8 DEF PlannerInv, Writes, Can, Execs
<1>21. Stores'
  BY <1>2, <1>3, <1>5, <1>6, <1>7, <1>8 DEF PlannerInv, Stores, Committed
<1>22. Tales'
  BY <1>2, <1>3, <1>5, <1>6, <1>7, <1>8
     DEF PlannerInv, Tales, Sound, Misread, Can, Tale, Telling, Told, Begun, Working, Committed,
         Failures, Up, Unread, Cut, CutAfterGraph, CutBeforeGraph
<1> QED BY <1>9, <1>10, <1>11, <1>12, <1>13, <1>14, <1>15, <1>16, <1>17, <1>18, <1>19, <1>20, <1>21,
           <1>22
           DEF PlannerInv

\* An attempt starts in a Run that is approved, running and not being planned.
LEMMA DispatchKeeps ==
    ASSUME PlannerInv, NEW e \in Execs, Dispatch(e) PROVE PlannerInv'
<1>1. TypeInv
  BY DEF PlannerInv
<1>2. /\ Up /\ stopper = "off" /\ ~flag /\ run.approved /\ ~run.paused /\ run.phase = "running"
      /\ exec[e] = "idle"
      /\ UNCHANGED <<flag, cancel, refuse, run, turn, disk, rec, wrote, stopper, boot, user>>
  BY DEF Dispatch, Schedulable
<1>3. /\ exec' \in ExecType
      /\ exec'[e] = "running" /\ \A x \in Execs : x # e => exec'[x] = exec[x]
  BY <1>1, Typed DEF Dispatch, ExecType
<1>4. /\ turn.pc = "off" /\ turn.kind = "new"
  <2>1. flag = (turn.pc # "off") /\ (turn.pc = "off" => turn = Off)
    BY DEF PlannerInv, Shape
  <2>2. turn = Off
    BY <1>2, <2>1
  <2> QED BY <2>2 DEF Off
<1>5. TypeInv'
  BY <1>3 DEF PlannerInv, TypeInv, Dispatch
<1>6. Shape'
  BY <1>2 DEF PlannerInv, Shape, Up, Off, Idle, Can, Opening, Turns
<1>7. NewRun'
  BY <1>2 DEF PlannerInv, NewRun, OfTurn, Opening, Working, Failing, Can
<1>8. Firsts'
  BY <1>2 DEF PlannerInv, Firsts, Unread, Up
<1>9. Reviews'
  BY <1>2, <1>4 DEF PlannerInv, Reviews, OfTurn, Working, Failing, Up
<1>10. Leftovers'
  BY <1>2 DEF PlannerInv, Leftovers, Up, Unread, Working
<1>11. Stops'
  BY <1>2 DEF PlannerInv, Stops, OfTurn, Opening, Working
<1>12. Pauses'
  BY <1>2 DEF PlannerInv, Pauses, OfTurn, Working, Failing, Can
<1>13. Drains'
  BY <1>2, <1>3, <1>4 DEF PlannerInv, Drains, NoRefusedResume, Draining, Can, Up, Working
<1>14. Approvals'
  BY <1>2 DEF PlannerInv, Approvals, OfTurn, Working, Failing, Can
<1>15. Cancels'
  BY <1>2 DEF PlannerInv, Cancels, Can
<1>16. Writes'
  BY <1>2, <1>3 DEF PlannerInv, Writes, Can, Execs
<1>17. Stores'
  BY <1>2 DEF PlannerInv, Stores, Committed
<1>18. Tales'
  BY <1>2
     DEF PlannerInv, Tales, Sound, Misread, Can, Tale, Telling, Told, Begun, Working, Committed,
         Failures, Up, Unread, Cut, CutAfterGraph, CutBeforeGraph
<1> QED BY <1>5, <1>6, <1>7, <1>8, <1>9, <1>10, <1>11, <1>12, <1>13, <1>14, <1>15, <1>16, <1>17,
           <1>18
           DEF PlannerInv

\* An attempt ends.
LEMMA ExecEndsKeeps ==
    ASSUME PlannerInv, NEW e \in Execs, ExecEnds(e) PROVE PlannerInv'
<1>1. TypeInv
  BY DEF PlannerInv
<1>2. /\ Up /\ stopper = "off"
      /\ UNCHANGED <<flag, cancel, refuse, run, turn, disk, rec, stopper, boot, user>>
      /\ wrote' = IF e = "lender" THEN 0 ELSE wrote
  BY DEF ExecEnds
<1>3. /\ exec' \in ExecType
      /\ exec'[e] = "idle" /\ \A x \in Execs : x # e => exec'[x] = exec[x]
  BY <1>1, Typed DEF ExecEnds, ExecType
<1>4. TypeInv'
  BY Typed, <1>3 DEF PlannerInv, TypeInv, ExecEnds
<1>5. Shape'
  BY Typed, <1>2 DEF PlannerInv, Shape, Up, Off, Idle, Can, Opening, Turns
<1>6. NewRun'
  BY <1>2 DEF PlannerInv, NewRun, OfTurn, Opening, Working, Failing, Can
<1>7. Firsts'
  BY <1>2 DEF PlannerInv, Firsts, Unread, Up
<1>8. Reviews'
  BY <1>2, <1>3 DEF PlannerInv, Reviews, OfTurn, Working, Failing, Idle, Up, Can
<1>9. Leftovers'
  BY <1>2 DEF PlannerInv, Leftovers, Up, Unread, Working
<1>10. Stops'
  BY <1>2 DEF PlannerInv, Stops, OfTurn, Opening, Working
<1>11. Pauses'
  BY <1>2 DEF PlannerInv, Pauses, OfTurn, Working, Failing, Can
<1>12. Drains'
  BY <1>2, <1>3 DEF PlannerInv, Drains, NoRefusedResume, Draining, Can, Up, Working
<1>13. Approvals'
  BY <1>2 DEF PlannerInv, Approvals, OfTurn, Working, Failing, Can
<1>14. Cancels'
  BY <1>2 DEF PlannerInv, Cancels, Can
<1>15. Writes'
  BY <1>2, <1>3 DEF PlannerInv, Writes, Can, Execs
<1>16. Stores'
  BY <1>2 DEF PlannerInv, Stores, Committed
<1>17. Tales'
  BY <1>2
     DEF PlannerInv, Tales, Sound, Misread, Can, Tale, Telling, Told, Begun, Working, Committed,
         Failures, Up, Unread, Cut, CutAfterGraph, CutBeforeGraph
<1> QED BY <1>4, <1>5, <1>6, <1>7, <1>8, <1>9, <1>10, <1>11, <1>12, <1>13, <1>14, <1>15, <1>16,
           <1>17
           DEF PlannerInv

\* The Run completes.
LEMMA CompleteKeeps ==
    ASSUME PlannerInv, Complete PROVE PlannerInv'
<1>1. TypeInv
  BY DEF PlannerInv
<1>2. /\ Up /\ stopper = "off" /\ ~flag /\ run.approved /\ ~run.paused /\ run.phase = "running"
      /\ \A e \in Execs : exec[e] = "idle"
      /\ UNCHANGED <<flag, cancel, refuse, exec, turn, disk, rec, wrote, stopper, boot, user>>
  BY DEF Complete, Schedulable
<1>3. /\ run' \in RunType
      /\ run'.serial = run.serial /\ run'.approved = run.approved /\ run'.paused = run.paused
      /\ run'.stop = run.stop /\ run'.graph = run.graph /\ run'.review = run.review
      /\ run'.last = run.last /\ run'.status = run.status
      /\ run'.phase = "completed" /\ ~run'.pending
  BY <1>1, Typed DEF Complete, RunType, Phases
<1>4. TypeInv'
  BY <1>3 DEF PlannerInv, TypeInv, Complete
<1>5. Shape'
  BY <1>2, <1>3 DEF PlannerInv, Shape, Up, Off, Idle, Can, Opening, Turns
<1>6. NewRun'
  BY <1>2, <1>3 DEF PlannerInv, NewRun, OfTurn, Opening, Working, Failing, Can, Shape
<1>7. Firsts'
  BY <1>2, <1>3 DEF PlannerInv, Firsts, Unread, Up
<1>8. Reviews'
  BY <1>2, <1>3 DEF PlannerInv, Reviews, OfTurn, Working, Failing, Idle, Up, Can
<1>9. Leftovers'
  BY <1>2, <1>3 DEF PlannerInv, Leftovers, Up, Unread, Working
<1>10. Stops'
  BY <1>2 DEF PlannerInv, Stops, OfTurn, Opening, Working
<1>11. Pauses'
  BY <1>2 DEF PlannerInv, Pauses, OfTurn, Working, Failing, Can
<1>12. Drains'
  BY <1>2, <1>3 DEF PlannerInv, Drains, NoRefusedResume, Draining, Can, Up, Working
<1>13. Approvals'
  BY <1>2, <1>3 DEF Approvals, OfTurn, Working, Failing, Can
<1>14. Cancels'
  BY <1>2, <1>3 DEF PlannerInv, Cancels, Can
<1>15. Writes'
  BY <1>2 DEF PlannerInv, Writes, Can
<1>16. Stores'
  BY <1>2, <1>3 DEF PlannerInv, Stores, Committed
<1>17. Tales'
  BY <1>2, <1>3
     DEF PlannerInv, Tales, Sound, Misread, Can, Tale, Telling, Told, Begun, Working, Committed,
         Failures, Up, Unread, Cut, CutAfterGraph, CutBeforeGraph
<1> QED BY <1>4, <1>5, <1>6, <1>7, <1>8, <1>9, <1>10, <1>11, <1>12, <1>13, <1>14, <1>15, <1>16,
           <1>17
           DEF PlannerInv

\* A crash: what was not written is lost.
LEMMA CrashKeeps ==
    ASSUME PlannerInv, Crash PROVE PlannerInv'
<1>1. TypeInv
  BY DEF PlannerInv
<1>2. /\ boot.pc # "down" /\ Can("crash")
      /\ UNCHANGED <<run, disk, rec, wrote>>
      /\ flag' = FALSE /\ cancel' = "none" /\ refuse' = FALSE /\ stopper' = "off"
      /\ turn' = Off
  BY DEF Crash, Can
<1>3. /\ turn' \in TurnType
      /\ turn'.pc = "off" /\ turn'.id = 0 /\ turn'.kind = "new"
      /\ ~turn'.resume /\ ~turn'.slot /\ ~turn'.denied
  BY <1>2, BoundsAssumption DEF Off, TurnType, Pcs, Kinds
<1>4. /\ boot' \in BootType
      /\ boot'.pc = "down" /\ boot'.todo = {}
  BY BoundsAssumption DEF Crash, BootType
<1>5. /\ exec' \in ExecType
      /\ \A e \in Execs : exec'[e] = "idle"
  BY DEF Crash, ExecType
<1>6. /\ user' \in UserType
      /\ user'.can = user.can /\ user'.turns = user.turns /\ user'.kinds = user.kinds
      /\ user'.asked = user.asked /\ user'.hold = user.hold
  <2>1. user.acts \in Nat /\ user.acts > 0
    BY <1>1, Typed DEF Crash
  <2>2. user' = [user EXCEPT !.acts = @ - 1]
    BY DEF Crash
  <2>3. user.acts - 1 \in Nat
    BY <2>1
  <2>4. user' \in UserType
    BY <1>1, Typed, <2>2, <2>3 DEF UserType
  <2> QED BY <2>2, <2>4
<1>7. TypeInv'
  BY <1>3, <1>4, <1>5, <1>6 DEF PlannerInv, TypeInv, Crash
<1>8. Shape'
  <2>1. /\ run.last <= user.turns /\ run.graph <= user.turns /\ wrote <= user.turns
        /\ \A t \in Turns : t > user.turns => disk[t] = "none" /\ rec[t] = {}
    BY DEF PlannerInv, Shape
  <2> QED BY <1>2, <1>3, <1>4, <1>5, <1>6, <2>1 DEF Shape, Idle, Can, Opening, Up
<1>9. NewRun'
  BY <1>2, <1>3, <1>5, <1>6 DEF PlannerInv, NewRun, OfTurn, Opening, Working, Failing, Can
<1>10. Firsts'
  BY <1>2, <1>4, <1>5, <1>6 DEF PlannerInv, Firsts, Unread, Up
<1>11. Reviews'
  BY <1>2, <1>3, <1>4, <1>5, <1>6 DEF PlannerInv, Reviews, OfTurn, Working, Failing, Idle, Up, Can
<1>12. Leftovers'
  BY <1>2, <1>4, <1>5, <1>6 DEF PlannerInv, Leftovers, Up, Unread, Working, Shape
<1>13. Stops'
  BY <1>2, <1>3, <1>5, <1>6 DEF PlannerInv, Stops, OfTurn, Opening, Working
<1>14. Pauses'
  BY <1>2, <1>3, <1>5, <1>6 DEF PlannerInv, Pauses, OfTurn, Working, Failing, Can
<1>15. Drains'
  BY <1>2, <1>4, <1>5, <1>6 DEF PlannerInv, Drains, NoRefusedResume, Draining, Can, Up, Working
<1>16. Approvals'
  BY <1>2, <1>3, <1>5, <1>6 DEF PlannerInv, Approvals, OfTurn, Working, Failing, Can
<1>17. Cancels'
  BY <1>2, <1>3, <1>5, <1>6 DEF PlannerInv, Cancels, Can
<1>18. Writes'
  BY <1>2, <1>5, <1>6 DEF PlannerInv, Writes, Can
<1>19. Stores'
  BY <1>2, <1>5, <1>6 DEF PlannerInv, Stores, Committed
<1>20. Tales'
  <2>1. Misread => Misread'
    BY <1>2, <1>3, <1>6 DEF PlannerInv, Shape, Misread, Can
  <2>2. SUFFICES ASSUME Sound', Sound, NEW t \in Turns PROVE Tale(t)'
    BY <1>6, <2>1 DEF Tales, Sound, Can
  <2>3. CASE ~(t = user.turns /\ turn.pc # "off")
    <3>1. Told(t) \/ (t = user.turns /\ Unread(t) /\ Cut(t))
      BY <2>2, <2>3 DEF PlannerInv, Tales, Tale
    <3>2. Told(t) => Told(t)'
      BY <1>2 DEF Told
    <3>3. Cut(t) => Cut(t)'
      BY <1>2, <1>6 DEF Cut, CutAfterGraph, CutBeforeGraph, Committed
    <3>4. Unread(t)'
      BY <1>4 DEF Unread, Up
    <3> QED BY <1>3, <1>6, <3>1, <3>2, <3>3, <3>4 DEF Tale
  <2>4. CASE t = user.turns /\ turn.pc # "off"
    <3>1. Telling(t) /\ t = turn.id /\ turn.kind = user.kinds[t] /\ Up
      BY <2>2, <2>4 DEF PlannerInv, Shape, Tales, Tale
    <3>2. CASE turn.pc \in {"check", "prepare", "end", "resume", "finish"}
      <4>1. Told(t)
        BY <3>1, <3>2 DEF PlannerInv, Shape, Told, Telling
      <4> QED BY <1>2, <1>3, <4>1 DEF Tale, Told, Can
    <3>3. CASE turn.pc = "seal"
      <4>1. CutAfterGraph(t)
        BY <3>1, <3>3 DEF PlannerInv, Reviews, Telling, CutAfterGraph, OfTurn, Working, Failing, Up
      <4> QED BY <1>2, <1>3, <1>4, <1>6, <2>4, <4>1
                 DEF Tale, Unread, Up, Cut, CutAfterGraph, Committed
    <3>4. CASE turn.pc \in {"announce", "spoil", "abort"} \cup Working
      <4>1. disk[t] \in {"running", "failed"} /\ "graph" \notin rec[t]
        BY <3>1, <3>4 DEF Telling, Begun
      <4>2. user.kinds[t] = "revise" => rec[t] = {}
        BY <3>1, <3>4 DEF Telling, Begun
      <4>3. user.kinds[t] = "review" => run.review
        <5>1. turn.pc = "announce" => rec[t] = {} /\ disk[t] # "none"
          BY <3>1 DEF Telling
        <5>2. user.kinds[t] = "review" => turn.pc # "announce"
          BY <1>2, <1>3, <1>6, <2>2, <5>1 DEF Sound, Misread, Can
        <5> QED BY <2>2, <3>1, <3>4, <5>2 DEF PlannerInv, Reviews, OfTurn, Failing, Sound
      <4>4. user.kinds[t] = "new" =>
               /\ ~run.approved
               /\ run.phase = "none" \/ (run.last = t /\ run.phase = "planning")
        BY <2>2, <3>1, <3>4 DEF PlannerInv, NewRun, OfTurn, Opening, Failing, Sound
      <4>5. CutBeforeGraph(t)'
        BY <1>2, <1>4, <1>6, <4>1, <4>2, <4>3, <4>4 DEF CutBeforeGraph
      <4> QED BY <1>3, <1>4, <1>6, <2>4, <4>5 DEF Tale, Unread, Up, Cut
    <3> QED BY <1>1, Typed, <2>4, <3>2, <3>3, <3>4 DEF Pcs, Working
  <2> QED BY <2>3, <2>4
<1> QED BY <1>7, <1>8, <1>9, <1>10, <1>11, <1>12, <1>13, <1>14, <1>15, <1>16, <1>17, <1>18, <1>19,
           <1>20
           DEF PlannerInv

\* A Run is opened again, with the events it left.
LEMMA ReopenKeeps ==
    ASSUME PlannerInv, Reopen PROVE PlannerInv'
<1>1. TypeInv
  BY DEF PlannerInv
<1>2. /\ boot.pc = "down" /\ ~Up
      /\ UNCHANGED <<flag, cancel, refuse, exec, turn, disk, wrote, stopper>>
      /\ run' = Reopened(run)
  BY DEF Reopen, Up
<1>3. /\ turn = Off /\ turn.pc = "off" /\ turn.kind = "new" /\ ~turn.slot /\ ~turn.resume
      /\ ~turn.denied
      /\ Idle /\ Can("crash")
  <2>1. turn = Off /\ Idle /\ Can("crash")
    BY <1>2 DEF PlannerInv, Shape
  <2> QED BY <2>1 DEF Off
<1>4. /\ boot' \in BootType
      /\ boot'.pc = "scan" /\ boot'.todo = {t \in Turns : disk[t] # "none"}
  BY BoundsAssumption DEF Reopen, BootType
<1>5. /\ run' \in RunType
      /\ run'.stop = run.stop /\ run'.graph = run.graph /\ run'.last = run.last /\ ~run'.review
      /\ run'.status = IF run.review THEN "failed" ELSE run.status
      /\ run'.approved = (run.approved /\ ~(run.review /\ run.pending))
      /\ run.review => /\ run'.paused = (run.paused /\ ~run.pending)
                        /\ run'.phase = IF run.pending THEN "awaiting"
                                        ELSE IF run.stop \/ run.paused THEN "paused"
                                          ELSE "completed"
      /\ ~run.review => IF run.approved /\ run.phase \notin {"completed", "paused"}
                        THEN run'.paused /\ run'.phase = "paused"
                        ELSE run'.paused = run.paused /\ run'.phase = run.phase
  BY <1>1, Typed, <1>2, <1>2, ReopenedRun
<1>6. /\ rec' \in [Turns -> SUBSET Marks]
      /\ \A t \in Turns :
              rec'[t] = IF run.review /\ t = run.last THEN rec[t] \cup {"finished"} ELSE rec[t]
  BY <1>1, Typed, <1>5 DEF Reopen, Marks
<1>7. /\ user' \in UserType
      /\ user'.can = user.can /\ user'.turns = user.turns /\ user'.kinds = user.kinds
      /\ user'.asked = user.asked
      /\ user'.acts = user.acts
      /\ user'.hold = IF run'.paused /\ user.hold = "none" THEN "pause" ELSE user.hold
  BY <1>1, Typed, <1>5, <1>6 DEF Reopen, Hold, UserType
<1>8. TypeInv'
  BY <1>4, <1>5, <1>6, <1>7 DEF PlannerInv, TypeInv, Reopen
<1>9. Shape'
  <2>1. /\ run.last <= user.turns /\ run.graph <= user.turns /\ wrote <= user.turns
        /\ \A t \in Turns : t > user.turns => disk[t] = "none" /\ rec[t] = {}
        /\ stopper = "off" /\ cancel = "none" /\ ~refuse /\ flag = (turn.pc # "off")
    BY <1>2 DEF PlannerInv, Shape
  <2>2. \A t \in Turns : t > user'.turns => disk'[t] = "none" /\ rec'[t] = {}
    BY <1>1, Typed, <1>2, <1>6, <1>7, <2>1
  <2>3. Idle' /\ Can("crash")'
    BY <1>2, <1>3, <1>7 DEF Idle, Can
  <2> QED BY <1>2, <1>3, <1>4, <1>5, <1>7, <2>1, <2>2, <2>3 DEF Shape, Up, Opening
<1>10. NewRun'
  <2>1. run'.phase = "none" => run.phase = "none" /\ run' = run
    <3>1. run'.phase = "none" => run.phase = "none"
      BY <1>5
    <3>2. run.phase = "none" => ~run.approved /\ ~run.review
      BY DEF PlannerInv, NewRun
    <3> QED BY <1>2, <3>1, <3>2 DEF Reopened
  <2> QED BY <1>2, <1>3, <2>1 DEF PlannerInv, NewRun, OfTurn, Opening, Working, Failing
<1>11. Firsts'
  BY <1>2, <1>4, <1>5, <1>6, <1>7 DEF PlannerInv, Firsts, Unread, Up, NewRun
<1>12. Reviews'
  BY <1>2, <1>3, <1>5, <1>6, <1>7 DEF PlannerInv, Reviews, OfTurn, Working, Failing, Idle, Up, Can
<1>13. Leftovers'
  BY <1>1, <1>2, <1>4, <1>5, <1>6, <1>7 DEF PlannerInv, Leftovers, Up, Unread, Working
<1>14. Stops'
  BY <1>2, <1>5, <1>6, <1>7 DEF PlannerInv, Stops, OfTurn, Opening, Working
<1>15. Pauses'
  BY <1>2, <1>3, <1>5, <1>6, <1>7 DEF PlannerInv, Pauses, OfTurn, Working, Failing, Can
<1>16. Drains'
  BY <1>2, <1>3, <1>5, <1>6, <1>7
     DEF PlannerInv, Drains, NoRefusedResume, Draining, Can, Up, Working, Idle
<1>17. Approvals'
  BY <1>2, <1>3, <1>5, <1>6, <1>7 DEF PlannerInv, Approvals, OfTurn, Working, Failing, Can
<1>18. Cancels'
  BY <1>2, <1>5, <1>6, <1>7 DEF PlannerInv, Cancels, Can
<1>19. Writes'
  BY <1>3, <1>5, <1>6, <1>7 DEF PlannerInv, Writes, Can
<1>20. Stores'
  BY <1>5, <1>6, <1>7 DEF PlannerInv, Stores, Committed
<1>21. Tales'
  <2>1. Misread => Misread'
    BY <1>2, <1>6, <1>7 DEF Misread, Can
  <2>2. SUFFICES ASSUME Sound', Sound, NEW t \in Turns PROVE Tale(t)'
    BY <1>7, <2>1 DEF Tales, Sound, Can
  <2>3. Told(t) \/ (t = user.turns /\ Unread(t) /\ Cut(t))
    BY <1>3, <2>2 DEF PlannerInv, Tales, Tale
  <2>4. Told(t) => Told(t)'
    <3>1. run.review /\ t = run.last => rec[t] # {}
      BY DEF PlannerInv, Reviews
    <3> QED BY <1>2, <1>6, <1>7, <3>1 DEF Told, Can, Failures
  <2>5. t = user.turns /\ Cut(t) => Cut(t)' /\ Unread(t)'
    <3>1. disk[t] # "none" => Unread(t)'
      BY <1>4 DEF Unread, Up
    <3>2. CutAfterGraph(t) => CutAfterGraph(t)'
      BY <1>2, <1>5, <1>6 DEF CutAfterGraph, Committed
    <3>3. run.review => run.last = user.turns /\ user.kinds[run.last] = "review"
      BY DEF PlannerInv, Reviews
    <3>4. t = user.turns /\ CutBeforeGraph(t) => CutBeforeGraph(t)'
      <4>1. user.kinds[t] = "new" /\ t = user.turns /\ CutBeforeGraph(t) =>
               ~run.approved /\ ~run'.approved /\ run'.phase = run.phase
        <5>1. user.kinds[t] = "new" /\ t = user.turns => ~run.review
          BY <3>3
        <5>2. CutBeforeGraph(t) /\ user.kinds[t] = "new" => ~run.approved
          BY DEF CutBeforeGraph
        <5> QED BY <1>5, <5>1, <5>2
      <4>2. user.kinds[t] = "review" /\ t = user.turns /\ CutBeforeGraph(t) =>
              "finished" \in rec'[t]
        BY <1>6, <3>3 DEF CutBeforeGraph
      <4>3. user.kinds[t] = "revise" /\ t = user.turns => rec'[t] = rec[t]
        BY <1>6, <3>3
      <4>4. "graph" \notin rec[t] => "graph" \notin rec'[t]
        BY <1>6
      <4> QED BY <1>2, <1>5, <1>7, <4>1, <4>2, <4>3, <4>4 DEF CutBeforeGraph
    <3> QED BY <3>1, <3>2, <3>4 DEF Cut, CutAfterGraph, CutBeforeGraph
  <2> QED BY <1>2, <1>3, <1>7, <2>3, <2>4, <2>5 DEF Tale
<1> QED BY <1>8, <1>9, <1>10, <1>11, <1>12, <1>13, <1>14, <1>15, <1>16, <1>17, <1>18, <1>19, <1>20,
           <1>21
           DEF PlannerInv

\* Recovery reads a summary that says running.
LEMMA ScanSummaryKeeps ==
    ASSUME PlannerInv, NEW t \in Turns, ScanSummary(t) PROVE PlannerInv'
<1>1. TypeInv
  BY DEF PlannerInv
<1>2. /\ boot.pc = "scan" /\ ~Up /\ t \in boot.todo
      /\ UNCHANGED <<flag, cancel, refuse, run, exec, turn, rec, wrote, stopper, user>>
  BY DEF ScanSummary, Up
<1>3. /\ turn.pc = "off" /\ turn.kind = "new" /\ ~run.review /\ Idle /\ Can("crash")
      /\ disk[t] # "none"
  <2>1. turn = Off /\ Idle /\ Can("crash") /\ disk[t] # "none"
    BY <1>2 DEF PlannerInv, Shape
  <2>2. run.review => boot.pc = "down" \/ turn.kind = "review"
    BY DEF PlannerInv, Reviews, OfTurn
  <2> QED BY <1>2, <2>1, <2>2 DEF Off
<1>4. /\ disk' \in [Turns -> Statuses]
      /\ \A u \in Turns : u # t => disk'[u] = disk[u]
      /\ disk'[t] = IF disk[t] # "running" THEN disk[t]
                    ELSE IF Committed(t) THEN "success" ELSE "failed"
  BY <1>1, Typed DEF ScanSummary, Statuses
<1>5. /\ boot' \in BootType
      /\ boot'.todo = boot.todo \ {t}
      /\ IF disk'[t] = "success" THEN boot'.pc = "scan"
         ELSE boot'.pc = "event" /\ boot'.at = t /\ disk'[t] = "failed"
           /\ (boot'.cut => disk[t] = "running")
  <2>1. disk[t] \in {"running", "success", "failed"}
    BY <1>1, Typed, <1>3 DEF Statuses
  <2>2. CASE disk'[t] = "success"
    <3>1. boot' = [boot EXCEPT !.todo = @ \ {t}]
      BY <2>2 DEF ScanSummary
    <3>2. boot' \in BootType
      BY <1>1, Typed, <3>1 DEF BootType
    <3> QED BY <1>2, <2>2, <3>1, <3>2 DEF BootType
  <2>3. CASE disk'[t] # "success"
    <3>1. boot' = [boot EXCEPT !.todo = @ \ {t}, !.pc = "event", !.at = t,
                               !.cut = disk[t] = "running"]
      BY <1>4, <2>3 DEF ScanSummary
    <3>2. boot' \in BootType
      <4>1. t \in 0 .. MaxTurns /\ (disk[t] = "running") \in BOOLEAN
        BY DEF Turns
      <4> QED BY <1>1, Typed, <3>1, <4>1 DEF BootType
    <3>3. disk'[t] = "failed"
      BY <1>4, <2>1, <2>3
    <3> QED BY <3>1, <3>2, <3>3 DEF BootType
  <2> QED BY <2>2, <2>3
<1>6. TypeInv'
  BY <1>4, <1>5 DEF PlannerInv, TypeInv, ScanSummary
<1>7. Shape'
  <2>1. \A u \in Turns : u > user'.turns => disk'[u] = "none" /\ rec'[u] = {}
    BY <1>2, <1>4 DEF PlannerInv, Shape
  <2>2. \A u \in boot'.todo : disk'[u] # "none"
    BY <1>4, <1>5 DEF PlannerInv, Shape, BootType
  <2> QED BY <1>2, <1>5, <2>1, <2>2 DEF PlannerInv, Shape, Up, Idle, Can
<1>8. NewRun'
  BY <1>2, <1>5 DEF PlannerInv, NewRun, OfTurn, Opening, Working, Failing, Can
<1>9. Firsts'
  <2>1. run.phase = "none" => ~Committed(t)
    BY DEF PlannerInv, NewRun, Committed
  <2>2. ASSUME NEW u \in Turns, run'.phase = "none", disk'[u] # "none"
        PROVE  user'.kinds[u] = "new" /\ u = user'.turns /\ disk'[u] # "success" /\ Unread(u)'
    <3>1. disk[u] # "none"
      BY <1>4, <2>2
    <3>2. user.kinds[u] = "new" /\ u = user.turns /\ disk[u] # "success" /\ Unread(u)
      BY <1>2, <1>3, <2>2, <3>1 DEF PlannerInv, Firsts
    <3>3. disk'[u] # "success"
      BY <1>2, <1>4, <2>1, <2>2, <3>2
    <3> QED BY <1>2, <1>5, <3>2, <3>3 DEF Unread, Up
  <2>3. \A u, v \in Turns : u < v /\ v <= user'.turns /\ user'.kinds[v] = "new" => disk'[u] = "none"
    BY <1>2, <1>4 DEF PlannerInv, Firsts
  <2> QED BY <2>2, <2>3 DEF Firsts
<1>10. Reviews'
  BY <1>2, <1>5 DEF PlannerInv, Reviews, OfTurn, Working, Failing, Idle, Up, Can
<1>11. Leftovers'
  BY <1>2, <1>4, <1>5 DEF PlannerInv, Leftovers, Up, Unread, Working
<1>12. Stops'
  BY <1>2, <1>5 DEF PlannerInv, Stops, OfTurn, Opening, Working
<1>13. Pauses'
  BY <1>2, <1>5 DEF PlannerInv, Pauses, OfTurn, Working, Failing, Can
<1>14. Drains'
  BY <1>2, <1>5 DEF PlannerInv, Drains, NoRefusedResume, Draining, Can, Up, Working
<1>15. Approvals'
  BY <1>2, <1>5 DEF PlannerInv, Approvals, OfTurn, Working, Failing, Can
<1>16. Cancels'
  BY <1>2, <1>5 DEF PlannerInv, Cancels, Can
<1>17. Writes'
  BY <1>2, <1>5 DEF PlannerInv, Writes, Can
<1>18. Stores'
  BY <1>2, <1>5 DEF PlannerInv, Stores, Committed
<1>19. Tales'
  <2>1. Misread => Misread'
    BY <1>2, <1>4 DEF Misread, Can
  <2>2. SUFFICES ASSUME Sound', Sound, NEW u \in Turns PROVE Tale(u)'
    BY <1>2, <2>1 DEF Tales, Sound, Can
  <2>3. Told(u) \/ (u = user.turns /\ Unread(u) /\ Cut(u))
    BY <1>3, <2>2 DEF PlannerInv, Tales, Tale
  <2>4. CASE u # t
    <3>1. Unread(u) => Unread(u)'
      BY <1>2, <1>5, <2>4 DEF Unread, Up
    <3>2. (Told(u) => Told(u)') /\ (Cut(u) => Cut(u)')
      BY <1>2, <1>4, <2>4 DEF Told, Can, Cut, CutAfterGraph, CutBeforeGraph, Committed
    <3> QED BY <1>2, <1>3, <2>3, <3>1, <3>2 DEF Tale
  <2>5. CASE u = t
    <3>1. Told(t) => Told(t)'
      BY <1>2, <1>3, <1>4 DEF Told
    <3>2. CutAfterGraph(t) => Told(t)'
      BY <1>2, <1>4 DEF Told, CutAfterGraph
    <3>3. CutBeforeGraph(t) => CutBeforeGraph(t)' /\ Unread(t)'
      <4>1. "graph" \notin rec[t] => ~Committed(t)
        BY DEF PlannerInv, Stores
      <4>2. CutBeforeGraph(t) => disk'[t] = "failed"
        BY <1>4, <4>1 DEF CutBeforeGraph
      <4> QED BY <1>2, <1>5, <4>2 DEF CutBeforeGraph, Unread, Up
    <3> QED BY <1>2, <1>3, <2>3, <2>5, <3>1, <3>2, <3>3 DEF Tale, Cut
  <2> QED BY <2>4, <2>5
<1> QED BY <1>6, <1>7, <1>8, <1>9, <1>10, <1>11, <1>12, <1>13, <1>14, <1>15, <1>16, <1>17, <1>18,
           <1>19
           DEF PlannerInv

\* Recovery records the failure of a first turn.
LEMMA RecoverNewKeeps ==
    ASSUME PlannerInv, RecoverNew PROVE PlannerInv'
<1>1. TypeInv
  BY DEF PlannerInv
<1>2. /\ boot.pc = "event" /\ ~Up /\ user.kinds[boot.at] = "new"
  BY DEF RecoverNew, Up
<1>3. /\ turn.pc = "off" /\ turn.kind = "new" /\ ~turn.resume /\ ~turn.slot /\ ~run.review /\ Idle
      /\ Can("crash")
      /\ boot.at \in Turns /\ disk[boot.at] = "failed" /\ boot.at <= user.turns
  <2>1. turn = Off /\ Idle /\ Can("crash") /\ boot.at \in Turns /\ disk[boot.at] = "failed"
    BY <1>2 DEF PlannerInv, Shape
  <2>2. run.review => boot.pc = "down" \/ turn.kind = "review"
    BY DEF PlannerInv, Reviews, OfTurn
  <2>3. ~(boot.at > user.turns)
    BY <2>1 DEF PlannerInv, Shape
  <2> QED BY <1>1, Typed, <1>2, <2>1, <2>2, <2>3 DEF Off
<1>4. /\ boot' \in BootType
      /\ boot'.pc = "scan" /\ boot'.todo = boot.todo
  <2>1. boot' = [boot EXCEPT !.pc = "scan", !.at = 0, !.cut = FALSE]
    BY DEF RecoverNew, Scanned
  <2>2. 0 \in 0 .. MaxTurns
    BY BoundsAssumption
  <2>3. boot' \in BootType
    BY <1>1, Typed, <2>1, <2>2 DEF BootType
  <2> QED BY <2>1, <2>3
<1>5. /\ UNCHANGED <<flag, cancel, refuse, exec, turn, disk, wrote, stopper, user>>
      /\ \/ UNCHANGED <<run, rec>> /\ run.phase # "none"
            /\ ~(run.last = boot.at /\ run.phase \in {"planning", "planning_failed"})
         \/ /\ run' = [run EXCEPT !.last = boot.at, !.status = "failed",
                 !.phase = "planning_failed"]
            /\ rec' = [rec EXCEPT ![boot.at] = @ \cup {"failed"}]
            /\ \/ run.phase = "none"
               \/ (run.last = boot.at /\ run.phase \in {"planning", "planning_failed"})
  BY DEF RecoverNew
<1>6. /\ run' \in RunType
      /\ run'.serial = run.serial /\ run'.approved = run.approved /\ run'.paused = run.paused
      /\ run'.stop = run.stop /\ run'.graph = run.graph /\ run'.pending = run.pending
      /\ run'.review = run.review
      /\ \/ UNCHANGED <<run, rec>> /\ run'.phase # "none"
         \/ run'.phase = "planning_failed" /\ run'.last = boot.at /\ run'.status = "failed"
  BY <1>1, Typed, <1>2, <1>5 DEF RunType, Phases, Statuses
<1>7. /\ rec' \in [Turns -> SUBSET Marks]
      /\ \A t \in Turns : t = boot.at => rec' = rec \/ rec'[t] = rec[t] \cup {"failed"}
      /\ \A t \in Turns : t # boot.at => rec'[t] = rec[t]
  BY <1>1, Typed, <1>5, <1>6 DEF Marks
<1>8. TypeInv'
  BY <1>4, <1>5, <1>6, <1>7 DEF PlannerInv, TypeInv, RecoverNew
<1>9. Shape'
  <2>1. \A t \in Turns : t > user'.turns => disk'[t] = "none" /\ rec'[t] = {}
    BY <1>3, <1>5, <1>7 DEF PlannerInv, Shape
  <2>2. run'.last <= user'.turns /\ run'.graph <= user'.turns /\ wrote' <= user'.turns
    BY <1>3, <1>5, <1>6 DEF PlannerInv, Shape
  <2> QED BY <1>2, <1>3, <1>4, <1>5, <2>1, <2>2 DEF PlannerInv, Shape, Up, Idle, Can
<1>10. NewRun'
  BY <1>3, <1>5, <1>6, <1>7 DEF PlannerInv, NewRun, OfTurn, Opening, Working, Failing, Can
<1>11. Firsts'
  <2>1. run'.phase # "none"
    BY <1>6
  <2> QED BY <1>5, <2>1 DEF PlannerInv, Firsts
<1>12. Reviews'
  BY <1>3, <1>5, <1>6, <1>7 DEF PlannerInv, Reviews, OfTurn, Working, Failing, Idle, Up, Can
<1>13. Leftovers'
  BY <1>2, <1>3, <1>4, <1>5, <1>6, <1>7 DEF PlannerInv, Leftovers, Up, Unread, Working
<1>14. Stops'
  BY <1>5, <1>6, <1>7 DEF PlannerInv, Stops, OfTurn, Opening, Working
<1>15. Pauses'
  BY <1>5, <1>6, <1>7 DEF PlannerInv, Pauses, OfTurn, Working, Failing, Can
<1>16. Drains'
  BY <1>2, <1>5, <1>6, <1>7 DEF PlannerInv, Drains, NoRefusedResume, Draining, Can, Up, Working
<1>17. Approvals'
  BY <1>5, <1>6, <1>7 DEF PlannerInv, Approvals, OfTurn, Working, Failing, Can
<1>18. Cancels'
  BY <1>5, <1>6, <1>7 DEF PlannerInv, Cancels, Can
<1>19. Writes'
  BY <1>5, <1>6, <1>7 DEF PlannerInv, Writes, Can
<1>20. Stores'
  BY <1>5, <1>6, <1>7 DEF PlannerInv, Stores, Committed
<1>21. Tales'
  <2>1. Misread => Misread'
    BY <1>5, <1>7 DEF Misread, Can
  <2>2. SUFFICES ASSUME Sound', Sound, NEW t \in Turns PROVE Tale(t)'
    BY <1>5, <2>1 DEF Tales, Sound, Can
  <2>3. Told(t) \/ (t = user.turns /\ Unread(t) /\ Cut(t))
    BY <1>3, <2>2 DEF PlannerInv, Tales, Tale
  <2>4. Told(t) => Told(t)'
    BY <1>3, <1>5, <1>7 DEF Told, Can, Failures
  <2>5. CASE t = boot.at
    <3>1. CutBeforeGraph(t) => rec'[t] = rec[t] \cup {"failed"}
      BY <1>2, <1>5, <1>7, <2>5 DEF CutBeforeGraph
    <3>2. Cut(t) => Told(t)'
      BY <1>3, <1>5, <2>5, <3>1 DEF Cut, CutAfterGraph, CutBeforeGraph, Told, Failures
    <3> QED BY <1>3, <1>5, <2>3, <2>4, <3>2 DEF Tale
  <2>6. CASE t # boot.at
    <3>1. Unread(t) => Unread(t)'
      BY <1>2, <1>4, <2>6 DEF Unread, Up
    <3>2. t = user.turns => user.kinds[t] # "new"
      <4>1. t = user.turns => boot.at < t
        BY <1>3, <2>6 DEF Turns
      <4> QED BY Typed, <1>3, <4>1 DEF PlannerInv, Firsts
    <3>3. t = user.turns /\ Cut(t) => Cut(t)'
      <4>1. run.phase = "none" => boot.at = user.turns
        BY <1>3 DEF PlannerInv, Firsts
      <4>2. t = user.turns /\ CutAfterGraph(t) => run' = run
        BY <1>5, <2>6, <4>1 DEF CutAfterGraph, Committed
      <4>3. t = user.turns /\ CutAfterGraph(t) => CutAfterGraph(t)'
        BY <1>5, <1>7, <4>2 DEF CutAfterGraph, Committed
      <4>4. t = user.turns /\ CutBeforeGraph(t) => CutBeforeGraph(t)'
        BY <1>3, <1>5, <1>7, <2>6, <3>2 DEF CutBeforeGraph
      <4> QED BY <4>3, <4>4 DEF Cut
    <3> QED BY <1>3, <1>5, <2>3, <2>4, <3>1, <3>3 DEF Tale
  <2> QED BY <2>5, <2>6
<1> QED BY <1>8, <1>9, <1>10, <1>11, <1>12, <1>13, <1>14, <1>15, <1>16, <1>17, <1>18, <1>19, <1>20,
           <1>21
           DEF PlannerInv

\* Recovery records that of a revision or a review.
LEMMA RecoverRevisionKeeps ==
    ASSUME PlannerInv, RecoverRevision PROVE PlannerInv'
<1>1. TypeInv
  BY DEF PlannerInv
<1>2. /\ boot.pc = "event" /\ ~Up /\ user.kinds[boot.at] # "new"
  BY DEF RecoverRevision, Up
<1>3. /\ turn.pc = "off" /\ turn.kind = "new" /\ ~turn.resume /\ ~turn.slot /\ ~run.review /\ Idle
      /\ Can("crash")
      /\ boot.at \in Turns /\ disk[boot.at] = "failed" /\ boot.at <= user.turns
  <2>1. turn = Off /\ Idle /\ Can("crash") /\ boot.at \in Turns /\ disk[boot.at] = "failed"
    BY <1>2 DEF PlannerInv, Shape
  <2>2. run.review => boot.pc = "down" \/ turn.kind = "review"
    BY DEF PlannerInv, Reviews, OfTurn
  <2>3. ~(boot.at > user.turns)
    BY <2>1 DEF PlannerInv, Shape
  <2> QED BY <1>1, Typed, <1>2, <2>1, <2>2, <2>3 DEF Off
<1>4. /\ boot' \in BootType
      /\ boot'.pc = "scan" /\ boot'.todo = boot.todo
  <2>1. boot' = [boot EXCEPT !.pc = "scan", !.at = 0, !.cut = FALSE]
    BY DEF RecoverRevision, Scanned
  <2>2. 0 \in 0 .. MaxTurns
    BY BoundsAssumption
  <2>3. boot' \in BootType
    BY <1>1, Typed, <2>1, <2>2 DEF BootType
  <2> QED BY <2>1, <2>3
<1>5. /\ UNCHANGED <<flag, cancel, refuse, exec, turn, disk, stopper>>
      /\ \/ UNCHANGED <<run, rec, wrote, user>> /\ rec[boot.at] # {}
         \/ /\ run' = [run EXCEPT !.last = boot.at, !.status = "failed"]
            /\ rec' = [rec EXCEPT ![boot.at] = @ \cup {"aborted"}] /\ rec[boot.at] = {}
            /\ wrote' \in {wrote, 0} /\ user' = user
         \/ /\ run' = [run EXCEPT !.last = boot.at, !.status = "failed", !.paused = TRUE,
                 !.phase = "paused"]
            /\ rec' = [rec EXCEPT ![boot.at] = @ \cup {"aborted"}] /\ rec[boot.at] = {}
            /\ boot.cut /\ wrote = boot.at /\ wrote' = 0 /\ user' = Hold
  BY DEF RecoverRevision
<1>6. /\ run' \in RunType
      /\ run'.serial = run.serial /\ run'.approved = run.approved /\ run'.stop = run.stop
      /\ run'.graph = run.graph /\ run'.pending = run.pending /\ run'.review = run.review
      /\ \/ UNCHANGED <<run, rec, wrote, user>>
         \/ /\ run'.last = boot.at /\ run'.status = "failed" /\ rec[boot.at] = {}
            /\ run'.paused = run.paused /\ run'.phase = run.phase /\ user' = user
         \/ /\ run'.last = boot.at /\ run'.status = "failed" /\ rec[boot.at] = {}
            /\ run'.paused /\ run'.phase = "paused"
            /\ boot.cut /\ wrote = boot.at /\ user' = Hold
  BY <1>1, Typed, <1>2, <1>3, <1>4, <1>5 DEF RunType, Phases, Statuses
<1>7. /\ rec' \in [Turns -> SUBSET Marks]
      /\ rec' = rec \/ \A t \in Turns : t = boot.at => rec'[t] = rec[t] \cup {"aborted"}
      /\ \A t \in Turns : t # boot.at => rec'[t] = rec[t]
      /\ rec' = rec => rec[boot.at] # {}
  BY <1>1, Typed, <1>2, <1>3, <1>4, <1>5, <1>6 DEF Marks
<1>8. /\ user' \in UserType
      /\ user'.can = user.can /\ user'.turns = user.turns /\ user'.kinds = user.kinds
      /\ user'.asked = user.asked
      /\ user'.acts = user.acts
      /\ user'.hold = user.hold \/ (user.hold = "none" /\ user'.hold = "pause" /\ run'.paused)
      /\ user'.hold = "none" => user.hold = "none" /\ run'.paused = run.paused
      /\ wrote' \in 0 .. MaxTurns /\ (wrote' = wrote \/ wrote' = 0)
  BY <1>1, Typed, <1>5, <1>6, <1>7 DEF Hold, UserType
<1>9. /\ run'.paused => run.paused \/ run.approved
  <2>1. boot.cut /\ wrote = boot.at => user.kinds[boot.at] = "revise" /\ wrote # 0
    BY <1>3 DEF PlannerInv, Leftovers, Turns
  <2>2. boot.cut /\ wrote = boot.at => run.approved
    BY <1>2, <2>1 DEF PlannerInv, Leftovers
  <2> QED BY <1>6, <2>2
<1>10. TypeInv'
  BY <1>4, <1>5, <1>6, <1>7, <1>8, <1>9 DEF PlannerInv, TypeInv, RecoverRevision
<1>11. Shape'
  BY Typed, <1>2, <1>3, <1>4, <1>5, <1>6, <1>7, <1>8, <1>9
     DEF PlannerInv, Shape, Up, Off, Idle, Can, Opening, Turns
<1>12. NewRun'
  BY <1>2, <1>3, <1>5, <1>6, <1>7, <1>8, <1>9
     DEF PlannerInv, NewRun, OfTurn, Opening, Working, Failing, Can, Firsts
<1>13. Firsts'
  BY <1>2, <1>4, <1>5, <1>6, <1>7, <1>8, <1>9 DEF PlannerInv, Firsts, Unread, Up
<1>14. Reviews'
  BY <1>3, <1>5, <1>6, <1>7, <1>8, <1>9
     DEF PlannerInv, Reviews, OfTurn, Working, Failing, Idle, Up, Can
<1>15. Leftovers'
  BY <1>2, <1>3, <1>4, <1>5, <1>6, <1>7, <1>8, <1>9 DEF PlannerInv, Leftovers, Up, Unread, Working
<1>16. Stops'
  BY <1>5, <1>6, <1>7, <1>8, <1>9 DEF PlannerInv, Stops, OfTurn, Opening, Working
<1>17. Pauses'
  BY <1>3, <1>5, <1>6, <1>7, <1>8, <1>9 DEF PlannerInv, Pauses, OfTurn, Working, Failing, Can
<1>18. Drains'
  BY <1>2, <1>5, <1>6, <1>7, <1>8, <1>9
     DEF PlannerInv, Drains, NoRefusedResume, Draining, Can, Up, Working, Idle
<1>19. Approvals'
  BY <1>5, <1>6, <1>7, <1>8, <1>9 DEF PlannerInv, Approvals, OfTurn, Working, Failing, Can
<1>20. Cancels'
  BY <1>5, <1>6, <1>7, <1>8, <1>9 DEF PlannerInv, Cancels, Can
<1>21. Writes'
  BY <1>5, <1>6, <1>7, <1>8, <1>9 DEF PlannerInv, Writes, Can
<1>22. Stores'
  BY <1>5, <1>6, <1>7, <1>8, <1>9 DEF PlannerInv, Stores, Committed
<1>23. Tales'
  <2>1. Misread => Misread'
    BY <1>5, <1>7, <1>8 DEF Misread, Can
  <2>2. SUFFICES ASSUME Sound', Sound, NEW t \in Turns PROVE Tale(t)'
    BY <1>8, <2>1 DEF Tales, Sound, Can
  <2>3. Told(t) \/ (t = user.turns /\ Unread(t) /\ Cut(t))
    BY <1>3, <2>2 DEF PlannerInv, Tales, Tale
  <2>4. Told(t) => Told(t)'
    BY <1>3, <1>5, <1>7, <1>8 DEF Told, Can, Failures
  <2>5. CASE t = boot.at
    <3>1. CutBeforeGraph(t) => Told(t)'
      <4>1. user.kinds[t] \in {"revise", "review"}
        BY <1>1, Typed, <1>2, <2>5 DEF UserType, Kinds
      <4>2. CutBeforeGraph(t) => rec'[t] \cap Failures # {}
        BY <1>2, <1>7, <2>5, <4>1 DEF CutBeforeGraph, Failures
      <4> QED BY <1>3, <1>5, <1>7, <2>5, <4>2 DEF CutBeforeGraph, Told
    <3>2. ~CutAfterGraph(t)
      BY <1>3, <2>5 DEF CutAfterGraph
    <3> QED BY <1>3, <1>5, <2>3, <2>4, <3>1, <3>2 DEF Tale, Cut
  <2>6. CASE t # boot.at
    <3>1. Unread(t) => Unread(t)'
      BY <1>2, <1>4, <2>6 DEF Unread, Up
    <3>2. t = user.turns => rec[boot.at] # {}
      <4>1. t = user.turns => Told(boot.at)
        BY <1>3, <2>2, <2>6 DEF PlannerInv, Tales, Tale
      <4> QED BY <1>3, <4>1 DEF Told
    <3>3. t = user.turns => run' = run
      BY <1>6, <3>2
    <3>4. t = user.turns /\ Cut(t) => Cut(t)'
      BY <1>3, <1>5, <1>7, <1>8, <2>6, <3>3 DEF Cut, CutAfterGraph, CutBeforeGraph, Committed
    <3> QED BY <1>3, <1>5, <1>8, <2>3, <2>4, <3>1, <3>4 DEF Tale
  <2> QED BY <2>5, <2>6
<1> QED BY <1>10, <1>11, <1>12, <1>13, <1>14, <1>15, <1>16, <1>17, <1>18, <1>19, <1>20, <1>21,
           <1>22, <1>23
           DEF PlannerInv

\* Every summary has been looked at.
LEMMA RecoveredKeeps ==
    ASSUME PlannerInv, Recovered PROVE PlannerInv'
<1>1. TypeInv
  BY DEF PlannerInv
<1>2. /\ boot.pc = "scan" /\ boot.todo = {} /\ ~Up
      /\ UNCHANGED <<flag, cancel, refuse, run, exec, turn, disk, rec, wrote, stopper, user>>
  BY DEF Recovered, Up
<1>3. /\ boot' \in BootType
      /\ boot'.pc = "up" /\ boot'.todo = boot.todo /\ boot'.at = boot.at
  BY <1>1, Typed DEF Recovered, BootType
<1>4. TypeInv'
  BY <1>3 DEF PlannerInv, TypeInv, Recovered
<1>5. Shape'
  BY <1>2, <1>3 DEF PlannerInv, Shape, Up, Off, Idle, Can, Opening, Turns
<1>6. NewRun'
  BY <1>2 DEF PlannerInv, NewRun, OfTurn, Opening, Working, Failing, Can
<1>7. Firsts'
  BY <1>2 DEF PlannerInv, Firsts, Unread, Up
<1>8. Reviews'
  BY <1>2 DEF PlannerInv, Reviews, OfTurn, Working, Failing, Idle, Up, Can
<1>9. Leftovers'
  BY <1>2, <1>3 DEF PlannerInv, Leftovers, Up, Unread, Working
<1>10. Stops'
  BY <1>2 DEF PlannerInv, Stops, OfTurn, Opening, Working
<1>11. Pauses'
  BY <1>2 DEF PlannerInv, Pauses, OfTurn, Working, Failing, Can
<1>12. Drains'
  BY <1>2 DEF PlannerInv, Drains, NoRefusedResume, Draining, Can, Up, Working
<1>13. Approvals'
  BY <1>2 DEF PlannerInv, Approvals, OfTurn, Working, Failing, Can
<1>14. Cancels'
  BY <1>2 DEF PlannerInv, Cancels, Can
<1>15. Writes'
  BY <1>2 DEF PlannerInv, Writes, Can
<1>16. Stores'
  BY <1>2 DEF PlannerInv, Stores, Committed
<1>17. Tales'
  BY <1>2
     DEF PlannerInv, Tales, Sound, Misread, Can, Tale, Telling, Told, Begun, Working, Committed,
         Failures, Up, Unread, Cut, CutAfterGraph, CutBeforeGraph
<1> QED BY <1>4, <1>5, <1>6, <1>7, <1>8, <1>9, <1>10, <1>11, <1>12, <1>13, <1>14, <1>15, <1>16,
           <1>17
           DEF PlannerInv

----------------------------------------------------------------------------

\* The invariant holds of a Run that has no event.
LEMMA PlannerInvInit == PlannerInit => PlannerInv
<1> SUFFICES ASSUME PlannerInit PROVE PlannerInv
  OBVIOUS
<1>1. PICK s \in Scenarios :
         user = [acts |-> s.acts, can |-> s.can, turns |-> 0,
                 kinds |-> [t \in Turns |-> "new"], asked |-> {}, hold |-> "none"]
  BY DEF PlannerInit
<1>2. s.acts \in Nat /\ s.can \in SUBSET Possible /\ MaxTurns \in Nat /\ 0 \in 0 .. MaxTurns
  BY BoundsAssumption
<1>3. /\ flag = FALSE /\ cancel = "none" /\ refuse = FALSE /\ turn = Off /\ stopper = "off"
      /\ run = [phase |-> "none", serial |-> FALSE, approved |-> FALSE, paused |-> FALSE,
                stop |-> FALSE, graph |-> 0, pending |-> FALSE, review |-> FALSE,
                last |-> 0, status |-> "none"]
      /\ exec = [e \in Execs |-> "idle"]
      /\ disk = [t \in Turns |-> "none"] /\ rec = [t \in Turns |-> {}] /\ wrote = 0
      /\ boot = [pc |-> "up", todo |-> {}, at |-> 0, cut |-> FALSE]
  BY DEF PlannerInit
<1>4. /\ turn.pc = "off" /\ turn.id = 0 /\ turn.kind = "new"
      /\ ~turn.resume /\ ~turn.slot /\ ~turn.denied
  BY <1>3 DEF Off
<1>5. user \in UserType /\ user.turns = 0 /\ user.hold = "none"
  BY <1>1, <1>2 DEF UserType, Kinds
<1>6. run \in RunType /\ turn \in TurnType /\ boot \in BootType
  BY <1>2, <1>3 DEF RunType, Statuses, Phases, TurnType, Pcs, Kinds, Off, BootType
<1>7. TypeInv
  BY <1>2, <1>3, <1>5, <1>6 DEF TypeInv, ExecType, Statuses, Marks
<1>8. Idle /\ Up
  BY <1>3 DEF Idle, Up
<1>9. \A t \in Turns : t # 0 /\ disk[t] = "none" /\ rec[t] = {}
  BY <1>3 DEF Turns
<1>10. Shape
  <2>1. run.last = 0 /\ run.graph = 0 /\ boot.pc = "up" /\ boot.todo = {}
    BY <1>3
  <2>2. \A t \in boot.todo : disk[t] # "none"
    BY <2>1
  <2>3. \A t \in Turns : t > user.turns => disk[t] = "none" /\ rec[t] = {}
    BY <1>9
  <2>4. run.last <= user.turns /\ run.graph <= user.turns /\ wrote <= user.turns
    BY <1>3, <1>5
  <2>5. flag = (turn.pc # "off") /\ (turn.pc = "off" => turn = Off)
    BY <1>3, <1>4
  <2>6. ~(turn.pc \in {"check", "prepare"}) /\ turn.pc # "drain" /\ turn.pc # "resume"
    BY <1>4
  <2> QED BY <1>4, <1>8, <2>1, <2>2, <2>3, <2>4, <2>5, <2>6 DEF Shape
<1>11. NewRun /\ Firsts /\ Reviews /\ Leftovers
  BY <1>3, <1>4, <1>5, <1>8, <1>9
     DEF NewRun, Firsts, Reviews, Leftovers, OfTurn, Opening, Working, Failing, Up
<1>12. Stops /\ Pauses /\ Drains /\ Approvals /\ Cancels /\ Writes
  BY <1>3, <1>4, <1>5, <1>8
     DEF Stops, Pauses, Drains, Approvals, Cancels, Writes, OfTurn, Opening, Working, Failing, Idle
<1>13. Stores /\ Tales
  BY <1>3, <1>4, <1>9 DEF Stores, Tales, Tale, Told, Committed
<1> QED BY <1>7, <1>10, <1>11, <1>12, <1>13 DEF PlannerInv

\* A step that changes nothing.
LEMMA UnchangedKeeps ==
    ASSUME PlannerInv, UNCHANGED plannerVars PROVE PlannerInv'
<1> USE DEF PlannerInv, plannerVars
<1>1. TypeInv'
  BY DEF TypeInv
<1>2. Shape' /\ NewRun' /\ Firsts' /\ Reviews'
  BY DEF Shape, NewRun, Firsts, Reviews, OfTurn, Idle, Can, Up, Unread
<1>3. Leftovers' /\ Stops' /\ Pauses'
  BY DEF Leftovers, Stops, Pauses, OfTurn, Can, Up, Unread
<1>4. Drains' /\ Approvals' /\ Cancels'
  BY DEF Drains, NoRefusedResume, Approvals, Cancels, OfTurn, Can, Up
<1>5. Writes' /\ Stores'
  BY DEF Writes, Stores, Committed, Can
<1>6. Tales'
  BY DEF Tales, Sound, Misread, Can, Tale, Telling, Told, Begun, Committed, Up, Unread, Cut,
         CutAfterGraph, CutBeforeGraph
<1> QED BY <1>1, <1>2, <1>3, <1>4, <1>5, <1>6

\* Every step keeps the invariant.
LEMMA PlannerInvNext == PlannerInv /\ [PlannerNext]_plannerVars => PlannerInv'
<1> SUFFICES ASSUME PlannerInv, [PlannerNext]_plannerVars PROVE PlannerInv'
  OBVIOUS
<1>1. CASE \E k \in Kinds : Begin(k)
  BY <1>1, BeginKeeps
<1>2. CASE Check \/ Prepare \/ Announce \/ Refused \/ Launch \/ Drain
  BY <1>2, CheckKeeps, PrepareKeeps, AnnounceKeeps, RefusedKeeps, LaunchKeeps, DrainKeeps
<1>3. CASE \E s \in BOOLEAN : Route(s) \/ Select(s) \/ EngineEnds(s) \/ ApprovalFails(s)
  BY <1>3, RouteKeeps, SelectKeeps, EngineEndsKeeps, ApprovalFailsKeeps
<1>4. CASE Write \/ CommitDenied \/ CommitFails \/ Seal \/ Spoil
  BY <1>4, WriteKeeps, CommitDeniedKeeps, CommitFailsKeeps, SealKeeps, SpoilKeeps
<1>5. CASE \E c, a \in BOOLEAN : Commit(c, a)
  BY <1>5, CommitKeeps
<1>6. CASE AbortNew \/ AbortRevision \/ AbortUncaptured \/ ReadEnd \/ Undo \/ Finish
  BY <1>6, AbortNewKeeps, AbortRevisionKeeps, AbortUncapturedKeeps, ReadEndKeeps, UndoKeeps,
     FinishKeeps
<1>7. CASE Pause \/ Resume \/ Approve \/ StopPlanner \/ StopRun \/ StopRunApply \/ Complete
  BY <1>7, PauseKeeps, ResumeKeeps, ApproveKeeps, StopPlannerKeeps, StopRunKeeps, StopRunApplyKeeps,
     CompleteKeeps
<1>8. CASE \E e \in Execs : StopNode(e) \/ Dispatch(e) \/ ExecEnds(e)
  BY <1>8, StopNodeKeeps, DispatchKeeps, ExecEndsKeeps
<1>9. CASE Crash \/ Reopen \/ RecoverNew \/ RecoverRevision \/ Recovered
  BY <1>9, CrashKeeps, ReopenKeeps, RecoverNewKeeps, RecoverRevisionKeeps, RecoveredKeeps
<1>10. CASE \E t \in Turns : ScanSummary(t)
  BY <1>10, ScanSummaryKeeps
<1>11. CASE UNCHANGED plannerVars
  BY <1>11, UnchangedKeeps DEF plannerVars
<1> QED
  BY <1>1, <1>2, <1>3, <1>4, <1>5, <1>6, <1>7, <1>8, <1>9, <1>10, <1>11 DEF PlannerNext, Step

\* What the invariant says of a Run without a turn.
LEMMA PlannerInvLeaves == PlannerInv => TurnLeavesRun
<1> SUFFICES ASSUME PlannerInv PROVE TurnLeavesRun
  OBVIOUS
<1>1. StopHeld
  BY DEF PlannerInv, Stops, StopHeld, Schedulable
<1>2. PauseHeld
  BY DEF PlannerInv, Pauses, PauseHeld, Schedulable
<1>3. DrainUndone
  BY DEF PlannerInv, Shape, Drains, NoRefusedResume, Draining, DrainUndone, Up
<1>4. RunsApproved
  BY DEF PlannerInv, Approvals, RunsApproved
<1> QED BY <1>1, <1>2, <1>3, <1>4 DEF TurnLeavesRun

\* What it says of a turn that is over.
LEMMA PlannerInvRecords == PlannerInv => TurnRecords
<1> SUFFICES ASSUME PlannerInv PROVE TurnRecords
  OBVIOUS
<1>1. TypeInv /\ flag = (turn.pc # "off")
  BY DEF PlannerInv, Shape
<1>2. PlannerTypeOK
  <2>1. boot.pc \in {"up", "down", "scan", "event"}
    BY <1>1, Typed DEF BootType
  <2> QED BY <1>1, <2>1, Typed DEF TypeInv, PlannerTypeOK, ExecType, Statuses, Marks
<1>3. CancelsOnlyAsked
  BY DEF PlannerInv, Cancels, CancelsOnlyAsked
<1>4. FailedKeepsGraph
  <2>1. SUFFICES ASSUME Sound, NEW t \in Turns, disk[t] = "failed" PROVE run.graph # t
    BY DEF FailedKeepsGraph, Sound
  <2>2. run.graph = t => "graph" \in rec[t]
    BY DEF PlannerInv, Stores
  <2>3. CASE t = user.turns /\ turn.pc # "off"
    <3>1. Telling(t) /\ t = turn.id /\ turn.pc \in Pcs
      BY <2>1, <2>3, Typed DEF PlannerInv, Shape, Tales, Tale
    <3>2. turn.pc \in {"abort", "end", "resume", "finish"}
      BY <2>1, <2>3, <3>1 DEF PlannerInv, Shape, Telling, Pcs, Working
    <3> QED BY <2>1, <2>2, <3>1, <3>2 DEF Telling, Begun, Told
  <2>4. CASE ~(t = user.turns /\ turn.pc # "off")
    <3>1. Told(t) \/ Cut(t)
      BY <2>1, <2>4 DEF PlannerInv, Tales, Tale
    <3> QED BY <2>1, <2>2, <3>1 DEF Told, Cut, CutAfterGraph, CutBeforeGraph
  <2> QED BY <2>3, <2>4
<1>5. Captured
  <2>1. turn.slot => turn.pc # "off"
    BY DEF PlannerInv, Shape, Off
  <2> QED BY <1>1 DEF PlannerInv, Writes, Captured
<1>6. SummariesAgree
  <2>1. SUFFICES ASSUME Settled, NEW t \in Turns
                 PROVE  /\ disk[t] = "success" => "graph" \in rec[t]
                        /\ disk[t] = "failed" => rec[t] \cap {"failed", "aborted", "finished"} # {}
                        /\ disk[t] = "running" => user.kinds[t] = "review" /\ rec[t] = {}
                        /\ "graph" \in rec[t] => disk[t] = "success"
    BY DEF SummariesAgree
  <2>2. Told(t)
    BY <1>1, <2>1 DEF PlannerInv, Tales, Tale, Sound, Settled, Unread
  <2> QED BY <2>2 DEF Told, Failures
<1> QED BY <1>2, <1>3, <1>4, <1>5, <1>6 DEF TurnRecords

\* However a turn ends (committed, denied, failed, cancelled, cut off by a crash), and whatever
\* the user presses meanwhile, the Run is left as it must be: paused or stopped if the user said
\* so, not paused for nobody, without a review, and with no bytes of its turn uncaptured, but
\* for the races TurnLeavesRun names (server.rs,
\* plan_goal_internal_with_started and drain_for_revision).
THEOREM PlannerLeavesRun == PlannerSpec => []TurnLeavesRun
<1>1. PlannerSpec => []PlannerInv
  BY PlannerInvInit, PlannerInvNext, PTL DEF PlannerSpec
<1> QED BY <1>1, PlannerInvLeaves, PTL

\* A turn that is over is recorded truthfully: its summary says success exactly when its graph
\* is in the store, and a failure is in both, also after a crash at any step of it (server.rs,
\* recover_plannings).
THEOREM PlannerRecords == PlannerSpec => []TurnRecords
<1>1. PlannerSpec => []PlannerInv
  BY PlannerInvInit, PlannerInvNext, PTL DEF PlannerSpec
<1> QED BY <1>1, PlannerInvRecords, PTL

(***************************************************************************)
(* Module Revision.  The invariant: a node is completed only by a result   *)
(* of its present task and inputs, all of which are completed; a running   *)
(* attempt is its node's only one and has completed inputs; nothing runs   *)
(* before an approval or beside a review.                                  *)
(***************************************************************************)

(* What a worklist whose round is step returns, as an equation.            *)
Rounds(U, step, grow) ==
    grow = [S \in SUBSET U |-> IF step[S] = S THEN S ELSE grow[step[S]]]

(* The equation always has a solution, so the one that a recursive         *)
(* definition chooses is one: the sets met from S on hold at most the      *)
(* fixed points that are met from step[S] on, and S itself.                *)
LEMMA RoundsDefined ==
    ASSUME NEW U, NEW step \in [SUBSET U -> SUBSET U]
    PROVE  \E grow : Rounds(U, step, grow)
<1> DEFINE Met(S) == {P \in SUBSET U : \A C \in SUBSET (SUBSET U) :
                         S \in C /\ (\A R \in C : step[R] \in C) => P \in C}
<1> DEFINE Fixed(S) == {P \in Met(S) : step[P] = P}
<1> DEFINE grow == [S \in SUBSET U |->
                       IF Fixed(S) = {} THEN {} ELSE CHOOSE P \in Fixed(S) : TRUE]
<1>m. ASSUME NEW S \in SUBSET U PROVE Met(S) = {S} \cup Met(step[S])
  <2>1. step[S] \in SUBSET U
    OBVIOUS
  <2>2. \A R \in SUBSET U : R \in Met(R) /\ \A P \in Met(R) : step[P] \in Met(R)
    OBVIOUS
  <2>3. {S} \cup Met(step[S]) \subseteq Met(S)
    <3>1. ASSUME NEW C \in SUBSET (SUBSET U), S \in C, \A R \in C : step[R] \in C
          PROVE  {S} \cup Met(step[S]) \subseteq C
      BY <2>1, <3>1
    <3> QED BY <3>1
  <2>4. Met(S) \subseteq {S} \cup Met(step[S])
    <3> DEFINE C == {S} \cup Met(step[S])
    <3>1. C \in SUBSET (SUBSET U) /\ S \in C
      OBVIOUS
    <3>2. ASSUME NEW R \in C PROVE step[R] \in C
      <4> HIDE DEF Met
      <4> QED BY <2>1, <2>2
    <3> HIDE DEF C
    <3>3. Met(S) \subseteq C
      BY <3>1, <3>2
    <3> QED BY <3>3 DEF C
  <2> QED BY <2>3, <2>4
<1>1. ASSUME NEW S \in SUBSET U, step[S] = S PROVE grow[S] = S
  <2>1. Met(S) \subseteq {S}
    <3>1. {S} \in SUBSET (SUBSET U)
      OBVIOUS
    <3> QED BY <1>1, <3>1
  <2>2. S \in Met(S)
    OBVIOUS
  <2> HIDE DEF Met
  <2> QED BY <1>1, <2>1, <2>2
<1>2. ASSUME NEW S \in SUBSET U, step[S] # S PROVE grow[S] = grow[step[S]]
  <2>1. Fixed(S) = Fixed(step[S])
    <3> HIDE DEF Met
    <3> QED BY <1>2, <1>m
  <2>2. step[S] \in SUBSET U
    OBVIOUS
  <2> HIDE DEF Fixed
  <2> QED BY <2>1, <2>2
<1>3. Rounds(U, step, grow)
  <2> HIDE DEF grow
  <2>1. grow = [S \in SUBSET U |-> grow[S]]
    BY DEF grow
  <2> QED BY <1>1, <1>2, <2>1 DEF Rounds
<1> QED BY <1>3

Monotone(U, step) == \A S, T \in SUBSET U : S \subseteq T => step[S] \subseteq step[T]

IsLeastFixed(U, step, S0, R) ==
    /\ R \in SUBSET U /\ S0 \subseteq R /\ step[R] = R
    /\ \A T \in SUBSET U : S0 \subseteq T /\ step[T] \subseteq T => R \subseteq T

(* With a monotone round, the worklist returns the least set that contains *)
(* its start and that a round does not change.                             *)
LEMMA WorklistIsLeast ==
    ASSUME NEW U, IsFiniteSet(U), NEW step \in [SUBSET U -> SUBSET U],
           Monotone(U, step),
           NEW grow, Rounds(U, step, grow),
           NEW S0 \in SUBSET U, S0 \subseteq step[S0]
    PROVE  IsLeastFixed(U, step, S0, grow[S0])
<1> USE DEF Monotone
<1> DEFINE Right(S) ==
       /\ grow[S] \in SUBSET U /\ S \subseteq grow[S] /\ step[grow[S]] = grow[S]
       /\ \A T \in SUBSET U : S \subseteq T /\ step[T] \subseteq T => grow[S] \subseteq T
<1> DEFINE bad == {S \in SUBSET U : S \subseteq step[S] /\ ~Right(S)}
<1> SUFFICES ASSUME bad # {} PROVE FALSE
  BY DEF IsLeastFixed
<1> DEFINE size == [S \in bad |-> Cardinality(U \ S)]
<1>1. size \in [bad -> Nat]
  <2>1. ASSUME NEW S \in bad PROVE Cardinality(U \ S) \in Nat
    BY FS_Subset, FS_CardinalityType
  <2> HIDE DEF bad
  <2> QED BY <2>1
<1>2. PICK S \in bad : \A T \in bad : ~(size[T] < size[S])
  <2> HIDE DEF bad, size
  <2> QED BY <1>1, LeastMeasure
<1> DEFINE next == step[S]
<1>3. S \in SUBSET U /\ next \in SUBSET U /\ S \subseteq next /\ next \subseteq step[next]
  OBVIOUS
<1>4. grow[S] = IF next = S THEN S ELSE grow[next]
  BY DEF Rounds
<1> HIDE DEF next
<1>5. next # S /\ grow[S] = grow[next]
  <2>1. next # S
    <3> SUFFICES ASSUME next = S PROVE Right(S)
      OBVIOUS
    <3>1. grow[S] = S /\ step[S] = S
      BY <1>4 DEF next
    <3> QED BY <1>3, <3>1
  <2> QED BY <1>4, <2>1
<1>6. next \in bad
  <2> SUFFICES ASSUME Right(next) PROVE Right(S)
    BY <1>3
  <2>1. \A T \in SUBSET U : S \subseteq T /\ step[T] \subseteq T => next \subseteq T
    BY <1>3 DEF next
  <2> QED BY <1>3, <1>5, <2>1
<1>7. size[next] < size[S]
  <2>1. size[next] = Cardinality(U \ next) /\ size[S] = Cardinality(U \ S)
    <3> HIDE DEF bad
    <3> QED BY <1>6
  <2> HIDE DEF bad, size
  <2>2. Cardinality(U \ next) < Cardinality(U \ S)
    BY <1>3, <1>5, FewerLeft
  <2> QED BY <2>1, <2>2
<1> HIDE DEF bad, size
<1> QED BY <1>2, <1>6, <1>7

(* The names and the task texts that can occur, and what is a graph.       *)
GraphsOf(o) == o.drafts \cup {o.graph}
NamesIn(o) == o.added \cup UNION {NamesOf(g) : g \in GraphsOf(o)}
TextsIn(o) == o.added \cup UNION {{g.task[n] : n \in NamesOf(g)} : g \in GraphsOf(o)}
Universe == UNION {NamesIn(o) : o \in Occasions}
Texts == UNION {TextsIn(o) : o \in Occasions}

Drawn(g) == /\ IsFiniteSet(NamesOf(g)) /\ NamesOf(g) \subseteq Universe
            /\ \A n \in NamesOf(g) : g.task[n] \in Texts
Wf(g) == Drawn(g) /\ g.deps \subseteq NamesOf(g) \X NamesOf(g)

ClosedIn(g, T) == \A e \in g.deps : e[1] \in T => e[2] \in T

(* downstream_of is the least set with its start that no dependency        *)
(* leaves.                                                                 *)
LEMMA DownstreamIsLeast ==
    ASSUME NEW g, Wf(g), NEW n \in NamesOf(g)
    PROVE  /\ downstream_of(g, n) \in SUBSET NamesOf(g) /\ n \in downstream_of(g, n)
           /\ ClosedIn(g, downstream_of(g, n))
           /\ \A T \in SUBSET NamesOf(g) :
                 n \in T /\ ClosedIn(g, T) => downstream_of(g, n) \subseteq T
<1> DEFINE U == NamesOf(g)
<1> DEFINE step == [S \in SUBSET U |-> S \cup {e[2] : e \in {d \in g.deps : d[1] \in S}}]
<1> DEFINE grow == CHOOSE h : h =
       [S \in SUBSET U |-> IF S \cup {e[2] : e \in {d \in g.deps : d[1] \in S}} = S THEN S
                           ELSE h[S \cup {e[2] : e \in {d \in g.deps : d[1] \in S}}]]
<1>d. \A e \in g.deps : e[1] \in U /\ e[2] \in U
  BY DEF Wf
<1>1. step \in [SUBSET U -> SUBSET U]
  BY <1>d
<1>2. Monotone(U, step)
  BY DEF Monotone
<1>3. ASSUME NEW S \in SUBSET U
      PROVE  S \subseteq step[S] /\ (step[S] \subseteq S <=> ClosedIn(g, S))
  BY DEF ClosedIn
<1>4. \A h : Rounds(U, step, h) <=> h =
       [S \in SUBSET U |-> IF S \cup {e[2] : e \in {d \in g.deps : d[1] \in S}} = S THEN S
                           ELSE h[S \cup {e[2] : e \in {d \in g.deps : d[1] \in S}}]]
  BY DEF Rounds
<1>5. Rounds(U, step, grow)
  <2>1. PICK h : Rounds(U, step, h)
    <3> HIDE DEF step, U
    <3> QED BY <1>1, RoundsDefined
  <2> HIDE DEF step
  <2> QED BY <1>4, <2>1, Zenon
<1>6. downstream_of(g, n) = grow[{n}]
  BY DEF downstream_of
<1>7. {n} \in SUBSET U /\ IsFiniteSet(U)
  BY DEF Wf, Drawn
<1> HIDE DEF U, step, grow
<1>8. /\ grow[{n}] \in SUBSET U /\ {n} \subseteq grow[{n}] /\ step[grow[{n}]] = grow[{n}]
      /\ \A T \in SUBSET U : {n} \subseteq T /\ step[T] \subseteq T => grow[{n}] \subseteq T
  <2>1. {n} \subseteq step[{n}]
    BY <1>3, <1>7
  <2>2. IsLeastFixed(U, step, {n}, grow[{n}])
    BY <1>1, <1>2, <1>5, <1>7, <2>1, WorklistIsLeast
  <2> QED BY <2>2 DEF IsLeastFixed
<1>9. ClosedIn(g, grow[{n}])
  BY <1>3, <1>8
<1> QED BY <1>3, <1>6, <1>8, <1>9 DEF U

(* Only pending nodes are blocked, and none when nothing failed.           *)
LEMMA BlocksPending ==
    ASSUME IsFiniteSet(DOMAIN member)
    PROVE  /\ ToBlock \subseteq {n \in DOMAIN member : Pending(n)}
           /\ (\A n \in DOMAIN member : member[n].st \notin {"failed", "blocked"})
              /\ (\A n \in DOMAIN member : ParentsIn(topology, n) \subseteq DOMAIN member)
                => ToBlock = {}
<1> DEFINE U == DOMAIN member
<1> DEFINE stuck(S) == {n \in DOMAIN member : Pending(n) /\ \E p \in ParentsIn(topology, n) :
                           p \in S \/ member[p].st \in {"failed", "blocked"}}
<1> DEFINE step == [S \in SUBSET U |-> stuck(S)]
<1> DEFINE grow == CHOOSE h : h = [S \in SUBSET U |-> IF stuck(S) = S THEN S ELSE h[stuck(S)]]
<1>1. step \in [SUBSET U -> SUBSET U]
  OBVIOUS
<1>2. Monotone(U, step)
  BY DEF Monotone
<1>4. \A h : Rounds(U, step, h)
             <=> h = [S \in SUBSET U |-> IF stuck(S) = S THEN S ELSE h[stuck(S)]]
  <2>1. \A S \in SUBSET U : step[S] = stuck(S)
    OBVIOUS
  <2> HIDE DEF stuck, step
  <2> QED BY <2>1 DEF Rounds
<1>5. Rounds(U, step, grow)
  <2>1. PICK h : Rounds(U, step, h)
    <3> HIDE DEF step, U
    <3> QED BY <1>1, RoundsDefined
  <2> HIDE DEF step, stuck
  <2> QED BY <1>4, <2>1, Zenon
<1>6. ToBlock = grow[{}]
  BY DEF ToBlock
<1>7. {} \in SUBSET U /\ {} \subseteq step[{}]
  OBVIOUS
<1>8. /\ grow[{}] \in SUBSET U /\ step[grow[{}]] = grow[{}]
      /\ \A T \in SUBSET U : {} \subseteq T /\ step[T] \subseteq T => grow[{}] \subseteq T
  <2> HIDE DEF step, grow, U
  <2>1. IsFiniteSet(U)
    BY DEF U
  <2>2. IsLeastFixed(U, step, {}, grow[{}])
    BY <1>1, <1>2, <1>5, <1>7, <2>1, WorklistIsLeast
  <2> QED BY <2>2 DEF IsLeastFixed
<1> HIDE DEF grow
<1>9. grow[{}] \subseteq {n \in U : Pending(n)}
  BY <1>8
<1>10. ASSUME \A n \in U : member[n].st \notin {"failed", "blocked"},
              \A n \in U : ParentsIn(topology, n) \subseteq U
       PROVE  grow[{}] = {}
  <2>1. step[{}] = {}
    BY <1>10
  <2> HIDE DEF step, U
  <2> QED BY <1>7, <1>8, <2>1
<1> QED BY <1>6, <1>9, <1>10

(* A node that a revision does not affect keeps its task, its reviews and  *)
(* its parents, none of which is affected; exactly these nodes are         *)
(* untouched all the way up.                                               *)
UntouchedIn(g, n) ==
    \A m \in NamesOf(g) : n \in downstream_of(g, m) =>
        /\ m \in NamesOf(topology) /\ g.task[m] = topology.task[m]
        /\ ParentsIn(g, m) = ParentsIn(topology, m)
        /\ ReviewsOf(g, m) = ReviewsOf(topology, m)

LEMMA AffectedIsClosed ==
    ASSUME Wf(topology), NEW g, Wf(g)
    PROVE  /\ revision_affected(g) \subseteq NamesOf(topology) \cup NamesOf(g)
           /\ NamesOf(topology) \ NamesOf(g) \subseteq revision_affected(g)
           /\ \A n \in NamesOf(topology) \cap NamesOf(g) : n \notin revision_affected(g) =>
                 /\ g.task[n] = topology.task[n]
                 /\ ParentsIn(g, n) = ParentsIn(topology, n)
                 /\ \A p \in ParentsIn(g, n) :
                       /\ p \in NamesOf(topology) \cap NamesOf(g)
                       /\ p \notin revision_affected(g)
<1> DEFINE A == UNION {downstream_of(g, n) : n \in Changed(g)}
<1>t. \A e \in g.deps : e[1] \in NamesOf(g) /\ e[2] \in NamesOf(g)
  BY DEF Wf
<1>c. Changed(g) \subseteq NamesOf(g)
  BY DEF Changed
<1>1. A \subseteq NamesOf(g) /\ Changed(g) \subseteq A
  BY <1>c, DownstreamIsLeast
<1>2. \A e \in g.deps : e[1] \in A => e[2] \in A
  BY <1>c, DownstreamIsLeast DEF ClosedIn
<1>3. revision_affected(g) = (NamesOf(topology) \ NamesOf(g)) \cup A
  BY DEF revision_affected
<1> HIDE DEF A
<1>4. ASSUME NEW n \in NamesOf(topology) \cap NamesOf(g), n \notin revision_affected(g)
      PROVE  /\ g.task[n] = topology.task[n] /\ ParentsIn(g, n) = ParentsIn(topology, n)
             /\ \A p \in ParentsIn(g, n) :
                    /\ p \in NamesOf(topology) \cap NamesOf(g) /\ p \notin revision_affected(g)
  <2>1. n \notin A /\ n \notin Changed(g)
    BY <1>1, <1>3, <1>4
  <2>2. g.task[n] = topology.task[n] /\ ParentsIn(g, n) = ParentsIn(topology, n)
    BY <2>1 DEF Changed
  <2>3. ASSUME NEW p \in ParentsIn(g, n)
        PROVE  p \in NamesOf(topology) \cap NamesOf(g) /\ p \notin revision_affected(g)
    <3>1. p \in NamesOf(g) /\ p \notin A
      BY <1>2, <1>t, <2>1 DEF ParentsIn
    <3>2. p \in NamesOf(topology)
      <4>1. p \in ParentsIn(topology, n)
        BY <2>2
      <4> QED BY <4>1 DEF ParentsIn, Wf
    <3> QED BY <1>3, <3>1, <3>2
  <2> QED BY <2>2, <2>3
<1> QED BY <1>1, <1>3, <1>4

LEMMA AffectedIsTouched ==
    ASSUME Wf(topology), NEW g, Wf(g), NEW n \in NamesOf(topology) \cap NamesOf(g)
    PROVE  UntouchedIn(g, n) <=> n \notin revision_affected(g)
<1> DEFINE A == UNION {downstream_of(g, m) : m \in Changed(g)}
<1>c. Changed(g) \subseteq NamesOf(g) /\ Changed(g) \subseteq NamesOf(topology)
  BY DEF Changed
<1>3. revision_affected(g) = (NamesOf(topology) \ NamesOf(g)) \cup A
  BY DEF revision_affected
<1>1. ASSUME n \in A PROVE ~UntouchedIn(g, n)
  <2>1. PICK m \in Changed(g) : n \in downstream_of(g, m)
    BY <1>1
  <2> QED BY <2>1, <1>c DEF UntouchedIn, Changed
<1>2. ASSUME n \notin A, NEW m \in NamesOf(g), n \in downstream_of(g, m)
      PROVE  /\ m \in NamesOf(topology) /\ g.task[m] = topology.task[m]
             /\ ParentsIn(g, m) = ParentsIn(topology, m)
             /\ ReviewsOf(g, m) = ReviewsOf(topology, m)
  <2> DEFINE T == (NamesOf(g) \ NamesOf(topology)) \cup A
  <2>t. \A e \in g.deps : e[1] \in NamesOf(g) /\ e[2] \in NamesOf(g)
    BY DEF Wf
  <2>1. A \subseteq NamesOf(g) /\ Changed(g) \subseteq A
        /\ \A e \in g.deps : e[1] \in A => e[2] \in A
    BY <1>c, DownstreamIsLeast DEF ClosedIn
  <2>2. ASSUME NEW e \in g.deps, e[1] \in T PROVE e[2] \in T
    <3>1. CASE e[1] \in A
      BY <2>1, <3>1
    <3>2. CASE e[1] \notin NamesOf(topology) /\ e[2] \in NamesOf(topology)
      <4>1. e[1] \in ParentsIn(g, e[2])
        BY DEF ParentsIn
      <4>2. e[1] \notin ParentsIn(topology, e[2])
        BY <3>2 DEF ParentsIn, Wf
      <4>3. e[2] \in Changed(g)
        BY <2>t, <3>2, <4>1, <4>2 DEF Changed
      <4> QED BY <2>1, <4>3
    <3> QED BY <2>2, <2>t, <3>1, <3>2
  <2>3. T \in SUBSET NamesOf(g) /\ ClosedIn(g, T)
    BY <2>1, <2>2 DEF ClosedIn
  <2>4. n \notin T
    BY <1>2
  <2> HIDE DEF T, A
  <2>5. m \notin T
    BY <1>2, <2>3, <2>4, DownstreamIsLeast
  <2>6. m \in NamesOf(topology) /\ m \notin Changed(g)
    BY <1>2, <2>1, <2>5 DEF T
  <2> QED BY <1>2, <2>6 DEF Changed
<1> QED BY <1>1, <1>2, <1>3 DEF UntouchedIn

(* Drawing the same graph again affects nothing.                           *)
LEMMA SameGraphAffectsNone == revision_affected(topology) = {}
BY DEF revision_affected, Changed

(* The types of the variables.                                             *)
Fields == {"graph", "drafts", "added", "starts", "turns", "forms", "fails", "can"}
StagePhases == {"awaiting_approval", "rejected", "running", "paused", "needs_attention", "planning",
           "publishing", "publication_failed", "completed"}
MemberType == [st : {"waiting", "running", "completed", "failed", "blocked", "dirty"},
               head : Nat, rev : Nat, cont : BOOLEAN]
TrialType == [node : Universe, task : Texts, inputs : SUBSET (Universe \X Nat),
              st : {"running", "completed", "failed"}, old : BOOLEAN, halt : BOOLEAN]
StageType == [phase : StagePhases, approved : BOOLEAN, paused : BOOLEAN, stop : BOOLEAN,
              heads : SUBSET Nat, published : SUBSET Nat]

OccasionOk == /\ DOMAIN occasion = Fields /\ \A g \in occasion.drafts : Drawn(g)
              /\ occasion.added \subseteq Universe \cap Texts
DraftingOk ==
    drafting # NoTurn =>
        /\ DOMAIN drafting = {"pc", "review", "resume", "cancelled", "graph", "fixed"}
        /\ drafting.pc \in {"begun", "drawing", "draining", "ready"}
        /\ drafting.review \in BOOLEAN /\ drafting.resume \in BOOLEAN
        /\ drafting.cancelled \in BOOLEAN /\ Wf(drafting.graph)
FormOk == form.open => form.name \in Universe \cap Texts

RevisionTypeInv ==
    /\ OccasionOk /\ DraftingOk /\ FormOk
    /\ Wf(topology) /\ member \in [NamesOf(topology) -> MemberType]
    /\ trials \in Seq(TrialType) /\ stage \in StageType /\ bypassed \in BOOLEAN

(* No attempt has been made of a graph yet.                                *)
Blank == trials = <<>> => \A n \in DOMAIN member : member[n] = NewMember

(* A node has one running attempt at most, and what runs has its inputs.   *)
Alone == \A i, j \in RunningTrials : trials[i].node = trials[j].node => i = j
RunningFed == \A n \in RunningNodes : \A p \in ParentsIn(topology, n) : member[p].st = "completed"

(* A completed node has a result, and so has every input of it, unless a   *)
(* draft has replaced a graph that had run.                                *)
HeadsKnown == \A n \in DOMAIN member : member[n].st = "completed" =>
                member[n].head \in DOMAIN trials
CompletedFed ==
    ~bypassed => \A n \in DOMAIN member : member[n].st = "completed" =>
        \A p \in ParentsIn(topology, n) : member[p].st = "completed"

RunInv == Blank /\ Undisturbed /\ Alone /\ RunningFed /\ HeadsKnown /\ CompletedFed /\ UpToDate

(* Nothing runs before an approval, and nothing beside a review.           *)
Awaits == stage.phase = "awaiting_approval" => ~stage.approved
Quiet == ~stage.approved => RunningTrials = {}
ReviewQuiet == drafting # NoTurn /\ drafting.review => RunningTrials = {}

StageInv == DeliversAll /\ Awaits /\ Quiet /\ ReviewQuiet

RevisionInv == RevisionTypeInv /\ RunInv /\ StageInv

(* What the type invariant says of one member and of one attempt.          *)
LEMMA RowsOf ==
    ASSUME RevisionTypeInv
    PROVE  /\ DOMAIN member = NamesOf(topology) /\ IsFiniteSet(DOMAIN member)
           /\ \A n \in DOMAIN member : member[n] \in MemberType
           /\ DOMAIN trials = 1..Len(trials) /\ Len(trials) \in Nat
           /\ \A i \in DOMAIN trials : trials[i] \in TrialType
           /\ \A e \in topology.deps : e[1] \in DOMAIN member /\ e[2] \in DOMAIN member
           /\ \A n : ParentsIn(topology, n) \subseteq DOMAIN member
<1>1. /\ DOMAIN member = NamesOf(topology) /\ \A n \in DOMAIN member : member[n] \in MemberType
  BY DEF RevisionTypeInv
<1>2. /\ DOMAIN trials = 1..Len(trials) /\ Len(trials) \in Nat
      /\ \A i \in DOMAIN trials : trials[i] \in TrialType
  BY DEF RevisionTypeInv
<1>3. IsFiniteSet(DOMAIN member) /\ \A e \in topology.deps :
        e[1] \in DOMAIN member /\ e[2] \in DOMAIN member
  BY <1>1 DEF RevisionTypeInv, Wf, Drawn
<1> QED BY <1>1, <1>2, <1>3 DEF ParentsIn

(* A running attempt is its node's, and a node that is done has none.      *)
LEMMA RunningIsRunning ==
    ASSUME RevisionTypeInv, Undisturbed
    PROVE  /\ \A i \in RunningTrials : /\ trials[i].node \in DOMAIN member
                                       /\ member[trials[i].node].st = "running"
           /\ \A n \in RunningNodes : n \in DOMAIN member /\ member[n].st = "running"
           /\ AllDone(member) => RunningTrials = {}
BY DEF Undisturbed, RunningTrials, RunningNodes, AllDone

LEMMA RevisionStarts == RevisionInit => RevisionInv
<1> SUFFICES ASSUME RevisionInit PROVE RevisionInv
  OBVIOUS
<1>o. /\ occasion \in Occasions /\ topology = occasion.graph /\ trials = <<>> /\ drafting = NoTurn
      /\ form = NoForm /\ bypassed = FALSE /\ member = [n \in NamesOf(topology) |-> NewMember]
      /\ stage = [phase |-> "awaiting_approval", approved |-> FALSE, paused |-> FALSE,
                  stop |-> FALSE, heads |-> {}, published |-> {}]
  BY DEF RevisionInit
<1>1. ASSUME NEW g \in GraphsOf(occasion) PROVE Drawn(g)
  <2>1. IsFiniteSet(DOMAIN g.task)
    BY <1>o, OccasionsAssumption DEF GraphsOf
  <2>2. NamesOf(g) \subseteq Universe /\ \A n \in NamesOf(g) : g.task[n] \in Texts
    <3>1. ASSUME NEW n \in NamesOf(g) PROVE n \in Universe /\ g.task[n] \in Texts
      <4>1. n \in UNION {NamesOf(h) : h \in GraphsOf(occasion)}
        OBVIOUS
      <4>2. g.task[n] \in {g.task[m] : m \in NamesOf(g)}
        OBVIOUS
      <4>3. g.task[n] \in UNION {{h.task[m] : m \in NamesOf(h)} : h \in GraphsOf(occasion)}
        BY <4>2
      <4>4. n \in NamesIn(occasion) /\ g.task[n] \in TextsIn(occasion)
        BY <4>1, <4>3 DEF NamesIn, TextsIn
      <4> QED BY <1>o, <4>4 DEF Universe, Texts
    <3> QED BY <3>1
  <2> QED BY <2>1, <2>2 DEF Drawn, NamesOf
<1>2. OccasionOk
  <2>1. occasion.added \subseteq Universe \cap Texts
    <3>1. occasion.added \subseteq NamesIn(occasion)
      BY DEF NamesIn
    <3>2. occasion.added \subseteq TextsIn(occasion)
      BY DEF TextsIn
    <3>3. NamesIn(occasion) \subseteq Universe /\ TextsIn(occasion) \subseteq Texts
      BY <1>o DEF Universe, Texts
    <3> QED BY <3>1, <3>2, <3>3
  <2> QED BY <1>o, <1>1, <2>1, OccasionsAssumption DEF OccasionOk, Fields, GraphsOf
<1>3. Wf(topology)
  BY <1>o, <1>1, OccasionsAssumption DEF Wf, GraphsOf, NamesOf
<1>4. NewMember \in MemberType /\ stage \in StageType
  BY <1>o DEF NewMember, MemberType, StageType, StagePhases
<1>5. RevisionTypeInv
  <2>1. member \in [NamesOf(topology) -> MemberType]
    BY <1>o, <1>4
  <2>2. trials \in Seq(TrialType) /\ bypassed \in BOOLEAN
    <3>1. <<>> \in Seq(TrialType)
      OBVIOUS
    <3> QED BY <1>o, <3>1
  <2>3. DraftingOk /\ FormOk
    BY <1>o DEF DraftingOk, FormOk, NoForm
  <2> QED BY <1>2, <1>3, <1>4, <2>1, <2>2, <2>3 DEF RevisionTypeInv
<1>6. RunningTrials = {} /\ RunningNodes = {}
  BY <1>o DEF RunningTrials, RunningNodes
<1>7. RunInv
  BY <1>o, <1>6
     DEF RunInv, Blank, Undisturbed, Alone, RunningFed, HeadsKnown, CompletedFed, UpToDate,
                    NewMember, RunningTrials
<1>8. StageInv
  BY <1>o, <1>6 DEF StageInv, DeliversAll, Awaits, Quiet, ReviewQuiet, Publication
<1> QED BY <1>5, <1>7, <1>8 DEF RevisionInv

(* Attempts that are rewritten one by one are still a list of attempts.    *)
LEMMA RowsRewritten ==
    ASSUME RevisionTypeInv, NEW f \in [DOMAIN trials -> TrialType]
    PROVE  f \in Seq(TrialType) /\ DOMAIN f = DOMAIN trials /\ (f = <<>> <=> trials = <<>>)
<1>1. DOMAIN trials = 1..Len(trials) /\ Len(trials) \in Nat /\ trials \in Seq(TrialType)
  BY DEF RevisionTypeInv
<1>2. f \in Seq(TrialType) /\ DOMAIN f = DOMAIN trials
  BY <1>1
<1>3. Len(f) = Len(trials)
  BY <1>1, <1>2
<1> QED BY <1>1, <1>2, <1>3

(* A step that leaves the graph, the members and the attempts alone.       *)
LEMMA RunStutters ==
    ASSUME RunInv, UNCHANGED <<topology, member, trials, bypassed>>
    PROVE  RunInv' /\ RunningTrials' = RunningTrials
BY DEF RunInv, Blank, Undisturbed, Alone, RunningFed, HeadsKnown, CompletedFed, UpToDate,
       RunningTrials, RunningNodes, InputsNow

(* A step that asks the running attempts to stop.                          *)
LEMMA RunHalts ==
    ASSUME RevisionTypeInv, RunInv, UNCHANGED <<topology, member, bypassed>>, trials' = Halted
    PROVE  RunInv' /\ trials' \in Seq(TrialType) /\ RunningTrials' = RunningTrials
<1>1. /\ DOMAIN trials' = DOMAIN trials
      /\ \A i \in DOMAIN trials :
            /\ trials'[i] \in TrialType
            /\ trials'[i].node = trials[i].node /\ trials'[i].task = trials[i].task
            /\ trials'[i].inputs = trials[i].inputs /\ trials'[i].st = trials[i].st
            /\ (trials'[i].old <=> trials[i].old)
  <2>1. ASSUME NEW i \in DOMAIN trials
        PROVE  /\ trials'[i] = [trials[i] EXCEPT !.halt = @ \/ i \in RunningTrials]
               /\ trials[i] \in TrialType
    BY <2>1, RowsOf DEF Halted
  <2>2. DOMAIN trials' = DOMAIN trials
    BY DEF Halted
  <2>3. ASSUME NEW i \in DOMAIN trials
        PROVE  /\ trials'[i] \in TrialType
               /\ trials'[i].node = trials[i].node /\ trials'[i].task = trials[i].task
               /\ trials'[i].inputs = trials[i].inputs /\ trials'[i].st = trials[i].st
               /\ (trials'[i].old <=> trials[i].old)
    <3> DEFINE b == trials[i].halt \/ i \in RunningTrials
    <3>1. b \in BOOLEAN /\ trials'[i] = [trials[i] EXCEPT !.halt = b] /\ trials[i] \in TrialType
      BY <2>1
    <3> HIDE DEF b
    <3> QED BY <3>1 DEF TrialType
  <2> QED BY <2>2, <2>3
<1>2. trials' \in [DOMAIN trials -> TrialType]
  <2>1. trials' = [i \in DOMAIN trials |-> trials'[i]]
    BY DEF Halted
  <2> QED BY <1>1, <2>1
<1>3. trials' \in Seq(TrialType) /\ (trials' = <<>> <=> trials = <<>>)
  BY <1>2, RowsRewritten
<1>4. RunningTrials' = RunningTrials
  BY <1>1 DEF RunningTrials
<1>5. RunningNodes' = RunningNodes
  BY <1>1, <1>4 DEF RunningNodes, RunningTrials
<1>6. Blank' /\ Alone' /\ RunningFed' /\ CompletedFed' /\ HeadsKnown'
  BY <1>1, <1>3, <1>4, <1>5
     DEF RunInv, Blank, Alone, RunningFed, CompletedFed, HeadsKnown, RunningTrials
<1>7. Undisturbed'
  BY <1>1 DEF RunInv, Undisturbed, InputsNow
<1>8. UpToDate'
  BY <1>1 DEF RunInv, UpToDate, HeadsKnown, InputsNow
<1> QED BY <1>3, <1>4, <1>6, <1>7, <1>8 DEF RunInv


(* What a revision keeps and what it sends back, when nothing that it      *)
(* affects is running.                                                     *)
Sent(g) == revision_affected(g) \cap NamesOf(g)
Revised(g) ==
    /\ revision_affected(g) \cap RunningNodes = {}
    /\ topology' = g /\ member' = RevisedMembers(g, Sent(g)) /\ trials' = Superseded(Sent(g))
    /\ bypassed' = bypassed

LEMMA RevisedTrials ==
    ASSUME RevisionTypeInv, NEW g, trials' = Superseded(Sent(g))
    PROVE  /\ trials' \in Seq(TrialType) /\ DOMAIN trials' = DOMAIN trials
           /\ (trials' = <<>> <=> trials = <<>>)
           /\ \A i \in DOMAIN trials :
                 /\ trials'[i].node = trials[i].node /\ trials'[i].task = trials[i].task
                 /\ trials'[i].inputs = trials[i].inputs /\ trials'[i].st = trials[i].st
                 /\ trials[i].node \notin Sent(g) => (trials'[i].old <=> trials[i].old)
           /\ RunningTrials' = RunningTrials /\ RunningNodes' = RunningNodes
<1>1. /\ DOMAIN trials' = DOMAIN trials
      /\ \A i \in DOMAIN trials :
           trials'[i] = [trials[i] EXCEPT !.old = @ \/ trials[i].node \in Sent(g)]
  BY DEF Superseded
<1>3. ASSUME NEW i \in DOMAIN trials
      PROVE  /\ trials'[i] \in TrialType
             /\ trials'[i].node = trials[i].node /\ trials'[i].task = trials[i].task
             /\ trials'[i].inputs = trials[i].inputs /\ trials'[i].st = trials[i].st
             /\ trials[i].node \notin Sent(g) => (trials'[i].old <=> trials[i].old)
  <2> DEFINE b == trials[i].old \/ trials[i].node \in Sent(g)
  <2>1. /\ b \in BOOLEAN /\ trials'[i] = [trials[i] EXCEPT !.old = b] /\ trials[i] \in TrialType
        /\ trials[i].node \notin Sent(g) => (b <=> trials[i].old)
    BY <1>1, RowsOf
  <2> HIDE DEF b
  <2> QED BY <2>1 DEF TrialType
<1>4. trials' \in [DOMAIN trials -> TrialType]
  <2>1. trials' = [i \in DOMAIN trials |-> trials'[i]]
    BY DEF Superseded
  <2> QED BY <1>3, <2>1
<1>5. RunningTrials' = RunningTrials
  BY <1>1, <1>3 DEF RunningTrials
<1>6. RunningNodes' = RunningNodes
  BY <1>3, <1>5 DEF RunningNodes, RunningTrials
<1> QED BY <1>1, <1>3, <1>4, <1>5, <1>6, RowsRewritten

LEMMA RevisedMembersKeep ==
    ASSUME RevisionTypeInv, Blank, NEW g, Wf(g), member' = RevisedMembers(g, Sent(g))
    PROVE  /\ member' \in [NamesOf(g) -> MemberType]
           /\ \A n \in NamesOf(g) :
                 /\ n \in NamesOf(topology) /\ n \notin revision_affected(g) =>
                      member'[n] = member[n]
                 /\ ~(n \in NamesOf(topology) /\ n \notin revision_affected(g)) =>
                       member'[n].st \in {"waiting", "dirty"}
                 /\ trials = <<>> => member'[n] = NewMember
<1>1. DOMAIN member = NamesOf(topology) /\ \A n \in DOMAIN member : member[n] \in MemberType
  BY RowsOf
<1>2. ASSUME NEW m \in MemberType,
             NEW r, r = [m EXCEPT !.st = "waiting", !.head = 0, !.cont = FALSE]
      PROVE  r \in MemberType /\ r.st = "waiting"
  BY <1>2 DEF MemberType
<1>5. ASSUME NEW k \in Nat,
             NEW r, r = [st |-> "dirty", head |-> 0, rev |-> k, cont |-> FALSE]
      PROVE  r \in MemberType /\ r.st = "dirty"
  BY <1>5 DEF MemberType
<1>3. NewMember \in MemberType /\ NewMember.st = "waiting"
      /\ [NewMember EXCEPT !.st = "waiting", !.head = 0, !.cont = FALSE] = NewMember
  <2>1. NewMember \in MemberType /\ NewMember.st = "waiting" /\ NewMember.head = 0
        /\ NewMember.cont = FALSE
    BY DEF NewMember, MemberType
  <2>2. ASSUME NEW r, r = [NewMember EXCEPT !.st = "waiting", !.head = 0, !.cont = FALSE]
        PROVE  r = NewMember
    <3>1. /\ r \in MemberType /\ r.st = "waiting" /\ r.head = 0 /\ r.rev = NewMember.rev
          /\ r.cont = FALSE
      BY <2>1, <2>2 DEF MemberType
    <3> QED BY <2>1, <3>1 DEF MemberType
  <2> QED BY <2>1, <2>2
<1>4. ASSUME NEW n \in NamesOf(g)
      PROVE  /\ member'[n] \in MemberType
             /\ n \in NamesOf(topology) /\ n \notin revision_affected(g) => member'[n] = member[n]
             /\ ~(n \in NamesOf(topology) /\ n \notin revision_affected(g)) =>
                   member'[n].st \in {"waiting", "dirty"}
             /\ trials = <<>> => member'[n] = NewMember
  <2>1. CASE n \notin NamesOf(topology)
    <3>1. member'[n] = NewMember
      BY <1>1, <2>1 DEF RevisedMembers
    <3> QED BY <1>3, <2>1, <3>1
  <2>2. CASE n \in NamesOf(topology) /\ n \notin revision_affected(g)
    <3>1. member'[n] = member[n]
      BY <1>1, <2>2 DEF RevisedMembers, Sent
    <3> QED BY <1>1, <2>2, <3>1 DEF Blank
  <2>3. CASE n \in NamesOf(topology) /\ n \in revision_affected(g)
                /\ member[n].st \in {"waiting", "failed", "blocked"}
    <3>1. member'[n] = [member[n] EXCEPT !.st = "waiting", !.head = 0, !.cont = FALSE]
      BY <1>1, <2>3 DEF RevisedMembers, Sent
    <3>2. trials = <<>> => member[n] = NewMember
      BY <1>1, <2>3 DEF Blank
    <3>3. member[n] \in MemberType
      BY <1>1, <2>3
    <3>4. member'[n] \in MemberType /\ member'[n].st = "waiting"
      BY <1>2, <3>1, <3>3
    <3> QED BY <1>3, <2>3, <3>1, <3>2, <3>4
  <2>4. CASE n \in NamesOf(topology) /\ n \in revision_affected(g)
                /\ member[n].st \notin {"waiting", "failed", "blocked"}
    <3>1. member'[n] = [st |-> "dirty", head |-> 0, rev |-> member[n].rev + 1, cont |-> FALSE]
      BY <1>1, <2>4 DEF RevisedMembers, Sent
    <3>2. trials # <<>>
      BY <1>1, <1>3, <2>4 DEF Blank
    <3>3. member[n] \in MemberType
      BY <1>1, <2>4
    <3>4. member[n].rev + 1 \in Nat
      BY <3>3 DEF MemberType
    <3>5. member'[n] \in MemberType /\ member'[n].st = "dirty"
      BY <1>5, <3>1, <3>4
    <3> QED BY <2>4, <3>2, <3>5
  <2> QED BY <2>1, <2>2, <2>3, <2>4
<1>6. member' = [n \in NamesOf(g) |-> member'[n]]
  BY DEF RevisedMembers
<1> QED BY <1>4, <1>6

LEMMA RevisedRun ==
    ASSUME RevisionTypeInv, RunInv, NEW g, Wf(g), Revised(g)
    PROVE  RunInv'
<1> DEFINE Kept(n) == n \in NamesOf(topology) /\ n \in NamesOf(g) /\ n \notin revision_affected(g)
<1>m. DOMAIN member = NamesOf(topology) /\ DOMAIN member' = NamesOf(g) /\ topology' = g
      /\ bypassed' = bypassed
  BY RowsOf, RevisedMembersKeep DEF Revised, RunInv
<1>1. /\ \A n \in NamesOf(g) : Kept(n) => member'[n] = member[n]
      /\ \A n \in NamesOf(g) : ~Kept(n) => member'[n].st \in {"waiting", "dirty"}
      /\ \A n \in NamesOf(g) : trials = <<>> => member'[n] = NewMember
  BY RevisedMembersKeep DEF Revised, RunInv
<1>2. /\ DOMAIN trials' = DOMAIN trials /\ (trials' = <<>> <=> trials = <<>>)
      /\ \A i \in DOMAIN trials :
            /\ trials'[i].node = trials[i].node /\ trials'[i].task = trials[i].task
            /\ trials'[i].inputs = trials[i].inputs /\ trials'[i].st = trials[i].st
            /\ trials[i].node \notin Sent(g) => (trials'[i].old <=> trials[i].old)
      /\ RunningTrials' = RunningTrials /\ RunningNodes' = RunningNodes
  BY RevisedTrials DEF Revised
<1>3. ASSUME NEW n, Kept(n)
      PROVE  /\ ParentsIn(topology', n) = ParentsIn(topology, n)
             /\ topology'.task[n] = topology.task[n]
             /\ \A p \in ParentsIn(topology, n) : member'[p] = member[p]
             /\ InputsNow(n)' = InputsNow(n)
  <2>1. /\ ParentsIn(g, n) = ParentsIn(topology, n) /\ g.task[n] = topology.task[n]
        /\ \A p \in ParentsIn(g, n) : Kept(p)
    BY <1>3, AffectedIsClosed DEF RevisionTypeInv
  <2>2. \A p \in ParentsIn(topology, n) : member'[p] = member[p]
    BY <1>1, <2>1
  <2>3. InputsNow(n)' = InputsNow(n)
    BY <1>m, <2>1, <2>2 DEF InputsNow
  <2> QED BY <1>m, <2>1, <2>2, <2>3
<1>4. ASSUME NEW n \in RunningNodes PROVE Kept(n)
  <2>1. n \in NamesOf(topology) /\ n \notin revision_affected(g)
    BY <1>m, RunningIsRunning DEF RunInv, Revised
  <2>2. NamesOf(topology) \ NamesOf(g) \subseteq revision_affected(g)
    BY AffectedIsClosed DEF RevisionTypeInv
  <2> QED BY <2>1, <2>2
<1> HIDE DEF Kept
<1>5. ASSUME NEW n \in DOMAIN member', member'[n].st = "completed"
      PROVE  Kept(n) /\ n \in DOMAIN member /\ member'[n] = member[n]
  BY <1>m, <1>1, <1>5 DEF Kept
<1>6. Blank'
  BY <1>m, <1>1, <1>2 DEF Blank
<1>7. Undisturbed'
  <2>1. ASSUME NEW i \in DOMAIN trials', trials'[i].st = "running", NEW n, n = trials[i].node
        PROVE  /\ trials'[i].node = n
               /\ n \in DOMAIN member' /\ ~trials'[i].old /\ member'[n].st = "running"
               /\ trials'[i].task = topology'.task[n] /\ trials'[i].inputs = InputsNow(n)'
    <3>1. i \in RunningTrials /\ n \in RunningNodes /\ trials'[i].node = n
      BY <1>2, <2>1 DEF RunningTrials, RunningNodes
    <3>2. Kept(n)
      BY <1>4, <3>1
    <3>3. /\ n \in DOMAIN member /\ ~trials[i].old /\ member[n].st = "running"
          /\ trials[i].task = topology.task[n] /\ trials[i].inputs = InputsNow(n)
      BY <2>1, <3>1 DEF RunInv, Undisturbed, RunningTrials
    <3>4. n \in NamesOf(g) /\ n \notin Sent(g) /\ member'[n] = member[n]
      BY <1>1, <3>2 DEF Kept, Sent
    <3>5. topology'.task[n] = topology.task[n] /\ InputsNow(n)' = InputsNow(n)
      BY <1>3, <3>2
    <3>6. i \in DOMAIN trials
      BY <1>2
    <3>7. ~trials'[i].old
      BY <1>2, <2>1, <3>3, <3>4, <3>6
    <3>8. n \in DOMAIN member'
      BY <1>m, <3>4
    <3> QED BY <1>2, <3>1, <3>3, <3>4, <3>5, <3>6, <3>7, <3>8
  <2> QED BY <2>1 DEF Undisturbed
<1>8. Alone'
  BY <1>2 DEF RunInv, Alone, RunningTrials
<1>9. RunningFed'
  <2>1. ASSUME NEW n \in RunningNodes', NEW p \in ParentsIn(topology', n)
        PROVE  member'[p].st = "completed"
    <3>1. n \in RunningNodes /\ Kept(n)
      BY <1>2, <1>4
    <3>2. p \in ParentsIn(topology, n) /\ member'[p] = member[p]
      BY <1>3, <3>1
    <3> QED BY <3>1, <3>2 DEF RunInv, RunningFed
  <2> QED BY <2>1 DEF RunningFed
<1>10. HeadsKnown'
  BY <1>2, <1>5 DEF RunInv, HeadsKnown
<1>11. CompletedFed'
  <2>1. ASSUME ~bypassed, NEW n \in DOMAIN member', member'[n].st = "completed",
               NEW p \in ParentsIn(topology', n)
        PROVE  member'[p].st = "completed"
    <3>1. Kept(n) /\ n \in DOMAIN member /\ member[n].st = "completed"
      BY <1>5, <2>1
    <3>2. p \in ParentsIn(topology, n) /\ member'[p] = member[p]
      BY <1>3, <3>1
    <3> QED BY <2>1, <3>1, <3>2 DEF RunInv, CompletedFed
  <2> QED BY <1>m, <2>1 DEF CompletedFed
<1>12. UpToDate'
  <2>1. ASSUME ~bypassed, NEW n \in DOMAIN member', member'[n].st = "completed"
        PROVE  LET x == trials'[member'[n].head]
               IN  x.task = topology'.task[n] /\ x.inputs = InputsNow(n)'
    <3>1. Kept(n) /\ n \in DOMAIN member /\ member'[n] = member[n] /\ member[n].st = "completed"
      BY <1>5, <2>1
    <3>2. member[n].head \in DOMAIN trials
      BY <3>1 DEF RunInv, HeadsKnown
    <3>3. topology'.task[n] = topology.task[n] /\ InputsNow(n)' = InputsNow(n)
      BY <1>3, <3>1
    <3>4. trials[member[n].head].task = topology.task[n]
            /\ trials[member[n].head].inputs = InputsNow(n)
      BY <2>1, <3>1 DEF RunInv, UpToDate
    <3>5. /\ trials'[member[n].head].task = trials[member[n].head].task
          /\ trials'[member[n].head].inputs = trials[member[n].head].inputs
      BY <1>2, <3>2
    <3> QED BY <3>1, <3>3, <3>4, <3>5
  <2> QED BY <1>m, <2>1 DEF UpToDate
<1> QED BY <1>6, <1>7, <1>8, <1>9, <1>10, <1>11, <1>12 DEF RunInv

(* A draft that takes the place of a graph when nothing is running.        *)
LEMMA RedraftedRun ==
    ASSUME RevisionTypeInv, RunInv, RunningTrials = {}, NEW g, topology' = g, trials' = trials,
           bypassed' = (bypassed \/ trials # <<>>), DOMAIN member' = NamesOf(g),
           \A n \in NamesOf(g) : member'[n] = NewMember
                                \/ (n \in DOMAIN member /\ member'[n] = member[n])
    PROVE  RunInv' /\ RunningTrials' = {}
<1>1. /\ RunningTrials' = {} /\ RunningNodes' = {}
  BY DEF RunningTrials, RunningNodes
<1>2. Undisturbed' /\ Alone' /\ RunningFed'
  BY <1>1 DEF Undisturbed, Alone, RunningFed, RunningTrials
<1>3. ASSUME trials = <<>>, NEW n \in DOMAIN member' PROVE member'[n] = NewMember
  BY <1>3 DEF RunInv, Blank
<1>4. NewMember.st = "waiting"
  BY DEF NewMember
<1>5. Blank'
  BY <1>3 DEF Blank
<1>6. HeadsKnown'
  BY <1>4 DEF RunInv, HeadsKnown
<1>7. CompletedFed'
  BY <1>3, <1>4 DEF CompletedFed
<1>8. UpToDate'
  BY <1>3, <1>4 DEF UpToDate
<1> QED BY <1>1, <1>2, <1>5, <1>6, <1>7, <1>8 DEF RunInv

(* A step that only changes members that neither run nor are done leaves   *)
(* the inputs of the others alone.                                         *)
KeepsSettled ==
    /\ topology' = topology /\ bypassed' = bypassed /\ DOMAIN member' = DOMAIN member
    /\ \A n \in DOMAIN member : member[n].st = "completed" => member'[n] = member[n]

LEMMA SettledInputs ==
    ASSUME RevisionTypeInv, RunInv, KeepsSettled, NEW n \in DOMAIN member,
           \A p \in ParentsIn(topology, n) : member[p].st = "completed"
    PROVE  InputsNow(n)' = InputsNow(n) /\ \A p \in ParentsIn(topology', n) :
             member'[p].st = "completed"
<1>1. \A p \in ParentsIn(topology, n) : p \in DOMAIN member /\ member'[p] = member[p]
  BY RowsOf DEF KeepsSettled
<1> QED BY <1>1 DEF KeepsSettled, InputsNow

LEMMA RecoveredRun ==
    ASSUME RevisionTypeInv, RunInv, UNCHANGED <<topology, trials, bypassed>>,
           NEW chosen, member' = RecoveryQueued(chosen)
    PROVE  RunInv' /\ member' \in [NamesOf(topology) -> MemberType]
             /\ RunningTrials' = RunningTrials
           /\ (AllDone(member) => AllDone(member'))
<1>1. /\ DOMAIN member' = DOMAIN member
      /\ \A n \in DOMAIN member :
            IF member'[n] = member[n] THEN TRUE
            ELSE /\ member[n].st \in {"failed", "blocked"}
                 /\ \E st \in {"dirty", "waiting"}, cont \in BOOLEAN :
                        member'[n] = [member[n] EXCEPT !.st = st, !.cont = cont]
  <2> DEFINE scope == UNION {downstream_of(topology, r) : r \in chosen}
  <2> DEFINE has(n) == member[n].head # 0 \/ \E i \in LiveTrials(n) : trials[i].st = "completed"
  <2>1. member' = [n \in DOMAIN member |->
            IF n \in scope /\ member[n].st \in {"failed", "blocked"}
            THEN [member[n] EXCEPT !.st = IF has(n) THEN "dirty"
              ELSE "waiting", !.cont = n \in chosen]
            ELSE member[n]]
    BY DEF RecoveryQueued
  <2> HIDE DEF scope, has
  <2>2. ASSUME NEW n \in DOMAIN member, member'[n] # member[n]
        PROVE  /\ member[n].st \in {"failed", "blocked"}
               /\ \E st \in {"dirty", "waiting"}, cont \in BOOLEAN :
                      member'[n] = [member[n] EXCEPT !.st = st, !.cont = cont]
    <3> DEFINE st == IF has(n) THEN "dirty" ELSE "waiting"
    <3> DEFINE cont == n \in chosen
    <3>1. /\ member[n].st \in {"failed", "blocked"}
          /\ member'[n] = [member[n] EXCEPT !.st = st, !.cont = cont]
      BY <2>1, <2>2
    <3>2. st \in {"dirty", "waiting"} /\ cont \in BOOLEAN
      OBVIOUS
    <3> HIDE DEF st, cont
    <3> QED BY <3>1, <3>2
  <2>3. DOMAIN member' = DOMAIN member
    BY <2>1
  <2> QED BY <2>2, <2>3
<1>2. ASSUME NEW n \in DOMAIN member
      PROVE  /\ member'[n] \in MemberType
             /\ member[n].st \notin {"failed", "blocked"} => member'[n] = member[n]
             /\ member'[n] # member[n] => member'[n].st \in {"dirty", "waiting"}
  <2>1. member[n] \in MemberType
    BY RowsOf
  <2>2. CASE member'[n] # member[n]
    <3>1. PICK st \in {"dirty", "waiting"}, cont \in BOOLEAN :
             member'[n] = [member[n] EXCEPT !.st = st, !.cont = cont]
      BY <1>1, <2>2
    <3>2. member'[n] \in MemberType /\ member'[n].st = st
      BY <2>1, <3>1 DEF MemberType
    <3>3. member[n].st \in {"failed", "blocked"}
      BY <1>1, <2>2
    <3> QED BY <3>1, <3>2, <3>3
  <2> QED BY <2>1, <2>2
<1>3. member' \in [NamesOf(topology) -> MemberType]
  <2>1. member' = [n \in NamesOf(topology) |-> member'[n]]
    <3>1. member' = [n \in DOMAIN member |-> member'[n]]
      BY DEF RecoveryQueued
    <3> QED BY <3>1, RowsOf
  <2> QED BY <1>2, <2>1, RowsOf
<1>4. KeepsSettled
  BY <1>1, <1>2 DEF KeepsSettled
<1>5. RunningTrials' = RunningTrials /\ RunningNodes' = RunningNodes
  BY DEF RunningTrials, RunningNodes
<1>6. ASSUME NEW n \in DOMAIN member', member'[n].st \in {"completed", "running"}
      PROVE  n \in DOMAIN member /\ member'[n] = member[n]
  BY <1>1, <1>2, <1>6
<1>7. Blank'
  <2>1. ASSUME trials = <<>>, NEW n \in DOMAIN member' PROVE member'[n] = NewMember
    <3>1. member[n] = NewMember /\ n \in DOMAIN member
      BY <1>1, <2>1 DEF RunInv, Blank
    <3> QED BY <1>2, <3>1 DEF NewMember
  <2> QED BY <2>1 DEF Blank
<1>8. ASSUME NEW n \in RunningNodes
      PROVE  /\ InputsNow(n)' = InputsNow(n) /\ n \in DOMAIN member' /\ member'[n] = member[n]
             /\ \A p \in ParentsIn(topology', n) : member'[p].st = "completed"
  <2>1. n \in DOMAIN member /\ member[n].st = "running"
    BY RunningIsRunning DEF RunInv
  <2>2. \A p \in ParentsIn(topology, n) : member[p].st = "completed"
    BY DEF RunInv, RunningFed
  <2> QED BY <1>1, <1>2, <1>4, <2>1, <2>2, SettledInputs
<1>9. Undisturbed'
  <2>1. ASSUME NEW i \in DOMAIN trials', trials'[i].st = "running", NEW n, n = trials[i].node
        PROVE  /\ trials'[i].node = n
               /\ n \in DOMAIN member' /\ ~trials'[i].old /\ member'[n].st = "running"
               /\ trials'[i].task = topology'.task[n] /\ trials'[i].inputs = InputsNow(n)'
    <3>1. n \in RunningNodes
      BY <2>1 DEF RunningNodes, RunningTrials
    <3>2. /\ ~trials[i].old /\ member[n].st = "running"
          /\ trials[i].task = topology.task[n] /\ trials[i].inputs = InputsNow(n)
      BY <2>1 DEF RunInv, Undisturbed
    <3> QED BY <1>8, <2>1, <3>1, <3>2
  <2> QED BY <2>1 DEF Undisturbed
<1>10. Alone' /\ HeadsKnown'
  BY <1>5, <1>6 DEF RunInv, Alone, HeadsKnown
<1>11. RunningFed'
  BY <1>5, <1>8 DEF RunningFed
<1>12. ASSUME ~bypassed, NEW n \in DOMAIN member', member'[n].st = "completed"
       PROVE  /\ n \in DOMAIN member /\ member'[n] = member[n] /\ InputsNow(n)' = InputsNow(n)
              /\ \A p \in ParentsIn(topology', n) : member'[p].st = "completed"
  <2>1. n \in DOMAIN member /\ member'[n] = member[n]
    BY <1>6, <1>12
  <2>2. \A p \in ParentsIn(topology, n) : member[p].st = "completed"
    BY <1>12, <2>1 DEF RunInv, CompletedFed
  <2> QED BY <1>4, <2>1, <2>2, SettledInputs
<1>13. CompletedFed'
  BY <1>12 DEF CompletedFed
<1>14. UpToDate'
  <2>1. ASSUME ~bypassed, NEW n \in DOMAIN member', member'[n].st = "completed"
        PROVE  LET x == trials'[member'[n].head]
               IN  x.task = topology'.task[n] /\ x.inputs = InputsNow(n)'
    BY <1>12, <2>1 DEF RunInv, UpToDate
  <2> QED BY <2>1 DEF UpToDate
<1>15. AllDone(member) => AllDone(member')
  <2>1. ASSUME NEW n \in DOMAIN member, member[n].st = "completed" PROVE member'[n].st = "completed"
    BY <1>2, <2>1
  <2> QED BY <1>1, <2>1 DEF AllDone
<1> QED BY <1>3, <1>5, <1>7, <1>9, <1>10, <1>11, <1>13, <1>14, <1>15 DEF RunInv

(* A running attempt ends.                                                 *)
LEMMA EndedRun ==
    ASSUME RevisionTypeInv, RunInv, NEW i \in DOMAIN trials, NEW status \in {"completed", "failed"},
           EndNode(i, status)
    PROVE  RunInv' /\ member' \in [NamesOf(topology) -> MemberType] /\ trials' \in Seq(TrialType)
           /\ RunningTrials' \subseteq RunningTrials /\ RunningTrials # {}
<1>0. /\ trials[i].st = "running" /\ trials' = [trials EXCEPT ![i].st = status]
      /\ topology' = topology /\ bypassed' = bypassed
  BY DEF EndNode
<1> DEFINE e == trials[i].node
<1>1. /\ e \in DOMAIN member /\ ~trials[i].old /\ member[e].st = "running"
      /\ trials[i].task = topology.task[e] /\ trials[i].inputs = InputsNow(e)
      /\ i \in RunningTrials /\ e \in RunningNodes
  BY <1>0 DEF RunInv, Undisturbed, RunningTrials, RunningNodes
<1>2. PICK k : k = e
  OBVIOUS
<1>3. /\ k \in DOMAIN member /\ member[k].st = "running" /\ k \in RunningNodes
      /\ trials[i].task = topology.task[k] /\ trials[i].inputs = InputsNow(k) /\ trials[i].node = k
  BY <1>1, <1>2
<1>4. member' = [member EXCEPT ![k].st = status,
                               ![k].head = IF status = "completed" THEN i ELSE @]
  BY <1>1, <1>2 DEF EndNode
<1> HIDE DEF e
<1>5. trials[i] \in TrialType /\ member[k] \in MemberType /\ i \in Nat
      /\ DOMAIN member = NamesOf(topology)
  BY <1>3, RowsOf
<1>6. /\ DOMAIN member' = DOMAIN member
      /\ \A n \in DOMAIN member : n # k => member'[n] = member[n]
  BY <1>4
<1>7. /\ member'[k].st = status /\ member'[k] \in MemberType
      /\ status = "completed" => member'[k].head = i
  <2>1. PICK h : h = IF status = "completed" THEN i ELSE member[k].head
    OBVIOUS
  <2>2. h \in Nat
    BY <1>5, <2>1 DEF MemberType
  <2>3. member'[k] = [member[k] EXCEPT !.st = status, !.head = h]
    <3>1. CASE status = "completed"
      BY <1>3, <1>4, <2>1, <3>1
    <3>2. CASE status # "completed"
      BY <1>3, <1>4, <1>5, <2>1, <3>2 DEF MemberType
    <3> QED BY <3>1, <3>2
  <2>4. member'[k].st = status /\ member'[k] \in MemberType /\ member'[k].head = h
    BY <1>5, <2>2, <2>3 DEF MemberType
  <2> QED BY <2>1, <2>4
<1>8. /\ DOMAIN trials' = DOMAIN trials /\ trials' \in [DOMAIN trials -> TrialType]
      /\ \A j \in DOMAIN trials : j # i => trials'[j] = trials[j]
      /\ trials'[i].st = status /\ trials'[i].node = k
      /\ trials'[i].task = trials[i].task /\ trials'[i].inputs = trials[i].inputs
  <2>1. trials'[i] = [trials[i] EXCEPT !.st = status]
    BY <1>0
  <2>2. /\ trials'[i] \in TrialType /\ trials'[i].st = status /\ trials'[i].node = k
        /\ trials'[i].task = trials[i].task /\ trials'[i].inputs = trials[i].inputs
    BY <1>3, <1>5, <2>1 DEF TrialType
  <2>3. DOMAIN trials' = DOMAIN trials /\ \A j \in DOMAIN trials : j # i => trials'[j] = trials[j]
    BY <1>0
  <2>4. \A j \in DOMAIN trials : trials'[j] \in TrialType
    BY <2>2, <2>3, RowsOf
  <2>5. trials' = [j \in DOMAIN trials |-> trials'[j]]
    BY <1>0
  <2> QED BY <2>2, <2>3, <2>4, <2>5
<1>9. trials' \in Seq(TrialType) /\ trials # <<>> /\ trials' # <<>>
  <2>1. trials # <<>>
    BY <1>5
  <2> QED BY <2>1, <1>8, RowsRewritten
<1>10. member' \in [NamesOf(topology) -> MemberType]
  <2>1. \A n \in DOMAIN member : member'[n] \in MemberType
    BY <1>6, <1>7, RowsOf
  <2>2. member' = [n \in DOMAIN member |-> member'[n]]
    BY <1>4
  <2> QED BY <1>5, <2>1, <2>2
<1>11. RunningTrials' = RunningTrials \ {i}
  BY <1>8 DEF RunningTrials
<1>12. ASSUME NEW n \in DOMAIN member, \A p \in ParentsIn(topology, n) : member[p].st = "completed"
       PROVE  /\ InputsNow(n)' = InputsNow(n)
              /\ \A p \in ParentsIn(topology', n) : member'[p].st = "completed"
  <2>1. KeepsSettled
    BY <1>0, <1>3, <1>6 DEF KeepsSettled
  <2> QED BY <1>12, <2>1, SettledInputs
<1>13. \A p \in ParentsIn(topology, k) : member[p].st = "completed"
  BY <1>3 DEF RunInv, RunningFed
<1>14. ASSUME NEW j \in RunningTrials', NEW n, n = trials[j].node
       PROVE  /\ j \in RunningTrials /\ j # i /\ trials'[j] = trials[j] /\ n # k
              /\ n \in DOMAIN member /\ member'[n] = member[n] /\ n \in RunningNodes
              /\ InputsNow(n)' = InputsNow(n)
              /\ \A p \in ParentsIn(topology', n) : member'[p].st = "completed"
  <2>1. j \in RunningTrials /\ j # i /\ trials'[j] = trials[j]
    BY <1>8, <1>11 DEF RunningTrials
  <2>2. n # k
    BY <1>1, <1>3, <1>14, <2>1 DEF RunInv, Alone
  <2>3. n \in RunningNodes /\ n \in DOMAIN member
    BY <1>14, <2>1, RunningIsRunning DEF RunInv, RunningNodes
  <2>4. \A p \in ParentsIn(topology, n) : member[p].st = "completed"
    BY <2>3 DEF RunInv, RunningFed
  <2> QED BY <1>6, <1>12, <2>1, <2>2, <2>3, <2>4
<1>15. Blank'
  BY <1>9 DEF Blank
<1>16. Undisturbed'
  <2>1. ASSUME NEW j \in DOMAIN trials', trials'[j].st = "running", NEW n, n = trials[j].node
        PROVE  /\ trials'[j].node = n
               /\ n \in DOMAIN member' /\ ~trials'[j].old /\ member'[n].st = "running"
               /\ trials'[j].task = topology'.task[n] /\ trials'[j].inputs = InputsNow(n)'
    <3>1. j \in RunningTrials'
      BY <2>1 DEF RunningTrials
    <3>2. /\ j \in RunningTrials /\ trials'[j] = trials[j] /\ n \in DOMAIN member
          /\ member'[n] = member[n] /\ InputsNow(n)' = InputsNow(n)
      BY <1>14, <2>1, <3>1
    <3>3. /\ ~trials[j].old /\ member[n].st = "running"
          /\ trials[j].task = topology.task[n] /\ trials[j].inputs = InputsNow(n)
      BY <2>1, <3>2 DEF RunInv, Undisturbed, RunningTrials
    <3> QED BY <1>0, <1>6, <2>1, <3>2, <3>3
  <2> QED BY <1>8, <2>1 DEF Undisturbed
<1>17. Alone'
  BY <1>14 DEF RunInv, Alone
<1>18. RunningFed'
  <2>1. ASSUME NEW n \in RunningNodes'
        PROVE  \A p \in ParentsIn(topology', n) : member'[p].st = "completed"
    <3>1. PICK j \in RunningTrials' : n = trials'[j].node
      BY <2>1 DEF RunningNodes
    <3>2. trials'[j] = trials[j]
      BY <1>14
    <3> QED BY <1>14, <3>1, <3>2
  <2> QED BY <2>1 DEF RunningFed
<1>19. HeadsKnown'
  <2>1. ASSUME NEW n \in DOMAIN member',
          member'[n].st = "completed" PROVE member'[n].head \in DOMAIN trials'
    BY <1>6, <1>7, <1>8, <2>1 DEF RunInv, HeadsKnown
  <2> QED BY <2>1 DEF HeadsKnown
<1>20. ASSUME ~bypassed, NEW n \in DOMAIN member', member'[n].st = "completed"
       PROVE  /\ \A p \in ParentsIn(topology', n) : member'[p].st = "completed"
              /\ trials'[member'[n].head].task = topology'.task[n]
              /\ trials'[member'[n].head].inputs = InputsNow(n)'
  <2>1. CASE n = k
    <3>1. member'[n].head = i
      BY <1>7, <1>20, <2>1
    <3> QED BY <1>0, <1>3, <1>8, <1>12, <1>13, <2>1, <3>1
  <2>2. CASE n # k
    <3>1. n \in DOMAIN member /\ member'[n] = member[n] /\ member[n].st = "completed"
      BY <1>6, <1>20, <2>2
    <3>2. \A p \in ParentsIn(topology, n) : member[p].st = "completed"
      BY <1>20, <3>1 DEF RunInv, CompletedFed
    <3>3. /\ member[n].head \in DOMAIN trials /\ trials[member[n].head].task = topology.task[n]
          /\ trials[member[n].head].inputs = InputsNow(n)
      BY <1>20, <3>1 DEF RunInv, HeadsKnown, UpToDate
    <3>4. /\ trials'[member[n].head].task = trials[member[n].head].task
          /\ trials'[member[n].head].inputs = trials[member[n].head].inputs
      BY <1>8, <3>3
    <3> QED BY <1>0, <1>12, <3>1, <3>2, <3>3, <3>4
  <2> QED BY <2>1, <2>2
<1>21. CompletedFed' /\ UpToDate'
  BY <1>0, <1>20 DEF CompletedFed, UpToDate
<1> QED BY <1>1, <1>9, <1>10, <1>11, <1>15, <1>16, <1>17, <1>18, <1>19, <1>21 DEF RunInv

(* A finite set as a list of its elements.                                 *)
LEMMA SetToSeqLists ==
    ASSUME NEW S, IsFiniteSet(S)
    PROVE  /\ SetToSeq(S) \in Seq(S) /\ Len(SetToSeq(S)) = Cardinality(S) /\ Cardinality(S) \in Nat
           /\ \A i, j \in 1..Cardinality(S) : SetToSeq(S)[i] = SetToSeq(S)[j] => i = j
<1>1. Cardinality(S) \in Nat /\ ExistsBijection(1..Cardinality(S), S)
  BY FS_CardinalityType
<1>2. PICK f : f \in [1..Cardinality(S) -> S] /\ IsInjective(f)
  BY <1>1 DEF ExistsBijection, Bijection, Injection
<1>3. SetToSeq(S) \in [1..Cardinality(S) -> S] /\ IsInjective(SetToSeq(S))
  <2> HIDE DEF IsInjective
  <2> QED BY <1>2, Zenon DEF SetToSeq
<1>4. PICK s : s = SetToSeq(S)
  OBVIOUS
<1>5. s \in [1..Cardinality(S) -> S] /\ \A i, j \in 1..Cardinality(S) : s[i] = s[j] => i = j
  BY <1>3, <1>4 DEF IsInjective
<1> QED BY <1>1, <1>4, <1>5

(* The jobs that the driver takes: one new attempt of every ready node     *)
(* after those there are.                                                  *)
LEMMA StartedTrials ==
    ASSUME RevisionTypeInv, trials' = TrialsStarted
    PROVE  /\ trials' \in Seq(TrialType)
           /\ DOMAIN trials \subseteq DOMAIN trials'
           /\ trials' = <<>> => trials = <<>> /\ Ready = {}
           /\ \A i \in DOMAIN trials :
                 /\ trials'[i].node = trials[i].node /\ trials'[i].task = trials[i].task
                 /\ trials'[i].inputs = trials[i].inputs /\ trials'[i].st = trials[i].st
                 /\ trials[i].node \notin Ready => (trials'[i].old <=> trials[i].old)
           /\ \A i \in DOMAIN trials' \ DOMAIN trials : \E n \in Ready : trials'[i] = Trial(n)
           /\ \A i, j \in DOMAIN trials' \ DOMAIN trials : trials'[i] = trials'[j] => i = j
<1> DEFINE kept == [i \in DOMAIN trials |->
       [trials[i] EXCEPT !.old = @ \/ \E n \in Ready : trials[i].node = n /\ ~Resumes(n)]]
<1> DEFINE new == SetToSeq({Trial(n) : n \in Ready})
<1>1. trials' = kept \o new
  BY DEF TrialsStarted
<1>2. ASSUME NEW i \in DOMAIN trials
      PROVE  /\ kept[i] \in TrialType
             /\ kept[i].node = trials[i].node /\ kept[i].task = trials[i].task
             /\ kept[i].inputs = trials[i].inputs /\ kept[i].st = trials[i].st
             /\ trials[i].node \notin Ready => (kept[i].old <=> trials[i].old)
  <2> DEFINE b == trials[i].old \/ \E n \in Ready : trials[i].node = n /\ ~Resumes(n)
  <2>1. /\ b \in BOOLEAN /\ kept[i] = [trials[i] EXCEPT !.old = b] /\ trials[i] \in TrialType
        /\ trials[i].node \notin Ready => (b <=> trials[i].old)
    BY RowsOf
  <2> HIDE DEF b, kept
  <2> QED BY <2>1 DEF TrialType
<1>3. kept \in [DOMAIN trials -> TrialType]
  <2>1. \A i \in DOMAIN trials : kept[i] \in TrialType
    BY <1>2
  <2>2. kept = [i \in DOMAIN trials |-> kept[i]]
    OBVIOUS
  <2> HIDE DEF kept
  <2> QED BY <2>1, <2>2
<1>4. kept \in Seq(TrialType) /\ DOMAIN kept = DOMAIN trials /\ (kept = <<>> <=> trials = <<>>)
  <2> HIDE DEF kept
  <2> QED BY <1>3, RowsRewritten
<1> HIDE DEF kept
<1>5. {Trial(n) : n \in Ready} \subseteq TrialType
  <2>1. ASSUME NEW n \in Ready PROVE Trial(n) \in TrialType
    <3>1. n \in DOMAIN member /\ n \in NamesOf(topology) /\ n \in Universe
            /\ topology.task[n] \in Texts
      BY RowsOf DEF Ready, RevisionTypeInv, Wf, Drawn
    <3>2. InputsNow(n) \in SUBSET (Universe \X Nat)
      <4>1. ASSUME NEW p \in ParentsIn(topology, n) PROVE p \in Universe /\ member[p].head \in Nat
        <5>1. p \in DOMAIN member /\ p \in NamesOf(topology) /\ member[p] \in MemberType
          BY RowsOf
        <5> QED BY <5>1 DEF MemberType, RevisionTypeInv, Wf, Drawn
      <4> QED BY <4>1 DEF InputsNow
    <3>3. PICK inp \in SUBSET (Universe \X Nat) : inp = InputsNow(n)
      BY <3>2
    <3>4. PICK txt \in Texts : txt = topology.task[n]
      BY <3>1
    <3>5. Trial(n) = [node |-> n, task |-> txt, inputs |-> inp, st |-> "running",
                      old |-> FALSE, halt |-> FALSE]
      BY <3>3, <3>4 DEF Trial
    <3> QED BY <3>1, <3>5 DEF TrialType
  <2> QED BY <2>1
<1>6. IsFiniteSet({Trial(n) : n \in Ready})
  <2>1. IsFiniteSet(Ready)
    BY RowsOf, FS_Subset DEF Ready
  <2> DEFINE row == [n \in Ready |-> Trial(n)]
  <2>2. {row[n] : n \in Ready} = {Trial(n) : n \in Ready}
    OBVIOUS
  <2>3. IsFiniteSet({row[n] : n \in Ready})
    <3> HIDE DEF row
    <3>1. row \in [Ready -> {row[n] : n \in Ready}]
      BY DEF row
    <3>2. row \in Surjection(Ready, {row[n] : n \in Ready})
      BY <3>1 DEF Surjection
    <3> QED BY <2>1, <3>2, FS_Surjection
  <2> QED BY <2>2, <2>3
<1>7. PICK S : S = {Trial(n) : n \in Ready}
  OBVIOUS
<1>8. /\ new \in Seq(S) /\ Len(new) = Cardinality(S) /\ Cardinality(S) \in Nat
      /\ \A i, j \in 1..Cardinality(S) : new[i] = new[j] => i = j
  BY <1>6, <1>7, SetToSeqLists
<1> HIDE DEF new
<1>9. S \subseteq TrialType
  BY <1>5, <1>7
<1>10. new \in Seq(TrialType)
  BY <1>8, <1>9
<1>11. /\ trials' \in Seq(TrialType) /\ Len(trials') = Len(kept) + Len(new)
       /\ Len(kept) \in Nat /\ Len(new) \in Nat
       /\ \A i \in 1..Len(kept) : trials'[i] = kept[i]
       /\ \A i \in Len(kept) + 1..Len(kept) + Len(new) : trials'[i] = new[i - Len(kept)]
  BY <1>1, <1>4, <1>10
<1>12. DOMAIN kept = 1..Len(kept) /\ DOMAIN new = 1..Len(new) /\ DOMAIN trials' = 1..Len(trials')
  BY <1>4, <1>10, <1>11
<1>13. ASSUME NEW i \in DOMAIN trials' \ DOMAIN trials
       PROVE  i - Len(kept) \in 1..Cardinality(S) /\ trials'[i] = new[i - Len(kept)]
  BY <1>4, <1>8, <1>11, <1>12
<1>14. ASSUME NEW i \in DOMAIN trials' \ DOMAIN trials PROVE \E n \in Ready : trials'[i] = Trial(n)
  <2>1. trials'[i] \in S
    BY <1>8, <1>12, <1>13
  <2> QED BY <1>7, <2>1
<1>15. ASSUME NEW i \in DOMAIN trials' \ DOMAIN trials, NEW j \in DOMAIN trials' \ DOMAIN trials,
              trials'[i] = trials'[j]
       PROVE  i = j
  BY <1>8, <1>11, <1>12, <1>13, <1>15
<1>16. ASSUME NEW i \in DOMAIN trials PROVE i \in DOMAIN trials' /\ trials'[i] = kept[i]
  BY <1>4, <1>11, <1>12
<1>17. ASSUME trials' = <<>> PROVE trials = <<>> /\ Ready = {}
  <2>1. Len(trials') = 0
    BY <1>17
  <2>2. Len(kept) = 0 /\ Cardinality(S) = 0
    BY <1>8, <1>11, <2>1
  <2>3. S = {}
    BY <1>6, <1>7, <2>2, FS_EmptySet
  <2>4. Ready = {}
    BY <1>7, <2>3
  <2>5. kept = <<>>
    BY <1>4, <2>2
  <2> QED BY <1>4, <2>4, <2>5
<1> QED BY <1>2, <1>11, <1>14, <1>15, <1>16, <1>17

LEMMA StartedMembers ==
    ASSUME RevisionTypeInv, member' = MembersStarted
    PROVE  /\ member' \in [NamesOf(topology) -> MemberType] /\ DOMAIN member' = DOMAIN member
           /\ \A n \in Ready : member'[n].st = "running"
           /\ \A n \in DOMAIN member \ Ready :
                 /\ member[n].st \in {"completed", "running"} => member'[n] = member[n]
                 /\ member'[n] # member[n] => member'[n].st \in {"waiting", "blocked"}
           /\ Ready = {} /\ (\A n \in DOMAIN member : member[n].st \notin {"failed", "blocked"})
                => member' = member
<1> DEFINE woken == UNION {downstream_of(topology, n) : n \in Ready}
<1>1. member' = [n \in DOMAIN member |->
        IF n \in Ready THEN [member[n] EXCEPT !.st = "running", !.cont = FALSE]
        ELSE IF n \in ToBlock \/ member[n].st = "blocked"
        THEN [member[n] EXCEPT !.st = IF n \in woken THEN "waiting" ELSE "blocked"]
        ELSE member[n]]
  BY DEF MembersStarted
<1> HIDE DEF woken
<1>2. DOMAIN member' = DOMAIN member
  BY <1>1
<1>b. /\ ToBlock \subseteq {n \in DOMAIN member : Pending(n)}
      /\ (\A n \in DOMAIN member : member[n].st \notin {"failed", "blocked"}) => ToBlock = {}
  BY BlocksPending, RowsOf
<1>3. ASSUME NEW n \in Ready PROVE member'[n] \in MemberType /\ member'[n].st = "running"
  <2>1. n \in DOMAIN member /\ member[n] \in MemberType
    BY RowsOf DEF Ready
  <2>2. member'[n] = [member[n] EXCEPT !.st = "running", !.cont = FALSE]
    BY <1>1, <2>1
  <2> QED BY <2>1, <2>2 DEF MemberType
<1>4. ASSUME NEW n \in DOMAIN member \ Ready
      PROVE  /\ member'[n] \in MemberType
             /\ member[n].st \in {"completed", "running"} => member'[n] = member[n]
             /\ member'[n] # member[n] =>
                   /\ member'[n].st \in {"waiting", "blocked"}
                   /\ n \in ToBlock \/ member[n].st = "blocked"
  <2>1. member[n] \in MemberType
    BY RowsOf
  <2>2. CASE n \in ToBlock \/ member[n].st = "blocked"
    <3>1. PICK st \in {"waiting", "blocked"} : member'[n] = [member[n] EXCEPT !.st = st]
      BY <1>1, <2>2
    <3>2. member'[n] \in MemberType /\ member'[n].st = st
      BY <2>1, <3>1 DEF MemberType
    <3>3. member[n].st \notin {"completed", "running"}
      BY <1>b, <2>2 DEF Pending
    <3> QED BY <2>2, <3>2, <3>3
  <2>3. CASE ~(n \in ToBlock \/ member[n].st = "blocked")
    <3>1. member'[n] = member[n]
      BY <1>1, <2>3
    <3> QED BY <2>1, <3>1
  <2> QED BY <2>2, <2>3
<1>5. member' \in [NamesOf(topology) -> MemberType]
  <2>1. \A n \in DOMAIN member : member'[n] \in MemberType
    BY <1>3, <1>4
  <2>2. member' = [n \in DOMAIN member |-> member'[n]]
    BY <1>1
  <2>3. DOMAIN member = NamesOf(topology)
    BY RowsOf
  <2> QED BY <2>1, <2>2, <2>3
<1>6. ASSUME Ready = {}, \A n \in DOMAIN member : member[n].st \notin {"failed", "blocked"}
      PROVE  member' = member
  <2>1. \A n \in DOMAIN member : member'[n] = member[n]
    BY <1>4, <1>6, <1>b
  <2>2. member' = [n \in DOMAIN member |-> member'[n]]
          /\ member = [n \in DOMAIN member |-> member[n]]
    BY <1>1 DEF RevisionTypeInv
  <2> QED BY <2>1, <2>2
<1> QED BY <1>2, <1>3, <1>4, <1>5, <1>6

LEMMA StartedRun ==
    ASSUME RevisionTypeInv, RunInv, UNCHANGED <<topology, bypassed>>,
           member' = MembersStarted, trials' = TrialsStarted
    PROVE  RunInv' /\ (AllDone(member) => AllDone(member'))
<1>1. /\ DOMAIN member' = DOMAIN member
      /\ \A n \in Ready : member'[n].st = "running"
      /\ \A n \in DOMAIN member \ Ready :
            /\ member[n].st \in {"completed", "running"} => member'[n] = member[n]
            /\ member'[n] # member[n] => member'[n].st \in {"waiting", "blocked"}
      /\ Ready = {} /\ (\A n \in DOMAIN member : member[n].st \notin {"failed", "blocked"})
           => member' = member
  BY StartedMembers
<1>2. /\ DOMAIN trials \subseteq DOMAIN trials'
      /\ trials' = <<>> => trials = <<>> /\ Ready = {}
      /\ \A i \in DOMAIN trials :
            /\ trials'[i].node = trials[i].node /\ trials'[i].task = trials[i].task
            /\ trials'[i].inputs = trials[i].inputs /\ trials'[i].st = trials[i].st
            /\ trials[i].node \notin Ready => (trials'[i].old <=> trials[i].old)
      /\ \A i \in DOMAIN trials' \ DOMAIN trials : \E n \in Ready : trials'[i] = Trial(n)
      /\ \A i, j \in DOMAIN trials' \ DOMAIN trials : trials'[i] = trials'[j] => i = j
  BY StartedTrials
<1>3. \A n \in Ready : /\ n \in DOMAIN member /\ Pending(n) /\ n \notin RunningNodes
                       /\ \A p \in ParentsIn(topology, n) : member[p].st = "completed"
  BY DEF Ready
<1>4. KeepsSettled
  <2>1. ASSUME NEW n \in DOMAIN member, member[n].st = "completed" PROVE member'[n] = member[n]
    BY <1>1, <1>3, <2>1 DEF Pending
  <2> QED BY <1>1, <2>1 DEF KeepsSettled
<1>5. Blank'
  <2>1. ASSUME trials' = <<>>, NEW n \in DOMAIN member' PROVE member'[n] = NewMember
    <3>1. Ready = {} /\ \A m \in DOMAIN member : member[m] = NewMember
      BY <1>2, <2>1 DEF RunInv, Blank
    <3>2. NewMember.st \notin {"failed", "blocked"}
      BY DEF NewMember
    <3> QED BY <1>1, <2>1, <3>1, <3>2
  <2> QED BY <2>1 DEF Blank
<1>6. ASSUME NEW i \in RunningTrials'
      PROVE  /\ i \in DOMAIN trials => i \in RunningTrials /\ trials[i].node \notin Ready
             /\ i \notin DOMAIN trials => \E n \in Ready : trials'[i] = Trial(n)
  <2>1. i \in DOMAIN trials' /\ trials'[i].st = "running"
    BY DEF RunningTrials
  <2>2. ASSUME i \in DOMAIN trials PROVE i \in RunningTrials /\ trials[i].node \notin Ready
    <3>1. i \in RunningTrials
      BY <1>2, <2>1, <2>2 DEF RunningTrials
    <3> QED BY <1>3, <3>1 DEF RunningNodes
  <2> QED BY <1>2, <2>1, <2>2
<1>7. ASSUME NEW i \in RunningTrials', NEW n, n = trials'[i].node
      PROVE  /\ n \in DOMAIN member' /\ ~trials'[i].old /\ member'[n].st = "running"
             /\ trials'[i].task = topology'.task[n] /\ trials'[i].inputs = InputsNow(n)'
             /\ \A p \in ParentsIn(topology', n) : member'[p].st = "completed"
  <2>1. CASE i \in DOMAIN trials
    <3>1. i \in RunningTrials /\ trials[i].node = n /\ n \notin Ready
      BY <1>2, <1>6, <1>7, <2>1
    <3>2. /\ n \in DOMAIN member /\ ~trials[i].old /\ member[n].st = "running"
          /\ trials[i].task = topology.task[n] /\ trials[i].inputs = InputsNow(n)
      BY <3>1 DEF RunInv, Undisturbed, RunningTrials
    <3>3. \A p \in ParentsIn(topology, n) : member[p].st = "completed"
      BY <3>1 DEF RunInv, RunningFed, RunningNodes
    <3>4. member'[n] = member[n]
      BY <1>1, <3>1, <3>2
    <3>5. /\ InputsNow(n)' = InputsNow(n)
          /\ \A p \in ParentsIn(topology', n) : member'[p].st = "completed"
      BY <1>4, <3>2, <3>3, SettledInputs
    <3>6. ~trials'[i].old
      BY <1>2, <2>1, <3>1, <3>2
    <3> QED BY <1>1, <1>2, <2>1, <3>2, <3>4, <3>5, <3>6
  <2>2. CASE i \notin DOMAIN trials
    <3>1. PICK m \in Ready : trials'[i] = Trial(m)
      BY <1>6, <2>2
    <3>2. /\ trials'[i].node = m /\ trials'[i].task = topology.task[m] /\ ~trials'[i].old
          /\ trials'[i].inputs = InputsNow(m)
      BY <3>1 DEF Trial
    <3>3. m = n
      BY <1>7, <3>2
    <3>4. /\ InputsNow(n)' = InputsNow(n)
          /\ \A p \in ParentsIn(topology', n) : member'[p].st = "completed"
      BY <1>3, <1>4, <3>1, <3>3, SettledInputs
    <3> QED BY <1>1, <1>3, <3>1, <3>2, <3>3, <3>4
  <2> QED BY <2>1, <2>2
<1>8. Undisturbed'
  <2>1. ASSUME NEW i \in DOMAIN trials', trials'[i].st = "running", NEW n, n = trials'[i].node
        PROVE  /\ n \in DOMAIN member' /\ ~trials'[i].old /\ member'[n].st = "running"
               /\ trials'[i].task = topology'.task[n] /\ trials'[i].inputs = InputsNow(n)'
    BY <1>7, <2>1 DEF RunningTrials
  <2> QED BY <2>1 DEF Undisturbed
<1>9. Alone'
  <2>1. ASSUME NEW i \in RunningTrials', NEW j \in RunningTrials', trials'[i].node = trials'[j].node
        PROVE  i = j
    <3>1. CASE i \in DOMAIN trials /\ j \in DOMAIN trials
      BY <1>2, <1>6, <2>1, <3>1 DEF RunInv, Alone
    <3>2. CASE i \in DOMAIN trials /\ j \notin DOMAIN trials
      <4>1. PICK m \in Ready : trials'[j] = Trial(m)
        BY <1>6, <3>2
      <4>2. trials[i].node = m
        BY <1>2, <2>1, <3>2, <4>1 DEF Trial
      <4> QED BY <1>6, <3>2, <4>1, <4>2
    <3>3. CASE i \notin DOMAIN trials /\ j \in DOMAIN trials
      <4>1. PICK m \in Ready : trials'[i] = Trial(m)
        BY <1>6, <3>3
      <4>2. trials[j].node = m
        BY <1>2, <2>1, <3>3, <4>1 DEF Trial
      <4> QED BY <1>6, <3>3, <4>1, <4>2
    <3>4. CASE i \notin DOMAIN trials /\ j \notin DOMAIN trials
      <4>1. PICK m \in Ready : trials'[i] = Trial(m)
        BY <1>6, <3>4
      <4>2. PICK k \in Ready : trials'[j] = Trial(k)
        BY <1>6, <3>4
      <4>3. m = k
        BY <2>1, <4>1, <4>2 DEF Trial
      <4>4. i \in DOMAIN trials' \ DOMAIN trials /\ j \in DOMAIN trials' \ DOMAIN trials
        BY <3>4 DEF RunningTrials
      <4> QED BY <1>2, <4>1, <4>2, <4>3, <4>4
    <3> QED BY <3>1, <3>2, <3>3, <3>4
  <2> QED BY <2>1 DEF Alone
<1>10. RunningFed'
  <2>1. ASSUME NEW n \in RunningNodes'
        PROVE  \A p \in ParentsIn(topology', n) : member'[p].st = "completed"
    <3>1. PICK i \in RunningTrials' : n = trials'[i].node
      BY <2>1 DEF RunningNodes
    <3> QED BY <1>7, <3>1
  <2> QED BY <2>1 DEF RunningFed
<1>11. ASSUME NEW n \in DOMAIN member', member'[n].st = "completed"
       PROVE  n \in DOMAIN member /\ member'[n] = member[n] /\ member[n].st = "completed"
  BY <1>1, <1>11
<1>12. HeadsKnown'
  BY <1>2, <1>11 DEF RunInv, HeadsKnown
<1>13. ASSUME ~bypassed, NEW n \in DOMAIN member', member'[n].st = "completed"
       PROVE  /\ \A p \in ParentsIn(topology', n) : member'[p].st = "completed"
              /\ trials'[member'[n].head].task = topology'.task[n]
              /\ trials'[member'[n].head].inputs = InputsNow(n)'
  <2>1. n \in DOMAIN member /\ member'[n] = member[n] /\ member[n].st = "completed"
    BY <1>11, <1>13
  <2>2. \A p \in ParentsIn(topology, n) : member[p].st = "completed"
    BY <1>13, <2>1 DEF RunInv, CompletedFed
  <2>3. /\ member[n].head \in DOMAIN trials /\ trials[member[n].head].task = topology.task[n]
        /\ trials[member[n].head].inputs = InputsNow(n)
    BY <1>13, <2>1 DEF RunInv, HeadsKnown, UpToDate
  <2>4. /\ trials'[member[n].head].task = trials[member[n].head].task
        /\ trials'[member[n].head].inputs = trials[member[n].head].inputs
    BY <1>2, <2>3
  <2> QED BY <1>4, <2>1, <2>2, <2>3, <2>4, SettledInputs
<1>14. CompletedFed' /\ UpToDate'
  BY <1>13 DEF CompletedFed, UpToDate
<1>15. AllDone(member) => AllDone(member')
  BY <1>1, <1>4 DEF KeepsSettled, AllDone
<1> QED BY <1>5, <1>8, <1>9, <1>10, <1>12, <1>14, <1>15 DEF RunInv

(* What every stage of the Run respects, given its members and the         *)
(* attempts that run.                                                      *)
StageOk(s, ms, running) ==
    /\ s \in StageType
    /\ s.phase \in Publication \cup {"completed"} => AllDone(ms)
    /\ s.phase = "awaiting_approval" => ~s.approved
    /\ ~s.approved => running = {}

LEMMA StageIsOk ==
    RevisionTypeInv => (StageInv <=> StageOk(stage, member, RunningTrials) /\ ReviewQuiet)
BY DEF RevisionTypeInv, StageInv, StageOk, DeliversAll, Awaits, Quiet

LEMMA PausedOk ==
    ASSUME NEW s, NEW ms, NEW running, StageOk(s, ms, running), s.approved,
           NEW r, r = Paused(s, TRUE) \/ r = Paused(s, FALSE)
    PROVE  StageOk(r, ms, running) /\ r.approved /\ r.phase \in {"paused", "running"}
<1>1. s \in StageType /\ s.approved
  BY DEF StageOk
<1>2. CASE r = Paused(s, TRUE)
  <2>1. PICK b \in BOOLEAN : b = s.stop
    BY <1>1 DEF StageType
  <2>2. r = [s EXCEPT !.paused = TRUE, !.phase = "paused", !.stop = b]
    BY <1>1, <1>2, <2>1 DEF Paused, StageType
  <2>3. r \in StageType /\ r.phase = "paused" /\ r.approved
    BY <1>1, <2>2 DEF StageType, StagePhases
  <2> QED BY <2>3 DEF StageOk, Publication
<1>3. CASE r = Paused(s, FALSE)
  <2>2. r = [s EXCEPT !.paused = FALSE, !.phase = "running", !.stop = FALSE]
    BY <1>1, <1>3 DEF Paused, StageType
  <2>3. r \in StageType /\ r.phase = "running" /\ r.approved
    BY <1>1, <2>2 DEF StageType, StagePhases
  <2> QED BY <2>3 DEF StageOk, Publication
<1> QED BY <1>2, <1>3

LEMMA ResumedOk ==
    ASSUME NEW s, NEW ms, NEW running, StageOk(s, ms, running), NEW r, r = Resumed(s)
    PROVE  StageOk(r, ms, running)
<1>1. CASE r = s
  BY <1>1
<1>2. CASE r # s
  <2>1. s.approved /\ r = Paused(s, FALSE)
    BY <1>2, Zenon DEF Resumed
  <2> QED BY <2>1, PausedOk
<1> QED BY <1>1, <1>2

LEMMA ReviewedOk ==
    ASSUME NEW s, NEW ms, NEW running, StageOk(s, ms, running), running = {},
           NEW b \in BOOLEAN, NEW r, r = ReviewedStage(s, ms, b)
    PROVE  StageOk(r, ms, running)
<1>1. s \in StageType
  BY DEF StageOk
<1>2. CASE b
  <2>1. r = [s EXCEPT !.approved = FALSE, !.paused = FALSE, !.phase = "awaiting_approval"]
    BY <1>2 DEF ReviewedStage
  <2>2. r \in StageType /\ r.phase = "awaiting_approval" /\ ~r.approved
    BY <1>1, <2>1 DEF StageType, StagePhases
  <2> QED BY <2>2 DEF StageOk, Publication
<1>3. CASE ~b
  <2>1. PICK ph : /\ ph = IF s.stop \/ s.paused THEN "paused" ELSE IF AllDone(ms) THEN "completed"
                       ELSE "running"
                  /\ r = [s EXCEPT !.phase = ph]
    BY <1>3 DEF ReviewedStage
  <2>2. r \in StageType /\ r.phase = ph /\ (ph = "completed" => AllDone(ms))
        /\ ph \in {"paused", "completed", "running"}
    BY <1>1, <2>1 DEF StageType, StagePhases
  <2> QED BY <2>2 DEF StageOk, Publication
<1> QED BY <1>2, <1>3

(* What a step must show, when its new members and attempts are right.     *)
LEMMA StepHolds ==
    ASSUME OccasionOk', DraftingOk', FormOk', Wf(topology'), bypassed' \in BOOLEAN,
           member' \in [NamesOf(topology') -> MemberType], trials' \in Seq(TrialType), RunInv',
           StageOk(stage', member', RunningTrials'), ReviewQuiet'
    PROVE  RevisionInv'
<1>1. stage' \in StageType
  BY DEF StageOk
<1>2. RevisionTypeInv'
  BY <1>1 DEF RevisionTypeInv
<1>3. StageInv'
  BY DEF StageInv, StageOk, DeliversAll, Awaits, Quiet
<1> QED BY <1>2, <1>3 DEF RevisionInv

LEMMA RevisionFacts ==
    RevisionInv => /\ RevisionTypeInv /\ RunInv /\ StageOk(stage, member, RunningTrials)
                   /\ ReviewQuiet
                   /\ OccasionOk /\ DraftingOk /\ FormOk /\ Wf(topology) /\ stage \in StageType
BY StageIsOk DEF RevisionInv, RevisionTypeInv

LEMMA StageSteps ==
    ASSUME RevisionInv, UNCHANGED <<topology, member, trials, bypassed>>, OccasionOk', DraftingOk',
             FormOk',
           StageOk(stage', member, RunningTrials), ReviewQuiet'
    PROVE  RevisionInv'
<1>1. RevisionTypeInv /\ RunInv
  BY RevisionFacts
<1>2. RunInv' /\ RunningTrials' = RunningTrials
  BY <1>1, RunStutters
<1>3. /\ Wf(topology') /\ bypassed' \in BOOLEAN /\ member' \in [NamesOf(topology') -> MemberType]
      /\ trials' \in Seq(TrialType)
  BY <1>1 DEF RevisionTypeInv
<1>4. StageOk(stage', member', RunningTrials')
  BY <1>2
<1> QED BY <1>2, <1>3, <1>4, StepHolds

(* What may still happen changes only in the bounds.                       *)
LEMMA OccasionBounds ==
    ASSUME OccasionOk
    PROVE  /\ occasion' = occasion => OccasionOk'
           /\ \A what : Once(what) => OccasionOk'
           /\ \A k : occasion' = [occasion EXCEPT !.turns = k] => OccasionOk'
           /\ \A k : occasion' = [occasion EXCEPT !.forms = k] => OccasionOk'
           /\ \A k : occasion' = [occasion EXCEPT !.fails = k] => OccasionOk'
           /\ \A k : occasion' = [occasion EXCEPT !.starts = k] => OccasionOk'
BY DEF OccasionOk, Once, Fields

LEMMA KeptForms ==
    /\ form' = form /\ FormOk => FormOk'
    /\ form' = NoForm => FormOk'
    /\ drafting' = drafting /\ DraftingOk => DraftingOk'
    /\ drafting' = NoTurn => DraftingOk' /\ ReviewQuiet'
    /\ drafting' = drafting /\ RunningTrials' \subseteq RunningTrials /\ ReviewQuiet => ReviewQuiet'
<1>1. form' = form /\ FormOk => FormOk'
  BY DEF FormOk
<1>2. form' = NoForm => FormOk'
  BY DEF FormOk, NoForm
<1>3. drafting' = drafting /\ DraftingOk => DraftingOk'
  BY DEF DraftingOk
<1>4. drafting' = NoTurn => DraftingOk' /\ ReviewQuiet'
  BY DEF DraftingOk, ReviewQuiet
<1>5. drafting' = drafting /\ RunningTrials' \subseteq RunningTrials /\ ReviewQuiet => ReviewQuiet'
  BY DEF ReviewQuiet
<1> QED BY <1>1, <1>2, <1>3, <1>4, <1>5

(* Each action keeps the invariant.                                        *)
LEMMA StepApproves == RevisionInv /\ (approve_graph \/ reject_graph) => RevisionInv'
<1> SUFFICES ASSUME RevisionInv, approve_graph \/ reject_graph PROVE RevisionInv'
  OBVIOUS
<1>1. /\ RevisionTypeInv /\ RunInv /\ StageOk(stage, member, RunningTrials) /\ ReviewQuiet
      /\ OccasionOk /\ DraftingOk /\ FormOk /\ stage \in StageType
  BY RevisionFacts
<1>2. /\ UNCHANGED <<topology, member, trials, bypassed>> /\ drafting' = drafting /\ form' = form
      /\ RunningTrials' = RunningTrials
  BY DEF approve_graph, reject_graph, RunningTrials
<1>3. OccasionOk'
  BY <1>1, OccasionBounds DEF approve_graph, reject_graph
<1>4. StageOk(stage', member, RunningTrials)
  <2>1. CASE approve_graph
    <3>1. stage' \in StageType /\ stage'.phase = "running" /\ stage'.approved
      BY <1>1, <2>1 DEF approve_graph, StageType, StagePhases
    <3> QED BY <3>1 DEF StageOk, Publication
  <2>2. CASE reject_graph
    <3>1. stage' \in StageType /\ stage'.phase = "rejected" /\ ~stage'.approved
      BY <1>1, <2>2 DEF reject_graph, StageType, StagePhases
    <3>2. RunningTrials = {}
      BY <1>1, <2>2 DEF reject_graph, StageOk
    <3> QED BY <3>1, <3>2 DEF StageOk, Publication
  <2> QED BY <2>1, <2>2
<1> QED BY <1>1, <1>2, <1>3, <1>4, KeptForms, StageSteps

LEMMA StepPublishes == RevisionInv /\ (PublicationEnds \/ retry_publication) => RevisionInv'
<1> SUFFICES ASSUME RevisionInv, PublicationEnds \/ retry_publication PROVE RevisionInv'
  OBVIOUS
<1>1. /\ RevisionTypeInv /\ RunInv /\ StageOk(stage, member, RunningTrials) /\ ReviewQuiet
      /\ OccasionOk /\ DraftingOk /\ FormOk /\ stage \in StageType
  BY RevisionFacts
<1>2. /\ UNCHANGED <<topology, member, trials, bypassed>> /\ drafting' = drafting /\ form' = form
      /\ RunningTrials' = RunningTrials /\ stage.phase \in Publication
  BY DEF PublicationEnds, retry_publication, RunningTrials, Publication
<1>3. OccasionOk'
  BY <1>1, OccasionBounds DEF PublicationEnds, retry_publication
<1>4. stage' \in StageType /\ stage'.approved = stage.approved
      /\ stage'.phase \in {"completed", "publication_failed", "publishing"}
  <2>1. CASE stage' = PublicationCompleted(stage)
    BY <1>1, <2>1 DEF PublicationCompleted, StageType, StagePhases
  <2>2. CASE stage' = [stage EXCEPT !.phase = "publication_failed", !.paused = TRUE]
    BY <1>1, <2>2 DEF StageType, StagePhases
  <2>3. CASE stage' = [stage EXCEPT !.phase = "publishing", !.paused = FALSE,
          !.heads = @ \ stage.published]
    <3>1. PICK hs \in SUBSET Nat : hs = stage.heads \ stage.published
      BY <1>1 DEF StageType
    <3>2. stage' = [stage EXCEPT !.phase = "publishing", !.paused = FALSE, !.heads = hs]
      BY <1>1, <2>3, <3>1 DEF StageType
    <3> QED BY <1>1, <3>2 DEF StageType, StagePhases
  <2> QED BY <2>1, <2>2, <2>3 DEF PublicationEnds, retry_publication
<1>5. StageOk(stage', member, RunningTrials)
  BY <1>1, <1>2, <1>4 DEF StageOk, Publication
<1> QED BY <1>1, <1>2, <1>3, <1>5, KeptForms, StageSteps

LEMMA StepHalts == RevisionInv /\ (UserPauses \/ UserStops) => RevisionInv'
<1> SUFFICES ASSUME RevisionInv, UserPauses \/ UserStops PROVE RevisionInv'
  OBVIOUS
<1>1. /\ RevisionTypeInv /\ RunInv /\ StageOk(stage, member, RunningTrials) /\ ReviewQuiet
      /\ OccasionOk /\ DraftingOk /\ FormOk /\ stage \in StageType /\ Wf(topology)
  BY RevisionFacts
<1>2. /\ UNCHANGED <<topology, member, bypassed>> /\ form' = form /\ trials' = Halted
  BY DEF UserPauses, UserStops
<1>3. RunInv' /\ trials' \in Seq(TrialType) /\ RunningTrials' = RunningTrials
  BY <1>1, <1>2, RunHalts
<1>4. OccasionOk'
  BY <1>1, OccasionBounds DEF UserPauses, UserStops
<1>5. DraftingOk' /\ ReviewQuiet'
  <2>1. CASE drafting' = drafting
    BY <1>1, <1>3, <2>1, KeptForms
  <2>2. CASE drafting # NoTurn /\ drafting' = [drafting EXCEPT !.cancelled = TRUE]
    <3>1. /\ DOMAIN drafting' = DOMAIN drafting /\ drafting'.pc = drafting.pc
          /\ drafting'.review = drafting.review /\ drafting'.resume = drafting.resume
          /\ drafting'.cancelled \in BOOLEAN /\ drafting'.graph = drafting.graph
      BY <1>1, <2>2 DEF DraftingOk
    <3> QED BY <1>1, <1>3, <2>2, <3>1 DEF DraftingOk, ReviewQuiet
  <2> QED BY <2>1, <2>2 DEF UserPauses, UserStops
<1>6. StageOk(stage', member', RunningTrials')
  <2>1. CASE UserPauses
    <3>1. stage' = Paused(stage, TRUE) /\ stage.approved
      BY <2>1 DEF UserPauses, MayPause
    <3> QED BY <1>1, <1>2, <1>3, <3>1, PausedOk
  <2>2. CASE UserStops
    <3>1. PICK s : s = IF MayPause THEN Paused(stage, TRUE) ELSE stage
      OBVIOUS
    <3>2. StageOk(s, member, RunningTrials)
      <4>1. CASE MayPause
        <5>1. s = Paused(stage, TRUE) /\ stage.approved
          BY <3>1, <4>1 DEF MayPause
        <5> QED BY <1>1, <5>1, PausedOk
      <4>2. CASE ~MayPause
        BY <1>1, <3>1, <4>2
      <4> QED BY <4>1, <4>2
    <3>3. stage' = [s EXCEPT !.stop = TRUE]
      BY <2>2, <3>1 DEF UserStops
    <3>4. s \in StageType
      BY <3>2 DEF StageOk
    <3>5. stage' \in StageType /\ stage'.phase = s.phase /\ stage'.approved = s.approved
      BY <3>3, <3>4 DEF StageType
    <3>6. StageOk(stage', member, RunningTrials)
      BY <3>2, <3>5 DEF StageOk
    <3> QED BY <1>2, <1>3, <3>6
  <2> QED BY <2>1, <2>2
<1>7. Wf(topology') /\ bypassed' \in BOOLEAN /\ member' \in [NamesOf(topology') -> MemberType]
        /\ FormOk'
  BY <1>1, <1>2, KeptForms DEF RevisionTypeInv
<1> QED BY <1>3, <1>4, <1>5, <1>6, <1>7, StepHolds

LEMMA StepResumes == RevisionInv /\ UserResumes => RevisionInv'
<1> SUFFICES ASSUME RevisionInv, UserResumes PROVE RevisionInv'
  OBVIOUS
<1>1. /\ RevisionTypeInv /\ RunInv /\ StageOk(stage, member, RunningTrials) /\ ReviewQuiet
      /\ OccasionOk /\ DraftingOk /\ FormOk /\ stage \in StageType /\ Wf(topology)
  BY RevisionFacts
<1>2. /\ UNCHANGED <<occasion, topology, trials, drafting, form, bypassed>>
      /\ member' = RecoveryQueued(RecoveryRoots) /\ stage' = Paused(stage, FALSE) /\ stage.approved
  BY DEF UserResumes, MayPause
<1>3. RunInv' /\ member' \in [NamesOf(topology) -> MemberType] /\ RunningTrials' = RunningTrials
  BY <1>1, <1>2, RecoveredRun
<1>4. StageOk(stage', member', RunningTrials')
  <2>1. /\ StageOk(stage', member, RunningTrials) /\ stage'.approved
        /\ stage'.phase \in {"paused", "running"}
    BY <1>1, <1>2, PausedOk
  <2> QED BY <2>1 DEF StageOk, Publication
<1>5. /\ Wf(topology') /\ bypassed' \in BOOLEAN /\ member' \in [NamesOf(topology') -> MemberType]
      /\ trials' \in Seq(TrialType)
  BY <1>1, <1>2, <1>3 DEF RevisionTypeInv
<1>6. OccasionOk' /\ DraftingOk' /\ FormOk' /\ ReviewQuiet'
  BY <1>1, <1>2, <1>3, OccasionBounds, KeptForms
<1> QED BY <1>3, <1>4, <1>5, <1>6, StepHolds

LEMMA StepEnds ==
    ASSUME RevisionInv, NEW i \in DOMAIN trials, NodeFinishes(i) \/ NodeFails(i)
    PROVE  RevisionInv'
<1>1. /\ RevisionTypeInv /\ RunInv /\ StageOk(stage, member, RunningTrials) /\ ReviewQuiet
      /\ OccasionOk /\ DraftingOk /\ FormOk /\ stage \in StageType /\ Wf(topology)
  BY RevisionFacts
<1>2. PICK status \in {"completed", "failed"} : EndNode(i, status)
  BY DEF NodeFinishes, NodeFails
<1>3. UNCHANGED <<topology, stage, drafting, form, bypassed>>
  BY <1>2 DEF EndNode
<1>4. /\ RunInv' /\ member' \in [NamesOf(topology) -> MemberType] /\ trials' \in Seq(TrialType)
      /\ RunningTrials' \subseteq RunningTrials /\ RunningTrials # {}
  BY <1>1, <1>2, EndedRun
<1>5. OccasionOk'
  BY <1>1, OccasionBounds DEF NodeFinishes, NodeFails
<1>6. StageOk(stage', member', RunningTrials')
  <2>1. ~AllDone(member)
    BY <1>1, <1>4, RunningIsRunning DEF RunInv
  <2> QED BY <1>1, <1>3, <1>4, <2>1 DEF StageOk
<1>7. DraftingOk' /\ FormOk' /\ ReviewQuiet'
  BY <1>1, <1>3, <1>4, KeptForms
<1>8. Wf(topology') /\ bypassed' \in BOOLEAN /\ member' \in [NamesOf(topology') -> MemberType]
  BY <1>1, <1>3, <1>4 DEF RevisionTypeInv
<1> QED BY <1>4, <1>5, <1>6, <1>7, <1>8, StepHolds

LEMMA StepStarts == RevisionInv /\ jobs_with_pending_feedback => RevisionInv'
<1> SUFFICES ASSUME RevisionInv, jobs_with_pending_feedback PROVE RevisionInv'
  OBVIOUS
<1>1. /\ RevisionTypeInv /\ RunInv /\ StageOk(stage, member, RunningTrials) /\ ReviewQuiet
      /\ OccasionOk /\ DraftingOk /\ FormOk /\ stage \in StageType /\ Wf(topology)
  BY RevisionFacts
<1>2. /\ UNCHANGED <<topology, drafting, form, bypassed>> /\ member' = MembersStarted
      /\ trials' = TrialsStarted /\ stage' = StageAfterJobs
      /\ drafting = NoTurn /\ stage.approved /\ stage.phase \notin Publication \cup {"completed"}
  BY DEF jobs_with_pending_feedback, Schedules
<1>3. RunInv' /\ (AllDone(member) => AllDone(member'))
  BY <1>1, <1>2, StartedRun
<1>4. member' \in [NamesOf(topology) -> MemberType] /\ trials' \in Seq(TrialType)
  BY <1>1, <1>2, StartedMembers, StartedTrials
<1>5. OccasionOk'
  BY <1>1, OccasionBounds DEF jobs_with_pending_feedback
<1>6. StageOk(stage', member', RunningTrials')
  <2>1. stage.phase # "awaiting_approval"
    BY <1>1, <1>2 DEF StageOk
  <2>2. UndeliveredHeads \in SUBSET Nat
    <3>1. ASSUME NEW n \in TerminalsOf(topology) PROVE member[n].head \in Nat
      <4>1. n \in DOMAIN member
        BY <1>1, RowsOf DEF TerminalsOf
      <4>2. member[n] \in MemberType
        BY <1>1, <4>1, RowsOf
      <4> QED BY <4>2 DEF MemberType
    <3> QED BY <3>1 DEF UndeliveredHeads
  <2>3. PICK hs \in SUBSET Nat : hs = UndeliveredHeads
    BY <2>2
  <2>4. \/ stage' = [stage EXCEPT !.phase = IF @ = "needs_attention" THEN "running" ELSE @]
        \/ stage' = stage
        \/ stage' = [stage EXCEPT !.phase = "needs_attention"]
        \/ AllDone(member) /\ stage' = [stage EXCEPT !.phase = "completed"]
        \/ AllDone(member) /\ stage'
             = [stage EXCEPT !.phase = "publishing", !.paused = FALSE, !.heads = hs]
    BY <1>2, <2>3, Zenon DEF StageAfterJobs
  <2>5. /\ stage' \in StageType /\ stage'.approved = stage.approved
        /\ stage'.phase \in {stage.phase, "running", "needs_attention", "completed", "publishing"}
        /\ stage'.phase \in {"completed", "publishing"} => AllDone(member)
    <3>1. CASE stage' = [stage EXCEPT !.phase = IF @ = "needs_attention" THEN "running" ELSE @]
      <4>1. PICK ph : ph = IF stage.phase = "needs_attention" THEN "running" ELSE stage.phase
        OBVIOUS
      <4>2. ph \in StagePhases /\ ph \in {stage.phase, "running"}
              /\ stage' = [stage EXCEPT !.phase = ph]
        BY <1>1, <3>1, <4>1 DEF StageType, StagePhases
      <4>3. stage' \in StageType /\ stage'.approved = stage.approved /\ stage'.phase = ph
        BY <1>1, <4>2 DEF StageType
      <4> QED BY <1>2, <4>2, <4>3 DEF Publication
    <3>2. CASE stage' = stage
      BY <1>1, <1>2, <3>2 DEF Publication
    <3>3. CASE stage' = [stage EXCEPT !.phase = "needs_attention"]
      BY <1>1, <3>3 DEF StageType, StagePhases
    <3>4. CASE AllDone(member) /\ stage' = [stage EXCEPT !.phase = "completed"]
      BY <1>1, <3>4 DEF StageType, StagePhases
    <3>5. CASE AllDone(member)
            /\ stage' = [stage EXCEPT !.phase = "publishing", !.paused = FALSE, !.heads = hs]
      BY <1>1, <2>3, <3>5 DEF StageType, StagePhases
    <3> QED BY <2>4, <3>1, <3>2, <3>3, <3>4, <3>5
  <2> QED BY <1>2, <1>3, <2>1, <2>5 DEF StageOk, Publication
<1>7. DraftingOk' /\ FormOk' /\ ReviewQuiet'
  BY <1>1, <1>2, KeptForms
<1>8. Wf(topology') /\ bypassed' \in BOOLEAN /\ member' \in [NamesOf(topology') -> MemberType]
  BY <1>1, <1>2, <1>4 DEF RevisionTypeInv
<1> QED BY <1>3, <1>4, <1>5, <1>6, <1>7, <1>8, StepHolds

LEMMA CompiledIsWf == ASSUME NEW g, Drawn(g), compiles(g) PROVE Wf(g)
BY DEF Wf, compiles

LEMMA StepTurns == RevisionInv /\ (TurnBegins \/ TurnLaunches \/ TurnDraws \/ TurnDrains) =>
  RevisionInv'
<1> SUFFICES ASSUME RevisionInv, TurnBegins \/ TurnLaunches \/ TurnDraws
      \/ TurnDrains PROVE RevisionInv'
  OBVIOUS
<1>1. /\ RevisionTypeInv /\ RunInv /\ StageOk(stage, member, RunningTrials) /\ ReviewQuiet
      /\ OccasionOk /\ DraftingOk /\ FormOk /\ stage \in StageType /\ Wf(topology)
  BY RevisionFacts
<1>2. UNCHANGED <<topology, member, trials, form, bypassed>> /\ RunningTrials' = RunningTrials
  BY DEF TurnBegins, TurnLaunches, TurnDraws, TurnDrains, RunningTrials
<1>3. OccasionOk' /\ FormOk'
  BY <1>1, <1>2, OccasionBounds, KeptForms DEF TurnBegins, TurnLaunches, TurnDraws, TurnDrains
<1>4. DraftingOk' /\ ReviewQuiet' /\ StageOk(stage', member, RunningTrials)
  <2>1. CASE TurnBegins
    <3>1. PICK review \in BOOLEAN :
            /\ review => stage.approved /\ AllDone(member)
            /\ stage' = IF review THEN [stage EXCEPT !.phase = "planning"] ELSE stage
            /\ drafting' = [pc |-> "begun", review |-> review, resume |-> FALSE,
                 cancelled |-> FALSE,
                            graph |-> topology, fixed |-> {}]
      BY <2>1 DEF TurnBegins
    <3>2. DraftingOk'
      BY <1>1, <3>1 DEF DraftingOk
    <3>3. review => RunningTrials = {}
      BY <1>1, <3>1, RunningIsRunning DEF RunInv
    <3>4. ReviewQuiet'
      BY <1>2, <3>1, <3>3 DEF ReviewQuiet
    <3>5. StageOk(stage', member, RunningTrials)
      <4>1. CASE review
        <5>1. stage' \in StageType /\ stage'.phase = "planning" /\ stage'.approved
          BY <1>1, <3>1, <4>1 DEF StageType, StagePhases
        <5> QED BY <5>1 DEF StageOk, Publication
      <4>2. CASE ~review
        BY <1>1, <3>1, <4>2
      <4> QED BY <4>1, <4>2
    <3> QED BY <3>2, <3>4, <3>5
  <2>2. CASE TurnLaunches
    <3>1. drafting # NoTurn /\ stage' = stage
          /\ drafting' = [drafting EXCEPT !.pc = "drawing", !.fixed = unremovable_nodes]
      BY <2>2 DEF TurnLaunches, NoTurn
    <3>2. /\ DOMAIN drafting' = DOMAIN drafting /\ drafting'.pc = "drawing"
          /\ drafting'.review = drafting.review /\ drafting'.resume = drafting.resume
          /\ drafting'.cancelled = drafting.cancelled /\ drafting'.graph = drafting.graph
      BY <1>1, <3>1 DEF DraftingOk
    <3> QED BY <1>1, <1>2, <3>1, <3>2 DEF DraftingOk, ReviewQuiet
  <2>3. CASE TurnDraws
    <3>1. PICK g \in occasion.drafts \cup {topology} :
            compiles(g) /\ drafting' = [drafting EXCEPT !.pc = "draining", !.graph = g]
      BY <2>3 DEF TurnDraws
    <3>2. drafting # NoTurn /\ stage' = stage
      <4>1. drafting.pc = "drawing" /\ stage' = stage
        BY <2>3, Zenon DEF TurnDraws
      <4>2. NoTurn.pc # "drawing"
        BY DEF NoTurn
      <4> QED BY <4>1, <4>2
    <3>3. Wf(g)
      BY <1>1, <3>1, CompiledIsWf DEF OccasionOk
    <3>4. /\ DOMAIN drafting' = DOMAIN drafting /\ drafting'.pc = "draining"
          /\ drafting'.review = drafting.review /\ drafting'.resume = drafting.resume
          /\ drafting'.cancelled = drafting.cancelled /\ drafting'.graph = g
      BY <1>1, <3>1, <3>2 DEF DraftingOk
    <3> QED BY <1>1, <1>2, <3>2, <3>3, <3>4 DEF DraftingOk, ReviewQuiet
  <2>4. CASE TurnDrains
    <3>1. drafting # NoTurn
      BY <2>4 DEF TurnDrains, NoTurn
    <3>2. \/ /\ stage.approved /\ stage' = Paused(stage, TRUE)
             /\ drafting' = [drafting EXCEPT !.resume = TRUE]
          \/ drafting' = [drafting EXCEPT !.pc = "ready"] /\ stage' = stage
      BY <2>4, Zenon DEF TurnDrains
    <3>3. /\ DOMAIN drafting' = DOMAIN drafting
          /\ drafting'.pc \in {"begun", "drawing", "draining", "ready"}
          /\ drafting'.review = drafting.review /\ drafting'.resume \in BOOLEAN
          /\ drafting'.cancelled = drafting.cancelled /\ drafting'.graph = drafting.graph
      <4>1. CASE drafting' = [drafting EXCEPT !.resume = TRUE]
        BY <1>1, <3>1, <4>1 DEF DraftingOk
      <4>2. CASE drafting' = [drafting EXCEPT !.pc = "ready"]
        BY <1>1, <3>1, <4>2 DEF DraftingOk
      <4> QED BY <3>2, <4>1, <4>2
    <3>4. StageOk(stage', member, RunningTrials)
      BY <1>1, <3>2, PausedOk
    <3> QED BY <1>1, <1>2, <3>1, <3>3, <3>4 DEF DraftingOk, ReviewQuiet
  <2> QED BY <2>1, <2>2, <2>3, <2>4
<1> QED BY <1>2, <1>3, <1>4, StageSteps

LEMMA StepFails == RevisionInv /\ TurnFails => RevisionInv'
<1> SUFFICES ASSUME RevisionInv, TurnFails PROVE RevisionInv'
  OBVIOUS
<1>1. /\ RevisionTypeInv /\ RunInv /\ StageOk(stage, member, RunningTrials) /\ ReviewQuiet
      /\ OccasionOk /\ DraftingOk /\ FormOk /\ stage \in StageType /\ Wf(topology)
  BY RevisionFacts
<1>2. UNCHANGED <<occasion, topology, member, trials, form, bypassed>> /\ drafting' = NoTurn
        /\ drafting # NoTurn
  BY DEF TurnFails
<1>3. PICK captured \in BOOLEAN :
         LET safe == IF captured \/ stage.paused \/ ~MayPause THEN stage ELSE Paused(stage, TRUE)
             s == IF drafting.review THEN ReviewedStage(safe, member, FALSE) ELSE safe
         IN  stage' = IF captured THEN Resumed(s) ELSE s
  BY DEF TurnFails
<1>4. PICK safe : safe = IF captured \/ stage.paused \/ ~MayPause THEN stage
        ELSE Paused(stage, TRUE)
  OBVIOUS
<1>5. PICK s : s = IF drafting.review THEN ReviewedStage(safe, member, FALSE) ELSE safe
  OBVIOUS
<1>6. stage' = IF captured THEN Resumed(s) ELSE s
  BY <1>3, <1>4, <1>5, Zenon
<1>7. StageOk(safe, member, RunningTrials)
  <2>1. CASE safe = stage
    BY <1>1, <2>1
  <2>2. CASE stage.approved /\ safe = Paused(stage, TRUE)
    BY <1>1, <2>2, PausedOk
  <2> QED BY <1>4, <2>1, <2>2, Zenon DEF MayPause
<1>8. StageOk(s, member, RunningTrials)
  <2>1. CASE drafting.review
    <3>1. RunningTrials = {} /\ s = ReviewedStage(safe, member, FALSE)
      BY <1>1, <1>2, <1>5, <2>1 DEF ReviewQuiet
    <3>2. FALSE \in BOOLEAN
      OBVIOUS
    <3> QED BY <1>7, <3>1, <3>2, ReviewedOk
  <2>2. CASE ~drafting.review
    BY <1>5, <1>7, <2>2
  <2> QED BY <2>1, <2>2
<1>9. StageOk(stage', member, RunningTrials)
  BY <1>6, <1>8, ResumedOk
<1>10. OccasionOk' /\ DraftingOk' /\ FormOk' /\ ReviewQuiet'
  BY <1>1, <1>2, OccasionBounds, KeptForms
<1> QED BY <1>2, <1>9, <1>10, StageSteps

LEMMA StepFills == RevisionInv /\ FillForm => RevisionInv'
<1> SUFFICES ASSUME RevisionInv, FillForm PROVE RevisionInv'
  OBVIOUS
<1>1. /\ RevisionTypeInv /\ RunInv /\ StageOk(stage, member, RunningTrials) /\ ReviewQuiet
      /\ OccasionOk /\ DraftingOk /\ FormOk
  BY RevisionFacts
<1>2. UNCHANGED <<topology, member, trials, stage, drafting, bypassed>>
        /\ RunningTrials' = RunningTrials
  BY DEF FillForm, RunningTrials
<1>3. OccasionOk'
  BY <1>1, OccasionBounds DEF FillForm
<1>4. FormOk'
  <2>1. PICK n \in occasion.added : form'.name = n
    BY DEF FillForm
  <2> QED BY <1>1, <2>1 DEF OccasionOk, FormOk
<1> QED BY <1>1, <1>2, <1>3, <1>4, KeptForms, StageSteps

(* The stage after a commit, before a review ends.                         *)
LEMMA RevisedOk ==
    ASSUME NEW running, StageOk(stage, member, running), NEW g, NEW s, s = RevisedStage(g),
           NEW ms, stage.approved => stage.phase \notin Publication /\ (g = topology => ms = member)
    PROVE  StageOk(s, ms, running) /\ s.phase \notin Publication
<1>1. stage \in StageType
  BY DEF StageOk
<1>2. CASE ~stage.approved
  <2>1. s = [stage EXCEPT !.phase = "awaiting_approval"]
    BY <1>2 DEF RevisedStage
  <2>2. s \in StageType /\ s.phase = "awaiting_approval" /\ s.approved = stage.approved
    BY <1>1, <2>1 DEF StageType, StagePhases
  <2> QED BY <1>2, <2>2 DEF StageOk, Publication
<1>3. CASE stage.approved /\ g = topology
  <2>1. s = stage
    BY <1>3 DEF RevisedStage
  <2> QED BY <1>3, <2>1
<1>4. CASE stage.approved /\ g # topology
  <2>1. PICK ph \in {"paused", "running"} : s = [stage EXCEPT !.phase = ph]
    BY <1>4 DEF RevisedStage
  <2>2. s \in StageType /\ s.phase = ph /\ s.approved = stage.approved
    BY <1>1, <2>1 DEF StageType, StagePhases
  <2> QED BY <1>4, <2>2 DEF StageOk, Publication
<1> QED BY <1>2, <1>3, <1>4

CommittedStage(s0, ms, auto) ==
    LET s == [s0 EXCEPT !.stop = FALSE]
        t == IF auto /\ ~s.approved THEN [s EXCEPT !.approved = TRUE, !.phase = "running"] ELSE s
        u == IF drafting.review THEN ReviewedStage(t, ms, ~AllDone(ms) /\ ~auto) ELSE t
    IN  Resumed(u)

LEMMA StageCommits ==
    ASSUME NEW s0, NEW ms, NEW running, StageOk(s0, ms, running), s0.phase \notin Publication,
           drafting.review \in BOOLEAN, drafting.review => running = {},
           NEW auto \in BOOLEAN, NEW v, v = CommittedStage(s0, ms, auto)
    PROVE  StageOk(v, ms, running)
<1>a. PICK s : s = [s0 EXCEPT !.stop = FALSE]
  OBVIOUS
<1>b. PICK t : t = IF auto /\ ~s.approved THEN [s EXCEPT !.approved = TRUE, !.phase = "running"]
        ELSE s
  OBVIOUS
<1>c. PICK u : u = IF drafting.review THEN ReviewedStage(t, ms, ~AllDone(ms) /\ ~auto) ELSE t
  OBVIOUS
<1>d. v = Resumed(u)
  BY <1>a, <1>b, <1>c, Zenon DEF CommittedStage
<1>1. s0 \in StageType
  BY DEF StageOk
<1>2. StageOk(s, ms, running)
  <2>1. s \in StageType /\ s.phase = s0.phase /\ s.approved = s0.approved
    BY <1>1, <1>a DEF StageType
  <2> QED BY <2>1 DEF StageOk
<1>3. StageOk(t, ms, running)
  <2>1. CASE t = s
    BY <1>2, <2>1
  <2>2. CASE t = [s EXCEPT !.approved = TRUE, !.phase = "running"]
    <3>1. s \in StageType
      BY <1>2 DEF StageOk
    <3>2. t \in StageType /\ t.phase = "running" /\ t.approved
      BY <2>2, <3>1 DEF StageType, StagePhases
    <3> QED BY <3>2 DEF StageOk, Publication
  <2> QED BY <1>b, <2>1, <2>2
<1>4. StageOk(u, ms, running)
  <2>1. CASE drafting.review
    <3>1. PICK b \in BOOLEAN : b = (~AllDone(ms) /\ ~auto)
      OBVIOUS
    <3>2. u = ReviewedStage(t, ms, b)
      BY <1>c, <2>1, <3>1
    <3> QED BY <1>3, <2>1, <3>2, ReviewedOk
  <2>2. CASE ~drafting.review
    BY <1>3, <1>c, <2>2
  <2> QED BY <2>1, <2>2
<1> QED BY <1>4, <1>d, ResumedOk

(* A revision and a draft, whatever becomes of the stage.                  *)
LEMMA RevisedKeeps ==
    ASSUME RevisionTypeInv, RunInv, NEW g, Wf(g), Revised(g)
    PROVE  /\ RunInv' /\ Wf(topology') /\ bypassed' \in BOOLEAN
           /\ member' \in [NamesOf(topology') -> MemberType] /\ trials' \in Seq(TrialType)
           /\ RunningTrials' = RunningTrials
           /\ g = topology => member' = member
<1>1. RunInv'
  BY RevisedRun
<1>2. topology' = g /\ bypassed' = bypassed /\ member' = RevisedMembers(g, Sent(g))
      /\ trials' = Superseded(Sent(g))
  BY DEF Revised
<1>3. trials' \in Seq(TrialType) /\ RunningTrials' = RunningTrials
  BY <1>2, RevisedTrials
<1>4. member' \in [NamesOf(g) -> MemberType]
  BY <1>2, RevisedMembersKeep DEF RunInv
<1>5. ASSUME g = topology PROVE member' = member
  <2>1. \A n \in NamesOf(g) : member'[n] = member[n]
    BY <1>2, <1>5, RevisedMembersKeep, SameGraphAffectsNone DEF RunInv
  <2>2. member \in [NamesOf(g) -> MemberType]
    BY <1>5 DEF RevisionTypeInv
  <2> QED BY <1>4, <2>1, <2>2
<1> QED BY <1>1, <1>2, <1>3, <1>4, <1>5 DEF RevisionTypeInv

LEMMA RedraftedKeeps ==
    ASSUME RevisionTypeInv, RunInv, RunningTrials = {}, NEW g, Wf(g), topology' = g,
             trials' = trials,
           bypassed' = (bypassed \/ trials # <<>>),
           member' = [n \in NamesOf(g) |-> NewMember] \/ member' = RevisedMembers(g, {})
    PROVE  /\ RunInv' /\ Wf(topology') /\ bypassed' \in BOOLEAN
           /\ member' \in [NamesOf(topology') -> MemberType] /\ trials' \in Seq(TrialType)
           /\ RunningTrials' = {}
           /\ ~bypassed' => trials = <<>> /\ \A n \in NamesOf(g) : member'[n] = NewMember
<1>1. /\ DOMAIN member' = NamesOf(g) /\ member' = [n \in NamesOf(g) |-> member'[n]]
      /\ \A n \in NamesOf(g) : member'[n] = NewMember
                               \/ (n \in DOMAIN member /\ member'[n] = member[n])
  <2>1. CASE member' = [n \in NamesOf(g) |-> NewMember]
    BY <2>1
  <2>2. CASE member' = RevisedMembers(g, {})
    BY <2>2 DEF RevisedMembers
  <2> QED BY <2>1, <2>2
<1>2. RunInv' /\ RunningTrials' = {}
  BY <1>1, RedraftedRun
<1>3. NewMember \in MemberType
  BY DEF NewMember, MemberType
<1>4. \A n \in NamesOf(g) : member'[n] \in MemberType
  BY <1>1, <1>3, RowsOf
<1>5. member' \in [NamesOf(g) -> MemberType]
  BY <1>1, <1>4
<1>6. ASSUME ~bypassed' PROVE trials = <<>> /\ \A n \in NamesOf(g) : member'[n] = NewMember
  <2>1. trials = <<>>
    BY <1>6
  <2> QED BY <1>1, <2>1 DEF RunInv, Blank
<1>7. bypassed' \in BOOLEAN /\ trials' \in Seq(TrialType) /\ Wf(topology')
  BY DEF RevisionTypeInv
<1> QED BY <1>2, <1>5, <1>6, <1>7

(* Exactly what is touched is sent back, and what a draft replaces had not *)
(* run.                                                                    *)
LEMMA RevisedExactly ==
    ASSUME RevisionTypeInv, RunInv, NEW g, Wf(g), Revised(g)
    PROVE  \A n \in NamesOf(topology) \cap NamesOf(topology') :
              /\ Untouched(n) <=> n \notin revision_affected(g)
              /\ IF Untouched(n) THEN member'[n] = member[n] ELSE member'[n].st # "completed"
<1>1. topology' = g /\ member' = RevisedMembers(g, Sent(g)) /\ Wf(topology)
  BY DEF Revised, RevisionTypeInv
<1>2. ASSUME NEW n \in NamesOf(topology) \cap NamesOf(g)
      PROVE  /\ Untouched(n) <=> n \notin revision_affected(g)
             /\ IF Untouched(n) THEN member'[n] = member[n] ELSE member'[n].st # "completed"
  <2>1. Untouched(n) <=> UntouchedIn(g, n)
    BY <1>1 DEF Untouched, UntouchedIn
  <2>2. UntouchedIn(g, n) <=> n \notin revision_affected(g)
    BY <1>1, AffectedIsTouched
  <2>3. /\ n \notin revision_affected(g) => member'[n] = member[n]
        /\ n \in revision_affected(g) => member'[n].st \in {"waiting", "dirty"}
    BY <1>1, RevisedMembersKeep DEF RunInv
  <2> QED BY <2>1, <2>2, <2>3
<1> QED BY <1>1, <1>2

LEMMA RedraftedExactly ==
    ASSUME RunInv, trials = <<>>, DOMAIN member = NamesOf(topology),
           \A n \in NamesOf(topology') : member'[n] = NewMember
    PROVE  /\ \A n \in NamesOf(topology) \cap NamesOf(topology') :
                 IF Untouched(n) THEN member'[n] = member[n] ELSE member'[n].st # "completed"
           /\ Tokens = {}
<1>1. \A n \in DOMAIN member : member[n] = NewMember
  BY DEF RunInv, Blank
<1>2. NewMember.st = "waiting"
  BY DEF NewMember
<1> QED BY <1>1, <1>2 DEF Tokens

LEMMA StepCommits == RevisionInv /\ TurnCommits => RevisionInv' /\ RevisesExactly
<1> SUFFICES ASSUME RevisionInv, TurnCommits PROVE RevisionInv' /\ RevisesExactly
  OBVIOUS
<1>1. /\ RevisionTypeInv /\ RunInv /\ StageOk(stage, member, RunningTrials) /\ ReviewQuiet
      /\ OccasionOk /\ DraftingOk /\ FormOk /\ Wf(topology)
  BY RevisionFacts
<1>2. drafting # NoTurn /\ UNCHANGED <<occasion, form>> /\ drafting' = NoTurn
  <2>1. drafting.pc = "ready" /\ UNCHANGED <<occasion, form>> /\ drafting' = NoTurn
    BY DEF TurnCommits
  <2>2. NoTurn.pc # "ready"
    BY DEF NoTurn
  <2> QED BY <2>1, <2>2
<1>3. PICK g : g = drafting.graph
  OBVIOUS
<1>4. Wf(g) /\ drafting.review \in BOOLEAN
  BY <1>1, <1>2, <1>3 DEF DraftingOk
<1>5. (revise_graph(g) \/ update_draft_graph(g)) /\ topology' = g
  BY <1>3 DEF TurnCommits
<1>6. /\ RunInv' /\ Wf(topology') /\ bypassed' \in BOOLEAN
      /\ member' \in [NamesOf(topology') -> MemberType] /\ trials' \in Seq(TrialType)
      /\ RunningTrials' = RunningTrials
      /\ stage.approved => stage.phase \notin Publication /\ (g = topology => member' = member)
      /\ RevisesExactly
  <2>1. CASE revise_graph(g)
    <3>1. Revised(g)
      BY <1>5, <2>1 DEF revise_graph, Revised, Sent
    <3>2. /\ RunInv' /\ Wf(topology') /\ bypassed' \in BOOLEAN
          /\ member' \in [NamesOf(topology') -> MemberType] /\ trials' \in Seq(TrialType)
          /\ RunningTrials' = RunningTrials /\ (g = topology => member' = member)
      BY <1>1, <1>4, <3>1, RevisedKeeps
    <3>3. \A n \in NamesOf(topology) \cap NamesOf(topology') :
              IF Untouched(n) THEN member'[n] = member[n] ELSE member'[n].st # "completed"
      BY <1>1, <1>4, <3>1, RevisedExactly
    <3>4. stage.published # {} => \A token \in Tokens : token[1] \in NamesOf(topology')
      BY <1>5, <2>1 DEF revise_graph, Tokens
    <3>5. RevisesExactly
      <4> HIDE DEF Untouched
      <4> QED BY <1>2, <3>3, <3>4 DEF RevisesExactly
    <3>6. stage.phase \notin Publication
      BY <2>1 DEF revise_graph, MayPause
    <3> QED BY <3>2, <3>5, <3>6
  <2>2. CASE update_draft_graph(g)
    <3>1. /\ ~stage.approved /\ member' = RevisedMembers(g, {}) /\ trials' = trials
          /\ bypassed' = (bypassed \/ trials # <<>>)
      BY <2>2 DEF update_draft_graph
    <3>2. RunningTrials = {}
      BY <1>1, <3>1 DEF StageOk
    <3>3. /\ RunInv' /\ Wf(topology') /\ bypassed' \in BOOLEAN
          /\ member' \in [NamesOf(topology') -> MemberType] /\ trials' \in Seq(TrialType)
          /\ RunningTrials' = {}
          /\ ~bypassed' => trials = <<>> /\ \A n \in NamesOf(g) : member'[n] = NewMember
      BY <1>1, <1>4, <1>5, <3>1, <3>2, RedraftedKeeps
    <3>4. RevisesExactly
      <4>1. ASSUME ~bypassed'
            PROVE  /\ \A n \in NamesOf(topology) \cap NamesOf(topology') :
                          IF Untouched(n) THEN member'[n] = member[n]
                            ELSE member'[n].st # "completed"
                   /\ Tokens = {}
        BY <1>1, <1>5, <3>3, <4>1, RowsOf, RedraftedExactly
      <4> HIDE DEF Untouched, Tokens
      <4> QED BY <1>2, <4>1 DEF RevisesExactly
    <3> QED BY <3>1, <3>2, <3>3, <3>4
  <2> QED BY <1>5, <2>1, <2>2
<1>7. StageOk(stage', member', RunningTrials')
  <2>1. PICK auto \in BOOLEAN : stage' = CommittedStage(RevisedStage(g), member', auto)
    BY <1>3, Zenon DEF TurnCommits, CommittedStage
  <2>2. PICK s0 : s0 = RevisedStage(g)
    OBVIOUS
  <2>3. PICK ms : ms = member'
    OBVIOUS
  <2>4. StageOk(s0, ms, RunningTrials) /\ s0.phase \notin Publication
    BY <1>1, <1>6, <2>2, <2>3, RevisedOk
  <2>5. PICK v : v = CommittedStage(s0, ms, auto)
    OBVIOUS
  <2>6. drafting.review => RunningTrials = {}
    BY <1>1, <1>2 DEF ReviewQuiet
  <2>7. StageOk(v, ms, RunningTrials)
    BY <1>4, <2>4, <2>5, <2>6, StageCommits
  <2>8. stage' = v
    BY <2>1, <2>2, <2>3, <2>5
  <2> QED BY <1>6, <2>3, <2>7, <2>8
<1>8. OccasionOk' /\ FormOk' /\ DraftingOk' /\ ReviewQuiet'
  BY <1>1, <1>2, OccasionBounds, KeptForms
<1> QED BY <1>6, <1>7, <1>8, StepHolds

LEMMA StepSaves == RevisionInv /\ save_graph => RevisionInv' /\ RevisesExactly
<1> SUFFICES ASSUME RevisionInv, save_graph PROVE RevisionInv' /\ RevisesExactly
  OBVIOUS
<1>1. /\ RevisionTypeInv /\ RunInv /\ StageOk(stage, member, RunningTrials) /\ ReviewQuiet
      /\ OccasionOk /\ DraftingOk /\ FormOk /\ stage \in StageType
  BY RevisionFacts
<1>2. PICK g \in occasion.drafts : edit_draft_graph(g)
  BY DEF save_graph
<1>3. /\ ~stage.approved /\ topology' = g /\ member' = [n \in NamesOf(g) |-> NewMember]
      /\ stage' = [stage EXCEPT !.phase = "awaiting_approval"]
      /\ bypassed' = (bypassed \/ trials # <<>>) /\ trials' = trials
      /\ drafting' = drafting /\ form' = form
  BY <1>2 DEF save_graph, edit_draft_graph
<1>4. Wf(g)
  BY <1>1, <1>2, CompiledIsWf DEF OccasionOk, edit_draft_graph
<1>5. RunningTrials = {}
  BY <1>1, <1>3 DEF StageOk
<1>6. /\ RunInv' /\ Wf(topology') /\ bypassed' \in BOOLEAN
      /\ member' \in [NamesOf(topology') -> MemberType] /\ trials' \in Seq(TrialType)
      /\ RunningTrials' = {}
      /\ ~bypassed' => trials = <<>> /\ \A n \in NamesOf(g) : member'[n] = NewMember
  BY <1>1, <1>3, <1>4, <1>5, RedraftedKeeps
<1>7. StageOk(stage', member', RunningTrials')
  <2>1. stage' \in StageType /\ stage'.phase = "awaiting_approval" /\ ~stage'.approved
    BY <1>1, <1>3 DEF StageType, StagePhases
  <2> QED BY <1>6, <2>1 DEF StageOk, Publication
<1>8. OccasionOk' /\ DraftingOk' /\ FormOk' /\ ReviewQuiet'
  <2>1. OccasionOk'
    BY <1>1, OccasionBounds DEF save_graph
  <2> QED BY <1>1, <1>3, <1>5, <1>6, <2>1, KeptForms
<1>9. RevisesExactly
  <2>1. ASSUME ~bypassed'
        PROVE  /\ \A n \in NamesOf(topology) \cap NamesOf(topology') :
                      IF Untouched(n) THEN member'[n] = member[n] ELSE member'[n].st # "completed"
               /\ Tokens = {}
    BY <1>1, <1>3, <1>6, <2>1, RowsOf, RedraftedExactly
  <2> HIDE DEF Untouched, Tokens
  <2> QED BY <1>3, <2>1 DEF RevisesExactly
<1> QED BY <1>6, <1>7, <1>8, <1>9, StepHolds

(* With a node by hand the graph grows.                                    *)
LEMMA WithNodeGrows ==
    ASSUME Wf(topology), NEW f, f.name \in Universe \cap Texts, NEW g, g = WithNode(f), compiles(g)
    PROVE  Wf(g) /\ NamesOf(topology) \subseteq NamesOf(g) /\ Sent(g) = revision_affected(g)
<1>1. /\ NamesOf(g) = NamesOf(topology) \cup {f.name}
      /\ \A n \in NamesOf(g) : g.task[n] = IF n = f.name THEN f.name ELSE topology.task[n]
  BY DEF WithNode, NamesOf
<1>2. Drawn(g)
  <2>1. IsFiniteSet(NamesOf(g))
    BY <1>1, FS_AddElement DEF Wf, Drawn
  <2> QED BY <1>1, <2>1 DEF Wf, Drawn
<1>3. Wf(g)
  BY <1>2, CompiledIsWf
<1>4. revision_affected(g) \subseteq NamesOf(topology) \cup NamesOf(g)
  BY <1>3, AffectedIsClosed
<1> QED BY <1>1, <1>3, <1>4 DEF Sent

LEMMA StepAdds == RevisionInv /\ add_manual_node => RevisionInv' /\ RevisesExactly
<1> SUFFICES ASSUME RevisionInv, add_manual_node PROVE RevisionInv' /\ RevisesExactly
  OBVIOUS
<1>1. /\ RevisionTypeInv /\ RunInv /\ StageOk(stage, member, RunningTrials) /\ ReviewQuiet
      /\ OccasionOk /\ DraftingOk /\ FormOk /\ stage \in StageType /\ Wf(topology)
  BY RevisionFacts
<1>2. PICK g : g = WithNode(form)
  OBVIOUS
<1>3. /\ form.open /\ drafting = NoTurn /\ stage.phase \notin Publication
      /\ UNCHANGED <<occasion, drafting>> /\ form' = NoForm /\ compiles(g)
      /\ \A token \in Tokens : token[1] \in revision_affected(g) => token \in form.confirmed
      /\ revision_affected(g) \cap RunningNodes = {}
      /\ \/ ~stage.approved /\ trials = <<>> /\ edit_draft_graph(g)
         \/ /\ topology' = g /\ member' = RevisedMembers(g, revision_affected(g))
            /\ trials' = Superseded(revision_affected(g)) /\ stage' = RevisedStage(g)
            /\ bypassed' = bypassed
  BY <1>2, Zenon DEF add_manual_node
<1>4. Wf(g) /\ NamesOf(topology) \subseteq NamesOf(g) /\ Sent(g) = revision_affected(g)
  BY <1>1, <1>2, <1>3, WithNodeGrows DEF FormOk
<1>5. g # topology
  <2>1. form.name \notin NamesOf(topology)
    BY DEF add_manual_node
  <2>2. form.name \in NamesOf(g)
    BY <1>2 DEF WithNode, NamesOf
  <2> QED BY <2>1, <2>2
<1>6. /\ RunInv' /\ Wf(topology') /\ bypassed' \in BOOLEAN
      /\ member' \in [NamesOf(topology') -> MemberType] /\ trials' \in Seq(TrialType)
      /\ StageOk(stage', member', RunningTrials') /\ RevisesExactly
  <2>1. CASE ~stage.approved /\ trials = <<>> /\ edit_draft_graph(g)
    <3>1. /\ topology' = g /\ member' = [n \in NamesOf(g) |-> NewMember]
          /\ stage' = [stage EXCEPT !.phase = "awaiting_approval"]
          /\ bypassed' = (bypassed \/ trials # <<>>) /\ trials' = trials
      BY <2>1 DEF edit_draft_graph
    <3>2. RunningTrials = {}
      BY <1>1, <2>1 DEF StageOk
    <3>3. /\ RunInv' /\ Wf(topology') /\ bypassed' \in BOOLEAN
          /\ member' \in [NamesOf(topology') -> MemberType] /\ trials' \in Seq(TrialType)
          /\ RunningTrials' = {}
          /\ ~bypassed' => trials = <<>> /\ \A n \in NamesOf(g) : member'[n] = NewMember
      BY <1>1, <1>4, <3>1, <3>2, RedraftedKeeps
    <3>4. StageOk(stage', member', RunningTrials')
      <4>1. stage' \in StageType /\ stage'.phase = "awaiting_approval" /\ ~stage'.approved
        BY <1>1, <2>1, <3>1 DEF StageType, StagePhases
      <4> QED BY <3>3, <4>1 DEF StageOk, Publication
    <3>5. RevisesExactly
      <4>1. ASSUME ~bypassed'
            PROVE  /\ \A n \in NamesOf(topology) \cap NamesOf(topology') :
                          IF Untouched(n) THEN member'[n] = member[n]
                            ELSE member'[n].st # "completed"
                   /\ Tokens = {}
        BY <1>1, <3>1, <3>3, <4>1, RowsOf, RedraftedExactly
      <4> HIDE DEF Untouched, Tokens
      <4> QED BY <4>1 DEF RevisesExactly
    <3> QED BY <3>3, <3>4, <3>5
  <2>2. CASE /\ topology' = g /\ member' = RevisedMembers(g, revision_affected(g))
             /\ trials' = Superseded(revision_affected(g)) /\ stage' = RevisedStage(g)
             /\ bypassed' = bypassed
    <3>1. Revised(g)
      BY <1>3, <1>4, <2>2 DEF Revised
    <3>2. /\ RunInv' /\ Wf(topology') /\ bypassed' \in BOOLEAN
          /\ member' \in [NamesOf(topology') -> MemberType] /\ trials' \in Seq(TrialType)
          /\ RunningTrials' = RunningTrials
      BY <1>1, <1>4, <3>1, RevisedKeeps
    <3>3. StageOk(stage', member', RunningTrials')
      <4>1. PICK s : s = RevisedStage(g)
        OBVIOUS
      <4>2. PICK ms : ms = member'
        OBVIOUS
      <4>3. StageOk(s, ms, RunningTrials)
        BY <1>1, <1>3, <1>5, <4>1, RevisedOk
      <4> QED BY <2>2, <3>2, <4>1, <4>2, <4>3
    <3>4. \A n \in NamesOf(topology) \cap NamesOf(topology') :
             /\ Untouched(n) <=> n \notin revision_affected(g)
             /\ IF Untouched(n) THEN member'[n] = member[n] ELSE member'[n].st # "completed"
      BY <1>1, <1>4, <3>1, RevisedExactly
    <3>5. ASSUME NEW token \in Tokens
          PROVE  /\ token[1] \in NamesOf(topology) \cap NamesOf(topology')
                 /\ token \in form.confirmed \/ Untouched(token[1])
      <4>1. token[1] \in NamesOf(topology)
        BY <1>1, RowsOf DEF Tokens
      <4>2. token[1] \in NamesOf(topology) \cap NamesOf(topology')
        BY <1>4, <2>2, <4>1
      <4> HIDE DEF Tokens, Untouched
      <4> QED BY <1>3, <3>4, <4>2
    <3>6. RevisesExactly
      <4> HIDE DEF Tokens, Untouched
      <4> QED BY <3>4, <3>5 DEF RevisesExactly
    <3> QED BY <3>2, <3>3, <3>6
  <2> QED BY <1>3, <2>1, <2>2
<1>7. OccasionOk' /\ DraftingOk' /\ FormOk' /\ ReviewQuiet'
  BY <1>1, <1>3, OccasionBounds, KeptForms
<1> QED BY <1>6, <1>7, StepHolds

LEMMA RevisionStep ==
    RevisionInv /\ [RevisionNext]_revisionVars => RevisionInv' /\ [RevisesExactly]_revisionVars
<1> SUFFICES ASSUME RevisionInv, [RevisionNext]_revisionVars
             PROVE  RevisionInv' /\ [RevisesExactly]_revisionVars
  OBVIOUS
<1>1. CASE UNCHANGED revisionVars
  <2>1. /\ UNCHANGED <<topology, member, trials, bypassed, occasion, drafting, form>>
        /\ stage' = stage
    BY <1>1 DEF revisionVars
  <2>2. /\ OccasionOk /\ DraftingOk /\ FormOk /\ StageOk(stage, member, RunningTrials)
        /\ ReviewQuiet
    BY RevisionFacts
  <2>3. RunningTrials' = RunningTrials
    BY <2>1 DEF RunningTrials
  <2>4. RevisionInv'
    BY <2>1, <2>2, <2>3, OccasionBounds, KeptForms, StageSteps
  <2> QED BY <1>1, <2>4
<1>2. ASSUME topology' = topology PROVE RevisesExactly
  BY <1>2 DEF RevisesExactly
<1>3. CASE save_graph
  BY <1>3, StepSaves
<1>4. CASE approve_graph \/ reject_graph
  <2>1. RevisesExactly
    BY <1>2, <1>4 DEF approve_graph, reject_graph
  <2> QED BY <1>4, <2>1, StepApproves
<1>5. CASE jobs_with_pending_feedback
  <2>1. RevisesExactly
    BY <1>2, <1>5 DEF jobs_with_pending_feedback
  <2> QED BY <1>5, <2>1, StepStarts
<1>6. CASE \E i \in DOMAIN trials : NodeFinishes(i) \/ NodeFails(i)
  <2>1. RevisesExactly
    BY <1>2, <1>6 DEF NodeFinishes, NodeFails, EndNode
  <2> QED BY <1>6, <2>1, StepEnds
<1>7. CASE UserPauses \/ UserStops
  <2>1. RevisesExactly
    BY <1>2, <1>7 DEF UserPauses, UserStops
  <2> QED BY <1>7, <2>1, StepHalts
<1>8. CASE UserResumes
  <2>1. RevisesExactly
    BY <1>2, <1>8 DEF UserResumes
  <2> QED BY <1>8, <2>1, StepResumes
<1>9. CASE PublicationEnds \/ retry_publication
  <2>1. RevisesExactly
    BY <1>2, <1>9 DEF PublicationEnds, retry_publication
  <2> QED BY <1>9, <2>1, StepPublishes
<1>10. CASE TurnBegins \/ TurnLaunches \/ TurnDraws \/ TurnDrains
  <2>1. RevisesExactly
    BY <1>2, <1>10 DEF TurnBegins, TurnLaunches, TurnDraws, TurnDrains
  <2> QED BY <1>10, <2>1, StepTurns
<1>11. CASE TurnCommits
  BY <1>11, StepCommits
<1>12. CASE TurnFails
  <2>1. RevisesExactly
    BY <1>2, <1>12 DEF TurnFails
  <2> QED BY <1>12, <2>1, StepFails
<1>13. CASE FillForm
  <2>1. RevisesExactly
    BY <1>2, <1>13 DEF FillForm
  <2> QED BY <1>13, <2>1, StepFills
<1>14. CASE add_manual_node
  BY <1>14, StepAdds
<1> QED BY <1>1, <1>3, <1>4, <1>5, <1>6, <1>7, <1>8, <1>9, <1>10, <1>11, <1>12, <1>13, <1>14
        DEF RevisionNext

\* Whatever the user, the Planner and the attempts do in which order, a revision sends back
\* exactly the results it affects, no attempt runs under a graph that has changed, a completed
\* node's result comes from its present task and inputs, and a Run is completed only with every
\* node done (runtime.rs, revise_graph, add_manual_node and edit_draft_graph).
THEOREM RevisionSafety == RevisionInit /\ [][RevisionNext]_revisionVars => RevisionHolds
<1>1. RevisionInit => RevisionInv
  BY RevisionStarts
<1>2. RevisionInv /\ [RevisionNext]_revisionVars => RevisionInv' /\ [RevisesExactly]_revisionVars
  BY RevisionStep
<1>3. RevisionInv => UpToDate /\ Undisturbed /\ DeliversAll
  BY DEF RevisionInv, RunInv, StageInv
<1> QED BY <1>1, <1>2, <1>3, PTL DEF RevisionHolds
=============================================================================
