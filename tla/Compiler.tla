------------------------------ MODULE Compiler ------------------------------
(***************************************************************************)
(* The graph compiler (backend/src/compiler.rs): the validator every graph *)
(* the planner or the user commits goes through, and the Kahn pass that    *)
(* computes the execution batches.                                         *)
(*                                                                         *)
(* A node is [name, task]; an edge is [from, to, feedback].  Both lists    *)
(* are sequences, because the code accepts any list and must itself reject *)
(* duplicates.  Diagnostics are abstracted to the set of their codes, a    *)
(* node name to an element of Names, case folding to the function Fold.    *)
(* One call of compile_with_policy is one behaviour.                       *)
(*                                                                         *)
(* An operator whose name has a suffix, such as nodeErrors_ExactNames, is  *)
(* a faulty variant of the definition that follows it: a plausible bug     *)
(* that a property of the module has to detect.  Nothing else uses it.     *)
(***************************************************************************)
EXTENDS Integers, Sequences, FiniteSets

CONSTANTS
    Names,       \* the strings that occur as node names or edge endpoints
    EmptyName,   \* the empty string, never a legal node name
    Fold,        \* str::to_lowercase on Names
    Tasks,       \* task texts
    EmptyTask,   \* a task that is blank after trim()
    Inputs       \* the calls: records [nodes, edges, finalCheck, rejectRedundant]

Edge == [from : Names, to : Names, feedback : BOOLEAN]
NodeDecl == [name : Names, task : Tasks]

ASSUME InputsAssumption ==
    \A call \in Inputs :
        /\ call.nodes \in Seq(NodeDecl) /\ call.edges \in Seq(Edge)
        /\ call.finalCheck \in BOOLEAN /\ call.rejectRedundant \in BOOLEAN

ASSUME NamesAssumption == IsFiniteSet(Names)

VARIABLES
    in,        \* the call's arguments
    pc,        \* the next section of compile_with_policy
    errors,    \* codes of the diagnostics collected so far
    degrees,   \* unfinished incoming dependencies of each node
    ready,     \* the batch the Kahn loop handles next
    visited,   \* nodes already placed in a batch
    batches,   \* execution_batches, in order
    plan       \* the Plan an accepting call returns

vars == <<in, pc, errors, degrees, ready, visited, batches, plan>>

NoPlan == [execution_batches |-> <<>>, root_nodes |-> {}, terminals |-> {}]

-----------------------------------------------------------------------------
(* Reading a graph                                                         *)

NodeNames(nodes) == {nodes[i].name : i \in DOMAIN nodes}

DepIndices(edges) == {i \in DOMAIN edges : ~edges[i].feedback}
FeedbackIndices(edges) == {i \in DOMAIN edges : edges[i].feedback}

(* Successors of a set of nodes over the dependency edges that keep() admits. *)
Successors(edges, keep, S) ==
    {edges[i].to : i \in {j \in keep : edges[j].from \in S}}

(* The worklist loop of downstream() and of alternate_dependency_path():   *)
(* add successors until nothing is new.                                    *)
Reach(edges, keep, start) ==
    LET grow[S \in SUBSET Names] ==
            LET next == S \cup Successors(edges, keep, S)
            IN  IF next = S THEN S ELSE grow[next]
    IN  grow[{start}]

downstream(edges, start) == Reach(edges, DepIndices(edges), start)

(* Is `to` reachable from `from` without the direct edge from -> to?  The  *)
(* search starts with `from` already marked, so it never returns to it.    *)
alternate_dependency_path(edges, from, to) ==
    LET keep == {i \in DepIndices(edges) : ~(edges[i].from = from /\ edges[i].to = to)}
    IN  from # to /\ to \in Reach(edges, keep, from)

-----------------------------------------------------------------------------
(* Diagnostics, by code                                                    *)

When(code, cond) == {c \in {code} : cond}

nodeErrors(nodes) ==
       When("E201", EmptyName \in NodeNames(nodes))
  \cup When("E202", \E i, j \in DOMAIN nodes :
                        i # j /\ Fold[nodes[i].name] = Fold[nodes[j].name])
  \cup When("E203", \E i \in DOMAIN nodes : nodes[i].task = EmptyTask)

edgeErrors(nodes, edges) ==
       When("E204", \E i \in DOMAIN edges :
                        ~({edges[i].from, edges[i].to} \subseteq NodeNames(nodes)))
  \cup When("E205", \E i \in DOMAIN edges : edges[i].from = edges[i].to)
  \cup When("E206", \E i, j \in DOMAIN edges :
                        /\ i # j
                        /\ edges[i].from = edges[j].from
                        /\ edges[i].to = edges[j].to)

feedbackTargetErrors(edges) ==
    When("E208", \E i, j \in FeedbackIndices(edges) :
                     edges[i].from = edges[j].from /\ edges[i].to # edges[j].to)

feedbackPathErrors_Forward(edges) ==
    When("E207", \E i \in FeedbackIndices(edges) :
                     edges[i].to \notin downstream(edges, edges[i].from))

feedbackPathErrors(edges) ==
    When("E207", \E i \in FeedbackIndices(edges) :
                     edges[i].from \notin downstream(edges, edges[i].to))

redundantEdges_SharedTarget(edges) ==
    {i \in DepIndices(edges) :
        \E j \in DepIndices(edges) : j # i /\ edges[j].to = edges[i].to}

redundantEdges(edges) ==
    {i \in DepIndices(edges) :
        alternate_dependency_path(edges, edges[i].from, edges[i].to)}

-----------------------------------------------------------------------------
(* compile_with_policy, one action per section that can return             *)

roots(nodes, edges) ==
    {n \in NodeNames(nodes) : \A i \in DepIndices(edges) : edges[i].to # n}

terminals(nodes, edges) ==
    {n \in NodeNames(nodes) : \A i \in DepIndices(edges) : edges[i].from # n}

Init ==
    /\ in \in Inputs
    /\ pc = "validate"
    /\ errors = {}
    /\ degrees = [n \in {} |-> 0]
    /\ ready = {}
    /\ visited = {}
    /\ batches = <<>>
    /\ plan = NoPlan

(* The edges counted into the degree of n.                                 *)
Incoming(n) == {i \in DepIndices(in.edges) : in.edges[i].to = n}

Validate ==
    /\ pc = "validate"
    /\ LET found ==
              When("E001", in.finalCheck /\ in.nodes = <<>>)
              \cup nodeErrors(in.nodes) \cup edgeErrors(in.nodes, in.edges)
              \cup feedbackTargetErrors(in.edges)
           N == NodeNames(in.nodes)
       IN  /\ errors' = found
           /\ IF found # {}
              THEN /\ pc' = "err"
                   /\ UNCHANGED <<degrees, ready>>
              ELSE /\ pc' = "kahn"
                   /\ degrees' = [n \in N |-> Cardinality(Incoming(n))]
                   /\ ready' = roots(in.nodes, in.edges)
    /\ UNCHANGED <<in, visited, batches, plan>>

(* The edges into n that the current batch releases.                       *)
Released(n) ==
    {i \in DepIndices(in.edges) : in.edges[i].to = n /\ in.edges[i].from \in ready}

NextBatch_AnyReleased(deg) == {n \in DOMAIN deg \ visited : Released(n) # {}}

NextBatch(deg) == {n \in DOMAIN deg : Released(n) # {} /\ deg[n] = 0}

(* The body of `while !ready.is_empty()`: the whole batch is visited and   *)
(* each of its outgoing dependencies decrements its target's degree once.  *)
KahnBatch ==
    /\ pc = "kahn" /\ ready # {}
    /\ degrees' = [n \in DOMAIN degrees |-> degrees[n] - Cardinality(Released(n))]
    /\ ready' = NextBatch(degrees')
    /\ batches' = Append(batches, ready)
    /\ visited' = visited \cup ready
    /\ UNCHANGED <<in, pc, errors, plan>>

AllVisited_Some == visited # {}

AllVisited == visited = NodeNames(in.nodes)

CycleCheck ==
    /\ pc = "kahn" /\ ready = {}
    /\ IF ~AllVisited
       THEN errors' = {"E101"} /\ pc' = "err"
       ELSE errors' = errors /\ pc' = "feedback"
    /\ UNCHANGED <<in, degrees, ready, visited, batches, plan>>

FeedbackCheck ==
    /\ pc = "feedback"
    /\ errors' = feedbackPathErrors(in.edges)
    /\ pc' = IF errors' # {} THEN "err" ELSE "redundancy"
    /\ UNCHANGED <<in, degrees, ready, visited, batches, plan>>

RedundancyCheck ==
    /\ pc = "redundancy"
    /\ errors' = When("E209", in.rejectRedundant /\ redundantEdges(in.edges) # {})
    /\ IF errors' # {}
       THEN pc' = "err" /\ plan' = plan
       ELSE pc' = "ok" /\ plan' = [execution_batches |-> batches,
                                  root_nodes |-> roots(in.nodes, in.edges),
                                  terminals |-> terminals(in.nodes, in.edges)]
    /\ UNCHANGED <<in, degrees, ready, visited, batches>>

(* The call has returned. *)
Returned == pc \in {"ok", "err"} /\ UNCHANGED vars

Next == Validate \/ KahnBatch \/ CycleCheck \/ FeedbackCheck \/ RedundancyCheck \/ Returned

Spec == Init /\ [][Next]_vars

-----------------------------------------------------------------------------
(* What compile promises                                                   *)

(* Type correctness.  A degree is a usize: an edge released twice, or one  *)
(* released but never counted, would take it below zero and panic.         *)
TypeOK ==
    /\ in.nodes \in Seq(NodeDecl) /\ in.edges \in Seq(Edge)
    /\ pc \in {"validate", "kahn", "feedback", "redundancy", "ok", "err"}
    /\ errors \subseteq {"E001", "E101", "E201", "E202", "E203", "E204", "E205",
                          "E206", "E207", "E208", "E209"}
    /\ degrees \in [DOMAIN degrees -> Nat]
    /\ DOMAIN degrees \subseteq Names
    /\ ready \subseteq Names /\ visited \subseteq Names
    /\ batches \in Seq(SUBSET Names)

(* The dependency relation of the call, and the sets closed under it.      *)
DependsOn(a, b) ==
    \E i \in DepIndices(in.edges) : in.edges[i].from = a /\ in.edges[i].to = b

Closed(S, except) ==
    \A i \in DepIndices(in.edges) \ except :
        in.edges[i].from \in S => in.edges[i].to \in S

(* Reference reachability: b is in every closed set that contains a.       *)
Reachable(a, b, except) ==
    \A S \in SUBSET Names : a \in S /\ Closed(S, except) => b \in S

(* Reference acyclicity: every non-empty set of nodes has a member none of *)
(* whose dependencies is in the set.                                       *)
Acyclic ==
    \A S \in (SUBSET NodeNames(in.nodes)) \ {{}} :
        \E n \in S : \A m \in S : ~DependsOn(m, n)

(* The reference definition of a legal graph, over the call's arguments.   *)
Legal ==
    /\ in.finalCheck => in.nodes # <<>>
    /\ \A i, j \in DOMAIN in.nodes :
          i # j => Fold[in.nodes[i].name] # Fold[in.nodes[j].name]
    /\ \A i \in DOMAIN in.nodes :
          in.nodes[i].name # EmptyName /\ in.nodes[i].task # EmptyTask
    /\ \A i \in DOMAIN in.edges :
          /\ in.edges[i].from # in.edges[i].to
          /\ in.edges[i].from \in NodeNames(in.nodes)
          /\ in.edges[i].to \in NodeNames(in.nodes)
    /\ \A i, j \in DOMAIN in.edges :
          i # j => <<in.edges[i].from, in.edges[i].to>> # <<in.edges[j].from, in.edges[j].to>>
    /\ Acyclic
    /\ \A i \in FeedbackIndices(in.edges) :
          /\ Reachable(in.edges[i].to, in.edges[i].from, {})
          /\ \A j \in FeedbackIndices(in.edges) :
                in.edges[i].from = in.edges[j].from => i = j
    /\ in.rejectRedundant =>
          \A i \in DepIndices(in.edges) :
             ~Reachable(in.edges[i].from, in.edges[i].to, {i})

(* compile accepts exactly the legal graphs: the Kahn loop, the worklist   *)
(* searches and the early returns between them together decide the         *)
(* reference definition, and a rejected call carries a diagnostic.         *)
VerdictCorrect ==
    /\ pc = "ok" => Legal /\ errors = {}
    /\ pc = "err" => ~Legal /\ errors # {}

(* Kahn bookkeeping: during the loop a node's degree counts exactly its    *)
(* dependencies on nodes not yet visited, and the next batch holds exactly *)
(* the unvisited nodes that count zero.  This is what makes the decrement  *)
(* safe and the batches a topological order.                               *)
KahnCounts ==
    pc = "kahn" =>
        /\ DOMAIN degrees = NodeNames(in.nodes)
        /\ \A n \in DOMAIN degrees :
              degrees[n] = Cardinality({i \in DepIndices(in.edges) :
                              in.edges[i].to = n /\ in.edges[i].from \notin visited})
        /\ ready = {n \in DOMAIN degrees \ visited : degrees[n] = 0}

(* The cycle verdict: past the cycle check the dependencies are acyclic,   *)
(* and E101 is reported only for a graph that has a cycle.                 *)
CycleVerdict ==
    /\ pc \in {"feedback", "redundancy", "ok"} => Acyclic
    /\ "E101" \in errors => ~Acyclic

(* Dependencies come first: at every point of the Kahn loop, a node in a   *)
(* batch has all its dependencies in earlier batches.                      *)
BatchesTopological ==
    \A k \in DOMAIN batches : \A n \in batches[k] : \A m \in Names :
        DependsOn(m, n) => \E j \in 1..(k - 1) : m \in batches[j]

(* An accepted plan runs every node exactly once and as early as possible: *)
(* the batches partition the nodes and a node outside the first batch has  *)
(* a dependency in the batch right before its own.  Roots are the first    *)
(* batch, and a terminal is a node nothing depends on.                     *)
PlanIsLayering ==
    pc = "ok" =>
        /\ UNION {plan.execution_batches[k] : k \in DOMAIN plan.execution_batches}
              = NodeNames(in.nodes)
        /\ \A j, k \in DOMAIN plan.execution_batches :
              j # k => plan.execution_batches[j] \cap plan.execution_batches[k] = {}
        /\ \A k \in DOMAIN plan.execution_batches : \A n \in plan.execution_batches[k] :
              /\ k > 1 => \E m \in plan.execution_batches[k - 1] : DependsOn(m, n)
              /\ k = 1 <=> n \in plan.root_nodes
        /\ \A n \in NodeNames(in.nodes) :
              n \in plan.terminals <=> \A m \in NodeNames(in.nodes) : ~DependsOn(n, m)

(* compile is exact: it accepts the legal graphs and no other, and the     *)
(* plan it returns layers them.                                            *)
CompileExact == VerdictCorrect /\ PlanIsLayering

(* E209 tells the planner, for each redundant edge on its own, to remove   *)
(* it.  Following all of that advice at once loses no ordering: whatever   *)
(* was reachable stays reachable without any of the reported edges.        *)
RedundancyAdviceIsSafe ==
    "E209" \in errors =>
        \A a, b \in NodeNames(in.nodes) :
            Reachable(a, b, {}) => Reachable(a, b, redundantEdges(in.edges))
=============================================================================
