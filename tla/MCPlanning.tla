---------------------------- MODULE MCPlanning -----------------------------
(***************************************************************************)
(* How a Run gets its graph, checked part by part: the compiler that       *)
(* accepts or refuses what a Planner turn wrote (Compiler) and the turn    *)
(* itself (Planner).  The parts share no state, so a behaviour exercises   *)
(* one of them and the other stays as it starts.                           *)
(*                                                                         *)
(* Compiler: MalformedInputs has every pair of node and edge lists up to a *)
(* small length, duplicates and unknown endpoints included; DagInputs has  *)
(* four well-formed nodes, every set of at most MaxDeps dependencies over  *)
(* them and at most MaxFeedback feedback edges.  Planner: every request    *)
(* and every fault short of a crash; a Stop that races the drain of a      *)
(* turn; crashes.                                                          *)
(***************************************************************************)
EXTENDS Compiler, Planner

CONSTANTS a, b, c, d, A, none, blank, t

AllNames == {a, b, c, d, A, none}

CaseFold == [n \in AllNames |-> IF n = A THEN a ELSE n]

SeqsUpTo(S, k) == UNION {[1..i -> S] : i \in 0..k}

(* Every ordered pair of distinct nodes, in a fixed order.                 *)
Pairs == <<<<a, b>>, <<a, c>>, <<a, d>>, <<b, a>>, <<b, c>>, <<b, d>>,
           <<c, a>>, <<c, b>>, <<c, d>>, <<d, a>>, <<d, b>>, <<d, c>>>>

EdgeList(S, fb) ==
    LET chosen == SelectSeq(Pairs, LAMBDA p : p \in S)
    IN  [i \in DOMAIN chosen |-> [from |-> chosen[i][1], to |-> chosen[i][2], feedback |-> fb]]

MalformedInputs ==
    [nodes : SeqsUpTo([name : {a, A, b, none}, task : {blank, t}], 2),
     edges : SeqsUpTo([from : {a, b}, to : {a, b}, feedback : BOOLEAN], 2),
     finalCheck : BOOLEAN, rejectRedundant : {TRUE}]

(* At most MaxDeps dependency and MaxFeedback feedback edges.              *)
MaxDeps == 5
MaxFeedback == 1

SmallSubsets(S, k) == {T \in SUBSET S : Cardinality(T) <= k}

FourNodes == [i \in 1..4 |-> [name |-> <<a, b, c, d>>[i], task |-> t]]

PairSet == {Pairs[i] : i \in DOMAIN Pairs}

DagInputs ==
    {[nodes |-> FourNodes, edges |-> EdgeList(D, FALSE) \o EdgeList(F, TRUE),
      finalCheck |-> TRUE, rejectRedundant |-> r] :
        D \in SmallSubsets(PairSet, MaxDeps),
        F \in SmallSubsets({p \in PairSet : p[1] \in {c, d}}, MaxFeedback),
        r \in BOOLEAN}

NoGraph == [nodes |-> <<>>, edges |-> <<>>, finalCheck |-> TRUE, rejectRedundant |-> TRUE]

AllInputs == DagInputs \cup MalformedInputs

Turning == [acts |-> 2, can |-> Possible \ {"crash"}]
Draining == [acts |-> 3, can |-> {"resume", "stopplanner", "stop", "capture"}]
Crashing == [acts |-> 3, can |-> {"approve", "resume", "stopplanner", "crash", "capture"}]

MCScenarios == {Turning, Draining, Crashing}

VARIABLE part

planningVars == <<part, vars, plannerVars>>

PlanningInit ==
    /\ part \in {"compile", "turn"}
    /\ Init /\ PlannerInit
    /\ part # "compile" => in = NoGraph
    /\ part # "turn" => user.can = Crashing.can

Compiling == part = "compile" /\ Next /\ UNCHANGED <<part, plannerVars>>
Planning(step) == part = "turn" /\ step /\ UNCHANGED <<part, vars>>

\* A turn may be over for good; a call of the compiler must always return.
Resting == part = "turn" /\ UNCHANGED planningVars

(* The thread of a turn runs, an engine ends, and so does an execution; a  *)
(* request that was accepted is carried out.  Nothing makes the user act.  *)
PlanningSpec ==
    /\ PlanningInit /\ [][Compiling \/ Planning(PlannerNext) \/ Resting]_planningVars
    /\ WF_planningVars(Planning(Step))
    /\ WF_planningVars(Planning(\E ok \in BOOLEAN : EngineEnds(ok)))
    /\ \A e \in Execs : WF_planningVars(Planning(ExecEnds(e)))
    /\ WF_planningVars(Planning(StopRunApply))
============================================================================
