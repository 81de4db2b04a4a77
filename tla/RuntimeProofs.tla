---------------------------- MODULE RuntimeProofs ----------------------------
(***************************************************************************)
(* What holds of Runtime for every graph, every limit and every history of *)
(* requests, outcomes and crashes: its type invariant, that no two live    *)
(* executions share a node or the source directory, and that no feedback   *)
(* edge is repaired more often than its budget (first part).               *)
(*                                                                         *)
(* What the executions of a Run are worth (second part): an                *)
(* attempt the user stopped never becomes a result and an ended attempt    *)
(* stays ended (StopWins); the scheduler finds the inputs it looks up      *)
(* (DispatchInputsExist); and, as long as the user sends no message to a   *)
(* node, running work keeps its inputs, what is published was computed     *)
(* from final results, and no blocked node is left behind (WorkIsHeld,     *)
(* DeliversResults, DispatchSound).                                        *)
(*                                                                         *)
(* Messages are excluded from the last group because those properties do   *)
(* not survive them: a message reruns a node although a node further down, *)
(* whose own parents are completed, may be started beside it (the run      *)
(* runtime_rerun shows it).                                                *)
(***************************************************************************)
EXTENDS Runtime, FiniteSetTheorems, WellFoundedInduction, TLAPS

-----------------------------------------------------------------------------
(* Latest                                                                  *)

LessThan == {ss \in Nat \X Nat : ss[1] < ss[2]}

(* The order on the naturals is well founded.                              *)
LEMMA LessThanWF == IsWellFoundedOn(LessThan, Nat)
  BY NatLessThanWellFounded DEF OpToRel, LessThan

(* A non-empty set of naturals has a least element.                        *)
LEMMA LeastNatural ==
    ASSUME NEW T \in SUBSET Nat, T # {}
    PROVE  \E x \in T : \A y \in T : x <= y
<1>1. PICK x \in T : \A y \in T : ~ (<<y, x>> \in LessThan)
  BY LessThanWF, WFMin, Zenon
<1>2. \A y \in T : x \in Nat /\ y \in Nat /\ ~ (y < x)
  BY <1>1 DEF LessThan
<1> QED
  BY <1>2

(* The newest of a non-empty set of executions exists.                     *)
LEMMA LatestIsMax ==
    ASSUME NEW k \in Nat, NEW S \in SUBSET (1..k), S # {}
    PROVE  Latest(S) \in S /\ \A j \in S : j <= Latest(S)
<1> DEFINE T == {k - i : i \in S}
<1>1. T \in SUBSET Nat /\ T # {}
  <2>1. \A i \in S : k - i \in Nat
    OBVIOUS
  <2>2. PICK i \in S : TRUE
    OBVIOUS
  <2>3. k - i \in T
    BY <2>2
  <2> QED
    BY <2>1, <2>3
<1>2. PICK x \in T : \A y \in T : x <= y
  <2> HIDE DEF T
  <2> QED
    BY <1>1, LeastNatural
<1>3. PICK m \in S : x = k - m
  OBVIOUS
<1>4. \A j \in S : j <= m
  <2> TAKE j \in S
  <2>1. x <= k - j
    BY <1>2
  <2> QED
    BY <1>3, <2>1
<1> QED
  BY <1>4 DEF Latest

-----------------------------------------------------------------------------
(* The helpers of the reducer                                              *)

(* downstream is reflexive and stays inside the graph.                     *)
LEMMA DownstreamBasics ==
    ASSUME NEW n
    PROVE  Downstream(n) \subseteq Nodes /\ (n \in Nodes => n \in Downstream(n))
  BY DEF Downstream

(* A requeued node is waiting or dirty, so it does not run.                *)
LEMMA RequeuedIdle ==
    ASSUME NEW m \in Nodes
    PROVE  Requeued(m) \in {"waiting", "dirty"}
  BY DEF Requeued

(* A failed node record is well typed and does not run.                    *)
LEMMA FailNodeType ==
    ASSUME NEW k \in Nat, NEW nd \in NodeRecords(k),
           NEW why \in {"failed", "interrupted", "composition"}
    PROVE  /\ FailNode(nd, why) \in NodeRecords(k)
           /\ FailNode(nd, why).status # "running"
  BY DEF FailNode, NodeRecords, Statuses, Heads, NoHead

(* A reset descendant is well typed.                                       *)
LEMMA ResetType ==
    ASSUME NEW k \in Nat, NEW nd \in NodeRecords(k), NEW bump \in BOOLEAN
    PROVE  Reset(nd, bump) \in NodeRecords(k)
<1>1. Reset(nd, TRUE) \in NodeRecords(k)
  <2>1. nd.revision + 1 \in Nat
    BY DEF NodeRecords
  <2> QED
  BY <2>1 DEF Reset, NodeRecords, Heads, NoHead
<1>2. Reset(nd, FALSE) \in NodeRecords(k)
  BY DEF Reset, NodeRecords, Heads, NoHead
<1> QED
  BY <1>1, <1>2, Zenon

-----------------------------------------------------------------------------
(* A function on an initial segment of the naturals is a sequence.         *)
LEMMA SeqFromFunction ==
    ASSUME NEW S, NEW n \in Nat, NEW f \in [1..n -> S]
    PROVE  f \in Seq(S) /\ Len(f) = n /\ DOMAIN f = 1..n
  OBVIOUS

(* A committed graph starts well typed.                                    *)
LEMMA InitTypes == Init => TypeOK
<1> SUFFICES ASSUME Init PROVE TypeOK
  OBVIOUS
<1>1. NewNode \in NodeRecords(0)
  BY DEF NewNode, NodeRecords, Statuses, Heads, NoHead
<1>2. node \in [Nodes -> NodeRecords(Len(execs))]
  BY <1>1 DEF Init
<1>3. execs \in Seq(ExecRecords) /\ counts \in [Feedback -> Nat] /\ made \in [Nodes -> Nat]
  BY DEF Init
<1>4. publication \in PublicationRecords
  BY DEF Init, NoPublication, PublicationRecords
<1>5. pass \in PassRecords
  BY DEF Init, IdlePass, PassRecords
<1> QED
  BY <1>2, <1>3, <1>4, <1>5, LimitsAssumption DEF Init, TypeOK, Phases

(* Approval keeps the types.                                               *)
LEMMA ApproveTypes == TypeOK /\ Approve => TypeOK'
  BY DEF TypeOK, Approve, Phases

(* Rejection keeps the types.                                              *)
LEMMA RejectTypes == TypeOK /\ Reject => TypeOK'
  BY DEF TypeOK, Reject, Phases

(* A pass lists the executions whose verdicts are queued.                  *)
LEMMA BeginPassTypes == TypeOK /\ BeginPass => TypeOK'
<1> SUFFICES ASSUME TypeOK, BeginPass PROVE TypeOK'
  OBVIOUS
<1>1. {p.exec : p \in pending} \subseteq Nat
  BY DEF TypeOK, FeedbackRecords
<1> QED
  BY <1>1 DEF TypeOK, BeginPass, run, IdlePass, PassRecords

(* What TypeOK says of a single node and a single execution.               *)
LEMMA Typed ==
    ASSUME TypeOK
    PROVE  /\ Len(execs) \in Nat /\ DOMAIN execs = 1..Len(execs)
           /\ \A n \in Nodes : node[n] \in NodeRecords(Len(execs))
           /\ \A i \in DOMAIN execs : execs[i] \in ExecRecords
  BY DEF TypeOK

(* Nodes that are updated one by one with well-typed records stay well     *)
(* typed.                                                                  *)
LEMMA NodeUpdate ==
    ASSUME TypeOK, NEW n \in Nodes, NEW x \in NodeRecords(Len(execs)),
           node' = [node EXCEPT ![n] = x]
    PROVE  node' \in [Nodes -> NodeRecords(Len(execs))]
  BY DEF TypeOK

(* A blocked node record is well typed.                                    *)
LEMMA BlockedType ==
    ASSUME NEW k \in Nat, NEW nd \in NodeRecords(k), NEW why \in {"upstream", "merger"}
    PROVE  [nd EXCEPT !.status = "blocked", !.error = why] \in NodeRecords(k)
  BY DEF NodeRecords, Statuses

(* Blocking a node keeps the types.                                        *)
LEMMA BlockNodeTypes == ASSUME TypeOK, NEW n \in Nodes, BlockNode(n) PROVE TypeOK'
<1>1. node' = [node EXCEPT ![n] = [node[n] EXCEPT !.status = "blocked", !.error = "upstream"]]
  BY DEF BlockNode
<1>2. [node[n] EXCEPT !.status = "blocked", !.error = "upstream"] \in NodeRecords(Len(execs))
  BY Typed, BlockedType
<1>3. node' \in [Nodes -> NodeRecords(Len(execs))]
  BY <1>1, <1>2, NodeUpdate
<1> QED
  BY <1>3 DEF TypeOK, BlockNode

(* What the scheduler leaves alone are nodes of the graph.                 *)
LEMMA ScopeInGraph ==
    /\ \A s : feedback_scope(s) \subseteq Nodes
    /\ busy_feedback_nodes \subseteq Nodes
<1>1. ASSUME NEW s PROVE feedback_scope(s) \subseteq Nodes
  BY DownstreamBasics DEF feedback_scope
<1> DEFINE held == UNION {Downstream(s) : s \in PendingSources}
           open == UNION {feedback_scope(f[1]) : f \in
                      {g \in Feedback : VerdictOpen(g[1]) /\ feedback_scope_has_running(g[1])}}
<1>2. held \subseteq Nodes /\ open \subseteq Nodes
  BY <1>1, DownstreamBasics
<1>3. busy_feedback_nodes = open \cup held
  BY Zenon DEF busy_feedback_nodes
<1> HIDE DEF held, open
<1>4. busy_feedback_nodes \subseteq Nodes
  BY <1>2, <1>3
<1> QED
  BY <1>1, <1>4, Zenon

(* Ending the drain keeps the types.                                       *)
LEMMA EndDrainTypes == TypeOK /\ EndDrain => TypeOK'
  BY ScopeInGraph DEF TypeOK, EndDrain, run, PassRecords

(* Choosing the ready nodes keeps the types.                               *)
LEMMA ChooseReadyTypes == TypeOK /\ ChooseReady => TypeOK'
<1> SUFFICES ASSUME TypeOK, ChooseReady PROVE TypeOK'
  OBVIOUS
<1>1. Eligible \subseteq Nodes /\ source_direct_run \in BOOLEAN
  BY DEF Eligible, source_direct_run
<1>2. PICK ready \in SUBSET Eligible :
         pass' = [pass EXCEPT !.step = "start", !.ready = ready, !.direct = source_direct_run]
  BY DEF ChooseReady
<1> HIDE DEF source_direct_run
<1>3. pass' \in PassRecords
  BY <1>1, <1>2 DEF TypeOK, PassRecords
<1> QED
  BY <1>3 DEF TypeOK, ChooseReady, run

(* Skipping a second source-direct turn keeps the types.                   *)
LEMMA SkipOneTypes == ASSUME TypeOK, NEW n \in Nodes, SkipOne(n) PROVE TypeOK'
  BY DEF TypeOK, SkipOne, run, PassRecords

(* The heads a publication asks for are heads.                             *)
LEMMA HeadsTyped == TypeOK => /\ TerminalHeads \subseteq Heads
                              /\ \A hs \in SUBSET Heads : Undelivered(hs) \subseteq Heads
<1> SUFFICES ASSUME TypeOK
             PROVE  /\ TerminalHeads \subseteq Heads
                    /\ \A hs \in SUBSET Heads : Undelivered(hs) \subseteq Heads
  OBVIOUS
<1>1. \A n \in Nodes : node[n].head \in Heads
  BY Typed DEF NodeRecords
<1> QED
  BY <1>1 DEF TerminalHeads, Terminals, Undelivered

(* Publishing, settling and leaving a pass keep the types.                 *)
LEMMA EndPassTypes == TypeOK /\ EndPass => TypeOK'
<1> SUFFICES ASSUME TypeOK, EndPass PROVE TypeOK'
  OBVIOUS
<1>1. Undelivered(TerminalHeads) \in SUBSET Heads
  BY HeadsTyped
<1>2. [status |-> "publishing", heads |-> Undelivered(TerminalHeads)] \in PublicationRecords
  BY <1>1 DEF PublicationRecords
<1>3. publication' \in PublicationRecords /\ phase' \in Phases /\ paused' \in BOOLEAN
  BY <1>2 DEF TypeOK, EndPass, Phases
<1>4. IdlePass \in PassRecords
  BY DEF IdlePass, PassRecords
<1> QED
  BY <1>3, <1>4 DEF TypeOK, EndPass

(* The end of a publication keeps the types.                               *)
LEMMA PublishTypes == TypeOK /\ (PublishOk \/ PublishFail) => TypeOK'
  BY DEF TypeOK, PublishOk, PublishFail, DeliveredHeads, Phases, PublicationRecords

(* The publication Merger keeps the types.                                 *)
LEMMA MergerTypes == TypeOK /\ (MergerStarted \/ MergerFinished) => TypeOK'
  BY DEF TypeOK, MergerStarted, MergerFinished, PublicationMerger, Phases, PublicationRecords

(* Retrying a publication keeps the types.                                 *)
LEMMA RetryPublicationTypes == TypeOK /\ RetryPublication => TypeOK'
<1> SUFFICES ASSUME TypeOK, RetryPublication PROVE TypeOK'
  OBVIOUS
<1>1. publication.heads \in SUBSET Heads /\ DeliveredHeads \in SUBSET Heads
  BY DEF TypeOK, PublicationRecords, DeliveredHeads
<1>2. Undelivered(publication.heads) \in SUBSET Heads
  BY <1>1, HeadsTyped
<1>3. [status |-> "publishing", heads |-> Undelivered(publication.heads)] \in PublicationRecords
  BY <1>2 DEF PublicationRecords
<1>4. [publication EXCEPT !.status = "completed"] \in PublicationRecords
  BY DEF TypeOK, PublicationRecords
<1>5. publication' \in PublicationRecords /\ phase' \in Phases /\ published' \subseteq Heads
  BY <1>1, <1>3, <1>4 DEF TypeOK, RetryPublication, Phases
<1>6. paused' = FALSE /\ budget' \in Nat
  BY DEF TypeOK, RetryPublication, Spend
<1> QED
  BY <1>5, <1>6 DEF TypeOK, RetryPublication

(* A stop request changes nothing but the flag of an execution.            *)
LEMMA StopFlagType ==
    ASSUME NEW ex \in ExecRecords, NEW b \in BOOLEAN
    PROVE  LET new == [ex EXCEPT !.stop = b] IN
           /\ new \in ExecRecords /\ new.node = ex.node
           /\ new.direct = ex.direct /\ new.status = ex.status
  BY DEF ExecRecords

(* Stop requests leave every execution typed, on its node and in its       *)
(* status.                                                                 *)
LEMMA StopExecsType ==
    ASSUME TypeOK, NEW S, StopExecs(S)
    PROVE  /\ execs' \in Seq(ExecRecords) /\ Len(execs') = Len(execs)
           /\ \A i \in DOMAIN execs : /\ execs'[i].node = execs[i].node
                                      /\ execs'[i].direct = execs[i].direct
                                      /\ execs'[i].status = execs[i].status
<1>1. \A i \in DOMAIN execs : /\ execs'[i] \in ExecRecords
                             /\ execs'[i].node = execs[i].node
                             /\ execs'[i].direct = execs[i].direct
                             /\ execs'[i].status = execs[i].status
  <2> TAKE i \in DOMAIN execs
  <2> DEFINE b == execs[i].stop \/ (i \in RunningExecs /\ execs[i].node \in S)
  <2>1. execs[i] \in ExecRecords
    BY DEF TypeOK
  <2>2. execs'[i] = [execs[i] EXCEPT !.stop = b]
    BY DEF StopExecs
  <2>3. b \in BOOLEAN
    OBVIOUS
  <2> QED
    BY <2>1, <2>2, <2>3, StopFlagType
<1>2. execs' \in [1..Len(execs) -> ExecRecords]
  <2>1. execs' = [i \in DOMAIN execs |-> execs'[i]]
    BY DEF StopExecs
  <2>2. DOMAIN execs = 1..Len(execs)
    BY DEF TypeOK
  <2> QED
    BY <1>1, <2>1, <2>2
<1> QED
  BY <1>1, <1>2, SeqFromFunction DEF TypeOK

(* Pausing keeps the types.                                                *)
LEMMA PauseTypes == TypeOK /\ Pause => TypeOK'
  BY StopExecsType DEF TypeOK, Pause, Spend, Phases

(* The global stop keeps the types.                                        *)
LEMMA StopAllTypes == TypeOK /\ StopAll => TypeOK'
<1> SUFFICES ASSUME TypeOK, StopAll PROVE TypeOK'
  OBVIOUS
<1>1. execs' \in Seq(ExecRecords) /\ Len(execs') = Len(execs)
  BY StopExecsType DEF StopAll
<1>2. phase' \in Phases /\ paused' \in BOOLEAN
  <2>1. CASE Pausable
    BY <2>1 DEF StopAll, Phases
  <2>2. CASE ~Pausable
    BY <2>2 DEF TypeOK, StopAll
  <2> QED
    BY <2>1, <2>2
<1>3. budget' \in Nat
  BY DEF TypeOK, StopAll, Spend
<1> QED
  BY <1>1, <1>2, <1>3 DEF TypeOK, StopAll

(* Stopping a node keeps the types.                                        *)
LEMMA StopNodeTypes == ASSUME TypeOK, NEW n \in Nodes, StopNode(n) PROVE TypeOK'
  BY StopExecsType DEF TypeOK, StopNode, Spend

-----------------------------------------------------------------------------
(* Dispatch                                                                *)

(* The sets of executions the scheduler reads are sets of dispatched       *)
(* executions, and the newest member of one exists.                        *)
LEMMA ExecSets ==
    ASSUME TypeOK, NEW n
    PROVE  /\ Execs(n) \subseteq 1..Len(execs) /\ Live(n) \subseteq 1..Len(execs)
           /\ CompletedExecs(n) \subseteq 1..Len(execs)
           /\ ResumeOf(n) \subseteq 1..Len(execs) /\ TerminalCarriers(n) \subseteq 1..Len(execs)
<1>1. DOMAIN execs = 1..Len(execs)
  BY Typed
<1>2. Execs(n) \subseteq 1..Len(execs)
  BY <1>1 DEF Execs
<1>3. Live(n) \subseteq 1..Len(execs)
  BY <1>2 DEF Live
<1>4. CompletedExecs(n) \subseteq 1..Len(execs)
  BY <1>3 DEF CompletedExecs
<1>5. ResumeOf(n) \subseteq 1..Len(execs)
  BY <1>2, <1>3 DEF ResumeOf
<1>6. TerminalCarriers(n) \subseteq 1..Len(execs)
  BY <1>1 DEF TerminalCarriers
<1> QED
  BY <1>2, <1>3, <1>4, <1>5, <1>6

(* A workspace carries the results of nodes of the graph.                  *)
LEMMA LineageType ==
    ASSUME TypeOK, NEW n \in Nodes, NEW direct \in BOOLEAN
    PROVE  workspace_lineage(n, direct) \in SUBSET Nodes
<1>1. \A i \in 1..Len(execs) : execs[i].lineage \subseteq Nodes
  BY Typed DEF ExecRecords
<1>2. UNION {execs[i].lineage : i \in node[n].feedbackFrom} \subseteq Nodes
  <2>1. node[n].feedbackFrom \subseteq 1..Len(execs)
    BY Typed DEF NodeRecords
  <2> QED
    BY <1>1, <2>1
<1>3. UNION {execs[i].lineage : i \in TerminalCarriers(n)} \subseteq Nodes
  BY <1>1, ExecSets
<1>4. ASSUME ResumeOf(n) # {}
      PROVE  execs[Latest(ResumeOf(n))].lineage \subseteq Nodes
  <2>1. Latest(ResumeOf(n)) \in 1..Len(execs)
    BY <1>4, ExecSets, LatestIsMax, Typed
  <2> QED
    BY <1>1, <2>1
<1>5. Ancestors(n) \subseteq Nodes
  BY DEF Ancestors
<1>6. UNION {execs[Latest(CompletedExecs(p))].lineage \cup {p} :
                p \in {q \in Parents(n) : has_single_consumer(q) /\ CompletedExecs(q) # {}}}
        \subseteq Nodes
  <2>1. ASSUME NEW p \in Nodes, CompletedExecs(p) # {}
        PROVE  execs[Latest(CompletedExecs(p))].lineage \subseteq Nodes
    <3>1. Latest(CompletedExecs(p)) \in 1..Len(execs)
      BY <2>1, ExecSets, LatestIsMax, Typed
    <3> QED
      BY <1>1, <3>1
  <2> QED
    BY <2>1 DEF Parents
<1> QED
  BY <1>2, <1>3, <1>4, <1>5, <1>6 DEF workspace_lineage

(* A prepared workspace starts from a head.                                *)
LEMMA PreparedType ==
    ASSUME TypeOK, NEW n \in Nodes, NEW e \in Nat, NEW direct \in BOOLEAN
    PROVE  Prepared(n, e, direct) \in Heads
<1> DEFINE carrier == CHOOSE i \in TerminalCarriers(n) : TRUE
           terminal == node[execs[carrier].node].head
           base == IF node[n].shared /\ SharedTerminal(n)
                   THEN IF terminal # NoHead THEN terminal ELSE execs[carrier].after
                   ELSE IF node[n].head # NoHead THEN node[n].head
                   ELSE IF Cardinality(Parents(n)) = 1
                   THEN node[CHOOSE p \in Parents(n) : TRUE].head
                   ELSE NoHead
<1>1. \A m \in Nodes : node[m].head \in Heads
  BY Typed DEF NodeRecords
<1>2. ASSUME SharedTerminal(n) PROVE terminal \in Heads /\ execs[carrier].after \in Heads
  <2>1. TerminalCarriers(n) # {}
    BY <1>2, FS_EmptySet DEF SharedTerminal
  <2>2. carrier \in DOMAIN execs
    BY <2>1, ExecSets, Typed
  <2>3. execs[carrier] \in ExecRecords
    BY <2>2, Typed
  <2> HIDE DEF carrier
  <2>4. execs[carrier].node \in Nodes /\ execs[carrier].after \in Heads
    BY <2>3 DEF ExecRecords
  <2> QED
    BY <1>1, <2>4
<1>3. ASSUME Cardinality(Parents(n)) = 1 PROVE node[CHOOSE p \in Parents(n) : TRUE].head \in Heads
  <2>1. Parents(n) # {}
    BY <1>3, FS_EmptySet
  <2> QED
    BY <1>1, <2>1 DEF Parents
<1>4. base \in Heads
  BY <1>1, <1>2, <1>3 DEF Heads, NoHead
<1>5. Prepared(n, e, direct) = IF direct THEN SourceHead
                               ELSE IF base \in {NoHead, SourceHead} THEN e ELSE base
  BY DEF Prepared
<1> HIDE DEF base
<1> QED
  BY <1>4, <1>5 DEF Heads

(* Records that refer to the first k executions still do when there are    *)
(* more.                                                                   *)
LEMMA Widen ==
    ASSUME NEW k \in Nat
    PROVE  /\ NodeRecords(k) \subseteq NodeRecords(k + 1)
           /\ FeedbackRecords(k) \subseteq FeedbackRecords(k + 1)
<1>1. 1..k \subseteq 1..(k + 1)
  OBVIOUS
<1>2. SUBSET (1..k) \subseteq SUBSET (1..(k + 1))
  BY <1>1
<1>3. NodeRecords(k) \subseteq NodeRecords(k + 1)
  BY <1>2 DEF NodeRecords
<1>4. FeedbackRecords(k) \subseteq FeedbackRecords(k + 1)
  BY <1>1 DEF FeedbackRecords
<1> QED
  BY <1>3, <1>4

(* Unblocking keeps a record typed and starts nothing.                     *)
LEMMA UnblockedType ==
    ASSUME NEW k \in Nat, NEW nd \in NodeRecords(k)
    PROVE  Unblocked(nd) \in NodeRecords(k) /\ (Unblocked(nd).status = "running" => nd.status = "running")
  BY DEF Unblocked, NodeRecords, Statuses

(* The record of a started node is well typed.                             *)
LEMMA StartedType ==
    ASSUME NEW k \in Nat, NEW nd \in NodeRecords(k)
    PROVE  [nd EXCEPT !.status = "running", !.error = "none", !.msgs = <<>>,
                      !.continuation = FALSE, !.recoverDirect = FALSE] \in NodeRecords(k)
<1>1. <<>> \in Seq({"direct", "shared", "graph"})
  OBVIOUS
<1> QED
  BY <1>1 DEF NodeRecords, Statuses

(* Superseding an execution changes neither its node nor its status.       *)
LEMMA SupersededType ==
    ASSUME NEW ex \in ExecRecords, NEW b \in BOOLEAN
    PROVE  LET new == [ex EXCEPT !.superseded = b] IN
           /\ new \in ExecRecords /\ new.node = ex.node
           /\ new.direct = ex.direct /\ new.status = ex.status
  BY DEF ExecRecords

(* What StartOne does to the executions: the old ones keep running or not, *)
(* and one more runs, on node n.                                           *)
LEMMA StartOneExecs ==
    ASSUME TypeOK, NEW n \in Nodes, StartOne(n)
    PROVE  /\ execs' \in Seq(ExecRecords) /\ Len(execs') = Len(execs) + 1
           /\ \A i \in 1..Len(execs) : /\ execs'[i].node = execs[i].node
                                       /\ execs'[i].direct = execs[i].direct
                                       /\ execs'[i].status = execs[i].status
           /\ execs'[Len(execs) + 1].node = n
           /\ execs'[Len(execs) + 1].status = "running"
           /\ execs'[Len(execs) + 1].direct => \A i \in RunningExecs : ~execs[i].direct
<1> DEFINE nd == node[n]
           e == Len(execs) + 1
           claimed == (nd.continuation /\ nd.recoverDirect)
                      \/ \E i \in DOMAIN nd.msgs : nd.msgs[i] = "direct"
           direct == pass.direct \/ (nd.continuation /\ nd.recoverDirect)
           exec == [node |-> n, status |-> "running", after |-> NoHead,
                    before |-> Prepared(n, e, direct), superseded |-> FALSE, stop |-> FALSE,
                    direct |-> direct, claimed |-> claimed, conflict |-> FALSE,
                    lineage |-> workspace_lineage(n, direct),
                    reads |-> [p \in Nodes |-> IF p \in Parents(n) THEN made[p] ELSE 0]]
           old == IF ResumeOf(n) = {}
                  THEN [i \in DOMAIN execs |-> [execs[i] EXCEPT
                           !.superseded = @ \/ execs[i].node = n]]
                  ELSE execs
<1>1. execs' = Append(old, exec) /\ ~(direct /\ \E i \in RunningExecs : execs[i].direct)
  BY DEF StartOne
<1>2. direct \in BOOLEAN /\ claimed \in BOOLEAN /\ e \in Nat
  BY Typed
<1>3. Prepared(n, e, direct) \in Heads /\ workspace_lineage(n, direct) \in SUBSET Nodes
  BY <1>2, PreparedType, LineageType
<1>4. [p \in Nodes |-> IF p \in Parents(n) THEN made[p] ELSE 0] \in [Nodes -> Nat]
  BY DEF TypeOK
<1>5. exec \in ExecRecords /\ exec.node = n /\ exec.status = "running" /\ exec.direct = direct
  <2> HIDE DEF direct, claimed, e
  <2> QED
    BY <1>2, <1>3, <1>4 DEF ExecRecords, Heads, NoHead
<1>6. /\ old \in [1..Len(execs) -> ExecRecords]
      /\ \A i \in 1..Len(execs) : /\ old[i].node = execs[i].node
                                  /\ old[i].direct = execs[i].direct
                                  /\ old[i].status = execs[i].status
  <2>1. CASE ResumeOf(n) # {}
    BY <2>1, Typed DEF TypeOK
  <2>2. CASE ResumeOf(n) = {}
    <3>1. ASSUME NEW i \in 1..Len(execs)
          PROVE  /\ old[i] \in ExecRecords /\ old[i].node = execs[i].node
                 /\ old[i].direct = execs[i].direct /\ old[i].status = execs[i].status
      <4>1. execs[i] \in ExecRecords /\ i \in DOMAIN execs
        BY Typed
      <4> DEFINE b == execs[i].superseded \/ execs[i].node = n
      <4>2. old[i] = [execs[i] EXCEPT !.superseded = b]
        BY <2>2, <4>1
      <4>3. b \in BOOLEAN
        OBVIOUS
      <4> QED
        BY <4>1, <4>2, <4>3, SupersededType
    <3>2. old = [i \in 1..Len(execs) |-> old[i]]
      BY <2>2, Typed
    <3> HIDE DEF old
    <3> QED
      BY <3>1, <3>2
  <2> QED
    BY <2>1, <2>2
<1>7. old \in Seq(ExecRecords) /\ Len(old) = Len(execs)
  BY <1>6, Typed, SeqFromFunction
<1> HIDE DEF old, exec
<1>8. /\ execs' \in Seq(ExecRecords) /\ Len(execs') = Len(execs) + 1
      /\ \A i \in 1..Len(execs) : execs'[i] = old[i]
      /\ execs'[Len(execs) + 1] = exec
  BY <1>1, <1>5, <1>7
<1> QED
  BY <1>1, <1>5, <1>6, <1>8

(* Starting a node keeps the types.                                        *)
LEMMA StartOneTypes == ASSUME TypeOK, NEW n \in Nodes, StartOne(n) PROVE TypeOK'
<1> DEFINE k == Len(execs)
           started == [node[n] EXCEPT !.status = "running", !.error = "none", !.msgs = <<>>,
                                      !.continuation = FALSE, !.recoverDirect = FALSE]
<1>1. node' = [m \in Nodes |-> IF m = n THEN started
                               ELSE IF m \in Downstream(n) THEN Unblocked(node[m]) ELSE node[m]]
  BY DEF StartOne
<1>2. started \in NodeRecords(k) /\ \A m \in Nodes : Unblocked(node[m]) \in NodeRecords(k)
  BY Typed, StartedType, UnblockedType
<1> HIDE DEF started
<1>3. node' \in [Nodes -> NodeRecords(k + 1)]
  BY <1>1, <1>2, Typed, Widen
<1>4. pending' \subseteq FeedbackRecords(k + 1)
  BY Typed, Widen DEF TypeOK, StartOne
<1>5. phase' \in Phases
  BY DEF TypeOK, StartOne, PausedOr, Phases
<1>6. pass' \in PassRecords
  <2>1. pass' = [pass EXCEPT !.ready = pass.ready \ {n}, !.started = TRUE]
    BY DEF StartOne
  <2> QED
    BY <2>1 DEF TypeOK, PassRecords
<1>7. UNCHANGED <<counts, approved, paused, stopRequested, publication, published,
                  delivered, made, budget, crashes>>
  BY DEF StartOne
<1> QED
  BY <1>3, <1>4, <1>5, <1>6, <1>7, StartOneExecs DEF TypeOK

-----------------------------------------------------------------------------
(* Feedback                                                                *)

(* Changing a record's status keeps it typed.                              *)
LEMMA RequeuedType ==
    ASSUME NEW k \in Nat, NEW nd \in NodeRecords(k), NEW st \in {"waiting", "dirty"}
    PROVE  [nd EXCEPT !.status = st] \in NodeRecords(k)
  BY DEF NodeRecords, Statuses

(* The record of a node about to repair is well typed.                     *)
LEMMA RepairType ==
    ASSUME NEW k \in Nat, NEW nd \in NodeRecords(k), NEW st \in {"waiting", "dirty"},
           NEW h \in Heads, NEW from \in SUBSET (1..k)
    PROVE  [nd EXCEPT !.status = st, !.error = "none", !.head = h, !.baseline = NoHead,
                      !.human = TRUE, !.shared = FALSE, !.feedbackFrom = from] \in NodeRecords(k)
  BY DEF NodeRecords, Statuses, Heads, NoHead

(* Applying a batch keeps the nodes typed and starts none of them.         *)
LEMMA ApplyBatchNodes ==
    ASSUME TypeOK, NEW to \in Nodes, NEW batch \in SUBSET pending, ApplyBatch(to, batch)
    PROVE  /\ node' \in [Nodes -> NodeRecords(Len(execs))]
           /\ \A m \in Nodes : node'[m].status = "running" => node[m].status = "running"
<1> DEFINE k == Len(execs)
           edge(p) == <<p.from, p.to>>
           applied == {p \in batch : ~p.accepted /\ feedback_budget_available(edge(p))}
           first == CHOOSE p \in applied : \A q \in applied : p.order <= q.order
           requeued(m) == [Reset(node[m], FALSE) EXCEPT !.status = Requeued(m)]
           repaired == [node[to] EXCEPT
                          !.status = Requeued(to), !.error = "none",
                          !.head = first.sourceHead, !.baseline = NoHead,
                          !.human = TRUE, !.shared = FALSE,
                          !.feedbackFrom = {p.exec : p \in applied}]
<1>1. CASE applied = {}
  BY <1>1 DEF ApplyBatch, TypeOK
<1>2. CASE applied # {}
  <2>1. node' = [m \in Nodes |-> IF m \notin Affected(to) THEN node[m]
                                 ELSE IF m # to THEN requeued(m) ELSE repaired]
    BY <1>2 DEF ApplyBatch
  <2>2. applied \subseteq FeedbackRecords(k)
    BY DEF TypeOK
  <2>3. first \in applied
    <3> HIDE DEF applied
    <3>1. {p.order : p \in applied} \in SUBSET Nat /\ {p.order : p \in applied} # {}
      BY <1>2, <2>2 DEF FeedbackRecords
    <3>2. PICK x \in {p.order : p \in applied} : \A y \in {p.order : p \in applied} : x <= y
      BY <3>1, LeastNatural
    <3>3. \E p \in applied : \A q \in applied : p.order <= q.order
      BY <3>2
    <3> QED
      BY <3>3
  <2>4. first.sourceHead \in Heads /\ {p.exec : p \in applied} \in SUBSET (1..k)
    <3> HIDE DEF applied, first
    <3> QED
      BY <2>2, <2>3 DEF FeedbackRecords
  <2> HIDE DEF first, applied
  <2>5. repaired \in NodeRecords(k) /\ repaired.status \in {"waiting", "dirty"}
    <3>1. node[to] \in NodeRecords(k) /\ k \in Nat /\ Requeued(to) \in {"waiting", "dirty"}
      BY Typed, RequeuedIdle
    <3>2. repaired \in NodeRecords(k)
      BY <2>4, <3>1, RepairType
    <3>3. repaired.status = Requeued(to)
      BY <3>1 DEF NodeRecords
    <3> QED
      BY <3>1, <3>2, <3>3
  <2>6. ASSUME NEW m \in Nodes
        PROVE  requeued(m) \in NodeRecords(k) /\ requeued(m).status \in {"waiting", "dirty"}
    <3>1. /\ Reset(node[m], FALSE) \in NodeRecords(k) /\ k \in Nat
          /\ Requeued(m) \in {"waiting", "dirty"}
      BY Typed, ResetType, RequeuedIdle
    <3>2. requeued(m) \in NodeRecords(k)
      BY <3>1, RequeuedType
    <3>3. requeued(m).status = Requeued(m)
      BY <3>1 DEF NodeRecords
    <3> QED
      BY <3>1, <3>2, <3>3
  <2> HIDE DEF requeued, repaired
  <2> QED
    BY <2>1, <2>5, <2>6, Typed
<1> QED
  BY <1>1, <1>2

(* Applying a batch keeps the types.                                       *)
LEMMA ApplyBatchTypes ==
    ASSUME TypeOK, NEW to \in Nodes, NEW batch \in SUBSET pending, ApplyBatch(to, batch),
           execs' = execs
    PROVE  /\ pending' \subseteq FeedbackRecords(Len(execs))
           /\ phase' \in Phases /\ stopRequested' \in BOOLEAN
           /\ publication' \in PublicationRecords
<1>1. pending' \subseteq FeedbackRecords(Len(execs))
  BY DEF ApplyBatch, TypeOK
<1>2. PausedOr("running") \in Phases /\ NoPublication \in PublicationRecords
  BY DEF PausedOr, Phases, NoPublication, PublicationRecords
<1>3. phase' \in {phase, PausedOr("running")} /\ stopRequested' \in {stopRequested, FALSE}
      /\ publication' \in {publication, NoPublication}
  BY DEF ApplyBatch
<1> QED
  BY <1>1, <1>2, <1>3 DEF TypeOK

-----------------------------------------------------------------------------
(* Workers                                                                 *)

(* A failed worker keeps the types.                                        *)
LEMMA FinishErrTypes ==
    ASSUME TypeOK, NEW e \in DOMAIN execs,
           NEW why \in {"failed", "interrupted", "composition"}, FinishErr(e, why)
    PROVE  TypeOK'
<1> DEFINE n == execs[e].node
<1>1. n \in Nodes /\ execs[e] \in ExecRecords
  BY Typed DEF ExecRecords
<1>2. node' = [node EXCEPT ![n] = FailNode(node[n], why)]
  BY DEF FinishErr
<1>3. node' \in [Nodes -> NodeRecords(Len(execs))]
  BY <1>1, <1>2, Typed, FailNodeType, NodeUpdate
<1>4. execs' = [execs EXCEPT ![e] = [execs[e] EXCEPT !.status = "failed"]]
  BY DEF FinishErr
<1>5. [execs[e] EXCEPT !.status = "failed"] \in ExecRecords
  BY <1>1 DEF ExecRecords
<1>6. execs' \in Seq(ExecRecords) /\ Len(execs') = Len(execs)
  BY <1>4, <1>5 DEF TypeOK
<1> QED
  BY <1>3, <1>6 DEF TypeOK, FinishErr

(* A failed composition Merger keeps the types.                            *)
LEMMA MergerFailedTypes == ASSUME TypeOK, NEW e \in DOMAIN execs, MergerFailed(e) PROVE TypeOK'
<1> DEFINE n == execs[e].node
<1>1. n \in Nodes /\ execs[e] \in ExecRecords
  BY Typed DEF ExecRecords
<1>2. node' = [node EXCEPT ![n] = [node[n] EXCEPT !.status = "blocked", !.error = "merger"]]
  BY DEF MergerFailed
<1>3. node' \in [Nodes -> NodeRecords(Len(execs))]
  BY <1>1, <1>2, Typed, BlockedType, NodeUpdate
<1>4. execs' = [execs EXCEPT ![e] = [execs[e] EXCEPT !.conflict = TRUE]]
  BY DEF MergerFailed
<1>5. [execs[e] EXCEPT !.conflict = TRUE] \in ExecRecords
  BY <1>1 DEF ExecRecords
<1>6. execs' \in Seq(ExecRecords) /\ Len(execs') = Len(execs)
  BY <1>4, <1>5 DEF TypeOK
<1> QED
  BY <1>3, <1>6 DEF TypeOK, MergerFailed

(* The record of a completed node is well typed.                           *)
LEMMA CompletedType ==
    ASSUME NEW k \in Nat, NEW nd \in NodeRecords(k), NEW head \in Heads
    PROVE  [nd EXCEPT !.status = "completed", !.head = head, !.baseline = NoHead,
                      !.shared = FALSE, !.feedbackFrom = {}] \in NodeRecords(k)
  BY DEF NodeRecords, Statuses, Heads, NoHead

(* The record of a node completed with messages waiting is well typed.     *)
LEMMA FollowUpType ==
    ASSUME NEW k \in Nat, NEW nd \in NodeRecords(k), NEW h \in Heads, NEW b \in BOOLEAN
    PROVE  [nd EXCEPT !.status = "dirty", !.human = TRUE, !.baseline = h, !.shared = b]
              \in NodeRecords(k)
  BY DEF NodeRecords, Statuses

(* Moving a node's head keeps its record typed.                            *)
LEMMA HeadType ==
    ASSUME NEW k \in Nat, NEW nd \in NodeRecords(k), NEW h \in Heads
    PROVE  [nd EXCEPT !.head = h] \in NodeRecords(k)
  BY DEF NodeRecords

(* The attempt a review judged is a dispatched execution, or none.         *)
LEMMA ReviewedType ==
    ASSUME TypeOK, NEW e, NEW t
    PROVE  reviewed_execution(e, t) \in Nat
<1> DEFINE before == {i \in Execs(t) : i < e /\ execs[i].status # "running"}
<1>1. before \in SUBSET (1..Len(execs))
  BY ExecSets
<1>2. reviewed_execution(e, t) = IF before = {} THEN 0 ELSE Latest(before)
  BY DEF reviewed_execution
<1> HIDE DEF before
<1>3. ASSUME before # {} PROVE Latest(before) \in 1..Len(execs)
  BY <1>1, <1>3, LatestIsMax, Typed
<1> QED
  BY <1>2, <1>3

(* What FinishOk does to the nodes: only the finished one leaves running.  *)
LEMMA FinishOkNodes ==
    ASSUME TypeOK, NEW e \in DOMAIN execs, NEW head \in Heads, NEW accepted \in BOOLEAN,
           FinishOk(e, head, accepted)
    PROVE  /\ node' \in [Nodes -> NodeRecords(Len(execs))]
           /\ node'[execs[e].node].status # "running"
           /\ \A m \in Nodes : node'[m].status = "running" => node[m].status = "running"
<1> DEFINE k == Len(execs)
           n == execs[e].node
           nd == node[n]
           changed == nd.baseline # NoHead /\ nd.baseline # head
           dependents == IF changed /\ ~nd.shared THEN Affected(n) \ {n} ELSE {}
           carried == execs[e].lineage \ {n}
           done == [nd EXCEPT !.status = "completed", !.head = head, !.baseline = NoHead,
                              !.shared = FALSE, !.feedbackFrom = {}]
           base == IF Head(nd.msgs) = "direct" THEN NoHead ELSE head
           isShared == Head(nd.msgs) = "shared"
           again == [done EXCEPT !.status = "dirty", !.human = TRUE, !.baseline = base,
                                 !.shared = isShared]
           requeued(m) == [Reset(node[m], ~Unstarted(m)) EXCEPT !.status = Requeued(m)]
           carry(m) == [node[m] EXCEPT !.head = head]
<1>1. node' = [m \in Nodes |->
              IF m = n THEN IF nd.msgs = <<>> THEN done ELSE again
              ELSE IF m \in dependents THEN requeued(m)
              ELSE IF m \in carried /\ node[m].status = "completed" THEN carry(m)
              ELSE node[m]]
  BY DEF FinishOk
<1>2. n \in Nodes /\ k \in Nat /\ nd \in NodeRecords(k)
  BY Typed DEF ExecRecords
<1>3. done \in NodeRecords(k) /\ done.status = "completed"
  <2>1. done \in NodeRecords(k)
    BY <1>2, CompletedType
  <2>2. done.status = "completed"
    BY <1>2 DEF NodeRecords
  <2> QED
    BY <2>1, <2>2
<1>4. again \in NodeRecords(k) /\ again.status = "dirty"
  <2>1. base \in Heads /\ isShared \in BOOLEAN
    BY DEF Heads, NoHead
  <2> HIDE DEF base, isShared, done
  <2>2. again \in NodeRecords(k)
    BY <1>2, <1>3, <2>1, FollowUpType
  <2>3. again.status = "dirty"
    BY <1>3 DEF NodeRecords
  <2> QED
    BY <2>2, <2>3
<1>5. ASSUME NEW m \in Nodes
      PROVE  /\ requeued(m) \in NodeRecords(k) /\ requeued(m).status # "running"
             /\ carry(m) \in NodeRecords(k) /\ carry(m).status = node[m].status
  <2>1. node[m] \in NodeRecords(k) /\ Requeued(m) \in {"waiting", "dirty"}
    BY Typed, RequeuedIdle
  <2>2. (~Unstarted(m)) \in BOOLEAN
    OBVIOUS
  <2>3. Reset(node[m], ~Unstarted(m)) \in NodeRecords(k)
    BY <1>2, <2>1, <2>2, ResetType
  <2> DEFINE rst == Reset(node[m], ~Unstarted(m))
  <2> HIDE DEF rst
  <2>4. requeued(m) \in NodeRecords(k)
    BY <1>2, <2>1, <2>3, RequeuedType
  <2>5. requeued(m).status = Requeued(m)
    BY <2>3 DEF NodeRecords
  <2>6. carry(m) \in NodeRecords(k)
    BY <1>2, <2>1, HeadType
  <2>7. carry(m).status = node[m].status
    BY <2>1 DEF NodeRecords
  <2> QED
    BY <2>1, <2>4, <2>5, <2>6, <2>7
<1> HIDE DEF done, again, requeued, carry, dependents, carried
<1>6. /\ \A m \in Nodes : node'[m] \in NodeRecords(k)
      /\ \A m \in Nodes : node'[m].status = "running" => node[m].status = "running"
  BY <1>1, <1>2, <1>3, <1>4, <1>5, Typed
<1>7. node'[n].status # "running"
  BY <1>1, <1>2, <1>3, <1>4
<1>8. node' \in [Nodes -> NodeRecords(k)]
  BY <1>1, <1>6
<1> QED
  BY <1>6, <1>7, <1>8

(* What FinishOk does to the executions and to the queue of verdicts.      *)
LEMMA FinishOkQueue ==
    ASSUME TypeOK, NEW e \in DOMAIN execs, NEW head \in Heads, NEW accepted \in BOOLEAN,
           FinishOk(e, head, accepted)
    PROVE  /\ execs' \in Seq(ExecRecords) /\ Len(execs') = Len(execs)
           /\ \A i \in DOMAIN execs : /\ execs'[i].node = execs[i].node
                                      /\ execs'[i].direct = execs[i].direct
           /\ \A i \in DOMAIN execs : i # e => execs'[i] = execs[i]
           /\ execs'[e].status = "completed"
           /\ pending' = pending \/ \E v \in FeedbackRecords(Len(execs)) :
                 v.from = execs[e].node /\ pending' = pending \cup {v}
<1>1. execs[e] \in ExecRecords
  BY Typed
<1>2. /\ [execs[e] EXCEPT !.status = "completed", !.after = head] \in ExecRecords
      /\ [execs[e] EXCEPT !.status = "completed", !.after = head].node = execs[e].node
      /\ [execs[e] EXCEPT !.status = "completed", !.after = head].direct = execs[e].direct
      /\ [execs[e] EXCEPT !.status = "completed", !.after = head].status = "completed"
  BY <1>1 DEF ExecRecords
<1>3. execs' = [execs EXCEPT ![e] = [execs[e] EXCEPT !.status = "completed", !.after = head]]
  BY DEF FinishOk
<1> DEFINE new == [execs[e] EXCEPT !.status = "completed", !.after = head]
<1> HIDE DEF new
<1>4. /\ execs' \in Seq(ExecRecords) /\ Len(execs') = Len(execs)
      /\ execs'[e] = new /\ \A i \in DOMAIN execs : i # e => execs'[i] = execs[i]
  BY <1>2, <1>3 DEF TypeOK, new
<1>5. pending' = pending \/ \E v \in FeedbackRecords(Len(execs)) :
                 v.from = execs[e].node /\ pending' = pending \cup {v}
  <2> DEFINE n == execs[e].node
             to == FeedbackTarget(n)
             ended == Cardinality(DOMAIN execs \ RunningExecs)
             seen == IF to \in execs[e].lineage THEN head ELSE node[to].head
             verdict == [order |-> ended, exec |-> e, from |-> n, to |-> to,
                         sourceHead |-> head, targetRevision |-> node[to].revision,
                         targetExec |-> reviewed_execution(e, to), targetHead |-> seen,
                         accepted |-> accepted]
  <2>1. pending' = IF IsFeedbackSource(n) THEN pending \cup {verdict} ELSE pending
    BY DEF FinishOk
  <2>2. ASSUME IsFeedbackSource(n) PROVE verdict \in FeedbackRecords(Len(execs)) /\ verdict.from = n
    <3>1. to \in Nodes /\ n \in Nodes
      BY <1>1, <2>2, GraphAssumption DEF IsFeedbackSource, FeedbackTarget, ExecRecords
    <3>2. ended \in Nat
      <4>1. IsFiniteSet(1..Len(execs))
        BY Typed, FS_Interval
      <4> QED
        BY <4>1, Typed, FS_Subset, FS_CardinalityType
    <3>3. node[to].revision \in Nat /\ node[to].head \in Heads
      BY <3>1, Typed DEF NodeRecords
    <3>4. seen \in Heads /\ reviewed_execution(e, to) \in Nat /\ e \in 1..Len(execs)
      BY <3>3, ReviewedType, Typed
    <3> HIDE DEF n, to, ended, seen
    <3> QED
      BY <3>1, <3>2, <3>3, <3>4 DEF FeedbackRecords
  <2> HIDE DEF verdict
  <2> QED
    BY <2>1, <2>2
<1> QED
  BY <1>2, <1>4, <1>5 DEF new

(* A successful worker keeps the types.                                    *)
LEMMA FinishOkTypes ==
    ASSUME TypeOK, NEW e \in DOMAIN execs, NEW head \in Heads, NEW accepted \in BOOLEAN,
           FinishOk(e, head, accepted)
    PROVE  TypeOK'
<1>1. pending' \subseteq FeedbackRecords(Len(execs))
  BY FinishOkQueue DEF TypeOK
<1>2. phase' \in {"followup", phase} /\ publication' \in {NoPublication, publication}
  BY DEF FinishOk
<1>3. NoPublication \in PublicationRecords /\ "followup" \in Phases
  BY DEF NoPublication, PublicationRecords, Phases
<1>4. made' \in [Nodes -> Nat]
  <2>1. made' = made \/ made' = [made EXCEPT ![execs[e].node] = e]
    BY DEF FinishOk
  <2>2. e \in Nat
    BY Typed
  <2> QED
    BY <2>1, <2>2 DEF TypeOK
<1>5. UNCHANGED <<counts, approved, paused, stopRequested, published, delivered,
                  pass, budget, crashes>>
  BY DEF FinishOk
<1> QED
  BY <1>1, <1>2, <1>3, <1>4, <1>5, FinishOkNodes, FinishOkQueue DEF TypeOK

-----------------------------------------------------------------------------
(* Control requests                                                        *)

(* Resuming, with the recovery of any set of nodes, keeps the types.       *)
LEMMA UnpauseTypes ==
    ASSUME TypeOK, NEW roots \in SUBSET Nodes, Unpause(roots), budget' \in Nat
    PROVE  /\ TypeOK'
           /\ \A n \in Nodes : node'[n].status = "running" => node[n].status = "running"
<1> DEFINE k == Len(execs)
           affected(n) == /\ \E r \in roots : n \in Downstream(r)
                          /\ node[n].status \in {"failed", "blocked"}
           cont(n) == node[n].msgs = <<>> /\ n \in roots
           repair(n) == /\ Len(node[n].msgs) = 1 /\ node[n].human
                        /\ Cardinality(node[n].feedbackFrom) > 1
           st(n) == IF node[n].head # NoHead \/ CompletedExecs(n) # {} THEN "dirty" ELSE "waiting"
           ms(n) == IF repair(n) THEN <<>> ELSE node[n].msgs
           direct(n) == cont(n) /\ execs[Latest(Live(n))].direct /\ execs[Latest(Live(n))].claimed
           new(n) == [node[n] EXCEPT !.status = st(n), !.msgs = ms(n), !.error = "none",
                        !.baseline = NoHead, !.continuation = cont(n), !.recoverDirect = direct(n)]
<1>1. node' = [n \in Nodes |-> IF affected(n) THEN new(n) ELSE node[n]]
  BY DEF Unpause, Recovered
<1>2. ASSUME NEW n \in Nodes PROVE new(n) \in NodeRecords(k) /\ new(n).status # "running"
  <2>1. node[n] \in NodeRecords(k) /\ k \in Nat
    BY Typed
  <2>2. st(n) \in {"dirty", "waiting"} /\ cont(n) \in BOOLEAN /\ direct(n) \in BOOLEAN
    OBVIOUS
  <2>3. ms(n) \in Seq({"direct", "shared", "graph"})
    BY <2>1 DEF NodeRecords
  <2> HIDE DEF st, ms, cont, direct
  <2>4. new(n) \in NodeRecords(k) /\ new(n).status = st(n)
    BY <2>1, <2>2, <2>3 DEF NodeRecords, Statuses, Heads, NoHead
  <2> QED
    BY <2>2, <2>4
<1> HIDE DEF new, affected
<1>3. /\ node' \in [Nodes -> NodeRecords(k)]
      /\ \A n \in Nodes : node'[n].status = "running" => node[n].status = "running"
  BY <1>1, <1>2, Typed
<1>4. /\ paused' = FALSE /\ stopRequested' = FALSE /\ phase' = "running"
      /\ UNCHANGED <<execs, pending, counts, approved, publication, published, delivered,
                     pass, made, crashes>>
  BY DEF Unpause
<1>5. "running" \in Phases
  BY DEF Phases
<1> QED
  BY <1>3, <1>4, <1>5 DEF TypeOK

(* A message to a node keeps the types.                                    *)
LEMMA InterveneTypes ==
    ASSUME TypeOK, NEW n \in Nodes, Intervene(n)
    PROVE  /\ TypeOK'
           /\ \A m \in Nodes : node'[m].status = "running" => node[m].status = "running"
<1> DEFINE k == Len(execs)
           nd == node[n]
           isDirect == source_direct_context(n)
           kind == IF isDirect THEN "direct" ELSE IF SharedTerminal(n) THEN "shared" ELSE "graph"
           ms == Append(nd.msgs, kind)
           rev == IF Unstarted(n) THEN nd.revision ELSE nd.revision + 1
           b == kind = "shared"
           queued == [nd EXCEPT !.msgs = ms, !.revision = nd.revision + 1]
           base == [nd EXCEPT !.msgs = ms, !.error = "none", !.human = TRUE]
           direct == [base EXCEPT !.status = "dirty", !.revision = base.revision + 1,
                                  !.baseline = NoHead, !.shared = FALSE, !.feedbackFrom = {}]
           graph == [base EXCEPT !.status = Requeued(n), !.shared = b,
                                 !.revision = IF Unstarted(n) THEN base.revision
                                                              ELSE base.revision + 1,
                                 !.baseline = nd.head]
<1>1. nd \in NodeRecords(k) /\ k \in Nat /\ Requeued(n) \in {"waiting", "dirty"}
  BY Typed, RequeuedIdle
<1>2. nd.revision \in Nat /\ rev \in Nat /\ nd.revision + 1 \in Nat /\ b \in BOOLEAN
      /\ base.revision = nd.revision
  BY <1>1 DEF NodeRecords
<1>3. ms \in Seq({"direct", "shared", "graph"})
  BY <1>1 DEF NodeRecords
<1>4. \/ node' = [node EXCEPT ![n] = queued]
      \/ node' = [node EXCEPT ![n] = direct]
      \/ node' = [node EXCEPT ![n] = graph]
  BY DEF Intervene
<1> HIDE DEF ms, kind, isDirect, b
<1>5. /\ queued \in NodeRecords(k) /\ queued.status = nd.status
      /\ direct \in NodeRecords(k) /\ direct.status = "dirty"
      /\ graph \in NodeRecords(k) /\ graph.status = Requeued(n)
  <2>1. nd.head \in Heads /\ NoHead \in Heads
    BY <1>1 DEF NodeRecords, Heads, NoHead
  <2>2. queued \in NodeRecords(k) /\ queued.status = nd.status
    BY <1>1, <1>2, <1>3 DEF NodeRecords
  <2>3. base \in NodeRecords(k)
    BY <1>1, <1>3 DEF NodeRecords
  <2> HIDE DEF base
  <2>4. direct \in NodeRecords(k) /\ direct.status = "dirty"
    BY <1>2, <2>1, <2>3 DEF NodeRecords, Statuses
  <2>5. graph \in NodeRecords(k) /\ graph.status = Requeued(n)
    BY <1>1, <1>2, <2>1, <2>3 DEF NodeRecords, Statuses
  <2> QED
    BY <2>2, <2>4, <2>5
<1> HIDE DEF queued, direct, graph
<1>6. /\ node' \in [Nodes -> NodeRecords(k)]
      /\ \A m \in Nodes : node'[m].status = "running" => node[m].status = "running"
  BY <1>1, <1>4, <1>5 DEF TypeOK
<1>7. /\ phase' \in {phase, PausedOr("followup"), PausedOr("running")}
      /\ publication' \in {publication, NoPublication} /\ stopRequested' = FALSE
      /\ UNCHANGED <<execs, pending, counts, approved, paused, published, delivered,
                     pass, made, crashes>>
  BY DEF Intervene
<1>8. {PausedOr("followup"), PausedOr("running")} \subseteq Phases
      /\ NoPublication \in PublicationRecords
  BY DEF PausedOr, Phases, NoPublication, PublicationRecords
<1>9. budget' \in Nat
  BY DEF TypeOK, Intervene, Spend
<1> QED
  BY <1>6, <1>7, <1>8, <1>9 DEF TypeOK

(* A manual resolution keeps the types.                                    *)
LEMMA ResolveTypes ==
    ASSUME TypeOK, NEW n \in Nodes, Resolve(n)
    PROVE  /\ TypeOK'
           /\ \A m \in Nodes : node'[m].status # "running"
           /\ RunningExecs' = {}
<1> DEFINE k == Len(execs)
           e == Latest(Execs(n))
           own == [node[n] EXCEPT !.status = "dirty", !.error = "none", !.head = e,
                                  !.revision = node[n].revision + 1]
           other(m) == [node[m] EXCEPT !.status = Requeued(m), !.error = "none", !.head = NoHead,
                           !.revision = IF Unstarted(m) THEN node[m].revision
                                                        ELSE node[m].revision + 1]
<1>1. e \in 1..k /\ e \in DOMAIN execs /\ e \in Heads /\ k \in Nat
  <2>1. Execs(n) # {}
    BY DEF Resolve
  <2>2. e \in 1..k
    BY <2>1, ExecSets, LatestIsMax, Typed
  <2> QED
    BY <2>2, Typed DEF Heads
<1>2. node' = [m \in Nodes |-> IF m \notin Affected(n) THEN node[m]
                               ELSE IF m = n THEN own ELSE other(m)]
  BY DEF Resolve
<1>3. execs' = [execs EXCEPT ![e] = [execs[e] EXCEPT !.status = "resolved"]]
  BY DEF Resolve
<1> HIDE DEF e
<1>4. ASSUME NEW m \in Nodes
      PROVE  node[m] \in NodeRecords(k) /\ Requeued(m) \in {"waiting", "dirty"}
             /\ node[m].revision \in Nat /\ node[m].revision + 1 \in Nat
  BY Typed, RequeuedIdle DEF NodeRecords
<1>5. own \in NodeRecords(k) /\ own.status = "dirty"
  BY <1>1, <1>4 DEF NodeRecords, Statuses
<1>6. ASSUME NEW m \in Nodes PROVE other(m) \in NodeRecords(k) /\ other(m).status = Requeued(m)
  BY <1>4 DEF NodeRecords, Statuses, Heads, NoHead
<1> HIDE DEF own, other
<1>7. node' \in [Nodes -> NodeRecords(k)]
  BY <1>2, <1>4, <1>5, <1>6
<1>8. \A m \in Nodes : node'[m].status # "running"
  <2>1. \A m \in Nodes : node[m].status # "running"
    BY DEF Resolve, Active
  <2> QED
    BY <1>2, <1>4, <1>5, <1>6, <2>1
<1>9. /\ [execs[e] EXCEPT !.status = "resolved"] \in ExecRecords
      /\ [execs[e] EXCEPT !.status = "resolved"].status = "resolved"
  <2>1. execs[e] \in ExecRecords
    BY <1>1, Typed
  <2> QED
    BY <2>1 DEF ExecRecords
<1>10. execs' \in Seq(ExecRecords) /\ Len(execs') = k /\ DOMAIN execs' = DOMAIN execs
  BY <1>1, <1>3, <1>9 DEF TypeOK
<1>11. RunningExecs' = {}
  <2>1. RunningExecs = {}
    BY DEF Resolve
  <2> QED
    BY <1>1, <1>3, <1>9, <1>10, <2>1 DEF RunningExecs
<1>12. /\ publication' = NoPublication /\ phase' = PausedOr("running")
       /\ UNCHANGED <<pending, counts, approved, paused, stopRequested, published, delivered,
                      pass, made, crashes>>
  BY DEF Resolve
<1>13. NoPublication \in PublicationRecords /\ PausedOr("running") \in Phases
  BY DEF NoPublication, PublicationRecords, PausedOr, Phases
<1>14. budget' \in Nat
  <2>1. Spend("resolve")
    BY DEF Resolve
  <2> QED
    BY <2>1 DEF TypeOK, Spend
<1> QED
  BY <1>7, <1>8, <1>10, <1>11, <1>12, <1>13, <1>14 DEF TypeOK

(* A crash and the recovery that follows it keep the types.                *)
LEMMA CrashTypes ==
    ASSUME TypeOK, Crash
    PROVE  TypeOK' /\ Len(execs') = Len(execs) /\ RunningExecs' = {}
<1> DEFINE k == Len(execs)
           closed(i) == [execs[i] EXCEPT !.status = "failed"]
           merger(n) == [FailNode(node[n], "interrupted") EXCEPT !.status = "blocked",
                                                                 !.error = "merger"]
<1>1. PICK mergers \in SUBSET RunningExecs :
        node' = [n \in Nodes |->
          IF \E e \in mergers : execs[e].node = n THEN merger(n)
          ELSE IF \E e \in RunningExecs : execs[e].node = n
          THEN FailNode(node[n], "interrupted") ELSE node[n]]
  BY DEF Crash
<1>2. ASSUME NEW n \in Nodes
      PROVE  FailNode(node[n], "interrupted") \in NodeRecords(k) /\ merger(n) \in NodeRecords(k)
  BY Typed, FailNodeType, BlockedType
<1>3. node' \in [Nodes -> NodeRecords(k)]
  <2> HIDE DEF merger
  <2> QED
    BY <1>1, <1>2, Typed
<1>4. execs' = [i \in DOMAIN execs |-> IF i \in RunningExecs THEN closed(i) ELSE execs[i]]
  BY DEF Crash
<1>5. ASSUME NEW i \in DOMAIN execs PROVE closed(i) \in ExecRecords /\ closed(i).status = "failed"
  <2>1. execs[i] \in ExecRecords
    BY Typed
  <2> QED
    BY <2>1 DEF ExecRecords
<1> HIDE DEF closed
<1>6. execs' \in [1..k -> ExecRecords] /\ \A i \in 1..k : execs'[i].status # "running"
  BY <1>4, <1>5, Typed DEF RunningExecs
<1>7. execs' \in Seq(ExecRecords) /\ Len(execs') = k /\ RunningExecs' = {}
  BY <1>6, Typed, SeqFromFunction DEF RunningExecs
<1>8. /\ phase' \in {phase, "publication_failed", "paused"} /\ paused' \in {paused, TRUE}
      /\ publication' \in {publication, [publication EXCEPT !.status = "failed"]}
      /\ crashes' = crashes + 1 /\ pass' = IdlePass
      /\ UNCHANGED <<pending, counts, approved, stopRequested, published, delivered, made, budget>>
  BY DEF Crash
<1>9. /\ [publication EXCEPT !.status = "failed"] \in PublicationRecords
      /\ IdlePass \in PassRecords /\ {"publication_failed", "paused"} \subseteq Phases
  BY DEF TypeOK, PublicationRecords, IdlePass, PassRecords, Phases
<1>10. phase' \in Phases /\ paused' \in BOOLEAN /\ publication' \in PublicationRecords
       /\ crashes' \in Nat /\ pass' \in PassRecords
  <2>1. phase \in Phases /\ paused \in BOOLEAN /\ publication \in PublicationRecords
        /\ crashes \in Nat
    BY DEF TypeOK
  <2>2. phase' \in Phases /\ publication' \in PublicationRecords
    BY <1>8, <1>9, <2>1
  <2>3. paused' \in BOOLEAN
    BY <1>8, <2>1
  <2> QED
    BY <1>8, <1>9, <2>1, <2>2, <2>3
<1>11. TypeOK'
  BY <1>3, <1>7, <1>8, <1>10 DEF TypeOK
<1> QED
  BY <1>7, <1>11

-----------------------------------------------------------------------------
(* The inductive invariant.                                                *)

(* A review has at most one verdict in the queue, and does not run while   *)
(* it has one.                                                             *)
QueueInv ==
    /\ \A p, q \in pending : p.from = q.from => p = q
    /\ \A p \in pending : \A e \in RunningExecs : execs[e].node # p.from

(* Once the drain is over, the pass keeps away from everything downstream  *)
(* of a queued verdict; what it is about to start does not run yet.        *)
PassInv ==
    /\ pass.step = "block" => \A p \in pending : Downstream(p.from) \subseteq pass.busy
    /\ pass.step = "start" =>
          \A n \in pass.ready : /\ \A e \in RunningExecs : execs[e].node # n
                                /\ \A p \in pending : n \notin Downstream(p.from)

IInv == TypeOK /\ OneWriter /\ QueueInv /\ PassInv /\ FeedbackBudget

(* A step that starts nothing and queues nothing keeps the structural      *)
(* parts.                                                                  *)
LEMMA QuietStep ==
    ASSUME IInv, TypeOK',
           DOMAIN execs' = DOMAIN execs,
           \A i \in DOMAIN execs : /\ execs'[i].node = execs[i].node
                                   /\ execs'[i].direct = execs[i].direct
                                   /\ execs'[i].status = "running" => execs[i].status = "running",
           \A n \in Nodes : node'[n].status = "running" =>
               \E i \in RunningExecs' : execs'[i].node = n,
           pending' \subseteq pending,
           pass' = pass \/ pass'.step \in {"idle", "drain"}
    PROVE  OneWriter' /\ QueueInv' /\ PassInv'
<1>1. RunningExecs' \subseteq RunningExecs
  BY DEF RunningExecs
<1>2. \A i \in RunningExecs' : /\ execs'[i].node = execs[i].node
                               /\ execs'[i].direct = execs[i].direct
  BY DEF RunningExecs
<1>3. OneWriter'
  BY <1>1, <1>2 DEF IInv, OneWriter, RunningNodes
<1>4. QueueInv'
  BY <1>1, <1>2 DEF IInv, QueueInv
<1>5. PassInv'
  BY <1>1, <1>2 DEF IInv, PassInv
<1> QED
  BY <1>3, <1>4, <1>5

(* The common case of QuietStep: executions keep their status and no node  *)
(* becomes running.                                                        *)
LEMMA CalmStep ==
    ASSUME IInv, TypeOK', counts' = counts,
           DOMAIN execs' = DOMAIN execs,
           \A i \in DOMAIN execs : /\ execs'[i].node = execs[i].node
                                   /\ execs'[i].direct = execs[i].direct
                                   /\ execs'[i].status = execs[i].status,
           \A n \in Nodes : node'[n].status = "running" => node[n].status = "running",
           pending' \subseteq pending,
           pass' = pass \/ pass'.step \in {"idle", "drain"}
    PROVE  IInv'
<1>1. RunningExecs' = RunningExecs
  BY DEF RunningExecs
<1>2. \A n \in Nodes : node'[n].status = "running" => \E i \in RunningExecs' : execs'[i].node = n
  BY <1>1 DEF IInv, OneWriter, RunningNodes, RunningExecs
<1>3. OneWriter' /\ QueueInv' /\ PassInv'
  BY <1>2, QuietStep
<1> QED
  BY <1>3 DEF IInv, FeedbackBudget

(* Steps that leave the executions, the queue and the budget counts alone. *)
LEMMA IdleStep ==
    ASSUME IInv, TypeOK', UNCHANGED <<execs, pending, counts>>,
           \A n \in Nodes : node'[n].status = "running" => node[n].status = "running",
           pass' = pass \/ pass'.step \in {"idle", "drain"}
    PROVE  IInv'
  BY CalmStep

(* No control request starts an execution or queues a verdict.             *)
LEMMA ControlInv == IInv /\ ControlStep => IInv'
<1> SUFFICES ASSUME IInv, ControlStep PROVE IInv'
  OBVIOUS
<1> USE DEF IInv
<1>1. CASE Approve
  BY <1>1, ApproveTypes, IdleStep DEF Approve
<1>2. CASE Reject
  BY <1>2, RejectTypes, IdleStep DEF Reject
<1>3. CASE Pause
  <2>1. StopExecs(Nodes) /\ UNCHANGED <<node, pending, counts, pass>>
    BY <1>3 DEF Pause
  <2> QED
    BY <1>3, <2>1, PauseTypes, StopExecsType, Typed, CalmStep DEF StopExecs
<1>4. CASE StopAll
  <2>1. StopExecs(Nodes) /\ UNCHANGED <<node, pending, counts, pass>>
    BY <1>4 DEF StopAll
  <2> QED
    BY <1>4, <2>1, StopAllTypes, StopExecsType, Typed, CalmStep DEF StopExecs
<1>5. ASSUME NEW n \in Nodes, StopNode(n) PROVE IInv'
  <2>1. StopExecs({n}) /\ UNCHANGED <<node, pending, counts, pass>>
    BY <1>5 DEF StopNode
  <2> QED
    BY <1>5, <2>1, StopNodeTypes, StopExecsType, Typed, CalmStep DEF StopExecs
<1>6. ASSUME NEW roots \in SUBSET Nodes, Unpause(roots), budget' \in Nat PROVE IInv'
  <2>1. UNCHANGED <<execs, pending, counts, pass>>
    BY <1>6 DEF Unpause
  <2> QED
    BY <1>6, <2>1, UnpauseTypes, IdleStep
<1>7. interrupted_nodes \in SUBSET Nodes
      /\ failed_retry_nodes \cup preparation_failed_nodes \in SUBSET Nodes
  BY DEF interrupted_nodes, failed_retry_nodes, preparation_failed_nodes
<1>8. CASE Resume
  <2>1. budget' \in Nat
    BY <1>8 DEF Resume, Spend, TypeOK
  <2>2. Unpause(interrupted_nodes) \/ Unpause(failed_retry_nodes \cup preparation_failed_nodes)
    BY <1>8 DEF Resume
  <2> QED
    BY <1>6, <1>7, <2>1, <2>2
<1>9. CASE ResumeAfterIntervention
  <2>1. budget' \in Nat
    BY <1>9 DEF ResumeAfterIntervention, Spend, TypeOK
  <2> QED
    BY <1>6, <1>7, <1>9, <2>1 DEF ResumeAfterIntervention
<1>10. CASE RetryPublication
  BY <1>10, RetryPublicationTypes, IdleStep DEF RetryPublication
<1>11. ASSUME NEW n \in Nodes, Intervene(n) PROVE IInv'
  <2>1. UNCHANGED <<execs, pending, counts, pass>>
    BY <1>11 DEF Intervene
  <2> QED
    BY <1>11, <2>1, InterveneTypes, IdleStep
<1>12. ASSUME NEW n \in Nodes, Resolve(n) PROVE IInv'
  <2>1. /\ UNCHANGED <<pending, counts>> /\ pass' = pass
        /\ TypeOK' /\ RunningExecs' = {} /\ \A m \in Nodes : node'[m].status # "running"
    BY <1>12, ResolveTypes DEF Resolve
  <2>2. OneWriter' /\ QueueInv' /\ PassInv'
    BY <2>1 DEF OneWriter, QueueInv, PassInv, RunningNodes
  <2> QED
    BY <2>1, <2>2 DEF FeedbackBudget
<1> QED
  BY <1>1, <1>2, <1>3, <1>4, <1>5, <1>8, <1>9, <1>10, <1>11, <1>12 DEF ControlStep

(* Publication leaves executions, verdicts and budgets alone.              *)
LEMMA PublishInv == IInv /\ (PublishStep \/ MergerStarted \/ MergerFinished) => IInv'
<1> SUFFICES ASSUME IInv, PublishStep \/ MergerStarted \/ MergerFinished PROVE IInv'
  OBVIOUS
<1>1. UNCHANGED <<node, execs, pending, counts, pass>>
  BY DEF PublishStep, PublishOk, PublishFail, MergerStarted, MergerFinished, PublicationMerger
<1>2. TypeOK'
  BY PublishTypes, MergerTypes DEF IInv, PublishStep
<1> QED
  BY <1>1, <1>2, IdleStep

(* A crash ends every execution and its pass; the queued verdicts          *)
(* survive.                                                                *)
LEMMA CrashInv == IInv /\ Crash => IInv'
<1> SUFFICES ASSUME IInv, Crash PROVE IInv'
  OBVIOUS
<1>1. TypeOK' /\ RunningExecs' = {}
  BY CrashTypes DEF IInv
<1>2. UNCHANGED <<pending, counts>> /\ pass' = IdlePass
  BY DEF Crash
<1>3. \A n \in Nodes : node'[n].status # "running"
  <2> DEFINE merger(n) == [FailNode(node[n], "interrupted") EXCEPT !.status = "blocked",
                                                                   !.error = "merger"]
  <2>1. PICK mergers \in SUBSET RunningExecs :
          node' = [n \in Nodes |->
            IF \E e \in mergers : execs[e].node = n THEN merger(n)
            ELSE IF \E e \in RunningExecs : execs[e].node = n
            THEN FailNode(node[n], "interrupted") ELSE node[n]]
    BY DEF Crash
  <2>2. ASSUME NEW n \in Nodes
        PROVE  merger(n).status = "blocked" /\ FailNode(node[n], "interrupted").status = "failed"
    <3>1. FailNode(node[n], "interrupted") \in NodeRecords(Len(execs)) /\ node[n] \in NodeRecords(Len(execs))
      BY Typed, FailNodeType DEF IInv
    <3>2. merger(n).status = "blocked"
      BY <3>1 DEF NodeRecords
    <3>3. FailNode(node[n], "interrupted").status = "failed"
      BY <3>1 DEF NodeRecords, FailNode
    <3> QED
      BY <3>2, <3>3
  <2>3. \A n \in Nodes : node[n].status = "running" => \E e \in RunningExecs : execs[e].node = n
    BY DEF IInv, OneWriter, RunningNodes
  <2> HIDE DEF merger
  <2> QED
    BY <2>1, <2>2, <2>3
<1>4. OneWriter' /\ QueueInv' /\ PassInv'
  BY <1>1, <1>2, <1>3 DEF IInv, OneWriter, QueueInv, PassInv, RunningNodes, IdlePass
<1> QED
  BY <1>1, <1>2, <1>4 DEF IInv, FeedbackBudget

(* A failed worker frees its node and queues nothing.                      *)
LEMMA FinishErrInv ==
    ASSUME IInv, NEW e \in DOMAIN execs,
           NEW why \in {"failed", "interrupted", "composition"}, FinishErr(e, why)
    PROVE  IInv'
<1> DEFINE n == execs[e].node
<1>1. TypeOK'
  BY FinishErrTypes DEF IInv
<1>2. execs[e] \in ExecRecords /\ n \in Nodes /\ node[n] \in NodeRecords(Len(execs))
  BY Typed DEF IInv, ExecRecords
<1>3. /\ execs' = [execs EXCEPT ![e] = [execs[e] EXCEPT !.status = "failed"]]
      /\ node' = [node EXCEPT ![n] = FailNode(node[n], why)]
      /\ UNCHANGED <<pending, counts, pass>>
  BY DEF FinishErr
<1>4. /\ [execs[e] EXCEPT !.status = "failed"].node = n
      /\ [execs[e] EXCEPT !.status = "failed"].direct = execs[e].direct
      /\ [execs[e] EXCEPT !.status = "failed"].status = "failed"
  BY <1>2 DEF ExecRecords
<1>5. /\ DOMAIN execs' = DOMAIN execs
      /\ \A i \in DOMAIN execs : /\ execs'[i].node = execs[i].node
                                 /\ execs'[i].direct = execs[i].direct
                                 /\ execs'[i].status = "running" => execs[i].status = "running"
      /\ \A i \in RunningExecs : i # e => i \in RunningExecs'
  BY <1>3, <1>4 DEF RunningExecs
<1>6. \A m \in Nodes : node'[m].status = "running" => m # n /\ node[m].status = "running"
  <2>1. FailNode(node[n], why).status # "running"
    BY <1>2, Typed, FailNodeType DEF IInv
  <2> QED
    BY <1>2, <1>3, <2>1 DEF IInv, TypeOK
<1>7. \A m \in Nodes : node'[m].status = "running" => \E i \in RunningExecs' : execs'[i].node = m
  BY <1>5, <1>6 DEF IInv, OneWriter, RunningNodes, RunningExecs
<1>8. OneWriter' /\ QueueInv' /\ PassInv'
  BY <1>1, <1>3, <1>5, <1>7, QuietStep
<1> QED
  BY <1>1, <1>3, <1>8 DEF IInv, FeedbackBudget

(* A failed composition Merger takes its node out of running while the     *)
(* execution goes on: no second one may start meanwhile.                   *)
LEMMA MergerFailedInv ==
    ASSUME IInv, NEW e \in DOMAIN execs, MergerFailed(e)
    PROVE  IInv'
<1> DEFINE n == execs[e].node
<1>1. TypeOK'
  BY MergerFailedTypes DEF IInv
<1>2. execs[e] \in ExecRecords /\ n \in Nodes /\ node[n] \in NodeRecords(Len(execs))
  BY Typed DEF IInv, ExecRecords
<1>3. /\ execs' = [execs EXCEPT ![e] = [execs[e] EXCEPT !.conflict = TRUE]]
      /\ node' = [node EXCEPT ![n] = [node[n] EXCEPT !.status = "blocked", !.error = "merger"]]
      /\ UNCHANGED <<pending, counts, pass>>
  BY DEF MergerFailed
<1>4. /\ [execs[e] EXCEPT !.conflict = TRUE].node = n
      /\ [execs[e] EXCEPT !.conflict = TRUE].direct = execs[e].direct
      /\ [execs[e] EXCEPT !.conflict = TRUE].status = execs[e].status
  BY <1>2 DEF ExecRecords
<1>5. /\ DOMAIN execs' = DOMAIN execs
      /\ \A i \in DOMAIN execs : /\ execs'[i].node = execs[i].node
                                 /\ execs'[i].direct = execs[i].direct
                                 /\ execs'[i].status = execs[i].status
  BY <1>3, <1>4
<1>6. \A m \in Nodes : node'[m].status = "running" => node[m].status = "running"
  <2>1. [node[n] EXCEPT !.status = "blocked", !.error = "merger"].status = "blocked"
    BY <1>2 DEF NodeRecords
  <2> QED
    BY <1>2, <1>3, <2>1 DEF IInv, TypeOK
<1> QED
  BY <1>1, <1>3, <1>5, <1>6, CalmStep

(* The verdict a review queues is its only one, because it was running     *)
(* until now, and nothing else runs on its node.                           *)
LEMMA FinishOkInv ==
    ASSUME IInv, NEW e \in DOMAIN execs, NEW head \in Heads, NEW accepted \in BOOLEAN,
           FinishOk(e, head, accepted)
    PROVE  IInv'
<1> DEFINE n == execs[e].node
<1>1. TypeOK' /\ n \in Nodes
  BY FinishOkTypes, Typed DEF IInv, ExecRecords
<1>2. e \in RunningExecs /\ UNCHANGED <<counts, pass>> /\ pass.step = "idle"
  BY DEF FinishOk, RunningExecs
<1>3. /\ DOMAIN execs' = DOMAIN execs
      /\ \A i \in DOMAIN execs : /\ execs'[i].node = execs[i].node
                                 /\ execs'[i].direct = execs[i].direct
      /\ RunningExecs' = RunningExecs \ {e}
  <2>1. /\ Len(execs') = Len(execs) /\ execs'[e].status = "completed"
        /\ \A i \in DOMAIN execs : i # e => execs'[i] = execs[i]
        /\ \A i \in DOMAIN execs : /\ execs'[i].node = execs[i].node
                                   /\ execs'[i].direct = execs[i].direct
    BY FinishOkQueue DEF IInv
  <2>2. DOMAIN execs' = DOMAIN execs
    BY <1>1, <2>1, Typed DEF IInv, TypeOK
  <2> QED
    BY <2>1, <2>2 DEF RunningExecs
<1>4. OneWriter'
  <2>1. \A m \in Nodes : node'[m].status = "running" => m # n /\ node[m].status = "running"
    BY FinishOkNodes DEF IInv
  <2>2. \A m \in Nodes : node'[m].status = "running" => \E i \in RunningExecs' : execs'[i].node = m
    BY <1>3, <2>1 DEF IInv, OneWriter, RunningNodes, RunningExecs
  <2>3. \A i \in RunningExecs' : i \in RunningExecs /\ execs'[i].node = execs[i].node
                                 /\ execs'[i].direct = execs[i].direct
    BY <1>3 DEF RunningExecs
  <2> QED
    BY <2>2, <2>3 DEF IInv, OneWriter, RunningNodes
<1>5. QueueInv'
  <2>1. \A i \in RunningExecs' : i \in RunningExecs /\ execs'[i].node = execs[i].node
                                 /\ execs[i].node # n
    BY <1>2, <1>3 DEF IInv, OneWriter, RunningExecs
  <2>2. \A p \in pending : p.from # n
    BY <1>2 DEF IInv, QueueInv
  <2>3. CASE pending' = pending
    BY <2>1, <2>3 DEF IInv, QueueInv
  <2>4. ASSUME NEW v, v.from = n, pending' = pending \cup {v} PROVE QueueInv'
    BY <2>1, <2>2, <2>4 DEF IInv, QueueInv
  <2> QED
    BY <2>3, <2>4, FinishOkQueue DEF IInv
<1>6. PassInv'
  BY <1>2 DEF PassInv
<1> QED
  BY <1>1, <1>2, <1>4, <1>5, <1>6 DEF IInv, FeedbackBudget

(* A worker that ends preserves the invariant, however it ends.            *)
LEMMA WorkerInv == IInv /\ WorkerStep => IInv'
<1> SUFFICES ASSUME IInv, NEW e \in DOMAIN execs, Succeed(e) \/ Fail(e) PROVE IInv'
  BY DEF WorkerStep
<1>1. CASE Fail(e)
  BY <1>1, FinishErrInv DEF Fail
<1>2. CASE Succeed(e)
  <2>1. SourceHead \in Heads /\ e \in Heads /\ execs[e].before \in Heads
    BY Typed DEF IInv, ExecRecords, Heads
  <2>2. PICK head \in Heads, accepted \in BOOLEAN : FinishOk(e, head, accepted)
    BY <1>2, <2>1 DEF Succeed
  <2> QED
    BY <2>2, FinishOkInv
<1> QED
  BY <1>1, <1>2

-----------------------------------------------------------------------------
(* The pass                                                                *)

(* A start finds its node without a live execution, and without a queued   *)
(* verdict that its execution could double.                                *)
LEMMA StartOneInv == ASSUME IInv, NEW n \in Nodes, StartOne(n) PROVE IInv'
<1> DEFINE e == Len(execs) + 1
<1>1. TypeOK'
  BY StartOneTypes DEF IInv
<1>2. /\ pass.step = "start" /\ n \in pass.ready /\ UNCHANGED <<pending, counts>>
      /\ pass' = [pass EXCEPT !.ready = pass.ready \ {n}, !.started = TRUE]
  BY DEF StartOne
<1>3. pass'.step = "start" /\ pass'.ready = pass.ready \ {n}
  BY <1>2 DEF IInv, TypeOK, PassRecords
<1>4. /\ \A i \in DOMAIN execs : /\ execs'[i].node = execs[i].node
                                 /\ execs'[i].direct = execs[i].direct
                                 /\ execs'[i].status = execs[i].status
      /\ execs'[e].node = n /\ execs'[e].status = "running"
      /\ execs'[e].direct => \A i \in RunningExecs : ~execs[i].direct
      /\ DOMAIN execs' = DOMAIN execs \cup {e} /\ e \notin DOMAIN execs
  <2>1. DOMAIN execs = 1..Len(execs) /\ Len(execs) \in Nat
    BY Typed DEF IInv
  <2>2. execs' \in Seq(ExecRecords) /\ Len(execs') = Len(execs) + 1
    BY StartOneExecs DEF IInv
  <2>3. DOMAIN execs' = DOMAIN execs \cup {e} /\ e \notin DOMAIN execs
    BY <2>1, <2>2
  <2> QED
    BY <2>1, <2>3, StartOneExecs DEF IInv
<1> HIDE DEF e
<1>5. RunningExecs' = RunningExecs \cup {e} /\ e \notin RunningExecs
  BY <1>4 DEF RunningExecs
<1>6. \A i \in RunningExecs : /\ execs'[i].node = execs[i].node
                              /\ execs'[i].direct = execs[i].direct
  BY <1>4 DEF RunningExecs
<1>7. /\ \A i \in RunningExecs : execs[i].node # n
      /\ \A p \in pending : n \notin Downstream(p.from)
  BY <1>2 DEF IInv, PassInv
<1>8. OneWriter'
  <2>1. \A m \in Nodes : m # n => (node'[m].status = "running" => node[m].status = "running")
    <3>1. \A m \in Nodes : m # n =>
             node'[m] = IF m \in Downstream(n) THEN Unblocked(node[m]) ELSE node[m]
      BY DEF StartOne
    <3>2. \A m \in Nodes : Unblocked(node[m]).status = "running" => node[m].status = "running"
      BY Typed, UnblockedType DEF IInv
    <3> QED
      BY <3>1, <3>2
  <2>2. \A m \in Nodes : node'[m].status = "running" => \E i \in RunningExecs' : execs'[i].node = m
    BY <1>4, <1>5, <1>6, <2>1 DEF IInv, OneWriter, RunningNodes
  <2>3. \A i, j \in RunningExecs' : i # j =>
            execs'[i].node # execs'[j].node /\ ~(execs'[i].direct /\ execs'[j].direct)
    BY <1>4, <1>5, <1>6, <1>7 DEF IInv, OneWriter
  <2> QED
    BY <2>2, <2>3 DEF OneWriter, RunningNodes
<1>9. QueueInv'
  <2>1. \A p \in pending : p.from \in Downstream(p.from)
    <3>1. \A p \in pending : p.from \in Nodes
      BY DEF IInv, TypeOK, FeedbackRecords
    <3> QED
      BY <3>1, DownstreamBasics
  <2>2. \A p \in pending : p.from # n
    BY <1>7, <2>1
  <2> QED
    BY <1>2, <1>4, <1>5, <1>6, <2>2 DEF IInv, QueueInv
<1>10. PassInv'
  BY <1>2, <1>3, <1>4, <1>5, <1>6 DEF IInv, PassInv
<1> QED
  BY <1>1, <1>2, <1>8, <1>9, <1>10 DEF IInv, FeedbackBudget

(* An edge has at most one request in a batch, so it pays for one repair,  *)
(* and only while it has budget.                                           *)
LEMMA BatchCost ==
    ASSUME IInv, NEW to, NEW batch \in SUBSET pending, ApplyBatch(to, batch)
    PROVE  counts' \in [Feedback -> Nat] /\ \A f \in Feedback : counts'[f] <= MaxFeedback
<1> DEFINE edge(p) == <<p.from, p.to>>
           applied == {p \in batch : ~p.accepted /\ feedback_budget_available(edge(p))}
           cost(f) == {p \in applied : edge(p) = f}
<1>1. counts' = [f \in Feedback |-> counts[f] + Cardinality(cost(f))]
  BY DEF ApplyBatch
<1>2. ASSUME NEW f \in Feedback
      PROVE  counts[f] + Cardinality(cost(f)) \in 0..MaxFeedback
  <2>1. counts[f] \in Nat /\ counts[f] <= MaxFeedback /\ MaxFeedback \in Nat
    BY LimitsAssumption DEF IInv, TypeOK, FeedbackBudget
  <2>2. CASE cost(f) = {}
    <3> HIDE DEF cost
    <3>1. Cardinality(cost(f)) = 0
      BY <2>2, FS_EmptySet
    <3> QED
      BY <2>1, <3>1
  <2>3. CASE cost(f) # {}
    <3>1. PICK p \in cost(f) : TRUE
      BY <2>3
    <3>2. cost(f) = {p}
      BY <3>1 DEF IInv, QueueInv
    <3>3. counts[f] < MaxFeedback
      BY <3>1 DEF feedback_budget_available
    <3> HIDE DEF cost
    <3> QED
      BY <2>1, <3>2, <3>3, FS_Singleton
  <2> QED
    BY <2>2, <2>3
<1> HIDE DEF cost
<1> QED
  BY <1>1, <1>2, LimitsAssumption

(* Resolving a request, alone or with its batch, preserves the invariant.  *)
LEMMA DrainOneInv == ASSUME IInv, NEW p \in pending, DrainOne(p) PROVE IInv'
<1>1. /\ pass' = [pass EXCEPT !.todo = pass.todo \ {p.exec}] /\ pass.step = "drain"
      /\ UNCHANGED <<execs, approved, paused, published, delivered, made, budget, crashes>>
  BY DEF DrainOne
<1>2. pass' \in PassRecords /\ pass'.step = "drain"
  BY <1>1 DEF IInv, TypeOK, PassRecords
<1>3. p.to \in Nodes /\ Batch(p) \in SUBSET pending
  BY DEF IInv, TypeOK, FeedbackRecords, Batch
<1>4. /\ pending' \subseteq pending
      /\ node' \in [Nodes -> NodeRecords(Len(execs))]
      /\ \A m \in Nodes : node'[m].status = "running" => node[m].status = "running"
      /\ counts' \in [Feedback -> Nat] /\ \A f \in Feedback : counts'[f] <= MaxFeedback
      /\ phase' \in Phases /\ stopRequested' \in BOOLEAN /\ publication' \in PublicationRecords
  <2>1. CASE ApplyBatch(p.to, Batch(p))
    <3>1. pending' \subseteq pending
      BY <2>1 DEF ApplyBatch
    <3>2. TypeOK /\ execs' = execs
      BY <1>1 DEF IInv
    <3> QED
      BY <1>3, <2>1, <3>1, <3>2, ApplyBatchNodes, ApplyBatchTypes, BatchCost
  <2>2. CASE pending' \subseteq pending /\ UNCHANGED <<node, counts, phase, stopRequested, publication>>
    BY <2>2 DEF IInv, TypeOK, FeedbackBudget
  <2> QED
    BY <2>1, <2>2 DEF DrainOne
<1>5. TypeOK'
  BY <1>1, <1>2, <1>4 DEF IInv, TypeOK
<1>6. RunningExecs' = RunningExecs
  BY <1>1 DEF RunningExecs
<1>7. \A n \in Nodes : node'[n].status = "running" => \E i \in RunningExecs' : execs'[i].node = n
  BY <1>1, <1>4, <1>6 DEF IInv, OneWriter, RunningNodes
<1>8. OneWriter' /\ QueueInv' /\ PassInv'
  BY <1>1, <1>2, <1>4, <1>5, <1>7, QuietStep
<1> QED
  BY <1>4, <1>5, <1>8 DEF IInv, FeedbackBudget

(* Every step of the scheduling pass preserves the invariant.              *)
LEMMA PassStepInv == IInv /\ PassStep => IInv'
<1> SUFFICES ASSUME IInv, PassStep PROVE IInv'
  OBVIOUS
<1>1. CASE BeginPass
  BY <1>1, BeginPassTypes, IdleStep DEF IInv, BeginPass, run, IdlePass
<1>2. ASSUME NEW p \in pending, DrainOne(p) PROVE IInv'
  BY <1>2, DrainOneInv
<1>3. CASE EndDrain
  <2>1. TypeOK' /\ UNCHANGED <<node, execs, pending, counts>>
    BY <1>3, EndDrainTypes DEF IInv, EndDrain, run
  <2>2. pass' = [pass EXCEPT !.step = "block", !.todo = {}, !.busy = busy_feedback_nodes]
    BY <1>3 DEF EndDrain
  <2>3. pass'.step = "block" /\ pass'.busy = busy_feedback_nodes
    BY <2>2 DEF IInv, TypeOK, PassRecords
  <2>4. \A q \in pending : Downstream(q.from) \subseteq busy_feedback_nodes
    BY DEF busy_feedback_nodes, PendingSources
  <2>5. PassInv'
    BY <2>1, <2>3, <2>4 DEF PassInv
  <2>6. OneWriter' /\ QueueInv'
    BY <2>1 DEF IInv, OneWriter, QueueInv, RunningExecs, RunningNodes
  <2> QED
    BY <2>1, <2>5, <2>6 DEF IInv, FeedbackBudget
<1>4. CASE ChooseReady
  <2>1. TypeOK' /\ UNCHANGED <<node, execs, pending, counts>> /\ pass.step = "block"
    BY <1>4, ChooseReadyTypes DEF IInv, ChooseReady, run
  <2>2. PICK ready \in SUBSET Eligible :
          pass' = [pass EXCEPT !.step = "start", !.ready = ready, !.direct = source_direct_run]
    BY <1>4 DEF ChooseReady
  <2>3. pass'.step = "start" /\ pass'.ready = ready
    BY <2>2 DEF IInv, TypeOK, PassRecords
  <2>4. \A n \in ready : n \notin pass.busy /\ \A e \in RunningExecs : execs[e].node # n
    BY DEF Eligible
  <2>5. PassInv'
    BY <2>1, <2>3, <2>4 DEF IInv, PassInv, RunningExecs
  <2>6. OneWriter' /\ QueueInv'
    BY <2>1 DEF IInv, OneWriter, QueueInv, RunningExecs, RunningNodes
  <2> QED
    BY <2>1, <2>5, <2>6 DEF IInv, FeedbackBudget
<1>5. CASE EndPass
  BY <1>5, EndPassTypes, IdleStep DEF IInv, EndPass, IdlePass
<1>6. ASSUME NEW n \in Nodes, BlockNode(n) PROVE IInv'
  <2>1. node' = [node EXCEPT ![n] = [node[n] EXCEPT !.status = "blocked", !.error = "upstream"]]
        /\ UNCHANGED <<execs, pending, counts, pass>>
    BY <1>6 DEF BlockNode
  <2>2. [node[n] EXCEPT !.status = "blocked", !.error = "upstream"].status = "blocked"
    BY Typed DEF IInv, NodeRecords
  <2>3. \A m \in Nodes : node'[m].status = "running" => node[m].status = "running"
    BY <2>1, <2>2 DEF IInv, TypeOK
  <2> QED
    BY <1>6, <2>1, <2>3, BlockNodeTypes, IdleStep DEF IInv
<1>7. ASSUME NEW n \in Nodes, StartOne(n) PROVE IInv'
  BY <1>7, StartOneInv
<1>8. ASSUME NEW n \in Nodes, SkipOne(n) PROVE IInv'
  <2>1. TypeOK' /\ UNCHANGED <<node, execs, pending, counts>>
    BY <1>8, SkipOneTypes DEF IInv, SkipOne, run
  <2>2. pass' = [pass EXCEPT !.ready = pass.ready \ {n}]
    BY <1>8 DEF SkipOne
  <2>3. pass'.step = pass.step /\ pass'.busy = pass.busy /\ pass'.ready \subseteq pass.ready
    BY <2>2 DEF IInv, TypeOK, PassRecords
  <2>4. PassInv'
    BY <2>1, <2>3 DEF IInv, PassInv, RunningExecs
  <2>5. OneWriter' /\ QueueInv'
    BY <2>1 DEF IInv, OneWriter, QueueInv, RunningExecs, RunningNodes
  <2> QED
    BY <2>1, <2>4, <2>5 DEF IInv, FeedbackBudget
<1> QED
  BY <1>1, <1>2, <1>3, <1>4, <1>5, <1>6, <1>7, <1>8 DEF PassStep

-----------------------------------------------------------------------------
(* The invariant holds of a committed graph.                               *)
LEMMA InitInv == Init => IInv
<1> SUFFICES ASSUME Init PROVE IInv
  OBVIOUS
<1>1. execs = <<>> /\ pending = {} /\ pass = IdlePass
      /\ counts = [f \in Feedback |-> 0] /\ node = [n \in Nodes |-> NewNode]
  BY DEF Init
<1>2. OneWriter
  BY <1>1 DEF OneWriter, RunningExecs, RunningNodes, NewNode
<1>3. QueueInv /\ PassInv
  BY <1>1 DEF QueueInv, PassInv, IdlePass
<1>4. FeedbackBudget
  BY <1>1, LimitsAssumption DEF FeedbackBudget
<1> QED
  BY <1>2, <1>3, <1>4, InitTypes DEF IInv

(* A Run at rest changes nothing.                                          *)
LEMMA StutterInv == IInv /\ UNCHANGED vars => IInv'
<1> SUFFICES ASSUME IInv, UNCHANGED vars PROVE IInv'
  OBVIOUS
<1>1. TypeOK'
  BY DEF IInv, TypeOK, vars, run
<1>2. UNCHANGED <<node, execs, pending, counts, pass>>
  BY DEF vars, run
<1> QED
  BY <1>1, <1>2, IdleStep

(* The inductive invariant: one case per group of actions.                 *)
THEOREM Invariance == Spec => []IInv
<1>1. IInv /\ [Next]_vars => IInv'
  <2> SUFFICES ASSUME IInv, [Next]_vars PROVE IInv'
    OBVIOUS
  <2>1. CASE UNCHANGED vars
    BY <2>1, StutterInv
  <2>2. CASE Rest
    BY <2>2, StutterInv DEF Rest
  <2>3. ASSUME NEW e \in DOMAIN execs, MergerFailed(e) PROVE IInv'
    BY <2>3, MergerFailedInv
  <2> QED
    BY <2>1, <2>2, <2>3, PassStepInv, WorkerInv, PublishInv, ControlInv, CrashInv DEF Next
<1> QED
  BY <1>1, InitInv, PTL DEF Spec

(* Every variable of the projection keeps its type, in every Run.          *)
THEOREM TypeCorrect == Spec => []TypeOK
  BY Invariance, PTL DEF IInv

(* Two live executions never share a node's workspace or the source        *)
(* directory, for every graph, limit and history of stops, crashes,        *)
(* recoveries and messages: the guards of the scheduling pass suffice.     *)
THEOREM SingleWriter == Spec => []OneWriter
  BY Invariance, PTL DEF IInv

(* No feedback edge is repaired more often than its budget allows, although *)
(* resolve_feedback reads the budget once for a whole batch of requests.    *)
THEOREM BudgetHolds == Spec => []FeedbackBudget
  BY Invariance, PTL DEF IInv

-----------------------------------------------------------------------------
(* How an execution's record may age                                       *)

(* From x to y: what was dispatched stays, an ended attempt stays ended,   *)
(* and a stopped one does not complete.                                    *)
Aged(x, y) ==
    /\ y.node = x.node /\ y.before = x.before /\ y.reads = x.reads /\ y.direct = x.direct
    /\ x.status # "running" => y.status \in {x.status, "resolved"}
    /\ x.stop => y.status = x.status \/ y.status # "completed"
    /\ y.stop /\ y.status = "completed" => x.stop
    /\ y.after = x.after \/ y.status # "running"
    /\ x.conflict => y.conflict

(* A step of the executions: the known ones age, a new one was ready and   *)
(* runs from a known head.                                                 *)
ExecsStep ==
    /\ \A i \in DOMAIN execs : i \in DOMAIN execs' /\ Aged(execs[i], execs'[i])
    /\ \A i \in DOMAIN execs' : i \notin DOMAIN execs =>
          /\ execs'[i].status = "running" /\ execs'[i].after = NoHead
          /\ execs'[i].before # NoHead /\ ~execs'[i].stop
          /\ pass.step = "start" /\ execs'[i].node \in pass.ready

(* Executions that do not change do not age.                               *)
LEMMA SameExecs == execs' = execs => ExecsStep
  BY DEF ExecsStep, Aged

(* An execution replaced by an older version of itself.                    *)
LEMMA OneAges ==
    ASSUME TypeOK, NEW e \in DOMAIN execs, NEW y,
           execs' = [execs EXCEPT ![e] = y], Aged(execs[e], y)
    PROVE  ExecsStep
<1>1. DOMAIN execs' = DOMAIN execs /\ execs'[e] = y
      /\ \A i \in DOMAIN execs : i # e => execs'[i] = execs[i]
  BY DEF TypeOK
<1>2. \A i \in DOMAIN execs : i # e => Aged(execs[i], execs'[i])
  BY <1>1 DEF Aged
<1> QED
  BY <1>1, <1>2 DEF ExecsStep

(* A stop request marks running attempts only.                             *)
LEMMA StopAges == ASSUME TypeOK, NEW S, StopExecs(S) PROVE ExecsStep
<1>1. DOMAIN execs' = DOMAIN execs
  BY DEF StopExecs
<1>2. ASSUME NEW i \in DOMAIN execs PROVE Aged(execs[i], execs'[i])
  <2> DEFINE b == execs[i].stop \/ (i \in RunningExecs /\ execs[i].node \in S)
  <2>1. execs[i] \in ExecRecords
    BY Typed
  <2>2. execs'[i] = [execs[i] EXCEPT !.stop = b]
    BY DEF StopExecs
  <2>3. b => execs[i].stop \/ execs[i].status = "running"
    BY DEF RunningExecs
  <2> HIDE DEF b
  <2>4. /\ execs'[i].stop = b /\ execs'[i].node = execs[i].node
        /\ execs'[i].before = execs[i].before /\ execs'[i].reads = execs[i].reads
        /\ execs'[i].direct = execs[i].direct /\ execs'[i].status = execs[i].status
        /\ execs'[i].after = execs[i].after /\ execs'[i].conflict = execs[i].conflict
    BY <2>1, <2>2 DEF ExecRecords
  <2> QED
    BY <2>3, <2>4 DEF Aged
<1> QED
  BY <1>1, <1>2 DEF ExecsStep

(* A completion ends a running attempt that was not stopped.               *)
LEMMA FinishOkAges ==
    ASSUME TypeOK, NEW e \in DOMAIN execs, NEW head \in Heads, NEW accepted \in BOOLEAN,
           FinishOk(e, head, accepted)
    PROVE  ExecsStep
<1> DEFINE y == [execs[e] EXCEPT !.status = "completed", !.after = head]
<1>1. execs' = [execs EXCEPT ![e] = y] /\ execs[e].status = "running" /\ ~execs[e].stop
  BY DEF FinishOk, MaySucceed
<1>2. execs[e] \in ExecRecords
  BY Typed
<1>3. Aged(execs[e], y)
  BY <1>1, <1>2 DEF Aged, ExecRecords
<1> HIDE DEF y
<1> QED
  BY <1>1, <1>3, OneAges

(* A failure ends a running attempt.                                       *)
LEMMA FinishErrAges ==
    ASSUME TypeOK, NEW e \in DOMAIN execs, NEW why, FinishErr(e, why)
    PROVE  ExecsStep
<1> DEFINE y == [execs[e] EXCEPT !.status = "failed"]
<1>1. execs' = [execs EXCEPT ![e] = y] /\ execs[e].status = "running"
  BY DEF FinishErr
<1>2. execs[e] \in ExecRecords
  BY Typed
<1>3. Aged(execs[e], y)
  BY <1>1, <1>2 DEF Aged, ExecRecords
<1> HIDE DEF y
<1> QED
  BY <1>1, <1>3, OneAges

(* A failed composition Merger only marks its attempt.                     *)
LEMMA MergerFailedAges == ASSUME TypeOK, NEW e \in DOMAIN execs, MergerFailed(e) PROVE ExecsStep
<1> DEFINE y == [execs[e] EXCEPT !.conflict = TRUE]
<1>1. execs' = [execs EXCEPT ![e] = y]
  BY DEF MergerFailed
<1>2. execs[e] \in ExecRecords
  BY Typed
<1>3. Aged(execs[e], y)
  BY <1>2 DEF Aged, ExecRecords
<1> HIDE DEF y
<1> QED
  BY <1>1, <1>3, OneAges

(* A manual resolution replaces how an ended attempt ended.                *)
LEMMA ResolveAges == ASSUME TypeOK, NEW n \in Nodes, Resolve(n) PROVE ExecsStep
<1> DEFINE e == Latest(Execs(n))
           y == [execs[e] EXCEPT !.status = "resolved"]
<1>1. execs' = [execs EXCEPT ![e] = y] /\ Execs(n) # {}
  BY DEF Resolve
<1>2. e \in DOMAIN execs
  BY <1>1, ExecSets, LatestIsMax, Typed
<1>3. execs[e] \in ExecRecords
  BY <1>2, Typed
<1> HIDE DEF e
<1>4. Aged(execs[e], y)
  BY <1>3 DEF Aged, ExecRecords
<1> HIDE DEF y
<1> QED
  BY <1>1, <1>2, <1>4, OneAges

(* Recovery after a crash ends what ran.                                   *)
LEMMA CrashAges == ASSUME TypeOK, Crash PROVE ExecsStep
<1>1. execs' = [i \in DOMAIN execs |->
                  IF i \in RunningExecs THEN [execs[i] EXCEPT !.status = "failed"] ELSE execs[i]]
  BY DEF Crash
<1>2. ASSUME NEW i \in DOMAIN execs PROVE Aged(execs[i], execs'[i])
  <2>1. execs[i] \in ExecRecords
    BY Typed
  <2>2. CASE i \in RunningExecs
    <3>1. execs'[i] = [execs[i] EXCEPT !.status = "failed"] /\ execs[i].status = "running"
      BY <1>1, <2>2 DEF RunningExecs
    <3> QED
      BY <2>1, <3>1 DEF Aged, ExecRecords
  <2>3. CASE i \notin RunningExecs
    BY <1>1, <2>3 DEF Aged
  <2> QED
    BY <2>2, <2>3
<1> QED
  BY <1>1, <1>2 DEF ExecsStep

(* A workspace is prepared from a head that exists.                        *)
LEMMA PreparedIsHead ==
    ASSUME NEW n, NEW e \in Nat \ {0}, NEW direct \in BOOLEAN
    PROVE  Prepared(n, e, direct) # NoHead
<1> DEFINE carrier == CHOOSE i \in TerminalCarriers(n) : TRUE
           terminal == node[execs[carrier].node].head
           base == IF node[n].shared /\ SharedTerminal(n)
                   THEN IF terminal # NoHead THEN terminal ELSE execs[carrier].after
                   ELSE IF node[n].head # NoHead THEN node[n].head
                   ELSE IF Cardinality(Parents(n)) = 1
                   THEN node[CHOOSE p \in Parents(n) : TRUE].head
                   ELSE NoHead
<1>1. Prepared(n, e, direct) = IF direct THEN SourceHead
                               ELSE IF base \in {NoHead, SourceHead} THEN e ELSE base
  BY DEF Prepared
<1> HIDE DEF base
<1> QED
  BY <1>1 DEF NoHead, SourceHead

(* A dispatch adds one execution, of a ready node, and otherwise only      *)
(* supersedes attempts.                                                    *)
LEMMA StartOneRecords ==
    ASSUME TypeOK, NEW n \in Nodes, StartOne(n)
    PROVE  LET e == Len(execs) + 1 IN
           /\ DOMAIN execs' = DOMAIN execs \cup {e} /\ e \notin DOMAIN execs /\ e \in Nat
           /\ \A i \in DOMAIN execs :
                 /\ Aged(execs[i], execs'[i])
                 /\ execs'[i].status = execs[i].status /\ execs'[i].conflict = execs[i].conflict
           /\ execs'[e].node = n /\ execs'[e].status = "running" /\ execs'[e].after = NoHead
           /\ execs'[e].before # NoHead /\ execs'[e].stop = FALSE
           /\ execs'[e].direct = (pass.direct \/ (node[n].continuation /\ node[n].recoverDirect))
           /\ \A p \in Parents(n) : execs'[e].reads[p] = made[p]
<1> DEFINE nd == node[n]
           e == Len(execs) + 1
           claimed == (nd.continuation /\ nd.recoverDirect)
                      \/ \E i \in DOMAIN nd.msgs : nd.msgs[i] = "direct"
           direct == pass.direct \/ (nd.continuation /\ nd.recoverDirect)
           inputs == [p \in Nodes |-> IF p \in Parents(n) THEN made[p] ELSE 0]
           exec == [node |-> n, status |-> "running", after |-> NoHead,
                    before |-> Prepared(n, e, direct), superseded |-> FALSE, stop |-> FALSE,
                    direct |-> direct, claimed |-> claimed, conflict |-> FALSE,
                    lineage |-> workspace_lineage(n, direct), reads |-> inputs]
           old == IF ResumeOf(n) = {}
                  THEN [i \in DOMAIN execs |-> [execs[i] EXCEPT
                           !.superseded = @ \/ execs[i].node = n]]
                  ELSE execs
<1>1. execs' = Append(old, exec)
  BY DEF StartOne
<1>2. direct \in BOOLEAN /\ e \in Nat \ {0} /\ DOMAIN execs = 1..Len(execs) /\ Len(execs) \in Nat
  BY Typed
<1>3. Prepared(n, e, direct) # NoHead
  BY <1>2, PreparedIsHead
<1>4. ASSUME NEW i \in DOMAIN execs
      PROVE  /\ old[i] \in ExecRecords /\ Aged(execs[i], old[i])
             /\ old[i].status = execs[i].status /\ old[i].conflict = execs[i].conflict
  <2>1. execs[i] \in ExecRecords
    BY Typed
  <2>2. CASE ResumeOf(n) # {}
    BY <2>1, <2>2 DEF Aged
  <2>3. CASE ResumeOf(n) = {}
    <3> DEFINE b == execs[i].superseded \/ execs[i].node = n
    <3>1. old[i] = [execs[i] EXCEPT !.superseded = b] /\ b \in BOOLEAN
      BY <2>3
    <3> HIDE DEF b, old
    <3> QED
      BY <2>1, <3>1 DEF Aged, ExecRecords
  <2> QED
    BY <2>2, <2>3
<1>5. old \in Seq(ExecRecords) /\ Len(old) = Len(execs) /\ DOMAIN old = DOMAIN execs
  <2>1. CASE ResumeOf(n) # {}
    BY <1>2, <2>1 DEF TypeOK
  <2>2. CASE ResumeOf(n) = {}
    <3>1. old = [i \in 1..Len(execs) |-> old[i]]
      BY <1>2, <2>2
    <3> HIDE DEF old
    <3>2. old \in [1..Len(execs) -> ExecRecords]
      BY <1>2, <1>4, <3>1
    <3> QED
      BY <1>2, <3>2, SeqFromFunction
  <2> QED
    BY <2>1, <2>2
<1>6. \A p \in Parents(n) : inputs[p] = made[p]
  BY DEF Parents
<1>7. /\ exec.node = n /\ exec.status = "running" /\ exec.after = NoHead
      /\ exec.before = Prepared(n, e, direct) /\ exec.stop = FALSE
      /\ exec.direct = direct /\ exec.reads = inputs
  <2> HIDE DEF direct, claimed, inputs, e
  <2> QED
    OBVIOUS
<1> HIDE DEF old, exec, inputs, direct
<1>8. /\ DOMAIN execs' = 1..(Len(execs) + 1)
      /\ \A i \in DOMAIN execs : execs'[i] = old[i]
      /\ execs'[e] = exec
  BY <1>1, <1>2, <1>5
<1>9. DOMAIN execs' = DOMAIN execs \cup {e} /\ e \notin DOMAIN execs
  BY <1>2, <1>8
<1>10. execs'[e].direct = (pass.direct \/ (node[n].continuation /\ node[n].recoverDirect))
  BY <1>7, <1>8 DEF direct
<1>11. \A i \in DOMAIN execs :
          /\ Aged(execs[i], execs'[i])
          /\ execs'[i].status = execs[i].status /\ execs'[i].conflict = execs[i].conflict
  BY <1>4, <1>8
<1>12. /\ execs'[e].node = n /\ execs'[e].status = "running" /\ execs'[e].after = NoHead
       /\ execs'[e].before # NoHead /\ execs'[e].stop = FALSE
       /\ \A p \in Parents(n) : execs'[e].reads[p] = made[p]
  BY <1>3, <1>6, <1>7, <1>8
<1> QED
  BY <1>2, <1>9, <1>10, <1>11, <1>12

(* The dispatch of a ready node is a step of the executions.               *)
LEMMA StartOneAges == ASSUME TypeOK, NEW n \in Nodes, StartOne(n) PROVE ExecsStep
<1> DEFINE e == Len(execs) + 1
<1>1. pass.step = "start" /\ n \in pass.ready
  BY DEF StartOne
<1>2. /\ DOMAIN execs' = DOMAIN execs \cup {e}
      /\ \A i \in DOMAIN execs : Aged(execs[i], execs'[i])
      /\ execs'[e].node = n /\ execs'[e].status = "running" /\ execs'[e].after = NoHead
      /\ execs'[e].before # NoHead /\ execs'[e].stop = FALSE
  BY StartOneRecords
<1> HIDE DEF e
<1> QED
  BY <1>1, <1>2 DEF ExecsStep

(* Every step of a Run is a step of its executions.                        *)
LEMMA ExecutionsAge == ASSUME TypeOK, [Next]_vars PROVE ExecsStep
<1>1. CASE UNCHANGED vars \/ Rest
  BY <1>1, SameExecs DEF Rest, vars, run
<1>2. CASE PassStep
  <2>1. ASSUME NEW n \in Nodes, StartOne(n) PROVE ExecsStep
    BY <2>1, StartOneAges
  <2>2. CASE BeginPass \/ EndDrain \/ ChooseReady \/ EndPass
    BY <2>2, SameExecs DEF BeginPass, EndDrain, ChooseReady, EndPass, run
  <2>3. ASSUME NEW p \in pending, DrainOne(p) PROVE ExecsStep
    BY <2>3, SameExecs DEF DrainOne
  <2>4. ASSUME NEW n \in Nodes, BlockNode(n) \/ SkipOne(n) PROVE ExecsStep
    BY <2>4, SameExecs DEF BlockNode, SkipOne, run
  <2> QED
    BY <1>2, <2>1, <2>2, <2>3, <2>4 DEF PassStep
<1>3. CASE WorkerStep
  <2>1. PICK e \in DOMAIN execs : Succeed(e) \/ Fail(e)
    BY <1>3 DEF WorkerStep
  <2>2. CASE Fail(e)
    BY <2>2, FinishErrAges DEF Fail
  <2>3. CASE Succeed(e)
    <3>1. SourceHead \in Heads /\ e \in Heads /\ execs[e].before \in Heads
      BY Typed DEF ExecRecords, Heads
    <3>2. PICK head \in Heads, accepted \in BOOLEAN : FinishOk(e, head, accepted)
      BY <2>3, <3>1 DEF Succeed
    <3> QED
      BY <3>2, FinishOkAges
  <2> QED
    BY <2>1, <2>2, <2>3
<1>4. CASE PublishStep \/ MergerStarted \/ MergerFinished
  BY <1>4, SameExecs DEF PublishStep, PublishOk, PublishFail, MergerStarted, MergerFinished,
                         PublicationMerger
<1>5. CASE ControlStep
  <2>1. CASE Approve \/ Reject \/ RetryPublication
    BY <2>1, SameExecs DEF Approve, Reject, RetryPublication
  <2>2. CASE Resume \/ ResumeAfterIntervention
    BY <2>2, SameExecs DEF Resume, ResumeAfterIntervention, Unpause
  <2>3. CASE Pause \/ StopAll
    BY <2>3, StopAges DEF Pause, StopAll
  <2>4. ASSUME NEW n \in Nodes, StopNode(n) PROVE ExecsStep
    BY <2>4, StopAges DEF StopNode
  <2>5. ASSUME NEW n \in Nodes, Intervene(n) PROVE ExecsStep
    BY <2>5, SameExecs DEF Intervene
  <2>6. ASSUME NEW n \in Nodes, Resolve(n) PROVE ExecsStep
    BY <2>6, ResolveAges
  <2> QED
    BY <1>5, <2>1, <2>2, <2>3, <2>4, <2>5, <2>6 DEF ControlStep
<1>6. ASSUME NEW e \in DOMAIN execs, MergerFailed(e) PROVE ExecsStep
  BY <1>6, MergerFailedAges
<1>7. CASE Crash
  BY <1>7, CrashAges
<1> QED
  BY <1>1, <1>2, <1>3, <1>4, <1>5, <1>6, <1>7 DEF Next

-----------------------------------------------------------------------------
(* A persisted stop request wins                                           *)

StopInv == \A i \in DOMAIN execs : execs[i].stop => execs[i].status # "completed"

(* No stopped attempt is among the results.                                *)
THEOREM StoppedHasNoResult == Spec => []StopInv
<1>1. Init => StopInv
  BY DEF Init, StopInv
<1>2. IInv /\ StopInv /\ [Next]_vars => StopInv'
  <2> SUFFICES ASSUME IInv, StopInv, [Next]_vars PROVE StopInv'
    OBVIOUS
  <2>1. ExecsStep
    BY ExecutionsAge DEF IInv
  <2> QED
    BY <2>1 DEF ExecsStep, Aged, StopInv
<1> QED
  BY <1>1, <1>2, Invariance, PTL DEF Spec

(* An attempt the user stopped never becomes a result, however its worker  *)
(* ends, and an attempt that ended stays ended: for every graph and every  *)
(* interleaving of stops, completions, crashes and recoveries.             *)
THEOREM StopIsFinal == Spec => StopWins
<1>1. IInv /\ StopInv /\ [Next]_vars =>
        [\A i \in DOMAIN execs :
           /\ execs[i].stop => execs'[i].status # "completed"
           /\ execs[i].status # "running" =>
                 execs'[i].status \in {execs[i].status, "resolved"}]_vars
  <2> SUFFICES ASSUME IInv, StopInv, [Next]_vars, NEW i \in DOMAIN execs
               PROVE  /\ execs[i].stop => execs'[i].status # "completed"
                      /\ execs[i].status # "running" =>
                            execs'[i].status \in {execs[i].status, "resolved"}
    OBVIOUS
  <2>1. ExecsStep
    BY ExecutionsAge DEF IInv
  <2> QED
    BY <2>1 DEF ExecsStep, Aged, StopInv
<1> QED
  BY <1>1, Invariance, StoppedHasNoResult, PTL DEF Spec, StopWins

-----------------------------------------------------------------------------
(* What each operation does to the nodes, field by field                   *)

(* The fields that only messages and repairs write.                        *)
Kept(x, y) ==
    /\ y.human = x.human /\ y.feedbackFrom = x.feedbackFrom /\ y.msgs = x.msgs
    /\ y.shared = x.shared /\ y.recoverDirect = x.recoverDirect

(* Blocking changes one node.                                              *)
LEMMA BlockNodeEffect ==
    ASSUME TypeOK, NEW n \in Nodes, BlockNode(n)
    PROVE  /\ \A m \in Nodes : m # n => node'[m] = node[m]
           /\ node'[n].status = "blocked" /\ node'[n].error = "upstream"
           /\ node'[n].head = node[n].head /\ node'[n].baseline = node[n].baseline
           /\ Kept(node[n], node'[n])
<1> DEFINE y == [node[n] EXCEPT !.status = "blocked", !.error = "upstream"]
<1>1. node' = [node EXCEPT ![n] = y] /\ node \in [Nodes -> NodeRecords(Len(execs))]
  BY DEF BlockNode, TypeOK
<1>2. /\ y.status = "blocked" /\ y.error = "upstream" /\ y.head = node[n].head
      /\ y.baseline = node[n].baseline /\ Kept(node[n], y)
  BY Typed DEF NodeRecords, Kept
<1> HIDE DEF y
<1> QED
  BY <1>1, <1>2

(* So does a failed composition Merger.                                    *)
LEMMA MergerFailedEffect ==
    ASSUME TypeOK, NEW e \in DOMAIN execs, MergerFailed(e)
    PROVE  LET n == execs[e].node IN
           /\ n \in Nodes /\ \A m \in Nodes : m # n => node'[m] = node[m]
           /\ node'[n].status = "blocked" /\ node'[n].error = "merger"
           /\ node'[n].head = node[n].head /\ node'[n].baseline = node[n].baseline
           /\ Kept(node[n], node'[n])
<1> DEFINE n == execs[e].node
           y == [node[n] EXCEPT !.status = "blocked", !.error = "merger"]
<1>1. node' = [node EXCEPT ![n] = y] /\ node \in [Nodes -> NodeRecords(Len(execs))]
  BY DEF MergerFailed, TypeOK
<1>2. n \in Nodes
  BY Typed DEF ExecRecords
<1>3. /\ y.status = "blocked" /\ y.error = "merger" /\ y.head = node[n].head
      /\ y.baseline = node[n].baseline /\ Kept(node[n], y)
  BY <1>2, Typed DEF NodeRecords, Kept
<1> HIDE DEF y
<1> QED
  BY <1>1, <1>2, <1>3

(* What a failed node's record looks like.                                 *)
LEMMA FailNodeEffect ==
    ASSUME NEW k \in Nat, NEW nd \in NodeRecords(k), NEW why
    PROVE  LET y == FailNode(nd, why) IN
           /\ y.status \in {"failed", "blocked"} /\ y.error = why /\ y.head = nd.head
           /\ y.baseline = NoHead /\ Kept(nd, y)
  BY DEF FailNode, NodeRecords, Kept

(* A failed worker changes one node.                                       *)
LEMMA FinishErrEffect ==
    ASSUME TypeOK, NEW e \in DOMAIN execs, NEW why, FinishErr(e, why)
    PROVE  LET n == execs[e].node IN
           /\ n \in Nodes /\ \A m \in Nodes : m # n => node'[m] = node[m]
           /\ node'[n].status \in {"failed", "blocked"} /\ node'[n].error = why
           /\ node'[n].head = node[n].head /\ node'[n].baseline = NoHead
           /\ Kept(node[n], node'[n])
<1> DEFINE n == execs[e].node
<1>1. node' = [node EXCEPT ![n] = FailNode(node[n], why)]
      /\ node \in [Nodes -> NodeRecords(Len(execs))]
  BY DEF FinishErr, TypeOK
<1>2. n \in Nodes /\ node[n] \in NodeRecords(Len(execs)) /\ Len(execs) \in Nat
  BY Typed DEF ExecRecords
<1>3. node'[n] = FailNode(node[n], why) /\ \A m \in Nodes : m # n => node'[m] = node[m]
  BY <1>1, <1>2
<1> HIDE DEF n
<1>4. /\ node'[n].status \in {"failed", "blocked"} /\ node'[n].error = why
      /\ node'[n].head = node[n].head /\ node'[n].baseline = NoHead
      /\ Kept(node[n], node'[n])
  BY <1>2, <1>3, FailNodeEffect
<1> QED
  BY <1>2, <1>3, <1>4 DEF n

(* A crash fails the nodes whose executions it ended.                      *)
LEMMA CrashEffect ==
    ASSUME TypeOK, Crash
    PROVE  \A m \in Nodes :
           \/ node'[m] = node[m] /\ \A e \in RunningExecs : execs[e].node # m
           \/ /\ \E e \in RunningExecs : execs[e].node = m
              /\ node'[m].status \in {"failed", "blocked"}
              /\ node'[m].error \in {"interrupted", "merger"}
              /\ node'[m].head = node[m].head /\ node'[m].baseline = NoHead
              /\ Kept(node[m], node'[m])
<1> DEFINE failed(n) == FailNode(node[n], "interrupted")
           merger(n) == [failed(n) EXCEPT !.status = "blocked", !.error = "merger"]
<1>1. PICK mergers \in SUBSET RunningExecs :
        node' = [n \in Nodes |->
          IF \E e \in mergers : execs[e].node = n THEN merger(n)
          ELSE IF \E e \in RunningExecs : execs[e].node = n THEN failed(n) ELSE node[n]]
  BY DEF Crash
<1> TAKE m \in Nodes
<1>2. /\ failed(m) \in NodeRecords(Len(execs)) /\ node[m] \in NodeRecords(Len(execs))
      /\ failed(m).status \in {"failed", "blocked"} /\ failed(m).error = "interrupted"
      /\ failed(m).head = node[m].head /\ failed(m).baseline = NoHead
      /\ Kept(node[m], failed(m))
  BY Typed, FailNodeType, FailNodeEffect
<1> HIDE DEF failed
<1>3. /\ merger(m).status = "blocked" /\ merger(m).error = "merger"
      /\ merger(m).head = node[m].head /\ merger(m).baseline = NoHead /\ Kept(node[m], merger(m))
  BY <1>2 DEF NodeRecords, Kept
<1> HIDE DEF merger
<1>4. CASE \E e \in mergers : execs[e].node = m
  <2>1. node'[m] = merger(m) /\ \E e \in RunningExecs : execs[e].node = m
    BY <1>1, <1>4
  <2> QED
    BY <1>3, <2>1
<1>5. CASE ~(\E e \in mergers : execs[e].node = m) /\ \E e \in RunningExecs : execs[e].node = m
  <2>1. node'[m] = failed(m)
    BY <1>1, <1>5
  <2> QED
    BY <1>2, <1>5, <2>1
<1>6. CASE ~(\E e \in mergers : execs[e].node = m) /\ ~(\E e \in RunningExecs : execs[e].node = m)
  <2>1. node'[m] = node[m]
    BY <1>1, <1>6
  <2> QED
    BY <1>6, <2>1
<1> QED
  BY <1>4, <1>5, <1>6

(* A start changes its node and unblocks what is behind it.                *)
LEMMA StartOneEffect ==
    ASSUME TypeOK, NEW n \in Nodes, StartOne(n)
    PROVE  /\ node'[n].status = "running" /\ node'[n].error = "none" /\ node'[n].msgs = <<>>
           /\ node'[n].recoverDirect = FALSE /\ node'[n].head = node[n].head
           /\ node'[n].baseline = node[n].baseline /\ node'[n].human = node[n].human
           /\ node'[n].shared = node[n].shared /\ node'[n].feedbackFrom = node[n].feedbackFrom
           /\ \A m \in Nodes : m # n =>
                 \/ node'[m] = node[m] /\ (m \in Downstream(n) => node[m].status # "blocked")
                 \/ /\ m \in Downstream(n) /\ node[m].status = "blocked"
                    /\ node'[m].status = "waiting" /\ node'[m].error = "none"
                    /\ node'[m].head = node[m].head /\ node'[m].baseline = node[m].baseline
                    /\ Kept(node[m], node'[m])
<1> DEFINE y == [node[n] EXCEPT !.status = "running", !.error = "none", !.msgs = <<>>,
                                !.continuation = FALSE, !.recoverDirect = FALSE]
<1>1. node' = [m \in Nodes |-> IF m = n THEN y
                               ELSE IF m \in Downstream(n) THEN Unblocked(node[m]) ELSE node[m]]
  BY DEF StartOne
<1>2. /\ y.status = "running" /\ y.error = "none" /\ y.msgs = <<>>
      /\ y.recoverDirect = FALSE /\ y.head = node[n].head
      /\ y.baseline = node[n].baseline /\ y.human = node[n].human
      /\ y.shared = node[n].shared /\ y.feedbackFrom = node[n].feedbackFrom
  BY Typed DEF NodeRecords
<1> HIDE DEF y
<1>3. ASSUME NEW m \in Nodes, m # n
      PROVE  \/ node'[m] = node[m] /\ (m \in Downstream(n) => node[m].status # "blocked")
             \/ /\ m \in Downstream(n) /\ node[m].status = "blocked"
                /\ node'[m].status = "waiting" /\ node'[m].error = "none"
                /\ node'[m].head = node[m].head /\ node'[m].baseline = node[m].baseline
                /\ Kept(node[m], node'[m])
  <2>1. node[m] \in NodeRecords(Len(execs))
    BY Typed
  <2>2. CASE m \notin Downstream(n)
    BY <1>1, <1>3, <2>2
  <2>3. CASE m \in Downstream(n) /\ node[m].status # "blocked"
    BY <1>1, <1>3, <2>3 DEF Unblocked
  <2>4. CASE m \in Downstream(n) /\ node[m].status = "blocked"
    <3>1. node'[m] = [node[m] EXCEPT !.status = "waiting", !.error = "none"]
      BY <1>1, <1>3, <2>4 DEF Unblocked
    <3> QED
      BY <2>1, <2>4, <3>1 DEF NodeRecords, Kept
  <2> QED
    BY <2>2, <2>3, <2>4
<1> QED
  BY <1>1, <1>2, <1>3

(* Resuming requeues failed and blocked nodes.                             *)
LEMMA UnpauseEffect ==
    ASSUME TypeOK, NEW roots \in SUBSET Nodes, Unpause(roots)
    PROVE  \A m \in Nodes :
           \/ node'[m] = node[m]
           \/ /\ \E r \in roots : m \in Downstream(r)
              /\ node[m].status \in {"failed", "blocked"}
              /\ node'[m].status \in {"waiting", "dirty"} /\ node'[m].error = "none"
              /\ node'[m].head = node[m].head /\ node'[m].baseline = NoHead
              /\ node'[m].human = node[m].human /\ node'[m].shared = node[m].shared
              /\ node'[m].feedbackFrom = node[m].feedbackFrom
              /\ node'[m].msgs \in {node[m].msgs, <<>>}
              /\ node'[m].recoverDirect => m \in roots /\ execs[Latest(Live(m))].direct
<1> TAKE m \in Nodes
<1> DEFINE affected == /\ \E r \in roots : m \in Downstream(r)
                       /\ node[m].status \in {"failed", "blocked"}
           cont == node[m].msgs = <<>> /\ m \in roots
           repair == /\ Len(node[m].msgs) = 1 /\ node[m].human
                     /\ Cardinality(node[m].feedbackFrom) > 1
           st == IF node[m].head # NoHead \/ CompletedExecs(m) # {} THEN "dirty" ELSE "waiting"
           ms == IF repair THEN <<>> ELSE node[m].msgs
           direct == cont /\ execs[Latest(Live(m))].direct /\ execs[Latest(Live(m))].claimed
           y == [node[m] EXCEPT !.status = st, !.msgs = ms, !.error = "none",
                    !.baseline = NoHead, !.continuation = cont, !.recoverDirect = direct]
<1>1. node'[m] = IF affected THEN y ELSE node[m]
  BY DEF Unpause, Recovered
<1>2. st \in {"waiting", "dirty"} /\ ms \in {node[m].msgs, <<>>}
      /\ (direct => m \in roots /\ execs[Latest(Live(m))].direct)
  OBVIOUS
<1>3. node[m] \in NodeRecords(Len(execs))
  BY Typed
<1> HIDE DEF st, ms, direct, cont
<1>4. /\ y.status = st /\ y.error = "none" /\ y.head = node[m].head /\ y.baseline = NoHead
      /\ y.human = node[m].human /\ y.shared = node[m].shared
      /\ y.feedbackFrom = node[m].feedbackFrom /\ y.msgs = ms /\ y.recoverDirect = direct
  BY <1>3 DEF NodeRecords
<1> HIDE DEF y
<1> QED
  BY <1>1, <1>2, <1>4

(* A manual resolution requeues its node and everything behind it.         *)
LEMMA ResolveEffect ==
    ASSUME TypeOK, NEW n \in Nodes, Resolve(n)
    PROVE  \A m \in Nodes :
           \/ m \notin Downstream(n) /\ node'[m] = node[m]
           \/ /\ m \in Downstream(n) /\ node'[m].status \in {"waiting", "dirty"}
              /\ node'[m].error = "none" /\ node'[m].baseline = node[m].baseline
              /\ Kept(node[m], node'[m])
<1> TAKE m \in Nodes
<1> DEFINE e == Latest(Execs(n))
           own == [node[m] EXCEPT !.status = "dirty", !.error = "none", !.head = e,
                                  !.revision = node[m].revision + 1]
           rev == IF Unstarted(m) THEN node[m].revision ELSE node[m].revision + 1
           other == [node[m] EXCEPT !.status = Requeued(m), !.error = "none", !.head = NoHead,
                                    !.revision = rev]
<1>1. node'[m] = IF m \notin Affected(n) THEN node[m] ELSE IF m = n THEN own ELSE other
  BY DEF Resolve
<1>2. node[m] \in NodeRecords(Len(execs)) /\ Requeued(m) \in {"waiting", "dirty"}
  BY Typed, RequeuedIdle
<1> HIDE DEF e, rev
<1>3. /\ own.status = "dirty" /\ own.error = "none" /\ own.baseline = node[m].baseline
      /\ Kept(node[m], own)
  BY <1>2 DEF NodeRecords, Kept
<1>4. /\ other.status = Requeued(m) /\ other.error = "none"
      /\ other.baseline = node[m].baseline /\ Kept(node[m], other)
  BY <1>2 DEF NodeRecords, Kept
<1> HIDE DEF own, other
<1> QED
  BY <1>1, <1>2, <1>3, <1>4 DEF Affected

(* A reset node keeps what is not about its result.                        *)
Requeue(nd, bump, st) == [Reset(nd, bump) EXCEPT !.status = st]

(* The fields of a requeued node.                                          *)
LEMMA RequeueEffect ==
    ASSUME NEW k \in Nat, NEW nd \in NodeRecords(k), NEW bump, NEW st
    PROVE  /\ Requeue(nd, bump, st).status = st /\ Requeue(nd, bump, st).error = "none"
           /\ Requeue(nd, bump, st).baseline = NoHead /\ ~Requeue(nd, bump, st).human
           /\ Requeue(nd, bump, st).msgs = nd.msgs /\ Requeue(nd, bump, st).shared = nd.shared
           /\ Requeue(nd, bump, st).recoverDirect = nd.recoverDirect
           /\ Requeue(nd, bump, st).feedbackFrom = {}
<1> DEFINE rev == IF bump THEN nd.revision + 1 ELSE nd.revision
           x == [nd EXCEPT !.error = "none", !.head = NoHead, !.baseline = NoHead,
                           !.human = FALSE, !.feedbackFrom = {}, !.revision = rev]
           y == [x EXCEPT !.status = st]
<1>1. Requeue(nd, bump, st) = y
  BY DEF Reset, Requeue
<1> HIDE DEF rev
<1>2. /\ y.status = st /\ y.error = "none" /\ y.baseline = NoHead /\ y.human = FALSE
      /\ y.feedbackFrom = {} /\ y.msgs = nd.msgs /\ y.shared = nd.shared
      /\ y.recoverDirect = nd.recoverDirect
  BY DEF NodeRecords
<1> HIDE DEF y
<1> QED
  BY <1>1, <1>2

(* Repairs that are applied requeue their target and everything behind it. *)
LEMMA ApplyBatchEffect ==
    ASSUME TypeOK, NEW to \in Nodes, NEW batch \in SUBSET pending, ApplyBatch(to, batch)
    PROVE  \/ UNCHANGED <<node, phase, publication>>
           \/ /\ \E q \in batch : ~q.accepted /\ feedback_budget_available(<<q.from, q.to>>)
              /\ phase' = PausedOr("running")
              /\ \A m \in Nodes :
                 \/ m \notin Downstream(to) /\ node'[m] = node[m]
                 \/ /\ m \in Downstream(to) /\ node'[m].status \in {"waiting", "dirty"}
                    /\ node'[m].error = "none" /\ node'[m].baseline = NoHead
                    /\ node'[m].human => m = to
                    /\ node'[m].msgs = node[m].msgs
                    /\ node'[m].shared => node[m].shared
                    /\ node'[m].recoverDirect = node[m].recoverDirect
<1> DEFINE edge(p) == <<p.from, p.to>>
           applied == {p \in batch : ~p.accepted /\ feedback_budget_available(edge(p))}
           first == CHOOSE p \in applied : \A q \in applied : p.order <= q.order
           from == {p.exec : p \in applied}
           no == FALSE
           requeued(m) == Requeue(node[m], no, Requeued(m))
           repaired == [node[to] EXCEPT
                          !.status = Requeued(to), !.error = "none",
                          !.head = first.sourceHead, !.baseline = NoHead,
                          !.human = TRUE, !.shared = FALSE, !.feedbackFrom = from]
<1>1. CASE applied = {}
  BY <1>1 DEF ApplyBatch
<1>2. CASE applied # {}
  <2>1. /\ node' = [m \in Nodes |-> IF m \notin Affected(to) THEN node[m]
                                    ELSE IF m # to THEN requeued(m) ELSE repaired]
        /\ phase' = PausedOr("running")
    BY <1>2 DEF ApplyBatch, Requeue
  <2>2. \E q \in batch : ~q.accepted /\ feedback_budget_available(<<q.from, q.to>>)
    BY <1>2
  <2> HIDE DEF first, from, applied
  <2>3. \A m \in Nodes : node[m] \in NodeRecords(Len(execs)) /\ Requeued(m) \in {"waiting", "dirty"}
                         /\ Len(execs) \in Nat
    BY Typed, RequeuedIdle
  <2>4. /\ repaired.status = Requeued(to) /\ repaired.error = "none"
        /\ repaired.baseline = NoHead /\ repaired.msgs = node[to].msgs
        /\ repaired.shared = FALSE /\ repaired.recoverDirect = node[to].recoverDirect
    BY <2>3 DEF NodeRecords
  <2>5. ASSUME NEW m \in Nodes
        PROVE  /\ requeued(m).status = Requeued(m) /\ requeued(m).error = "none"
               /\ requeued(m).baseline = NoHead /\ ~requeued(m).human
               /\ requeued(m).msgs = node[m].msgs /\ requeued(m).shared = node[m].shared
               /\ requeued(m).recoverDirect = node[m].recoverDirect
    <3> HIDE DEF no
    <3> QED
      BY <2>3, RequeueEffect
  <2> HIDE DEF repaired, requeued
  <2>6. ASSUME NEW m \in Nodes
        PROVE  \/ m \notin Downstream(to) /\ node'[m] = node[m]
               \/ /\ m \in Downstream(to) /\ node'[m].status \in {"waiting", "dirty"}
                  /\ node'[m].error = "none" /\ node'[m].baseline = NoHead
                  /\ node'[m].human => m = to
                  /\ node'[m].msgs = node[m].msgs
                  /\ node'[m].shared => node[m].shared
                  /\ node'[m].recoverDirect = node[m].recoverDirect
    <3>1. CASE m \notin Downstream(to)
      BY <2>1, <3>1 DEF Affected
    <3>2. CASE m \in Downstream(to) /\ m # to
      <4>1. node'[m] = requeued(m)
        BY <2>1, <3>2 DEF Affected
      <4> QED
        BY <2>3, <2>5, <3>2, <4>1
    <3>3. CASE m \in Downstream(to) /\ m = to
      <4>1. node'[m] = repaired
        BY <2>1, <3>3 DEF Affected
      <4> QED
        BY <2>3, <2>4, <3>3, <4>1
    <3> QED
      BY <3>1, <3>2, <3>3
  <2> QED
    BY <2>1, <2>2, <2>6
<1> QED
  BY <1>1, <1>2

(* A completion with a head changes its node, recomputes what is behind it *)
(* when its result changed, and moves the heads its workspace carries.     *)
Finishes(n, head) ==
    /\ n \in Nodes /\ node'[n].head = head
    /\ node[n].msgs = <<>> =>
          /\ node'[n].status = "completed" /\ node'[n].msgs = <<>>
          /\ node'[n].baseline = NoHead /\ node'[n].shared = FALSE
          /\ node'[n].feedbackFrom = {}
          /\ node'[n].recoverDirect = node[n].recoverDirect
    /\ \A m \in Nodes : m # n =>
          \/ node'[m] = node[m]
          \/ /\ node[n].baseline # NoHead
             /\ node'[m].status \in {"waiting", "dirty"} /\ ~node'[m].human
          \/ /\ node[m].status = "completed" /\ node'[m].status = "completed"
             /\ node'[m].head = head /\ node'[m].error = node[m].error
             /\ node'[m].baseline = node[m].baseline /\ Kept(node[m], node'[m])

\* That is what a completion does.
LEMMA FinishOkEffect ==
    ASSUME TypeOK, NEW e \in DOMAIN execs, NEW head \in Heads, NEW accepted \in BOOLEAN,
           FinishOk(e, head, accepted)
    PROVE  Finishes(execs[e].node, head)
<1> DEFINE n == execs[e].node
           nd == node[n]
           changed == nd.baseline # NoHead /\ nd.baseline # head
           dependents == IF changed /\ ~nd.shared THEN Affected(n) \ {n} ELSE {}
           carried == execs[e].lineage \ {n}
           done == [nd EXCEPT !.status = "completed", !.head = head, !.baseline = NoHead,
                              !.shared = FALSE, !.feedbackFrom = {}]
           base == IF Head(nd.msgs) = "direct" THEN NoHead ELSE head
           isShared == Head(nd.msgs) = "shared"
           again == [done EXCEPT !.status = "dirty", !.human = TRUE, !.baseline = base,
                                 !.shared = isShared]
           requeued(m) == Requeue(node[m], ~Unstarted(m), Requeued(m))
           carry(m) == [node[m] EXCEPT !.head = head]
<1>1. node' = [m \in Nodes |->
              IF m = n THEN IF nd.msgs = <<>> THEN done ELSE again
              ELSE IF m \in dependents THEN requeued(m)
              ELSE IF m \in carried /\ node[m].status = "completed" THEN carry(m)
              ELSE node[m]]
  BY DEF FinishOk, Requeue
<1>2. n \in Nodes /\ nd \in NodeRecords(Len(execs)) /\ Len(execs) \in Nat
  BY Typed DEF ExecRecords
<1>3. /\ done.status = "completed" /\ done.head = head /\ done.baseline = NoHead
      /\ done.shared = FALSE /\ done.feedbackFrom = {} /\ done.msgs = nd.msgs
      /\ done.recoverDirect = nd.recoverDirect
  BY <1>2 DEF NodeRecords
<1>4. again.head = head
  <2> HIDE DEF base, isShared
  <2> QED
    BY <1>2 DEF NodeRecords
<1>5. ASSUME NEW m \in Nodes
      PROVE  /\ requeued(m).status \in {"waiting", "dirty"} /\ ~requeued(m).human
             /\ carry(m).status = node[m].status /\ carry(m).head = head
             /\ carry(m).error = node[m].error
             /\ carry(m).baseline = node[m].baseline /\ Kept(node[m], carry(m))
  <2>1. node[m] \in NodeRecords(Len(execs)) /\ Requeued(m) \in {"waiting", "dirty"}
        /\ (~Unstarted(m)) \in BOOLEAN
    BY Typed, RequeuedIdle
  <2>2. requeued(m).status = Requeued(m) /\ ~requeued(m).human
    BY <1>2, <2>1, RequeueEffect
  <2>3. /\ carry(m).status = node[m].status /\ carry(m).head = head
        /\ carry(m).error = node[m].error
        /\ carry(m).baseline = node[m].baseline /\ Kept(node[m], carry(m))
    BY <2>1 DEF NodeRecords, Kept
  <2> QED
    BY <2>1, <2>2, <2>3
<1>6. \A m \in dependents : nd.baseline # NoHead
  OBVIOUS
<1> HIDE DEF done, again, requeued, carry, dependents, carried
<1>7. ASSUME NEW m \in Nodes, m # n
      PROVE  \/ node'[m] = node[m]
             \/ /\ nd.baseline # NoHead
                /\ node'[m].status \in {"waiting", "dirty"} /\ ~node'[m].human
             \/ /\ node[m].status = "completed" /\ node'[m].status = "completed"
                /\ node'[m].head = head /\ node'[m].error = node[m].error
                /\ node'[m].baseline = node[m].baseline /\ Kept(node[m], node'[m])
  <2>1. CASE m \in dependents
    BY <1>1, <1>5, <1>6, <1>7, <2>1
  <2>2. CASE m \notin dependents /\ m \in carried /\ node[m].status = "completed"
    <3>1. node'[m] = carry(m)
      BY <1>1, <1>7, <2>2
    <3> QED
      BY <1>5, <2>2, <3>1
  <2>3. CASE m \notin dependents /\ ~(m \in carried /\ node[m].status = "completed")
    BY <1>1, <1>7, <2>3
  <2> QED
    BY <2>1, <2>2, <2>3
<1>8. node'[n].head = head
  BY <1>1, <1>2, <1>3, <1>4
<1>9. ASSUME nd.msgs = <<>> PROVE node'[n] = done
  BY <1>1, <1>2, <1>9
<1> HIDE DEF n
<1>10. nd.msgs = <<>> => /\ node'[n].status = "completed" /\ node'[n].msgs = <<>>
                         /\ node'[n].baseline = NoHead /\ node'[n].shared = FALSE
                         /\ node'[n].feedbackFrom = {}
                         /\ node'[n].recoverDirect = node[n].recoverDirect
  BY <1>3, <1>9
<1> QED
  BY <1>2, <1>7, <1>8, <1>10 DEF n, Finishes

(* A message completes nothing, and is an instruction only for a node with *)
(* an ended attempt.                                                       *)
LEMMA InterveneEffect ==
    ASSUME TypeOK, NEW n \in Nodes, Intervene(n)
    PROVE  /\ \A m \in Nodes : m # n => node'[m] = node[m]
           /\ node'[n].status = "completed" => node[n].status = "completed"
           /\ node'[n].head = node[n].head
           /\ CanContinue(n)
<1> DEFINE nd == node[n]
           isDirect == source_direct_context(n)
           kind == IF isDirect THEN "direct" ELSE IF SharedTerminal(n) THEN "shared" ELSE "graph"
           ms == Append(nd.msgs, kind)
           b == kind = "shared"
           queued == [nd EXCEPT !.msgs = ms, !.revision = nd.revision + 1]
           base == [nd EXCEPT !.msgs = ms, !.error = "none", !.human = TRUE]
           direct == [base EXCEPT !.status = "dirty", !.revision = base.revision + 1,
                                  !.baseline = NoHead, !.shared = FALSE, !.feedbackFrom = {}]
           graph == [base EXCEPT !.status = Requeued(n), !.shared = b,
                                 !.revision = IF Unstarted(n) THEN base.revision
                                                              ELSE base.revision + 1,
                                 !.baseline = nd.head]
<1>1. /\ \/ node' = [node EXCEPT ![n] = queued]
         \/ node' = [node EXCEPT ![n] = direct]
         \/ node' = [node EXCEPT ![n] = graph]
      /\ CanContinue(n)
  BY DEF Intervene
<1>2. nd \in NodeRecords(Len(execs)) /\ Requeued(n) \in {"waiting", "dirty"}
  BY Typed, RequeuedIdle
<1> HIDE DEF ms, b
<1>3. queued.status = nd.status /\ queued.head = nd.head
  BY <1>2 DEF NodeRecords
<1>4. direct.status = "dirty" /\ direct.head = nd.head
  BY <1>2 DEF NodeRecords
<1>5. graph.status = Requeued(n) /\ graph.head = nd.head
  BY <1>2 DEF NodeRecords
<1> HIDE DEF queued, direct, graph
<1>6. node \in [Nodes -> NodeRecords(Len(execs))]
  BY DEF TypeOK
<1>7. /\ \A m \in Nodes : m # n => node'[m] = node[m]
      /\ node'[n] \in {queued, direct, graph}
  BY <1>1, <1>6
<1> QED
  BY <1>1, <1>2, <1>3, <1>4, <1>5, <1>7

(* The verdict a review queues is about its feedback edge.                 *)
LEMMA VerdictOwned ==
    ASSUME TypeOK, NEW e \in DOMAIN execs, NEW head \in Heads, NEW accepted \in BOOLEAN,
           FinishOk(e, head, accepted)
    PROVE  \A p \in pending' : \/ p \in pending
                               \/ /\ p.exec = e /\ p.from = execs[e].node
                                  /\ <<p.from, p.to>> \in Feedback
<1> DEFINE n == execs[e].node
           to == FeedbackTarget(n)
           ended == Cardinality(DOMAIN execs \ RunningExecs)
           seen == IF to \in execs[e].lineage THEN head ELSE node[to].head
           verdict == [order |-> ended, exec |-> e, from |-> n, to |-> to,
                       sourceHead |-> head, targetRevision |-> node[to].revision,
                       targetExec |-> reviewed_execution(e, to), targetHead |-> seen,
                       accepted |-> accepted]
<1>1. pending' = IF IsFeedbackSource(n) THEN pending \cup {verdict} ELSE pending
  BY DEF FinishOk
<1>2. verdict.exec = e /\ verdict.from = n /\ verdict.to = to
  <2> HIDE DEF n, to, ended, seen
  <2> QED
    OBVIOUS
<1>3. ASSUME IsFeedbackSource(n) PROVE <<n, to>> \in Feedback
  <2>1. PICK f \in Feedback : f[1] = n
    BY <1>3 DEF IsFeedbackSource
  <2> DEFINE g == CHOOSE h \in Feedback : h[1] = n
  <2>2. g \in Feedback /\ g[1] = n
    BY <2>1
  <2>3. to = g[2]
    BY DEF FeedbackTarget
  <2> HIDE DEF g, to
  <2>4. g = <<g[1], g[2]>>
    BY <2>2, GraphAssumption
  <2> QED
    BY <2>2, <2>3, <2>4
<1> HIDE DEF verdict, to
<1> QED
  BY <1>1, <1>2, <1>3

-----------------------------------------------------------------------------
(* What dispatch relies on                                                 *)

Done(n) == node[n].status = "completed"

(* The node has an attempt that ended.                                     *)
Ran(n) == \E i \in Execs(n) : execs[i].status # "running"

(* An attempt starts from a head and has no result while it runs.          *)
Recorded ==
    \A i \in DOMAIN execs : /\ execs[i].before # NoHead
                            /\ execs[i].status = "running" => execs[i].after = NoHead

(* Whatever was dispatched, or is about to be, had its parents run before. *)
ParentsRan ==
    /\ \A i \in DOMAIN execs : \A p \in Parents(execs[i].node) : Ran(p)
    /\ pass.step = "start" => \A n \in pass.ready : \A p \in Parents(n) : Ran(p)

(* Results and instructions belong to nodes that ran.                      *)
ResultsRan ==
    \A n \in Nodes : /\ Done(n) => Ran(n) /\ node[n].head # NoHead
                     /\ node[n].human => Ran(n)

(* A queued verdict was given by an attempt of the review, over its edge.  *)
Owned ==
    \A p \in pending : <<p.from, p.to>> \in Feedback /\ execs[p.exec].node = p.from

InputsInv == Recorded /\ ParentsRan /\ ResultsRan /\ Owned

(* Ended attempts are never forgotten.                                     *)
LEMMA RanGrows == ASSUME ExecsStep, NEW n, Ran(n) PROVE Ran(n)'
<1>1. PICK i \in DOMAIN execs : execs[i].node = n /\ execs[i].status # "running"
  BY DEF Ran, Execs
<1>2. /\ i \in DOMAIN execs' /\ execs'[i].node = execs[i].node
      /\ execs'[i].status \in {execs[i].status, "resolved"}
  BY <1>1 DEF ExecsStep, Aged
<1> QED
  BY <1>1, <1>2 DEF Ran, Execs

(* Everything above a dispatched node has run.                             *)
LEMMA AncestorsRan ==
    ASSUME TypeOK, ParentsRan, NEW i \in DOMAIN execs, NEW t \in Nodes,
           execs[i].node \in Downstream(t), execs[i].node # t
    PROVE  Ran(t)
<1> DEFINE S == {m \in Nodes : m = t \/ Execs(m) = {}}
<1>1. SUFFICES ASSUME ~Ran(t) PROVE FALSE
  OBVIOUS
<1>2. ASSUME NEW d \in Deps, d[1] \in S PROVE d[2] \in S
  <2>1. ~Ran(d[1])
    BY <1>1, <1>2 DEF Ran
  <2>2. d[1] \in Nodes /\ d[2] \in Nodes /\ d = <<d[1], d[2]>>
    BY GraphAssumption
  <2>3. d[1] \in Parents(d[2])
    BY <2>2 DEF Parents
  <2>4. Execs(d[2]) = {}
    BY <2>1, <2>3 DEF ParentsRan, Execs
  <2> QED
    BY <2>2, <2>4
<1>3. S \in SUBSET Nodes /\ t \in S
  OBVIOUS
<1>4. execs[i].node \in S
  <2> HIDE DEF S
  <2> QED
    BY <1>2, <1>3 DEF Downstream
<1> QED
  BY <1>4 DEF Execs

(* A step whose new results and instructions belong to nodes that ran      *)
(* preserves the invariant.                                                *)
LEMMA InputsStep ==
    ASSUME TypeOK, InputsInv, ExecsStep,
           \A n \in Nodes : /\ Done(n)' => \/ Done(n) /\ node'[n].head = node[n].head
                                           \/ Ran(n)' /\ node'[n].head # NoHead
                            /\ node'[n].human => node[n].human \/ Ran(n)',
           \A p \in pending' : \/ p \in pending
                               \/ /\ <<p.from, p.to>> \in Feedback
                                  /\ p.exec \in DOMAIN execs /\ execs[p.exec].node = p.from,
           pass'.step = "start" =>
               \/ pass.step = "start" /\ pass'.ready \subseteq pass.ready
               \/ \A n \in pass'.ready : \A p \in Parents(n) : Ran(p)
    PROVE  InputsInv'
<1>1. Recorded'
  BY DEF InputsInv, Recorded, ExecsStep, Aged
<1>2. \A n : Ran(n) => Ran(n)'
  BY RanGrows
<1>3. ParentsRan'
  <2>1. ASSUME NEW i \in DOMAIN execs', NEW p \in Parents(execs'[i].node) PROVE Ran(p)'
    <3>1. CASE i \in DOMAIN execs
      <4>1. execs'[i].node = execs[i].node
        BY <3>1 DEF ExecsStep, Aged
      <4>2. Ran(p)
        BY <2>1, <3>1, <4>1 DEF InputsInv, ParentsRan
      <4> QED
        BY <1>2, <4>2
    <3>2. CASE i \notin DOMAIN execs
      <4>1. pass.step = "start" /\ execs'[i].node \in pass.ready
        BY <2>1, <3>2 DEF ExecsStep
      <4>2. Ran(p)
        BY <2>1, <4>1 DEF InputsInv, ParentsRan
      <4> QED
        BY <1>2, <4>2
    <3> QED
      BY <3>1, <3>2
  <2>2. ASSUME pass'.step = "start", NEW n \in pass'.ready, NEW p \in Parents(n) PROVE Ran(p)'
    <3>1. Ran(p)
      BY <2>2 DEF InputsInv, ParentsRan
    <3> QED
      BY <1>2, <3>1
  <2> QED
    BY <2>1, <2>2 DEF ParentsRan, Parents
<1>4. ResultsRan'
  <2>1. ASSUME NEW n \in Nodes
        PROVE  /\ Done(n)' => Ran(n)' /\ node'[n].head # NoHead
               /\ node'[n].human => Ran(n)'
    <3>1. /\ Done(n) => Ran(n) /\ node[n].head # NoHead
          /\ node[n].human => Ran(n)
      BY DEF InputsInv, ResultsRan
    <3> QED
      BY <1>2, <3>1
  <2> QED
    BY <2>1 DEF ResultsRan
<1>5. Owned'
  <2> SUFFICES ASSUME NEW p \in pending'
               PROVE  <<p.from, p.to>> \in Feedback /\ execs'[p.exec].node = p.from
    BY DEF Owned
  <2>1. CASE p \in pending
    <3>1. p.exec \in DOMAIN execs
      BY <2>1, Typed DEF TypeOK, FeedbackRecords
    <3>2. execs[p.exec].node = p.from /\ <<p.from, p.to>> \in Feedback
      BY <2>1 DEF InputsInv, Owned
    <3> QED
      BY <3>1, <3>2 DEF ExecsStep, Aged
  <2>2. CASE p \notin pending
    BY <2>2 DEF ExecsStep, Aged
  <2> QED
    BY <2>1, <2>2
<1> QED
  BY <1>1, <1>3, <1>4, <1>5 DEF InputsInv

(* A step that completes no node and gives no instruction.                 *)
LEMMA InputsIdle ==
    ASSUME TypeOK, InputsInv, ExecsStep, pending' \subseteq pending,
           \A n \in Nodes : /\ Done(n)' => Done(n) /\ node'[n].head = node[n].head
                            /\ node'[n].human => node[n].human,
           pass'.step = "start" => pass.step = "start" /\ pass'.ready \subseteq pass.ready
    PROVE  InputsInv'
<1>1. \A n \in Nodes : /\ Done(n)' => \/ Done(n) /\ node'[n].head = node[n].head
                                      \/ Ran(n)' /\ node'[n].head # NoHead
                       /\ node'[n].human => node[n].human \/ Ran(n)'
  OBVIOUS
<1> QED
  BY <1>1, InputsStep

(* The scheduling pass starts only what has its inputs, and a repair goes  *)
(* to a node whose review has run.                                         *)
LEMMA InputsPass == ASSUME IInv, InputsInv, PassStep PROVE InputsInv'
<1> USE DEF Done
<1>1. TypeOK /\ ExecsStep
  BY ExecutionsAge DEF IInv, Next
<1>2. ASSUME BeginPass \/ EndDrain \/ EndPass PROVE InputsInv'
  <2>1. node' = node /\ pending' = pending
    BY <1>2 DEF BeginPass, EndDrain, EndPass, run
  <2>2. pass'.step # "start"
    <3>1. CASE BeginPass
      BY <3>1 DEF BeginPass, IdlePass
    <3>2. CASE EndDrain
      BY <1>1, <3>2 DEF EndDrain, TypeOK, PassRecords
    <3>3. CASE EndPass
      BY <3>3 DEF EndPass, IdlePass
    <3> QED
      BY <1>2, <3>1, <3>2, <3>3
  <2> QED
    BY <1>1, <2>1, <2>2, InputsIdle
<1>3. ASSUME ChooseReady PROVE InputsInv'
  <2>1. node' = node /\ pending' = pending
    BY <1>3 DEF ChooseReady, run
  <2>2. PICK ready \in SUBSET Eligible :
          pass' = [pass EXCEPT !.step = "start", !.ready = ready, !.direct = source_direct_run]
    BY <1>3 DEF ChooseReady
  <2>3. pass'.ready = ready
    BY <1>1, <2>2 DEF TypeOK, PassRecords
  <2>4. \A n \in ready : \A p \in Parents(n) : Ran(p)
    BY DEF Eligible, InputsInv, ResultsRan, Parents
  <2> QED
    BY <1>1, <2>1, <2>3, <2>4, InputsStep
<1>4. ASSUME NEW n \in Nodes, SkipOne(n) PROVE InputsInv'
  <2>1. node' = node /\ pending' = pending /\ pass' = [pass EXCEPT !.ready = pass.ready \ {n}]
    BY <1>4 DEF SkipOne, run
  <2>2. pass'.step = pass.step /\ pass'.ready \subseteq pass.ready
    BY <1>1, <2>1 DEF TypeOK, PassRecords
  <2> QED
    BY <1>1, <2>1, <2>2, InputsIdle
<1>5. ASSUME NEW n \in Nodes, BlockNode(n) PROVE InputsInv'
  <2>1. pending' = pending /\ pass' = pass
    BY <1>5 DEF BlockNode
  <2>2. \A m \in Nodes : /\ Done(m)' => Done(m) /\ node'[m].head = node[m].head
                         /\ node'[m].human => node[m].human
    BY <1>1, <1>5, BlockNodeEffect DEF Kept
  <2> QED
    BY <1>1, <2>1, <2>2, InputsIdle
<1>6. ASSUME NEW n \in Nodes, StartOne(n) PROVE InputsInv'
  <2>1. pending' = pending /\ pass' = [pass EXCEPT !.ready = pass.ready \ {n}, !.started = TRUE]
    BY <1>6 DEF StartOne
  <2>2. pass'.step = pass.step /\ pass'.ready \subseteq pass.ready
    BY <1>1, <2>1 DEF TypeOK, PassRecords
  <2>3. \A m \in Nodes : /\ Done(m)' => Done(m) /\ node'[m].head = node[m].head
                         /\ node'[m].human => node[m].human
    BY <1>1, <1>6, StartOneEffect DEF Kept
  <2> QED
    BY <1>1, <2>1, <2>2, <2>3, InputsIdle
<1>7. ASSUME NEW p \in pending, DrainOne(p) PROVE InputsInv'
  <2>1. pass.step = "drain" /\ pass' = [pass EXCEPT !.todo = pass.todo \ {p.exec}]
    BY <1>7 DEF DrainOne
  <2>2. pass'.step # "start"
    BY <1>1, <2>1 DEF TypeOK, PassRecords
  <2>3. CASE node' = node /\ pending' \subseteq pending
    BY <1>1, <2>2, <2>3, InputsIdle
  <2>4. CASE ApplyBatch(p.to, Batch(p))
    <3>1. p.to \in Nodes /\ Batch(p) \in SUBSET pending /\ pending' \subseteq pending
      BY <1>1, <2>4 DEF TypeOK, FeedbackRecords, Batch, ApplyBatch
    <3>2. Ran(p.to)
      <4>1. <<p.from, p.to>> \in Feedback /\ execs[p.exec].node = p.from
        BY DEF InputsInv, Owned
      <4>2. p.from # p.to /\ p.from \in Downstream(p.to)
        BY <4>1, GraphAssumption
      <4>3. p.exec \in DOMAIN execs
        BY <1>1, Typed DEF TypeOK, FeedbackRecords
      <4> QED
        BY <1>1, <3>1, <4>1, <4>2, <4>3, AncestorsRan DEF InputsInv
    <3>3. Ran(p.to)'
      BY <1>1, <3>2, RanGrows
    <3>4. CASE UNCHANGED <<node, phase, publication>>
      BY <1>1, <2>2, <3>1, <3>4, InputsIdle
    <3>5. CASE \A m \in Nodes :
                 \/ m \notin Downstream(p.to) /\ node'[m] = node[m]
                 \/ /\ m \in Downstream(p.to) /\ node'[m].status \in {"waiting", "dirty"}
                    /\ node'[m].human => m = p.to
      <4>1. \A m \in Nodes : /\ Done(m)' => Done(m) /\ node'[m].head = node[m].head
                             /\ node'[m].human => node[m].human \/ Ran(m)'
        BY <3>3, <3>5
      <4> QED
        BY <1>1, <2>2, <3>1, <4>1, InputsStep
    <3> QED
      BY <1>1, <2>4, <3>1, <3>4, <3>5, ApplyBatchEffect
  <2> QED
    BY <1>7, <2>3, <2>4 DEF DrainOne
<1> QED
  BY <1>2, <1>3, <1>4, <1>5, <1>6, <1>7 DEF PassStep

(* A completion is an ended attempt of its node.                           *)
LEMMA InputsFinish ==
    ASSUME IInv, InputsInv, NEW e \in DOMAIN execs, NEW head \in Heads \ {NoHead},
           NEW accepted \in BOOLEAN, FinishOk(e, head, accepted)
    PROVE  InputsInv'
<1>1. TypeOK /\ ExecsStep
  BY FinishOkAges DEF IInv
<1> PICK n \in Nodes : n = execs[e].node
  BY <1>1, Typed DEF ExecRecords
<1>2. Ran(n)'
  <2>1. execs' = [execs EXCEPT ![e] = [execs[e] EXCEPT !.status = "completed", !.after = head]]
    BY DEF FinishOk
  <2>2. execs[e] \in ExecRecords /\ DOMAIN execs' = DOMAIN execs
    BY <1>1, <2>1, Typed
  <2>3. execs'[e].status = "completed" /\ execs'[e].node = n
    BY <2>1, <2>2 DEF ExecRecords
  <2> QED
    BY <2>2, <2>3 DEF Ran, Execs
<1>3. /\ n \in Nodes /\ node'[n].head = head
      /\ \A m \in Nodes : m # n =>
              \/ node'[m] = node[m]
              \/ /\ node[n].baseline # NoHead
                 /\ node'[m].status \in {"waiting", "dirty"} /\ ~node'[m].human
              \/ /\ node[m].status = "completed" /\ node'[m].status = "completed"
                 /\ node'[m].head = head /\ Kept(node[m], node'[m])
  <2>1. Finishes(n, head)
    BY <1>1, FinishOkEffect
  <2> QED
    BY <2>1 DEF Finishes
<1>4. \A m \in Nodes : Ran(m) => Ran(m)'
  BY <1>1, RanGrows
<1>5. ASSUME NEW m \in Nodes
      PROVE  /\ Done(m)' => \/ Done(m) /\ node'[m].head = node[m].head
                            \/ Ran(m)' /\ node'[m].head # NoHead
             /\ node'[m].human => node[m].human \/ Ran(m)'
  <2>1. CASE m = n
    BY <1>2, <1>3, <2>1
  <2>2. CASE m # n /\ node'[m] = node[m]
    BY <2>2 DEF Done
  <2>3. CASE m # n /\ node'[m].status \in {"waiting", "dirty"} /\ ~node'[m].human
    BY <2>3 DEF Done
  <2>4. CASE /\ m # n /\ node[m].status = "completed" /\ node'[m].head = head
             /\ Kept(node[m], node'[m])
    <3>1. Ran(m)'
      BY <1>4, <2>4 DEF InputsInv, ResultsRan, Done
    <3> QED
      BY <2>4, <3>1
  <2> QED
    BY <1>3, <2>1, <2>2, <2>3, <2>4
<1>6. \A p \in pending' : \/ p \in pending
                          \/ /\ <<p.from, p.to>> \in Feedback
                             /\ p.exec \in DOMAIN execs /\ execs[p.exec].node = p.from
  <2>1. \A p \in pending' : \/ p \in pending
                             \/ /\ p.exec = e /\ p.from = execs[e].node
                                /\ <<p.from, p.to>> \in Feedback
    BY <1>1, VerdictOwned
  <2>2. e \in DOMAIN execs
    BY <1>1
  <2> QED
    BY <2>1, <2>2
<1>7. pass'.step # "start"
  BY DEF FinishOk
<1> QED
  BY <1>1, <1>5, <1>6, <1>7, InputsStep

(* Requests, messages among them, complete no node and instruct only nodes *)
(* that have an ended attempt.                                             *)
LEMMA InputsControl == ASSUME IInv, InputsInv, ControlStep PROVE InputsInv'
<1>1. TypeOK /\ ExecsStep
  BY ExecutionsAge DEF IInv, Next
<1>2. pending' = pending /\ pass' = pass
  BY DEF ControlStep, Approve, Reject, Pause, StopAll, Resume, ResumeAfterIntervention, Unpause,
         RetryPublication, StopNode, Intervene, Resolve
<1>3. ASSUME \/ Approve \/ Reject \/ Pause \/ StopAll \/ RetryPublication
             \/ \E n \in Nodes : StopNode(n)
      PROVE  InputsInv'
  <2>1. node' = node
    BY <1>3 DEF Approve, Reject, Pause, StopAll, RetryPublication, StopNode
  <2> QED
    BY <1>1, <1>2, <2>1, InputsIdle DEF Done
<1>4. ASSUME NEW roots \in SUBSET Nodes, Unpause(roots) PROVE InputsInv'
  <2>1. \A m \in Nodes : /\ Done(m)' => Done(m) /\ node'[m].head = node[m].head
                         /\ node'[m].human => node[m].human
    BY <1>1, <1>4, UnpauseEffect DEF Done
  <2> QED
    BY <1>1, <1>2, <2>1, InputsIdle
<1>5. ASSUME Resume \/ ResumeAfterIntervention PROVE InputsInv'
  <2>1. /\ interrupted_nodes \in SUBSET Nodes
        /\ failed_retry_nodes \cup preparation_failed_nodes \in SUBSET Nodes
    BY DEF interrupted_nodes, failed_retry_nodes, preparation_failed_nodes
  <2> QED
    BY <1>4, <1>5, <2>1 DEF Resume, ResumeAfterIntervention
<1>6. ASSUME NEW n \in Nodes, Resolve(n) PROVE InputsInv'
  <2>1. \A m \in Nodes : /\ Done(m)' => Done(m) /\ node'[m].head = node[m].head
                         /\ node'[m].human => node[m].human
    BY <1>1, <1>6, ResolveEffect DEF Done, Kept
  <2> QED
    BY <1>1, <1>2, <2>1, InputsIdle
<1>7. ASSUME NEW n \in Nodes, Intervene(n) PROVE InputsInv'
  <2>1. Ran(n)
    BY <1>1, <1>7, InterveneEffect DEF CanContinue, Ran, Execs, InputsInv, Recorded
  <2>2. Ran(n)'
    BY <1>1, <2>1, RanGrows
  <2>3. \A m \in Nodes : /\ Done(m)' => Done(m) /\ node'[m].head = node[m].head
                         /\ node'[m].human => node[m].human \/ Ran(m)'
    BY <1>1, <1>7, <2>2, InterveneEffect DEF Done
  <2> QED
    BY <1>1, <1>2, <2>3, InputsStep
<1> QED
  BY <1>3, <1>5, <1>6, <1>7 DEF ControlStep

(* The scheduler's lookups cannot fail, in any Run: the unconditional half *)
(* of DispatchSound.                                                       *)
LEMMA InputsNext == ASSUME IInv, InputsInv, [Next]_vars PROVE InputsInv'
<1>1. TypeOK /\ ExecsStep
  BY ExecutionsAge DEF IInv
<1>2. CASE UNCHANGED vars \/ Rest \/ PublishStep \/ MergerStarted \/ MergerFinished
  <2>1. node' = node /\ pending' = pending /\ pass' = pass
    BY <1>2 DEF Rest, vars, run, PublishStep, PublishOk, PublishFail, MergerStarted,
                MergerFinished, PublicationMerger
  <2> QED
    BY <1>1, <2>1, InputsIdle DEF Done
<1>3. ASSUME NEW e \in DOMAIN execs, Succeed(e) PROVE InputsInv'
  <2>1. SourceHead \in Heads \ {NoHead} /\ e \in Heads \ {NoHead}
        /\ execs[e].before \in Heads \ {NoHead}
    BY <1>1, Typed DEF ExecRecords, Heads, InputsInv, Recorded, NoHead, SourceHead
  <2>2. PICK head \in Heads \ {NoHead}, accepted \in BOOLEAN : FinishOk(e, head, accepted)
    BY <1>3, <2>1 DEF Succeed
  <2> QED
    BY <2>2, InputsFinish
<1>4. ASSUME NEW e \in DOMAIN execs, Fail(e) PROVE InputsInv'
  <2>1. PICK why : FinishErr(e, why)
    BY <1>4 DEF Fail
  <2>2. pending' = pending /\ pass' = pass
    BY <2>1 DEF FinishErr
  <2>3. \A m \in Nodes : /\ Done(m)' => Done(m) /\ node'[m].head = node[m].head
                         /\ node'[m].human => node[m].human
    BY <1>1, <2>1, FinishErrEffect DEF Done, Kept
  <2> QED
    BY <1>1, <2>2, <2>3, InputsIdle
<1>5. ASSUME NEW e \in DOMAIN execs, MergerFailed(e) PROVE InputsInv'
  <2>1. pending' = pending /\ pass' = pass
    BY <1>5 DEF MergerFailed
  <2>2. \A m \in Nodes : /\ Done(m)' => Done(m) /\ node'[m].head = node[m].head
                         /\ node'[m].human => node[m].human
    BY <1>1, <1>5, MergerFailedEffect DEF Done, Kept
  <2> QED
    BY <1>1, <2>1, <2>2, InputsIdle
<1>6. CASE Crash
  <2>1. pending' = pending /\ pass'.step # "start"
    <3>1. pending' = pending /\ pass' = IdlePass
      BY <1>6 DEF Crash
    <3> QED
      BY <3>1 DEF IdlePass
  <2>2. \A m \in Nodes : /\ Done(m)' => Done(m) /\ node'[m].head = node[m].head
                         /\ node'[m].human => node[m].human
    BY <1>1, <1>6, CrashEffect DEF Done, Kept
  <2> QED
    BY <1>1, <2>1, <2>2, InputsIdle
<1> QED
  BY <1>2, <1>3, <1>4, <1>5, <1>6, InputsPass, InputsControl DEF Next, WorkerStep

(* A completed node has a result for its consumers and a node told to      *)
(* continue has a session to continue, for every graph and every history   *)
(* of messages, repairs, crashes and recoveries.                           *)
THEOREM InputsExist == Spec => []DispatchInputsExist
<1>1. Init => InputsInv
  <2> SUFFICES ASSUME Init PROVE InputsInv
    OBVIOUS
  <2>1. /\ execs = <<>> /\ pending = {} /\ pass.step = "idle"
        /\ \A n \in Nodes : node[n].status = "waiting" /\ ~node[n].human
    BY DEF Init, IdlePass, NewNode
  <2> QED
    BY <2>1 DEF InputsInv, Recorded, ParentsRan, ResultsRan, Owned, Done
<1>2. InputsInv => DispatchInputsExist
  BY DEF InputsInv, ResultsRan, DispatchInputsExist, Done, Ran
<1> QED
  BY <1>1, <1>2, InputsNext, Invariance, PTL DEF Spec

-----------------------------------------------------------------------------
(* Work in progress, while the user sends no message                       *)

Busy(n) == \E e \in RunningExecs : execs[e].node = n

(* Nothing but a message makes a follow-up of a node.                      *)
PlainNode(x) == x.msgs = <<>> /\ x.baseline = NoHead /\ ~x.shared /\ ~x.recoverDirect

Plain ==
    /\ \A n \in Nodes : PlainNode(node[n])
    /\ \A i \in DOMAIN execs : ~execs[i].direct
    /\ ~pass.direct /\ phase # "followup"

(* What is done or running stands on results.                              *)
Grounded == \A n \in Nodes : Done(n) \/ Busy(n) => \A p \in Parents(n) : Done(p)

(* An execution runs for a running node, or its composition has failed.    *)
Showing(e) ==
    \/ node[execs[e].node].status = "running"
    \/ /\ node[execs[e].node].status = "blocked" /\ node[execs[e].node].error = "merger"
       /\ execs[e].conflict

Shown == \A e \in RunningExecs : Showing(e)

(* Work reads, and results were computed from, the parents' last results.  *)
Fresh ==
    /\ \A e \in RunningExecs : \A p \in Parents(execs[e].node) : execs[e].reads[p] = made[p]
    /\ \A n \in Nodes : Done(n) =>
          made[n] \in DOMAIN execs /\ \A p \in Parents(n) : execs[made[n]].reads[p] = made[p]

(* A node that repairs has no result.                                      *)
Repairing == \A n \in Nodes : node[n].feedbackFrom # {} => ~Done(n)

Held(n) == node[n].status = "blocked" /\ node[n].error = "upstream"
Moving(n) == node[n].status \in {"completed", "running"}

(* A node is held back by a parent that neither has a result nor runs.     *)
Caused == \A n \in Nodes : Held(n) => \E p \in Parents(n) : ~Moving(p)

(* What the pass is about to start still can.                              *)
ReadyOK == pass.step = "start" => \A n \in pass.ready :
    node[n].status \in {"waiting", "dirty"} /\ \A p \in Parents(n) : Done(p)

Work == /\ Plain /\ Grounded /\ Shown /\ Fresh /\ Repairing /\ Caused /\ ReadyOK
        /\ VerdictHoldsConsumers

(* A consumer of an affected node is affected.                             *)
LEMMA DownstreamClosed ==
    ASSUME NEW n, NEW m \in Downstream(n), NEW c \in Consumers(m)
    PROVE  c \in Downstream(n)
<1>1. c \in Nodes /\ <<m, c>> \in Deps
  BY DEF Consumers
<1>2. ASSUME NEW S \in SUBSET Nodes, n \in S, \A d \in Deps : d[1] \in S => d[2] \in S
      PROVE  c \in S
  <2>1. m \in S
    BY <1>2 DEF Downstream
  <2> QED
    BY <1>1, <1>2, <2>1
<1> QED
  BY <1>1, <1>2 DEF Downstream

(* Everything above work that runs or is done is done.                     *)
LEMMA Above ==
    ASSUME Grounded, NEW n \in Nodes, NEW m \in Downstream(n), m # n, Done(m) \/ Busy(m)
    PROVE  Done(n)
<1> DEFINE S == {x \in Nodes : x = n \/ ~(Done(x) \/ Busy(x))}
<1>1. SUFFICES ASSUME ~Done(n) PROVE FALSE
  OBVIOUS
<1>2. ASSUME NEW d \in Deps, d[1] \in S PROVE d[2] \in S
  <2>1. d[1] \in Nodes /\ d[2] \in Nodes /\ d = <<d[1], d[2]>>
    BY GraphAssumption
  <2>2. d[1] \in Parents(d[2]) /\ ~Done(d[1])
    BY <1>1, <1>2, <2>1 DEF Parents
  <2> QED
    BY <2>1, <2>2 DEF Grounded
<1>3. S \in SUBSET Nodes /\ n \in S
  OBVIOUS
<1>4. m \in S
  <2> HIDE DEF S
  <2> QED
    BY <1>2, <1>3 DEF Downstream
<1> QED
  BY <1>4

(* A running execution's node has no result.                               *)
LEMMA BusyNotDone == ASSUME Shown, NEW n, Busy(n) PROVE ~Done(n) /\ node[n].status \in {"running", "blocked"}
  BY DEF Shown, Showing, Busy, Done

(* Without a start the running executions can only become fewer.           *)
LEMMA Going ==
    ASSUME ExecsStep, pass.step # "start" \/ DOMAIN execs' = DOMAIN execs
    PROVE  /\ RunningExecs' \subseteq RunningExecs
           /\ \A e \in RunningExecs' : /\ execs'[e].node = execs[e].node
                                       /\ execs'[e].reads = execs[e].reads
                                       /\ execs[e].conflict => execs'[e].conflict
           /\ \A n : Busy(n)' => Busy(n)
<1>1. ASSUME NEW e \in RunningExecs'
      PROVE  /\ e \in RunningExecs /\ execs'[e].node = execs[e].node
             /\ execs'[e].reads = execs[e].reads
             /\ execs[e].conflict => execs'[e].conflict
  BY <1>1 DEF RunningExecs, ExecsStep, Aged
<1> QED
  BY <1>1 DEF Busy

(* A step that starts and completes nothing, and that takes back a result  *)
(* only together with everything computed from it, keeps the invariant.    *)
LEMMA CalmWork ==
    ASSUME IInv, Work, ExecsStep, pass.step # "start" \/ DOMAIN execs' = DOMAIN execs,
           made' = made, pending' \subseteq pending,
           \A n \in Nodes : PlainNode(node'[n]),
           \A n \in Nodes : \/ node'[n] = node[n]
                            \/ /\ node'[n].status \notin {"completed", "running"}
                               /\ Held(n)' => \E p \in Parents(n) : ~Moving(p)',
           \A n \in Nodes : Done(n) /\ ~Done(n)' =>
               \A c \in Consumers(n) : ~Done(c)' /\ ~Busy(c)',
           Shown', ReadyOK', ~pass'.direct, phase' # "followup"
    PROVE  Work'
<1>1. /\ RunningExecs' \subseteq RunningExecs
      /\ \A e \in RunningExecs' : /\ execs'[e].node = execs[e].node
                                  /\ execs'[e].reads = execs[e].reads
      /\ \A n : Busy(n)' => Busy(n)
  BY Going
<1>2. \A n \in Nodes : Done(n)' => Done(n)
  BY DEF Done
<1>3. Plain'
  <2>1. \A i \in DOMAIN execs' : ~execs'[i].direct
    BY DEF ExecsStep, Aged, Work, Plain
  <2> QED
    BY <2>1 DEF Plain
<1>4. Grounded'
  <2> SUFFICES ASSUME NEW n \in Nodes, Done(n)' \/ Busy(n)', NEW p \in Parents(n)
               PROVE  Done(p)'
    BY DEF Grounded, Parents
  <2>1. Done(p) /\ p \in Nodes /\ n \in Consumers(p)
    BY <1>1, <1>2 DEF Work, Grounded, Parents, Consumers
  <2> QED
    BY <2>1
<1>5. Fresh'
  <2>1. ASSUME NEW e \in RunningExecs', NEW p \in Parents(execs'[e].node)
        PROVE  execs'[e].reads[p] = made'[p]
    BY <1>1, <2>1 DEF Work, Fresh
  <2>2. ASSUME NEW n \in Nodes, Done(n)'
        PROVE  made'[n] \in DOMAIN execs' /\ \A p \in Parents(n) : execs'[made'[n]].reads[p] = made'[p]
    <3>1. made[n] \in DOMAIN execs /\ \A p \in Parents(n) : execs[made[n]].reads[p] = made[p]
      BY <1>2, <2>2 DEF Work, Fresh
    <3>2. made[n] \in DOMAIN execs' /\ execs'[made[n]].reads = execs[made[n]].reads
      BY <3>1 DEF ExecsStep, Aged
    <3> QED
      BY <3>1, <3>2
  <2> QED
    BY <2>1, <2>2 DEF Fresh, Parents
<1>6. Repairing'
  BY <1>2 DEF Work, Repairing, Done
<1>7. Caused'
  <2> SUFFICES ASSUME NEW n \in Nodes, Held(n)' PROVE \E p \in Parents(n) : ~Moving(p)'
    BY DEF Caused, Parents
  <2>1. CASE node'[n] = node[n]
    <3>1. PICK p \in Parents(n) : ~Moving(p)
      BY <2>1 DEF Work, Caused, Held
    <3>2. p \in Nodes
      BY DEF Parents
    <3> QED
      BY <3>1, <3>2 DEF Moving
  <2> QED
    BY <2>1
<1>8. VerdictHoldsConsumers'
  BY <1>1 DEF Work, VerdictHoldsConsumers
<1> QED
  BY <1>3, <1>4, <1>5, <1>6, <1>7, <1>8 DEF Work

(* Steps that leave the nodes alone.                                       *)
LEMMA StillWork ==
    ASSUME IInv, Work, ExecsStep, pass.step # "start" \/ DOMAIN execs' = DOMAIN execs,
           made' = made, node' = node, pending' \subseteq pending,
           ReadyOK', ~pass'.direct, phase' # "followup"
    PROVE  Work'
<1>1. Shown'
  BY Going DEF Work, Shown, Showing
<1>2. \A n \in Nodes : PlainNode(node'[n]) /\ (Done(n) => Done(n)')
  BY DEF Work, Plain, Done
<1> QED
  BY <1>1, <1>2, CalmWork

(* The pass itself only decides what is ready.                             *)
LEMMA WorkBooks ==
    ASSUME IInv, Work, \/ BeginPass \/ EndDrain \/ ChooseReady \/ EndPass
                       \/ \E n \in Nodes : SkipOne(n)
    PROVE  Work'
<1>1. TypeOK /\ ExecsStep /\ execs' = execs /\ made' = made /\ node' = node /\ pending' = pending
  BY SameExecs DEF IInv, BeginPass, EndDrain, ChooseReady, EndPass, SkipOne, run
<1>2. phase' # "followup"
  <2>1. CASE EndPass
    <3>1. phase' \in {phase, "publishing", "completed", "needs_attention"}
      BY <2>1 DEF EndPass
    <3> QED
      BY <3>1 DEF Work, Plain
  <2>2. CASE ~EndPass
    BY <2>2 DEF BeginPass, EndDrain, ChooseReady, SkipOne, run, Work, Plain
  <2> QED
    BY <2>1, <2>2
<1>3. CASE BeginPass \/ EndDrain \/ EndPass
  <2>1. pass'.step # "start" /\ ~pass'.direct
    <3>1. CASE BeginPass
      BY <3>1 DEF BeginPass, IdlePass
    <3>2. CASE EndDrain
      BY <1>1, <3>2 DEF EndDrain, TypeOK, PassRecords, Work, Plain
    <3>3. CASE EndPass
      BY <3>3 DEF EndPass, IdlePass
    <3> QED
      BY <1>3, <3>1, <3>2, <3>3
  <2> QED
    BY <1>1, <1>2, <2>1, StillWork DEF ReadyOK
<1>4. CASE ChooseReady
  <2>1. ~source_direct_run
    BY DEF source_direct_run, Work, Plain, PlainNode
  <2>2. PICK ready \in SUBSET Eligible :
          pass' = [pass EXCEPT !.step = "start", !.ready = ready, !.direct = source_direct_run]
    BY <1>4 DEF ChooseReady
  <2> DEFINE direct == source_direct_run
  <2>3. pass' = [pass EXCEPT !.step = "start", !.ready = ready, !.direct = direct]
    BY <2>2
  <2>4. ~direct
    BY <2>1
  <2> HIDE DEF direct
  <2>5. pass'.ready = ready /\ ~pass'.direct
    BY <1>1, <2>3, <2>4 DEF TypeOK, PassRecords
  <2>6. ReadyOK'
    BY <1>1, <2>5 DEF ReadyOK, Eligible, Done, Parents
  <2> QED
    BY <1>1, <1>2, <2>5, <2>6, StillWork
<1>5. ASSUME NEW n \in Nodes, SkipOne(n) PROVE Work'
  <2>1. pass' = [pass EXCEPT !.ready = pass.ready \ {n}]
    BY <1>5 DEF SkipOne
  <2>2. pass'.ready \subseteq pass.ready /\ ~pass'.direct /\ pass'.step = pass.step
    BY <1>1, <2>1 DEF TypeOK, PassRecords, Work, Plain
  <2>3. ReadyOK'
    BY <1>1, <2>2 DEF ReadyOK, Work, Done, Parents
  <2> QED
    BY <1>1, <1>2, <2>2, <2>3, StillWork
<1> QED
  BY <1>3, <1>4, <1>5

(* Blocking a node names its cause.                                        *)
LEMMA WorkBlock == ASSUME IInv, Work, NEW n \in Nodes, BlockNode(n) PROVE Work'
<1>1. TypeOK /\ ExecsStep /\ execs' = execs /\ made' = made /\ pending' = pending
      /\ pass' = pass /\ phase' = phase /\ pass.step = "block"
  BY SameExecs DEF IInv, BlockNode
<1>2. /\ node[n].status \in {"waiting", "dirty"}
      /\ \E p \in Parents(n) : node[p].status \in {"failed", "blocked"}
  BY DEF BlockNode, Blockable
<1>3. /\ \A m \in Nodes : m # n => node'[m] = node[m]
      /\ node'[n].status = "blocked" /\ node'[n].error = "upstream"
      /\ node'[n].baseline = node[n].baseline /\ Kept(node[n], node'[n])
  BY <1>1, BlockNodeEffect
<1>4. \A m \in Nodes : PlainNode(node'[m])
  BY <1>3 DEF Work, Plain, PlainNode, Kept
<1>5. \E p \in Parents(n) : ~Moving(p)'
  <2>1. PICK p \in Parents(n) : node[p].status \in {"failed", "blocked"}
    BY <1>2
  <2>2. p \in Nodes /\ node'[p].status \in {"failed", "blocked"}
    BY <1>3, <2>1 DEF Parents
  <2> QED
    BY <2>2 DEF Moving
<1>6. \A m \in Nodes : \/ node'[m] = node[m]
                       \/ /\ node'[m].status \notin {"completed", "running"}
                          /\ Held(m)' => \E p \in Parents(m) : ~Moving(p)'
  BY <1>3, <1>5
<1>7. \A m \in Nodes : Done(m) => Done(m)'
  BY <1>2, <1>3 DEF Done
<1>8. Shown'
  <2> SUFFICES ASSUME NEW e \in RunningExecs PROVE Showing(e)'
    BY <1>1 DEF Shown, RunningExecs
  <2>1. Showing(e) /\ execs[e].node \in Nodes
    BY <1>1, Typed DEF Work, Shown, RunningExecs, ExecRecords
  <2>2. execs[e].node # n
    BY <1>2, <2>1 DEF Showing
  <2> QED
    BY <1>1, <1>3, <2>1, <2>2 DEF Showing
<1>9. ReadyOK' /\ ~pass'.direct /\ phase' # "followup"
  BY <1>1 DEF ReadyOK, Work, Plain
<1> QED
  BY <1>1, <1>4, <1>6, <1>7, <1>8, <1>9, CalmWork

(* A failure, of the worker or of its composition, ends work that had no   *)
(* result.                                                                 *)
LEMMA WorkFail ==
    ASSUME IInv, Work, NEW e \in DOMAIN execs,
           MergerFailed(e) \/ \E why \in {"failed", "interrupted", "composition"} : FinishErr(e, why)
    PROVE  Work'
<1>1. TypeOK /\ made' = made /\ pending' = pending /\ pass' = pass /\ phase' = phase
      /\ pass.step = "idle" /\ e \in RunningExecs
  BY DEF IInv, MergerFailed, FinishErr, RunningExecs
<1>2. ExecsStep
  BY <1>1, MergerFailedAges, FinishErrAges
<1> PICK n \in Nodes : n = execs[e].node
  BY <1>1, Typed DEF ExecRecords
<1>3. /\ \A m \in Nodes : m # n => node'[m] = node[m]
      /\ node'[n].status \in {"failed", "blocked"} /\ node'[n].error # "upstream"
      /\ node'[n].baseline \in {node[n].baseline, NoHead} /\ Kept(node[n], node'[n])
  <2>1. CASE MergerFailed(e)
    BY <1>1, <2>1, MergerFailedEffect
  <2>2. ASSUME NEW why \in {"failed", "interrupted", "composition"}, FinishErr(e, why)
        PROVE  /\ \A m \in Nodes : m # n => node'[m] = node[m]
               /\ node'[n].status \in {"failed", "blocked"} /\ node'[n].error # "upstream"
               /\ node'[n].baseline = NoHead /\ Kept(node[n], node'[n])
    BY <1>1, <2>2, FinishErrEffect
  <2> QED
    BY <2>1, <2>2
<1>4. \A m \in Nodes : PlainNode(node'[m])
  BY <1>3 DEF Work, Plain, PlainNode, Kept
<1>5. \A m \in Nodes : \/ node'[m] = node[m]
                       \/ /\ node'[m].status \notin {"completed", "running"}
                          /\ Held(m)' => \E p \in Parents(m) : ~Moving(p)'
  BY <1>3 DEF Held
<1>6. \A m \in Nodes : Done(m) => Done(m)'
  <2>1. ~Done(n)
    BY <1>1, BusyNotDone DEF Work, Busy
  <2> QED
    BY <1>3, <2>1 DEF Done
<1>7. Shown'
  <2> SUFFICES ASSUME NEW i \in RunningExecs' PROVE Showing(i)'
    BY DEF Shown
  <2>1. i \in RunningExecs /\ execs'[i].node = execs[i].node
        /\ (execs[i].conflict => execs'[i].conflict)
    BY <1>1, <1>2, Going
  <2>2. Showing(i) /\ execs[i].node \in Nodes
    BY <1>1, <2>1, Typed DEF Work, Shown, RunningExecs, ExecRecords
  <2>3. CASE i # e
    <3>1. execs[i].node # n
      BY <1>1, <2>1, <2>3 DEF IInv, OneWriter
    <3> QED
      BY <1>3, <2>1, <2>2, <3>1 DEF Showing
  <2>4. CASE i = e
    <3>1. execs[e] \in ExecRecords /\ execs \in Seq(ExecRecords)
      BY <1>1, Typed DEF TypeOK
    <3>2. ~\E why : FinishErr(e, why)
      <4>1. SUFFICES ASSUME NEW why, FinishErr(e, why) PROVE FALSE
        OBVIOUS
      <4>2. execs' = [execs EXCEPT ![e] = [execs[e] EXCEPT !.status = "failed"]]
        BY <4>1 DEF FinishErr
      <4>3. execs'[e].status = "failed"
        BY <3>1, <4>2 DEF ExecRecords
      <4> QED
        BY <2>4, <4>3 DEF RunningExecs
    <3>3. execs' = [execs EXCEPT ![e] = [execs[e] EXCEPT !.conflict = TRUE]]
          /\ MergerFailed(e)
      BY <3>2 DEF MergerFailed
    <3>4. execs'[e].conflict
      BY <3>1, <3>3 DEF ExecRecords
    <3>5. node'[n].status = "blocked" /\ node'[n].error = "merger"
      BY <1>1, <3>3, MergerFailedEffect
    <3> QED
      BY <2>1, <2>4, <3>4, <3>5 DEF Showing
  <2> QED
    BY <2>3, <2>4
<1>8. ReadyOK' /\ ~pass'.direct /\ phase' # "followup"
  BY <1>1 DEF ReadyOK, Work, Plain
<1>9. pending' \subseteq pending /\ pass.step # "start"
  BY <1>1
<1> QED
  BY <1>1, <1>2, <1>4, <1>5, <1>6, <1>7, <1>8, <1>9, CalmWork

(* The processes end with the backend, and their nodes had no result.      *)
LEMMA WorkCrash == ASSUME IInv, Work, Crash PROVE Work'
<1>1. TypeOK /\ ExecsStep
  BY CrashAges DEF IInv
<1>2. made' = made /\ pending' = pending /\ pass' = IdlePass
      /\ DOMAIN execs' = DOMAIN execs
      /\ \A i \in DOMAIN execs : execs'[i] = IF i \in RunningExecs
                                             THEN [execs[i] EXCEPT !.status = "failed"]
                                             ELSE execs[i]
  BY DEF Crash
<1>3. phase' # "followup"
  <2>1. phase' \in {phase, "publication_failed", "paused"}
    BY DEF Crash
  <2> QED
    BY <2>1 DEF Work, Plain
<1>4. RunningExecs' = {}
  <2>1. ASSUME NEW i \in DOMAIN execs PROVE execs'[i].status # "running"
    <3>1. execs[i] \in ExecRecords
      BY <1>1, Typed
    <3>2. CASE i \in RunningExecs
      BY <1>2, <3>1, <3>2 DEF ExecRecords
    <3>3. CASE i \notin RunningExecs
      BY <1>2, <3>3 DEF RunningExecs
    <3> QED
      BY <3>2, <3>3
  <2> QED
    BY <1>2, <2>1 DEF RunningExecs
<1>5. ASSUME NEW m \in Nodes
      PROVE  /\ PlainNode(node'[m])
             /\ \/ node'[m] = node[m]
                \/ /\ node'[m].status \notin {"completed", "running"}
                   /\ Held(m)' => \E p \in Parents(m) : ~Moving(p)'
             /\ Done(m) => Done(m)'
  <2>1. CASE node'[m] = node[m]
    BY <2>1 DEF Work, Plain, Done
  <2>2. CASE /\ Busy(m) /\ node'[m].status \in {"failed", "blocked"}
             /\ node'[m].error \in {"interrupted", "merger"}
             /\ node'[m].baseline = NoHead /\ Kept(node[m], node'[m])
    <3>1. ~Done(m)
      BY <2>2, BusyNotDone DEF Work
    <3> QED
      BY <2>2, <3>1 DEF Work, Plain, PlainNode, Kept, Held
  <2> QED
    BY <1>1, <2>1, <2>2, CrashEffect DEF Busy
<1>6. Shown' /\ ReadyOK' /\ ~pass'.direct
  BY <1>2, <1>4 DEF Shown, ReadyOK, IdlePass
<1> QED
  BY <1>1, <1>2, <1>3, <1>5, <1>6, CalmWork

(* Resuming requeues what failed; it leaves a composition alone whose      *)
(* Merger failed but whose worker has not returned.                        *)
LEMMA WorkUnpause ==
    ASSUME IInv, Work, NEW roots \in SUBSET Nodes, Unpause(roots), pass.step = "idle",
           \A r \in roots : /\ LatestFailed(r)
                            /\ \/ node[r].status = "failed"
                               \/ node[r].status = "blocked" /\ node[r].error = "composition"
    PROVE  Work'
<1>1. TypeOK /\ ExecsStep /\ execs' = execs /\ made' = made /\ pending' = pending
      /\ pass' = pass /\ phase' = "running"
  BY SameExecs DEF IInv, Unpause
<1>2. \A m \in Nodes :
           \/ node'[m] = node[m]
           \/ /\ \E r \in roots : m \in Downstream(r)
              /\ node[m].status \in {"failed", "blocked"}
              /\ node'[m].status \in {"waiting", "dirty"} /\ node'[m].error = "none"
              /\ node'[m].baseline = NoHead /\ node'[m].shared = node[m].shared
              /\ node'[m].msgs \in {node[m].msgs, <<>>}
              /\ node'[m].recoverDirect => m \in roots /\ execs[Latest(Live(m))].direct
  BY <1>1, UnpauseEffect
<1>3. ASSUME NEW m \in roots PROVE ~execs[Latest(Live(m))].direct
  <2>1. Live(m) # {}
    BY DEF LatestFailed
  <2>2. Latest(Live(m)) \in DOMAIN execs
    BY <1>1, <2>1, ExecSets, LatestIsMax, Typed
  <2> QED
    BY <2>2 DEF Work, Plain
<1>4. ASSUME NEW m \in Nodes
      PROVE  /\ PlainNode(node'[m])
             /\ \/ node'[m] = node[m]
                \/ /\ node'[m].status \notin {"completed", "running"}
                   /\ Held(m)' => \E p \in Parents(m) : ~Moving(p)'
             /\ Done(m) => Done(m)'
  <2>1. PlainNode(node[m])
    BY DEF Work, Plain
  <2>2. CASE node'[m] = node[m]
    BY <2>1, <2>2 DEF Done
  <2>3. CASE /\ node[m].status \in {"failed", "blocked"}
             /\ node'[m].status \in {"waiting", "dirty"}
             /\ node'[m].baseline = NoHead /\ node'[m].shared = node[m].shared
             /\ node'[m].msgs \in {node[m].msgs, <<>>} /\ ~node'[m].recoverDirect
    BY <2>1, <2>3 DEF PlainNode, Held, Done
  <2> QED
    BY <1>2, <1>3, <2>2, <2>3
<1>5. Shown'
  <2> SUFFICES ASSUME NEW e \in RunningExecs PROVE Showing(e)'
    BY <1>1 DEF Shown, RunningExecs
  <2> PICK m \in Nodes : m = execs[e].node
    BY <1>1, Typed DEF RunningExecs, ExecRecords
  <2>1. Showing(e) /\ Busy(m)
    BY DEF Work, Shown, Busy
  <2>2. ASSUME NEW r \in roots, m \in Downstream(r) PROVE node[m].status \notin {"failed", "blocked"}
    <3>1. CASE m = r
      BY <2>1, <2>2, <3>1 DEF Showing
    <3>2. CASE m # r
      <4>1. Done(r)
        BY <2>1, <2>2, <3>2, Above DEF Work
      <4> QED
        BY <2>2, <4>1 DEF Done
    <3> QED
      BY <3>1, <3>2
  <2>3. node'[m] = node[m]
    BY <1>2, <2>2
  <2> QED
    BY <1>1, <2>1, <2>3 DEF Showing
<1>6. ReadyOK' /\ ~pass'.direct /\ phase' # "followup"
  BY <1>1 DEF ReadyOK, Work, Plain
<1>7. pending' \subseteq pending /\ pass.step # "start"
  BY <1>1
<1> QED
  BY <1>1, <1>4, <1>5, <1>6, <1>7, CalmWork

(* A manual resolution happens while nothing runs.                         *)
LEMMA WorkResolve == ASSUME IInv, Work, NEW n \in Nodes, Resolve(n) PROVE Work'
<1>1. TypeOK /\ ExecsStep /\ made' = made /\ pending' = pending /\ pass' = pass
      /\ pass.step = "idle" /\ RunningExecs = {} /\ phase' \in {"paused", "running"}
  BY ResolveAges DEF IInv, Resolve, Spend, PausedOr
<1>2. RunningExecs' = {}
  BY <1>1, Going
<1>3. \A m \in Nodes :
           \/ m \notin Downstream(n) /\ node'[m] = node[m]
           \/ /\ m \in Downstream(n) /\ node'[m].status \in {"waiting", "dirty"}
              /\ node'[m].error = "none" /\ node'[m].baseline = node[m].baseline
              /\ Kept(node[m], node'[m])
  BY <1>1, ResolveEffect
<1>4. \A m \in Nodes : PlainNode(node'[m])
  BY <1>3 DEF Work, Plain, PlainNode, Kept
<1>5. \A m \in Nodes : \/ node'[m] = node[m]
                       \/ /\ node'[m].status \notin {"completed", "running"}
                          /\ Held(m)' => \E p \in Parents(m) : ~Moving(p)'
  BY <1>3 DEF Held
<1>6. ASSUME NEW m \in Nodes, Done(m), ~Done(m)', NEW c \in Consumers(m)
      PROVE  ~Done(c)' /\ ~Busy(c)'
  <2>1. m \in Downstream(n)
    BY <1>3, <1>6 DEF Done
  <2>2. c \in Downstream(n) /\ c \in Nodes
    BY <2>1, DownstreamClosed DEF Consumers
  <2> QED
    BY <1>2, <1>3, <2>2 DEF Done, Busy
<1>7. Shown' /\ ReadyOK' /\ ~pass'.direct /\ phase' # "followup"
  BY <1>1, <1>2 DEF Shown, ReadyOK, Work, Plain
<1>8. pending' \subseteq pending /\ pass.step # "start"
  BY <1>1
<1> QED
  BY <1>1, <1>4, <1>5, <1>6, <1>7, <1>8, CalmWork

(* A repair is applied only when nothing it takes back is still running.   *)
LEMMA WorkDrain ==
    ASSUME IInv, InputsInv, Work, NEW p \in pending, DrainOne(p)
    PROVE  Work'
<1>1. TypeOK /\ ExecsStep /\ execs' = execs /\ made' = made /\ pass.step = "drain"
      /\ pass' = [pass EXCEPT !.todo = pass.todo \ {p.exec}]
  BY SameExecs DEF IInv, DrainOne
<1>2. pass'.step = "drain" /\ ~pass'.direct
  BY <1>1 DEF TypeOK, PassRecords, Work, Plain
<1>3. ReadyOK' /\ pass.step # "start"
  BY <1>1, <1>2 DEF ReadyOK
<1>4. CASE node' = node /\ pending' \subseteq pending /\ phase' = phase
  <2>1. phase' # "followup"
    BY <1>4 DEF Work, Plain
  <2> QED
    BY <1>1, <1>2, <1>3, <1>4, <2>1, StillWork
<1>5. CASE ApplyBatch(p.to, Batch(p)) /\ ~DrainWaits(Batch(p))
  <2>1. p.to \in Nodes /\ Batch(p) \in SUBSET pending /\ pending' \subseteq pending
    BY <1>1, <1>5 DEF TypeOK, FeedbackRecords, Batch, ApplyBatch
  <2>2. CASE UNCHANGED <<node, phase, publication>>
    BY <1>4, <2>1, <2>2
  <2>3. ASSUME \E q \in Batch(p) : ~q.accepted /\ feedback_budget_available(<<q.from, q.to>>),
               phase' = PausedOr("running"),
               \A m \in Nodes :
                 \/ m \notin Downstream(p.to) /\ node'[m] = node[m]
                 \/ /\ m \in Downstream(p.to) /\ node'[m].status \in {"waiting", "dirty"}
                    /\ node'[m].error = "none" /\ node'[m].baseline = NoHead
                    /\ node'[m].msgs = node[m].msgs
                    /\ node'[m].shared => node[m].shared
                    /\ node'[m].recoverDirect = node[m].recoverDirect
        PROVE  Work'
    <3>1. PICK q \in Batch(p) : ~q.accepted /\ feedback_budget_available(<<q.from, q.to>>)
      BY <2>3
    <3>2. q.to = p.to /\ <<q.from, q.to>> \in Feedback
      <4>1. /\ <<q.from, q.to>> \in Feedback /\ execs[q.exec].node = q.from
            /\ <<p.from, p.to>> \in Feedback /\ execs[p.exec].node = p.from
        BY <2>1 DEF InputsInv, Owned
      <4>2. CASE q.exec = p.exec
        <5>1. <<q.from, q.to>>[1] = <<p.from, p.to>>[1]
          BY <4>1, <4>2
        <5>2. <<q.from, q.to>> = <<p.from, p.to>>
          BY <4>1, <5>1, GraphAssumption
        <5> QED
          BY <4>1, <5>2
      <4>3. CASE q.exec # p.exec
        BY <4>1, <4>3 DEF Batch
      <4> QED
        BY <4>2, <4>3
    <3>3. Downstream(p.to) \subseteq feedback_scope(q.from)
      <4>1. <<q.from, q.to>>[1] = q.from /\ <<q.from, q.to>>[2] = p.to
        BY <3>2
      <4> QED
        BY <3>1, <3>2, <4>1 DEF feedback_scope
    <3>4. \A e \in RunningExecs : execs[e].node \notin Downstream(p.to)
      BY <1>5, <3>1, <3>3 DEF DrainWaits
    <3>5. \A m \in Nodes : PlainNode(node'[m])
      BY <2>3 DEF Work, Plain, PlainNode
    <3>6. \A m \in Nodes : \/ node'[m] = node[m]
                           \/ /\ node'[m].status \notin {"completed", "running"}
                              /\ Held(m)' => \E x \in Parents(m) : ~Moving(x)'
      BY <2>3 DEF Held
    <3>7. ASSUME NEW m \in Nodes, Done(m), ~Done(m)', NEW c \in Consumers(m)
          PROVE  ~Done(c)' /\ ~Busy(c)'
      <4>1. m \in Downstream(p.to)
        BY <2>3, <3>7 DEF Done
      <4>2. c \in Downstream(p.to) /\ c \in Nodes
        BY <4>1, DownstreamClosed DEF Consumers
      <4>3. ~Done(c)'
        BY <2>3, <4>2 DEF Done
      <4>4. ~Busy(c)'
        BY <1>1, <3>4, <4>2 DEF Busy, RunningExecs
      <4> QED
        BY <4>3, <4>4
    <3>8. Shown'
      <4> SUFFICES ASSUME NEW e \in RunningExecs PROVE Showing(e)'
        BY <1>1 DEF Shown, RunningExecs
      <4>1. Showing(e) /\ execs[e].node \in Nodes
        BY <1>1, Typed DEF Work, Shown, RunningExecs, ExecRecords
      <4>2. node'[execs[e].node] = node[execs[e].node]
        BY <2>3, <3>4, <4>1
      <4> QED
        BY <1>1, <4>1, <4>2 DEF Showing
    <3>9. phase' # "followup"
      BY <2>3 DEF PausedOr
    <3> QED
      BY <1>1, <1>2, <1>3, <2>1, <3>5, <3>6, <3>7, <3>8, <3>9, CalmWork
  <2> QED
    BY <1>1, <1>5, <2>1, <2>2, <2>3, ApplyBatchEffect
<1> QED
  BY <1>4, <1>5 DEF DrainOne

(* A started node takes its inputs from completed parents, stands in       *)
(* nobody's scope, and gives what was blocked behind it another chance.    *)
LEMMA WorkStart == ASSUME IInv, Work, NEW n \in Nodes, StartOne(n) PROVE Work'
<1>1. TypeOK /\ ExecsStep /\ made' = made /\ pending' = pending
      /\ pass.step = "start" /\ n \in pass.ready
      /\ pass' = [pass EXCEPT !.ready = pass.ready \ {n}, !.started = TRUE]
  BY StartOneAges DEF IInv, StartOne
<1> DEFINE e == Len(execs) + 1
<1>2. /\ DOMAIN execs' = DOMAIN execs \cup {e} /\ e \notin DOMAIN execs
      /\ \A i \in DOMAIN execs :
            /\ Aged(execs[i], execs'[i])
            /\ execs'[i].status = execs[i].status /\ execs'[i].conflict = execs[i].conflict
      /\ execs'[e].node = n /\ execs'[e].status = "running"
      /\ execs'[e].direct = (pass.direct \/ (node[n].continuation /\ node[n].recoverDirect))
      /\ \A p \in Parents(n) : execs'[e].reads[p] = made[p]
  BY <1>1, StartOneRecords
<1> HIDE DEF e
<1>3. /\ RunningExecs' = RunningExecs \cup {e}
      /\ \A i \in RunningExecs : /\ execs'[i].node = execs[i].node
                                 /\ execs'[i].reads = execs[i].reads
                                 /\ execs'[i].conflict = execs[i].conflict
  BY <1>2 DEF RunningExecs, Aged
<1>4. /\ node[n].status \in {"waiting", "dirty"} /\ \A p \in Parents(n) : Done(p)
      /\ \A i \in RunningExecs : execs[i].node # n
      /\ \A p \in pending : n \notin Downstream(p.from)
  BY <1>1 DEF Work, ReadyOK, IInv, PassInv
<1>5. /\ node'[n].status = "running" /\ node'[n].msgs = <<>> /\ node'[n].recoverDirect = FALSE
      /\ node'[n].baseline = node[n].baseline /\ node'[n].shared = node[n].shared
      /\ \A m \in Nodes : m # n =>
            \/ node'[m] = node[m] /\ (m \in Downstream(n) => node[m].status # "blocked")
            \/ /\ m \in Downstream(n) /\ node[m].status = "blocked"
               /\ node'[m].status = "waiting" /\ node'[m].error = "none"
               /\ node'[m].baseline = node[m].baseline /\ Kept(node[m], node'[m])
  BY <1>1, StartOneEffect
<1>6. \A m \in Nodes : Done(m)' <=> Done(m)
  BY <1>4, <1>5 DEF Done
<1>7. \A m \in Nodes : Busy(m)' => Busy(m) \/ m = n
  BY <1>2, <1>3 DEF Busy
<1>8. Plain'
  <2>1. \A m \in Nodes : PlainNode(node'[m])
    BY <1>5 DEF Work, Plain, PlainNode, Kept
  <2>2. ~execs'[e].direct
    BY <1>2 DEF Work, Plain, PlainNode
  <2>3. \A i \in DOMAIN execs' : ~execs'[i].direct
    BY <1>2, <2>2 DEF Work, Plain, Aged
  <2>4. ~pass'.direct
    BY <1>1 DEF TypeOK, PassRecords, Work, Plain
  <2>5. phase' # "followup"
    <3>1. node[n].msgs = <<>> /\ ~node[n].recoverDirect /\ phase # "followup"
      BY DEF Work, Plain, PlainNode
    <3>2. ~((node[n].continuation /\ node[n].recoverDirect)
            \/ \E i \in DOMAIN node[n].msgs : node[n].msgs[i] = "direct")
      BY <3>1
    <3>3. phase' \in {phase, "paused", "running"}
      BY <3>2 DEF StartOne, PausedOr
    <3> QED
      BY <3>1, <3>3
  <2> QED
    BY <2>1, <2>3, <2>4, <2>5 DEF Plain
<1>9. Grounded'
  <2> SUFFICES ASSUME NEW m \in Nodes, Done(m)' \/ Busy(m)', NEW p \in Parents(m)
               PROVE  Done(p)'
    BY DEF Grounded, Parents
  <2>1. Done(p) /\ p \in Nodes
    BY <1>4, <1>6, <1>7 DEF Work, Grounded, Parents
  <2> QED
    BY <1>6, <2>1
<1>10. Shown'
  <2> SUFFICES ASSUME NEW i \in RunningExecs' PROVE Showing(i)'
    BY DEF Shown
  <2>1. CASE i = e
    BY <1>2, <1>5, <2>1 DEF Showing
  <2>2. CASE i \in RunningExecs
    <3> PICK m \in Nodes : m = execs[i].node
      BY <1>1, <2>2, Typed DEF RunningExecs, ExecRecords
    <3>1. Showing(i) /\ Busy(m) /\ m # n
      BY <1>4, <2>2 DEF Work, Shown, Busy
    <3>2. m \notin Downstream(n)
      BY <1>4, <3>1, Above DEF Work, Done
    <3>3. node'[m] = node[m]
      BY <1>5, <3>1, <3>2
    <3> QED
      BY <1>3, <2>2, <3>1, <3>3 DEF Showing
  <2> QED
    BY <1>3, <2>1, <2>2
<1>11. Fresh'
  <2>1. ASSUME NEW i \in RunningExecs', NEW p \in Parents(execs'[i].node)
        PROVE  execs'[i].reads[p] = made'[p]
    <3>1. CASE i = e
      BY <1>1, <1>2, <2>1, <3>1
    <3>2. CASE i \in RunningExecs
      BY <1>1, <1>3, <2>1, <3>2 DEF Work, Fresh
    <3> QED
      BY <1>3, <3>1, <3>2
  <2>2. ASSUME NEW m \in Nodes, Done(m)'
        PROVE  made'[m] \in DOMAIN execs' /\ \A p \in Parents(m) : execs'[made'[m]].reads[p] = made'[p]
    <3>1. made[m] \in DOMAIN execs /\ \A p \in Parents(m) : execs[made[m]].reads[p] = made[p]
      BY <1>6, <2>2 DEF Work, Fresh
    <3>2. made[m] \in DOMAIN execs' /\ execs'[made[m]].reads = execs[made[m]].reads
      BY <1>2, <3>1 DEF Aged
    <3> QED
      BY <1>1, <3>1, <3>2
  <2> QED
    BY <2>1, <2>2 DEF Fresh, Parents
<1>12. Repairing'
  BY <1>5, <1>6 DEF Work, Repairing, Done, Kept
<1>13. Caused'
  <2> SUFFICES ASSUME NEW m \in Nodes, Held(m)' PROVE \E p \in Parents(m) : ~Moving(p)'
    BY DEF Caused, Parents
  <2>1. m # n /\ node'[m] = node[m] /\ m \notin Downstream(n)
    BY <1>5 DEF Held
  <2>2. PICK p \in Parents(m) : ~Moving(p)
    BY <2>1 DEF Work, Caused, Held
  <2>3. p \in Nodes /\ m \in Consumers(p)
    BY DEF Parents, Consumers
  <2>4. p # n
    BY <2>1, <2>3, DownstreamBasics, DownstreamClosed
  <2>5. ~Moving(p)'
    BY <1>5, <2>2, <2>3, <2>4 DEF Moving
  <2> QED
    BY <2>5
<1>14. ReadyOK'
  <2>1. pass'.ready = pass.ready \ {n}
    BY <1>1 DEF TypeOK, PassRecords
  <2>2. ASSUME NEW m \in pass'.ready
        PROVE  node'[m].status \in {"waiting", "dirty"} /\ \A p \in Parents(m) : Done(p)'
    <3>1. m \in Nodes /\ m # n /\ node[m].status \in {"waiting", "dirty"}
          /\ \A p \in Parents(m) : Done(p)
      BY <1>1, <2>1 DEF Work, ReadyOK, TypeOK, PassRecords
    <3>2. node'[m].status \in {"waiting", "dirty"}
      BY <1>5, <3>1
    <3>3. \A p \in Parents(m) : p \in Nodes
      BY DEF Parents
    <3> QED
      BY <1>6, <3>1, <3>2, <3>3
  <2> QED
    BY <2>2 DEF ReadyOK, Parents
<1>15. VerdictHoldsConsumers'
  BY <1>1, <1>2, <1>3, <1>4 DEF Work, VerdictHoldsConsumers
<1> QED
  BY <1>8, <1>9, <1>10, <1>11, <1>12, <1>13, <1>14, <1>15 DEF Work

(* A completion is new to everybody: nothing behind its node runs or is    *)
(* done.                                                                   *)
LEMMA WorkFinish ==
    ASSUME IInv, Work, NEW e \in DOMAIN execs, NEW head \in Heads, NEW accepted \in BOOLEAN,
           FinishOk(e, head, accepted)
    PROVE  Work'
<1>1. TypeOK /\ ExecsStep /\ pass' = pass /\ pass.step = "idle" /\ e \in RunningExecs
      /\ ~execs[e].conflict
  BY FinishOkAges DEF IInv, FinishOk, RunningExecs, MaySucceed
<1> PICK n \in Nodes : n = execs[e].node
  BY <1>1, Typed DEF ExecRecords
<1>2. PlainNode(node[n]) /\ ~execs[e].direct /\ phase # "followup"
  BY DEF Work, Plain
<1>3. phase' = phase /\ made' = [made EXCEPT ![n] = e]
  BY <1>2 DEF FinishOk, PlainNode
<1>4. /\ node'[n].status = "completed" /\ PlainNode(node'[n]) /\ node'[n].feedbackFrom = {}
      /\ \A m \in Nodes : m # n =>
            \/ node'[m] = node[m]
            \/ /\ node[m].status = "completed" /\ node'[m].status = "completed"
               /\ node'[m].baseline = node[m].baseline /\ Kept(node[m], node'[m])
  <2>1. Finishes(n, head)
    BY <1>1, FinishOkEffect
  <2> QED
    BY <1>2, <2>1 DEF Finishes, PlainNode
<1>5. node[n].status = "running" /\ ~Done(n) /\ Busy(n)
  BY <1>1 DEF Work, Shown, Showing, Done, Busy
<1>6. \A m \in Nodes : m # n => (Done(m)' <=> Done(m))
  BY <1>4 DEF Done
<1>7. /\ DOMAIN execs' = DOMAIN execs
      /\ RunningExecs' = RunningExecs \ {e}
      /\ \A i \in DOMAIN execs : execs'[i].node = execs[i].node /\ execs'[i].reads = execs[i].reads
      /\ \A i \in RunningExecs' : execs'[i].conflict = execs[i].conflict /\ execs[i].node # n
  <2>1. execs' = [execs EXCEPT ![e] = [execs[e] EXCEPT !.status = "completed", !.after = head]]
    BY DEF FinishOk
  <2>2. execs[e] \in ExecRecords /\ execs \in Seq(ExecRecords)
    BY <1>1, Typed DEF TypeOK
  <2>3. /\ DOMAIN execs' = DOMAIN execs /\ execs'[e].status = "completed"
        /\ \A i \in DOMAIN execs : i # e => execs'[i] = execs[i]
    BY <2>1, <2>2 DEF ExecRecords
  <2>4. RunningExecs' = RunningExecs \ {e}
    BY <2>3 DEF RunningExecs
  <2>5. \A i \in RunningExecs' : execs'[i].conflict = execs[i].conflict /\ execs[i].node # n
    BY <1>1, <2>3, <2>4 DEF IInv, OneWriter, RunningExecs
  <2> QED
    BY <1>1, <2>3, <2>4, <2>5 DEF ExecsStep, Aged
<1>8. \A m \in Nodes : (Busy(m)' => Busy(m)) /\ (Busy(n)' => FALSE)
  BY <1>7 DEF Busy, RunningExecs
<1>9. \A m \in Nodes : Done(m) \/ Busy(m) => n \notin Parents(m)
  BY <1>5 DEF Work, Grounded
<1>10. n \notin Parents(n)
  BY <1>5, <1>9
<1>11. Plain'
  <2>1. \A m \in Nodes : PlainNode(node'[m])
    BY <1>4 DEF Work, Plain, PlainNode, Kept
  <2>2. \A i \in DOMAIN execs' : ~execs'[i].direct
    BY <1>1, <1>7 DEF ExecsStep, Aged, Work, Plain
  <2> QED
    BY <1>1, <1>2, <1>3, <2>1, <2>2 DEF Work, Plain
<1>12. Grounded'
  <2> SUFFICES ASSUME NEW m \in Nodes, Done(m)' \/ Busy(m)', NEW p \in Parents(m)
               PROVE  Done(p)'
    BY DEF Grounded, Parents
  <2>1. Done(p) /\ p \in Nodes
    BY <1>5, <1>6, <1>8 DEF Work, Grounded, Parents
  <2>2. p # n
    BY <1>5, <2>1
  <2> QED
    BY <1>6, <2>1, <2>2
<1>13. Shown'
  <2> SUFFICES ASSUME NEW i \in RunningExecs' PROVE Showing(i)'
    BY DEF Shown
  <2> PICK m \in Nodes : m = execs[i].node
    BY <1>1, <1>7, Typed DEF RunningExecs, ExecRecords
  <2>1. Showing(i) /\ Busy(m) /\ m # n
    BY <1>7 DEF Work, Shown, Busy
  <2>2. node'[m] = node[m]
    BY <1>4, <2>1 DEF Showing
  <2> QED
    BY <1>7, <2>1, <2>2 DEF Showing, RunningExecs
<1>14. Fresh'
  <2>0. made \in [Nodes -> Nat]
    BY <1>1 DEF TypeOK
  <2>1. ASSUME NEW i \in RunningExecs', NEW p \in Parents(execs'[i].node)
        PROVE  execs'[i].reads[p] = made'[p]
    <3>1. i \in RunningExecs /\ execs'[i].node = execs[i].node /\ execs'[i].reads = execs[i].reads
          /\ execs[i].node \in Nodes
      BY <1>1, <1>7, Typed DEF RunningExecs, ExecRecords
    <3>2. execs[i].reads[p] = made[p]
      BY <2>1, <3>1 DEF Work, Fresh
    <3>3. p # n /\ p \in Nodes
      BY <1>9, <2>1, <3>1 DEF Busy, Parents
    <3> QED
      BY <1>3, <2>0, <3>1, <3>2, <3>3
  <2>2. ASSUME NEW m \in Nodes, Done(m)'
        PROVE  made'[m] \in DOMAIN execs' /\ \A p \in Parents(m) : execs'[made'[m]].reads[p] = made'[p]
    <3>1. CASE m = n
      <4>1. made'[m] = e /\ execs'[e].reads = execs[e].reads /\ e \in DOMAIN execs'
        BY <1>3, <1>7, <2>0, <3>1
      <4>2. \A p \in Parents(n) : execs[e].reads[p] = made[p]
        BY <1>1 DEF Work, Fresh
      <4>3. \A p \in Parents(n) : p # n /\ p \in Nodes
        BY <1>10 DEF Parents
      <4> QED
        BY <1>3, <2>0, <3>1, <4>1, <4>2, <4>3
    <3>2. CASE m # n
      <4>1. Done(m)
        BY <1>6, <2>2, <3>2
      <4>2. made[m] \in DOMAIN execs /\ \A p \in Parents(m) : execs[made[m]].reads[p] = made[p]
        BY <4>1 DEF Work, Fresh
      <4>3. \A p \in Parents(m) : p # n /\ p \in Nodes
        BY <1>9, <4>1 DEF Parents
      <4>4. made'[m] = made[m] /\ \A p \in Parents(m) : made'[p] = made[p]
        BY <1>3, <2>0, <3>2, <4>3
      <4> QED
        BY <1>7, <4>2, <4>4
    <3> QED
      BY <3>1, <3>2
  <2> QED
    BY <2>1, <2>2 DEF Fresh, Parents
<1>15. Repairing'
  BY <1>4, <1>6 DEF Work, Repairing, Done, Kept
<1>16. Caused'
  <2> SUFFICES ASSUME NEW m \in Nodes, Held(m)' PROVE \E p \in Parents(m) : ~Moving(p)'
    BY DEF Caused, Parents
  <2>1. node'[m] = node[m]
    BY <1>4 DEF Held
  <2>2. PICK p \in Parents(m) : ~Moving(p)
    BY <2>1 DEF Work, Caused, Held
  <2>3. p \in Nodes /\ p # n
    BY <1>5, <2>2 DEF Parents, Moving
  <2>4. ~Moving(p)'
    BY <1>4, <2>2, <2>3 DEF Moving
  <2> QED
    BY <2>4
<1>17. ReadyOK'
  BY <1>1 DEF ReadyOK
<1>18. VerdictHoldsConsumers'
  <2> SUFFICES ASSUME NEW p \in pending', NEW i \in RunningExecs',
                      execs'[i].node \in Downstream(p.from)
               PROVE  i < p.exec
    BY DEF VerdictHoldsConsumers
  <2>1. i \in RunningExecs /\ execs'[i].node = execs[i].node /\ execs[i].node # n
        /\ execs[i].node \in Nodes
    BY <1>1, <1>7, Typed DEF RunningExecs, ExecRecords
  <2>2. CASE p \in pending
    BY <2>1, <2>2 DEF Work, VerdictHoldsConsumers
  <2>3. CASE p \notin pending
    <3>1. p.from = n
      BY <1>1, <2>3, VerdictOwned
    <3>2. Done(n)
      BY <2>1, <3>1, Above DEF Work, Busy
    <3> QED
      BY <1>5, <3>2
  <2> QED
    BY <2>2, <2>3
<1> QED
  BY <1>11, <1>12, <1>13, <1>14, <1>15, <1>16, <1>17, <1>18 DEF Work

(* Requests other than messages never undercut work in progress.           *)
LEMMA WorkControl ==
    ASSUME IInv, Work, ControlStep, "intervene" \notin Requests
    PROVE  Work'
<1>1. TypeOK /\ ExecsStep /\ ~\E n \in Nodes : Intervene(n)
  BY ExecutionsAge DEF IInv, Next, Intervene, Spend
<1>2. ASSUME \/ Approve \/ Reject \/ Pause \/ StopAll \/ RetryPublication
             \/ \E n \in Nodes : StopNode(n)
      PROVE  Work'
  <2>1. node' = node /\ made' = made /\ pending' = pending /\ pass' = pass /\ pass.step = "idle"
    BY <1>2 DEF Approve, Reject, Pause, StopAll, RetryPublication, StopNode, Spend
  <2>2. phase' \in {phase, "running", "rejected", "paused", "completed", "publishing"}
    BY <1>2 DEF Approve, Reject, Pause, StopAll, RetryPublication, StopNode
  <2>3. ReadyOK' /\ ~pass'.direct /\ phase' # "followup"
    BY <2>1, <2>2 DEF ReadyOK, Work, Plain
  <2> QED
    BY <1>1, <2>1, <2>3, StillWork
<1>3. ASSUME Resume \/ ResumeAfterIntervention PROVE Work'
  <2>1. PICK roots \in {interrupted_nodes, failed_retry_nodes \cup preparation_failed_nodes} :
          Unpause(roots)
    BY <1>3 DEF Resume, ResumeAfterIntervention
  <2>2. pass.step = "idle"
    BY <1>3 DEF Resume, ResumeAfterIntervention, Spend
  <2>3. /\ roots \in SUBSET Nodes
        /\ \A r \in roots : /\ LatestFailed(r)
                            /\ \/ node[r].status = "failed"
                               \/ node[r].status = "blocked" /\ node[r].error = "composition"
    BY DEF interrupted_nodes, failed_retry_nodes, preparation_failed_nodes
  <2> QED
    BY <2>1, <2>2, <2>3, WorkUnpause
<1> QED
  BY <1>1, <1>2, <1>3, WorkResolve DEF ControlStep

(* Every step without messages keeps the work in progress.                 *)
LEMMA WorkNext ==
    ASSUME IInv, InputsInv, Work, [Next]_vars, "intervene" \notin Requests
    PROVE  Work'
<1>1. CASE UNCHANGED vars \/ Rest \/ PublishStep \/ MergerStarted \/ MergerFinished
  <2>1. node' = node /\ made' = made /\ pending' = pending /\ pass' = pass /\ execs' = execs
    BY <1>1 DEF Rest, vars, run, PublishStep, PublishOk, PublishFail, MergerStarted,
                MergerFinished, PublicationMerger
  <2>2. phase' \in {phase, "completed", "publication_failed", "publishing", "merging"}
    BY <1>1 DEF Rest, vars, run, PublishStep, PublishOk, PublishFail, MergerStarted,
                MergerFinished, PublicationMerger
  <2>3. ReadyOK' /\ ~pass'.direct /\ phase' # "followup" /\ ExecsStep
    BY <2>1, <2>2, SameExecs DEF ReadyOK, Work, Plain, Done
  <2> QED
    BY <2>1, <2>3, StillWork
<1>2. CASE PassStep
  BY <1>2, WorkBooks, WorkBlock, WorkStart, WorkDrain DEF PassStep
<1>3. ASSUME NEW e \in DOMAIN execs, Succeed(e) PROVE Work'
  <2>1. SourceHead \in Heads /\ e \in Heads /\ execs[e].before \in Heads
    BY Typed DEF IInv, ExecRecords, Heads
  <2>2. PICK head \in Heads, accepted \in BOOLEAN : FinishOk(e, head, accepted)
    BY <1>3, <2>1 DEF Succeed
  <2> QED
    BY <2>2, WorkFinish
<1>4. ASSUME NEW e \in DOMAIN execs, Fail(e) \/ MergerFailed(e) PROVE Work'
  BY <1>4, WorkFail DEF Fail
<1> QED
  BY <1>1, <1>2, <1>3, <1>4, WorkControl, WorkCrash DEF Next, WorkerStep

-----------------------------------------------------------------------------
(* What is published                                                       *)

Settled == PublicationPhases \cup {"completed"}

(* A Run that publishes, or is completed, is quiet and has its results,    *)
(* and nothing it still owes has been forgotten.                           *)
Delivering ==
    /\ phase \in Settled => /\ pass.step = "idle" /\ AllCompleted
                            /\ RunningExecs = {} /\ pending = {}
    /\ phase \in PublicationPhases => TerminalHeads \subseteq published \cup publication.heads
    /\ phase = "completed" => TerminalHeads \subseteq published

(* Leaving for a phase in which nothing is settled needs no argument.      *)
LEMMA Unsettled == ASSUME phase' \notin Settled PROVE Delivering'
  BY DEF Delivering, Settled, PublicationPhases

(* A step that only moves a settled Run between its phases.                *)
LEMMA StaysSettled ==
    ASSUME Delivering, phase \in Settled, node' = node, pending' = pending,
           pass'.step = "idle", RunningExecs' \subseteq RunningExecs,
           phase' \in PublicationPhases =>
               TerminalHeads \subseteq published' \cup publication'.heads,
           phase' = "completed" => TerminalHeads \subseteq published'
    PROVE  Delivering'
  BY DEF Delivering, AllCompleted, TerminalHeads

(* The scheduling pass settles a Run only when all its work is done.       *)
LEMMA DeliveringPass == ASSUME IInv, Work, Delivering, PassStep PROVE Delivering'
<1>1. CASE EndPass
  <2>1. phase \notin Settled /\ node' = node /\ execs' = execs /\ pending' = pending
        /\ pass' = IdlePass /\ published' = published /\ phase # "followup"
    BY <1>1 DEF EndPass, Delivering, Work, Plain
  <2>2. AllCompleted => RunningExecs = {}
    BY Typed DEF AllCompleted, Work, Shown, Showing, RunningExecs, IInv, ExecRecords
  <2>3. CASE phase' = phase
    BY <2>1, <2>3, Unsettled
  <2>4. CASE phase' = "needs_attention"
    BY <2>4, Unsettled DEF Settled, PublicationPhases
  <2>5. CASE phase' # phase /\ phase' # "needs_attention"
    <3>1. /\ AllCompleted /\ pending = {}
          /\ \/ /\ phase' = "publishing"
                /\ publication' = [status |-> "publishing", heads |-> Undelivered(TerminalHeads)]
             \/ phase' = "completed" /\ delivered /\ Undelivered(TerminalHeads) = {}
      BY <1>1, <2>1, <2>5 DEF EndPass
    <3>2. RunningExecs' = {} /\ pending' = {} /\ pass'.step = "idle" /\ AllCompleted'
          /\ TerminalHeads' = TerminalHeads
      BY <2>1, <2>2, <3>1 DEF RunningExecs, AllCompleted, IdlePass, TerminalHeads
    <3>3. CASE phase' = "publishing"
      <4>1. publication'.heads = Undelivered(TerminalHeads)
        BY <3>1, <3>3
      <4>2. TerminalHeads \subseteq published' \cup publication'.heads
        BY <2>1, <4>1 DEF Undelivered
      <4> QED
        BY <3>2, <3>3, <4>2 DEF Delivering
    <3>4. CASE phase' = "completed"
      <4>1. TerminalHeads \subseteq published'
        BY <2>1, <3>1, <3>4 DEF Undelivered
      <4> QED
        BY <3>2, <3>4, <4>1 DEF Delivering, PublicationPhases
    <3> QED
      BY <3>1, <3>3, <3>4
  <2> QED
    BY <2>3, <2>4, <2>5
<1>2. CASE BeginPass
  BY <1>2, Unsettled DEF BeginPass, run, Schedulable, Settled
<1>3. ASSUME PassStep, ~BeginPass, ~EndPass PROVE Delivering'
  <2>1. phase \notin Settled
    BY <1>3 DEF PassStep, DrainOne, EndDrain, ChooseReady, BlockNode, StartOne, SkipOne, Delivering
  <2>2. phase' \in {phase, "paused", "running", "followup"}
    <3>1. CASE EndDrain \/ ChooseReady \/ \E n \in Nodes : BlockNode(n) \/ SkipOne(n)
      BY <3>1 DEF EndDrain, ChooseReady, BlockNode, SkipOne, run
    <3>2. ASSUME NEW n \in Nodes, StartOne(n) PROVE phase' \in {phase, "paused", "running", "followup"}
      BY <3>2 DEF StartOne, PausedOr
    <3>3. ASSUME NEW p \in pending, DrainOne(p) PROVE phase' \in {phase, "paused", "running"}
      BY <3>3 DEF DrainOne, ApplyBatch, PausedOr
    <3> QED
      BY <1>3, <3>1, <3>2, <3>3 DEF PassStep
  <2> QED
    BY <2>1, <2>2, Unsettled DEF Settled, PublicationPhases
<1> QED
  BY <1>1, <1>2, <1>3

(* A publication, its retry and its failure account for every head.        *)
LEMMA DeliveringPublish ==
    ASSUME IInv, Delivering,
           PublishStep \/ MergerStarted \/ MergerFinished \/ RetryPublication
    PROVE  Delivering'
<1>1. phase \in PublicationPhases /\ node' = node /\ pending' = pending /\ pass' = pass
      /\ execs' = execs /\ pass.step = "idle"
  BY DEF PublishStep, PublishOk, PublishFail, MergerStarted, MergerFinished, PublicationMerger,
         RetryPublication, Spend, PublicationPhases
<1>2. phase \in Settled /\ TerminalHeads \subseteq published \cup publication.heads
      /\ RunningExecs' = RunningExecs
  BY <1>1 DEF Settled, Delivering, RunningExecs
<1>3. publication \in PublicationRecords
  BY DEF IInv, TypeOK
<1>4. CASE PublishOk
  <2>1. phase' = "completed" /\ published' = published \cup publication.heads
    BY <1>4 DEF PublishOk, DeliveredHeads
  <2> QED
    BY <1>1, <1>2, <2>1, StaysSettled DEF PublicationPhases
<1>5. CASE PublishFail \/ MergerStarted \/ MergerFinished
  <2>1. published' = published /\ \E st : publication' = [publication EXCEPT !.status = st]
    BY <1>5 DEF PublishFail, MergerStarted, MergerFinished, PublicationMerger
  <2>2. publication'.heads = publication.heads /\ phase' # "completed"
    BY <1>3, <1>5, <2>1 DEF PublicationRecords, PublishFail, MergerStarted, MergerFinished,
                           PublicationMerger
  <2> QED
    BY <1>1, <1>2, <2>1, <2>2, StaysSettled
<1>6. CASE RetryPublication
  <2> DEFINE heads == Undelivered(publication.heads)
  <2>1. \/ /\ published' = published \cup publication.heads /\ phase' = "completed"
        \/ /\ publication' = [status |-> "publishing", heads |-> heads]
           /\ phase' = "publishing" /\ published' = published
    BY <1>6 DEF RetryPublication, DeliveredHeads
  <2>2. publication.heads \subseteq published \cup heads
    BY DEF Undelivered
  <2> HIDE DEF heads
  <2>3. CASE phase' = "completed"
    BY <1>1, <1>2, <2>1, <2>3, StaysSettled DEF PublicationPhases
  <2>4. CASE phase' = "publishing"
    <3>1. publication'.heads = heads /\ published' = published
      BY <2>1, <2>4
    <3> QED
      BY <1>1, <1>2, <2>2, <2>4, <3>1, StaysSettled
  <2> QED
    BY <2>1, <2>3, <2>4
<1> QED
  BY <1>4, <1>5, <1>6 DEF PublishStep

(* A crash fails a publication in progress and leaves the rest of a        *)
(* settled Run as it was.                                                  *)
LEMMA DeliveringCrash == ASSUME IInv, Work, Delivering, Crash PROVE Delivering'
<1>1. phase' \in {phase, "paused"} \/ phase \in {"publishing", "merging"}
  BY DEF Crash
<1>2. CASE phase \notin Settled
  BY <1>1, <1>2, Unsettled DEF Settled, PublicationPhases
<1>3. CASE phase \in Settled
  <2>1. RunningExecs = {} /\ pending' = pending /\ pass' = IdlePass /\ published' = published
    BY <1>3 DEF Delivering, Crash
  <2>2. node' = node
    <3>1. \A m \in Nodes : node'[m] = node[m]
      BY <2>1, CrashEffect DEF IInv
    <3>2. DOMAIN node' = Nodes /\ node' = [m \in Nodes |-> node'[m]]
      BY DEF Crash
    <3> QED
      BY <3>1, <3>2 DEF IInv, TypeOK
  <2>3. RunningExecs' = {}
    <3>1. ExecsStep /\ DOMAIN execs' = DOMAIN execs
      BY CrashAges DEF IInv, Crash
    <3> QED
      BY <2>1, <3>1, Going
  <2>4. publication'.heads = publication.heads
    BY DEF Crash, IInv, TypeOK, PublicationRecords
  <2>5. phase' = "completed" => phase = "completed"
    BY <1>1 DEF Crash
  <2>6. phase' \in PublicationPhases => phase \in PublicationPhases
    BY <1>1 DEF PublicationPhases
  <2> QED
    BY <1>3, <2>1, <2>2, <2>3, <2>4, <2>5, <2>6, StaysSettled DEF IdlePass, Delivering
<1> QED
  BY <1>2, <1>3

(* Every step without messages keeps the books of what was delivered.      *)
LEMMA DeliveringNext ==
    ASSUME IInv, Work, Delivering, [Next]_vars, "intervene" \notin Requests
    PROVE  Delivering'
<1>1. CASE UNCHANGED vars \/ Rest
  BY <1>1 DEF Rest, vars, run, Delivering, RunningExecs, AllCompleted, TerminalHeads
<1>2. ASSUME NEW e \in DOMAIN execs, Succeed(e) \/ Fail(e) \/ MergerFailed(e) PROVE Delivering'
  <2>1. phase \notin Settled /\ PlainNode(node[execs[e].node])
    <3>1. e \in RunningExecs
      BY <1>2 DEF Succeed, FinishOk, Fail, FinishErr, MergerFailed, RunningExecs
    <3>2. execs[e].node \in Nodes
      BY Typed DEF IInv, ExecRecords
    <3> QED
      BY <3>1, <3>2 DEF Delivering, Work, Plain
  <2>2. phase' = phase
    BY <1>2, <2>1 DEF Succeed, FinishOk, Fail, FinishErr, MergerFailed, PlainNode
  <2> QED
    BY <2>1, <2>2, Unsettled
<1>3. CASE Approve \/ Reject \/ Pause \/ Resume \/ ResumeAfterIntervention
  <2>1. phase' \in {"running", "rejected", "paused"}
    BY <1>3 DEF Approve, Reject, Pause, Resume, ResumeAfterIntervention, Unpause
  <2> QED
    BY <2>1, Unsettled DEF Settled, PublicationPhases
<1>4. ASSUME NEW n \in Nodes, Resolve(n) PROVE Delivering'
  <2>1. phase' \in {"running", "paused"}
    BY <1>4 DEF Resolve, PausedOr
  <2> QED
    BY <2>1, Unsettled DEF Settled, PublicationPhases
<1>5. ASSUME StopAll \/ \E n \in Nodes : StopNode(n) PROVE Delivering'
  <2>1. node' = node /\ pending' = pending /\ pass' = pass /\ published' = published
        /\ publication' = publication /\ phase' \in {phase, "paused"} /\ ExecsStep
        /\ DOMAIN execs' = DOMAIN execs
    BY <1>5, StopAges DEF StopAll, StopNode, StopExecs, IInv
  <2>2. RunningExecs' \subseteq RunningExecs
    BY <2>1, Going
  <2>3. CASE phase' \notin Settled
    BY <2>3, Unsettled
  <2>4. CASE phase' \in Settled
    <3>1. phase' = phase
      BY <2>1, <2>4 DEF Settled, PublicationPhases
    <3> QED
      BY <2>1, <2>2, <2>4, <3>1, StaysSettled DEF Delivering
  <2> QED
    BY <2>3, <2>4
<1>6. ~\E n \in Nodes : Intervene(n)
  BY DEF Intervene, Spend
<1> QED
  BY <1>1, <1>2, <1>3, <1>4, <1>5, <1>6, DeliveringPass, DeliveringPublish, DeliveringCrash
     DEF Next, WorkerStep, ControlStep

-----------------------------------------------------------------------------
(* The invariant of a Run without messages: what dispatch relies on, the   *)
(* work in progress and the books of the publication.                      *)
LEMMA WorkInvariance ==
    ASSUME "intervene" \notin Requests
    PROVE  Spec => [](InputsInv /\ Work /\ Delivering)
<1>1. Init => InputsInv /\ Work /\ Delivering
  <2> SUFFICES ASSUME Init PROVE InputsInv /\ Work /\ Delivering
    OBVIOUS
  <2>1. /\ execs = <<>> /\ pending = {} /\ pass = IdlePass /\ phase = "awaiting_approval"
        /\ \A n \in Nodes : node[n] = NewNode
    BY DEF Init
  <2>2. RunningExecs = {} /\ \A n \in Nodes : ~Done(n) /\ ~Busy(n) /\ ~Held(n)
    BY <2>1 DEF RunningExecs, Done, Busy, Held, NewNode
  <2>3. Plain
    BY <2>1 DEF Plain, PlainNode, NewNode, IdlePass
  <2>4. Work
    BY <2>1, <2>2, <2>3 DEF Work, Grounded, Shown, Fresh, Repairing, Caused, ReadyOK,
                            VerdictHoldsConsumers, IdlePass
  <2>5. InputsInv
    BY <2>1 DEF InputsInv, Recorded, ParentsRan, ResultsRan, Owned, Done, IdlePass, NewNode
  <2>6. Delivering
    BY <2>1 DEF Delivering, Settled, PublicationPhases
  <2> QED
    BY <2>4, <2>5, <2>6
<1>2. ASSUME IInv, InputsInv /\ Work /\ Delivering, [Next]_vars
      PROVE  (InputsInv /\ Work /\ Delivering)'
  BY <1>2, InputsNext, WorkNext, DeliveringNext
<1> QED
  BY <1>1, <1>2, Invariance, PTL DEF Spec

(* Without messages, running work keeps the inputs it was given, nothing   *)
(* downstream of a queued verdict starts and a repair runs alone, whatever *)
(* fails, is stopped, resolved by hand or lost in a crash: the scheduler   *)
(* looks at direct parents and at feedback scopes only, and that is enough. *)
THEOREM WorkHeld ==
    ASSUME "intervene" \notin Requests
    PROVE  Spec => []WorkIsHeld
<1>1. ASSUME IInv, Work PROVE WorkIsHeld
  <2>1. InputsHold
    <3> SUFFICES ASSUME NEW e \in RunningExecs, NEW p \in Parents(execs[e].node)
                 PROVE  node[p].status = "completed" /\ execs[e].reads[p] = made[p]
      BY DEF InputsHold
    <3>1. execs[e].node \in Nodes /\ Busy(execs[e].node)
      BY <1>1, Typed DEF IInv, RunningExecs, ExecRecords, Busy
    <3> QED
      BY <1>1, <3>1 DEF Work, Grounded, Fresh, Done
  <2>2. RepairIsolated
    <3> SUFFICES ASSUME NEW n \in Nodes, node[n].feedbackFrom # {}, NEW e \in RunningExecs,
                        execs[e].node \in Downstream(n) \ {n}
                 PROVE  FALSE
      BY DEF RepairIsolated
    <3>1. Done(n)
      BY <1>1, Above DEF Work, Busy
    <3> QED
      BY <1>1, <3>1 DEF Work, Repairing
  <2> QED
    BY <1>1, <2>1, <2>2 DEF WorkIsHeld, Work
<1> QED
  BY <1>1, WorkInvariance, Invariance, PTL

(* Without messages, a publication carries final results only: everything  *)
(* is completed and quiet, each result was computed from its parents'      *)
(* current ones, and a completed Run has delivered every terminal head.    *)
THEOREM ResultsDelivered ==
    ASSUME "intervene" \notin Requests
    PROVE  Spec => []DeliversResults
<1>1. ASSUME Work, Delivering PROVE DeliversResults
  <2>1. PublishesFinalResults
    BY <1>1 DEF PublishesFinalResults, Delivering, Settled, PublicationPhases, AllCompleted,
                Work, Fresh, Done
  <2>2. CompletedMeansDelivered
    BY <1>1 DEF CompletedMeansDelivered, Delivering, TerminalHeads
  <2> QED
    BY <2>1, <2>2 DEF DeliversResults
<1> QED
  BY <1>1, WorkInvariance, PTL

(* Without messages, dispatch finds its inputs and no node stays blocked   *)
(* behind parents that are all completed.                                  *)
THEOREM DispatchIsSound ==
    ASSUME "intervene" \notin Requests
    PROVE  Spec => []DispatchSound
<1>1. Work => BlockedHasCause
  BY DEF Work, Caused, Held, Moving, BlockedHasCause
<1> QED
  BY <1>1, WorkInvariance, InputsExist, PTL DEF DispatchSound
=============================================================================
