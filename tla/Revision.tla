------------------------------ MODULE Revision ------------------------------
(***************************************************************************)
(* How the graph of a Run changes: drafts that the user or the Planner     *)
(* replaces before approval, revisions of an approved graph by a Planner   *)
(* turn or by the post-task review, and single nodes that the user adds by *)
(* hand while the Run works (Runtime::edit_draft_graph,                    *)
(* update_draft_graph, revise_graph and add_manual_node).                  *)
(*                                                                         *)
(* A revision keeps the results it does not affect and sends the others    *)
(* back.  Attempts end between the moment a graph is drawn, or a form is   *)
(* filled in, and the moment it is committed; under a form they also start.*)
(* The user pauses, continues and stops the Run, and the Run settles and   *)
(* is published, at any of these moments.                                  *)
(*                                                                         *)
(* A graph is [task, deps, reviews]: the text of each node, the pairs of   *)
(* the dependency edges and those of the feedback edges.  A result is the  *)
(* number of the attempt that made it; 0 is none.  Left to other modules:  *)
(* verdicts and messages (Runtime), directories that attempts share and    *)
(* that a Planner turn writes in (Slots), the parts of a publication, of   *)
(* which "publishing" stands for "merging" too (Publication), launched     *)
(* results (Results) and follow-ups in the source (HistoryEdit).           *)
(***************************************************************************)
EXTENDS Naturals, SequencesExt

CONSTANT Occasions    \* what a behaviour may contain: a set of records
                      \* [graph, drafts, added, starts, turns, forms, fails,
                      \* can]: the first graph, those a draft or a revision
                      \* may bring, the names a form may add, bounds, and
                      \* "pause", "stop", "spoil" (a publication fails),
                      \* "review", "auto", "save", "reject", each but
                      \* "review" and "auto" at most once

(* Where a Run starts: graphs are finite and their dependencies are among  *)
(* their nodes.                                                            *)
ASSUME OccasionsAssumption ==
    \A o \in Occasions :
        /\ DOMAIN o = {"graph", "drafts", "added", "starts", "turns", "forms", "fails", "can"}
        /\ \A g \in o.drafts \cup {o.graph} : IsFiniteSet(DOMAIN g.task)
        /\ o.graph.deps \subseteq (DOMAIN o.graph.task) \X (DOMAIN o.graph.task)

VARIABLES occasion,   \* the part of the occasion that may still happen
          topology,   \* RunState.graph
          member,     \* RunState.nodes: [st, head, rev, cont]
          trials,     \* RunState.executions: [node, task, inputs, st, old,
                      \* halt]: superseded, asked to stop
          stage,      \* [phase, approved, paused, stop, heads, published]:
                      \* stop_requested, the heads of the publication and
                      \* published_heads
          drafting,   \* the Planner turn
          form,       \* a manual node that the user has filled in
          bypassed    \* a draft has replaced a graph that had already run

revisionVars == <<occasion, topology, member, trials, stage, drafting, form, bypassed>>

NewMember == [st |-> "waiting", head |-> 0, rev |-> 0, cont |-> FALSE]
NoTurn == [pc |-> "off"]
NoForm == [open |-> FALSE]
NamesOf(g) == DOMAIN g.task
ParentsIn(g, n) == {e[1] : e \in {d \in g.deps : d[2] = n}}
ReviewsOf(g, n) == {e[2] : e \in {d \in g.reviews : d[1] = n}}
TerminalsOf(g) == NamesOf(g) \ {e[1] : e \in g.deps}
InputsNow(n) == {<<p, member[p].head>> : p \in ParentsIn(topology, n)}
AllDone(ms) == \A n \in DOMAIN ms : ms[n].st = "completed"
RunningTrials == {i \in DOMAIN trials : trials[i].st = "running"}
RunningNodes == {trials[i].node : i \in RunningTrials}
LiveTrials(n) == {i \in DOMAIN trials : trials[i].node = n /\ ~trials[i].old}
Publication == {"publishing", "publication_failed"}
Once(what) == what \in occasion.can /\ occasion' = [occasion EXCEPT !.can = @ \ {what}]

downstream_of(g, n) ==
    LET grow[S \in SUBSET NamesOf(g)] ==
            LET next == S \cup {e[2] : e \in {d \in g.deps : d[1] \in S}}
            IN  IF next = S THEN S ELSE grow[next]
    IN  grow[{n}]

(* compiler::compile: known ends, no cycle, no redundant dependency, and   *)
(* one feedback edge of a node at most, to an ancestor.                    *)
compiles(g) ==
    /\ g.deps \cup g.reviews \subseteq NamesOf(g) \X NamesOf(g)
    /\ \A e \in g.deps : e[1] \notin downstream_of(g, e[2])
    /\ \A e, f \in g.deps : e[1] = f[1] /\ e # f => e[2] \notin downstream_of(g, f[2])
    /\ \A e \in g.reviews : e[1] # e[2] /\ e[1] \in downstream_of(g, e[2])
    /\ \A e, f \in g.reviews : e[1] = f[1] => e = f

(* The nodes whose task, inputs or reviews change, their consumers, and    *)
(* the nodes that are removed.                                             *)
Changed(g) ==
    {n \in NamesOf(g) \cap NamesOf(topology) :
        \/ g.task[n] # topology.task[n]
        \/ ParentsIn(g, n) # ParentsIn(topology, n)
        \/ ReviewsOf(g, n) # ReviewsOf(topology, n)}
revision_affected_Direct(g) == (NamesOf(topology) \ NamesOf(g)) \cup Changed(g)
revision_affected(g) ==
    (NamesOf(topology) \ NamesOf(g)) \cup UNION {downstream_of(g, n) : n \in Changed(g)}

(* EventKind::GraphRevised and ManualGraphRevised.                         *)
RevisedMembers(g, invalidated) ==
    [n \in NamesOf(g) |->
        IF n \notin DOMAIN member THEN NewMember
        ELSE IF n \notin invalidated THEN member[n]
        ELSE IF member[n].st \in {"waiting", "failed", "blocked"}
        THEN [member[n] EXCEPT !.st = "waiting", !.head = 0, !.cont = FALSE]
        ELSE [st |-> "dirty", head |-> 0, rev |-> member[n].rev + 1, cont |-> FALSE]]
Superseded(invalidated) ==
    [i \in DOMAIN trials |-> [trials[i] EXCEPT !.old = @ \/ trials[i].node \in invalidated]]
RevisedStage(g) ==
    IF ~stage.approved THEN [stage EXCEPT !.phase = "awaiting_approval"]
    ELSE IF g = topology THEN stage
    ELSE [stage EXCEPT !.phase = IF stage.paused THEN "paused" ELSE "running"]

(***************************************************************************)
(* Before approval.                                                        *)
(***************************************************************************)
(* EventKind::DraftEdited: every node starts over.                         *)
edit_draft_graph(g) ==
    /\ ~stage.approved /\ stage.phase \in {"rejected", "awaiting_approval"}
    /\ compiles(g)
    /\ topology' = g
    /\ member' = [n \in NamesOf(g) |-> NewMember]
    /\ stage' = [stage EXCEPT !.phase = "awaiting_approval"]
    /\ bypassed' = (bypassed \/ trials # <<>>)
    /\ UNCHANGED trials

(* The driver does not run and no Planner turn is on.                      *)
save_graph ==
    /\ drafting = NoTurn /\ RunningNodes = {} /\ Once("save")
    /\ \E g \in occasion.drafts : edit_draft_graph(g)
    /\ UNCHANGED <<drafting, form>>

approve_graph ==
    /\ drafting = NoTurn /\ stage.phase = "awaiting_approval"
    /\ stage' = [stage EXCEPT !.approved = TRUE, !.phase = "running"]
    /\ UNCHANGED <<occasion, topology, member, trials, drafting, form, bypassed>>

reject_graph ==
    /\ drafting = NoTurn /\ stage.phase = "awaiting_approval" /\ Once("reject")
    /\ stage' = [stage EXCEPT !.approved = FALSE, !.phase = "rejected"]
    /\ UNCHANGED <<topology, member, trials, drafting, form, bypassed>>

(***************************************************************************)
(* The Run at work.                                                        *)
(***************************************************************************)
(* The driver asks for jobs, and settles the Run, only between Planner     *)
(* turns.                                                                  *)
Schedules ==
    /\ drafting = NoTurn /\ stage.approved /\ ~stage.paused
    /\ stage.phase \notin Publication \cup {"completed"}

(* Waiting nodes with a failed or blocked parent are blocked, and then     *)
(* their consumers in turn.                                                *)
Pending(n) == member[n].st \in {"waiting", "dirty"}
ToBlock ==
    LET stuck(S) == {n \in DOMAIN member : Pending(n) /\ \E p \in ParentsIn(topology, n) :
                        p \in S \/ member[p].st \in {"failed", "blocked"}}
        grow[S \in SUBSET DOMAIN member] == IF stuck(S) = S THEN S ELSE grow[stuck(S)]
    IN  grow[{}]
Ready == {n \in DOMAIN member : /\ Pending(n) /\ n \notin RunningNodes
                                /\ \A p \in ParentsIn(topology, n) : member[p].st = "completed"}

(* EventKind::Started: unless it resumes a failed attempt, the new one     *)
(* supersedes those before it; blocked consumers wait again.               *)
Resumes(n) == member[n].cont /\ \E i \in LiveTrials(n) : trials[i].st = "failed"
Trial(n) == [node |-> n, task |-> topology.task[n], inputs |-> InputsNow(n), st |-> "running",
             old |-> FALSE, halt |-> FALSE]
MembersStarted ==
    LET woken == UNION {downstream_of(topology, n) : n \in Ready} IN
    [n \in DOMAIN member |->
        IF n \in Ready THEN [member[n] EXCEPT !.st = "running", !.cont = FALSE]
        ELSE IF n \in ToBlock \/ member[n].st = "blocked"
        THEN [member[n] EXCEPT !.st = IF n \in woken THEN "waiting" ELSE "blocked"]
        ELSE member[n]]
TrialsStarted ==
    [i \in DOMAIN trials |-> [trials[i] EXCEPT !.old = @ \/ \E n \in Ready : trials[i].node = n /\ ~Resumes(n)]]
    \o SetToSeq({Trial(n) : n \in Ready})

(* With no job left the Run settles, or publishes what it has not          *)
(* delivered yet (EventKind::Settled and PublicationStarted).              *)
UndeliveredHeads == {member[n].head : n \in TerminalsOf(topology)} \ stage.published
StageAfterJobs ==
    IF Ready # {} THEN [stage EXCEPT !.phase = IF @ = "needs_attention" THEN "running" ELSE @]
    ELSE IF RunningNodes # {} \/ stage.phase = "needs_attention" THEN stage
    ELSE IF ~AllDone(member) THEN [stage EXCEPT !.phase = "needs_attention"]
    ELSE IF stage.published # {} /\ UndeliveredHeads = {} THEN [stage EXCEPT !.phase = "completed"]
    ELSE [stage EXCEPT !.phase = "publishing", !.paused = FALSE, !.heads = UndeliveredHeads]

(* jobs_with_pending_feedback; graphs of this size never reach the limit   *)
(* of eight workers.                                                       *)
jobs_with_pending_feedback ==
    /\ Schedules /\ Cardinality(Ready) <= occasion.starts
    /\ occasion' = [occasion EXCEPT !.starts = @ - Cardinality(Ready)]
    /\ member' = MembersStarted
    /\ trials' = TrialsStarted
    /\ stage' = StageAfterJobs
    /\ UNCHANGED <<topology, drafting, form, bypassed>>

EndNode(i, status) ==
    /\ trials[i].st = "running"
    /\ trials' = [trials EXCEPT ![i].st = status]
    /\ member' = IF trials[i].old THEN member
                 ELSE [member EXCEPT ![trials[i].node].st = status,
                                     ![trials[i].node].head = IF status = "completed" THEN i ELSE @]
    /\ UNCHANGED <<topology, stage, drafting, form, bypassed>>
NodeFinishes(i) == EndNode(i, "completed") /\ UNCHANGED occasion
NodeFails(i) ==
    /\ \/ trials[i].halt /\ UNCHANGED occasion
       \/ occasion.fails > 0 /\ occasion' = [occasion EXCEPT !.fails = @ - 1]
    /\ EndNode(i, "failed")

(* EventKind::Paused.                                                      *)
Paused(s, paused) ==
    [s EXCEPT !.paused = paused, !.phase = IF paused THEN "paused" ELSE "running",
              !.stop = @ /\ paused]
MayPause == stage.approved /\ stage.phase \notin Publication
Halted == [i \in DOMAIN trials |-> [trials[i] EXCEPT !.halt = @ \/ i \in RunningTrials]]

(* Pause interrupts the attempts that run, and so does Stop, which also    *)
(* cancels the Planner turn.                                               *)
UserPauses ==
    /\ MayPause /\ Once("pause")
    /\ stage' = Paused(stage, TRUE)
    /\ trials' = Halted
    /\ UNCHANGED <<topology, member, drafting, form, bypassed>>
UserStops ==
    /\ Once("stop")
    /\ stage' = [(IF MayPause THEN Paused(stage, TRUE) ELSE stage) EXCEPT !.stop = TRUE]
    /\ trials' = Halted
    /\ drafting' = IF drafting = NoTurn THEN NoTurn ELSE [drafting EXCEPT !.cancelled = TRUE]
    /\ UNCHANGED <<topology, member, form, bypassed>>

(* pause(false) and queue_node_recovery: interrupted nodes are recovered   *)
(* before other failures, and what they blocked with them                  *)
(* (EventKind::RecoveryQueued).                                            *)
FailedNodes == {n \in DOMAIN member : /\ member[n].st = "failed" /\ LiveTrials(n) # {}
                                      /\ trials[Max(LiveTrials(n))].st = "failed"}
InterruptedNodes == {n \in FailedNodes : trials[Max(LiveTrials(n))].halt}
RecoveryRoots ==
    IF InterruptedNodes # {} \/ (stage.paused /\ \E n \in DOMAIN member : Pending(n))
    THEN InterruptedNodes ELSE FailedNodes
RecoveryQueued(roots) ==
    LET scope == UNION {downstream_of(topology, r) : r \in roots}
        has_result(n) == member[n].head # 0 \/ \E i \in LiveTrials(n) : trials[i].st = "completed"
    IN  [n \in DOMAIN member |->
            IF n \in scope /\ member[n].st \in {"failed", "blocked"}
            THEN [member[n] EXCEPT !.st = IF has_result(n) THEN "dirty" ELSE "waiting",
                                   !.cont = n \in roots]
            ELSE member[n]]
UserResumes ==
    /\ MayPause /\ \A i \in RunningTrials : ~trials[i].halt
    /\ member' = RecoveryQueued(RecoveryRoots)
    /\ stage' = Paused(stage, FALSE)
    /\ UNCHANGED <<occasion, topology, trials, drafting, form, bypassed>>

(* The publication ends, or fails and is tried again.                      *)
PublicationCompleted(s) ==
    [s EXCEPT !.phase = "completed", !.paused = FALSE, !.published = @ \cup s.heads]
PublicationEnds ==
    /\ stage.phase = "publishing"
    /\ \/ stage' = PublicationCompleted(stage) /\ UNCHANGED occasion
       \/ Once("spoil") /\ stage' = [stage EXCEPT !.phase = "publication_failed", !.paused = TRUE]
    /\ UNCHANGED <<topology, member, trials, drafting, form, bypassed>>
retry_publication ==
    /\ drafting = NoTurn /\ stage.phase = "publication_failed" /\ RunningNodes = {}
    /\ stage' = IF stage.published # {} /\ stage.heads \subseteq stage.published
                THEN PublicationCompleted(stage)
                ELSE [stage EXCEPT !.phase = "publishing", !.paused = FALSE, !.heads = @ \ stage.published]
    /\ UNCHANGED <<occasion, topology, member, trials, drafting, form, bypassed>>

(***************************************************************************)
(* A Planner turn that revises the graph.                                  *)
(***************************************************************************)
(* The nodes the Planner is told it may not remove.                        *)
unremovable_nodes ==
    IF stage.approved /\ stage.published # {}
    THEN {n \in DOMAIN member : member[n].st = "completed"} ELSE {}

TurnBegins ==
    /\ drafting = NoTurn /\ occasion.turns > 0 /\ stage.phase \notin Publication
    /\ occasion' = [occasion EXCEPT !.turns = @ - 1]
    /\ \E review \in BOOLEAN :
        /\ review => /\ "review" \in occasion.can /\ ~stage.stop
                     /\ stage.approved /\ stage.phase = "completed" /\ AllDone(member)
        /\ stage' = IF review THEN [stage EXCEPT !.phase = "planning"] ELSE stage
        /\ drafting' = [pc |-> "begun", review |-> review, resume |-> FALSE, cancelled |-> FALSE,
                        graph |-> topology, fixed |-> {}]
    /\ UNCHANGED <<topology, member, trials, form, bypassed>>

TurnLaunches ==
    /\ drafting.pc = "begun"
    /\ drafting' = [drafting EXCEPT !.pc = "drawing", !.fixed = unremovable_nodes]
    /\ UNCHANGED <<occasion, topology, member, trials, stage, form, bypassed>>

TurnDraws ==
    /\ drafting.pc = "drawing"
    /\ \E g \in occasion.drafts \cup {topology} :
        /\ compiles(g) /\ drafting.fixed \subseteq NamesOf(g)
        /\ drafting' = [drafting EXCEPT !.pc = "draining", !.graph = g]
    /\ UNCHANGED <<occasion, topology, member, trials, stage, form, bypassed>>

(* The turn pauses the Run until nothing it affects is running; then it    *)
(* releases the Run mutex once more.                                       *)
TurnDrains ==
    /\ drafting.pc = "draining"
    /\ LET busy == stage.approved /\ revision_affected(drafting.graph) \cap RunningNodes # {} IN
        \/ /\ busy /\ ~stage.paused /\ MayPause
           /\ stage' = Paused(stage, TRUE)
           /\ drafting' = [drafting EXCEPT !.resume = TRUE]
        \/ ~busy /\ drafting' = [drafting EXCEPT !.pc = "ready"] /\ UNCHANGED stage
    /\ UNCHANGED <<occasion, topology, member, trials, form, bypassed>>

(* EventKind::PlannerReviewFinished, and the end of the turn's own pause.  *)
ReviewedStage(s, ms, approval_required) ==
    IF approval_required
    THEN [s EXCEPT !.approved = FALSE, !.paused = FALSE, !.phase = "awaiting_approval"]
    ELSE [s EXCEPT !.phase = IF s.stop \/ s.paused THEN "paused"
                             ELSE IF AllDone(ms) THEN "completed" ELSE "running"]
Resumed(s) ==
    IF /\ drafting.resume /\ ~drafting.cancelled /\ ~s.stop
       /\ s.approved /\ s.paused /\ s.phase = "paused"
       /\ \A i \in RunningTrials : ~trials[i].halt
    THEN Paused(s, FALSE) ELSE s

revise_graph(g) ==
    /\ MayPause
    /\ stage.published # {} => {n \in DOMAIN member : member[n].st = "completed"} \subseteq NamesOf(g)
    /\ revision_affected(g) \cap RunningNodes = {}
    /\ member' = RevisedMembers(g, revision_affected(g) \cap NamesOf(g))
    /\ trials' = Superseded(revision_affected(g) \cap NamesOf(g))
    /\ UNCHANGED bypassed
update_draft_graph(g) ==
    /\ ~stage.approved
    /\ member' = RevisedMembers(g, {})
    /\ bypassed' = (bypassed \/ trials # <<>>)
    /\ UNCHANGED trials

TurnCommits ==
    /\ drafting.pc = "ready" /\ ~drafting.cancelled
    /\ LET g == drafting.graph IN
        /\ revise_graph(g) \/ update_draft_graph(g)
        /\ topology' = g
        /\ \E auto \in IF "auto" \in occasion.can THEN BOOLEAN ELSE {FALSE} :
            LET s == [RevisedStage(g) EXCEPT !.stop = FALSE]
                t == IF auto /\ ~s.approved THEN [s EXCEPT !.approved = TRUE, !.phase = "running"] ELSE s
                u == IF drafting.review THEN ReviewedStage(t, member', ~AllDone(member') /\ ~auto) ELSE t
            IN  stage' = Resumed(u)
    /\ drafting' = NoTurn
    /\ UNCHANGED <<occasion, form>>

(* The turn fails, is stopped or its commit is refused; the graph stays.   *)
(* When what the Planner wrote cannot be captured the Run stays paused.    *)
TurnFails ==
    /\ drafting # NoTurn
    /\ \E captured \in BOOLEAN :
        LET safe == IF captured \/ stage.paused \/ ~MayPause THEN stage ELSE Paused(stage, TRUE)
            s == IF drafting.review THEN ReviewedStage(safe, member, FALSE) ELSE safe
        IN  stage' = IF captured THEN Resumed(s) ELSE s
    /\ drafting' = NoTurn
    /\ UNCHANGED <<occasion, topology, member, trials, form, bypassed>>

(***************************************************************************)
(* A node added by hand.                                                   *)
(***************************************************************************)
Tokens == {<<n, member[n].rev, member[n].head>> : n \in {m \in DOMAIN member : member[m].st = "completed"}}

(* The user fills in the form; the results that would be sent back are     *)
(* confirmed as they are then.                                             *)
FillForm ==
    /\ occasion.forms > 0 /\ occasion' = [occasion EXCEPT !.forms = @ - 1]
    /\ \E n \in occasion.added \ NamesOf(topology), confirmed \in {{}, Tokens}, feedback \in BOOLEAN,
          from, to \in SUBSET NamesOf(topology) :
        /\ Cardinality(from) <= 1 /\ Cardinality(to) <= 1 /\ (feedback => to # {})
        /\ form' = [open |-> TRUE, name |-> n, from |-> from, to |-> to, feedback |-> feedback,
                    confirmed |-> confirmed]
    /\ UNCHANGED <<topology, member, trials, stage, drafting, bypassed>>

(* A node put into a direct dependency takes its place.                    *)
WithNode(f) ==
    LET new == f.name
        deps == IF f.feedback THEN topology.deps ELSE topology.deps \ (f.from \X f.to)
    IN  [task |-> [n \in NamesOf(topology) \cup {new} |->
                      IF n = new THEN new ELSE topology.task[n]],
         deps |-> deps \cup (f.from \X {new}) \cup (IF f.feedback THEN {} ELSE {new} \X f.to),
         reviews |-> topology.reviews \cup (IF f.feedback THEN {new} \X f.to ELSE {})]

add_manual_node ==
    /\ form.open /\ drafting = NoTurn /\ stage.phase \notin Publication
    /\ form.name \notin NamesOf(topology) /\ form.from \cup form.to \subseteq NamesOf(topology)
    /\ LET g == WithNode(form)
           affected == revision_affected(g)
           scope == affected \cup (IF form.feedback THEN UNION {downstream_of(g, n) : n \in form.to} ELSE {})
       IN  /\ compiles(g)
           /\ \A token \in Tokens : token[1] \in scope => token \in form.confirmed
           /\ affected \cap RunningNodes = {}
           /\ \/ /\ ~stage.approved /\ trials = <<>>
                 /\ edit_draft_graph(g)
              \/ /\ stage.approved \/ (trials # <<>> /\ stage.phase \in {"rejected", "awaiting_approval"})
                 /\ topology' = g
                 /\ member' = RevisedMembers(g, affected)
                 /\ trials' = Superseded(affected)
                 /\ stage' = RevisedStage(g)
                 /\ UNCHANGED bypassed
    /\ form' = NoForm
    /\ UNCHANGED <<occasion, drafting>>

RevisionInit ==
    /\ occasion \in Occasions
    /\ topology = occasion.graph
    /\ member = [n \in NamesOf(topology) |-> NewMember]
    /\ trials = <<>> /\ drafting = NoTurn /\ form = NoForm /\ bypassed = FALSE
    /\ stage = [phase |-> "awaiting_approval", approved |-> FALSE, paused |-> FALSE,
                stop |-> FALSE, heads |-> {}, published |-> {}]

RevisionNext ==
    \/ save_graph \/ approve_graph \/ reject_graph
    \/ jobs_with_pending_feedback
    \/ \E i \in DOMAIN trials : NodeFinishes(i) \/ NodeFails(i)
    \/ UserPauses \/ UserStops \/ UserResumes
    \/ PublicationEnds \/ retry_publication
    \/ TurnBegins \/ TurnLaunches \/ TurnDraws \/ TurnDrains \/ TurnCommits \/ TurnFails
    \/ FillForm \/ add_manual_node

(***************************************************************************)
(* Properties                                                              *)
(***************************************************************************)
(* A completed node's result comes from its present task and from the      *)
(* present results of its present inputs.                                  *)
UpToDate ==
    ~bypassed => \A n \in DOMAIN member : member[n].st = "completed" =>
        LET x == trials[member[n].head] IN x.task = topology.task[n] /\ x.inputs = InputsNow(n)

(* The graph never changes under a running attempt.                        *)
Undisturbed ==
    \A i \in DOMAIN trials : trials[i].st = "running" =>
        LET n == trials[i].node
        IN  /\ n \in DOMAIN member /\ ~trials[i].old /\ member[n].st = "running"
            /\ trials[i].task = topology.task[n] /\ trials[i].inputs = InputsNow(n)

(* A Run is published and called completed only with every node done.      *)
DeliversAll == stage.phase \in Publication \cup {"completed"} => AllDone(member)

(* A revision leaves alone exactly the nodes whose task, reviews and       *)
(* inputs are the same all the way up; a manual node sends back only       *)
(* results that the user has confirmed; a published result is not removed. *)
Untouched(n) ==
    \A m \in NamesOf(topology') : n \in downstream_of(topology', m) =>
        /\ m \in NamesOf(topology) /\ topology'.task[m] = topology.task[m]
        /\ ParentsIn(topology', m) = ParentsIn(topology, m)
        /\ ReviewsOf(topology', m) = ReviewsOf(topology, m)
RevisesExactly ==
    topology' # topology /\ ~bypassed' =>
        /\ \A n \in NamesOf(topology) \cap NamesOf(topology') :
              IF Untouched(n) THEN member'[n] = member[n] ELSE member'[n].st # "completed"
        /\ form # form' => \A token \in Tokens : token \in form.confirmed \/ Untouched(token[1])
        /\ stage.published # {} => \A token \in Tokens : token[1] \in NamesOf(topology')

(* Graph revisions keep every result that is still right and no other.     *)
RevisionHolds == [](UpToDate /\ Undisturbed /\ DeliversAll) /\ [][RevisesExactly]_revisionVars
=============================================================================
