------------------------------ MODULE Runtime ------------------------------
(***************************************************************************)
(* One Run of Grapher: the event reducer `apply` (backend/src/model.rs),   *)
(* the scheduler and its control operations (backend/src/runtime.rs) and   *)
(* the control API that calls them (backend/src/server.rs), for a          *)
(* committed graph.                                                        *)
(*                                                                         *)
(* Every operation runs under the Run mutex and persists its events before *)
(* it applies them, so an operation is one action.  The exception is the   *)
(* scheduling pass `jobs`: it persists event by event, and a crash can cut *)
(* it anywhere, so it is a sequence of actions that hold the mutex (pass   *)
(* is not idle) and only Crash may interleave with them.                   *)
(*                                                                         *)
(* A head is the commit a node's result is recorded under.  An execution   *)
(* that changes files produces a commit of its own, named by the           *)
(* execution's index; a source-direct follow-up produces the empty head.   *)
(*                                                                         *)
(* An operator whose name has a suffix, such as Available_IgnoresRunning,  *)
(* is a faulty variant of the definition that follows it: a plausible bug  *)
(* that a property of the module has to detect.  Nothing else uses it.     *)
(***************************************************************************)
EXTENDS Integers, Sequences, FiniteSets

CONSTANTS
    Nodes,        \* the graph's nodes
    Deps,         \* dependency edges <<from, to>>
    Feedback,     \* feedback edges <<from, to>>
    MaxParallel,  \* worker slots of this Run (config.max_parallel, at most 8)
    MaxFeedback,  \* config.max_feedback after the runtime's cap
    UserBudget,   \* bound: user requests in a behaviour
    MaxCrashes,   \* bound: backend crashes in a behaviour
    Requests,     \* the kinds of user request this instance explores
    Outcomes      \* the ways a worker may end in this instance

NoHead == 0       \* Option::None
SourceHead == -1  \* Some(""): a source-direct turn records no commit

Downstream(n) ==
    {m \in Nodes : \A S \in SUBSET Nodes :
        (n \in S /\ \A d \in Deps : d[1] \in S => d[2] \in S) => m \in S}

Parents(n) == {p \in Nodes : <<p, n>> \in Deps}
Consumers(n) == {c \in Nodes : <<n, c>> \in Deps}
Terminals == {n \in Nodes : Consumers(n) = {}}
Ancestors(n) == {m \in Nodes : n \in Downstream(m)}

(* What Compiler guarantees of a committed graph.                          *)
ASSUME GraphAssumption ==
    /\ IsFiniteSet(Nodes) /\ Nodes # {}
    /\ Deps \subseteq Nodes \X Nodes /\ Feedback \subseteq Nodes \X Nodes
    /\ \A d \in Deps : d[1] \notin Downstream(d[2])
    /\ \A f \in Feedback : f[1] # f[2] /\ f[1] \in Downstream(f[2])
    /\ \A f, g \in Feedback : f[1] = g[1] => f = g

ASSUME LimitsAssumption ==
    /\ MaxParallel \in 1..8 /\ MaxFeedback \in 0..5
    /\ UserBudget \in Nat /\ MaxCrashes \in Nat
    /\ Requests \subseteq {"reject", "pause", "stop", "stop_node", "resume",
                           "resume_after_intervention", "intervene", "resolve",
                           "retry_publication"}
    /\ Outcomes \subseteq {"changed", "unchanged", "failed", "interrupted", "composition"}

VARIABLES
    node,         \* Snapshot.nodes: the projection of each node
    execs,        \* Snapshot.executions, in dispatch order
    pending,      \* Snapshot.pending_feedback; order counts the attempts that
                  \* had ended when the request was queued
    counts,       \* Snapshot.feedback_counts per feedback edge
    phase, approved, paused, stopRequested,
    publication,  \* heads and status of the current publication record
    published,    \* Snapshot.published_heads
    delivered,    \* published_head.is_some()
    pass,         \* the scheduling pass in progress, if any
    made,         \* ghost: the execution whose work each node's result is
    budget, crashes

run == <<node, execs, pending, counts, phase, approved, paused, stopRequested,
         publication, published, delivered>>
vars == <<run, pass, made, budget, crashes>>

-----------------------------------------------------------------------------
(* Reading the projection                                                  *)

NoPublication == [status |-> "none", heads |-> {}]
IdlePass == [step |-> "idle", todo |-> {}, busy |-> {}, ready |-> {},
             direct |-> FALSE, started |-> FALSE]

Execs(n) == {i \in DOMAIN execs : execs[i].node = n}
RunningExecs == {i \in DOMAIN execs : execs[i].status = "running"}
Live(n) == {i \in Execs(n) : ~execs[i].superseded}

Latest(S) == CHOOSE i \in S : \A j \in S : j <= i

(* latest_node_execution: the newest completed, not superseded attempt.    *)
CompletedExecs(n) == {i \in Live(n) : execs[i].status = "completed"}

(* "waiting", or blocked before it ever ran: invalidation leaves it waiting. *)
Unstarted(n) ==
    node[n].status = "waiting" \/ (node[n].status = "blocked" /\ Execs(n) = {})

Active ==
    \/ phase \in {"publishing", "merging"}
    \/ \E n \in Nodes : node[n].status = "running"

AllCompleted == \A n \in Nodes : node[n].status = "completed"

PausedOr(p) == IF paused THEN "paused" ELSE p

PublicationPhases == {"publishing", "merging", "publication_failed"}

-----------------------------------------------------------------------------
(* Feedback scopes                                                         *)

feedback_budget_available_OneMore(f) == counts[f] <= MaxFeedback

feedback_budget_available(f) == counts[f] < MaxFeedback

feedback_scope(source) ==
    UNION {Downstream(f[2]) : f \in {g \in Feedback : g[1] = source
                                                   /\ feedback_budget_available(g)}}

feedback_scope_has_running(source) ==
    \E n \in feedback_scope(source) : node[n].status = "running"

PendingSources == {p.from : p \in pending}

VerdictOpen(n) ==
    node[n].status \in {"waiting", "dirty", "running"} \/ n \in PendingSources

busy_feedback_nodes_NoPending ==
    UNION {feedback_scope(f[1]) : f \in
              {g \in Feedback : /\ node[g[1]].status \in {"waiting", "dirty", "running"}
                               /\ feedback_scope_has_running(g[1])}}

busy_feedback_nodes_EvenIdle ==
    (UNION {feedback_scope(f[1]) : f \in {g \in Feedback : VerdictOpen(g[1])}})
    \cup (UNION {Downstream(s) : s \in PendingSources})

(* Nodes the scheduler must leave alone: the scopes of verdicts that are   *)
(* still open while part of the scope runs, and every consumer of a review *)
(* whose verdict is queued.                                                *)
busy_feedback_nodes ==
    (UNION {feedback_scope(f[1]) : f \in
              {g \in Feedback : VerdictOpen(g[1]) /\ feedback_scope_has_running(g[1])}})
    \cup (UNION {Downstream(s) : s \in PendingSources})

(* The attempt of `target` that existed when execution e was dispatched.   *)
reviewed_execution(e, target) ==
    LET before == {i \in Execs(target) : i < e /\ execs[i].status # "running"}
    IN  IF before = {} THEN 0 ELSE Latest(before)

feedback_request_is_current(p) ==
    /\ node[p.from].status = "completed" /\ node[p.from].head = p.sourceHead
    /\ node[p.to].revision = p.targetRevision
    /\ IF p.targetExec # 0
       THEN /\ node[p.to].status = "completed"
            /\ CompletedExecs(p.to) # {} /\ Latest(CompletedExecs(p.to)) = p.targetExec
       ELSE node[p.to].head = p.targetHead
    /\ ~execs[p.exec].superseded

-----------------------------------------------------------------------------
(* Workspaces: the nodes whose files an execution's directory carries on.  *)

has_single_consumer(n) == Cardinality(Consumers(n)) = 1

TerminalCarriers(n) ==
    {Latest(CompletedExecs(t)) : t \in {t \in Terminals : CompletedExecs(t) # {}}}
        \cap {i \in DOMAIN execs : n \in execs[i].lineage}

(* terminal_workspace_for(n).is_some(): one terminal directory holds n's   *)
(* result.  Distinct terminals never share a directory.                    *)
SharedTerminal(n) == Cardinality(TerminalCarriers(n)) = 1

(* The session an execution continues: the failed attempt a recovery       *)
(* resumes, or the node's last finished attempt when it has an instruction. *)
ResumeOf(n) ==
    IF node[n].continuation /\ node[n].msgs = <<>>
    THEN {i \in Live(n) : execs[i].status = "failed"}
    ELSE {i \in Execs(n) : node[n].human /\ execs[i].status # "running"}

workspace_lineage(n, direct) ==
    {n} \cup
    IF node[n].feedbackFrom # {} THEN UNION {execs[i].lineage : i \in node[n].feedbackFrom}
    ELSE IF direct THEN {}
    ELSE IF node[n].shared /\ SharedTerminal(n)
    THEN UNION {execs[i].lineage : i \in TerminalCarriers(n)}
    ELSE IF ResumeOf(n) # {} THEN execs[Latest(ResumeOf(n))].lineage
    ELSE IF Cardinality(Parents(n)) > 1 THEN Ancestors(n)
    ELSE UNION {execs[Latest(CompletedExecs(p))].lineage \cup {p} :
                p \in {q \in Parents(n) : has_single_consumer(q) /\ CompletedExecs(q) # {}}}

(* The commit a prepared workspace starts from: a worker that changes no   *)
(* file records it again.                                                  *)
Prepared(n, e, direct) ==
    LET carrier == CHOOSE i \in TerminalCarriers(n) : TRUE
        terminal == node[execs[carrier].node].head
        base == IF node[n].shared /\ SharedTerminal(n)
                THEN IF terminal # NoHead THEN terminal ELSE execs[carrier].after
                ELSE IF node[n].head # NoHead THEN node[n].head
                ELSE IF Cardinality(Parents(n)) = 1
                THEN node[CHOOSE p \in Parents(n) : TRUE].head
                ELSE NoHead
    IN  IF direct THEN SourceHead
        ELSE IF base \in {NoHead, SourceHead} THEN e ELSE base

-----------------------------------------------------------------------------
(* Graph-wide effects of the reducer                                       *)

(* A descendant of a changed result: recomputed from its parents.          *)
Reset(nd, bump) ==
    [nd EXCEPT !.error = "none", !.head = NoHead, !.baseline = NoHead,
               !.human = FALSE, !.feedbackFrom = {},
               !.revision = IF bump THEN @ + 1 ELSE @]

Affected_TargetOnly(n) == {n}

(* What a new result of n makes out of date: n and everything behind it.   *)
Affected(n) == Downstream(n)

Requeued(m) == IF Unstarted(m) THEN "waiting" ELSE "dirty"

(* Failed and Blocked                                                      *)
FailNode(nd, why) ==
    [nd EXCEPT !.status = IF why = "composition" THEN "blocked" ELSE "failed",
               !.error = why, !.baseline = NoHead]

-----------------------------------------------------------------------------
(* Approval                                                                *)

Spend(kind) ==
    /\ pass.step = "idle" /\ kind \in Requests /\ budget > 0
    /\ budget' = budget - 1

Approve ==
    /\ pass.step = "idle" /\ phase = "awaiting_approval"
    /\ approved' = TRUE /\ phase' = "running"
    /\ UNCHANGED <<node, execs, pending, counts, paused, stopRequested, publication,
                   published, delivered, pass, made, budget, crashes>>

Reject ==
    /\ pass.step = "idle" /\ phase = "awaiting_approval" /\ "reject" \in Requests
    /\ phase' = "rejected" /\ approved' = FALSE
    /\ UNCHANGED <<node, execs, pending, counts, paused, stopRequested, publication,
                   published, delivered, pass, made, budget, crashes>>

-----------------------------------------------------------------------------
(* The scheduling pass (jobs_with_pending_feedback)                        *)

Schedulable_RunningOnly == approved /\ ~paused /\ phase = "running"

Schedulable ==
    approved /\ ~paused /\ phase \notin PublicationPhases \cup {"completed"}

BeginPass ==
    /\ pass.step = "idle" /\ Schedulable
    /\ pass' = [IdlePass EXCEPT !.step = "drain",
                                !.todo = {p.exec : p \in pending}]
    /\ UNCHANGED <<run, made, budget, crashes>>

(* resolve_feedback: the requests that repair the same attempt of the same *)
(* target revision are applied as one batch.                               *)
Batch(p) ==
    {q \in pending :
        \/ q.exec = p.exec
        \/ /\ p.targetExec # 0 /\ q.to = p.to /\ q.targetExec = p.targetExec
           /\ q.targetRevision = p.targetRevision /\ feedback_request_is_current(q)}

(* Running work in the scopes of a batch holds it back.  The processes of  *)
(* executions that a rejection dooms are also told to stop: they end soon, *)
(* in any of their outcomes, and a later pass resolves the batch.          *)
DrainWaits(batch) ==
    \/ \E p \in batch : ~p.accepted
          /\ \E e \in RunningExecs : execs[e].node \in feedback_scope(p.from)
    \/ \E p \in batch : feedback_scope_has_running(p.from)

(* The requests of a batch that still have budget are applied: each costs  *)
(* its edge one iteration, the target repairs from the senders' pinned     *)
(* trees and everything downstream of it is recomputed.                    *)
ApplyBatch(to, batch) ==
    LET edge(p) == <<p.from, p.to>>
        applied == {p \in batch : ~p.accepted /\ feedback_budget_available(edge(p))}
        first == CHOOSE p \in applied : \A q \in applied : p.order <= q.order
    IN  /\ pending' = pending \ batch
        /\ counts' = [f \in Feedback |->
              counts[f] + Cardinality({p \in applied : edge(p) = f})]
        /\ IF applied = {} THEN UNCHANGED <<node, phase, stopRequested, publication>>
           ELSE /\ node' = [m \in Nodes |->
                      IF m \notin Affected(to) THEN node[m]
                      ELSE IF m # to
                      THEN [Reset(node[m], FALSE) EXCEPT !.status = Requeued(m)]
                      ELSE [node[m] EXCEPT
                              !.status = Requeued(m), !.error = "none",
                              !.head = first.sourceHead, !.baseline = NoHead,
                              !.human = TRUE, !.shared = FALSE,
                              !.feedbackFrom = {p.exec : p \in applied}]]
                /\ publication' = NoPublication /\ stopRequested' = FALSE
                /\ phase' = PausedOr("running")

(* The requests the pass has yet to look at; one that an earlier batch     *)
(* resolved is no longer pending.                                          *)
ToDrain == {p \in pending : p.exec \in pass.todo}

DrainOne(p) ==
    /\ pass.step = "drain" /\ p \in ToDrain /\ \A q \in ToDrain : p.order <= q.order
    /\ pass' = [pass EXCEPT !.todo = @ \ {p.exec}]
    /\ IF ~feedback_request_is_current(p)
       THEN /\ pending' = pending \ {p}
            /\ UNCHANGED <<node, counts, phase, stopRequested, publication>>
       ELSE IF DrainWaits(Batch(p))
       THEN UNCHANGED <<node, pending, counts, phase, stopRequested, publication>>
       ELSE ApplyBatch(p.to, Batch(p))
    /\ UNCHANGED <<execs, approved, paused, published, delivered, made, budget, crashes>>

EndDrain ==
    /\ pass.step = "drain" /\ ToDrain = {}
    /\ pass' = [pass EXCEPT !.step = "block", !.todo = {}, !.busy = busy_feedback_nodes]
    /\ UNCHANGED <<run, made, budget, crashes>>

Blockable(n) ==
    /\ n \notin pass.busy /\ node[n].status \in {"waiting", "dirty"}
    /\ \E p \in Parents(n) : node[p].status \in {"failed", "blocked"}

BlockNode(n) ==
    /\ pass.step = "block" /\ Blockable(n)
    /\ node' = [node EXCEPT ![n].status = "blocked", ![n].error = "upstream"]
    /\ UNCHANGED <<execs, pending, counts, phase, approved, paused, stopRequested,
                   publication, published, delivered, pass, made, budget, crashes>>

Eligible ==
    {n \in Nodes :
        /\ n \notin pass.busy /\ node[n].status \in {"waiting", "dirty"}
        /\ \A e \in RunningExecs : execs[e].node # n
        /\ \A p \in Parents(n) : node[p].status = "completed"}

RunningNodes == {n \in Nodes : node[n].status = "running"}

Available == IF Cardinality(RunningNodes) >= MaxParallel THEN 0
             ELSE MaxParallel - Cardinality(RunningNodes)

source_direct_run ==
    phase = "followup" \/ \E n \in Nodes : node[n].msgs # <<>> /\ Head(node[n].msgs) = "direct"

ChooseReady ==
    /\ pass.step = "block" /\ \A n \in Nodes : ~Blockable(n)
    /\ \E ready \in SUBSET Eligible :
          /\ \/ ready = Eligible /\ Cardinality(ready) <= Available
             \/ Cardinality(Eligible) > Available /\ Cardinality(ready) = Available
          /\ pass' = [pass EXCEPT !.step = "start", !.ready = ready,
                                  !.direct = source_direct_run]
    /\ UNCHANGED <<run, made, budget, crashes>>

Unblocked(nd) ==
    IF nd.status = "blocked" THEN [nd EXCEPT !.status = "waiting", !.error = "none"] ELSE nd

(* Started                                                                 *)
StartOne(n) ==
    LET nd == node[n]
        e == Len(execs) + 1
        claimed == (nd.continuation /\ nd.recoverDirect)
                   \/ \E i \in DOMAIN nd.msgs : nd.msgs[i] = "direct"
        direct == pass.direct \/ (nd.continuation /\ nd.recoverDirect)
        freshRestart == ResumeOf(n) = {}
        exec == [node |-> n, status |-> "running", after |-> NoHead,
                 before |-> Prepared(n, e, direct), superseded |-> FALSE, stop |-> FALSE,
                 direct |-> direct, claimed |-> claimed, conflict |-> FALSE,
                 lineage |-> workspace_lineage(n, direct),
                 reads |-> [p \in Nodes |-> IF p \in Parents(n) THEN made[p] ELSE 0]]
        old == IF freshRestart
               THEN [i \in DOMAIN execs |-> [execs[i] EXCEPT
                        !.superseded = @ \/ execs[i].node = n]]
               ELSE execs
    IN  /\ pass.step = "start" /\ n \in pass.ready
        /\ pass' = [pass EXCEPT !.ready = @ \ {n}, !.started = TRUE]
        /\ ~(direct /\ \E i \in RunningExecs : execs[i].direct)
        /\ execs' = Append(old, exec)
        /\ node' = [m \in Nodes |->
              IF m = n
              THEN [nd EXCEPT !.status = "running", !.error = "none", !.msgs = <<>>,
                              !.continuation = FALSE, !.recoverDirect = FALSE]
              ELSE IF m \in Downstream(n) THEN Unblocked(node[m]) ELSE node[m]]
        /\ phase' = IF claimed THEN "followup"
                    ELSE IF phase = "needs_attention" THEN PausedOr("running") ELSE phase
        /\ UNCHANGED <<pending, counts, approved, paused, stopRequested, publication,
                       published, delivered, made, budget, crashes>>

(* The source directory has one writer: another source-direct turn waits.  *)
SkipOne(n) ==
    /\ pass.step = "start" /\ n \in pass.ready
    /\ pass.direct \/ (node[n].continuation /\ node[n].recoverDirect)
    /\ \E i \in RunningExecs : execs[i].direct
    /\ pass' = [pass EXCEPT !.ready = @ \ {n}]
    /\ UNCHANGED <<run, made, budget, crashes>>

TerminalHeads == {node[n].head : n \in Terminals}
Undelivered(heads) == IF delivered THEN heads \ published ELSE heads

(* The end of the pass: publish, settle, or leave the Run to its workers.  *)
EndPass ==
    /\ pass.step = "start" /\ pass.ready = {}
    /\ pass' = IdlePass
    /\ IF \/ pending # {} \/ pass.started \/ Active
          \/ phase \in {"completed", "needs_attention"}
       THEN UNCHANGED <<phase, paused, publication>>
       ELSE IF /\ phase # "followup" /\ AllCompleted
               /\ ~delivered \/ Undelivered(TerminalHeads) # {}
       THEN /\ publication' = [status |-> "publishing", heads |-> Undelivered(TerminalHeads)]
            /\ phase' = "publishing" /\ paused' = FALSE
       ELSE /\ phase' = IF AllCompleted THEN "completed" ELSE "needs_attention"
            /\ UNCHANGED <<paused, publication>>
    /\ UNCHANGED <<node, execs, pending, counts, approved, stopRequested, published,
                   delivered, made, budget, crashes>>

-----------------------------------------------------------------------------
(* Workers                                                                 *)

IsFeedbackSource(n) == \E f \in Feedback : f[1] = n
FeedbackTarget(n) == (CHOOSE f \in Feedback : f[1] = n)[2]

MaySucceed_IgnoresStop(e) == ~execs[e].conflict

(* A persisted stop request or composition failure wins over success.      *)
MaySucceed(e) == ~execs[e].stop /\ ~execs[e].conflict

(* Finished, with the verdict of a feedback source queued in the same      *)
(* transaction.                                                            *)
FinishOk(e, head, accepted) ==
    LET n == execs[e].node
        nd == node[n]
        changed == nd.baseline # NoHead /\ nd.baseline # head
        dependents == IF changed /\ ~nd.shared THEN Affected(n) \ {n} ELSE {}
        carried == execs[e].lineage \ {n}
        done == [nd EXCEPT !.status = "completed", !.head = head, !.baseline = NoHead,
                           !.shared = FALSE, !.feedbackFrom = {}]
        to == FeedbackTarget(n)
        verdict == [order |-> Cardinality(DOMAIN execs \ RunningExecs), exec |-> e,
                    from |-> n, to |-> to, sourceHead |-> head,
                    targetRevision |-> node[to].revision,
                    targetExec |-> reviewed_execution(e, to),
                    targetHead |-> IF to \in execs[e].lineage THEN head ELSE node[to].head,
                    accepted |-> accepted]
    IN  /\ pass.step = "idle" /\ execs[e].status = "running" /\ MaySucceed(e)
        /\ execs' = [execs EXCEPT ![e].status = "completed", ![e].after = head]
        /\ node' = [m \in Nodes |->
              IF m = n
              THEN IF nd.msgs = <<>> THEN done
                   ELSE [done EXCEPT !.status = "dirty", !.human = TRUE,
                            !.baseline = IF Head(nd.msgs) = "direct" THEN NoHead ELSE head,
                            !.shared = Head(nd.msgs) = "shared"]
              ELSE IF m \in dependents
              THEN [Reset(node[m], ~Unstarted(m)) EXCEPT !.status = Requeued(m)]
              ELSE IF m \in carried /\ node[m].status = "completed"
              THEN [node[m] EXCEPT !.head = head]
              ELSE node[m]]
        /\ publication' = IF changed THEN NoPublication ELSE publication
        /\ phase' = IF nd.msgs # <<>> /\ Head(nd.msgs) = "direct" THEN "followup" ELSE phase
        /\ pending' = IF IsFeedbackSource(n) THEN pending \cup {verdict} ELSE pending
        /\ made' = IF execs[e].direct \/ nd.shared \/ (nd.baseline # NoHead /\ ~changed)
                   THEN made ELSE [made EXCEPT ![n] = e]
        /\ UNCHANGED <<counts, approved, paused, stopRequested, published, delivered,
                       pass, budget, crashes>>

Succeed(e) ==
    \E changes \in Outcomes \cap {"changed", "unchanged"}, accepted \in BOOLEAN :
        /\ accepted \/ IsFeedbackSource(execs[e].node)
        /\ FinishOk(e, IF execs[e].direct THEN SourceHead
                       ELSE IF changes = "changed" THEN e ELSE execs[e].before, accepted)

(* finish with an error: why is the class the recovery rules read from the *)
(* recorded error text.                                                    *)
FinishErr(e, why) ==
    /\ pass.step = "idle" /\ execs[e].status = "running"
    /\ execs' = [execs EXCEPT ![e].status = "failed"]
    /\ node' = [node EXCEPT ![execs[e].node] = FailNode(@, why)]
    /\ UNCHANGED <<pending, counts, phase, approved, paused, stopRequested, publication,
                   published, delivered, pass, made, budget, crashes>>

Fail(e) ==
    \E why \in {"failed", "interrupted", "composition"} :
        /\ IF execs[e].stop \/ stopRequested THEN why = "interrupted"
           ELSE IF execs[e].conflict THEN why = "composition"
           ELSE /\ why \in Outcomes
                /\ why = "composition" => Cardinality(Parents(execs[e].node)) > 1
        /\ FinishErr(e, why)

(* A composition Merger reports its failure before its worker returns: the *)
(* node is already blocked while the execution still runs.                 *)
MergerFailed(e) ==
    LET n == execs[e].node IN
    /\ pass.step = "idle" /\ execs[e].status = "running" /\ ~execs[e].conflict
    /\ "composition" \in Outcomes /\ Cardinality(Parents(n)) > 1 /\ ~execs[e].direct
    /\ execs' = [execs EXCEPT ![e].conflict = TRUE]
    /\ node' = [node EXCEPT ![n].status = "blocked", ![n].error = "merger"]
    /\ UNCHANGED <<pending, counts, phase, approved, paused, stopRequested, publication,
                   published, delivered, pass, made, budget, crashes>>

-----------------------------------------------------------------------------
(* Control requests                                                        *)

StopExecs_EndsAtOnce(S) ==
    execs' = [i \in DOMAIN execs |->
                 IF i \in RunningExecs /\ execs[i].node \in S
                 THEN [execs[i] EXCEPT !.stop = TRUE, !.status = "failed"] ELSE execs[i]]

StopExecs(S) ==  \* request_execution_stop
    execs' = [i \in DOMAIN execs |->
                 [execs[i] EXCEPT !.stop = @ \/ (i \in RunningExecs /\ execs[i].node \in S)]]

Pausable == approved /\ phase \notin PublicationPhases

Pause ==
    /\ Spend("pause") /\ Pausable
    /\ paused' = TRUE /\ phase' = "paused" /\ StopExecs(Nodes)
    /\ UNCHANGED <<node, pending, counts, approved, stopRequested, publication, published,
                   delivered, pass, made, crashes>>

(* The global stop ignores a refused pause and records the stop anyway.    *)
StopAll ==
    /\ Spend("stop")
    /\ stopRequested' = TRUE /\ StopExecs(Nodes)
    /\ IF Pausable THEN paused' = TRUE /\ phase' = "paused" ELSE UNCHANGED <<paused, phase>>
    /\ UNCHANGED <<node, pending, counts, approved, publication, published, delivered,
                   pass, made, crashes>>

StopNode(n) ==
    /\ Spend("stop_node")
    /\ \E i \in RunningExecs : execs[i].node = n
    /\ StopExecs({n})
    /\ UNCHANGED <<node, pending, counts, phase, approved, paused, stopRequested,
                   publication, published, delivered, pass, made, crashes>>

LatestFailed(n) == Live(n) # {} /\ execs[Latest(Live(n))].status = "failed"

interrupted_nodes ==
    {n \in Nodes : node[n].status = "failed" /\ node[n].error = "interrupted" /\ LatestFailed(n)}

failed_retry_nodes == {n \in Nodes : node[n].status = "failed" /\ LatestFailed(n)}

(* node_has_own_blocked_failure: blocked by its own composition failure.   *)
preparation_failed_nodes ==
    {n \in Nodes : node[n].status = "blocked" /\ node[n].error = "composition" /\ LatestFailed(n)}

(* RecoveryQueued: a retried node continues its failed session; the work   *)
(* blocked behind it is queued again.                                      *)
Recovered(roots) ==
    [n \in Nodes |->
        IF /\ \E r \in roots : n \in Downstream(r)
           /\ node[n].status \in {"failed", "blocked"}
        THEN LET continuation == node[n].msgs = <<>> /\ n \in roots
                 repair == /\ Len(node[n].msgs) = 1 /\ node[n].human
                           /\ Cardinality(node[n].feedbackFrom) > 1
             IN  [node[n] EXCEPT
                    !.status = IF node[n].head # NoHead \/ CompletedExecs(n) # {} THEN "dirty" ELSE "waiting",
                    !.msgs = IF repair THEN <<>> ELSE @,
                    !.error = "none", !.baseline = NoHead, !.continuation = continuation,
                    !.recoverDirect = continuation /\ execs[Latest(Live(n))].direct
                                                   /\ execs[Latest(Live(n))].claimed]
        ELSE node[n]]

Unpause(roots) ==
    /\ Pausable
    /\ \A i \in RunningExecs : ~execs[i].stop
    /\ node' = Recovered(roots)
    /\ paused' = FALSE /\ stopRequested' = FALSE /\ phase' = "running"
    /\ UNCHANGED <<execs, pending, counts, approved, publication, published, delivered,
                   pass, made, crashes>>

(* Resuming interrupted or queued work does not retry unrelated failures.  *)
Resume ==
    LET pausedWork == \/ interrupted_nodes # {}
                      \/ paused /\ \E n \in Nodes : node[n].status \in {"waiting", "dirty"}
    IN  /\ Spend("resume")
        /\ Unpause(IF pausedWork THEN interrupted_nodes
                   ELSE failed_retry_nodes \cup preparation_failed_nodes)

ResumeAfterIntervention ==
    /\ Spend("resume_after_intervention") /\ paused
    /\ Unpause(interrupted_nodes)

source_direct_context(n) ==
    \/ node[n].msgs # <<>> /\ Head(node[n].msgs) = "direct"
    \/ phase \in {"completed", "followup"} /\ node[n].status = "completed"

(* Refuses an update while a downstream node is running.                   *)
validate_invalidation(n) ==
    /\ approved /\ phase \notin PublicationPhases
    /\ \A i \in RunningExecs : execs[i].node # n => execs[i].node \notin Downstream(n)

CanContinue_AnyNode(n) == TRUE

(* The node has a finished attempt whose session a message can continue.   *)
CanContinue(n) == \E i \in Execs(n) : execs[i].after # NoHead \/ execs[i].status = "failed"

(* A message to a node that is not running: Invalidated with human set.    *)
Intervene(n) ==
    LET nd == node[n]
        direct == source_direct_context(n)
        kind == IF direct THEN "direct" ELSE IF SharedTerminal(n) THEN "shared" ELSE "graph"
        msgs == Append(nd.msgs, kind)
        queued == Len(msgs) > 1 /\ nd.status \in {"dirty", "waiting", "blocked"}
        base == [nd EXCEPT !.msgs = msgs, !.error = "none", !.human = TRUE]
    IN  /\ Spend("intervene")
        /\ \A i \in RunningExecs : execs[i].node # n
        /\ CanContinue(n)
        /\ direct \/ validate_invalidation(n)
        /\ stopRequested' = FALSE
        /\ IF queued
           THEN /\ node' = [node EXCEPT ![n].msgs = msgs, ![n].revision = @ + 1]
                /\ UNCHANGED <<phase, publication>>
           ELSE IF direct
           THEN /\ node' = [node EXCEPT ![n] = [base EXCEPT
                       !.status = "dirty", !.revision = @ + 1, !.baseline = NoHead,
                       !.shared = FALSE, !.feedbackFrom = {}]]
                /\ phase' = PausedOr("followup") /\ UNCHANGED publication
           ELSE /\ node' = [node EXCEPT ![n] = [base EXCEPT
                       !.status = Requeued(n), !.shared = kind = "shared",
                       !.revision = IF Unstarted(n) THEN @ ELSE @ + 1,
                       !.baseline = nd.head]]
                /\ phase' = PausedOr("running") /\ publication' = NoPublication
        /\ UNCHANGED <<execs, pending, counts, approved, paused, published, delivered,
                       pass, made, crashes>>

(* The user resolved a blocked composition by hand: WorkspaceResolved.     *)
Resolve(n) ==
    LET e == Latest(Execs(n)) IN
    /\ Spend("resolve") /\ ~Active /\ RunningExecs = {}
    /\ node[n].status = "blocked" /\ Execs(n) # {}
    /\ execs' = [execs EXCEPT ![e].status = "resolved"]
    /\ node' = [m \in Nodes |->
          IF m \notin Affected(n) THEN node[m]
          ELSE IF m = n
          THEN [node[m] EXCEPT !.status = "dirty", !.error = "none", !.head = e,
                               !.revision = @ + 1]
          ELSE [node[m] EXCEPT !.status = Requeued(m), !.error = "none", !.head = NoHead,
                               !.revision = IF Unstarted(m) THEN @ ELSE @ + 1]]
    /\ publication' = NoPublication /\ phase' = PausedOr("running")
    /\ UNCHANGED <<pending, counts, approved, paused, stopRequested, published, delivered,
                   pass, made, crashes>>

-----------------------------------------------------------------------------
(* Publication                                                             *)

(* published_heads accumulates what every publication delivered.           *)
DeliveredHeads == published \cup publication.heads

(* The driver publishes only when no worker is in flight.                  *)
PublishOk ==
    /\ pass.step = "idle" /\ phase \in {"publishing", "merging"} /\ RunningExecs = {}
    /\ published' = DeliveredHeads /\ delivered' = TRUE
    /\ publication' = [publication EXCEPT !.status = "completed"]
    /\ phase' = "completed" /\ paused' = FALSE
    /\ UNCHANGED <<node, execs, pending, counts, approved, stopRequested, pass, made,
                   budget, crashes>>

PublishFail ==
    /\ pass.step = "idle" /\ phase \in {"publishing", "merging"} /\ RunningExecs = {}
    /\ publication' = [publication EXCEPT !.status = "failed"]
    /\ phase' = "publication_failed" /\ paused' = TRUE
    /\ UNCHANGED <<node, execs, pending, counts, approved, stopRequested, published,
                   delivered, pass, made, budget, crashes>>

(* MergerStarted and MergerFinished of the publication Merger.             *)
PublicationMerger(from, to) ==
    /\ pass.step = "idle" /\ phase = from /\ publication.status = from
    /\ phase' = to /\ publication' = [publication EXCEPT !.status = to]
    /\ UNCHANGED <<node, execs, pending, counts, approved, paused, stopRequested, published,
                   delivered, pass, made, budget, crashes>>

MergerStarted == RunningExecs = {} /\ PublicationMerger("publishing", "merging")
MergerFinished == PublicationMerger("merging", "publishing")

RetryPublication ==
    LET heads == Undelivered(publication.heads) IN
    /\ Spend("retry_publication") /\ phase = "publication_failed"
    /\ publication # NoPublication /\ RunningExecs = {}
    /\ IF delivered /\ heads = {}
       THEN /\ published' = DeliveredHeads
            /\ publication' = [publication EXCEPT !.status = "completed"]
            /\ phase' = "completed"
       ELSE /\ publication' = [status |-> "publishing", heads |-> heads]
            /\ phase' = "publishing" /\ UNCHANGED published
    /\ paused' = FALSE
    /\ UNCHANGED <<node, execs, pending, counts, approved, stopRequested, delivered, pass,
                   made, crashes>>

-----------------------------------------------------------------------------
(* The backend dies and the Run is reopened: replay restores the projection *)
(* and recovery closes what the dead process left open.  mergers are the    *)
(* executions whose composition Merger was running.                         *)
Crash ==
    \E mergers \in SUBSET {e \in RunningExecs : Cardinality(Parents(execs[e].node)) > 1
                                             /\ ~execs[e].conflict /\ ~execs[e].direct} :
    /\ crashes < MaxCrashes /\ crashes' = crashes + 1
    /\ mergers = {} \/ "composition" \in Outcomes
    /\ execs' = [i \in DOMAIN execs |->
                    IF i \in RunningExecs THEN [execs[i] EXCEPT !.status = "failed"]
                                          ELSE execs[i]]
    /\ node' = [n \in Nodes |->
          IF \E e \in mergers : execs[e].node = n
          THEN [FailNode(node[n], "interrupted") EXCEPT !.status = "blocked", !.error = "merger"]
          ELSE IF \E e \in RunningExecs : execs[e].node = n
          THEN FailNode(node[n], "interrupted") ELSE node[n]]
    /\ IF phase \in {"publishing", "merging"}
       THEN /\ publication' = [publication EXCEPT !.status = "failed"]
            /\ phase' = "publication_failed" /\ paused' = TRUE
       ELSE /\ UNCHANGED publication
            /\ IF approved /\ phase \notin {"completed", "needs_attention",
                                           "publication_failed", "paused"}
               THEN phase' = "paused" /\ paused' = TRUE
               ELSE UNCHANGED <<phase, paused>>
    /\ pass' = IdlePass
    /\ UNCHANGED <<pending, counts, approved, stopRequested, published, delivered, made, budget>>

-----------------------------------------------------------------------------
NewNode == [status |-> "waiting", revision |-> 1, head |-> NoHead, baseline |-> NoHead,
            error |-> "none", msgs |-> <<>>, human |-> FALSE, continuation |-> FALSE,
            recoverDirect |-> FALSE, shared |-> FALSE, feedbackFrom |-> {}]

Init ==
    /\ node = [n \in Nodes |-> NewNode]
    /\ execs = <<>> /\ pending = {}
    /\ counts = [f \in Feedback |-> 0]
    /\ phase = "awaiting_approval" /\ approved = FALSE /\ paused = FALSE
    /\ stopRequested = FALSE
    /\ publication = NoPublication /\ published = {} /\ delivered = FALSE
    /\ pass = IdlePass
    /\ made = [n \in Nodes |-> 0]
    /\ budget = UserBudget /\ crashes = 0

PassStep ==
    \/ BeginPass \/ (\E p \in pending : DrainOne(p)) \/ EndDrain \/ ChooseReady \/ EndPass
    \/ \E n \in Nodes : BlockNode(n) \/ StartOne(n) \/ SkipOne(n)

WorkerStep == \E e \in DOMAIN execs : Succeed(e) \/ Fail(e)

PublishStep == PublishOk \/ PublishFail

ControlStep ==
    \/ Approve \/ Reject \/ Pause \/ StopAll \/ Resume \/ ResumeAfterIntervention
    \/ RetryPublication
    \/ \E n \in Nodes : StopNode(n) \/ Intervene(n) \/ Resolve(n)

(* Nothing is in progress: the Run waits for its user.                     *)
Rest ==
    /\ pass.step = "idle" /\ RunningExecs = {} /\ phase \notin {"publishing", "merging"}
    /\ ~Schedulable \/ phase = "needs_attention"
    /\ UNCHANGED vars

Next ==
    \/ PassStep \/ WorkerStep \/ PublishStep \/ ControlStep
    \/ \E e \in DOMAIN execs : MergerFailed(e)
    \/ MergerStarted \/ MergerFinished \/ Crash \/ Rest

Spec == Init /\ [][Next]_vars

(* The driver always makes another pass, alternating with the completions  *)
(* it receives; workers and publications end; the user owes nothing.       *)
Fairness ==
    /\ WF_vars(PassStep) /\ SF_vars(WorkerStep) /\ SF_vars(PublishStep)

FairSpec == Spec /\ Fairness

-----------------------------------------------------------------------------
Statuses == {"waiting", "dirty", "running", "completed", "failed", "blocked"}
Phases == {"awaiting_approval", "rejected", "running", "paused", "followup", "publishing",
           "merging", "publication_failed", "completed", "needs_attention"}
Heads == Nat \cup {SourceHead}

NodeRecords(k) ==
    [status : Statuses, revision : Nat, head : Heads, baseline : Heads,
     error : {"none", "failed", "interrupted", "upstream", "composition", "merger"},
     msgs : Seq({"direct", "shared", "graph"}), human : BOOLEAN, continuation : BOOLEAN,
     recoverDirect : BOOLEAN, shared : BOOLEAN, feedbackFrom : SUBSET (1..k)]

ExecRecords ==
    [node : Nodes, status : {"running", "completed", "failed", "resolved"},
     after : Heads, before : Heads, superseded : BOOLEAN, stop : BOOLEAN, direct : BOOLEAN,
     claimed : BOOLEAN, conflict : BOOLEAN, lineage : SUBSET Nodes, reads : [Nodes -> Nat]]

FeedbackRecords(k) ==
    [order : Nat, exec : 1..k, from : Nodes, to : Nodes, sourceHead : Heads,
     targetRevision : Nat, targetExec : Nat, targetHead : Heads, accepted : BOOLEAN]

PublicationRecords ==
    [status : {"none", "publishing", "merging", "failed", "completed"}, heads : SUBSET Heads]

PassRecords ==
    [step : {"idle", "drain", "block", "start"}, todo : SUBSET Nat, busy : SUBSET Nodes,
     ready : SUBSET Nodes, direct : BOOLEAN, started : BOOLEAN]

(* Every variable holds what the projection of model.rs can hold, and what *)
(* refers to an execution refers to one that was dispatched.               *)
TypeOK ==
    /\ node \in [Nodes -> NodeRecords(Len(execs))]
    /\ execs \in Seq(ExecRecords)
    /\ pending \subseteq FeedbackRecords(Len(execs))
    /\ counts \in [Feedback -> Nat]
    /\ phase \in Phases /\ approved \in BOOLEAN /\ paused \in BOOLEAN
    /\ stopRequested \in BOOLEAN /\ delivered \in BOOLEAN
    /\ publication \in PublicationRecords
    /\ published \subseteq Heads
    /\ pass \in PassRecords
    /\ made \in [Nodes -> Nat] /\ budget \in Nat /\ crashes \in Nat

(* No two live executions write the same node's workspace or the source    *)
(* directory, whatever stops, crashes and recoveries came before, and a    *)
(* node shown as running has its execution.                                *)
OneWriter ==
    /\ \A i, j \in RunningExecs :
          i # j => execs[i].node # execs[j].node /\ ~(execs[i].direct /\ execs[j].direct)
    /\ \A n \in RunningNodes : \E i \in RunningExecs : execs[i].node = n

(* The scheduler's lookups cannot fail: a completed node has a result for  *)
(* its consumers, and a node told to continue has a session to continue.   *)
DispatchInputsExist ==
    \A n \in Nodes :
        /\ node[n].status = "completed" => node[n].head # NoHead
        /\ node[n].human => \E i \in Execs(n) : execs[i].status # "running"

(* A worker's inputs stay its parents' current results until it ends.      *)
InputsHold ==
    \A e \in RunningExecs : \A p \in Parents(execs[e].node) :
        node[p].status = "completed" /\ execs[e].reads[p] = made[p]

(* Feedback repairs stay within the edge's budget.                         *)
FeedbackBudget == \A f \in Feedback : counts[f] <= MaxFeedback

(* Nothing downstream of a review starts while its verdict is unresolved.  *)
VerdictHoldsConsumers ==
    \A p \in pending : \A e \in RunningExecs :
        execs[e].node \in Downstream(p.from) => e < p.exec

(* A repair never races the work it invalidated: while a node repairs from *)
(* its reviewers' trees nothing downstream of it runs.                     *)
RepairIsolated ==
    \A n \in Nodes : node[n].feedbackFrom # {} =>
        \A e \in RunningExecs : execs[e].node \notin Downstream(n) \ {n}

(* Publication starts only over a complete, quiet Run, and whatever is     *)
(* published was computed from its parents' current results.               *)
PublishesFinalResults ==
    phase \in {"publishing", "merging"} =>
        /\ \A n \in Nodes : node[n].status = "completed"
        /\ RunningExecs = {} /\ pending = {}
        /\ \A n \in Nodes : \A p \in Parents(n) : execs[made[n]].reads[p] = made[p]

(* A completed Run has delivered every terminal result to the source.      *)
CompletedMeansDelivered ==
    phase = "completed" =>
        \A n \in Terminals : node[n].head \in published \cup {SourceHead}

(* A node blocked by upstream trouble is never left behind: when all its   *)
(* parents are completed nothing would ever unblock it.                    *)
BlockedHasCause ==
    \A n \in Nodes : node[n].status = "blocked" /\ node[n].error = "upstream" =>
        \E p \in Parents(n) : node[p].status # "completed"

(* An attempt the user stopped never becomes a result, and an attempt that *)
(* ended stays ended.                                                      *)
StopWins ==
    [][\A i \in DOMAIN execs :
          /\ execs[i].stop => execs'[i].status # "completed"
          /\ execs[i].status # "running" => execs'[i].status \in {execs[i].status, "resolved"}]_vars

(* An approved Run that is not paused comes to rest: it delivers, or the   *)
(* failure of a node, a composition or its publication asks for the user.  *)
(* It never gives up over work that merely waits for other work.           *)
Settles ==
    (phase = "running") ~>
        \/ phase \in {"completed", "publication_failed"} \/ paused
        \/ phase = "needs_attention"
           /\ \E n \in Nodes : node[n].status = "failed" \/ node[n].error = "composition"

(* A message sent to a node reaches an execution, unless the user pauses   *)
(* the Run or the node is held back by a failure upstream.                 *)
MessagesReachWorkers ==
    \A n \in Nodes :
        (node[n].msgs # <<>>) ~> (node[n].msgs = <<>> \/ paused \/ node[n].status = "blocked")

(* A queued verdict is resolved unless the user pauses the Run.            *)
VerdictsResolve == (pending # {}) ~> (pending = {} \/ paused)

\* Work that is on its way is never undercut: its inputs hold, nothing
\* downstream of an open verdict starts and a repair runs alone.
WorkIsHeld == InputsHold /\ VerdictHoldsConsumers /\ RepairIsolated

\* What is published is the final result of the whole graph, and a Run
\* that says completed has published all of it.
DeliversResults == PublishesFinalResults /\ CompletedMeansDelivered

\* Dispatch keeps its promises to the workers it starts and to the nodes it
\* blocks.
DispatchSound == DispatchInputsExist /\ BlockedHasCause

\* A Run that is not paused gets somewhere: it settles, and so does every
\* verdict in its queue.
RunProgress == Settles /\ VerdictsResolve
=============================================================================
