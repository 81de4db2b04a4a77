-------------------------------- MODULE Slots --------------------------------
(***************************************************************************)
(* The executions of one Run and the physical workspaces (slots) they work *)
(* in: which slot, which inputs and which conversation an execution gets   *)
(* (Runtime::jobs_with_pending_feedback), how the worker prepares, runs    *)
(* and snapshots it (runtime::perform_with_merger), what a failed attempt  *)
(* leaves for its retry, and the Planner, which borrows a slot for a turn  *)
(* and whose writes are captured when the turn ends.                       *)
(*                                                                         *)
(* Data.  A commit is the set of marks in its history: 0 is the approved   *)
(* source, i the work of execution i, PlannerMark(k) the k-th Planner      *)
(* turn.  Ancestry is inclusion and a merge is a union.  A slot is named   *)
(* by the execution it was created for, a conversation by the execution    *)
(* that started it.  A conversation is the sequence of texts it was told:  *)
(* 0 for the node's task, or the number of a human message.                *)
(*                                                                         *)
(* The Run is a Graph Run that has not been published; feedback repairs    *)
(* and edits of earlier turns are left to Runtime.                         *)
(***************************************************************************)
EXTENDS Naturals, Sequences, FiniteSetsExt

CONSTANTS Nodes,      \* the nodes of the graph
          Tales,      \* what a behaviour may contain: a set of records
                      \* [edges, execs, managed, fails, msgs, turns, can]: edges,
                      \* whether the Run has a managed environment, bounds on
                      \* executions, failures, messages, Planner turns, and the
                      \* events "conflict", "commit", "move", "crash", "resolve"
          MaxExecs    \* the largest bound on executions of any tale

VARIABLES tale,       \* the part of the tale that may still happen
          node,       \* RunState.nodes
          execs,      \* RunState.executions, in order of their start
          retired,    \* superseded_execution_ids
          job,        \* job[i]: the Job of a running execution, else NoJob
          slot,       \* slot[p]: the directory, its Git HEAD, the files not
                      \* committed, whether HEAD has a recorded view, and
                      \* whether a merge stopped in a conflict
          file,       \* file[i]: the conversation execution i started
          pinned,     \* snapshots kept under refs/grapher/heads
          origin,     \* latest_source_head
          plan        \* the Planner turn

slotVars == <<tale, node, execs, retired, job, slot, file, pinned, origin, plan>>

Ids == 1..MaxExecs
NoJob == [pc |-> "none"]
NoFile == [cwd |-> 0, told |-> <<>>]
NoSlot == [there |-> FALSE, head |-> {}, dirt |-> {}, rec |-> FALSE, merge |-> FALSE]
PlannerMark(k) == 100 + k
LastOf(S) == IF S = {} THEN 0 ELSE Max(S)
Of(n) == {i \in DOMAIN execs : execs[i].node = n}
Live == {i \in DOMAIN execs : execs[i].st = "running"}
Parents_of(n) == {p \in Nodes : <<p, n>> \in tale.edges}
Terminal(n) == ~\E m \in Nodes : <<n, m>> \in tale.edges
has_single_child(n) == Cardinality({m \in Nodes : <<n, m>> \in tale.edges}) = 1

(* compiler::downstream and Runtime::dependency_ancestors: reflexive.      *)
Closure(n, edges) ==
    LET grow[k \in Nat] ==
            IF k = 0 THEN {n}
            ELSE grow[k - 1] \cup {e[2] : e \in {d \in edges : d[1] \in grow[k - 1]}}
    IN  grow[Cardinality(Nodes)]
Below(n) == Closure(n, tale.edges)
dependency_ancestors(n) == Closure(n, {<<e[2], e[1]>> : e \in tale.edges})

latest_node_execution(n) ==
    LastOf({i \in Of(n) : execs[i].st = "completed" /\ i \notin retired})

(* Runtime::terminal_workspace_for: the latest execution of the terminal   *)
(* nodes whose workspace carries n, if they agree on one slot.             *)
terminal_execution(n) ==
    LET carriers == {i \in {latest_node_execution(m) : m \in {t \in Nodes : Terminal(t)}} \ {0} :
                        n \in execs[i].line}
    IN  IF \E i, k \in carriers : execs[i].slot # execs[k].slot THEN 0 ELSE LastOf(carriers)

path_is_running(p) == \E i \in Live : execs[i].slot = p
workspace_has_head(p, head) == slot[p].there /\ slot[p].head = head

(* Runtime::workspace_reserved without feedback, with best_effort managed  *)
(* environments; `owner` is the node asking, or "" for nobody.             *)
workspace_reserved(p, owner) ==
    \/ path_is_running(p)
    \/ /\ tale.managed
       /\ \/ /\ ~(/\ owner # "" /\ node[owner].shared
                  /\ terminal_execution(owner) # 0
                  /\ execs[terminal_execution(owner)].slot = p)
             /\ \E n \in Nodes \ {owner} :
                    node[n].st = "completed" /\ Terminal(n) /\ node[n].res = p
          \/ \E i \in DOMAIN execs :
                /\ execs[i].st = "failed" /\ execs[i].slot = p
                /\ execs[i].node # owner /\ node[execs[i].node].st = "failed"

existing_workspace_paths == {p \in Ids : slot[p].there}
idle_workspaces == {p \in existing_workspace_paths : ~workspace_reserved(p, "")}

-----------------------------------------------------------------------------
(* Which conversation an attempt continues.                                *)
session_missing(i) == file[execs[i].sess] = NoFile
InSession(i) == {k \in Of(execs[i].node) : execs[k].sess = execs[i].sess}
no_unfinished_activity(i) ==
    LET done == LastOf({k \in InSession(i) : execs[k].st = "completed"})
    IN  \A k \in InSession(i) : k > done => ~execs[k].live
no_session_activity(i) ==
    no_unfinished_activity(i) /\ \A k \in InSession(i) : execs[k].st # "completed"
has_completed_history(n) == latest_node_execution(n) # 0

(* Snapshot::execution_is_preparation_only: the session could not be opened*)
(* or the attempt never reached Prepared.                                  *)
execution_is_preparation_only(i) ==
    /\ execs[i].st = "failed" /\ ~execs[i].live
    /\ execs[i].cause = "session" \/ ~execs[i].prep

Continues(n) == node[n].cont /\ node[n].queue = <<>>

(* The earlier execution whose session and workspace the next attempt takes*)
(* up, 0 for none.                                                         *)
resume(n) ==
    IF Continues(n)
    THEN LastOf({i \in Of(n) : execs[i].st = "failed" /\ i \notin retired})
    ELSE IF node[n].human THEN LastOf({i \in Of(n) : execs[i].st # "running"}) ELSE 0

unstarted_followup(n) ==
    LET i == resume(n)
    IN  /\ Continues(n) /\ node[n].human /\ node[n].instr # 0 /\ i # 0
        /\ ~session_missing(i) /\ execution_is_preparation_only(i)
        /\ no_unfinished_activity(i) /\ has_completed_history(n)

(* Nothing was ever said in the session of the failed attempt i.           *)
Unsaid(i) ==
    /\ execs[i].st = "failed" /\ session_missing(i)
    /\ no_session_activity(i) /\ ~has_completed_history(execs[i].node)

failed_before_session(n) == node[n].human /\ resume(n) # 0 /\ Unsaid(resume(n))

(* The task is sent (again) into the retained session slot.                *)
initial_recovery(n) ==
    LET i == resume(n)
        stopped_recovery == /\ Continues(n) /\ execs[i].cause = "stopped" /\ ~node[n].human
                            /\ \A k \in Of(n) : ~execs[k].live /\ execs[k].st # "completed"
                            /\ session_missing(i)
        preparation_recovery ==
            tale.managed /\ execution_is_preparation_only(i) /\ Unsaid(i)
        missing_initial_session ==
            Continues(n) /\ execs[i].cause \notin {"stopped", "interrupted"} /\ Unsaid(i)
    IN  i # 0 /\ (stopped_recovery \/ failed_before_session(n)
                  \/ preparation_recovery \/ missing_initial_session)

continuation(n) == Continues(n) /\ ~initial_recovery(n) /\ ~unstarted_followup(n)

(* The last prepared attempt of the failed session, in its own slot: its   *)
(* partial work is continued in place.  A result in between ends the reach.*)
preserved_workspace(n) ==
    LET i == resume(n)
        same == {k \in InSession(i) : execs[k].slot = execs[i].slot /\ k \notin retired}
        since == {k \in same : \A m \in same : m >= k => execs[m].st = "failed"}
    IN  IF i = 0 \/ execs[i].st # "failed" THEN 0
        ELSE LastOf({k \in since : execs[k].prep})

(* What the agent is told; <<>> with `continuation` resumes the unfinished *)
(* turn without a new prompt.                                              *)
task_text(n) ==
    LET w == node[n]
        queued == [k \in DOMAIN w.queue |-> w.queue[k].msg]
        followup == IF w.instr # 0 /\ \A k \in DOMAIN queued : queued[k] # w.instr
                    THEN <<w.instr>> \o queued ELSE queued
    IN  IF unstarted_followup(n) THEN <<w.instr>>
        ELSE IF failed_before_session(n) THEN <<0>> \o followup
        ELSE IF queued # <<>> THEN (IF resume(n) = 0 THEN <<0>> \o queued ELSE followup)
        ELSE IF continuation(n) THEN <<>>
        ELSE IF w.instr = 0 THEN <<0>>
        ELSE IF w.human THEN <<w.instr>> ELSE <<0, w.instr>>

-----------------------------------------------------------------------------
(* Where an attempt works: [slot, inherit, before, line].                  *)
fresh_path == Len(execs) + 1
SourceOr(head) == IF head = {} THEN origin ELSE head
IdleOr(p) == IF idle_workspaces = {} THEN {p} ELSE idle_workspaces

(* A slot the node had before: itself if it is free and there, else an idle*)
(* one, else the old name (free) or a new one (busy).                      *)
OwnPlaces(n, p, before, line) ==
    IF workspace_reserved(p, n)
    THEN {[slot |-> q, inherit |-> FALSE, before |-> before, line |-> line] :
              q \in IdleOr(fresh_path)}
    ELSE IF slot[p].there
    THEN {[slot |-> p, inherit |-> workspace_has_head(p, before), before |-> before,
           line |-> line]}
    ELSE {[slot |-> q, inherit |-> FALSE, before |-> before, line |-> line] : q \in IdleOr(p)}

(* A node's first attempt, or one computed anew: it takes over the slot of *)
(* a parent it is the only consumer of, else an idle one, else a new one.  *)
HandedPlaces(n, before) ==
    LET ran == {latest_node_execution(p) : p \in Parents_of(n)} \ {0}
        single == {i \in ran : has_single_child(execs[i].node)}
        free == {i \in single : ~workspace_reserved(execs[i].slot, n)}
        there == {i \in free : slot[execs[i].slot].there}
        many == Cardinality(ran) > 1
        from(i) == IF many THEN dependency_ancestors(n)
                   ELSE execs[i].line \cup {execs[i].node}
        place(i, q) ==
            [slot |-> q, before |-> before, line |-> from(i),
             inherit |-> Cardinality(Parents_of(n)) = 1
                         /\ workspace_has_head(q, SourceOr(node[execs[i].node].head))]
    IN  IF there # {} THEN {place(i, execs[i].slot) : i \in there}
        ELSE IF free # {} THEN UNION {{place(i, q) : q \in IdleOr(execs[i].slot)} : i \in free}
        ELSE {[slot |-> q, inherit |-> FALSE, before |-> before,
               line |-> IF many THEN dependency_ancestors(n)
                        ELSE UNION {from(i) : i \in single}] : q \in IdleOr(fresh_path)}

worktrees(n) ==
    LET i == resume(n)
        t == IF node[n].shared THEN terminal_execution(n) ELSE 0
        keep == preserved_workspace(n)
        before == IF keep # 0 THEN execs[keep].before ELSE SourceOr(node[n].head)
    IN  IF t # 0 THEN OwnPlaces(n, execs[t].slot, SourceOr(node[execs[t].node].head),
                                execs[t].line)
        ELSE IF i # 0 THEN OwnPlaces(n, execs[i].slot, before, execs[i].line)
        ELSE HandedPlaces(n, before)

(* The conversation is forked when the attempt works in another slot.      *)
session_fork(n, p) ==
    IF resume(n) # 0 /\ ~initial_recovery(n) /\ execs[resume(n)].slot # p
    THEN resume(n) ELSE 0

(* Environments: the failed partial view of a managed Run must still be in *)
(* the slot the attempt gets.                                              *)
environment_lost(n, p) ==
    LET i == resume(n)
    IN  tale.managed /\ i # 0 /\ execs[i].st = "failed"
        /\ (execs[i].slot # p \/ ~slot[execs[i].slot].there)

-----------------------------------------------------------------------------
(* A recorded event of execution i ends the Planner's hold on its last     *)
(* selection, unless it is about that very execution.                      *)
Noted(i) == [plan EXCEPT !.newer = @ \/ (plan.last # 0 /\ i # plan.last)]
Unlocked == plan.pc # "capture"

ready(n) == /\ node[n].st \in {"waiting", "dirty"}
            /\ \A i \in Of(n) : execs[i].st # "running"
            /\ \A p \in Parents_of(n) : node[p].st = "completed"

(* EventKind::Started.                                                     *)
Started(n, fresh) ==
    /\ node' = [m \in Nodes |->
          IF m = n THEN [node[n] EXCEPT !.st = "running", !.cont = FALSE, !.queue = <<>>]
          ELSE IF m \in Below(n) /\ node[m].st = "blocked"
          THEN [node[m] EXCEPT !.st = "waiting"] ELSE node[m]]
    /\ retired' = IF fresh THEN retired \cup Of(n) ELSE retired

Dispatch(n) ==
    /\ Unlocked /\ plan.pc = "off" /\ ready(n) /\ Len(execs) < tale.execs
    /\ \E w \in worktrees(n) :
        LET i == Len(execs) + 1
            r == resume(n)
            fork == session_fork(n, w.slot)
            taken == r # 0 /\ fork = 0
        IN  /\ ~path_is_running(w.slot)
            /\ IF environment_lost(n, w.slot)
               THEN /\ node' = [node EXCEPT ![n].st = "blocked"]
                    /\ UNCHANGED <<execs, retired, job, plan>>
               ELSE /\ Started(n, ~taken /\ fork = 0)
                    /\ execs' = Append(execs,
                          [node |-> n, slot |-> w.slot, before |-> w.before, after |-> {},
                           st |-> "running", sess |-> IF taken THEN execs[r].sess ELSE i,
                           line |-> w.line \cup {n}, prep |-> FALSE, live |-> FALSE,
                           cause |-> "", inputs |-> {}])
                    /\ job' = [job EXCEPT ![i] =
                          [pc |-> "prepare", inherit |-> w.inherit,
                           parents |-> {node[p].head : p \in Parents_of(n)}, src |-> origin,
                           keep |-> preserved_workspace(n), fork |-> fork, resumed |-> taken,
                           text |-> task_text(n), cont |-> continuation(n),
                           initial |-> initial_recovery(n)]]
                    /\ plan' = Noted(i)
    /\ UNCHANGED <<tale, slot, file, pinned, origin>>

-----------------------------------------------------------------------------
(* The worker, without the Run mutex: runtime::perform_with_merger.        *)
At(i, pc) == Unlocked /\ i \in Live /\ job[i].pc = pc
Here(i) == slot[execs[i].slot]
Step(i, pc) == job' = [job EXCEPT ![i].pc = pc]

(* The inputs composition would still merge: empty heads are source edits. *)
input_heads(i) == (job[i].parents \cup {job[i].src}) \ {{}}

(* Validation before any checkout.  A preserved attempt must be in its own *)
(* slot, on its own history, with inputs that have not moved since; any    *)
(* other slot must show the recorded view of its HEAD.                     *)
preserved_head_valid(i) ==
    LET k == job[i].keep
    IN  /\ Here(i).there /\ execs[k].slot = execs[i].slot /\ execs[k].sess = execs[i].sess
        /\ execs[k].before \subseteq Here(i).head
        /\ \A h \in input_heads(i) : h \subseteq execs[k].before
verify_result_Skipped(p) == TRUE  \* faulty: the slot is taken over unseen
verify_result(p) == slot[p].there /\ slot[p].rec => slot[p].dirt = {} /\ ~slot[p].merge

can_inherit(i) ==
    LET head == Here(i).head
    IN  /\ job[i].inherit /\ Here(i).there
        /\ \/ head \in job[i].parents
           \/ job[i].parents = {} /\ Cardinality(execs[i].line) > 1
        /\ \A h \in input_heads(i) : h \subseteq head
        /\ Here(i).dirt = {} /\ ~Here(i).merge

(* workspace::prepare_with_merger_expected_for_run_scoped: the slot is set *)
(* to the base and every independent input not yet in it is merged.        *)
base_view(i) == [there |-> TRUE, head |-> execs[i].before, dirt |-> {}, rec |-> TRUE,
                 merge |-> FALSE]
incoming(i) == {h \in input_heads(i) : ~(h \subseteq execs[i].before)}
composed(i) == [base_view(i) EXCEPT !.head = @ \cup UNION incoming(i)]

(* EventKind::Failed, followed by Blocked for a composition that stopped.  *)
(* A failed node keeps its slot; `cause` is what the error says.           *)
Failed(i, cause) ==
    LET n == execs[i].node
    IN  /\ execs' = [execs EXCEPT ![i].st = "failed", ![i].cause = cause]
        /\ node' = IF i \in retired THEN node
                   ELSE [node EXCEPT ![n].st = IF cause = "compose" THEN "blocked" ELSE "failed",
                                     ![n].base = {}]
        /\ job' = [job EXCEPT ![i] = NoJob]
        /\ plan' = Noted(i)

Prepared(i, view) ==
    /\ slot' = [slot EXCEPT ![execs[i].slot] = view]
    /\ execs' = [execs EXCEPT ![i].before = view.head, ![i].prep = TRUE,
                              ![i].inputs = input_heads(i)]
    /\ Step(i, "ready")
    /\ plan' = Noted(i)
    /\ UNCHANGED <<node, tale>>

(* Preparation: continued in place, inherited, or composed.                *)
Prepare(i) ==
    /\ At(i, "prepare")
    /\ IF ~(IF job[i].keep # 0 THEN preserved_head_valid(i) ELSE verify_result(execs[i].slot))
       THEN Failed(i, "other") /\ UNCHANGED <<slot, tale>>
       ELSE \/ Prepared(i, IF job[i].keep # 0 THEN Here(i)
                           ELSE IF can_inherit(i) THEN [Here(i) EXCEPT !.rec = TRUE]
                           ELSE composed(i))
            \/ /\ "conflict" \in tale.can /\ job[i].keep = 0 /\ ~can_inherit(i)
               /\ incoming(i) # {}
               /\ tale' = [tale EXCEPT !.can = @ \ {"conflict"}]
               /\ slot' = [slot EXCEPT ![execs[i].slot] = [base_view(i) EXCEPT !.merge = TRUE]]
               /\ Failed(i, "compose")
    /\ UNCHANGED <<retired, file, pinned, origin>>

(* session_branch::open_session.                                           *)
opens(s, p) == file[s] # NoFile /\ file[s].cwd = p

(* session_branch::fork_session, after Prepared: the conversation moves to *)
(* the new slot under a new identity, the original keeps its history.      *)
fork_session(i) ==
    LET k == job[i].fork
    IN  /\ At(i, "ready") /\ k # 0
        /\ IF opens(execs[k].sess, execs[k].slot)
           THEN /\ file' = [file EXCEPT ![i] = [file[execs[k].sess] EXCEPT !.cwd = execs[i].slot]]
                /\ Step(i, "forked")
                /\ UNCHANGED <<node, execs, plan>>
           ELSE Failed(i, "session") /\ UNCHANGED file
        /\ UNCHANGED <<tale, retired, slot, pinned, origin>>

(* engine::execute: a conversation that is resumed must be the recorded one*)
(* in this workspace; then the process starts and says so.                 *)
execute_agent(i) ==
    /\ At(i, "forked") \/ (At(i, "ready") /\ job[i].fork = 0)
    /\ IF job[i].resumed /\ ~job[i].initial /\ ~opens(execs[i].sess, execs[i].slot)
       THEN Failed(i, "session")
       ELSE /\ execs' = [execs EXCEPT ![i].live = TRUE]
            /\ Step(i, "live")
            /\ UNCHANGED <<node, plan>>
    /\ UNCHANGED <<tale, retired, slot, file, pinned, origin>>

(* Pi creates or reopens the conversation and accepts the prompt.          *)
Prompt(i) ==
    /\ At(i, "live")
    /\ file' = [file EXCEPT ![execs[i].sess] =
                    [cwd |-> execs[i].slot, told |-> @.told \o job[i].text]]
    /\ Step(i, "turn")
    /\ UNCHANGED <<tale, node, execs, retired, slot, pinned, origin, plan>>

(* The agent's turn writes files, and may commit them itself, on the       *)
(* prepared history or on one it rewrote.                                  *)
Work(i) ==
    /\ At(i, "turn")
    /\ LET dirty == Here(i).dirt \cup {i}
       IN  \/ /\ slot' = [slot EXCEPT ![execs[i].slot].dirt = dirty]
              /\ UNCHANGED tale
           \/ /\ "commit" \in tale.can
              /\ tale' = [tale EXCEPT !.can = (@ \ {"commit"}) \cup {"committed"}]
              /\ \E base \in {Here(i).head, {0}} :
                    slot' = [slot EXCEPT ![execs[i].slot] =
                               [@ EXCEPT !.head = base \cup dirty, !.dirt = {}, !.rec = FALSE]]
    /\ Step(i, "worked")
    /\ UNCHANGED <<node, execs, retired, file, pinned, origin, plan>>

(* workspace::snapshot_slot_to_ref_scoped.                                 *)
Committed(p) == [slot[p] EXCEPT !.head = @ \cup slot[p].dirt, !.dirt = {}, !.rec = TRUE]
snapshot_node(i) ==
    /\ At(i, "worked")
    /\ IF execs[i].before \subseteq Here(i).head
       THEN /\ slot' = [slot EXCEPT ![execs[i].slot] = Committed(execs[i].slot)]
            /\ pinned' = pinned \cup {Committed(execs[i].slot).head}
            /\ Step(i, "done")
            /\ UNCHANGED <<node, execs, plan>>
       ELSE Failed(i, "other") /\ UNCHANGED <<slot, pinned>>
    /\ UNCHANGED <<tale, retired, file, origin>>

-----------------------------------------------------------------------------
(* Under the Run mutex again: Runtime::finish.                             *)

(* Runtime::reclaim_workspace_slots after execution i, without a managed   *)
(* environment: all but running slots, this one, and completed parents of  *)
(* unfinished nodes.                                                       *)
reclaim_workspace_slots(i) ==
    LET keep == {execs[k].slot : k \in (Live \ {i}) \cup {i}}
                \cup {execs[k].slot : k \in {m \in DOMAIN execs' :
                        /\ execs'[m].st = "completed"
                        /\ \E e \in tale.edges : e[1] = execs[m].node
                                               /\ node'[e[2]].st # "completed"}}
    IN  IF tale.managed THEN UNCHANGED slot
        ELSE slot' = [p \in Ids |-> IF p \in keep THEN slot[p] ELSE NoSlot]

Dirtied(m) ==
    [node[m] EXCEPT
        !.st = IF @ = "waiting" \/ (@ = "blocked" /\ Of(m) = {}) THEN "waiting" ELSE "dirty",
        !.head = {}, !.base = {}, !.instr = 0, !.human = FALSE]

(* EventKind::Finished: the result is the node's, and the head of every    *)
(* completed node the workspace carries; a follow-up that changed it sends *)
(* the descendants back, unless it worked in the shared terminal slot.     *)
Finish(i) ==
    /\ At(i, "done")
    /\ LET n == execs[i].node
           head == Here(i).head
           changed == node[n].base # {} /\ node[n].base # head
           again == IF changed /\ ~node[n].shared THEN Below(n) \ {n} ELSE {}
           result(m) == IF m \in execs[i].line /\ node[m].st = "completed"
                        THEN [node[m] EXCEPT !.head = head, !.res = execs[i].slot] ELSE node[m]
       IN  /\ execs' = [execs EXCEPT ![i].st = "completed", ![i].after = head]
           /\ node' = [m \in Nodes |->
                 IF m = n
                 THEN LET w == [node[n] EXCEPT !.st = "completed", !.head = head,
                                    !.res = execs[i].slot, !.base = {}, !.shared = FALSE]
                      IN  IF w.queue = <<>> THEN w
                          ELSE [w EXCEPT !.st = "dirty", !.base = head, !.human = TRUE,
                                  !.instr = w.queue[1].msg, !.shared = w.queue[1].shared]
                 ELSE IF m \in again THEN [Dirtied(m) EXCEPT !.res = result(m).res]
                 ELSE result(m)]
           /\ plan' = Noted(i)
    /\ job' = [job EXCEPT ![i] = NoJob]
    /\ reclaim_workspace_slots(i)
    /\ UNCHANGED <<tale, retired, file, pinned, origin>>

(* The worker fails, is stopped by the user, or the backend goes down.     *)
Fail(i) ==
    /\ Unlocked /\ i \in Live /\ tale.fails > 0
    /\ tale' = [tale EXCEPT !.fails = @ - 1]
    /\ \E cause \in {"other", "stopped", "interrupted"} : Failed(i, cause)
    /\ UNCHANGED <<retired, slot, file, pinned, origin>>

(* Runtime::queue_node_recovery(AllFailed): every failed node, or node     *)
(* blocked by its own composition, is to be tried again in its session;    *)
(* what they blocked waits again.                                          *)
retry_root(n) ==
    LET i == LastOf(Of(n) \ retired)
    IN  /\ i # 0 /\ execs[i].st = "failed"
        /\ \/ node[n].st = "failed"
           \/ /\ node[n].st = "blocked"
              /\ execs[i].cause = "compose" \/ (tale.managed /\ execution_is_preparation_only(i))
Recover ==
    LET roots == {n \in Nodes : retry_root(n)}
        again == {n \in UNION {Below(r) : r \in roots} : node[n].st \in {"failed", "blocked"}}
    IN  /\ Unlocked /\ plan.pc = "off" /\ roots # {}
        /\ node' = [n \in Nodes |->
              IF n \notin again THEN node[n]
              ELSE [node[n] EXCEPT
                      !.st = IF node[n].head # {} \/ latest_node_execution(n) # 0
                             THEN "dirty" ELSE "waiting",
                      !.base = {}, !.cont = n \in roots /\ node[n].queue = <<>>]]
        /\ UNCHANGED <<tale, execs, retired, job, slot, file, pinned, origin, plan>>

(* Runtime::intervene: a human message for a node that has run.  One for a *)
(* running node, or behind another, only joins the queue.                  *)
Message(n) ==
    LET m == [msg |-> tale.msgs, shared |-> terminal_execution(n) # 0]
        w == [node[n] EXCEPT !.queue = Append(@, m)]
    IN  /\ Unlocked /\ tale.msgs > 0
        /\ \E i \in Of(n) : execs[i].after # {} \/ execs[i].st = "failed"
        /\ \A i \in Live : execs[i].node \notin Below(n) \ {n}
        /\ tale' = [tale EXCEPT !.msgs = @ - 1]
        /\ node' = [node EXCEPT ![n] =
              IF w.st = "running" \/ (Len(w.queue) > 1 /\ w.st \in {"dirty", "waiting", "blocked"})
              THEN w
              ELSE [w EXCEPT !.st = IF @ = "waiting" THEN "waiting" ELSE "dirty",
                             !.base = w.head, !.instr = m.msg, !.human = TRUE,
                             !.shared = m.shared]]
        /\ UNCHANGED <<execs, retired, job, slot, file, pinned, origin, plan>>

(* Runtime::resolved: the user finished the stopped merge in the slot of   *)
(* the blocked node's last attempt; the resolved inputs become its head.   *)
Resolve(n) ==
    LET i == LastOf(Of(n))
        p == execs[i].slot
    IN  /\ Unlocked /\ "resolve" \in tale.can /\ Live = {} /\ node[n].st = "blocked" /\ i # 0
        /\ slot[p].there /\ slot[p].merge
        /\ tale' = [tale EXCEPT !.can = @ \ {"resolve"}]
        /\ LET head == slot[p].head \cup UNION {node[q].head : q \in Parents_of(n)} \cup origin
           IN  /\ slot' = [slot EXCEPT ![p].head = head, ![p].merge = FALSE, ![p].rec = TRUE]
               /\ node' = [m \in Nodes |->
                     IF m \notin Below(n) THEN node[m]
                     ELSE [node[m] EXCEPT !.head = IF m = n THEN head ELSE {},
                             !.instr = IF m = n /\ ~node[n].human THEN 0 ELSE @,
                             !.st = IF m # n /\ (@ = "waiting" \/ (@ = "blocked" /\ Of(m) = {}))
                                    THEN "waiting" ELSE "dirty"]]
        /\ execs' = [execs EXCEPT ![i].st = "resolved"]
        /\ plan' = Noted(i)
        /\ UNCHANGED <<retired, job, file, pinned, origin>>

-----------------------------------------------------------------------------
(* The Planner's turn.  plan.pc is "off", "turn" or "capture"; plan.cur is *)
(* the execution whose slot it works in (0: the source), plan.sel the      *)
(* selections of this turn in order, plan.last and plan.newer the recorded *)
(* choice and whether other work has moved since.                          *)
planner_workspace_owner(p) == LastOf({i \in DOMAIN execs : execs[i].slot = p})

(* validate_planner_workspace: prepared by this execution, and the view is *)
(* ready for its HEAD.                                                     *)
planner_ready(i) ==
    /\ execs[i].st = "completed" \/ execs[i].prep
    /\ slot[execs[i].slot].there /\ slot[execs[i].slot].rec

(* planner_workspace_candidate, for one execution of the reverse search.   *)
Frontier(i) ==
    IF path_is_running(execs[i].slot) THEN "use"
    ELSE IF \E n \in Below(execs[i].node) \ {execs[i].node} :
               /\ node[n].st \in {"completed", "failed", "running"}
               /\ \E k \in Of(n) : slot[execs[k].slot].there /\ k \notin retired
    THEN "skip"
    ELSE IF ~slot[execs[i].slot].there THEN "source"
    ELSE IF workspace_reserved(execs[i].slot, "") THEN "reserved" ELSE "use"

Newest == {i \in DOMAIN execs \ retired :
               \A k \in DOMAIN execs \ retired : execs[k].slot = execs[i].slot => k <= i}

planner_workspace_candidate ==
    LET i == LastOf({k \in Newest : Frontier(k) \in {"use", "source"}})
    IN  IF plan.last # 0 /\ ~plan.newer
           /\ (path_is_running(execs[plan.last].slot) \/ slot[execs[plan.last].slot].there)
        THEN plan.last
        ELSE IF i # 0 /\ Frontier(i) = "use" THEN i ELSE 0

planner_refused ==
    /\ planner_workspace_candidate = 0
    /\ \E i \in Newest : Frontier(i) = "reserved"
    /\ \A i \in Newest : Frontier(i) \in {"reserved", "skip"}

(* planner_workspace: a candidate that its slot no longer belongs to, or   *)
(* that is not ready, is retired in favour of the source.                  *)
planner_workspace ==
    LET i == planner_workspace_candidate
    IN  IF i # 0 /\ planner_workspace_owner(execs[i].slot) = i /\ planner_ready(i) THEN i ELSE 0

Selected(i) == [plan EXCEPT !.pc = "turn", !.cur = i, !.last = i, !.newer = FALSE,
                            !.sel = IF i = 0 \/ \E k \in DOMAIN @ : @[k] = i THEN @ ELSE Append(@, i)]

PlannerBegin ==
    /\ Unlocked /\ plan.pc = "off" /\ tale.turns > 0 /\ execs # <<>> /\ ~planner_refused
    /\ tale' = [tale EXCEPT !.turns = @ - 1]
    /\ plan' = Selected(planner_workspace)
    /\ UNCHANGED <<node, execs, retired, job, slot, file, pinned, origin>>

(* planner_workspace_for_node: the Planner asks for the workspace of node n*)
(* and gets the execution that now owns it.                                *)
planner_workspace_for_node(n) ==
    /\ plan.pc = "turn" /\ plan.cur # 0 /\ "move" \in tale.can
    /\ LET asked == LastOf(Of(n) \ retired)
           owner == planner_workspace_owner(execs[asked].slot)
       IN  /\ asked # 0 /\ owner \notin retired /\ owner # plan.cur
           /\ planner_ready(owner)
           /\ plan' = Selected(owner)
    /\ tale' = [tale EXCEPT !.can = @ \ {"move"}]
    /\ UNCHANGED <<node, execs, retired, job, slot, file, pinned, origin>>

PlannerWrite ==
    LET m == PlannerMark(tale.turns)
    IN  /\ plan.pc = "turn" /\ m \notin plan.wrote \cup plan.draft
        /\ IF plan.cur = 0
           THEN plan' = [plan EXCEPT !.draft = @ \cup {m}] /\ UNCHANGED slot
           ELSE /\ slot[execs[plan.cur].slot].there
                /\ slot' = [slot EXCEPT ![execs[plan.cur].slot].dirt = @ \cup {m}]
                /\ plan' = [plan EXCEPT !.wrote = @ \cup {m}]
        /\ UNCHANGED <<tale, node, execs, retired, job, file, pinned, origin>>

(* The turn is over: every slot it borrowed is captured in order, under the*)
(* Run mutex (server::capture_planner_turn_workspaces).                    *)
PlannerEnd ==
    /\ plan.pc = "turn"
    /\ plan' = [plan EXCEPT !.pc = "capture", !.todo = plan.sel]
    /\ UNCHANGED <<tale, node, execs, retired, job, slot, file, pinned, origin>>

(* Runtime::capture_planner_workspace refuses a slot that changed hands or *)
(* is not what its execution recorded.                                     *)
Recorded(i) == IF execs[i].after # {} THEN execs[i].after ELSE execs[i].before
can_capture(i) ==
    LET p == execs[i].slot
    IN  planner_workspace_owner(p) = i /\ planner_ready(i) /\ ~slot[p].merge
        /\ Recorded(i) \subseteq slot[p].head

(* EventKind::PlannerWorkspaceSnapshotted: the nodes whose result this was *)
(* advance to it, the others downstream are computed again.  A superseded  *)
(* execution's files are only kept.                                      *)
Snapshotted(i, head) ==
    LET n == execs[i].node
        carried == execs[i].line \cup {n}
    IN  /\ execs' = [execs EXCEPT ![i].after = head]
        /\ IF i \in retired
           THEN UNCHANGED node
           ELSE node' = [m \in Nodes |->
                   IF m \in Below(n) \ carried
                   THEN [Dirtied(m) EXCEPT !.res = 0, !.cont = FALSE, !.shared = FALSE]
                   ELSE IF m \in carried /\ node[m].st = "completed"
                           /\ node[m].head = execs[i].after
                   THEN [node[m] EXCEPT !.head = head] ELSE node[m]]

(* One borrowed slot.  A slot with a live writer is left to that writer's  *)
(* own snapshot; a refusal ends the turn (and pauses the Run).             *)
capture_planner_workspace ==
    /\ plan.pc = "capture" /\ plan.todo # <<>>
    /\ LET i == Head(plan.todo)
           p == execs[i].slot
           next == [plan EXCEPT !.todo = Tail(@)]
       IN  IF path_is_running(p)
           THEN plan' = next /\ UNCHANGED <<node, execs, slot, pinned>>
           ELSE IF ~can_capture(i)
           THEN /\ plan' = [plan EXCEPT !.pc = "off", !.cur = 0, !.sel = <<>>, !.todo = <<>>]
                /\ UNCHANGED <<node, execs, slot, pinned>>
           ELSE /\ slot' = [slot EXCEPT ![p] = Committed(p)]
                /\ pinned' = pinned \cup {Committed(p).head}
                /\ IF Committed(p).head = Recorded(i)
                   THEN plan' = next /\ UNCHANGED <<node, execs>>
                   ELSE /\ plan' = [next EXCEPT !.newer = Noted(i).newer]
                        /\ Snapshotted(i, Committed(p).head)
    /\ UNCHANGED <<tale, retired, job, file, origin>>

(* The source directory is snapshotted by a revision that was accepted     *)
(* (revise_graph), and by a failed turn only if it borrowed no slot.       *)
capture_planner_source ==
    /\ plan.pc = "capture" /\ plan.todo = <<>>
    /\ \E accepted \in BOOLEAN :
          origin' = IF accepted \/ plan.sel = <<>> THEN origin \cup plan.draft ELSE origin
    /\ plan' = [plan EXCEPT !.pc = "off", !.cur = 0, !.sel = <<>>]
    /\ UNCHANGED <<tale, node, execs, retired, job, slot, file, pinned>>

(* The backend stops.  On restart every running execution fails as         *)
(* interrupted (Runtime::recover), and the slots of an interrupted Planner *)
(* turn are captured before anything is dispatched (recover_plannings).    *)
Crash ==
    /\ "crash" \in tale.can
    /\ tale' = [tale EXCEPT !.can = @ \ {"crash"}]
    /\ execs' = [i \in DOMAIN execs |->
          IF i \in Live THEN [execs[i] EXCEPT !.st = "failed", !.cause = "interrupted"]
          ELSE execs[i]]
    /\ node' = [n \in Nodes |->
          IF \E i \in Live \ retired : execs[i].node = n
          THEN [node[n] EXCEPT !.st = "failed", !.base = {}] ELSE node[n]]
    /\ job' = [i \in Ids |-> NoJob]
    /\ plan' = [plan EXCEPT !.pc = IF plan.sel = <<>> THEN "off" ELSE "capture",
                            !.todo = plan.sel, !.cur = 0,
                            !.newer = @ \/ \E i \in Live : plan.last # 0 /\ i # plan.last]
    /\ UNCHANGED <<retired, slot, file, pinned, origin>>

-----------------------------------------------------------------------------
NewNode == [st |-> "waiting", head |-> {}, cont |-> FALSE, human |-> FALSE, instr |-> 0,
            queue |-> <<>>, base |-> {}, shared |-> FALSE, res |-> 0]
SlotsInit ==
    /\ tale \in Tales
    /\ node = [n \in Nodes |-> NewNode]
    /\ execs = <<>> /\ retired = {}
    /\ job = [i \in Ids |-> NoJob]
    /\ slot = [p \in Ids |-> NoSlot]
    /\ file = [i \in Ids |-> NoFile]
    /\ pinned = {} /\ origin = {0}
    /\ plan = [pc |-> "off", cur |-> 0, last |-> 0, newer |-> FALSE, sel |-> <<>>,
               todo |-> <<>>, wrote |-> {}, draft |-> {}]

SlotsNext ==
    \/ \E n \in Nodes : Dispatch(n) \/ Message(n) \/ Resolve(n) \/ planner_workspace_for_node(n)
    \/ \E i \in Ids : \/ Prepare(i) \/ fork_session(i) \/ execute_agent(i) \/ Prompt(i)
                      \/ Work(i) \/ snapshot_node(i) \/ Finish(i) \/ Fail(i)
    \/ Recover \/ PlannerBegin \/ PlannerWrite \/ PlannerEnd
    \/ capture_planner_workspace \/ capture_planner_source \/ Crash

-----------------------------------------------------------------------------
Everywhere == UNION pinned \cup UNION {slot[p].head \cup slot[p].dirt : p \in Ids}

(* An attempt starts from everything its inputs contain and its result     *)
(* contains that and its own work; one that opens a conversation starts    *)
(* without any work of a branch that never meets its own, whoever used the *)
(* slot before.                                                            *)
Carries ==
    \A i \in DOMAIN execs :
        /\ execs[i].prep => \A h \in execs[i].inputs : h \subseteq execs[i].before
        /\ execs[i].st = "completed" => execs[i].before \cup {i} \subseteq execs[i].after
        /\ execs[i].prep /\ execs[i].sess = i =>
              \A k \in execs[i].before \cap Ids :
                  Below(execs[i].node) \cap Below(execs[k].node) # {}

(* Without human messages a completed node's result holds the results of   *)
(* its completed parents, through retries, crashes and Planner captures.   *)
HeadsCarry ==
    \A e \in tale.edges :
        /\ \A n \in Nodes : ~node[n].human
        /\ node[e[1]].st = "completed" /\ node[e[2]].st = "completed"
        => node[e[1]].head \subseteq node[e[2]].head

(* A conversation is told the task and each message once; a message is     *)
(* repeated only when a later one was queued behind it.                    *)
NeverTwice ==
    \A i \in Ids : \A a, b \in DOMAIN file[i].told :
        a < b /\ file[i].told[a] = file[i].told[b] =>
            \E k \in b..Len(file[i].told) : 0 < file[i].told[k] /\ file[i].told[k] < file[i].told[b]

(* What the Planner wrote in a borrowed slot is never lost.  This and the  *)
(* next part are for managed Runs in which no agent commits by itself.     *)
PlannerKept ==
    tale.managed /\ "committed" \notin tale.can => plan.wrote \subseteq Everywhere

(* Files that no snapshot holds yet are never discarded from a slot.       *)
DirtKept ==
    tale.managed /\ "committed" \notin tale.can =>
    \A p \in Ids : slot[p].dirt \subseteq slot'[p].dirt \cup slot'[p].head

(* Slots pass from node to node without mixing or losing work, and         *)
(* conversations are resumed without repeating what they were told.        *)
SlotsHold == [](Carries /\ HeadsCarry /\ NeverTwice /\ PlannerKept) /\ [][DirtKept]_slotVars
=============================================================================
