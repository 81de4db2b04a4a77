------------------------------- MODULE Reclaim -------------------------------
(* Reclaiming directories: cleanup.rs, store/cleanup.rs,                    *)
(* workspace_cleanup.rs, the offline command of maintenance.rs and their    *)
(* callers in runtime.rs and server.rs.  A conversation owns a workspace    *)
(* root and session directories; conversations over the same source share   *)
(* its shadow repository, and two of them may share a planning directory.   *)
(* Ownership is recorded before a directory is made, a removal is queued    *)
(* before anything is removed, and the queue is worked off by two threads:  *)
(* the request or driver that queued a task, and the periodic retry.        *)
EXTENDS Integers, FiniteSets

CONSTANTS Convs,       \* conversations (Runs)
    Hosts              \* the machines the behaviours start from

VARIABLES
    conv,       \* per conversation: has events, phase, last event, ran a node,
                \* recorded the source snapshot it builds on, and whether it started since
                \* its workspaces were last given up (history)
    owned,      \* run_owned_directories
    task,       \* cleanup_tasks; seq 0 is a deleted conversation's
    deleted,    \* deleted_runs
    done,       \* workspace_cleanup_done
    disk,       \* the directories that exist
    shadow,     \* refs and pinned heads in the shadow repository, and whose heads were ever
                \* in it (history)
    sources,    \* cleanup_sources: conversations whose source folder is on record
    exec,       \* the two threads that work off tasks
    host        \* the machine: its source folder, the conversations it starts with (old; known
                \* to the registry or not) and those to come (fresh); the bound on events,
                \* the faults and the races that may happen, the source lock

reclaimVars == <<conv, owned, task, deleted, done, disk, shadow, sources, exec, host>>

Work(c) == <<"work", c>>
Sess(c) == <<"sess", c>>
Plan(c) == <<"plan", IF c \in host.plans THEN "p" ELSE c>>
Part == <<"part", "p">>
Shadow == <<"shadow", "s">>
Threads == {"api", "retry"}
TaskIds == Convs \cup {"idle"}

\* The machines a behaviour may start on: only conversations that are there share
\* a planning directory (a new planning turn makes one of its own), and a source
\* folder may lie in a directory of another conversation.
Faults == {"reset", "move", "offline", "clear", "lookup", "late"}
Machines ==
    [can : SUBSET Faults, git : BOOLEAN, serial : SUBSET Convs, plans : SUBSET Convs,
     old : SUBSET Convs, known : SUBSET Convs, fresh : SUBSET Convs, max : Nat, odd : BOOLEAN,
     worker : BOOLEAN, gone : BOOLEAN, up : BOOLEAN, guard : Convs \cup {"none"},
     crashes : Nat, fails : Nat,
     inside : [Convs -> {<<>>} \cup {Work(c) : c \in Convs} \cup {Sess(c) : c \in Convs}]]

ASSUME NamesAssumption == Convs \cap {"idle", "primary", "none", "reclaim", "p"} = {}
ASSUME HostsAssumption ==
    \A h \in Hosts :
        /\ h \in Machines /\ h.up /\ ~h.gone /\ h.guard = "none"
        /\ h.plans \subseteq h.old /\ h.known \subseteq h.old
        /\ \A c \in h.old : h.inside[c] = <<>>

NoShadow == [refs |-> {}, pins |-> {}, made |-> {}]
NoTask == [on |-> FALSE, targets |-> {}, seq |-> 0, lost |-> FALSE]
Queued(targets, seq) == [on |-> TRUE, targets |-> targets, seq |-> seq, lost |-> FALSE]
Resting == [pc |-> "rest", run |-> "idle", left |-> {}, locks |-> {}, targets |-> {},
            seq |-> 0, lost |-> FALSE, paths |-> {}]

ReclaimInit ==
    /\ host \in Hosts
    /\ conv = [c \in Convs |->
                 [live |-> c \in host.old, phase |-> IF c \in host.old THEN "completed" ELSE "idle",
                  seq |-> IF c \in host.old THEN 1 ELSE 0, ran |-> c \in host.old,
                  head |-> FALSE, keep |-> FALSE]]
    /\ task = [c \in TaskIds |-> NoTask] /\ deleted = {} /\ done = [c \in TaskIds |-> 0]
    /\ disk = (UNION {{Work(c), Sess(c), Plan(c)} : c \in host.old}) \cup (IF host.old = {} THEN {} ELSE {Shadow})
              \cup (IF host.worker THEN {Part} ELSE {})
    /\ owned = [c \in TaskIds |-> IF c \in host.known THEN {Work(c), Sess(c), Shadow, Part} \cap disk ELSE {}]
    /\ shadow = [refs |-> {}, pins |-> host.old, made |-> host.old]
    /\ sources = {} /\ exec = [t \in Threads |-> Resting]

Free1(l) == \A t \in Threads : l \notin exec[t].locks
Can1(x) == x \in host.can
SameSource(c) == host.inside[c] = <<>>
Live(c) == c \in Convs /\ conv[c].live
Active(c) == c \in Convs /\ conv[c].phase = "running"

-----------------------------------------------------------------------------
(* What is owned, shared and protected.                                    *)

\* Ownership that the configuration of a Run proves while its source exists.
configuration_targets(c) ==
    IF host.gone THEN {}
    ELSE {Work(c)} \cup (IF SameSource(c) THEN {Shadow} \cap disk ELSE {})

\* The Runs of older versions have no record; the standard layout of their
\* execution's directory, or of the source's parent, proves the workspace.
legacy_workspace(c) == IF conv[c].ran /\ ~host.odd THEN {Work(c)} ELSE {}

missing_source_workspaces(c, targets) ==
    IF host.gone /\ (Work(c) \in targets \/ ~host.odd) THEN {Work(c)} ELSE {}

planning_ids(c) == {Plan(c)}

manifest(c, deleting) ==
    LET known == owned[c] \cup configuration_targets(c) \cup legacy_workspace(c)
        all   == known \cup missing_source_workspaces(c, known)
    IN [on      |-> TRUE,
        targets |-> IF deleting
                    THEN all \cup planning_ids(c) \cup (IF conv[c].ran THEN {Sess(c)} ELSE {})
                    ELSE all \cap {Work(x) : x \in Convs},
        seq     |-> IF deleting THEN 0 ELSE conv[c].seq,
        lost    |-> host.gone /\ Work(c) \notin all]

\* Another Graph or unrouted Run needs the source database until it has
\* delivered; a Git source keeps it to the last conversation.
shadow_repo_referenced_by(excluded) ==
    \E c \in Convs \ {excluded} :
        /\ conv[c].live /\ c \notin deleted /\ c \notin host.serial
        /\ IF host.gone THEN Shadow \in owned[c]
           ELSE SameSource(c) /\ (conv[c].phase # "completed" \/ host.git)

cleanup_target_is_shared(excluded, t) ==
    IF t = Shadow THEN shadow_repo_referenced_by(excluded)
    ELSE \E c \in Convs \ {excluded} :
            conv[c].live /\ (t \in owned[c] \/ t = Plan(c))

Protected(t) == \E c \in sources : host.inside[c] = t

\* Heads that another live Run may still resolve keep their pins.
protected_shadow_objects(excluded) == {c \in Convs \ {excluded} : conv[c].live}

prune_shadow_run_refs(c) ==
    LET refs == shadow.refs \ {c}
    IN [shadow EXCEPT !.refs = refs, !.pins = {x \in shadow.pins : x \in refs \cup protected_shadow_objects(c)}]

-----------------------------------------------------------------------------
(* The life of a conversation.                                             *)

Doomed(x) == \E t \in Threads : x \in exec[t].paths

\* emit records ownership before the event is written; the directory of a
\* planning turn is there before the first event.  A source, or a start, that
\* comes while a thread is about to remove what it uses is told apart: nothing
\* keeps them from it.
remember_event(c) ==
    /\ host.up /\ c \in host.fresh /\ ~conv[c].live /\ c \notin deleted /\ owned[c] = {} /\ ~host.gone
    /\ SameSource(c) \/ host.inside[c] \in disk
    /\ Doomed(host.inside[c]) => Can1("late")
    /\ sources' = sources \cup {c}
    /\ owned' = [owned EXCEPT ![c] = configuration_targets(c) \cup planning_ids(c)]
    /\ disk' = disk \cup planning_ids(c)
    /\ UNCHANGED <<conv, task, deleted, done, shadow, exec, host>>

Create(c) ==
    /\ host.up /\ owned[c] # {} /\ ~conv[c].live /\ c \notin deleted
    /\ conv' = [conv EXCEPT ![c].live = TRUE, ![c].seq = 1]
    /\ UNCHANGED <<owned, task, deleted, done, disk, shadow, sources, exec, host>>

\* A first start, a retry or a follow-up.
Start(c) ==
    /\ Doomed(Shadow) => Can1("late")
    /\ host.up /\ conv[c].live /\ ~Active(c) /\ Free1(c) /\ conv[c].seq < host.max /\ ~host.gone
    /\ conv' = [conv EXCEPT ![c].phase = "running", ![c].seq = @ + 1, ![c].ran = TRUE,
                            ![c].head = @ /\ Shadow \in disk, ![c].keep = TRUE]
    /\ owned' = [owned EXCEPT ![c] = @ \cup configuration_targets(c) \cup {Sess(c)}]
    /\ sources' = sources \cup {c}
    /\ disk' = disk \cup {Work(c), Sess(c)}
    /\ UNCHANGED <<task, deleted, done, shadow, exec, host>>

\* materialize_job_source: collect and record under the source lock.
collect_source_snapshot(c) ==
    /\ host.up /\ Active(c) /\ c \notin host.serial /\ SameSource(c) /\ ~conv[c].head
    /\ host.guard = "none" /\ host' = [host EXCEPT !.guard = c]
    /\ disk' = disk \cup {Shadow}
    /\ UNCHANGED <<conv, owned, task, deleted, done, shadow, sources, exec>>

record_job_source(c) ==
    /\ host.up /\ host.guard = c /\ Free1(c)
    /\ host' = [host EXCEPT !.guard = "none"]
    /\ owned' = [owned EXCEPT ![c] = @ \cup {Shadow}]
    /\ conv' = [conv EXCEPT ![c].head = TRUE]
    /\ UNCHANGED <<task, deleted, done, disk, shadow, sources, exec>>

Fail1(c) ==
    /\ host.up /\ Active(c) /\ Free1(c) /\ host.guard # c
    /\ conv' = [conv EXCEPT ![c].phase = "idle", ![c].seq = @ + 1]
    /\ UNCHANGED <<owned, task, deleted, done, disk, shadow, sources, exec, host>>

\* The result is in the source; the driver keeps the Run's lock and queues the
\* cleanup of its workspaces.
Complete(c) ==
    /\ host.up /\ Active(c) /\ Free1(c) /\ host.guard # c
    /\ conv[c].head \/ c \in host.serial \/ ~SameSource(c)
    /\ exec["api"].pc = "rest"
    /\ conv' = [conv EXCEPT ![c].phase = "completed", ![c].seq = @ + 1, ![c].keep = FALSE]
    /\ shadow' = IF conv[c].head
                 THEN [k \in DOMAIN shadow |-> shadow[k] \cup {c}] ELSE shadow
    /\ exec' = [exec EXCEPT !["api"] = [Resting EXCEPT !.pc = "queue", !.run = c, !.locks = {c},
                                             !.left = {<<"reclaim", TRUE>>}]]
    /\ UNCHANGED <<owned, task, deleted, done, disk, sources, host>>

\* The user starts afresh: the workspaces of the Run on display are given up.
reset_workspace(c) ==
    /\ host.up /\ conv[c].live /\ ~Active(c) /\ Free1(c) /\ exec["api"].pc = "rest"
    /\ Can1("reset") /\ host' = [host EXCEPT !.can = @ \ {"reset"}]
    /\ exec' = [exec EXCEPT !["api"] = [Resting EXCEPT !.pc = "queue", !.run = c, !.locks = {c}]]
    /\ conv' = [conv EXCEPT ![c].keep = FALSE]
    /\ UNCHANGED <<owned, task, deleted, done, disk, shadow, sources>>

cleanup_worktrees ==
    LET c == exec["api"].run IN
    /\ exec["api"].pc = "queue"
    /\ task' = [task EXCEPT ![c] = Queued(owned[c] \cap {Work(c)}, conv[c].seq)]
    /\ exec' = [exec EXCEPT !["api"].pc = "check"]
    /\ UNCHANGED <<conv, owned, deleted, done, disk, shadow, sources, host>>

\* reclaim_source_snapshot: under the source lock, checked again there.
shadow_reclaimable(c) ==
    /\ c \notin host.serial /\ conv[c].phase = "completed" /\ Shadow \in disk
    /\ SameSource(c) /\ ~host.git /\ ~host.gone /\ ~shadow_repo_referenced_by(c)

reclaim_shadow ==
    /\ exec["api"].pc = "reclaim" /\ host.guard = "none" /\ Free1(exec["api"].run)
    /\ disk' = IF shadow_reclaimable(exec["api"].run) THEN disk \ {Shadow} ELSE disk
    /\ shadow' = IF Shadow \in disk' THEN shadow ELSE NoShadow
    /\ exec' = [exec EXCEPT !["api"] = Resting]
    /\ UNCHANGED <<conv, owned, task, deleted, done, sources, host>>

-----------------------------------------------------------------------------
(* Deletion.                                                               *)

\* Tombstone, manifest and the end of the events are one transaction.
Deleted(cs, manifests) ==
    /\ task' = [c \in TaskIds |-> IF c \in cs THEN manifests[c] ELSE task[c]]
    /\ deleted' = deleted \cup cs
    /\ conv' = [c \in Convs |-> IF c \in cs THEN [conv[c] EXCEPT !.live = FALSE] ELSE conv[c]]

\* delete_run, and delete_workspace with every conversation of the source.
delete_workspace(cs) ==
    /\ host.up /\ exec["api"].pc = "rest" /\ cs # {}
    /\ \A c \in cs : conv[c].live /\ ~Active(c) /\ Free1(c)
    /\ Cardinality(cs) > 1 => cs = {c \in Convs : conv[c].live /\ SameSource(c)}
    /\ Deleted(cs, [c \in cs |-> manifest(c, TRUE)])
    /\ exec' = [exec EXCEPT !["api"] = [Resting EXCEPT !.pc = "next", !.left = cs \X {FALSE}, !.locks = cs]]
    /\ UNCHANGED <<owned, done, disk, shadow, sources, host>>

\* clear_history looks at every Run's service, and deletes under the primary
\* service's lock alone.
ClearCheck ==
    /\ host.up /\ Can1("clear") /\ exec["api"].pc = "rest" /\ Free1("primary")
    /\ \A c \in Convs : ~Active(c) /\ Free1(c)
    /\ exec' = [exec EXCEPT !["api"] = [Resting EXCEPT !.pc = "clear", !.locks = {"primary"}]]
    /\ UNCHANGED <<conv, owned, task, deleted, done, disk, shadow, sources, host>>

clear_history ==
    LET cs == {c \in Convs : conv[c].live} IN
    /\ exec["api"].pc = "clear"
    /\ IF \E c \in cs : Active(c)
       THEN exec' = [exec EXCEPT !["api"] = Resting] /\ UNCHANGED <<conv, task, deleted>>
       ELSE /\ Deleted(cs, [c \in cs |-> manifest(c, TRUE)])
            /\ exec' = [exec EXCEPT !["api"].pc = "next", !["api"].left =
                                {<<c, FALSE>> : c \in {x \in TaskIds : task'[x].on /\ task'[x].seq = 0}}]
    /\ UNCHANGED <<owned, done, disk, shadow, sources, host>>

-----------------------------------------------------------------------------
(* Working off a task.                                                     *)

Step(t, e) == exec' = [exec EXCEPT ![t] = e]
Over(t) == LET e == [exec[t] EXCEPT !.paths = {}] IN
           IF e.left = {<<"reclaim", TRUE>>} THEN [e EXCEPT !.pc = "reclaim", !.locks = {}]
           ELSE IF t = "api" THEN [e EXCEPT !.pc = "next"]
           ELSE [e EXCEPT !.pc = "next", !.locks = {}]

\* The thread that deleted keeps its locks over all its tasks; the periodic
\* retry takes the Run's lock for a workspace task, the primary service's
\* for a deletion, and for a Run whose service cannot be looked up.
Next1(t) ==
    /\ exec[t].pc = "next"
    /\ \/ exec[t].left = {} /\ Step(t, Resting)
       \/ \E x \in exec[t].left : \E lock \in {x[1], "primary"} :
             /\ IF t = "api" THEN lock = "primary"
                ELSE /\ Free1(lock)
                     /\ lock # "primary" => x[2] /\ Live(x[1]) /\ ~Active(x[1])
                     /\ lock = "primary" => ~(x[2] /\ Live(x[1])) \/ Can1("lookup")
             /\ Step(t, [exec[t] EXCEPT !.pc = "check", !.run = x[1], !.left = @ \ {x},
                            !.locks = IF t = "api" THEN @ ELSE {lock}])
       \/ \E x \in exec[t].left : t = "retry" /\ x[2] /\ Active(x[1]) /\ Step(t, [exec[t] EXCEPT !.left = @ \ {x}])
    /\ UNCHANGED <<conv, owned, task, deleted, done, disk, shadow, sources, host>>

retry_cleanup_tasks ==
    /\ host.up /\ exec["retry"].pc = "rest" /\ \E c \in TaskIds : task[c].on
    /\ Step("retry", [Resting EXCEPT !.pc = "next", !.left = {<<c, task[c].seq # 0>> : c \in {x \in TaskIds : task[x].on}}])
    /\ UNCHANGED <<conv, owned, task, deleted, done, disk, shadow, sources, host>>

\* finish_cleanup: the registry goes only with a deleted conversation.
Finished(c) ==
    /\ done' = [done EXCEPT ![c] = IF c \in deleted THEN 0 ELSE IF task[c].on THEN task[c].seq ELSE @]
    /\ task' = [task EXCEPT ![c] = NoTask]
    /\ owned' = [owned EXCEPT ![c] = IF c \in deleted THEN {} ELSE @]

\* execute: a workspace task is for the Run as it was; a conversation's needs
\* its tombstone.
execute_AnySequence(t) ==
    LET c == exec[t].run
        m == task[c]
        current == TRUE
    IN /\ exec[t].pc = "check"
       /\ CASE m.on /\ m.seq # 0 /\ Live(c) /\ ~current ->
                  Step(t, Over(t)) /\ Finished(c)
            [] m.on /\ m.seq # 0 /\ Live(c) /\ current /\ ~Active(c) ->
                  LET new == manifest(c, FALSE) IN
                     /\ Step(t, [exec[t] EXCEPT !.pc = "enqueue", !.targets = new.targets,
                                                !.seq = new.seq, !.lost = new.lost])
                     /\ UNCHANGED <<task, done, owned>>
            [] m.on /\ ~Live(c) /\ c \in deleted ->
                  /\ Step(t, [exec[t] EXCEPT !.pc = "plan", !.targets = m.targets,
                                             !.seq = m.seq, !.lost = m.lost])
                  /\ UNCHANGED <<task, done, owned>>
            [] OTHER -> Step(t, Over(t)) /\ UNCHANGED <<task, done, owned>>
       /\ UNCHANGED <<conv, deleted, disk, shadow, sources, host>>

execute(t) ==
    LET c == exec[t].run
        m == task[c]
        current == m.seq = conv[c].seq
    IN /\ exec[t].pc = "check"
       /\ CASE m.on /\ m.seq # 0 /\ Live(c) /\ ~current ->
                  Step(t, Over(t)) /\ Finished(c)
            [] m.on /\ m.seq # 0 /\ Live(c) /\ current /\ ~Active(c) ->
                  LET new == manifest(c, FALSE) IN
                     /\ Step(t, [exec[t] EXCEPT !.pc = "enqueue", !.targets = new.targets,
                                                !.seq = new.seq, !.lost = new.lost])
                     /\ UNCHANGED <<task, done, owned>>
            [] m.on /\ ~Live(c) /\ c \in deleted ->
                  /\ Step(t, [exec[t] EXCEPT !.pc = "plan", !.targets = m.targets,
                                             !.seq = m.seq, !.lost = m.lost])
                  /\ UNCHANGED <<task, done, owned>>
            [] OTHER -> Step(t, Over(t)) /\ UNCHANGED <<task, done, owned>>
       /\ UNCHANGED <<conv, deleted, disk, shadow, sources, host>>

enqueue_cleanup(t) ==
    LET e == exec[t] IN
    /\ e.pc = "enqueue"
    /\ task' = [task EXCEPT ![e.run] = [on |-> TRUE, targets |-> e.targets, seq |-> e.seq, lost |-> e.lost]]
    /\ Step(t, [e EXCEPT !.pc = "plan"])
    /\ UNCHANGED <<conv, owned, deleted, done, disk, shadow, sources, host>>

\* A binding that is back proves the workspace after all.  Then the whole plan
\* is validated, what is shared or holds a source is taken out, and a deleted
\* Run's refs leave a shadow repository that others need.
PlanPaths(t) ==
    LET e     == exec[t]
        found == e.lost /\ ~host.gone
        all   == e.targets \cup (IF found THEN configuration_targets(e.run) ELSE {})
        kept  == {x \in all : cleanup_target_is_shared(e.run, x) \/ Protected(x)}
    IN /\ e.pc = "plan"
       /\ task' = IF found THEN [task EXCEPT ![e.run].targets = all, ![e.run].lost = FALSE] ELSE task
       /\ shadow' = IF e.seq = 0 /\ Shadow \in all \cap disk /\ cleanup_target_is_shared(e.run, Shadow)
                    THEN prune_shadow_run_refs(e.run) ELSE shadow
       /\ Step(t, [e EXCEPT !.pc = "remove", !.targets = all, !.lost = @ /\ ~found, !.paths = (all \ kept) \cap disk])
       /\ UNCHANGED <<conv, owned, deleted, done, disk, sources, host>>

Removed(paths) ==
    /\ disk' = disk \ paths
    /\ shadow' = IF Shadow \in paths THEN NoShadow ELSE shadow

\* The plan is refused, or a directory cannot be removed after others were: the
\* task stays.
fail_cleanup_Drops(t) ==
    /\ exec[t].pc \in {"plan", "remove"} /\ host.fails > 0
    /\ host' = [host EXCEPT !.fails = @ - 1]
    /\ \E paths \in SUBSET exec[t].paths : Removed(paths)
    /\ Step(t, Over(t))
    /\ task' = [task EXCEPT ![exec[t].run] = NoTask]
    /\ UNCHANGED <<conv, owned, deleted, done, sources>>

fail_cleanup(t) ==
    /\ exec[t].pc \in {"plan", "remove"} /\ host.fails > 0
    /\ host' = [host EXCEPT !.fails = @ - 1]
    /\ \E paths \in SUBSET exec[t].paths : Removed(paths)
    /\ Step(t, Over(t))
    /\ UNCHANGED <<conv, owned, task, deleted, done, sources>>

remove_paths(t) ==
    /\ exec[t].pc = "remove" /\ exec[t].paths # {}
    /\ Removed(exec[t].paths) /\ Step(t, [exec[t] EXCEPT !.paths = {}])
    /\ UNCHANGED <<conv, owned, task, deleted, done, sources, host>>

finish_cleanup(t) ==
    LET e == exec[t] IN
    /\ e.pc = "remove" /\ e.paths = {}
    /\ Step(t, Over(t))
    /\ IF e.lost THEN UNCHANGED <<task, done, owned>> ELSE Finished(e.run)
    /\ UNCHANGED <<conv, deleted, disk, shadow, sources, host>>

-----------------------------------------------------------------------------
(* Crashes, startup, the offline command, and what the user does.          *)

\* Owners without a first event are reclaimed at startup only; so are idle
\* workers of an older version that nobody claimed, and the workspaces of a
\* finished publication whose cleanup was not queued.
orphaned_cleanup_owners == {c \in Convs : owned[c] # {} /\ ~conv[c].live /\ ~task[c].on}
idle_partitioners == IF Part \in disk /\ \A c \in Convs : Part \notin owned[c] THEN {"idle"} ELSE {}
completed_workspace_runs ==
    {c \in Convs : conv[c].live /\ conv[c].phase = "completed" /\ done[c] # conv[c].seq}

recover_cleanup_tasks ==
    LET late == {c \in completed_workspace_runs : ~task[c].on} IN
       /\ ~host.up /\ \A t \in Threads : exec[t] = Resting
       /\ host' = [host EXCEPT !.up = TRUE]
       /\ deleted' = deleted \cup orphaned_cleanup_owners \cup idle_partitioners
       /\ task' = [c \in TaskIds |->
              IF c \in orphaned_cleanup_owners THEN Queued(owned[c], 0)
              ELSE IF c \in idle_partitioners THEN Queued({Part}, 0)
              ELSE IF c \in late THEN Queued(owned[c], conv[c].seq)
              ELSE task[c]]
       /\ UNCHANGED <<conv, owned, done, disk, shadow, sources, exec>>

\* --cleanup-workspaces --apply holds the lease of the data directory: it
\* queues what is pending or can be proved, and removes directories of deleted
\* Runs and shadow repositories nobody uses.
Proved(m, c) ==
    IF m.lost /\ Work(c) \in disk THEN [m EXCEPT !.targets = @ \cup {Work(c)}, !.lost = FALSE] ELSE m

workspace_plan ==
    [paths |-> {Work(c) : c \in {x \in deleted \cap Convs : ~Protected(Work(x))}}
               \cup (IF shadow_repo_referenced_by("idle") THEN {} ELSE {Shadow}),
     tasks |-> [c \in TaskIds |->
        IF Live(c) /\ conv[c].phase = "completed" /\ ~task[c].on /\ Work(c) \in disk
        THEN Proved(manifest(c, FALSE), c)
        ELSE IF c \in deleted \cap Convs /\ ~task[c].on THEN Queued(owned[c] \cup planning_ids(c), 0)
        ELSE IF c \in idle_partitioners /\ ~task[c].on THEN Queued({Part}, 0)
        ELSE IF task[c].on THEN Proved(task[c], c) ELSE task[c]]]

cleanup_workspaces ==
    /\ ~host.up /\ Can1("offline") /\ \A t \in Threads : exec[t] = Resting
    /\ task' = workspace_plan.tasks
    /\ owned' = [c \in TaskIds |-> IF task'[c].on /\ task'[c].seq # 0
                                   THEN owned[c] \cup task'[c].targets ELSE owned[c]]
    /\ Removed(workspace_plan.paths)
    /\ exec' = [exec EXCEPT !["api"] = [Resting EXCEPT !.pc = "next", !.locks = {"primary"},
                  !.left = {<<c, FALSE>> : c \in {x \in TaskIds : task'[x].on}}]]
    /\ host' = [host EXCEPT !.can = @ \ {"offline"}]
    /\ deleted' = deleted \cup idle_partitioners
    /\ UNCHANGED <<conv, done, sources>>

\* The user moves the source folder away, and back.
MoveSource ==
    /\ Can1("move") /\ \A c \in Convs : ~Active(c)
    /\ host' = [host EXCEPT !.gone = ~@, !.can = IF host.gone THEN @ \ {"move"} ELSE @]
    /\ UNCHANGED <<conv, owned, task, deleted, done, disk, shadow, sources, exec>>

ReclaimCrash ==
    /\ host.up /\ host.crashes > 0
    /\ host' = [host EXCEPT !.up = FALSE, !.crashes = @ - 1, !.guard = "none"]
    /\ exec' = [t \in Threads |-> Resting]
    /\ conv' = [c \in Convs |-> IF Active(c) THEN [conv[c] EXCEPT !.phase = "idle", !.seq = @ + 1] ELSE conv[c]]
    /\ UNCHANGED <<owned, task, deleted, done, disk, shadow, sources>>

Works(t) == Next1(t) \/ execute(t) \/ enqueue_cleanup(t) \/ PlanPaths(t) \/ remove_paths(t) \/ finish_cleanup(t)

ReclaimNext ==
    \/ \E c \in Convs : \/ remember_event(c) \/ Create(c) \/ Start(c) \/ collect_source_snapshot(c)
                        \/ record_job_source(c) \/ Fail1(c) \/ Complete(c) \/ reset_workspace(c)
    \/ \E cs \in SUBSET Convs : delete_workspace(cs)
    \/ \E t \in Threads : Works(t) \/ fail_cleanup(t)
    \/ cleanup_worktrees \/ reclaim_shadow \/ ClearCheck \/ clear_history \/ retry_cleanup_tasks
    \/ recover_cleanup_tasks \/ cleanup_workspaces \/ MoveSource \/ ReclaimCrash

ReclaimSpec == ReclaimInit /\ [][ReclaimNext]_reclaimVars

-----------------------------------------------------------------------------
(* Properties.                                                             *)

\* What a live conversation needs is never removed: the workspaces of what
\* was started after they were last given up, however late a task for them is
\* worked off (as long as that is under the Run's lock), its sessions, a planning
\* directory, the source database it builds on (unless it starts between a
\* thread's look at it and its removal, or under a task that is worked off
\* without the Run's lock) and the results it has pinned there.
KeepsNeeded ==
    \A c \in Convs : conv[c].live =>
        /\ conv[c].keep => Work(c) \in disk \/ Can1("lookup")
        /\ conv[c].ran => Sess(c) \in disk
        /\ Plan(c) \in disk
        /\ Active(c) /\ conv[c].head => Shadow \in disk \/ Can1("late") \/ Can1("lookup")
        /\ Part \in owned[c] => Part \in disk
        /\ c \in shadow.made => c \in shadow.pins

\* A folder that a conversation was ever bound to stays, wherever it lies.
KeepsSources == \A c \in sources : SameSource(c) \/ host.inside[c] \in disk \/ Can1("late")

\* Every directory a deleted conversation leaves behind is still in its task,
\* unless it holds a source folder; only of its workspace the task may say that
\* nothing proves it.  A history cleared, or a conversation deleted, under the
\* eyes of a thread that works off the same Run's task loses it.
Owes(c) == {x \in {Work(c), Sess(c)} \cap disk : ~Protected(x)}
DeletedAccounted ==
    \A c \in Convs \cap deleted :
        \/ Owes(c) = {} \/ Can1("clear") \/ Can1("lookup")
        \/ task[c].on /\ Owes(c) \ (IF task[c].lost THEN {Work(c)} ELSE {}) \subseteq task[c].targets

\* The threads that reclaim directories take nothing that is needed and lose
\* nothing that is owed.
ReclaimSafe == KeepsNeeded /\ KeepsSources /\ DeletedAccounted

\* What a deleted conversation leaves behind does go, even when a removal fails
\* or the process dies in the middle; only a workspace that nothing proves to be
\* the conversation's waits for the source folder or the offline command.
Reclaims ==
    \A c \in Convs :
        c \in deleted ~> (Owes(c) = {} \/ Can1("clear") \/ task[c].lost)
=============================================================================
