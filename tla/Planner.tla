------------------------------ MODULE Planner ------------------------------
(***************************************************************************)
(* A Planner turn of one Run: plan_goal_internal_with_started in           *)
(* server.rs, the cancellation map and the planning flag, the requests     *)
(* that may fall into the turn, and the recovery of interrupted turns      *)
(* (recover_plannings, Runtime::open_run).                                 *)
(*                                                                         *)
(* The turn is one thread; each of its steps is what it does between two   *)
(* points where another thread or a crash can be noticed.  The Run's       *)
(* projection changes only by durable events, so it survives a crash; the  *)
(* planning flag, the cancellations and the turn do not.  A revision       *)
(* touches the nodes of one execution, "touched", and may borrow the       *)
(* workspace of another one, "lender".                                     *)
(*                                                                         *)
(* An operator X_Fault, defined before X, is a faulty variant of X.        *)
(***************************************************************************)
EXTENDS Naturals, FiniteSets

CONSTANTS
    MaxTurns, \* bound: Planner turns
    Scenarios \* what happens around the turns: how many requests the user makes at
              \* most (restarts count too), and which requests and faults there are

Possible == {"pause", "resume", "approve", "stopplanner", "stop", "stopnode"}
            \cup {"crash", "capture", "approval", "disk"}

ASSUME BoundsAssumption ==
    MaxTurns \in Nat /\ Scenarios \subseteq [acts : Nat, can : SUBSET Possible]

Turns == 1 .. MaxTurns
Execs == {"touched", "lender"}
Kinds == {"new", "revise", "review"}

VARIABLES
    flag,    \* Service.planning
    cancel,  \* CANCELLED_PLANNING of the Run: "none", "planner" or "run"
    refuse,  \* the stop flag of the planning owner in process_control
    run,     \* the projection of the Run's events
    exec,    \* the executions: "idle", "running" or "stopping"
    turn,    \* the thread of the Planner turn
    disk,    \* per turn: the status in its summary.json
    rec,     \* per turn: the events of the store that carry its identity
    wrote,   \* the turn whose bytes in the borrowed workspace wait for a capture, or 0
    stopper, \* a run-wide Stop between its two looks at the planning state
    boot,    \* the process: up, down, or recovering
    user     \* history: requests made, the turns asked to stop, and what holds the
             \* Run until the user acts: a Pause or Stop, a failed capture, a restart

plannerVars == <<flag, cancel, refuse, run, exec, turn, disk, rec, wrote, stopper, boot, user>>

Off == [pc |-> "off", id |-> 0, kind |-> "new", resume |-> FALSE, slot |-> FALSE,
        killed |-> FALSE, denied |-> FALSE]

PlannerInit ==
    /\ flag = FALSE /\ cancel = "none" /\ refuse = FALSE
    /\ run = [phase |-> "none", serial |-> FALSE, approved |-> FALSE, paused |-> FALSE,
              stop |-> FALSE, graph |-> 0, pending |-> FALSE, review |-> FALSE,
              last |-> 0, status |-> "none"]
    /\ exec = [e \in Execs |-> "idle"]
    /\ turn = Off
    /\ disk = [t \in Turns |-> "none"]
    /\ rec = [t \in Turns |-> {}]
    /\ wrote = 0
    /\ stopper = "off"
    /\ boot = [pc |-> "up", todo |-> {}, at |-> 0, cut |-> FALSE]
    /\ \E s \in Scenarios :
          user = [acts |-> s.acts, can |-> s.can, turns |-> 0,
                  kinds |-> [t \in Turns |-> "new"], asked |-> {}, hold |-> "none"]

Up == boot.pc = "up"
At(pc) == Up /\ turn.pc = pc
\* A step that takes the Run's mutex, which a run-wide Stop may hold.
Locked(pc) == At(pc) /\ stopper = "off"
Goto(pc) == turn' = [turn EXCEPT !.pc = pc]
Fails == turn' = [turn EXCEPT !.pc = "spoil"]
\* check_planning_cancelled: the turn ends as cancelled
Denied == turn' = [turn EXCEPT !.pc = "spoil", !.denied = TRUE]
Record(t, e) == rec' = [rec EXCEPT ![t] = @ \cup {e}]
LastTurn(t, s) == [run EXCEPT !.last = t, !.status = s]
Hold == [user EXCEPT !.hold = IF @ = "none" THEN "pause" ELSE @]
SideCar(t, s) == disk' = [disk EXCEPT ![t] = s]

----------------------------------------------------------------------------
(* The start of a turn, up to the event that publishes its identity.       *)

\* The planning flag is taken by an atomic swap; a second turn that does not
\* get it is refused and changes nothing.
Begin(k) ==
    /\ At("off") /\ ~flag /\ user.turns < MaxTurns
    /\ k = "new" => run.phase = "none"
    /\ k = "revise" => run.phase # "none" /\ ~run.serial
    /\ k = "review" => run.phase = "completed" /\ ~run.serial
    /\ flag' = TRUE
    /\ turn' = [Off EXCEPT !.pc = "check", !.id = user.turns + 1, !.kind = k]
    /\ user' = [user EXCEPT !.turns = @ + 1, !.kinds[user.turns + 1] = k,
                            !.hold = IF k # "revise" \/ @ # "stop" THEN @
                                     ELSE IF run.paused THEN "pause" ELSE "none"]
    /\ UNCHANGED <<cancel, refuse, run, exec, disk, rec, wrote, stopper, boot>>

\* The first look at the cancellation comes before anything is written.
Check ==
    /\ Locked("check")
    /\ turn' = IF cancel = "none" THEN [turn EXCEPT !.pc = "prepare"]
               ELSE [turn EXCEPT !.pc = "end", !.denied = TRUE]
    /\ UNCHANGED <<flag, cancel, refuse, run, exec, disk, rec, wrote, stopper, boot, user>>

Prepare ==
    /\ Locked("prepare")
    /\ SideCar(turn.id, "running")
    /\ Goto("announce")
    /\ UNCHANGED <<flag, cancel, refuse, run, exec, rec, wrote, stopper, boot, user>>

\* A review that finds the Run no longer completed is refused here, and its
\* summary keeps saying that it runs.
ReviewRefused == turn.kind = "review" /\ (run.phase # "completed" \/ run.stop \/ run.pending)

Announce ==
    /\ Locked("announce") /\ ~ReviewRefused
    /\ IF turn.kind = "revise" THEN UNCHANGED <<run, rec>>
       ELSE /\ run' = [LastTurn(turn.id, "running") EXCEPT !.phase = "planning",
                                                      !.review = @ \/ turn.kind = "review"]
            /\ Record(turn.id, "started")
    /\ Goto("route")
    /\ UNCHANGED <<flag, cancel, refuse, exec, disk, wrote, stopper, boot, user>>

Refused ==
    /\ Locked("announce") /\ ReviewRefused
    /\ Goto("end")
    /\ UNCHANGED <<flag, cancel, refuse, run, exec, disk, rec, wrote, stopper, boot, user>>

----------------------------------------------------------------------------
(* Routing, the choice of the workspace, and the engine.                   *)

\* A new goal is routed by the Partitioner, a process the Stop can kill; a
\* revision is always a Graph.  A Serial route needs no Planner.
Route(serial) ==
    /\ Locked("route")
    /\ serial => turn.kind = "new"
    /\ IF turn.kind = "new" /\ (turn.killed \/ refuse)
       THEN Fails /\ UNCHANGED run
       ELSE /\ Goto(IF serial THEN "commit" ELSE "select")
            /\ run' = IF turn.kind = "new" THEN [run EXCEPT !.serial = serial] ELSE run
    /\ UNCHANGED <<flag, cancel, refuse, exec, disk, rec, wrote, stopper, boot, user>>

\* PlannerWorkspaceSelected; only a follow-up borrows the workspace of a node.
Select(slot) ==
    /\ Locked("select")
    /\ slot => turn.kind = "revise" /\ run.approved
    /\ IF turn.kind = "revise" /\ cancel # "none" THEN Denied /\ UNCHANGED run
       ELSE /\ turn' = [turn EXCEPT !.pc = "launch", !.slot = slot]
            /\ run' = LastTurn(turn.id, "running")
    /\ UNCHANGED <<flag, cancel, refuse, exec, disk, rec, wrote, stopper, boot, user>>

Launch ==
    /\ At("launch")
    /\ IF cancel # "none" THEN Denied ELSE Goto("engine")
    /\ UNCHANGED <<flag, cancel, refuse, run, exec, disk, rec, wrote, stopper, boot, user>>

\* The engine writes in the workspace it was given.
Write ==
    /\ At("engine") /\ turn.slot /\ ~turn.killed /\ ~refuse
    /\ wrote # turn.id /\ wrote' = turn.id
    /\ UNCHANGED <<flag, cancel, refuse, run, exec, turn, disk, rec, stopper, boot, user>>

EngineEnds(ok) ==
    /\ At("engine")
    /\ ok => ~turn.killed /\ ~refuse
    /\ IF ok THEN Goto(IF run.approved /\ turn.kind # "new" THEN "drain" ELSE "commit")
       ELSE turn' = [turn EXCEPT !.pc = "spoil", !.denied = cancel # "none"]
    /\ UNCHANGED <<flag, cancel, refuse, run, exec, disk, rec, wrote, stopper, boot, user>>

----------------------------------------------------------------------------
(* The commit.  A revision of an approved graph first waits for the        *)
(* executions it touches, pausing the Run so that no more are started.     *)
Drain_Holds ==
    /\ Locked("drain")
    /\ IF exec["touched"] = "idle" /\ ~run.paused THEN Goto("commit") /\ UNCHANGED run
       ELSE /\ ~run.paused
            /\ run' = [run EXCEPT !.paused = TRUE, !.phase = "paused"]
            /\ turn' = [turn EXCEPT !.resume = TRUE]
    /\ UNCHANGED <<flag, cancel, refuse, exec, disk, rec, wrote, stopper, boot, user>>

Drain ==
    /\ Locked("drain")
    /\ IF exec["touched"] = "idle" THEN Goto("commit") /\ UNCHANGED run
       ELSE /\ ~run.paused
            /\ run' = [run EXCEPT !.paused = TRUE, !.phase = "paused"]
            /\ turn' = [turn EXCEPT !.resume = TRUE]
    /\ UNCHANGED <<flag, cancel, refuse, exec, disk, rec, wrote, stopper, boot, user>>

\* capture_planner_turn_workspaces: a slot whose owner still runs is captured
\* by the end of that execution.
Capturable == turn.slot /\ exec["lender"] = "idle" /\ wrote # 0
CaptureFails == Capturable /\ "capture" \in user.can
AfterCapture == IF Capturable THEN 0 ELSE wrote

\* The projection after the graph of this turn is recorded: Created or
\* GraphRevised, Approved, and PlannerReviewFinished for a review.
Graphed(changed) ==
    LET r == [LastTurn(turn.id, "success") EXCEPT
                 !.graph = IF changed THEN turn.id ELSE @,
                 !.stop = IF turn.kind = "new" THEN @ ELSE FALSE,
                 !.pending = @ \/ changed]
    IN  IF ~r.approved THEN [r EXCEPT !.phase = "awaiting"]
        ELSE IF changed THEN [r EXCEPT !.phase = IF r.paused THEN "paused" ELSE "running"]
        ELSE r

Reviewed(r, approval) ==
    IF approval THEN [r EXCEPT !.review = FALSE, !.approved = FALSE, !.paused = FALSE,
                               !.phase = "awaiting"]
    ELSE [r EXCEPT !.review = FALSE,
                   !.phase = IF r.stop \/ r.paused THEN "paused"
                             ELSE IF r.pending THEN "running" ELSE "completed"]

Approves(auto) == turn.kind # "review" /\ ~run.approved /\ (auto \/ run.serial)
Approved(r) == [r EXCEPT !.approved = TRUE, !.phase = "running"]

Commit(changed, auto) ==
    /\ Locked("commit")
    /\ turn.kind = "new" => changed
    /\ cancel = "none"
    /\ ~(turn.kind # "new" /\ run.approved /\ exec["touched"] # "idle")
    /\ wrote' = AfterCapture
    /\ Goto("seal") /\ Record(turn.id, "graph")
    /\ LET r == Graphed(changed) IN
       run' = IF Approves(auto) THEN Approved(r)
              ELSE IF turn.kind = "review" THEN Reviewed(r, r.pending /\ ~auto) ELSE r
    /\ UNCHANGED <<flag, cancel, refuse, exec, disk, stopper, boot, user>>

CommitDenied ==
    /\ Locked("commit") /\ cancel # "none"
    /\ Denied
    /\ UNCHANGED <<flag, cancel, refuse, run, exec, disk, rec, wrote, stopper, boot, user>>

\* The capture fails, the graph does not compile, or a touched execution
\* started between the drain and the commit.
CommitFails ==
    /\ Locked("commit") /\ cancel = "none" /\ ~run.serial
    /\ Fails
    /\ UNCHANGED <<flag, cancel, refuse, run, exec, disk, rec, wrote, stopper, boot, user>>

\* The graph is recorded, and then its approval fails.
ApprovalFails(changed) ==
    /\ Locked("commit") /\ cancel = "none" /\ "approval" \in user.can
    /\ turn.kind = "new" => changed
    /\ Approves(TRUE)
    /\ Fails /\ Record(turn.id, "graph")
    /\ run' = Graphed(changed)
    /\ wrote' = AfterCapture
    /\ UNCHANGED <<flag, cancel, refuse, exec, disk, stopper, boot, user>>

\* The summary says success only after the graph is recorded.
Seal ==
    /\ At("seal")
    /\ \/ SideCar(turn.id, "success") /\ Goto("end")
       \/ "disk" \in user.can /\ Fails /\ UNCHANGED disk
    /\ UNCHANGED <<flag, cancel, refuse, run, exec, rec, wrote, stopper, boot, user>>

----------------------------------------------------------------------------
(* The failure path, and the end of every turn.                            *)

Spoil ==
    /\ At("spoil")
    /\ SideCar(turn.id, "failed")
    /\ Goto("abort")
    /\ UNCHANGED <<flag, cancel, refuse, run, exec, rec, wrote, stopper, boot, user>>

AbortNew ==
    /\ Locked("abort") /\ turn.kind = "new"
    /\ run' = [LastTurn(turn.id, "failed") EXCEPT !.phase = "planning_failed"]
    /\ Record(turn.id, "failed")
    /\ Goto("end")
    /\ UNCHANGED <<flag, cancel, refuse, exec, disk, wrote, stopper, boot, user>>

\* A failed revision keeps what the Planner wrote: captured, or, when that
\* fails, left in place with the Run paused.
Aborted(r) == IF turn.kind = "review" THEN Reviewed([r EXCEPT !.status = "failed"], FALSE)
              ELSE [r EXCEPT !.last = turn.id, !.status = "failed"]

AbortRevision_NoCapture ==
    /\ Locked("abort") /\ turn.kind # "new"
    /\ run' = Aborted(run)
    /\ Record(turn.id, "aborted")
    /\ Goto("end")
    /\ UNCHANGED <<flag, cancel, refuse, exec, disk, wrote, stopper, boot, user>>

AbortRevision ==
    /\ Locked("abort") /\ turn.kind # "new"
    /\ run' = Aborted(run)
    /\ Record(turn.id, "aborted")
    /\ wrote' = IF run.approved THEN AfterCapture ELSE wrote
    /\ Goto("end")
    /\ UNCHANGED <<flag, cancel, refuse, exec, disk, stopper, boot, user>>

AbortUncaptured ==
    /\ Locked("abort") /\ turn.kind # "new" /\ run.approved /\ CaptureFails
    /\ run' = Aborted([run EXCEPT !.paused = TRUE, !.phase = "paused"])
    /\ Record(turn.id, "aborted")
    /\ wrote' = 0
    /\ turn' = [turn EXCEPT !.pc = "end", !.resume = FALSE]
    /\ user' = Hold
    /\ UNCHANGED <<flag, cancel, refuse, exec, disk, stopper, boot>>

\* The pause of the drain is undone, unless the user stopped the Run.  The
\* cancellation is read first; the Run is read under its own mutex.
ReadEnd ==
    /\ At("end")
    /\ Goto(IF cancel = "run" \/ ~turn.resume THEN "finish" ELSE "resume")
    /\ UNCHANGED <<flag, cancel, refuse, run, exec, disk, rec, wrote, stopper, boot, user>>

Undo_IgnoresStop ==
    /\ Locked("resume")
    /\ Goto("finish")
    /\ run' = IF /\ run.approved /\ run.paused /\ run.phase = "paused"
                 /\ \A e \in Execs : exec[e] # "stopping"
              THEN [run EXCEPT !.paused = FALSE, !.stop = FALSE, !.phase = "running"]
              ELSE run
    /\ UNCHANGED <<flag, cancel, refuse, exec, disk, rec, wrote, stopper, boot, user>>

Undo ==
    /\ Locked("resume")
    /\ Goto("finish")
    /\ run' = IF /\ ~run.stop /\ run.approved /\ run.paused /\ run.phase = "paused"
                 /\ \A e \in Execs : exec[e] # "stopping"
              THEN [run EXCEPT !.paused = FALSE, !.stop = FALSE, !.phase = "running"]
              ELSE run
    /\ UNCHANGED <<flag, cancel, refuse, exec, disk, rec, wrote, stopper, boot, user>>

\* PlanningCancellationGuard::finish
Finish ==
    /\ At("finish")
    /\ flag' = FALSE /\ cancel' = "none" /\ refuse' = FALSE
    /\ turn' = Off
    /\ UNCHANGED <<run, exec, disk, rec, wrote, stopper, boot, user>>

Step ==
    \/ Check \/ Prepare \/ Announce \/ Refused \/ \E s \in BOOLEAN : Route(s)
    \/ \E s \in BOOLEAN : Select(s)
    \/ Launch \/ Drain \/ \E c, a \in BOOLEAN : Commit(c, a)
    \/ CommitDenied \/ CommitFails \/ \E c \in BOOLEAN : ApprovalFails(c)
    \/ Seal \/ Spoil \/ AbortNew \/ AbortRevision \/ AbortUncaptured
    \/ ReadEnd \/ Undo \/ Finish

----------------------------------------------------------------------------
(* The user's requests.                                                    *)
Acting(a) == Up /\ a \in user.can /\ user.acts > 0
Act(hold) == user' = [user EXCEPT !.acts = @ - 1, !.hold = hold]
Stopping == [e \in Execs |-> IF exec[e] = "running" THEN "stopping" ELSE exec[e]]

\* set_paused(true) and stop_node_executions
Pause ==
    /\ Acting("pause") /\ stopper = "off" /\ run.approved
    /\ run' = [run EXCEPT !.paused = TRUE, !.phase = "paused"]
    /\ exec' = Stopping
    /\ Act("pause")
    /\ UNCHANGED <<flag, cancel, refuse, turn, disk, rec, wrote, stopper, boot>>

Resume ==
    /\ Acting("resume") /\ stopper = "off" /\ run.approved /\ run.paused
    /\ \A e \in Execs : exec[e] # "stopping"
    /\ run' = [run EXCEPT !.paused = FALSE, !.stop = FALSE, !.phase = "running"]
    /\ Act("none")
    /\ UNCHANGED <<flag, cancel, refuse, exec, turn, disk, rec, wrote, stopper, boot>>

Approve ==
    /\ Acting("approve") /\ stopper = "off" /\ ~flag /\ run.phase = "awaiting"
    /\ run' = Approved(run)
    /\ Act("none")
    /\ UNCHANGED <<flag, cancel, refuse, exec, turn, disk, rec, wrote, stopper, boot>>

StopNode(e) ==
    /\ Acting("stopnode") /\ stopper = "off" /\ exec[e] = "running"
    /\ exec' = [exec EXCEPT ![e] = "stopping"]
    /\ Act(user.hold)
    /\ UNCHANGED <<flag, cancel, refuse, run, turn, disk, rec, wrote, stopper, boot>>

\* stop_planner looks at the planning flag under the cancellation lock.
StopPlanner ==
    /\ Acting("stopplanner") /\ run.phase # "none" /\ flag
    /\ cancel' = "planner" /\ refuse' = TRUE
    /\ user' = [user EXCEPT !.acts = @ - 1, !.asked = @ \cup {turn.id}]
    /\ UNCHANGED <<flag, run, exec, turn, disk, rec, wrote, stopper, boot>>

\* The run-wide Stop holds the Run's mutex, and looks at the planning flag
\* before it takes the cancellation lock.
StopRun ==
    /\ Acting("stop") /\ stopper = "off" /\ run.phase # "none"
    /\ stopper' = IF flag THEN "planning" ELSE "quiet"
    /\ user' = [user EXCEPT !.acts = @ - 1, !.asked = IF flag THEN @ \cup {turn.id} ELSE @]
    /\ UNCHANGED <<flag, cancel, refuse, run, exec, turn, disk, rec, wrote, boot>>

StopRunApply ==
    /\ Up /\ stopper # "off"
    /\ cancel' = IF stopper = "planning" THEN "run" ELSE cancel
    /\ run' = [run EXCEPT !.stop = TRUE, !.paused = @ \/ run.approved,
                          !.phase = IF run.approved THEN "paused" ELSE @]
    /\ exec' = Stopping
    /\ turn' = [turn EXCEPT !.killed = @ \/ turn.pc \in {"route", "engine"}]
    /\ stopper' = "off"
    /\ user' = [user EXCEPT !.hold = IF stopper # "quiet" \/ turn.kind # "revise" THEN "stop"
                                     ELSE IF run.approved THEN "pause" ELSE "none"]
    /\ UNCHANGED <<flag, refuse, disk, rec, wrote, boot>>

----------------------------------------------------------------------------
(* The Run around the turn: the driver dispatches nothing while the flag   *)
(* is set, and completes the Run when nothing is left.                     *)
Schedulable == run.approved /\ ~run.paused /\ run.phase = "running"

Dispatch(e) ==
    /\ Up /\ stopper = "off" /\ ~flag /\ Schedulable /\ run.pending
    /\ exec[e] = "idle"
    /\ exec' = [exec EXCEPT ![e] = "running"]
    /\ UNCHANGED <<flag, cancel, refuse, run, turn, disk, rec, wrote, stopper, boot, user>>

\* An execution captures all of its workspace when it completes; when it
\* fails, nothing consumes its node until it is repeated there.
ExecEnds(e) ==
    /\ Up /\ stopper = "off" /\ exec[e] # "idle"
    /\ exec' = [exec EXCEPT ![e] = "idle"]
    /\ wrote' = IF e = "lender" THEN 0 ELSE wrote
    /\ UNCHANGED <<flag, cancel, refuse, run, turn, disk, rec, stopper, boot, user>>

Complete ==
    /\ Up /\ stopper = "off" /\ ~flag /\ Schedulable
    /\ \A e \in Execs : exec[e] = "idle"
    /\ run' = [run EXCEPT !.phase = "completed", !.pending = FALSE]
    /\ UNCHANGED <<flag, cancel, refuse, exec, turn, disk, rec, wrote, stopper, boot, user>>

----------------------------------------------------------------------------
(* A crash, and the recovery that reads the summaries left on disk.        *)
Crash ==
    /\ "crash" \in user.can /\ boot.pc # "down" /\ user.acts > 0
    /\ boot' = [pc |-> "down", todo |-> {}, at |-> 0, cut |-> FALSE]
    /\ flag' = FALSE /\ cancel' = "none" /\ refuse' = FALSE /\ stopper' = "off"
    /\ turn' = Off
    /\ exec' = [e \in Execs |-> "idle"]
    /\ user' = [user EXCEPT !.acts = @ - 1]
    /\ UNCHANGED <<run, disk, rec, wrote>>

\* open_run ends a review that was running, and pauses unfinished work.
Reopened(r) ==
    LET s == IF r.review THEN Reviewed([r EXCEPT !.status = "failed"], r.pending) ELSE r
    IN  IF s.approved /\ s.phase \notin {"completed", "paused"}
        THEN [s EXCEPT !.paused = TRUE, !.phase = "paused"] ELSE s

Reopen ==
    /\ boot.pc = "down"
    /\ boot' = [pc |-> "scan", todo |-> {t \in Turns : disk[t] # "none"}, at |-> 0, cut |-> FALSE]
    /\ run' = Reopened(run)
    /\ rec' = IF run.review THEN [rec EXCEPT ![run.last] = @ \cup {"finished"}] ELSE rec
    /\ user' = IF run'.paused THEN Hold ELSE user
    /\ UNCHANGED <<flag, cancel, refuse, exec, turn, disk, wrote, stopper>>

Committed(t) == run.last = t /\ run.status = "success"

\* A turn the crash interrupted: its graph is in the store, or it failed.
ScanSummary(t) ==
    /\ boot.pc = "scan" /\ t \in boot.todo
    /\ disk' = [disk EXCEPT ![t] = IF @ # "running" THEN @
                                   ELSE IF Committed(t) THEN "success" ELSE "failed"]
    /\ boot' = IF disk[t] = "success" \/ (disk[t] = "running" /\ Committed(t))
               THEN [boot EXCEPT !.todo = @ \ {t}]
               ELSE [boot EXCEPT !.todo = @ \ {t}, !.pc = "event", !.at = t,
                                 !.cut = disk[t] = "running"]
    /\ UNCHANGED <<flag, cancel, refuse, run, exec, turn, rec, wrote, stopper, user>>

Scanned == boot' = [boot EXCEPT !.pc = "scan", !.at = 0, !.cut = FALSE]

RecoverNew ==
    /\ boot.pc = "event" /\ user.kinds[boot.at] = "new"
    /\ IF run.phase = "none" \/ (run.last = boot.at /\ run.phase \in {"planning", "planning_failed"})
       THEN /\ run' = [run EXCEPT !.last = boot.at, !.status = "failed", !.phase = "planning_failed"]
            /\ rec' = [rec EXCEPT ![boot.at] = @ \cup {"failed"}]
       ELSE UNCHANGED <<run, rec>>
    /\ Scanned
    /\ UNCHANGED <<flag, cancel, refuse, exec, turn, disk, wrote, stopper, user>>

\* Only a turn that the crash interrupted has its workspace captured.
RecoverRevision ==
    /\ boot.pc = "event" /\ user.kinds[boot.at] # "new"
    /\ IF rec[boot.at] # {} THEN UNCHANGED <<run, rec, wrote, user>>
       ELSE /\ rec' = [rec EXCEPT ![boot.at] = @ \cup {"aborted"}]
            /\ \/ /\ run' = [run EXCEPT !.last = boot.at, !.status = "failed"]
                  /\ wrote' = IF boot.cut /\ wrote = boot.at THEN 0 ELSE wrote
                  /\ UNCHANGED user
               \/ /\ "capture" \in user.can /\ boot.cut /\ wrote = boot.at
                  /\ run' = [run EXCEPT !.last = boot.at, !.status = "failed",
                                        !.paused = TRUE, !.phase = "paused"]
                  /\ wrote' = 0
                  /\ user' = Hold
    /\ Scanned
    /\ UNCHANGED <<flag, cancel, refuse, exec, turn, disk, stopper>>

Recovered ==
    /\ boot.pc = "scan" /\ boot.todo = {}
    /\ boot' = [boot EXCEPT !.pc = "up"]
    /\ UNCHANGED <<flag, cancel, refuse, run, exec, turn, disk, rec, wrote, stopper, user>>

----------------------------------------------------------------------------
PlannerNext ==
    \/ \E k \in Kinds : Begin(k)
    \/ Step \/ Write \/ \E ok \in BOOLEAN : EngineEnds(ok)
    \/ Pause \/ Resume \/ Approve \/ StopPlanner \/ StopRun \/ StopRunApply
    \/ \E e \in Execs : StopNode(e) \/ Dispatch(e) \/ ExecEnds(e)
    \/ Complete
    \/ Crash \/ Reopen \/ \E t \in Turns : ScanSummary(t)
    \/ RecoverNew \/ RecoverRevision \/ Recovered

PlannerSpec == PlannerInit /\ [][PlannerNext]_plannerVars

----------------------------------------------------------------------------
(* Properties.                                                             *)

Phases == {"none", "planning", "planning_failed", "awaiting", "running", "paused", "completed"}
Pcs == {"off", "check", "prepare", "announce", "route", "select", "launch", "engine",
        "drain", "commit", "seal", "spoil", "abort", "end", "resume", "finish"}

Can(x) == x \in user.can

\* Every variable holds a value the code can give it; the planning flag is
\* set exactly while a turn is on its way.
PlannerTypeOK ==
    /\ flag \in BOOLEAN /\ refuse \in BOOLEAN /\ flag = (turn.pc # "off")
    /\ cancel \in {"none", "planner", "run"}
    /\ run.phase \in Phases /\ run.graph \in 0 .. MaxTurns /\ run.last \in 0 .. MaxTurns
    /\ exec \in [Execs -> {"idle", "running", "stopping"}]
    /\ turn.pc \in Pcs /\ turn.kind \in Kinds
    /\ disk \in [Turns -> {"none", "running", "success", "failed"}]
    /\ rec \in [Turns -> SUBSET {"started", "graph", "failed", "aborted", "finished"}]
    /\ wrote \in 0 .. MaxTurns
    /\ stopper \in {"off", "planning", "quiet"}
    /\ boot.pc \in {"up", "down", "scan", "event"}

\* After the user's run-wide Stop nothing is scheduled until the user acts
\* again, whatever a Planner turn that was on its way does at its end
\* (server.rs 2882 and 3088).
StopHeld == user.hold = "stop" => ~Schedulable

\* A pause taken because the Planner's writes could not be captured, or by a
\* restart, holds until the user continues: a turn that had paused the Run for
\* its own drain does not take that pause for its own (server.rs 3088).  It
\* does take the user's Pause for its own, so behaviours with one are excepted.
PauseHeld == ~Can("pause") /\ user.hold = "pause" => ~Schedulable

\* The pause a turn takes to drain the executions it touches is gone when the
\* turn is over: a Run that is paused then is paused because of the user, of
\* a failed capture or of a restart (server.rs 3084).  Not so when a node is
\* being stopped at that moment: the Resume is refused and its error dropped;
\* nor after a Stop of a draft that is approved all the same: the approval does
\* not clear that Stop (model.rs 2359), and the guard of the Resume sees it.
DrainUndone ==
    /\ ~Can("stopnode") /\ ~(Can("stop") /\ Can("approve"))
    /\ Up /\ ~flag /\ run.paused
    => user.hold # "none"

\* A turn ends as cancelled only when it was asked to stop: a Planner Stop that
\* loses the race against the end of a turn does not cancel the next one.  The
\* run-wide Stop, which reads the planning flag before it locks, may.
CancelsOnlyAsked == ~Can("stop") /\ turn.denied => turn.id \in user.asked

\* The summary of a review refused at its gate says running for ever.  A
\* recovery that comes to it before the turn a crash interrupted records it as
\* aborted, and does not see then that the graph of the other is in the store
\* (server.rs 3163): the order is that of the directory.
Misread ==
    /\ Can("crash")
    /\ \E t \in Turns : /\ user.kinds[t] = "review" /\ "started" \notin rec[t] /\ disk[t] # "none"
                        /\ ~(turn.pc = "announce" /\ turn.id = t)

\* A turn that failed or was cancelled leaves the graph of before in place
\* (server.rs 3020), unless it failed after the graph was recorded: at its
\* approval, at the write of its summary, or for a recovery that misread it.
FailedKeepsGraph ==
    ~Can("approval") /\ ~Can("disk") /\ ~Misread =>
        \A t \in Turns : disk[t] = "failed" => run.graph # t

\* What the Planner wrote in a borrowed workspace is captured before anything
\* is dispatched: when the turn is over it is in the results, it will be
\* captured by the execution that shares the directory, or the Run was paused
\* for it (server.rs 3020 and 3255); a crash can lose it.
Captured ==
    ~Can("crash") /\ Up /\ ~flag /\ wrote # 0 => exec["lender"] # "idle" \/ ~run.approved

\* When no turn runs, the summary on disk and the store tell the same story
\* of every turn, also after a crash: a success has its graph in the store, a
\* failure has its failure there, and only a review refused at its gate still
\* says running.  A failed approval or summary write makes them disagree, and
\* so does a recovery that misread a summary.
Settled == Up /\ ~flag /\ ~Can("approval") /\ ~Can("disk") /\ ~Misread
SummariesAgree ==
    Settled => \A t \in Turns :
        /\ disk[t] = "success" => "graph" \in rec[t]
        /\ disk[t] = "failed" => rec[t] \cap {"failed", "aborted", "finished"} # {}
        /\ disk[t] = "running" => user.kinds[t] = "review" /\ rec[t] = {}
        /\ "graph" \in rec[t] => disk[t] = "success"

\* A graph that runs is an approved one: a turn that ends, fails or is cut off
\* never lets a draft run, as long as the summaries can be written (the failure
\* path after a failed write restores the phase but not the approval).
RunsApproved == ~Can("disk") /\ run.phase = "running" => run.approved

\* Every turn comes to its end and gives the planning flag back.
TurnEnds == flag ~> ~flag

\* However a turn ends, it leaves the Run held if the user held it, released
\* if only the turn held it, and never running without an approval.
TurnLeavesRun == StopHeld /\ PauseHeld /\ DrainUndone /\ RunsApproved

\* What is kept of a turn is true: a cancellation was asked for, a failure
\* left the graph alone, its writes are captured and its records agree.
TurnRecords == PlannerTypeOK /\ CancelsOnlyAsked /\ FailedKeepsGraph /\ Captured /\ SummariesAgree
============================================================================
