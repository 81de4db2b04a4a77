------------------------------- MODULE Driver -------------------------------
(***************************************************************************)
(* The driver thread of one Run (drive in server.rs), the workers it       *)
(* spawns, the requests and Planner turns that call drive(), and the flag, *)
(* the generation and the condition variable they meet on.                 *)
(*                                                                         *)
(* Everything done under the Run mutex is one step; everything between two *)
(* acquisitions of a lock, or two accesses to the atomics driving and      *)
(* planning, is interleaved with the other threads.  The scheduler itself  *)
(* is the module Runtime; here a node is only ready, running, completed or *)
(* failed.                                                                 *)
(*                                                                         *)
(* An operator named X_Something, defined right before X, is a faulty      *)
(* variant of X: the properties below are violated when it takes X's place.*)
(***************************************************************************)
EXTENDS Naturals, FiniteSets

CONSTANTS
    Nodes,     \* the nodes of the approved graph
    Drivers,   \* identities of driver threads (a bound on live threads)
    Users,     \* concurrent HTTP requests
    Scenarios  \* what happens around the driver: how many requests and Planner turns
               \* there are at most, and which requests and faults

Possible == {"intervene", "pause", "resume", "retry_publication", "turn", "review"}
            \cup {"thread", "worker", "storage", "publication"}

ASSUME DriverAssumption ==
    /\ IsFiniteSet(Nodes) /\ IsFiniteSet(Drivers) /\ "none" \notin Drivers
    /\ Scenarios \subseteq [left : Nat, can : SUBSET Possible]

VARIABLES
    driving,   \* Service.driving
    planning,  \* Service.planning
    node,      \* status of each node in the projection
    phase, paused,
    thread,    \* each driver thread: where it is and what it holds
    worker,    \* the driver whose worker thread executes each node
    sent,      \* each driver's workers that have sent a result, not yet signalled
    call,      \* each caller of drive(): "none", "drive" or "signal"
    planner,   \* the Planner turn that holds the planning flag
    env        \* the scenario, and the requests still to come

vars == <<driving, planning, node, phase, paused, thread, worker, sent, call, planner, env>>
state == <<node, phase, paused>>

Off == [pc |-> "off", jobs |-> {}, inFlight |-> 0, queue |-> {}, stale |-> FALSE,
        error |-> FALSE]

(* A thread between the swap of the flag and its reset.                    *)
InLoop(d) == thread[d].pc \notin {"off", "recheck", "redrive", "resignal"}

Ready == {n \in Nodes : node[n] = "ready"}
Running == {n \in Nodes : node[n] = "running"}
Schedulable == ~paused /\ phase \notin {"publishing", "publication_failed", "completed"}
PausedOr(p) == IF paused THEN "paused" ELSE p

At(d, pc) == thread[d].pc = pc
Go(d, pc) == thread' = [thread EXCEPT ![d].pc = pc]

Init ==
    /\ driving = FALSE /\ planning = FALSE
    /\ node = [n \in Nodes |-> "ready"] /\ phase = "running" /\ paused = FALSE
    /\ thread = [d \in Drivers |-> Off]
    /\ worker = [n \in Nodes |-> "none"] /\ sent = [d \in Drivers |-> 0]
    /\ \E u \in Users : call = [v \in Users |-> IF v = u THEN "drive" ELSE "none"]
    /\ planner = "none" /\ env \in Scenarios

-----------------------------------------------------------------------------
(* drive(): swap the flag; start a thread or signal the one there is.      *)

(* Any observed generation is now old; one waiting thread is woken.        *)
Bump(t) ==
    LET marked == [d \in Drivers |->
                     IF t[d].pc = "off" THEN t[d] ELSE [t[d] EXCEPT !.stale = TRUE]]
        waiting == {d \in Drivers : t[d].pc = "wait"}
    IN  IF waiting = {} THEN thread' = marked
        ELSE \E d \in waiting : thread' = [marked EXCEPT ![d].pc = "observe"]

(* The swap found no driver: spawn one, or pause the Run if that fails.    *)
StartDriver(t) ==
    \/ /\ driving' = TRUE /\ UNCHANGED state
       /\ \E d \in Drivers : /\ t[d].pc = "off"
                             /\ thread' = [t EXCEPT ![d] = [Off EXCEPT !.pc = "observe"]]
    \/ /\ "thread" \in env.can /\ thread' = t
       /\ paused' = TRUE /\ phase' = "paused" /\ driving' = FALSE /\ UNCHANGED node

Drive(u) ==
    /\ call[u] = "drive"
    /\ IF driving
       THEN /\ call' = [call EXCEPT ![u] = "signal"]
            /\ UNCHANGED <<driving, thread, node, phase, paused>>
       ELSE /\ call' = [call EXCEPT ![u] = "none"]
            /\ StartDriver(thread)
    /\ UNCHANGED <<planning, worker, sent, planner, env>>

Signal(u) ==
    /\ call[u] = "signal" /\ Bump(thread)
    /\ call' = [call EXCEPT ![u] = "none"]
    /\ UNCHANGED <<driving, planning, state, worker, sent, planner, env>>

-----------------------------------------------------------------------------
(* The driver's loop.                                                      *)

Observe(d) ==
    /\ At(d, "observe")
    /\ thread' = [thread EXCEPT ![d].pc = "schedule", ![d].stale = FALSE]
    /\ UNCHANGED <<driving, planning, state, worker, sent, call, planner, env>>

(* The end of a scheduling pass that started nothing while nothing runs.   *)
Settled ==
    IF \E n \in Nodes : node[n] = "failed" THEN "needs_attention"
    ELSE IF phase = "followup" THEN "completed" ELSE "publishing"

(* jobs_with_pending_feedback under the Run mutex, unless a turn is on.    *)
Schedule_WhilePlanning(d) ==
    /\ At(d, "schedule")
    /\ LET jobs == IF Schedulable THEN Ready ELSE {} IN
       /\ node' = [n \in Nodes |-> IF n \in jobs THEN "running" ELSE node[n]]
       /\ phase' = IF Schedulable /\ jobs = {} /\ Running = {} /\ phase # "needs_attention"
                   THEN Settled ELSE phase
       /\ thread' = [thread EXCEPT ![d].jobs = jobs,
             ![d].pc = IF jobs = {} /\ thread[d].inFlight = 0 THEN "idle" ELSE "spawn"]
    /\ UNCHANGED <<driving, planning, paused, worker, sent, call, planner, env>>

Schedule(d) ==
    /\ At(d, "schedule")
    /\ LET jobs == IF planning \/ ~Schedulable THEN {} ELSE Ready IN
       /\ node' = [n \in Nodes |-> IF n \in jobs THEN "running" ELSE node[n]]
       /\ phase' = IF /\ ~planning /\ Schedulable /\ jobs = {} /\ Running = {}
                      /\ phase # "needs_attention"
                   THEN Settled ELSE phase
       /\ thread' = [thread EXCEPT ![d].jobs = jobs,
             ![d].pc = IF jobs = {} /\ thread[d].inFlight = 0 THEN "idle" ELSE "spawn"]
    /\ UNCHANGED <<driving, planning, paused, worker, sent, call, planner, env>>

(* A pass that cannot record what it starts ends the loop with an error.   *)
ScheduleFails(d) ==
    /\ At(d, "schedule") /\ "storage" \in env.can /\ ~planning /\ Schedulable
    /\ thread' = [thread EXCEPT ![d].pc = "join", ![d].error = TRUE]
    /\ UNCHANGED <<driving, planning, state, worker, sent, call, planner, env>>

(* A job gets its worker, or is failed at once when no thread can start.   *)
SpawnFailed(n) == node' = [node EXCEPT ![n] = "failed"]

Spawn(d, n) ==
    /\ At(d, "spawn") /\ n \in thread[d].jobs
    /\ \/ /\ worker' = [worker EXCEPT ![n] = d]
          /\ thread' = [thread EXCEPT ![d].jobs = @ \ {n}, ![d].inFlight = @ + 1]
          /\ UNCHANGED node
       \/ /\ "worker" \in env.can /\ SpawnFailed(n) /\ UNCHANGED worker
          /\ thread' = [thread EXCEPT ![d].jobs = @ \ {n}]
    /\ UNCHANGED <<sent, driving, planning, phase, paused, call, planner, env>>

Spawned(d) ==
    /\ At(d, "spawn") /\ thread[d].jobs = {}
    /\ Go(d, IF thread[d].inFlight > 0 THEN "collect" ELSE "observe")
    /\ UNCHANGED <<driving, planning, state, worker, sent, call, planner, env>>

(* Look at the completions and sleep, holding the generation's mutex.      *)
Collect_BlindWait(d) ==
    /\ At(d, "collect")
    /\ \/ /\ thread[d].queue # {}
          /\ Go(d, "finish")
       \/ /\ thread[d].queue = {}
          /\ Go(d, "wait")
    /\ UNCHANGED <<driving, planning, state, worker, sent, call, planner, env>>

Collect(d) ==
    /\ At(d, "collect")
    /\ \/ /\ thread[d].queue # {}
          /\ Go(d, "finish")
       \/ /\ thread[d].queue = {}
          /\ Go(d, IF thread[d].stale THEN "observe" ELSE "wait")
    /\ UNCHANGED <<driving, planning, state, worker, sent, call, planner, env>>

(* Runtime::finish for one received result; its storage may fail.          *)
Finish(d) ==
    /\ At(d, "finish")
    /\ \E n \in thread[d].queue :
         \/ /\ \E r \in {"completed", "failed"} : node' = [node EXCEPT ![n] = r]
            /\ thread' = [thread EXCEPT ![d].pc = "observe", ![d].queue = @ \ {n},
                                        ![d].inFlight = @ - 1]
         \/ /\ "storage" \in env.can /\ UNCHANGED node
            /\ thread' = [thread EXCEPT ![d].pc = "join", ![d].queue = @ \ {n},
                                        ![d].inFlight = @ - 1, ![d].error = TRUE]
    /\ UNCHANGED <<driving, planning, phase, paused, worker, sent, call, planner, env>>

(* Nothing to do: wait out a Planner turn, publish, or leave the loop.     *)
Idle(d) ==
    /\ At(d, "idle")
    /\ Go(d, IF planning THEN "observe"
             ELSE IF phase = "publishing" THEN "publish" ELSE "join")
    /\ UNCHANGED <<driving, planning, state, worker, sent, call, planner, env>>

(* The publication, and its commit if it is still the Run's publication.   *)
Publish(d) ==
    /\ At(d, "publish")
    /\ \/ /\ phase = "publishing" /\ phase' = "completed" /\ paused' = FALSE
          /\ Go(d, "published")
       \/ /\ "publication" \in env.can /\ phase = "publishing"
          /\ phase' = "publication_failed" /\ paused' = TRUE /\ Go(d, "join")
       \/ /\ phase # "publishing" /\ UNCHANGED <<phase, paused>>
          /\ thread' = [thread EXCEPT ![d].pc = "join", ![d].error = TRUE]
    /\ UNCHANGED <<driving, planning, node, worker, sent, call, planner, env>>

(* A Run whose settings ask for it, and that nobody touched since, is      *)
(* reviewed; otherwise the driver is done.                                 *)
Published(d) ==
    /\ At(d, "published")
    /\ \/ /\ "review" \in env.can /\ env.left > 0
          /\ phase = "completed" /\ \A n \in Nodes : node[n] = "completed"
          /\ env' = [env EXCEPT !.left = @ - 1] /\ Go(d, "review")
       \/ UNCHANGED env /\ Go(d, "join")
    /\ UNCHANGED <<driving, planning, state, worker, sent, call, planner>>

(* The post-task review is a Planner turn on this thread: it gives up when *)
(* another turn keeps the flag.                                            *)
Review(d) ==
    /\ At(d, "review")
    /\ \/ ~planning /\ planning' = TRUE /\ planner' = "turn" /\ Go(d, "reviewing")
       \/ planning /\ Go(d, "observe") /\ UNCHANGED <<planning, planner>>
    /\ UNCHANGED <<driving, state, worker, sent, call, env>>

Reviewed(d) ==
    /\ At(d, "reviewing") /\ planner = "none" /\ Go(d, "observe")
    /\ UNCHANGED <<driving, planning, state, worker, sent, call, planner, env>>

(* The output writer is joined: it ends when the last worker hangs up.     *)
(* Then an error pauses the Run, or fails its publication.                 *)
HaltPhase == IF phase = "publishing" THEN "publication_failed" ELSE "paused"

Join(d) ==
    /\ At(d, "join") /\ sent[d] = 0 /\ \A n \in Nodes : worker[n] # d
    /\ Go(d, "clear")
    /\ IF ~thread[d].error THEN UNCHANGED state
       ELSE paused' = TRUE /\ phase' = HaltPhase /\ UNCHANGED node
    /\ UNCHANGED <<driving, planning, worker, sent, call, planner, env>>

Clear(d) ==
    /\ At(d, "clear") /\ driving' = FALSE /\ Go(d, "recheck")
    /\ UNCHANGED <<planning, state, worker, sent, call, planner, env>>

(* One more look for work that came while the flag was still set.          *)
Resume_None == FALSE

Resume == ~paused /\ phase = "running" /\ Running = {}

Recheck(d) ==
    /\ At(d, "recheck")
    /\ thread' = [thread EXCEPT ![d] = IF Resume THEN [Off EXCEPT !.pc = "redrive"] ELSE Off]
    /\ UNCHANGED <<driving, planning, state, worker, sent, call, planner, env>>

Redrive(d) ==
    /\ At(d, "redrive")
    /\ IF driving THEN Go(d, "resignal") /\ UNCHANGED <<driving, node, phase, paused>>
       ELSE StartDriver([thread EXCEPT ![d] = Off])
    /\ UNCHANGED <<planning, worker, sent, call, planner, env>>

Resignal(d) ==
    /\ At(d, "resignal") /\ Bump([thread EXCEPT ![d] = Off])
    /\ UNCHANGED <<driving, planning, state, worker, sent, call, planner, env>>

-----------------------------------------------------------------------------
(* A worker: its result is sent first, the generation is raised after.     *)

WorkerSends(n) ==
    LET d == worker[n] IN
    /\ d # "none"
    /\ worker' = [worker EXCEPT ![n] = "none"] /\ sent' = [sent EXCEPT ![d] = @ + 1]
    /\ thread' = IF thread[d].error THEN thread
                 ELSE [thread EXCEPT ![d].queue = @ \cup {n}]
    /\ UNCHANGED <<driving, planning, state, call, planner, env>>

WorkerSignals(d) ==
    /\ sent[d] > 0 /\ sent' = [sent EXCEPT ![d] = @ - 1]
    /\ Bump(thread)
    /\ UNCHANGED <<driving, planning, state, worker, call, planner, env>>

-----------------------------------------------------------------------------
(* User requests: the change under the Run mutex, then drive().            *)

Spend(u, r) ==
    /\ r \in env.can /\ env.left > 0 /\ call[u] = "none"
    /\ env' = [env EXCEPT !.left = @ - 1]
    /\ UNCHANGED <<driving, planning, thread, worker, sent, planner>>

Calls(u) == call' = [call EXCEPT ![u] = "drive"]

(* A message to a node that is not running (action "intervene").  A        *)
(* completed node of a published Run answers in the source directory.      *)
Intervene(u, n) ==
    /\ Spend(u, "intervene") /\ Calls(u) /\ ~planning
    /\ node[n] \in {"completed", "failed"}
    /\ phase \notin {"publishing", "publication_failed"}
    /\ node' = [node EXCEPT ![n] = "ready"]
    /\ phase' = PausedOr(IF phase \in {"completed", "followup"} /\ node[n] = "completed"
                         THEN "followup" ELSE "running")
    /\ UNCHANGED paused

Pause(u) ==
    /\ Spend(u, "pause") /\ phase \notin {"publishing", "publication_failed"}
    /\ paused' = TRUE /\ phase' = "paused" /\ UNCHANGED <<node, call>>

ResumeRun(u) ==
    /\ Spend(u, "resume") /\ Calls(u)
    /\ phase \notin {"publishing", "publication_failed"}
    /\ paused' = FALSE /\ phase' = "running" /\ UNCHANGED node

RetryPublication(u) ==
    /\ Spend(u, "retry_publication") /\ Calls(u) /\ ~planning /\ ~driving
    /\ phase = "publication_failed"
    /\ phase' = "publishing" /\ paused' = FALSE /\ UNCHANGED node

-----------------------------------------------------------------------------
(* A Planner turn: it holds the planning flag, may replace the graph, wakes*)
(* the driver and only then gives the flag back.                           *)

TurnStarts ==
    /\ "turn" \in env.can /\ env.left > 0 /\ ~planning
    /\ planning' = TRUE /\ planner' = "turn" /\ env' = [env EXCEPT !.left = @ - 1]
    /\ UNCHANGED <<driving, state, thread, worker, sent, call>>

(* The revision invalidates nodes that are not running, or fails.          *)
TurnCommits ==
    /\ planner = "turn" /\ planner' = "wake"
    /\ \/ /\ phase \notin {"publishing", "publication_failed"}
          /\ \E changed \in SUBSET (Nodes \ Running) \ {{}} :
               node' = [n \in Nodes |-> IF n \in changed THEN "ready" ELSE node[n]]
          /\ phase' = PausedOr("running") /\ UNCHANGED paused
       \/ UNCHANGED state
    /\ UNCHANGED <<driving, planning, thread, worker, sent, call, env>>

TurnWakes ==
    /\ planner = "wake"
    /\ planner' = IF phase = "running" /\ ~paused THEN "drive" ELSE "release"
    /\ UNCHANGED <<driving, planning, state, thread, worker, sent, call, env>>

TurnDrives ==
    /\ planner = "drive"
    /\ IF driving
       THEN planner' = "signal" /\ UNCHANGED <<driving, thread, node, phase, paused>>
       ELSE planner' = "release" /\ StartDriver(thread)
    /\ UNCHANGED <<planning, worker, sent, call, env>>

TurnSignals ==
    /\ planner = "signal" /\ planner' = "release" /\ Bump(thread)
    /\ UNCHANGED <<driving, planning, state, worker, sent, call, env>>

TurnReleases ==
    /\ planner = "release" /\ planner' = "none" /\ planning' = FALSE
    /\ UNCHANGED <<driving, state, thread, worker, sent, call, env>>

-----------------------------------------------------------------------------
DriverStep(d) ==
    \/ Observe(d) \/ Schedule(d) \/ ScheduleFails(d) \/ Spawned(d) \/ Collect(d) \/ Finish(d) \/ Idle(d)
    \/ Publish(d) \/ Published(d) \/ Review(d) \/ Reviewed(d) \/ Join(d) \/ Clear(d) \/ Recheck(d)
    \/ Redrive(d) \/ Resignal(d)
    \/ \E n \in Nodes : Spawn(d, n)

TurnStep == TurnCommits \/ TurnWakes \/ TurnDrives \/ TurnSignals \/ TurnReleases

Request(u) ==
    \/ Pause(u) \/ ResumeRun(u) \/ RetryPublication(u)
    \/ \E n \in Nodes : Intervene(u, n)

(* Every driver is done, every request answered: only the user can go on.  *)
Quiet ==
    /\ \A d \in Drivers : At(d, "off")
    /\ \A u \in Users : call[u] = "none"
    /\ planner = "none" /\ UNCHANGED vars

Next ==
    \/ \E d \in Drivers : DriverStep(d)
    \/ \E u \in Users : Drive(u) \/ Signal(u) \/ Request(u)
    \/ \E n \in Nodes : WorkerSends(n)
    \/ \E d \in Drivers : WorkerSignals(d)
    \/ TurnStarts \/ TurnStep
    \/ Quiet

Spec == Init /\ [][Next]_vars

(* Threads run: a driver, a caller of drive() and a Planner turn take their*)
(* next step, and a worker that has sent its result signals it.  How long  *)
(* a worker runs is up to its model.                                       *)
ThreadFairness ==
    /\ \A d \in Drivers : WF_vars(DriverStep(d))
    /\ \A u \in Users : WF_vars(Drive(u) \/ Signal(u))
    /\ \A d \in Drivers : WF_vars(WorkerSignals(d))
    /\ WF_vars(TurnStep)

FairSpec == Spec /\ ThreadFairness /\ \A n \in Nodes : WF_vars(WorkerSends(n))

-----------------------------------------------------------------------------
(* Properties                                                              *)

Statuses == {"ready", "running", "completed", "failed"}

Places == {"off", "observe", "schedule", "spawn", "collect", "wait", "finish", "idle",
           "publish", "published", "review", "reviewing", "join", "clear", "recheck",
           "redrive", "resignal"}

Threads == [pc : Places, jobs : SUBSET Nodes, inFlight : Nat, queue : SUBSET Nodes,
            stale : BOOLEAN, error : BOOLEAN]

(* Every variable keeps the shape of the Rust state it stands for.         *)
TypeOK ==
    /\ driving \in BOOLEAN /\ planning \in BOOLEAN /\ paused \in BOOLEAN
    /\ node \in [Nodes -> Statuses]
    /\ phase \in {"running", "paused", "followup", "needs_attention", "publishing",
                  "publication_failed", "completed"}
    /\ thread \in [Drivers -> Threads]
    /\ worker \in [Nodes -> Drivers \cup {"none"}] /\ sent \in [Drivers -> Nat]
    /\ call \in [Users -> {"none", "drive", "signal"}]
    /\ planner \in {"none", "turn", "wake", "drive", "signal", "release"}
    /\ env \in [left : Nat, can : SUBSET Possible]

(* One thread drives the Run: the flag is set exactly while some thread is *)
(* between its swap and its reset, and there is never a second one, however*)
(* requests, turns and the last look after the loop interleave.            *)
OneDriver ==
    /\ \A d, e \in Drivers : InLoop(d) /\ InLoop(e) => d = e
    /\ driving <=> \E d \in Drivers : InLoop(d)

(* A sleeping driver is never owed anything: if a result is in its queue or*)
(* the generation moved since it looked, somebody is about to notify it.   *)
NoMissedSignal ==
    \A d \in Drivers : At(d, "wait") =>
        /\ ~thread[d].stale
        /\ thread[d].queue # {} => sent[d] > 0

(* Files are delivered only when no worker can still write: while a driver *)
(* publishes, no node runs and no result is in flight.                     *)
PublishesAlone ==
    \A d \in Drivers : At(d, "publish") =>
        /\ Running = {} /\ \A n \in Nodes : worker[n] = "none"
        /\ thread[d].inFlight = 0 /\ phase = "publishing"

(* Nothing is left running without a worker: a node the projection calls   *)
(* running is still to be spawned, has a worker, or its result is queued.  *)
(* Only a driver that leaves because a result could not be stored drops the*)
(* results of its other workers.                                           *)
NoOrphan ==
    "storage" \notin env.can =>
    \A n \in Running :
        \/ worker[n] # "none"
        \/ \E d \in Drivers : InLoop(d) /\ n \in thread[d].jobs \cup thread[d].queue

(* A Planner turn is alone with the graph: a node is started only by a pass*)
(* that saw no turn, so the turn's commit never meets a start it did not   *)
(* see.  A start during a turn is one the pass decided before the turn.    *)
NoStartDuringTurn ==
    [][planner = "turn" => \A n \in Nodes : node[n] = "ready" => node'[n] # "running"]_vars

(* Ready work of an active Run is started, whoever made it ready and       *)
(* whenever: the driver that was about to leave looks once more.           *)
RunningWorkStarts ==
    \A n \in Nodes : (node[n] = "ready" /\ phase = "running")
                     ~> (node[n] # "ready" \/ phase # "running")

(* A publication that was started, or started again after a failure, is    *)
(* carried out: no retry slips in behind the back of a leaving driver.     *)
PublicationEnds == phase = "publishing" ~> phase # "publishing"

\* The driver of a Run is alone, sleeps only when nothing is missed,
\* publishes with nothing else running and leaves no node behind.
DriverSafe == TypeOK /\ OneDriver /\ NoMissedSignal /\ PublishesAlone /\ NoOrphan

\* Work that can run is started and a publication that began comes to its
\* end, whichever request arrives while the driver is on its way out.
DriverProgress == RunningWorkStarts /\ PublicationEnds
=============================================================================
