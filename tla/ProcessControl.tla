--------------------------- MODULE ProcessControl ---------------------------
(***************************************************************************)
(* Who may kill which engine process: process_control.rs, the launch and  *)
(* the end of a node's turn in engine.rs, the parked shells of            *)
(* engine/lingering.rs and the requests that stop an execution in         *)
(* server.rs and runtime.rs.                                               *)
(*                                                                         *)
(* A worker thread serves one attempt of a node.  It gets its process by  *)
(* starting one, by taking a prestarted one, or, in a Serial Run, by      *)
(* claiming the shell an earlier turn of the conversation parked.  A stop  *)
(* raises the attempt's flag and then kills the processes the registry     *)
(* lists for it; both sides take several steps, and only the Run mutex    *)
(* orders some of them.                                                    *)
(*                                                                         *)
(* An operator X_Fault, defined before X, is a faulty variant of X.        *)
(***************************************************************************)
EXTENDS Naturals

CONSTANTS
    Nodes,
    Scenarios,   \* the Run: its nodes, whether it is one conversation in the source
                 \* checkout (Serial), the requests that stop executions, and
                 \* how many of them there are
    None,
    MaxAttempts, \* bound: attempts of a node
    MaxProcs     \* bound: processes started

ASSUME ControlAssumption ==
    /\ Scenarios \subseteq [nodes : SUBSET Nodes, serial : BOOLEAN,
                            can : SUBSET {"stop", "edit", "run"}, left : Nat]
    /\ \A s \in Scenarios : s.serial => \A m, n \in s.nodes : m = n
    /\ MaxAttempts \in Nat /\ MaxProcs \in Nat

Procs == 1 .. MaxProcs

\* Owner namespaces: an attempt of a node, a prestarted process, a parked
\* shell, and a process that is started but not registered.
Attempts == {<<"node", n, k>> : n \in Nodes, k \in 1 .. MaxAttempts}
Idle == <<"idle">>
Linger == <<"linger">>
Untracked == <<"untracked">>
Owners == Attempts \cup {Idle, Linger, Untracked}

ASSUME NoneAssumption == None \notin Owners \cup Nat

VARIABLES
    worker,  \* per node: the place of its worker, the attempt and its process
    owner,   \* the registry: the owner of each tracked process
    alive,   \* processes whose group has a live member
    warm,    \* the prestarted process in the pool's slot
    parked,  \* the shell parked for the conversation
    flags,   \* STOPPED_OWNERS
    request, \* the one request that stops executions, and its place
    mutex,   \* TRUE while that request holds the Run mutex
    branch,  \* version of the conversation's session file
    mem,     \* per process: the version it has read
    env      \* the scenario, and the requests still to come

vars == <<worker, owner, alive, warm, parked, flags, request, mutex, branch, mem, env>>
procs == <<owner, alive, warm, parked, mem>>
control == <<flags, request, mutex, branch, env>>

----------------------------------------------------------------------------
NoRequest == [pc |-> "none", kind |-> "stop", todo |-> {}, now |-> None,
              victims |-> {}]

Init ==
    /\ worker = [n \in Nodes |-> [pc |-> "idle", no |-> 0, proc |-> None]]
    /\ owner = [p \in Procs |-> None]
    /\ alive = {} /\ warm = None /\ parked = None
    /\ flags = {} /\ request = NoRequest /\ mutex = FALSE
    /\ branch = 0 /\ mem = [p \in Procs |-> 0]
    /\ env \in Scenarios

Attempt(n) == <<"node", n, worker[n].no>>
Running == {n \in Nodes : worker[n].pc # "idle"}
Flagged(n) == Attempt(n) \in flags                           \* check_owner_stop
Kill(ps) == alive' = alive \ ps                              \* terminate_inner
Unused == {p \in Procs : owner[p] = None}
At(n, pc) == worker[n].pc = pc
Go(n, pc) == worker' = [worker EXCEPT ![n].pc = pc]
GoWith(n, pc, p) == worker' = [worker EXCEPT ![n].pc = pc, ![n].proc = p]

----------------------------------------------------------------------------
(* The worker up to its launch.  Recording an event takes the Run mutex.  *)
Begin(n) ==
    /\ n \in env.nodes /\ At(n, "idle") /\ ~mutex /\ worker[n].no < MaxAttempts
    /\ worker' = [worker EXCEPT ![n] = [pc |-> "check", no |-> @.no + 1, proc |-> None]]
    /\ UNCHANGED <<procs, control>>

Check(n) ==
    /\ At(n, "check")
    /\ Go(n, IF Flagged(n) THEN "ended" ELSE "prepared")
    /\ UNCHANGED <<procs, control>>

\* The callback that reports a prepared workspace looks once more.
Prepared(n) ==
    /\ At(n, "prepared")
    /\ Go(n, IF Flagged(n) THEN "ended" ELSE "record")
    /\ UNCHANGED <<procs, control>>

Record(n) ==
    /\ At(n, "record") /\ ~mutex
    /\ Go(n, IF env.serial THEN "claim" ELSE "launch")
    /\ UNCHANGED <<procs, control>>

(* A parked shell of the conversation.                                     *)
ClaimMiss(n) ==
    /\ At(n, "claim") /\ parked = None
    /\ Go(n, "launch")
    /\ UNCHANGED <<procs, control>>

\* Dead, or started for another model: retired.
ClaimRetires(n) ==
    /\ At(n, "claim") /\ parked # None
    /\ parked' = None
    /\ Kill({parked})
    /\ Go(n, "launch")
    /\ UNCHANGED <<owner, warm, mem, control>>

Claim(n) ==
    /\ At(n, "claim") /\ parked \in alive
    /\ GoWith(n, "rekey", parked)
    /\ parked' = None
    /\ UNCHANGED <<owner, alive, warm, mem, control>>

\* reassign_owner, and the prompt of the next turn
Rekey(n) ==
    /\ At(n, "rekey")
    /\ owner' = [owner EXCEPT ![worker[n].proc] = Attempt(n)]
    /\ Go(n, "turn")
    /\ UNCHANGED <<alive, warm, parked, mem, control>>

(* A prestarted process: assign_to_current_owner sets its owner, then     *)
(* looks at the flag; a refused process stays in the slot, dead.          *)
AssignWarm(n) ==
    /\ At(n, "launch") /\ env.serial /\ warm \in alive /\ owner[warm] = Idle
    /\ owner' = [owner EXCEPT ![warm] = Attempt(n)]
    /\ Go(n, "assigned")
    /\ UNCHANGED <<alive, warm, parked, mem, control>>

TakeWarm(n) ==
    /\ At(n, "assigned")
    /\ IF Flagged(n)
       THEN Kill({warm}) /\ Go(n, "launch") /\ UNCHANGED <<warm, mem>>
       ELSE /\ GoWith(n, "turn", warm) /\ warm' = None
            /\ mem' = [mem EXCEPT ![warm] = branch]
            /\ UNCHANGED alive
    /\ UNCHANGED <<owner, parked, control>>

(* A process of its own: started, registered by track, checked.           *)
Spawn(n) ==
    /\ At(n, "launch")
    /\ \E p \in Unused :
         /\ \A q \in Unused : p <= q
         /\ alive' = alive \cup {p}
         /\ owner' = [owner EXCEPT ![p] = Untracked]
         /\ GoWith(n, "register", p)
         /\ mem' = [mem EXCEPT ![p] = branch]
    /\ UNCHANGED <<warm, parked, control>>

SpawnFails(n) ==
    /\ At(n, "launch")
    /\ Go(n, "ended")
    /\ UNCHANGED <<procs, control>>

Register(n) ==
    /\ At(n, "register")
    /\ owner' = [owner EXCEPT ![worker[n].proc] = Attempt(n)]
    /\ Go(n, "confirm")
    /\ UNCHANGED <<alive, warm, parked, mem, control>>

Confirm_NoRecheck(n) ==
    /\ At(n, "confirm")
    /\ Go(n, "turn")
    /\ UNCHANGED <<procs, control>>

Confirm_LeavesProcess(n) ==
    /\ At(n, "confirm")
    /\ IF Flagged(n) THEN GoWith(n, "ended", None) ELSE Go(n, "turn")
    /\ UNCHANGED <<procs, control>>

Confirm(n) ==
    /\ At(n, "confirm")
    /\ IF Flagged(n)
       THEN Kill({worker[n].proc}) /\ GoWith(n, "ended", None)
       ELSE Go(n, "turn") /\ UNCHANGED alive
    /\ UNCHANGED <<owner, warm, parked, mem, control>>

----------------------------------------------------------------------------
(* The turn and its end.                                                   *)
Settle(n) ==
    /\ At(n, "turn") /\ worker[n].proc \in alive
    /\ Go(n, "settled")
    /\ UNCHANGED <<procs, control>>

\* The process is gone: the turn is over, whoever ended it.
TurnEnds(n) ==
    /\ At(n, "turn") /\ worker[n].proc \notin alive
    /\ GoWith(n, "ended", None)
    /\ UNCHANGED <<procs, control>>

\* A settled turn of a Serial conversation keeps its process: it is moved to
\* an owner no stop reaches, and then to the pool.
Unown(n) ==
    /\ At(n, "settled") /\ env.serial /\ worker[n].proc \in alive
    /\ owner' = [owner EXCEPT ![worker[n].proc] = Linger]
    /\ Go(n, "park")
    /\ UNCHANGED <<alive, warm, parked, mem, control>>

Park(n) ==
    /\ At(n, "park")
    /\ Kill({parked})
    /\ parked' = worker[n].proc
    /\ GoWith(n, "ended", None)
    /\ UNCHANGED <<owner, warm, mem, control>>

\* Otherwise its input is closed and the boundary is drained and terminated.
Reclaim(n) ==
    /\ At(n, "settled") /\ (~env.serial \/ worker[n].proc \notin alive)
    /\ Kill({worker[n].proc})
    /\ GoWith(n, "ended", None)
    /\ UNCHANGED <<owner, warm, parked, mem, control>>

\* runtime.finish, by the driver
Finish(n) ==
    /\ At(n, "ended") /\ ~mutex
    /\ flags' = flags \ {Attempt(n)}
    /\ Go(n, "idle")
    /\ UNCHANGED <<procs, request, mutex, branch, env>>

----------------------------------------------------------------------------
(* The other processes of the backend.                                     *)
Prewarm ==
    /\ env.serial /\ warm \notin alive
    /\ \A n \in Nodes : ~At(n, "assigned")
    /\ \E p \in Unused :
         /\ \A q \in Unused : p <= q
         /\ alive' = alive \cup {p}
         /\ owner' = [owner EXCEPT ![p] = Idle]
         /\ warm' = p
    /\ UNCHANGED <<worker, parked, mem, control>>

Dies(p) ==
    /\ p \in alive
    /\ Kill({p})
    /\ UNCHANGED <<worker, owner, warm, parked, mem, control>>

----------------------------------------------------------------------------
(* Requests that stop executions: the stop of a node (also the one that a *)
(* queued feedback verdict issues), the stop of the whole Run, and the    *)
(* edit of a conversation.  They hold the Run mutex throughout; a stop of  *)
(* the Run ends with a sweep after it is released.                         *)
Ask(kind) ==
    /\ request.pc = "none" /\ ~mutex /\ env.left > 0
    /\ \E ns \in SUBSET Running :
         /\ kind = "stop" => \E n \in Running : ns = {n}
         /\ kind \in {"run", "edit"} => ns = Running
         /\ LET todo == {Attempt(n) : n \in ns} IN
            request' = [pc |-> IF todo = {} THEN "stopped" ELSE "flag", kind |-> kind,
                        todo |-> todo, now |-> None, victims |-> {}]
    /\ mutex' = TRUE
    /\ env' = [env EXCEPT !.left = @ - 1]
    /\ UNCHANGED <<worker, procs, flags, branch>>

\* stop_owner, one attempt at a time: the flag, the registry, the kill
Flag(a) ==
    /\ request.pc = "flag" /\ a \in request.todo
    /\ flags' = flags \cup {a}
    /\ request' = [request EXCEPT !.pc = "collect", !.todo = @ \ {a}, !.now = a]
    /\ UNCHANGED <<worker, procs, mutex, branch, env>>

Collect ==
    /\ request.pc = "collect"
    /\ request' = [request EXCEPT !.pc = "kill",
                                  !.victims = {p \in alive : owner[p] = request.now}]
    /\ UNCHANGED <<worker, procs, flags, mutex, branch, env>>

KillVictims_Skipped ==
    /\ request.pc = "kill"
    /\ request' = [request EXCEPT !.pc = IF request.todo = {} THEN "stopped" ELSE "flag",
                                  !.now = None, !.victims = {}]
    /\ UNCHANGED <<worker, procs, flags, mutex, branch, env>>

KillVictims ==
    /\ request.pc = "kill"
    /\ Kill(request.victims)
    /\ request' = [request EXCEPT !.pc = IF request.todo = {} THEN "stopped" ELSE "flag",
                                  !.now = None, !.victims = {}]
    /\ UNCHANGED <<worker, owner, warm, parked, mem, flags, mutex, branch, env>>

\* An edit of the conversation commits the branched session file and retires
\* the shell that still holds the abandoned one.
Commit ==
    /\ request.pc = "stopped" /\ request.kind = "edit"
    /\ branch' = branch + 1
    /\ request' = [request EXCEPT !.pc = "unpark"]
    /\ UNCHANGED <<worker, procs, flags, mutex, env>>

Unpark ==
    /\ request.pc = "unpark"
    /\ Kill({parked}) /\ parked' = None
    /\ request' = NoRequest /\ mutex' = FALSE
    /\ UNCHANGED <<worker, owner, warm, mem, flags, branch, env>>

Release ==
    /\ request.pc = "stopped" /\ request.kind # "edit"
    /\ request' = IF request.kind = "run" THEN [request EXCEPT !.pc = "sweep"]
                  ELSE NoRequest
    /\ mutex' = FALSE
    /\ UNCHANGED <<worker, procs, flags, branch, env>>

\* terminate_run: every process of the Run, whatever its attempt
Sweep ==
    /\ request.pc = "sweep"
    /\ Kill({p \in alive : owner[p] \in Attempts})
    /\ request' = NoRequest
    /\ UNCHANGED <<worker, owner, warm, parked, mem, flags, mutex, branch, env>>

----------------------------------------------------------------------------
Launch(n) == Begin(n) \/ Check(n) \/ Prepared(n) \/ Record(n) \/ ClaimMiss(n)
    \/ ClaimRetires(n) \/ Claim(n) \/ Rekey(n) \/ AssignWarm(n) \/ TakeWarm(n)
    \/ Spawn(n) \/ SpawnFails(n) \/ Register(n) \/ Confirm(n)
End(n) == TurnEnds(n) \/ Unown(n) \/ Park(n) \/ Reclaim(n) \/ Finish(n)
Serve == (\E a \in Attempts : Flag(a)) \/ Collect \/ KillVictims \/ Commit \/ Unpark
    \/ Release \/ Sweep

Next ==
    \/ \E n \in Nodes : Launch(n) \/ Settle(n) \/ End(n)
    \/ Prewarm
    \/ \E p \in Procs : Dies(p)
    \/ \E kind \in env.can : Ask(kind)
    \/ Serve

Spec == Init /\ [][Next]_vars

\* A worker and a request run on threads of their own, and the mutex is always
\* released.  Nothing makes a turn settle: an engine may work for hours.
FairSpec ==
    /\ Spec
    /\ WF_vars(Serve)
    /\ \A n \in Nodes : WF_vars(Launch(n)) /\ WF_vars(End(n))

----------------------------------------------------------------------------
(* Properties.                                                             *)

Workers == [pc : {"idle", "check", "prepared", "record", "claim", "rekey", "launch",
                  "assigned", "register", "confirm", "turn", "settled", "park", "ended"},
            no : 0 .. MaxAttempts, proc : Procs \cup {None}]
Requests == [pc : {"none", "flag", "collect", "kill", "stopped", "unpark", "sweep"},
             kind : {"stop", "edit", "run"}, todo : SUBSET Attempts,
             now : Attempts \cup {None}, victims : SUBSET Procs]

\* Type invariant of the workers, the registry and the request.
TypeOK ==
    /\ worker \in [Nodes -> Workers]
    /\ owner \in [Procs -> Owners \cup {None}]
    /\ alive \subseteq Procs
    /\ warm \in Procs \cup {None} /\ parked \in Procs \cup {None}
    /\ flags \subseteq Attempts
    /\ request \in Requests
    /\ mutex \in BOOLEAN
    /\ branch \in Nat /\ mem \in [Procs -> Nat]
    /\ env \in [nodes : SUBSET Nodes, serial : BOOLEAN, can : SUBSET {"stop", "edit", "run"},
                left : Nat]

Working(n) == At(n, "turn") /\ worker[n].proc \in alive

\* Once a stop has gone through the registry, no process works for the
\* stopped attempt: one that was started but not yet registered finds the
\* flag when it registers.  A parked shell that a Serial turn claims changes
\* its owner without looking at the flag, so Serial Runs are excepted.
StopHolds ==
    ~env.serial =>
    \A n \in Nodes : Flagged(n) /\ Attempt(n) \notin request.todo \cup {request.now}
                         => ~Working(n)

\* Every stopped attempt of a Graph Run ends, without waiting for the engine
\* to finish.
StopEnds ==
    \A a \in Attempts :
        (a \in flags /\ ~env.serial) ~> (worker[a[2]].pc = "idle" \/ worker[a[2]].no # a[3])

\* A flag never outlives the worker of its attempt.
NoLeftoverFlag ==
    \A a \in flags : worker[a[2]].no = a[3] /\ worker[a[2]].pc # "idle"

\* A live process always has somebody who will end it: the worker that holds
\* it, the pool of prestarted processes or the pool of parked shells.
Accounted ==
    alive \subseteq {warm, parked} \cup {worker[n].proc : n \in Nodes}

\* One engine process at a time serves a conversation and writes its session
\* file.
OneEngine ==
    env.serial => \A p, q \in {r \in alive : owner[r] \in Attempts \cup {Linger}} : p = q

\* The registry is exact: no stop flag outlives its execution, no engine is
\* shared, and every live process is known to whoever has to kill it.
ControlSafe == TypeOK /\ NoLeftoverFlag /\ OneEngine /\ Accounted
============================================================================
