------------------------------ MODULE Prewarm ------------------------------
(***************************************************************************)
(* The pool of prestarted engine processes: engine/prewarm.rs, with the   *)
(* factories of engine/process_prewarm.rs and of warm_node in engine.rs,  *)
(* and the places that invalidate it in server.rs.                        *)
(*                                                                         *)
(* One pool is one slot: at most one ready worker, one pending request and *)
(* one thread that prepares.  Every operation below is one critical       *)
(* section of the pool's mutex; starting, probing and retiring a process  *)
(* happen outside of it and are steps of their own.  A worker is          *)
(* identified by the order of its start, and a request by its generation, *)
(* the value of the pool's epoch.                                          *)
(*                                                                         *)
(* An operator X_Fault, defined before X, is a faulty variant of X.        *)
(***************************************************************************)
EXTENDS Naturals

CONSTANTS
    Sels,       \* what is selected: a repository, or a conversation
    Hashes,     \* contents of the session file; a pool of processes has one
    None,       \* no worker, no request, no key
    MaxWorkers, \* bound: processes started
    MaxEpoch,   \* bound: requests and invalidations
    MaxChanges  \* bound: changes of the settings a process reads when it starts

ASSUME BoundsAssumption ==
    /\ MaxWorkers \in Nat /\ MaxEpoch \in Nat /\ MaxChanges \in Nat

Keys == [sel : Sels, hash : Hashes]
Workers == 1 .. MaxWorkers
Jobs == [key : Keys, gen : 0 .. MaxEpoch]

ASSUME NoneAssumption == None \notin Workers \cup Keys \cup Jobs \cup Sels

VARIABLES
    slot,     \* the State record behind the mutex
    epoch,    \* the atomic the tickets compare themselves with
    thread,   \* the preparing thread: its place, its job and what it holds
    proc,     \* per worker: its process, its key and the settings it started with
    doomed,   \* workers that a caller is retiring outside the mutex
    taken,    \* workers handed to an execution
    settings, \* [now, applied]: changes made, changes whose invalidation is over
    wanted    \* what the last request selected since the last invalidation

vars == <<slot, epoch, thread, proc, doomed, taken, settings, wanted>>

----------------------------------------------------------------------------
Off == [pc |-> "off", job |-> None, old |-> {}, made |-> None]

Unborn == [status |-> "unborn", key |-> None, basis |-> 0]

Init ==
    /\ slot = [ready |-> None, target |-> None, pending |-> None, preparing |-> None,
               retired |-> {}, running |-> FALSE, stopped |-> FALSE]
    /\ epoch = 0
    /\ thread = Off
    /\ proc = [w \in Workers |-> Unborn]
    /\ doomed = {} /\ taken = {}
    /\ settings = [now |-> 0, applied |-> 0]
    /\ wanted = None

\* Ticket::cancelled, for the job the thread is working on
Cancelled == epoch # thread.job.gen

Alive(w) == proc[w].status = "live"
Retire(ws) == proc' = [w \in Workers |->
                        IF w \in ws THEN [proc[w] EXCEPT !.status = "reaped"] ELSE proc[w]]
InSlot == IF slot.ready = None THEN {} ELSE {slot.ready}

----------------------------------------------------------------------------
(* Requests.  schedule answers at once when the key is already pending,    *)
(* being prepared or ready; otherwise it retires what is ready and becomes *)
(* the one pending request, starting the thread when none runs.            *)
Covered(k) ==
    \/ slot.pending # None /\ slot.pending.key = k
    \/ slot.preparing = [key |-> k, gen |-> epoch]
    \/ slot.ready # None /\ proc[slot.ready].key = k /\ Alive(slot.ready)

Enqueue(k) ==
    /\ epoch < MaxEpoch
    /\ epoch' = epoch + 1
    /\ slot' = [slot EXCEPT !.target = k, !.retired = @ \cup InSlot, !.ready = None,
                            !.pending = [key |-> k, gen |-> epoch + 1], !.running = TRUE]
    /\ thread' = IF slot.running THEN thread ELSE [Off EXCEPT !.pc = "top"]
    /\ UNCHANGED <<proc, doomed>>

\* The thread cannot be started: the request is dropped, and the workers it
\* displaced are retired by the caller.
EnqueueFails(k) ==
    /\ ~slot.running
    /\ epoch < MaxEpoch
    /\ epoch' = epoch + 1
    /\ slot' = [slot EXCEPT !.target = k, !.retired = {}, !.ready = None]
    /\ doomed' = doomed \cup slot.retired \cup InSlot
    /\ UNCHANGED <<thread, proc>>

Schedule(k) ==
    \/ /\ Covered(k)
       /\ slot' = [slot EXCEPT !.target = k]
       /\ UNCHANGED <<epoch, thread, proc, doomed>>
    \/ ~Covered(k) /\ (Enqueue(k) \/ EnqueueFails(k))

Request(k) ==
    /\ ~slot.stopped
    /\ Schedule(k)
    /\ wanted' = k.sel
    /\ UNCHANGED <<taken, settings>>

Refill(k) ==
    /\ ~slot.stopped /\ slot.target = k
    /\ Schedule(k)
    /\ UNCHANGED <<taken, settings, wanted>>

(* invalidate and shutdown: everything the pool holds is retired, by the  *)
(* caller, after the mutex is released.                                   *)
Clear_KeepsEpoch(stop) ==
    /\ slot' = [slot EXCEPT !.stopped = @ \/ stop, !.target = None, !.pending = None,
                            !.retired = {}, !.ready = None]
    /\ doomed' = doomed \cup slot.retired \cup InSlot
    /\ wanted' = None
    /\ UNCHANGED <<epoch, thread, proc, taken>>

Clear_LeavesRetired(stop) ==
    /\ epoch' = epoch + 1
    /\ slot' = [slot EXCEPT !.stopped = @ \/ stop, !.target = None, !.pending = None,
                            !.ready = None]
    /\ doomed' = doomed \cup slot.retired \cup InSlot
    /\ wanted' = None
    /\ UNCHANGED <<thread, proc, taken>>

Clear(stop) ==
    /\ epoch' = epoch + 1
    /\ slot' = [slot EXCEPT !.stopped = @ \/ stop, !.target = None, !.pending = None,
                            !.retired = {}, !.ready = None]
    /\ doomed' = doomed \cup slot.retired \cup InSlot
    /\ wanted' = None
    /\ UNCHANGED <<thread, proc, taken>>

\* A login, a logout or a changed extension: processes that are already
\* started have read the old settings, so the change is followed by an
\* invalidation, and only then is the change in force.
ChangeSettings ==
    /\ settings.now < MaxChanges
    /\ settings' = [settings EXCEPT !.now = @ + 1]
    /\ UNCHANGED <<slot, epoch, thread, proc, doomed, taken, wanted>>

Invalidate ==
    /\ epoch < MaxEpoch
    /\ Clear(FALSE)
    /\ settings' = [settings EXCEPT !.applied = settings.now]

Shutdown ==
    /\ ~slot.stopped
    /\ Clear(TRUE)
    /\ UNCHANGED settings

RetireDoomed(w) ==
    /\ w \in doomed
    /\ doomed' = doomed \ {w}
    /\ Retire({w})
    /\ UNCHANGED <<slot, epoch, thread, taken, settings, wanted>>

----------------------------------------------------------------------------
(* take_if.  A process that has died is retired; one whose new owner was  *)
(* stopped is killed by assign_to_current_owner and stays in the slot.    *)
TakeDead(k) ==
    /\ slot.ready # None /\ proc[slot.ready].key = k /\ ~Alive(slot.ready)
    /\ slot' = [slot EXCEPT !.ready = None]
    /\ doomed' = doomed \cup {slot.ready}
    /\ UNCHANGED <<epoch, thread, proc, taken, settings, wanted>>

TakeRefused(k) ==
    /\ slot.ready # None /\ proc[slot.ready].key = k /\ Alive(slot.ready)
    /\ proc' = [proc EXCEPT ![slot.ready].status = "dead"]
    /\ UNCHANGED <<slot, epoch, thread, doomed, taken, settings, wanted>>

Take(k) ==
    /\ slot.ready # None /\ proc[slot.ready].key = k /\ Alive(slot.ready)
    /\ slot' = [slot EXCEPT !.ready = None]
    /\ taken' = taken \cup {slot.ready}
    /\ UNCHANGED <<epoch, thread, proc, doomed, settings, wanted>>

Dies(w) ==
    /\ Alive(w) /\ w \notin taken
    /\ proc' = [proc EXCEPT ![w].status = "dead"]
    /\ UNCHANGED <<slot, epoch, thread, doomed, taken, settings, wanted>>

----------------------------------------------------------------------------
(* prepare_loop, one step per critical section or process operation.      *)
Top ==
    /\ thread.pc = "top"
    /\ thread' = [thread EXCEPT !.pc = "retire", !.job = slot.pending, !.old = slot.retired]
    /\ slot' = [slot EXCEPT !.pending = None, !.retired = {}, !.preparing = slot.pending]
    /\ UNCHANGED <<epoch, proc, doomed, taken, settings, wanted>>

RetireOld ==
    /\ thread.pc = "retire"
    /\ Retire(thread.old)
    /\ thread' = [thread EXCEPT !.pc = IF thread.job = None THEN "exit" ELSE "start",
                                !.old = {}]
    /\ UNCHANGED <<slot, epoch, doomed, taken, settings, wanted>>

Exit_Blind ==
    /\ thread.pc = "exit"
    /\ slot' = [slot EXCEPT !.running = FALSE] /\ thread' = Off
    /\ UNCHANGED <<epoch, proc, doomed, taken, settings, wanted>>

\* A request can arrive while old workers are being retired.
Exit ==
    /\ thread.pc = "exit"
    /\ IF slot.pending # None
       THEN thread' = [thread EXCEPT !.pc = "top"] /\ UNCHANGED slot
       ELSE slot' = [slot EXCEPT !.running = FALSE] /\ thread' = Off
    /\ UNCHANGED <<epoch, proc, doomed, taken, settings, wanted>>

\* The factory checks its ticket, starts a process and registers it.
Start ==
    /\ thread.pc = "start" /\ ~Cancelled
    /\ \E w \in Workers :
         /\ proc[w].status = "unborn" /\ \A v \in 1 .. w - 1 : proc[v].status # "unborn"
         /\ proc' = [proc EXCEPT ![w] = [status |-> "live", key |-> thread.job.key,
                                         basis |-> settings.now]]
         /\ thread' = [thread EXCEPT !.pc = "probe", !.made = w]
    /\ UNCHANGED <<slot, epoch, doomed, taken, settings, wanted>>

\* Superseded, or the binding, the session file or the start failed.
StartFails ==
    /\ thread.pc = "start"
    /\ thread' = [thread EXCEPT !.pc = "place"]
    /\ UNCHANGED <<slot, epoch, proc, doomed, taken, settings, wanted>>

\* The process answered; starting it may have written the session file.
Probe ==
    /\ thread.pc = "probe" /\ ~Cancelled /\ Alive(thread.made)
    /\ \E h \in Hashes : proc' = [proc EXCEPT ![thread.made].key.hash = h]
    /\ thread' = [thread EXCEPT !.pc = "place"]
    /\ UNCHANGED <<slot, epoch, doomed, taken, settings, wanted>>

\* Superseded, dead, refused or no answer in time: killed and reaped.
ProbeFails ==
    /\ thread.pc = "probe"
    /\ Retire({thread.made})
    /\ thread' = [thread EXCEPT !.pc = "place", !.made = None]
    /\ UNCHANGED <<slot, epoch, doomed, taken, settings, wanted>>

Place ==
    /\ thread.pc = "place"
    /\ IF thread.made # None /\ ~Cancelled /\ ~slot.stopped
       THEN /\ slot' = [slot EXCEPT !.ready = thread.made, !.preparing = None,
                                    !.target = proc[thread.made].key]
            /\ thread' = [Off EXCEPT !.pc = "top"]
       ELSE /\ slot' = [slot EXCEPT !.preparing = None]
            /\ thread' = [thread EXCEPT !.pc = "discard"]
    /\ UNCHANGED <<epoch, proc, doomed, taken, settings, wanted>>

Discard ==
    /\ thread.pc = "discard"
    /\ Retire({thread.made} \ {None})
    /\ thread' = [Off EXCEPT !.pc = "top"]
    /\ UNCHANGED <<slot, epoch, doomed, taken, settings, wanted>>

----------------------------------------------------------------------------
Prepare == Top \/ RetireOld \/ Exit \/ Start \/ StartFails \/ Probe \/ ProbeFails
              \/ Place \/ Discard

Next ==
    \/ \E k \in Keys : Request(k) \/ Refill(k) \/ TakeDead(k) \/ TakeRefused(k) \/ Take(k)
    \/ ChangeSettings \/ Invalidate \/ Shutdown
    \/ \E w \in Workers : RetireDoomed(w) \/ Dies(w)
    \/ Prepare

Spec == Init /\ [][Next]_vars

\* The preparing thread runs until it leaves, probes end (30 s), and a caller
\* that holds workers to retire retires them.
FairSpec == Spec /\ WF_vars(Prepare) /\ \A w \in Workers : WF_vars(RetireDoomed(w))

----------------------------------------------------------------------------
(* Properties.                                                             *)

Slots == [ready : Workers \cup {None}, target : Keys \cup {None},
          pending : Jobs \cup {None}, preparing : Jobs \cup {None},
          retired : SUBSET Workers, running : BOOLEAN, stopped : BOOLEAN]
Threads == [pc : {"off", "top", "retire", "exit", "start", "probe", "place", "discard"},
            job : Jobs \cup {None}, old : SUBSET Workers, made : Workers \cup {None}]
Processes == [status : {"unborn", "live", "dead", "reaped"}, key : Keys \cup {None},
              basis : 0 .. MaxChanges]

\* Type invariant of the slot, its thread and the processes.
TypeOK ==
    /\ slot \in Slots /\ epoch \in 0 .. MaxEpoch + 1
    /\ thread \in Threads /\ proc \in [Workers -> Processes]
    /\ doomed \subseteq Workers /\ taken \subseteq Workers
    /\ settings \in [now : 0 .. MaxChanges, applied : 0 .. MaxChanges]
    /\ wanted \in Sels \cup {None}

Owners == {"slot", "retired", "thread", "old", "caller", "execution"}

Held(o) ==
    CASE o = "slot"      -> InSlot
      [] o = "retired"   -> slot.retired
      [] o = "thread"    -> {thread.made} \ {None}
      [] o = "old"       -> thread.old
      [] o = "caller"    -> doomed
      [] o = "execution" -> taken

\* Every process that was started and is not reaped has exactly one owner:
\* the slot, its list of retired workers, the thread, a caller that retires
\* it or the execution that took it.  No interleaving of requests,
\* invalidations and takes forgets a process or hands one out twice.
OneOwner ==
    \A w \in Workers :
        /\ proc[w].status \in {"live", "dead"} <=> \E o \in Owners : w \in Held(o)
        /\ \A o, p \in Owners : o # p => ~(w \in Held(o) /\ w \in Held(p))

\* The worker in the slot is the one the latest request asked for: a refill
\* by an older execution, or a preparation that ends late, never undoes a
\* newer selection or an invalidation.
ReadyIsWanted ==
    slot.ready # None =>
        proc[slot.ready].key = slot.target /\ slot.target.sel = wanted

\* An execution never gets a process that was started before a change of
\* login or extensions whose invalidation is over.
TakesFresh ==
    [][\A w \in taken' \ taken : proc[w].basis >= settings.applied]_vars

\* A request that no later one supersedes is prepared, also when it arrives
\* while the thread is about to leave.
RequestServed ==
    \A g \in 1 .. MaxEpoch :
        slot.pending # None /\ slot.pending.gen = g
            ~> epoch # g \/ (thread.job # None /\ thread.job.gen = g)

\* After a shutdown the thread leaves and every process is reaped, unless an
\* execution has taken it.
ShutdownDrains ==
    slot.stopped ~> /\ ~slot.running
                    /\ \A w \in Workers \ taken : proc[w].status \in {"unborn", "reaped"}

\* Every process the pool made has exactly one owner, and the one it keeps
\* ready is the one last asked for.
PoolSafe == TypeOK /\ OneOwner /\ ReadyIsWanted

\* A request for a process is served, and a shutdown leaves none behind.
PoolServes == RequestServed /\ ShutdownDrains
============================================================================
