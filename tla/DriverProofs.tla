---------------------------- MODULE DriverProofs ----------------------------
(***************************************************************************)
(* Proofs about the driver of a Run: the flag, the generation and the      *)
(* completion channel keep their promises for any number of nodes,         *)
(* threads, requests and scenarios.                                        *)
(***************************************************************************)
EXTENDS Driver, FiniteSetTheorems, TLAPS

(* The places of the loop at which a driver may own jobs or workers.       *)
Busy == {"observe", "schedule", "spawn", "collect", "wait", "finish"}

(* The workers a driver waits for and the results it has received.         *)
Owned(d) == {n \in Nodes : worker[n] = d} \cup thread[d].queue

(* A thread leaves the loop only after its workers have hung up.           *)
LeavesNoWorker ==
    \A d \in Drivers :
        thread[d].pc \in {"off", "clear", "recheck", "redrive", "resignal"}
            => sent[d] = 0 /\ \A n \in Nodes : worker[n] # d

(* Jobs are held only while they are spawned, and are nobody else's yet.   *)
JobsAreNew ==
    \A d \in Drivers : \A n \in thread[d].jobs :
        /\ thread[d].pc = "spawn" /\ node[n] = "running"
        /\ worker[n] = "none" /\ n \notin thread[d].queue

(* A node with a worker runs, and so does one whose result is queued.      *)
OwnedRun ==
    /\ \A n \in Nodes : worker[n] # "none" => node[n] = "running"
    /\ \A d \in Drivers : ~thread[d].error =>
          \A n \in thread[d].queue : node[n] = "running" /\ worker[n] = "none"

(* in_flight counts exactly what the driver waits for; a driver that goes  *)
(* idle, publishes or leaves waits for nothing.                            *)
InFlightCounts ==
    \A d \in Drivers : ~thread[d].error =>
        /\ thread[d].inFlight = Cardinality(Owned(d))
        /\ thread[d].pc \notin Busy => thread[d].inFlight = 0

(* An error is a failing store, and ends the loop.                         *)
ErrorsLeave ==
    \A d \in Drivers : thread[d].error =>
        thread[d].pc \in {"join", "clear", "recheck"} /\ "storage" \in env.can

(* A publication begins when nothing runs, and holds off everything else.  *)
PublicationQuiet ==
    /\ phase \in {"publishing", "publication_failed"} => Running = {}
    /\ \A d \in Drivers : thread[d].pc = "publish" => phase = "publishing"

(* The planning flag is set exactly during a turn.                         *)
FlagIsTurn == planning <=> planner # "none"

IInv ==
    /\ TypeOK /\ OneDriver /\ NoMissedSignal /\ NoOrphan
    /\ LeavesNoWorker /\ JobsAreNew /\ OwnedRun /\ InFlightCounts
    /\ ErrorsLeave /\ PublicationQuiet /\ FlagIsTurn

-----------------------------------------------------------------------------
(* A driver that is idle, publishing or leaving without an error owns      *)
(* nothing.                                                                *)
LEMMA IdleOwnsNothing ==
  ASSUME IInv, NEW d \in Drivers, ~thread[d].error, thread[d].pc \notin Busy
  PROVE  thread[d].queue = {} /\ \A n \in Nodes : worker[n] # d
<1>1. IsFiniteSet(Owned(d))
  <2>1. Owned(d) \subseteq Nodes BY DEF IInv, TypeOK, Threads, Owned
  <2>. QED BY <2>1, FS_Subset, DriverAssumption
<1>2. Cardinality(Owned(d)) = 0 BY DEF IInv, InFlightCounts
<1>3. Owned(d) = {} BY <1>1, <1>2, FS_EmptySet
<1>. QED BY <1>3 DEF Owned

(* A raised generation marks every thread and moves at most a waiting one. *)
LEMMA BumpEffect ==
  ASSUME NEW t \in [Drivers -> Threads], Bump(t)
  PROVE  /\ thread' \in [Drivers -> Threads]
         /\ \A d \in Drivers :
              /\ thread'[d].jobs = t[d].jobs /\ thread'[d].inFlight = t[d].inFlight
              /\ thread'[d].queue = t[d].queue /\ thread'[d].error = t[d].error
              /\ thread'[d].pc = t[d].pc \/ (t[d].pc = "wait" /\ thread'[d].pc = "observe")
         /\ \A d \in Drivers : t[d].pc = "wait" =>
              \E e \in Drivers : t[e].pc = "wait" /\ thread'[e].pc = "observe"
<1>. DEFINE marked == [d \in Drivers |->
                     IF t[d].pc = "off" THEN t[d] ELSE [t[d] EXCEPT !.stale = TRUE]]
<1>1. ASSUME NEW d \in Drivers
      PROVE  /\ marked[d] \in Threads /\ [marked[d] EXCEPT !.pc = "observe"] \in Threads
             /\ marked[d].pc = t[d].pc
             /\ marked[d].jobs = t[d].jobs /\ marked[d].inFlight = t[d].inFlight
             /\ marked[d].queue = t[d].queue /\ marked[d].error = t[d].error
  <2>1. t[d] \in Threads OBVIOUS
  <2>2. marked[d] = t[d] \/ marked[d] = [t[d] EXCEPT !.stale = TRUE] OBVIOUS
  <2>3. [t[d] EXCEPT !.stale = TRUE] \in Threads BY <2>1 DEF Threads
  <2>. HIDE DEF marked
  <2>. QED BY <2>1, <2>2, <2>3 DEF Threads, Places
<1>2. \/ (\A d \in Drivers : t[d].pc # "wait") /\ thread' = marked
      \/ \E d \in Drivers : t[d].pc = "wait" /\ thread' = [marked EXCEPT ![d].pc = "observe"]
  BY DEF Bump
<1>3. DOMAIN marked = Drivers /\ marked = [d \in Drivers |-> marked[d]] OBVIOUS
<1>. HIDE DEF marked
<1>4. CASE (\A d \in Drivers : t[d].pc # "wait") /\ thread' = marked
  BY <1>1, <1>3, <1>4
<1>5. ASSUME NEW d \in Drivers, t[d].pc = "wait", thread' = [marked EXCEPT ![d].pc = "observe"]
      PROVE  /\ thread' \in [Drivers -> Threads] /\ thread'[d].pc = "observe"
             /\ \A e \in Drivers :
                  /\ thread'[e].jobs = t[e].jobs /\ thread'[e].inFlight = t[e].inFlight
                  /\ thread'[e].queue = t[e].queue /\ thread'[e].error = t[e].error
                  /\ thread'[e].pc = t[e].pc \/ (t[e].pc = "wait" /\ thread'[e].pc = "observe")
  <2>1. thread'[d] = [marked[d] EXCEPT !.pc = "observe"] BY <1>3, <1>5
  <2>2. \A e \in Drivers : e # d => thread'[e] = marked[e] BY <1>3, <1>5
  <2>3. thread' \in [Drivers -> Threads] BY <1>1, <1>3, <1>5, <2>1, <2>2
  <2>4. /\ thread'[d].pc = "observe" /\ thread'[d].jobs = marked[d].jobs
        /\ thread'[d].inFlight = marked[d].inFlight /\ thread'[d].queue = marked[d].queue
        /\ thread'[d].error = marked[d].error
    BY <2>1, <1>1 DEF Threads
  <2>5. ASSUME NEW e \in Drivers
        PROVE  /\ thread'[e].jobs = t[e].jobs /\ thread'[e].inFlight = t[e].inFlight
               /\ thread'[e].queue = t[e].queue /\ thread'[e].error = t[e].error
               /\ thread'[e].pc = t[e].pc \/ (t[e].pc = "wait" /\ thread'[e].pc = "observe")
    <3>1. CASE e = d BY <3>1, <1>1, <1>5, <2>4
    <3>2. CASE e # d BY <3>2, <1>1, <2>2
    <3>. QED BY <3>1, <3>2
  <2>. QED BY <2>3, <2>4, <2>5
<1>. QED BY <1>2, <1>4, <1>5

(* What every step shows of a thread that moves without taking or losing   *)
(* work: the others stand still, and it keeps its jobs, its count and its  *)
(* queue.                                                                  *)
Moves(d, pc, error) ==
    /\ \A e \in Drivers : e # d => thread'[e] = thread[e]
    /\ thread'[d].pc = pc /\ thread'[d].error = error
    /\ thread'[d].jobs = thread[d].jobs /\ thread'[d].inFlight = thread[d].inFlight
    /\ thread'[d].queue = thread[d].queue

(* Every thread keeps what it holds.                                       *)
KeepHoldings ==
    \A e \in Drivers :
        /\ thread'[e].jobs = thread[e].jobs /\ thread'[e].inFlight = thread[e].inFlight
        /\ thread'[e].queue = thread[e].queue /\ thread'[e].error = thread[e].error

(* No node begins or stops running, and no publication begins.             *)
KeepRunning == \A n \in Nodes : node'[n] = "running" <=> node[n] = "running"

Publishing == {"publishing", "publication_failed"}

\* A Run without a driver satisfies the invariant.
LEMMA InitInv == Init => IInv
<1> SUFFICES ASSUME Init PROVE IInv
  OBVIOUS
<1> USE DriverAssumption
<1>1. Off \in Threads BY DEF Off, Threads, Places
<1>2. TypeOK BY <1>1 DEF Init, TypeOK, Statuses
<1>3. \A d \in Drivers : thread[d] = Off /\ sent[d] = 0 /\ \A n \in Nodes : worker[n] # d
  BY DEF Init
<1>4. Running = {} BY DEF Init, Running
<1>5. OneDriver /\ NoMissedSignal BY <1>3 DEF Init, OneDriver, NoMissedSignal, InLoop, At, Off
<1>6. NoOrphan BY <1>4 DEF NoOrphan
<1>7. LeavesNoWorker /\ JobsAreNew /\ ErrorsLeave
  BY <1>3 DEF LeavesNoWorker, JobsAreNew, ErrorsLeave, Off
<1>8. OwnedRun BY <1>3 DEF Init, OwnedRun, Off
<1>9. InFlightCounts
  <2>1. ASSUME NEW d \in Drivers PROVE Owned(d) = {} BY <1>3 DEF Owned, Off
  <2>. QED BY <2>1, <1>3, FS_EmptySet DEF InFlightCounts, Off
<1>10. PublicationQuiet /\ FlagIsTurn BY <1>3, <1>4 DEF Init, PublicationQuiet, FlagIsTurn, Off
<1>. QED BY <1>2, <1>5, <1>6, <1>7, <1>8, <1>9, <1>10 DEF IInv

-----------------------------------------------------------------------------
(* The kinds of steps.                                                     *)

(* A driver moves inside its loop.                                         *)
LEMMA MoveInv ==
  ASSUME IInv, TypeOK', FlagIsTurn', NEW d \in Drivers, NEW pc, NEW error,
         Moves(d, pc, error), KeepRunning, UNCHANGED <<driving, worker, sent>>,
         env'.can = env.can, InLoop(d), InLoop(d)',
         thread[d].pc = "spawn" => thread[d].jobs = {},
         pc \in Busy \/ error \/ thread[d].inFlight = 0,
         error => pc \in {"join", "clear"} /\ "storage" \in env.can,
         thread[d].error => error,
         pc = "clear" => sent[d] = 0 /\ \A n \in Nodes : worker[n] # d,
         pc = "wait" => ~thread'[d].stale /\ thread[d].queue = {},
         pc = "publish" => phase' = "publishing",
         phase' \in Publishing => phase \in Publishing \/ Running = {}
  PROVE  IInv'
<1>1. \A e \in Drivers : InLoop(e)' <=> InLoop(e) BY DEF InLoop, Moves
<1>2. \A e \in Drivers : e # d => thread[e].pc \in {"off", "recheck", "redrive", "resignal"}
  BY DEF IInv, OneDriver, InLoop
<1>3. OneDriver' BY <1>1 DEF IInv, OneDriver
<1>4. NoMissedSignal' BY <1>2 DEF NoMissedSignal, At, Moves
<1>5. NoOrphan' BY <1>1 DEF IInv, NoOrphan, Running, KeepRunning, Moves, TypeOK
<1>6. LeavesNoWorker' BY DEF IInv, LeavesNoWorker, Moves, InLoop
<1>7. JobsAreNew' BY DEF IInv, JobsAreNew, Moves, KeepRunning, TypeOK, Threads
<1>8. OwnedRun' BY DEF IInv, OwnedRun, Moves, KeepRunning, TypeOK, Threads
<1>9. InFlightCounts'
  <2>1. \A e \in Drivers : Owned(e)' = Owned(e) BY DEF Owned, Moves
  <2>. QED BY <2>1 DEF IInv, InFlightCounts, Moves
<1>10. ErrorsLeave' BY DEF IInv, ErrorsLeave, Moves
<1>11. PublicationQuiet'
  BY <1>2 DEF IInv, PublicationQuiet, Moves, KeepRunning, Running, Publishing
<1>. QED BY <1>3, <1>4, <1>5, <1>6, <1>7, <1>8, <1>9, <1>10, <1>11 DEF IInv

(* A request, a turn or a failed start changes the Run and no thread.      *)
LEMMA StateInv ==
  ASSUME IInv, TypeOK', FlagIsTurn', KeepRunning,
         UNCHANGED <<thread, driving, worker, sent>>, env'.can = env.can,
         phase' \in Publishing => phase \in Publishing,
         \A d \in Drivers : thread[d].pc = "publish" => phase' = "publishing"
  PROVE  IInv'
<1>1. \A e \in Drivers : InLoop(e)' <=> InLoop(e) BY DEF InLoop
<1>2. OneDriver' BY <1>1 DEF IInv, OneDriver
<1>3. NoMissedSignal' BY DEF IInv, NoMissedSignal, At
<1>4. NoOrphan' BY <1>1 DEF IInv, NoOrphan, Running, KeepRunning
<1>5. LeavesNoWorker' /\ ErrorsLeave' BY DEF IInv, LeavesNoWorker, ErrorsLeave
<1>6. JobsAreNew' BY DEF IInv, JobsAreNew, KeepRunning, TypeOK, Threads
<1>7. OwnedRun' BY DEF IInv, OwnedRun, KeepRunning, TypeOK, Threads
<1>8. InFlightCounts'
  <2>1. \A e \in Drivers : Owned(e)' = Owned(e) BY DEF Owned
  <2>. QED BY <2>1 DEF IInv, InFlightCounts
<1>9. PublicationQuiet' BY DEF IInv, PublicationQuiet, KeepRunning, Running, Publishing
<1>. QED BY <1>2, <1>3, <1>4, <1>5, <1>6, <1>7, <1>8, <1>9 DEF IInv

(* Threads outside the loop own nothing, whichever way they came out.      *)
LEMMA OutsideOwnsNothing ==
  ASSUME IInv, NEW d \in Drivers, thread[d].pc \in {"off", "redrive", "resignal"}
  PROVE  /\ thread[d].jobs = {} /\ thread[d].queue = {} /\ thread[d].inFlight = 0
         /\ ~thread[d].error /\ thread[d].error \in BOOLEAN
<1>1. ~thread[d].error BY DEF IInv, ErrorsLeave
<1>2. thread[d].inFlight = 0 /\ thread[d].pc \notin Busy
  BY <1>1 DEF IInv, InFlightCounts, Busy
<1>3. thread[d].queue = {} BY <1>1, <1>2, IdleOwnsNothing
<1>4. thread[d].jobs = {} /\ thread[d].error \in BOOLEAN
  BY DEF IInv, JobsAreNew, TypeOK, Threads
<1>. QED BY <1>1, <1>2, <1>3, <1>4

(* A signal: nobody sleeps after it.                                       *)
LEMMA WakeInv ==
  ASSUME IInv, TypeOK', FlagIsTurn', KeepHoldings,
         UNCHANGED <<driving, node, worker>>, env'.can = env.can,
         phase' \in Publishing => phase \in Publishing,
         \A d \in Drivers : thread[d].pc = "publish" => phase' = "publishing",
         \A d \in Drivers : sent[d] = 0 => sent'[d] = 0,
         \A d \in Drivers : \/ thread'[d].pc = thread[d].pc /\ thread[d].pc # "wait"
                            \/ thread[d].pc = "wait" /\ thread'[d].pc = "observe"
                            \/ /\ thread[d].pc \in {"redrive", "resignal"}
                               /\ thread'[d].pc = "off"
  PROVE  IInv'
<1>1. \A e \in Drivers : InLoop(e)' <=> InLoop(e) BY DEF InLoop
<1>2. OneDriver' BY <1>1 DEF IInv, OneDriver
<1>3. NoMissedSignal' BY DEF NoMissedSignal, At
<1>4. NoOrphan' BY <1>1 DEF IInv, NoOrphan, Running, KeepHoldings
<1>5. LeavesNoWorker' BY DEF IInv, LeavesNoWorker
<1>6. ErrorsLeave' BY DEF IInv, ErrorsLeave, KeepHoldings
<1>7. JobsAreNew' BY DEF IInv, JobsAreNew, KeepHoldings
<1>8. OwnedRun' BY DEF IInv, OwnedRun, KeepHoldings
<1>9. InFlightCounts'
  <2>1. \A e \in Drivers : Owned(e)' = Owned(e) BY DEF Owned, KeepHoldings
  <2>. QED BY <2>1 DEF IInv, InFlightCounts, KeepHoldings, Busy
<1>10. PublicationQuiet' BY DEF IInv, PublicationQuiet, Running, Publishing
<1>. QED BY <1>2, <1>3, <1>4, <1>5, <1>6, <1>7, <1>8, <1>9, <1>10 DEF IInv

(* A new driver enters its loop; the one that started it may be leaving.   *)
LEMMA StartInv ==
  ASSUME IInv, TypeOK', FlagIsTurn', KeepHoldings, ~driving, driving',
         UNCHANGED <<node, phase, worker, sent>>, env'.can = env.can, NEW d \in Drivers,
         thread[d].pc \in {"off", "redrive"}, thread'[d].pc = "observe",
         \A e \in Drivers : e # d => \/ thread'[e] = thread[e]
                                     \/ thread[e].pc = "redrive" /\ thread'[e].pc = "off"
  PROVE  IInv'
<1>1. \A e \in Drivers : ~InLoop(e) /\ (InLoop(e)' <=> e = d)
  BY DEF IInv, OneDriver, InLoop
<1>2. OneDriver' BY <1>1 DEF OneDriver, TypeOK
<1>3. NoMissedSignal' BY <1>1 DEF NoMissedSignal, At, InLoop
<1>4. NoOrphan' BY <1>1 DEF IInv, NoOrphan, Running
<1>5. LeavesNoWorker' BY DEF IInv, LeavesNoWorker
<1>6. ErrorsLeave' BY DEF IInv, ErrorsLeave, KeepHoldings
<1>7. JobsAreNew' BY DEF IInv, JobsAreNew, KeepHoldings
<1>8. OwnedRun' BY DEF IInv, OwnedRun, KeepHoldings
<1>9. InFlightCounts'
  <2>1. \A e \in Drivers : Owned(e)' = Owned(e) BY DEF Owned, KeepHoldings
  <2>. QED BY <2>1 DEF IInv, InFlightCounts, KeepHoldings, Busy
<1>10. PublicationQuiet' BY DEF IInv, PublicationQuiet, Running
<1>. QED BY <1>2, <1>3, <1>4, <1>5, <1>6, <1>7, <1>8, <1>9, <1>10 DEF IInv

-----------------------------------------------------------------------------
(* The flag and the generation, used from drive().                         *)

\* A thread that has not begun, and one that is put at a place of the loop.
LEMMA OffThread ==
  /\ Off \in Threads
  /\ Off.pc = "off" /\ Off.jobs = {} /\ Off.inFlight = 0 /\ Off.queue = {} /\ Off.error = FALSE
  /\ \A p \in Places :
       /\ [Off EXCEPT !.pc = p] \in Threads /\ [Off EXCEPT !.pc = p].pc = p
       /\ [Off EXCEPT !.pc = p].jobs = {} /\ [Off EXCEPT !.pc = p].inFlight = 0
       /\ [Off EXCEPT !.pc = p].queue = {} /\ [Off EXCEPT !.pc = p].error = FALSE
  BY DEF Off, Threads, Places

(* One driver at most waits, so one notification wakes whoever does.       *)
LEMMA BumpInv ==
  ASSUME IInv, TypeOK', FlagIsTurn', NEW t \in [Drivers -> Threads], Bump(t),
         \A d \in Drivers : \/ t[d] = thread[d]
                            \/ thread[d].pc = "resignal" /\ t[d] = Off,
         UNCHANGED <<driving, node, phase, worker>>, env'.can = env.can,
         \A d \in Drivers : sent[d] = 0 => sent'[d] = 0
  PROVE  IInv'
<1>1. ASSUME NEW d \in Drivers
      PROVE  /\ t[d].jobs = thread[d].jobs /\ t[d].inFlight = thread[d].inFlight
             /\ t[d].queue = thread[d].queue /\ t[d].error = thread[d].error
             /\ \/ t[d].pc = thread[d].pc
                \/ thread[d].pc = "resignal" /\ t[d].pc = "off"
  <2>1. CASE t[d] = thread[d] BY <2>1
  <2>2. CASE thread[d].pc = "resignal" /\ t[d] = Off
    BY <2>2, OutsideOwnsNothing, OffThread
  <2>. QED BY <2>1, <2>2
<1>2. KeepHoldings BY <1>1, BumpEffect DEF KeepHoldings
<1>3. ASSUME NEW d \in Drivers, thread[d].pc = "wait" PROVE thread'[d].pc = "observe"
  <2>1. \A e \in Drivers : thread[e].pc = "wait" => e = d
    BY <1>3 DEF IInv, OneDriver, InLoop
  <2>2. \A e \in Drivers : t[e].pc = "wait" <=> thread[e].pc = "wait" BY <1>1
  <2>. QED BY <1>3, <2>1, <2>2, BumpEffect
<1>4. ASSUME NEW d \in Drivers
      PROVE  \/ thread'[d].pc = thread[d].pc /\ thread[d].pc # "wait"
             \/ thread[d].pc = "wait" /\ thread'[d].pc = "observe"
             \/ thread[d].pc \in {"redrive", "resignal"} /\ thread'[d].pc = "off"
  BY <1>1, <1>3, BumpEffect
<1>5. phase' \in Publishing => phase \in Publishing OBVIOUS
<1>6. \A d \in Drivers : thread[d].pc = "publish" => phase' = "publishing"
  BY DEF IInv, PublicationQuiet
<1>. QED BY <1>2, <1>4, <1>5, <1>6, WakeInv

(* The flag was free: either a driver starts or the Run is paused.         *)
LEMMA StartDriverInv ==
  ASSUME IInv, TypeOK', FlagIsTurn', NEW t \in [Drivers -> Threads], StartDriver(t), ~driving,
         \A d \in Drivers : \/ t[d] = thread[d]
                            \/ thread[d].pc = "redrive" /\ t[d] = Off,
         UNCHANGED <<worker, sent>>, env'.can = env.can
  PROVE  IInv'
<1>1. ASSUME NEW d \in Drivers
      PROVE  /\ t[d].jobs = thread[d].jobs /\ t[d].inFlight = thread[d].inFlight
             /\ t[d].queue = thread[d].queue /\ t[d].error = thread[d].error
             /\ t[d] = thread[d] \/ (thread[d].pc = "redrive" /\ t[d].pc = "off")
  <2>1. CASE t[d] = thread[d] BY <2>1
  <2>2. CASE thread[d].pc = "redrive" /\ t[d] = Off
    BY <2>2, OutsideOwnsNothing, OffThread
  <2>. QED BY <2>1, <2>2
<1>2. \A d \in Drivers : ~InLoop(d) BY DEF IInv, OneDriver
<1>3. ASSUME NEW d \in Drivers, t[d].pc = "off", driving' = TRUE, UNCHANGED state,
             thread' = [t EXCEPT ![d] = [Off EXCEPT !.pc = "observe"]]
      PROVE  IInv'
  <2>1. thread[d].pc \in {"off", "redrive"} BY <1>1, <1>3
  <2>2. thread'[d] = [Off EXCEPT !.pc = "observe"] BY <1>3
  <2>3. \A e \in Drivers : e # d => thread'[e] = t[e] BY <1>3
  <2>4. KeepHoldings
    <3>1. "observe" \in Places BY DEF Places
    <3>2. /\ thread'[d].jobs = thread[d].jobs /\ thread'[d].inFlight = thread[d].inFlight
          /\ thread'[d].queue = thread[d].queue /\ thread'[d].error = thread[d].error
      <4>1. /\ thread'[d].jobs = {} /\ thread'[d].inFlight = 0
            /\ thread'[d].queue = {} /\ thread'[d].error = FALSE
        BY <2>2, <3>1, OffThread
      <4>2. /\ thread[d].jobs = {} /\ thread[d].inFlight = 0
            /\ thread[d].queue = {} /\ thread[d].error = FALSE
        BY <2>1, OutsideOwnsNothing
      <4>. QED BY <4>1, <4>2
    <3>. QED BY <1>1, <2>3, <3>2 DEF KeepHoldings
  <2>5. thread'[d].pc = "observe" BY <2>2, OffThread DEF Places
  <2>. QED BY <1>1, <1>3, <2>1, <2>3, <2>4, <2>5, StartInv DEF state
<1>4. CASE thread' = t /\ phase' = "paused" /\ driving' = FALSE /\ UNCHANGED node
  <2>1. KeepHoldings BY <1>1, <1>4 DEF KeepHoldings
  <2>2. phase' \notin Publishing BY <1>4 DEF Publishing
  <2>3. \A d \in Drivers : thread[d].pc \notin {"publish", "wait"} BY <1>2 DEF InLoop
  <2>4. UNCHANGED driving BY <1>4 DEF IInv, TypeOK
  <2>. QED BY <1>1, <1>4, <2>1, <2>2, <2>3, <2>4, WakeInv
<1>. QED BY <1>3, <1>4 DEF StartDriver

\* What drive() leaves behind has its types.
LEMMA StartDriverType ==
  ASSUME TypeOK, NEW t \in [Drivers -> Threads], StartDriver(t)
  PROVE  /\ thread' \in [Drivers -> Threads] /\ driving' \in BOOLEAN /\ paused' \in BOOLEAN
         /\ node' = node /\ phase' \in {phase, "paused"}
<1>1. [Off EXCEPT !.pc = "observe"] \in Threads BY OffThread DEF Places
<1>. QED BY <1>1 DEF StartDriver, state, TypeOK

(* A change of place alone.                                                *)
LEMMA GoEffect ==
  ASSUME TypeOK, NEW d \in Drivers, NEW pc \in Places, Go(d, pc)
  PROVE  /\ thread' \in [Drivers -> Threads] /\ Moves(d, pc, thread[d].error)
         /\ thread'[d].stale = thread[d].stale
<1>1. thread[d] \in Threads BY DEF TypeOK
<1>2. [thread[d] EXCEPT !.pc = pc] \in Threads BY <1>1 DEF Threads
<1>3. thread' = [thread EXCEPT ![d] = [thread[d] EXCEPT !.pc = pc]] BY DEF Go
<1>4. thread'[d] = [thread[d] EXCEPT !.pc = pc] /\ \A e \in Drivers : e # d => thread'[e] = thread[e]
  BY <1>3 DEF TypeOK
<1>5. thread' \in [Drivers -> Threads] BY <1>2, <1>3 DEF TypeOK
<1>. QED BY <1>1, <1>4, <1>5 DEF Moves, Threads

-----------------------------------------------------------------------------
(* The steps, one lemma for each of the threads that meet.                 *)

(* A driver walks through its loop.                                        *)
LEMMA WalkInv ==
  ASSUME IInv, NEW d \in Drivers,
         \/ Observe(d) \/ ScheduleFails(d) \/ Spawned(d) \/ Collect(d) \/ Idle(d)
         \/ Publish(d) \/ Published(d) \/ Review(d) \/ Reviewed(d) \/ Join(d)
  PROVE  IInv'
<1> USE DriverAssumption
<1>0. thread[d] \in Threads /\ thread \in [Drivers -> Threads] /\ TypeOK BY DEF IInv, TypeOK
<1>1. CASE Observe(d)
  <2>1. /\ thread[d].pc = "observe"
        /\ UNCHANGED <<driving, planning, node, phase, paused, worker, sent, call, planner, env>>
    BY <1>1 DEF Observe, At, state
  <2>2. thread' = [thread EXCEPT ![d] = [thread[d] EXCEPT !.pc = "schedule", !.stale = FALSE]]
    BY <1>0, <1>1 DEF Observe, Threads
  <2>3. [thread[d] EXCEPT !.pc = "schedule", !.stale = FALSE] \in Threads
    BY <1>0 DEF Threads, Places
  <2>4. thread' \in [Drivers -> Threads] /\ Moves(d, "schedule", thread[d].error)
    <3>1. thread'[d] = [thread[d] EXCEPT !.pc = "schedule", !.stale = FALSE] BY <1>0, <2>2
    <3>2. \A e \in Drivers : e # d => thread'[e] = thread[e] BY <1>0, <2>2
    <3>. QED BY <1>0, <2>2, <2>3, <3>1, <3>2 DEF Moves, Threads
  <2>5. TypeOK' BY <1>0, <2>1, <2>4 DEF TypeOK
  <2>6. FlagIsTurn' BY <2>1 DEF IInv, FlagIsTurn
  <2>7. InLoop(d) /\ InLoop(d)' BY <2>1, <2>4 DEF InLoop, Moves
  <2>8. ~thread[d].error BY <2>1 DEF IInv, ErrorsLeave
  <2>9. KeepRunning BY <2>1 DEF KeepRunning
  <2>. QED BY <2>1, <2>4, <2>5, <2>6, <2>7, <2>8, <2>9, MoveInv DEF Busy, Publishing
<1>2. CASE ScheduleFails(d)
  <2>1. /\ thread[d].pc = "schedule" /\ "storage" \in env.can
        /\ UNCHANGED <<driving, planning, node, phase, paused, worker, sent, call, planner, env>>
    BY <1>2 DEF ScheduleFails, At, state
  <2>2. thread' = [thread EXCEPT ![d] = [thread[d] EXCEPT !.pc = "join", !.error = TRUE]]
    BY <1>0, <1>2 DEF ScheduleFails, Threads
  <2>3. thread' \in [Drivers -> Threads] /\ Moves(d, "join", TRUE)
    <3>1. thread'[d] = [thread[d] EXCEPT !.pc = "join", !.error = TRUE] BY <1>0, <2>2
    <3>2. \A e \in Drivers : e # d => thread'[e] = thread[e] BY <1>0, <2>2
    <3>3. [thread[d] EXCEPT !.pc = "join", !.error = TRUE] \in Threads
      BY <1>0 DEF Threads, Places
    <3>. QED BY <1>0, <2>2, <3>1, <3>2, <3>3 DEF Moves, Threads
  <2>4. TypeOK' BY <1>0, <2>1, <2>3 DEF TypeOK
  <2>5. FlagIsTurn' BY <2>1 DEF IInv, FlagIsTurn
  <2>6. InLoop(d) /\ InLoop(d)' BY <2>1, <2>3 DEF InLoop, Moves
  <2>7. KeepRunning BY <2>1 DEF KeepRunning
  <2>. QED BY <2>1, <2>3, <2>4, <2>5, <2>6, <2>7, MoveInv DEF Busy, Publishing
<1>3. CASE Spawned(d)
  <2>1. /\ thread[d].pc = "spawn" /\ thread[d].jobs = {}
        /\ UNCHANGED <<driving, planning, node, phase, paused, worker, sent, call, planner, env>>
    BY <1>3 DEF Spawned, At, state
  <2>2. Go(d, (IF thread[d].inFlight > 0 THEN "collect" ELSE "observe")) /\ (IF thread[d].inFlight > 0 THEN "collect" ELSE "observe") \in Places BY <1>0, <1>3 DEF Spawned, Places, Threads
  <2>3. /\ thread' \in [Drivers -> Threads] /\ Moves(d, (IF thread[d].inFlight > 0 THEN "collect" ELSE "observe"), thread[d].error)
        /\ thread'[d].stale = thread[d].stale
    BY <1>0, <2>2, GoEffect
  <2>8. ~thread[d].error BY <2>1 DEF IInv, ErrorsLeave
  <2>4. TypeOK' BY <1>0, <2>1, <2>3 DEF TypeOK
  <2>5. FlagIsTurn' BY <2>1 DEF IInv, FlagIsTurn, TypeOK
  <2>6. InLoop(d) /\ InLoop(d)' BY <2>1, <2>3 DEF InLoop, Moves
  <2>7. KeepRunning BY <2>1 DEF KeepRunning
  <2>. QED BY <1>0, <2>1, <2>3, <2>4, <2>5, <2>6, <2>7, MoveInv, <2>8 DEF Busy, Publishing
<1>4. CASE Collect(d) /\ (thread[d].queue # {})
  <2>1. /\ thread[d].pc = "collect"
        /\ UNCHANGED <<driving, planning, node, phase, paused, worker, sent, call, planner, env>>
    BY <1>4 DEF Collect, At, state
  <2>2. Go(d, "finish") /\ "finish" \in Places BY <1>0, <1>4 DEF Collect, Places, Threads
  <2>3. /\ thread' \in [Drivers -> Threads] /\ Moves(d, "finish", thread[d].error)
        /\ thread'[d].stale = thread[d].stale
    BY <1>0, <2>2, GoEffect
  <2>8. ~thread[d].error BY <2>1 DEF IInv, ErrorsLeave
  <2>4. TypeOK' BY <1>0, <2>1, <2>3 DEF TypeOK
  <2>5. FlagIsTurn' BY <2>1 DEF IInv, FlagIsTurn, TypeOK
  <2>6. InLoop(d) /\ InLoop(d)' BY <2>1, <2>3 DEF InLoop, Moves
  <2>7. KeepRunning BY <2>1 DEF KeepRunning
  <2>. QED BY <1>0, <2>1, <2>3, <2>4, <2>5, <2>6, <2>7, MoveInv, <2>8 DEF Busy, Publishing
<1>5. CASE Collect(d) /\ (thread[d].queue = {})
  <2>1. /\ thread[d].pc = "collect" /\ thread[d].queue = {}
        /\ UNCHANGED <<driving, planning, node, phase, paused, worker, sent, call, planner, env>>
    BY <1>5 DEF Collect, At, state
  <2>2. Go(d, (IF thread[d].stale THEN "observe" ELSE "wait")) /\ (IF thread[d].stale THEN "observe" ELSE "wait") \in Places BY <1>0, <1>5 DEF Collect, Places, Threads
  <2>3. /\ thread' \in [Drivers -> Threads] /\ Moves(d, (IF thread[d].stale THEN "observe" ELSE "wait"), thread[d].error)
        /\ thread'[d].stale = thread[d].stale
    BY <1>0, <2>2, GoEffect
  <2>8. ~thread[d].error BY <2>1 DEF IInv, ErrorsLeave
  <2>4. TypeOK' BY <1>0, <2>1, <2>3 DEF TypeOK
  <2>5. FlagIsTurn' BY <2>1 DEF IInv, FlagIsTurn, TypeOK
  <2>6. InLoop(d) /\ InLoop(d)' BY <2>1, <2>3 DEF InLoop, Moves
  <2>7. KeepRunning BY <2>1 DEF KeepRunning
  <2>. QED BY <1>0, <2>1, <2>3, <2>4, <2>5, <2>6, <2>7, MoveInv, <2>8 DEF Busy, Publishing
<1>6. CASE Idle(d)
  <2>1. /\ thread[d].pc = "idle"
        /\ UNCHANGED <<driving, planning, node, phase, paused, worker, sent, call, planner, env>>
    BY <1>6 DEF Idle, At, state
  <2>2. Go(d, (IF planning THEN "observe" ELSE IF phase = "publishing" THEN "publish" ELSE "join")) /\ (IF planning THEN "observe" ELSE IF phase = "publishing" THEN "publish" ELSE "join") \in Places BY <1>0, <1>6 DEF Idle, Places, Threads
  <2>3. /\ thread' \in [Drivers -> Threads] /\ Moves(d, (IF planning THEN "observe" ELSE IF phase = "publishing" THEN "publish" ELSE "join"), thread[d].error)
        /\ thread'[d].stale = thread[d].stale
    BY <1>0, <2>2, GoEffect
  <2>8. ~thread[d].error /\ thread[d].inFlight = 0
    BY <2>1 DEF IInv, ErrorsLeave, InFlightCounts, Busy
  <2>4. TypeOK' BY <1>0, <2>1, <2>3 DEF TypeOK
  <2>5. FlagIsTurn' BY <2>1 DEF IInv, FlagIsTurn, TypeOK
  <2>6. InLoop(d) /\ InLoop(d)' BY <2>1, <2>3 DEF InLoop, Moves
  <2>7. KeepRunning BY <2>1 DEF KeepRunning
  <2>. QED BY <1>0, <2>1, <2>3, <2>4, <2>5, <2>6, <2>7, MoveInv, <2>8 DEF Busy, Publishing
<1>7. CASE Publish(d) /\ (phase' = "completed" /\ phase = "publishing")
  <2>1. /\ thread[d].pc = "publish" /\ phase' = "completed" /\ paused' = FALSE
        /\ UNCHANGED <<driving, planning, node, worker, sent, call, planner, env>>
    BY <1>7 DEF Publish, At, state
  <2>2. Go(d, "published") /\ "published" \in Places BY <1>0, <1>7 DEF Publish, Places, Threads
  <2>3. /\ thread' \in [Drivers -> Threads] /\ Moves(d, "published", thread[d].error)
        /\ thread'[d].stale = thread[d].stale
    BY <1>0, <2>2, GoEffect
  <2>8. ~thread[d].error /\ thread[d].inFlight = 0
    BY <2>1 DEF IInv, ErrorsLeave, InFlightCounts, Busy
  <2>4. TypeOK' BY <1>0, <2>1, <2>3 DEF TypeOK
  <2>5. FlagIsTurn' BY <2>1 DEF IInv, FlagIsTurn, TypeOK
  <2>6. InLoop(d) /\ InLoop(d)' BY <2>1, <2>3 DEF InLoop, Moves
  <2>7. KeepRunning BY <2>1 DEF KeepRunning
  <2>. QED BY <1>0, <2>1, <2>3, <2>4, <2>5, <2>6, <2>7, MoveInv, <2>8 DEF Busy, Publishing
<1>8. CASE Publish(d) /\ (phase' = "publication_failed" /\ phase = "publishing")
  <2>1. /\ thread[d].pc = "publish" /\ phase' = "publication_failed" /\ paused' = TRUE
        /\ UNCHANGED <<driving, planning, node, worker, sent, call, planner, env>>
    BY <1>8 DEF Publish, At, state
  <2>2. Go(d, "join") /\ "join" \in Places BY <1>0, <1>8 DEF Publish, Places, Threads
  <2>3. /\ thread' \in [Drivers -> Threads] /\ Moves(d, "join", thread[d].error)
        /\ thread'[d].stale = thread[d].stale
    BY <1>0, <2>2, GoEffect
  <2>8. ~thread[d].error /\ thread[d].inFlight = 0
    BY <2>1 DEF IInv, ErrorsLeave, InFlightCounts, Busy
  <2>9. phase \in Publishing BY <2>1 DEF IInv, PublicationQuiet, Publishing
  <2>4. TypeOK' BY <1>0, <2>1, <2>3 DEF TypeOK
  <2>5. FlagIsTurn' BY <2>1 DEF IInv, FlagIsTurn, TypeOK
  <2>6. InLoop(d) /\ InLoop(d)' BY <2>1, <2>3 DEF InLoop, Moves
  <2>7. KeepRunning BY <2>1 DEF KeepRunning
  <2>. QED BY <1>0, <2>1, <2>3, <2>4, <2>5, <2>6, <2>7, MoveInv, <2>8, <2>9 DEF Busy, Publishing
<1>9. CASE Published(d) /\ (env' = [env EXCEPT !.left = @ - 1] /\ Go(d, "review") /\ env.left > 0)
  <2>1. /\ thread[d].pc = "published" /\ env.left > 0 /\ env' = [env EXCEPT !.left = @ - 1]
        /\ UNCHANGED <<driving, planning, node, phase, paused, worker, sent, call, planner>>
    BY <1>9 DEF Published, At, state
  <2>2. Go(d, "review") /\ "review" \in Places BY <1>0, <1>9 DEF Published, Places, Threads
  <2>3. /\ thread' \in [Drivers -> Threads] /\ Moves(d, "review", thread[d].error)
        /\ thread'[d].stale = thread[d].stale
    BY <1>0, <2>2, GoEffect
  <2>8. ~thread[d].error /\ thread[d].inFlight = 0
    BY <2>1 DEF IInv, ErrorsLeave, InFlightCounts, Busy
  <2>9. env' \in [left : Nat, can : SUBSET Possible] /\ env'.can = env.can BY <1>0, <2>1 DEF TypeOK
  <2>4. TypeOK' BY <1>0, <2>1, <2>3 , <2>9 DEF TypeOK
  <2>5. FlagIsTurn' BY <2>1 DEF IInv, FlagIsTurn, TypeOK
  <2>6. InLoop(d) /\ InLoop(d)' BY <2>1, <2>3 DEF InLoop, Moves
  <2>7. KeepRunning BY <2>1 DEF KeepRunning
  <2>. QED BY <1>0, <2>1, <2>3, <2>4, <2>5, <2>6, <2>7, MoveInv, <2>8, <2>9 DEF Busy, Publishing
<1>10. CASE Published(d) /\ (UNCHANGED env /\ Go(d, "join"))
  <2>1. /\ thread[d].pc = "published"
        /\ UNCHANGED <<driving, planning, node, phase, paused, worker, sent, call, planner, env>>
    BY <1>10 DEF Published, At, state
  <2>2. Go(d, "join") /\ "join" \in Places BY <1>0, <1>10 DEF Published, Places, Threads
  <2>3. /\ thread' \in [Drivers -> Threads] /\ Moves(d, "join", thread[d].error)
        /\ thread'[d].stale = thread[d].stale
    BY <1>0, <2>2, GoEffect
  <2>8. ~thread[d].error /\ thread[d].inFlight = 0
    BY <2>1 DEF IInv, ErrorsLeave, InFlightCounts, Busy
  <2>4. TypeOK' BY <1>0, <2>1, <2>3 DEF TypeOK
  <2>5. FlagIsTurn' BY <2>1 DEF IInv, FlagIsTurn, TypeOK
  <2>6. InLoop(d) /\ InLoop(d)' BY <2>1, <2>3 DEF InLoop, Moves
  <2>7. KeepRunning BY <2>1 DEF KeepRunning
  <2>. QED BY <1>0, <2>1, <2>3, <2>4, <2>5, <2>6, <2>7, MoveInv, <2>8 DEF Busy, Publishing
<1>11. CASE Review(d) /\ (~planning)
  <2>1. /\ thread[d].pc = "review" /\ planning' = TRUE /\ planner' = "turn"
        /\ UNCHANGED <<driving, node, phase, paused, worker, sent, call, env>>
    BY <1>11 DEF Review, At, state
  <2>2. Go(d, "reviewing") /\ "reviewing" \in Places BY <1>0, <1>11 DEF Review, Places, Threads
  <2>3. /\ thread' \in [Drivers -> Threads] /\ Moves(d, "reviewing", thread[d].error)
        /\ thread'[d].stale = thread[d].stale
    BY <1>0, <2>2, GoEffect
  <2>8. ~thread[d].error /\ thread[d].inFlight = 0
    BY <2>1 DEF IInv, ErrorsLeave, InFlightCounts, Busy
  <2>4. TypeOK' BY <1>0, <2>1, <2>3 DEF TypeOK
  <2>5. FlagIsTurn' BY <2>1 DEF IInv, FlagIsTurn, TypeOK
  <2>6. InLoop(d) /\ InLoop(d)' BY <2>1, <2>3 DEF InLoop, Moves
  <2>7. KeepRunning BY <2>1 DEF KeepRunning
  <2>. QED BY <1>0, <2>1, <2>3, <2>4, <2>5, <2>6, <2>7, MoveInv, <2>8 DEF Busy, Publishing
<1>12. CASE Review(d) /\ (planning)
  <2>1. /\ thread[d].pc = "review"
        /\ UNCHANGED <<driving, planning, node, phase, paused, worker, sent, call, planner, env>>
    BY <1>12 DEF Review, At, state
  <2>2. Go(d, "observe") /\ "observe" \in Places BY <1>0, <1>12 DEF Review, Places, Threads
  <2>3. /\ thread' \in [Drivers -> Threads] /\ Moves(d, "observe", thread[d].error)
        /\ thread'[d].stale = thread[d].stale
    BY <1>0, <2>2, GoEffect
  <2>8. ~thread[d].error /\ thread[d].inFlight = 0
    BY <2>1 DEF IInv, ErrorsLeave, InFlightCounts, Busy
  <2>4. TypeOK' BY <1>0, <2>1, <2>3 DEF TypeOK
  <2>5. FlagIsTurn' BY <2>1 DEF IInv, FlagIsTurn, TypeOK
  <2>6. InLoop(d) /\ InLoop(d)' BY <2>1, <2>3 DEF InLoop, Moves
  <2>7. KeepRunning BY <2>1 DEF KeepRunning
  <2>. QED BY <1>0, <2>1, <2>3, <2>4, <2>5, <2>6, <2>7, MoveInv, <2>8 DEF Busy, Publishing
<1>13. CASE Reviewed(d)
  <2>1. /\ thread[d].pc = "reviewing"
        /\ UNCHANGED <<driving, planning, node, phase, paused, worker, sent, call, planner, env>>
    BY <1>13 DEF Reviewed, At, state
  <2>2. Go(d, "observe") /\ "observe" \in Places BY <1>0, <1>13 DEF Reviewed, Places, Threads
  <2>3. /\ thread' \in [Drivers -> Threads] /\ Moves(d, "observe", thread[d].error)
        /\ thread'[d].stale = thread[d].stale
    BY <1>0, <2>2, GoEffect
  <2>8. ~thread[d].error /\ thread[d].inFlight = 0
    BY <2>1 DEF IInv, ErrorsLeave, InFlightCounts, Busy
  <2>4. TypeOK' BY <1>0, <2>1, <2>3 DEF TypeOK
  <2>5. FlagIsTurn' BY <2>1 DEF IInv, FlagIsTurn, TypeOK
  <2>6. InLoop(d) /\ InLoop(d)' BY <2>1, <2>3 DEF InLoop, Moves
  <2>7. KeepRunning BY <2>1 DEF KeepRunning
  <2>. QED BY <1>0, <2>1, <2>3, <2>4, <2>5, <2>6, <2>7, MoveInv, <2>8 DEF Busy, Publishing
<1>14. CASE Join(d) /\ (~thread[d].error)
  <2>1. /\ thread[d].pc = "join" /\ sent[d] = 0 /\ \A n \in Nodes : worker[n] # d
        /\ UNCHANGED <<driving, planning, node, phase, paused, worker, sent, call, planner, env>>
    BY <1>14 DEF Join, At, state
  <2>2. Go(d, "clear") /\ "clear" \in Places BY <1>0, <1>14 DEF Join, Places, Threads
  <2>3. /\ thread' \in [Drivers -> Threads] /\ Moves(d, "clear", thread[d].error)
        /\ thread'[d].stale = thread[d].stale
    BY <1>0, <2>2, GoEffect
  <2>8. thread[d].error \/ thread[d].inFlight = 0
    BY <2>1 DEF IInv, InFlightCounts, Busy
  <2>9. thread[d].error => "storage" \in env.can BY DEF IInv, ErrorsLeave
  <2>4. TypeOK' BY <1>0, <2>1, <2>3 DEF TypeOK
  <2>5. FlagIsTurn' BY <2>1 DEF IInv, FlagIsTurn, TypeOK
  <2>6. InLoop(d) /\ InLoop(d)' BY <2>1, <2>3 DEF InLoop, Moves
  <2>7. KeepRunning BY <2>1 DEF KeepRunning
  <2>. QED BY <1>0, <2>1, <2>3, <2>4, <2>5, <2>6, <2>7, MoveInv, <2>8, <2>9 DEF Busy, Publishing
<1>15. CASE Join(d) /\ (thread[d].error)
  <2>1. /\ thread[d].pc = "join" /\ sent[d] = 0 /\ (\A n \in Nodes : worker[n] # d)
        /\ paused' = TRUE /\ phase' = HaltPhase
        /\ UNCHANGED <<driving, planning, node, worker, sent, call, planner, env>>
    BY <1>15 DEF Join, At, state
  <2>2. Go(d, "clear") /\ "clear" \in Places BY <1>0, <1>15 DEF Join, Places, Threads
  <2>3. /\ thread' \in [Drivers -> Threads] /\ Moves(d, "clear", thread[d].error)
        /\ thread'[d].stale = thread[d].stale
    BY <1>0, <2>2, GoEffect
  <2>8. thread[d].error \/ thread[d].inFlight = 0
    BY <2>1 DEF IInv, InFlightCounts, Busy
  <2>9. thread[d].error => "storage" \in env.can BY DEF IInv, ErrorsLeave
  <2>10. phase' \in {"publication_failed", "paused"} /\ (phase' \in Publishing => phase \in Publishing)
    BY <2>1 DEF HaltPhase, Publishing
  <2>4. TypeOK' BY <1>0, <2>1, <2>3 , <2>10 DEF TypeOK
  <2>5. FlagIsTurn' BY <2>1 DEF IInv, FlagIsTurn, TypeOK
  <2>6. InLoop(d) /\ InLoop(d)' BY <2>1, <2>3 DEF InLoop, Moves
  <2>7. KeepRunning BY <2>1 DEF KeepRunning
  <2>. QED BY <1>0, <2>1, <2>3, <2>4, <2>5, <2>6, <2>7, MoveInv, <2>8, <2>9, <2>10 DEF Busy, Publishing
<1>17. phase = "publishing" \/ ~At(d, "publish") BY DEF IInv, PublicationQuiet, At
<1>18. Publish(d) => \/ phase' = "completed" /\ phase = "publishing"
                     \/ phase' = "publication_failed" /\ phase = "publishing"
  BY <1>17 DEF Publish
<1>19. Published(d) => \/ env' = [env EXCEPT !.left = @ - 1] /\ Go(d, "review") /\ env.left > 0
                       \/ UNCHANGED env /\ Go(d, "join")
  BY DEF Published
<1>. QED
  BY <1>1, <1>2, <1>3, <1>4, <1>5, <1>6, <1>7, <1>8, <1>9, <1>10, <1>11, <1>12, <1>13, <1>14,
     <1>15, <1>18, <1>19

(* A driver leaves its loop, looks once more and hands over to the next.   *)
LEMMA LeaveInv ==
  ASSUME IInv, NEW d \in Drivers, Clear(d) \/ Recheck(d) \/ Redrive(d) \/ Resignal(d)
  PROVE  IInv'
<1> USE DriverAssumption
<1>0. thread[d] \in Threads /\ thread \in [Drivers -> Threads] /\ TypeOK BY DEF IInv, TypeOK
<1>1. CASE Clear(d)
  <2>1. /\ thread[d].pc = "clear" /\ driving' = FALSE
        /\ UNCHANGED <<planning, node, phase, paused, worker, sent, call, planner, env>>
    BY <1>1 DEF Clear, At, state
  <2>2. thread' \in [Drivers -> Threads] /\ Moves(d, "recheck", thread[d].error)
    BY <1>0, <1>1, GoEffect DEF Clear, Places
  <2>3. TypeOK' BY <1>0, <2>1, <2>2 DEF TypeOK
  <2>4. \A e \in Drivers : ~InLoop(e)' BY <2>1, <2>2 DEF IInv, OneDriver, InLoop, Moves
  <2>5. OneDriver' BY <2>1, <2>4 DEF OneDriver
  <2>6. NoMissedSignal' BY <2>4 DEF NoMissedSignal, InLoop, At
  <2>7. NoOrphan'
    <3>1. SUFFICES ASSUME "storage" \notin env.can, NEW n \in Running PROVE worker[n] # "none"
      BY <2>1 DEF NoOrphan, Running
    <3>2. ~thread[d].error BY <3>1 DEF IInv, ErrorsLeave
    <3>3. thread[d].queue = {} /\ thread[d].jobs = {}
      BY <2>1, <3>2, IdleOwnsNothing DEF Busy, IInv, JobsAreNew
    <3>4. \A e \in Drivers : InLoop(e) => e = d BY <2>1 DEF IInv, OneDriver, InLoop
    <3>. QED BY <3>1, <3>3, <3>4 DEF IInv, NoOrphan
  <2>8. LeavesNoWorker' BY <2>1, <2>2 DEF IInv, LeavesNoWorker, Moves
  <2>9. ErrorsLeave' BY <2>1, <2>2 DEF IInv, ErrorsLeave, Moves
  <2>10. JobsAreNew' BY <2>1, <2>2 DEF IInv, JobsAreNew, Moves
  <2>11. OwnedRun' BY <2>1, <2>2 DEF IInv, OwnedRun, Moves
  <2>12. InFlightCounts'
    <3>1. \A e \in Drivers : Owned(e)' = Owned(e) BY <2>1, <2>2 DEF Owned, Moves
    <3>. QED BY <2>1, <2>2, <3>1 DEF IInv, InFlightCounts, Moves, Busy
  <2>13. PublicationQuiet' /\ FlagIsTurn'
    BY <2>1, <2>2 DEF IInv, PublicationQuiet, FlagIsTurn, Running, Moves
  <2>. QED BY <2>3, <2>5, <2>6, <2>7, <2>8, <2>9, <2>10, <2>11, <2>12, <2>13 DEF IInv
<1>2. CASE Recheck(d)
  <2>1. /\ thread[d].pc = "recheck"
        /\ UNCHANGED <<driving, planning, node, phase, paused, worker, sent, call, planner, env>>
    BY <1>2 DEF Recheck, At, state
  <2>2. PICK p \in {"off", "redrive"} : thread' = [thread EXCEPT ![d] = [Off EXCEPT !.pc = p]]
    <3>1. Off = [Off EXCEPT !.pc = "off"] BY DEF Off
    <3>. QED BY <1>2, <3>1 DEF Recheck
  <2>3. p \in Places BY DEF Places
  <2>4. thread' \in [Drivers -> Threads] BY <1>0, <2>2, <2>3, OffThread
  <2>5. /\ \A e \in Drivers : e # d => thread'[e] = thread[e]
        /\ thread'[d].pc \in {"off", "redrive"} /\ thread'[d].jobs = {}
        /\ thread'[d].inFlight = 0 /\ thread'[d].queue = {} /\ thread'[d].error = FALSE
    <3>1. thread'[d] = [Off EXCEPT !.pc = p] BY <1>0, <2>2
    <3>2. \A e \in Drivers : e # d => thread'[e] = thread[e] BY <1>0, <2>2
    <3>. QED BY <2>3, <3>1, <3>2, OffThread
  <2>6. TypeOK' BY <1>0, <2>1, <2>4 DEF TypeOK
  <2>7. \A e \in Drivers : InLoop(e)' <=> InLoop(e) BY <2>1, <2>5 DEF InLoop
  <2>8. OneDriver' BY <2>1, <2>7 DEF IInv, OneDriver
  <2>9. NoMissedSignal' BY <2>1, <2>5 DEF IInv, NoMissedSignal, At
  <2>10. NoOrphan'
    <3>1. \A e \in Drivers : InLoop(e) => thread'[e] = thread[e] BY <2>1, <2>5 DEF InLoop
    <3>. QED BY <2>1, <2>7, <3>1 DEF IInv, NoOrphan, Running
  <2>11. LeavesNoWorker' BY <2>1, <2>5 DEF IInv, LeavesNoWorker
  <2>12. ErrorsLeave' BY <2>1, <2>5 DEF IInv, ErrorsLeave
  <2>13. JobsAreNew' BY <2>1, <2>5 DEF IInv, JobsAreNew
  <2>14. OwnedRun' BY <2>1, <2>5 DEF IInv, OwnedRun
  <2>15. InFlightCounts'
    <3>1. \A e \in Drivers : e # d => Owned(e)' = Owned(e) BY <2>1, <2>5 DEF Owned
    <3>2. Owned(d)' = {} BY <2>1, <2>5 DEF Owned, IInv, LeavesNoWorker
    <3>3. Cardinality(Owned(d)') = 0 BY <3>2, FS_EmptySet
    <3>. QED BY <2>1, <2>5, <3>1, <3>3 DEF IInv, InFlightCounts
  <2>16. PublicationQuiet' /\ FlagIsTurn'
    BY <2>1, <2>5 DEF IInv, PublicationQuiet, FlagIsTurn, Running
  <2>. QED BY <2>6, <2>8, <2>9, <2>10, <2>11, <2>12, <2>13, <2>14, <2>15, <2>16 DEF IInv
<1>3. [thread EXCEPT ![d] = Off] \in [Drivers -> Threads] BY <1>0, OffThread
<1>4. CASE Redrive(d) /\ driving
  <2>1. /\ thread[d].pc = "redrive"
        /\ UNCHANGED <<driving, planning, node, phase, paused, worker, sent, call, planner, env>>
    BY <1>4 DEF Redrive, At
  <2>2. thread' \in [Drivers -> Threads] /\ Moves(d, "resignal", thread[d].error)
    BY <1>0, <1>4, GoEffect DEF Redrive, Places
  <2>3. TypeOK' BY <1>0, <2>1, <2>2 DEF TypeOK
  <2>4. \A e \in Drivers : InLoop(e)' <=> InLoop(e) BY <2>1, <2>2 DEF InLoop, Moves
  <2>5. OneDriver' BY <2>1, <2>4 DEF IInv, OneDriver
  <2>6. NoMissedSignal' BY <2>1, <2>2 DEF IInv, NoMissedSignal, At, Moves
  <2>7. NoOrphan' BY <2>1, <2>2, <2>4 DEF IInv, NoOrphan, Running, Moves
  <2>8. LeavesNoWorker' BY <2>1, <2>2 DEF IInv, LeavesNoWorker, Moves
  <2>9. ErrorsLeave' BY <2>1, <2>2 DEF IInv, ErrorsLeave, Moves
  <2>10. JobsAreNew' BY <2>1, <2>2 DEF IInv, JobsAreNew, Moves
  <2>11. OwnedRun' BY <2>1, <2>2 DEF IInv, OwnedRun, Moves
  <2>12. InFlightCounts'
    <3>1. \A e \in Drivers : Owned(e)' = Owned(e) BY <2>1, <2>2 DEF Owned, Moves
    <3>. QED BY <2>1, <2>2, <3>1 DEF IInv, InFlightCounts, Moves, Busy
  <2>13. PublicationQuiet' /\ FlagIsTurn'
    BY <2>1, <2>2 DEF IInv, PublicationQuiet, FlagIsTurn, Running, Moves
  <2>. QED BY <2>3, <2>5, <2>6, <2>7, <2>8, <2>9, <2>10, <2>11, <2>12, <2>13 DEF IInv
<1>5. CASE Redrive(d) /\ ~driving
  <2>1. /\ thread[d].pc = "redrive" /\ StartDriver([thread EXCEPT ![d] = Off])
        /\ UNCHANGED <<planning, worker, sent, call, planner, env>>
    BY <1>5 DEF Redrive, At
  <2>2. TypeOK' BY <1>0, <1>3, <2>1, StartDriverType DEF TypeOK
  <2>3. FlagIsTurn' BY <2>1 DEF IInv, FlagIsTurn
  <2>. QED BY <1>0, <1>3, <1>5, <2>1, <2>2, <2>3, StartDriverInv
<1>6. CASE Resignal(d)
  <2>1. /\ thread[d].pc = "resignal" /\ Bump([thread EXCEPT ![d] = Off])
        /\ UNCHANGED <<driving, planning, node, phase, paused, worker, sent, call, planner, env>>
    BY <1>6 DEF Resignal, At, state
  <2>2. thread' \in [Drivers -> Threads] BY <1>3, <2>1, BumpEffect
  <2>3. TypeOK' BY <1>0, <2>1, <2>2 DEF TypeOK
  <2>4. FlagIsTurn' BY <2>1 DEF IInv, FlagIsTurn
  <2>. QED BY <1>0, <1>3, <2>1, <2>3, <2>4, BumpInv
<1>. QED BY <1>1, <1>2, <1>4, <1>5, <1>6

(* Callers of drive() and the workers' own signals.                        *)
LEMMA CallInv ==
  ASSUME IInv,
         \/ \E u \in Users : Drive(u) \/ Signal(u)
         \/ \E d \in Drivers : WorkerSignals(d)
         \/ TurnDrives \/ TurnSignals
  PROVE  IInv'
<1> USE DriverAssumption
<1>0. thread \in [Drivers -> Threads] /\ TypeOK BY DEF IInv, TypeOK
<1>1. ASSUME NEW u \in Users, Drive(u) PROVE IInv'
  <2>1. /\ UNCHANGED <<planning, worker, sent, planner, env>>
        /\ call' \in [Users -> {"none", "drive", "signal"}]
    BY <1>0, <1>1 DEF Drive, TypeOK
  <2>2. FlagIsTurn' BY <2>1 DEF IInv, FlagIsTurn
  <2>3. CASE driving
    <3>1. UNCHANGED <<driving, thread, node, phase, paused>> BY <1>1, <2>3 DEF Drive
    <3>2. TypeOK' BY <1>0, <2>1, <3>1 DEF TypeOK
    <3>3. \A d \in Drivers : thread[d].pc = "publish" => phase' = "publishing"
      BY <3>1 DEF IInv, PublicationQuiet
    <3>. QED BY <2>1, <2>2, <3>1, <3>2, <3>3, StateInv DEF KeepRunning
  <2>4. CASE ~driving
    <3>1. StartDriver(thread) BY <1>1, <2>4 DEF Drive
    <3>2. TypeOK' BY <1>0, <2>1, <3>1, StartDriverType DEF TypeOK
    <3>. QED BY <1>0, <2>1, <2>2, <2>4, <3>1, <3>2, StartDriverInv
  <2>. QED BY <2>3, <2>4
<1>2. ASSUME NEW u \in Users, Signal(u) PROVE IInv'
  <2>1. /\ UNCHANGED <<driving, planning, node, phase, paused, worker, sent, planner, env>>
        /\ Bump(thread) /\ call' \in [Users -> {"none", "drive", "signal"}]
    BY <1>0, <1>2 DEF Signal, TypeOK, state
  <2>2. TypeOK' BY <1>0, <2>1, BumpEffect DEF TypeOK
  <2>3. FlagIsTurn' BY <2>1 DEF IInv, FlagIsTurn
  <2>. QED BY <1>0, <2>1, <2>2, <2>3, BumpInv
<1>3. ASSUME NEW d \in Drivers, WorkerSignals(d) PROVE IInv'
  <2>1. /\ UNCHANGED <<driving, planning, node, phase, paused, worker, call, planner, env>>
        /\ Bump(thread) /\ sent' \in [Drivers -> Nat]
        /\ \A e \in Drivers : sent[e] = 0 => sent'[e] = 0
    BY <1>0, <1>3 DEF WorkerSignals, TypeOK, state
  <2>2. TypeOK' BY <1>0, <2>1, BumpEffect DEF TypeOK
  <2>3. FlagIsTurn' BY <2>1 DEF IInv, FlagIsTurn
  <2>. QED BY <1>0, <2>1, <2>2, <2>3, BumpInv
<1>4. CASE TurnDrives
  <2>1. /\ UNCHANGED <<planning, worker, sent, call, env>>
        /\ planner' \in {"signal", "release"} /\ planner # "none"
    BY <1>4 DEF TurnDrives
  <2>2. FlagIsTurn' BY <2>1 DEF IInv, FlagIsTurn
  <2>3. CASE driving
    <3>1. UNCHANGED <<driving, thread, node, phase, paused>> BY <1>4, <2>3 DEF TurnDrives
    <3>2. TypeOK' BY <1>0, <2>1, <3>1 DEF TypeOK
    <3>3. \A d \in Drivers : thread[d].pc = "publish" => phase' = "publishing"
      BY <3>1 DEF IInv, PublicationQuiet
    <3>. QED BY <2>1, <2>2, <3>1, <3>2, <3>3, StateInv DEF KeepRunning
  <2>4. CASE ~driving
    <3>1. StartDriver(thread) BY <1>4, <2>4 DEF TurnDrives
    <3>2. TypeOK' BY <1>0, <2>1, <3>1, StartDriverType DEF TypeOK
    <3>. QED BY <1>0, <2>1, <2>2, <2>4, <3>1, <3>2, StartDriverInv
  <2>. QED BY <2>3, <2>4
<1>5. CASE TurnSignals
  <2>1. /\ UNCHANGED <<driving, planning, node, phase, paused, worker, sent, call, env>>
        /\ Bump(thread) /\ planner' = "release" /\ planner = "signal"
    BY <1>5 DEF TurnSignals, state
  <2>2. TypeOK' BY <1>0, <2>1, BumpEffect DEF TypeOK
  <2>3. FlagIsTurn' BY <2>1 DEF IInv, FlagIsTurn
  <2>. QED BY <1>0, <2>1, <2>2, <2>3, BumpInv
<1>. QED BY <1>1, <1>2, <1>3, <1>4, <1>5

(* Requests and the turn itself leave every thread where it is.            *)
LEMMA RequestInv ==
  ASSUME IInv,
         \/ \E u \in Users : Request(u)
         \/ TurnStarts \/ TurnCommits \/ TurnWakes \/ TurnReleases \/ UNCHANGED vars
  PROVE  IInv'
<1> USE DriverAssumption
<1>0. TypeOK BY DEF IInv
<1>1. phase \notin Publishing => \A d \in Drivers : thread[d].pc # "publish"
  BY DEF IInv, PublicationQuiet, Publishing
<1>2. ASSUME NEW u \in Users, NEW r, Spend(u, r)
      PROVE  /\ UNCHANGED <<driving, planning, thread, worker, sent, planner>>
             /\ env' \in [left : Nat, can : SUBSET Possible] /\ env'.can = env.can
             /\ FlagIsTurn'
  <2>1. env' \in [left : Nat, can : SUBSET Possible] /\ env'.can = env.can
    BY <1>0, <1>2 DEF Spend, TypeOK
  <2>. QED BY <1>2, <2>1 DEF Spend, FlagIsTurn, IInv
<1>3. ASSUME NEW u \in Users, Pause(u) PROVE IInv'
  <2>1. /\ Spend(u, "pause") /\ phase \notin Publishing /\ phase' = "paused" /\ paused' = TRUE
        /\ UNCHANGED <<node, call>>
    BY <1>3 DEF Pause, Publishing
  <2>2. TypeOK' BY <1>0, <1>2, <2>1 DEF TypeOK
  <2>. QED BY <1>1, <1>2, <2>1, <2>2, StateInv DEF KeepRunning, Publishing
<1>4. ASSUME NEW u \in Users, ResumeRun(u) PROVE IInv'
  <2>1. /\ Spend(u, "resume") /\ phase \notin Publishing /\ phase' = "running" /\ paused' = FALSE
        /\ UNCHANGED node /\ call' \in [Users -> {"none", "drive", "signal"}]
    BY <1>0, <1>4 DEF ResumeRun, Calls, Publishing, TypeOK
  <2>2. TypeOK' BY <1>0, <1>2, <2>1 DEF TypeOK
  <2>. QED BY <1>1, <1>2, <2>1, <2>2, StateInv DEF KeepRunning, Publishing
<1>5. ASSUME NEW u \in Users, RetryPublication(u) PROVE IInv'
  <2>1. /\ Spend(u, "retry_publication") /\ phase = "publication_failed" /\ phase' = "publishing"
        /\ paused' = FALSE /\ ~driving
        /\ UNCHANGED node /\ call' \in [Users -> {"none", "drive", "signal"}]
    BY <1>0, <1>5 DEF RetryPublication, Calls, TypeOK
  <2>2. TypeOK' BY <1>0, <1>2, <2>1 DEF TypeOK
  <2>3. \A d \in Drivers : thread[d].pc # "publish" BY <2>1 DEF IInv, OneDriver, InLoop
  <2>. QED BY <1>2, <2>1, <2>2, <2>3, StateInv DEF KeepRunning, Publishing
<1>6. ASSUME NEW u \in Users, NEW n \in Nodes, Intervene(u, n) PROVE IInv'
  <2>1. /\ Spend(u, "intervene") /\ phase \notin Publishing /\ node[n] \in {"completed", "failed"}
        /\ phase' \in {"paused", "followup", "running"}
        /\ node' = [node EXCEPT ![n] = "ready"] /\ UNCHANGED paused
        /\ call' \in [Users -> {"none", "drive", "signal"}]
    BY <1>0, <1>6 DEF Intervene, Calls, PausedOr, Publishing, TypeOK
  <2>2. node' \in [Nodes -> Statuses] /\ KeepRunning
    BY <1>0, <2>1 DEF TypeOK, Statuses, KeepRunning
  <2>3. TypeOK' BY <1>0, <1>2, <2>1, <2>2 DEF TypeOK
  <2>. QED BY <1>1, <1>2, <2>1, <2>2, <2>3, StateInv DEF Publishing
<1>7. CASE TurnStarts
  <2>1. /\ UNCHANGED <<driving, node, phase, paused, thread, worker, sent, call>>
        /\ planning' = TRUE /\ planner' = "turn"
    BY <1>7 DEF TurnStarts, state
  <2>2. env' \in [left : Nat, can : SUBSET Possible] /\ env'.can = env.can
    BY <1>0, <1>7 DEF TurnStarts, TypeOK
  <2>3. TypeOK' BY <1>0, <2>1, <2>2 DEF TypeOK
  <2>4. FlagIsTurn' BY <2>1 DEF FlagIsTurn
  <2>. QED BY <2>1, <2>2, <2>3, <2>4, StateInv DEF IInv, PublicationQuiet, KeepRunning
<1>8. CASE TurnCommits
  <2>1. /\ UNCHANGED <<driving, planning, thread, worker, sent, call, env>> /\ UNCHANGED paused
        /\ planner = "turn" /\ planner' = "wake"
    BY <1>8 DEF TurnCommits, state
  <2>2. FlagIsTurn' BY <2>1 DEF IInv, FlagIsTurn
  <2>3. CASE UNCHANGED <<node, phase>>
    <3>1. TypeOK' BY <1>0, <2>1, <2>3 DEF TypeOK
    <3>. QED BY <2>1, <2>2, <2>3, <3>1, StateInv DEF IInv, PublicationQuiet, KeepRunning
  <2>4. CASE /\ phase \notin Publishing /\ phase' = PausedOr("running")
             /\ \E changed \in SUBSET (Nodes \ Running) :
                  node' = [n \in Nodes |-> IF n \in changed THEN "ready" ELSE node[n]]
    <3>1. node' \in [Nodes -> Statuses] /\ KeepRunning
      BY <1>0, <2>4 DEF TypeOK, Statuses, KeepRunning, Running
    <3>2. phase' \in {"paused", "running"} BY <2>4 DEF PausedOr
    <3>3. TypeOK' BY <1>0, <2>1, <3>1, <3>2 DEF TypeOK
    <3>. QED BY <1>1, <2>1, <2>2, <2>4, <3>1, <3>2, <3>3, StateInv DEF Publishing
  <2>. QED BY <1>8, <2>3, <2>4 DEF TurnCommits, Publishing, state
<1>9. CASE TurnWakes \/ TurnReleases \/ UNCHANGED vars
  <2>1. UNCHANGED <<driving, node, phase, paused, thread, worker, sent, call, env>>
    BY <1>9 DEF TurnWakes, TurnReleases, state, vars
  <2>2. /\ planning' \in BOOLEAN
        /\ planner' \in {"none", "turn", "wake", "drive", "signal", "release"} /\ FlagIsTurn'
    <3>1. CASE TurnWakes BY <1>0, <3>1 DEF TurnWakes, IInv, FlagIsTurn, TypeOK
    <3>2. CASE TurnReleases BY <3>2 DEF TurnReleases, FlagIsTurn
    <3>3. CASE UNCHANGED vars BY <1>0, <3>3 DEF vars, IInv, FlagIsTurn, TypeOK
    <3>. QED BY <1>9, <3>1, <3>2, <3>3
  <2>3. TypeOK' BY <1>0, <2>1, <2>2 DEF TypeOK
  <2>. QED BY <2>1, <2>2, <2>3, StateInv DEF IInv, PublicationQuiet, KeepRunning
<1>. QED BY <1>3, <1>4, <1>5, <1>6, <1>7, <1>8, <1>9 DEF Request

(* What a driver owns outside the loop, and that it is alone inside it.    *)
LEMMA OthersOwnNothing ==
  ASSUME IInv, NEW d \in Drivers, InLoop(d), NEW e \in Drivers, e # d
  PROVE  /\ thread[e].pc \in {"off", "recheck", "redrive", "resignal"}
         /\ thread[e].jobs = {}
         /\ ~thread[e].error => thread[e].queue = {}
         /\ \A n \in Nodes : worker[n] # e
<1>1. thread[e].pc \in {"off", "recheck", "redrive", "resignal"}
  BY DEF IInv, OneDriver, InLoop
<1>2. thread[e].jobs = {} BY <1>1 DEF IInv, JobsAreNew
<1>3. ~thread[e].error => thread[e].queue = {} BY <1>1, IdleOwnsNothing DEF Busy
<1>4. \A n \in Nodes : worker[n] # e BY <1>1 DEF IInv, LeavesNoWorker
<1>. QED BY <1>1, <1>2, <1>3, <1>4

(* A scheduling pass starts what is ready, or settles the Run.             *)
LEMMA ScheduleInv ==
  ASSUME IInv, NEW d \in Drivers, Schedule(d)
  PROVE  IInv'
<1> USE DriverAssumption
<1>0. thread[d] \in Threads /\ thread \in [Drivers -> Threads] /\ TypeOK BY DEF IInv, TypeOK
<1>. DEFINE jobs == IF planning \/ ~Schedulable THEN {} ELSE Ready
            pc == IF jobs = {} /\ thread[d].inFlight = 0 THEN "idle" ELSE "spawn"
            moved == [thread[d] EXCEPT !.jobs = jobs, !.pc = pc]
<1>1. /\ thread[d].pc = "schedule" /\ ~thread[d].error /\ thread[d].jobs = {}
      /\ UNCHANGED <<driving, planning, paused, worker, sent, call, planner, env>>
  BY DEF Schedule, At, IInv, ErrorsLeave, JobsAreNew
<1>2. /\ node' = [n \in Nodes |-> IF n \in jobs THEN "running" ELSE node[n]]
      /\ thread' = [thread EXCEPT ![d] = moved]
  BY <1>0 DEF Schedule, Threads
<1>3. jobs \subseteq Ready /\ jobs \subseteq Nodes /\ (jobs # {} => ~planning /\ Schedulable)
  BY DEF Ready
<1>4. pc \in {"idle", "spawn"} /\ (pc = "idle" => thread[d].inFlight = 0)
      /\ (pc = "idle" => jobs = {})
  OBVIOUS
<1>5. \/ phase' = phase
      \/ jobs = {} /\ Running = {} /\ phase' \in {"needs_attention", "completed", "publishing"}
  BY DEF Schedule, Settled
<1>6. moved \in Threads /\ moved.jobs = jobs /\ moved.pc = pc /\ moved.error = thread[d].error
      /\ moved.queue = thread[d].queue /\ moved.inFlight = thread[d].inFlight
  <2>. HIDE DEF jobs, pc
  <2>. QED BY <1>0, <1>3, <1>4 DEF Threads, Places
<1>. HIDE DEF jobs, pc, moved
<1>7. /\ thread' \in [Drivers -> Threads] /\ thread'[d] = moved
      /\ \A e \in Drivers : e # d => thread'[e] = thread[e]
  BY <1>0, <1>2, <1>6
<1>8. node' \in [Nodes -> Statuses] /\ phase' \in {phase, "needs_attention", "completed", "publishing"}
  BY <1>0, <1>2, <1>5 DEF TypeOK, Statuses
<1>9. TypeOK' BY <1>0, <1>1, <1>7, <1>8 DEF TypeOK
<1>10. FlagIsTurn' BY <1>1 DEF IInv, FlagIsTurn
<1>11. InLoop(d) /\ InLoop(d)' BY <1>1, <1>4, <1>6, <1>7 DEF InLoop
<1>12. CASE jobs = {}
  <2>1. KeepRunning BY <1>2, <1>12 DEF KeepRunning
  <2>2. Moves(d, pc, thread[d].error) BY <1>1, <1>6, <1>7, <1>12 DEF Moves
  <2>3. phase' \in Publishing => phase \in Publishing \/ Running = {} BY <1>5
  <2>. QED BY <1>1, <1>4, <1>9, <1>10, <1>11, <2>1, <2>2, <2>3, MoveInv DEF Busy
<1>13. CASE jobs # {}
  <2>1. phase' = phase /\ phase \notin Publishing BY <1>3, <1>5, <1>13 DEF Schedulable, Publishing, IInv, PublicationQuiet
  <2>2. thread'[d].pc = "spawn" BY <1>4, <1>6, <1>7, <1>13
  <2>3. \A n \in jobs : node[n] = "ready" /\ node'[n] = "running" BY <1>2, <1>3 DEF Ready
  <2>4. \A n \in Nodes \ jobs : node'[n] = node[n] BY <1>2
  <2>5. \A e \in Drivers : InLoop(e)' <=> InLoop(e) BY <1>7, <1>11 DEF InLoop
  <2>6. OneDriver' BY <1>1, <2>5 DEF IInv, OneDriver
  <2>7. NoMissedSignal' BY <1>1, <1>7, <2>2 DEF IInv, NoMissedSignal, At
  <2>8. NoOrphan'
    BY <1>1, <1>6, <1>7, <1>11, <2>3, <2>4, <2>5 DEF IInv, NoOrphan, Running
  <2>9. LeavesNoWorker' BY <1>1, <1>7, <2>2 DEF IInv, LeavesNoWorker
  <2>10. \A n \in jobs : worker[n] = "none" /\ n \notin thread[d].queue
    BY <1>1, <1>3, <2>3 DEF IInv, OwnedRun
  <2>11. JobsAreNew'
    <3>1. \A e \in Drivers : e # d => thread'[e].jobs = {} BY <1>7, <1>11, OthersOwnNothing
    <3>2. thread'[d].jobs = jobs /\ thread'[d].queue = thread[d].queue BY <1>6, <1>7
    <3>. QED BY <1>1, <2>2, <2>3, <2>10, <3>1, <3>2 DEF JobsAreNew
  <2>12. OwnedRun'
    BY <1>0, <1>1, <1>6, <1>7, <2>3, <2>4 DEF IInv, OwnedRun, TypeOK, Threads
  <2>13. InFlightCounts'
    <3>1. \A e \in Drivers : Owned(e)' = Owned(e) BY <1>1, <1>6, <1>7 DEF Owned
    <3>. QED BY <1>1, <1>6, <1>7, <2>2, <3>1 DEF IInv, InFlightCounts, Busy
  <2>14. ErrorsLeave' BY <1>1, <1>6, <1>7 DEF IInv, ErrorsLeave
  <2>15. PublicationQuiet'
    BY <1>7, <2>1, <2>2 DEF IInv, PublicationQuiet, Publishing
  <2>. QED BY <1>9, <1>10, <2>6, <2>7, <2>8, <2>9, <2>11, <2>12, <2>13, <2>14, <2>15 DEF IInv
<1>. QED BY <1>12, <1>13

(* A job gets its worker and is counted, or fails at once.                 *)
LEMMA SpawnInv ==
  ASSUME IInv, NEW d \in Drivers, NEW n \in Nodes, Spawn(d, n)
  PROVE  IInv'
<1> USE DriverAssumption
<1>0. thread[d] \in Threads /\ thread \in [Drivers -> Threads] /\ TypeOK BY DEF IInv, TypeOK
<1>1. /\ thread[d].pc = "spawn" /\ n \in thread[d].jobs /\ ~thread[d].error
      /\ node[n] = "running" /\ worker[n] = "none" /\ n \notin thread[d].queue
      /\ UNCHANGED <<sent, driving, planning, phase, paused, call, planner, env>>
  BY DEF Spawn, At, IInv, JobsAreNew, ErrorsLeave
<1>2. InLoop(d) BY <1>1 DEF InLoop
<1>3. PICK k \in {thread[d].inFlight, thread[d].inFlight + 1} :
        /\ thread' = [thread EXCEPT ![d] = [thread[d] EXCEPT !.jobs = @ \ {n}, !.inFlight = k]]
        /\ \/ /\ k = thread[d].inFlight + 1 /\ worker' = [worker EXCEPT ![n] = d]
              /\ UNCHANGED node
           \/ /\ k = thread[d].inFlight /\ node' = [node EXCEPT ![n] = "failed"]
              /\ UNCHANGED worker
  <2>1. [thread[d] EXCEPT !.jobs = @ \ {n}]
          = [thread[d] EXCEPT !.jobs = @ \ {n}, !.inFlight = thread[d].inFlight]
    BY <1>0 DEF Threads
  <2>. QED BY <1>0, <2>1 DEF Spawn, SpawnFailed
<1>. DEFINE moved == [thread[d] EXCEPT !.jobs = @ \ {n}, !.inFlight = k]
<1>4. /\ moved \in Threads /\ moved.pc = "spawn" /\ moved.jobs = thread[d].jobs \ {n}
      /\ moved.inFlight = k /\ moved.queue = thread[d].queue /\ moved.error = thread[d].error
      /\ moved.stale = thread[d].stale
  <2>1. k \in Nat BY <1>0 DEF Threads
  <2>2. thread[d].jobs \ {n} \in SUBSET Nodes BY <1>0 DEF Threads
  <2>. QED BY <1>0, <1>1, <2>1, <2>2 DEF Threads
<1>5. thread' = [thread EXCEPT ![d] = moved] BY <1>3
<1>. HIDE DEF moved
<1>6. /\ thread' \in [Drivers -> Threads] /\ thread'[d] = moved
      /\ \A e \in Drivers : e # d => thread'[e] = thread[e]
  BY <1>0, <1>4, <1>5
<1>7. node' \in [Nodes -> Statuses] /\ worker' \in [Nodes -> Drivers \cup {"none"}]
  BY <1>0, <1>3 DEF TypeOK, Statuses
<1>8. TypeOK' BY <1>0, <1>1, <1>6, <1>7 DEF TypeOK
<1>9. /\ \A m \in Nodes : m # n => node'[m] = node[m] /\ worker'[m] = worker[m]
      /\ worker'[n] \in {d, "none"} /\ node'[n] \in {"running", "failed"}
      /\ worker'[n] # "none" <=> node'[n] = "running"
  BY <1>0, <1>1, <1>3 DEF TypeOK
<1>10. \A e \in Drivers : e # d =>
          /\ thread'[e].pc \in {"off", "recheck", "redrive", "resignal"} /\ thread'[e].jobs = {}
          /\ ~thread'[e].error => thread'[e].queue = {}
          /\ \A m \in Nodes : worker[m] # e
  BY <1>2, <1>6, OthersOwnNothing
<1>11. \A e \in Drivers : InLoop(e)' <=> InLoop(e) BY <1>1, <1>4, <1>6 DEF InLoop
<1>12. OneDriver' BY <1>1, <1>11 DEF IInv, OneDriver
<1>13. NoMissedSignal' BY <1>4, <1>6, <1>10 DEF NoMissedSignal, At
<1>14. NoOrphan'
  <2>1. SUFFICES ASSUME "storage" \notin env.can, NEW m \in Nodes, node'[m] = "running"
                 PROVE  \/ worker'[m] # "none"
                        \/ \E e \in Drivers : InLoop(e)' /\ m \in thread'[e].jobs \cup thread'[e].queue
    BY <1>1 DEF NoOrphan, Running
  <2>2. CASE m = n BY <1>9, <2>1, <2>2
  <2>3. CASE m # n
    <3>1. \A e \in Drivers : InLoop(e) => e = d BY <1>2 DEF IInv, OneDriver
    <3>2. worker[m] # "none" \/ m \in thread[d].jobs \cup thread[d].queue
      BY <1>9, <2>1, <2>3, <3>1 DEF IInv, NoOrphan, Running
    <3>. QED BY <1>2, <1>4, <1>6, <1>9, <1>11, <2>3, <3>2
  <2>. QED BY <2>2, <2>3
<1>15. LeavesNoWorker' BY <1>1, <1>4, <1>6, <1>9, <1>10 DEF IInv, LeavesNoWorker
<1>16. JobsAreNew'
  BY <1>0, <1>4, <1>6, <1>9, <1>10 DEF IInv, JobsAreNew, TypeOK, Threads
<1>17. OwnedRun'
  <2>1. \A m \in Nodes : worker'[m] # "none" => node'[m] = "running"
    BY <1>9 DEF IInv, OwnedRun
  <2>2. \A m \in thread'[d].queue : node'[m] = "running" /\ worker'[m] = "none"
    BY <1>0, <1>1, <1>4, <1>6, <1>9 DEF IInv, OwnedRun, Threads
  <2>. QED BY <1>10, <2>1, <2>2 DEF OwnedRun
<1>18. InFlightCounts'
  <2>1. ASSUME NEW e \in Drivers, e # d PROVE Owned(e)' = Owned(e)
    BY <1>6, <1>9, <1>10, <2>1 DEF Owned
  <2>2. IsFiniteSet(Owned(d))
    <3>1. Owned(d) \subseteq Nodes BY <1>0 DEF Owned, Threads
    <3>. QED BY <3>1, FS_Subset
  <2>3. n \notin Owned(d) BY <1>1 DEF Owned
  <2>4. thread[d].inFlight = Cardinality(Owned(d)) BY <1>1 DEF IInv, InFlightCounts
  <2>5. thread'[d].inFlight = Cardinality(Owned(d)')
    <3>1. CASE k = thread[d].inFlight + 1 /\ worker' = [worker EXCEPT ![n] = d]
      <4>1. Owned(d)' = Owned(d) \cup {n} BY <1>0, <1>4, <1>6, <3>1 DEF Owned, TypeOK
      <4>2. Cardinality(Owned(d) \cup {n}) = Cardinality(Owned(d)) + 1
        BY <2>2, <2>3, FS_AddElement
      <4>. QED BY <1>4, <1>6, <2>4, <3>1, <4>1, <4>2
    <3>2. CASE k = thread[d].inFlight /\ UNCHANGED worker
      <4>1. Owned(d)' = Owned(d) BY <1>4, <1>6, <3>2 DEF Owned
      <4>. QED BY <1>4, <1>6, <2>4, <3>2, <4>1
    <3>. QED BY <1>3, <3>1, <3>2
  <2>. QED BY <1>4, <1>6, <2>1, <2>5 DEF IInv, InFlightCounts, Busy
<1>19. ErrorsLeave' BY <1>1, <1>4, <1>6 DEF IInv, ErrorsLeave
<1>20. PublicationQuiet' /\ FlagIsTurn'
  BY <1>1, <1>4, <1>6, <1>9 DEF IInv, PublicationQuiet, FlagIsTurn, Running
<1>. QED
  BY <1>8, <1>12, <1>13, <1>14, <1>15, <1>16, <1>17, <1>18, <1>19, <1>20 DEF IInv

(* A result is recorded; if it cannot be, the loop ends with an error.     *)
LEMMA FinishInv ==
  ASSUME IInv, NEW d \in Drivers, Finish(d)
  PROVE  IInv'
<1> USE DriverAssumption
<1>0. thread[d] \in Threads /\ thread \in [Drivers -> Threads] /\ TypeOK BY DEF IInv, TypeOK
<1>1. /\ thread[d].pc = "finish" /\ ~thread[d].error /\ thread[d].jobs = {}
      /\ UNCHANGED <<driving, planning, phase, paused, worker, sent, call, planner, env>>
  BY DEF Finish, At, IInv, ErrorsLeave, JobsAreNew
<1>2. InLoop(d) BY <1>1 DEF InLoop
<1>3. PICK n \in thread[d].queue, failed \in BOOLEAN, pc \in {"observe", "join"} :
        /\ thread' = [thread EXCEPT ![d] = [thread[d] EXCEPT !.pc = pc, !.queue = @ \ {n},
                                              !.inFlight = @ - 1, !.error = failed]]
        /\ \/ /\ ~failed /\ pc = "observe"
              /\ \E r \in {"completed", "failed"} : node' = [node EXCEPT ![n] = r]
           \/ failed /\ pc = "join" /\ "storage" \in env.can /\ UNCHANGED node
  <2>1. PICK n \in thread[d].queue :
         \/ /\ \E r \in {"completed", "failed"} : node' = [node EXCEPT ![n] = r]
            /\ thread' = [thread EXCEPT ![d].pc = "observe", ![d].queue = @ \ {n},
                                        ![d].inFlight = @ - 1]
         \/ /\ "storage" \in env.can /\ UNCHANGED node
            /\ thread' = [thread EXCEPT ![d].pc = "join", ![d].queue = @ \ {n},
                                        ![d].inFlight = @ - 1, ![d].error = TRUE]
    BY DEF Finish
  <2>2. [thread[d] EXCEPT !.pc = "observe", !.queue = @ \ {n}, !.inFlight = @ - 1]
          = [thread[d] EXCEPT !.pc = "observe", !.queue = @ \ {n}, !.inFlight = @ - 1,
                              !.error = FALSE]
    BY <1>0, <1>1 DEF Threads
  <2>3. CASE /\ \E r \in {"completed", "failed"} : node' = [node EXCEPT ![n] = r]
             /\ thread' = [thread EXCEPT ![d].pc = "observe", ![d].queue = @ \ {n},
                                        ![d].inFlight = @ - 1]
    <3>1. thread' = [thread EXCEPT ![d] = [thread[d] EXCEPT !.pc = "observe", !.queue = @ \ {n},
                                             !.inFlight = @ - 1, !.error = FALSE]]
      BY <1>0, <2>2, <2>3
    <3>. QED BY <2>3, <3>1
  <2>4. CASE /\ "storage" \in env.can /\ UNCHANGED node
             /\ thread' = [thread EXCEPT ![d].pc = "join", ![d].queue = @ \ {n},
                                        ![d].inFlight = @ - 1, ![d].error = TRUE]
    <3>1. thread' = [thread EXCEPT ![d] = [thread[d] EXCEPT !.pc = "join", !.queue = @ \ {n},
                                             !.inFlight = @ - 1, !.error = TRUE]]
      BY <1>0, <2>4
    <3>. QED BY <2>4, <3>1
  <2>. QED BY <2>1, <2>3, <2>4
<1>4. n \in Nodes /\ node[n] = "running" /\ worker[n] = "none"
  BY <1>0, <1>1 DEF IInv, OwnedRun, Threads
<1>5. n \in Owned(d) /\ IsFiniteSet(Owned(d))
  <2>1. Owned(d) \subseteq Nodes BY <1>0 DEF Owned, Threads
  <2>. QED BY <2>1, FS_Subset DEF Owned
<1>6. /\ Cardinality(Owned(d)) \in Nat
      /\ Cardinality(Owned(d) \ {n}) = Cardinality(Owned(d)) - 1
      /\ Cardinality(Owned(d) \ {n}) \in Nat
  BY <1>5, FS_RemoveElement, FS_CardinalityType
<1>7. thread[d].inFlight = Cardinality(Owned(d)) BY <1>1 DEF IInv, InFlightCounts
<1>. DEFINE moved == [thread[d] EXCEPT !.pc = pc, !.queue = @ \ {n}, !.inFlight = @ - 1,
                                       !.error = failed]
<1>8. /\ moved \in Threads /\ moved.pc = pc /\ moved.jobs = thread[d].jobs
      /\ moved.inFlight = thread[d].inFlight - 1 /\ moved.queue = thread[d].queue \ {n}
      /\ moved.error = failed
  <2>1. thread[d].inFlight - 1 \in Nat BY <1>6, <1>7
  <2>2. thread[d].queue \ {n} \in SUBSET Nodes /\ pc \in Places BY <1>0 DEF Threads, Places
  <2>. QED BY <1>0, <2>1, <2>2 DEF Threads
<1>9. thread' = [thread EXCEPT ![d] = moved] BY <1>3
<1>. HIDE DEF moved
<1>10. /\ thread' \in [Drivers -> Threads] /\ thread'[d] = moved
       /\ \A e \in Drivers : e # d => thread'[e] = thread[e]
  BY <1>0, <1>8, <1>9
<1>11. node' \in [Nodes -> Statuses] BY <1>0, <1>3 DEF TypeOK, Statuses
<1>12. TypeOK' BY <1>0, <1>1, <1>10, <1>11 DEF TypeOK
<1>13. \A m \in Nodes : m # n => node'[m] = node[m] BY <1>0, <1>3 DEF TypeOK
<1>14. failed => "storage" \in env.can BY <1>3
<1>15. ~failed => node'[n] \in {"completed", "failed"} /\ pc = "observe" BY <1>0, <1>3, <1>4 DEF TypeOK
<1>16. node'[n] # "running" \/ (failed /\ node'[n] = "running") BY <1>0, <1>3, <1>4 DEF TypeOK
<1>17. \A e \in Drivers : e # d =>
          /\ thread'[e].pc \in {"off", "recheck", "redrive", "resignal"} /\ thread'[e].jobs = {}
          /\ ~thread'[e].error => thread'[e].queue = {}
  BY <1>2, <1>10, OthersOwnNothing
<1>18. \A e \in Drivers : InLoop(e)' <=> InLoop(e) BY <1>1, <1>8, <1>10 DEF InLoop
<1>19. OneDriver' BY <1>1, <1>18 DEF IInv, OneDriver
<1>20. NoMissedSignal' BY <1>8, <1>10, <1>17 DEF NoMissedSignal, At
<1>21. NoOrphan'
  <2>1. SUFFICES ASSUME "storage" \notin env.can, NEW m \in Nodes, node'[m] = "running"
                 PROVE  \/ worker'[m] # "none"
                        \/ \E e \in Drivers : InLoop(e)' /\ m \in thread'[e].jobs \cup thread'[e].queue
    BY <1>1 DEF NoOrphan, Running
  <2>2. m # n BY <1>14, <1>16, <2>1
  <2>3. \A e \in Drivers : InLoop(e) => e = d BY <1>2 DEF IInv, OneDriver
  <2>4. worker[m] # "none" \/ m \in thread[d].jobs \cup thread[d].queue
    BY <1>13, <2>1, <2>2, <2>3 DEF IInv, NoOrphan, Running
  <2>. QED BY <1>1, <1>2, <1>8, <1>10, <1>18, <2>2, <2>4
<1>22. LeavesNoWorker' BY <1>1, <1>8, <1>10 DEF IInv, LeavesNoWorker
<1>23. JobsAreNew' BY <1>1, <1>8, <1>10, <1>17 DEF JobsAreNew
<1>24. OwnedRun'
  <2>1. \A m \in Nodes : worker'[m] # "none" => node'[m] = "running"
    BY <1>1, <1>4, <1>13 DEF IInv, OwnedRun
  <2>2. ~thread'[d].error => \A m \in thread'[d].queue : node'[m] = "running" /\ worker'[m] = "none"
    BY <1>0, <1>1, <1>8, <1>10, <1>13 DEF IInv, OwnedRun, Threads
  <2>. QED BY <1>17, <2>1, <2>2 DEF OwnedRun
<1>25. InFlightCounts'
  <2>1. ASSUME NEW e \in Drivers, e # d PROVE Owned(e)' = Owned(e) BY <1>1, <1>10, <2>1 DEF Owned
  <2>2. Owned(d)' = Owned(d) \ {n}
    BY <1>1, <1>4, <1>8, <1>10 DEF Owned
  <2>3. thread'[d].inFlight = Cardinality(Owned(d)') BY <1>6, <1>7, <1>8, <1>10, <2>2
  <2>4. ~thread'[d].error => thread'[d].pc \in Busy BY <1>8, <1>10, <1>15 DEF Busy
  <2>. QED BY <1>10, <2>1, <2>3, <2>4 DEF IInv, InFlightCounts
<1>26. ErrorsLeave' BY <1>1, <1>3, <1>8, <1>10 DEF IInv, ErrorsLeave
<1>27. PublicationQuiet' /\ FlagIsTurn'
  BY <1>1, <1>4, <1>8, <1>10, <1>13 DEF IInv, PublicationQuiet, FlagIsTurn, Running
<1>. QED
  BY <1>12, <1>19, <1>20, <1>21, <1>22, <1>23, <1>24, <1>25, <1>26, <1>27 DEF IInv

(* A worker's result moves from the worker to its driver's queue.          *)
LEMMA SendInv ==
  ASSUME IInv, NEW n \in Nodes, WorkerSends(n)
  PROVE  IInv'
<1> USE DriverAssumption
<1>0. thread \in [Drivers -> Threads] /\ TypeOK BY DEF IInv, TypeOK
<1>. DEFINE d == worker[n]
<1>1. /\ d \in Drivers /\ worker' = [worker EXCEPT ![n] = "none"]
      /\ sent' = [sent EXCEPT ![d] = @ + 1] /\ node[n] = "running"
      /\ UNCHANGED <<driving, planning, node, phase, paused, call, planner, env>>
  BY <1>0 DEF WorkerSends, state, TypeOK, IInv, OwnedRun
<1>2. InLoop(d) /\ thread[d].pc # "clear" BY <1>1 DEF InLoop, IInv, LeavesNoWorker
<1>3. PICK queue \in {thread[d].queue, thread[d].queue \cup {n}} :
        /\ thread' = [thread EXCEPT ![d] = [thread[d] EXCEPT !.queue = queue]]
        /\ ~thread[d].error => queue = thread[d].queue \cup {n}
        /\ thread[d].error => queue = thread[d].queue
  <2>1. CASE ~thread[d].error
    <3>1. thread' = [thread EXCEPT ![d] = [thread[d] EXCEPT !.queue = thread[d].queue \cup {n}]]
      BY <1>0, <1>1, <2>1 DEF WorkerSends
    <3>. QED BY <2>1, <3>1
  <2>2. CASE thread[d].error
    <3>1. thread[d] = [thread[d] EXCEPT !.queue = thread[d].queue] BY <1>0, <1>1 DEF Threads
    <3>2. thread' = [thread EXCEPT ![d] = [thread[d] EXCEPT !.queue = thread[d].queue]]
      BY <1>0, <1>1, <2>2, <3>1 DEF WorkerSends
    <3>. QED BY <2>2, <3>2
  <2>. QED BY <2>1, <2>2
<1>. HIDE DEF d
<1>. DEFINE moved == [thread[d] EXCEPT !.queue = queue]
<1>4. /\ moved \in Threads /\ moved.pc = thread[d].pc /\ moved.jobs = thread[d].jobs
      /\ moved.inFlight = thread[d].inFlight /\ moved.queue = queue
      /\ moved.error = thread[d].error /\ moved.stale = thread[d].stale
  <2>1. thread[d] \in Threads BY <1>0, <1>1
  <2>2. queue \in SUBSET Nodes BY <2>1 DEF Threads
  <2>. QED BY <2>1, <2>2 DEF Threads
<1>5. thread' = [thread EXCEPT ![d] = moved] BY <1>3
<1>. HIDE DEF moved
<1>6. /\ thread' \in [Drivers -> Threads] /\ thread'[d] = moved
      /\ \A e \in Drivers : e # d => thread'[e] = thread[e]
  BY <1>0, <1>1, <1>4, <1>5
<1>7. /\ worker' \in [Nodes -> Drivers \cup {"none"}] /\ worker'[n] = "none" /\ worker[n] = d
      /\ \A m \in Nodes : m # n => worker'[m] = worker[m]
  BY <1>0, <1>1 DEF TypeOK, d
<1>8. /\ sent' \in [Drivers -> Nat] /\ sent'[d] > 0
      /\ \A e \in Drivers : e # d => sent'[e] = sent[e]
  BY <1>0, <1>1 DEF TypeOK
<1>9. TypeOK' BY <1>0, <1>1, <1>6, <1>7, <1>8 DEF TypeOK
<1>10. \A e \in Drivers : InLoop(e)' <=> InLoop(e) BY <1>4, <1>6 DEF InLoop
<1>11. OneDriver' BY <1>1, <1>10 DEF IInv, OneDriver
<1>12. NoMissedSignal' BY <1>1, <1>4, <1>6, <1>8 DEF IInv, NoMissedSignal, At
<1>13. NoOrphan'
  <2>1. SUFFICES ASSUME "storage" \notin env.can, NEW m \in Nodes, node[m] = "running"
                 PROVE  \/ worker'[m] # "none"
                        \/ \E e \in Drivers : InLoop(e)' /\ m \in thread'[e].jobs \cup thread'[e].queue
    BY <1>1 DEF NoOrphan, Running
  <2>2. ~thread[d].error BY <1>1, <2>1 DEF IInv, ErrorsLeave
  <2>3. CASE m = n BY <1>1, <1>2, <1>3, <1>4, <1>6, <1>10, <2>2, <2>3
  <2>4. CASE m # n
    <3>1. \/ worker[m] # "none"
          \/ \E e \in Drivers : InLoop(e) /\ m \in thread[e].jobs \cup thread[e].queue
      BY <2>1 DEF IInv, NoOrphan, Running
    <3>. QED BY <1>1, <1>3, <1>4, <1>6, <1>7, <1>10, <2>4, <3>1
  <2>. QED BY <2>3, <2>4
<1>14. LeavesNoWorker'
  BY <1>1, <1>2, <1>4, <1>6, <1>7, <1>8 DEF IInv, LeavesNoWorker, InLoop
<1>15. JobsAreNew'
  <2>1. \A e \in Drivers : n \notin thread[e].jobs BY <1>1, <1>7 DEF IInv, JobsAreNew
  <2>. QED BY <1>0, <1>1, <1>3, <1>4, <1>6, <1>7, <2>1 DEF IInv, JobsAreNew, Threads
<1>16. OwnedRun'
  <2>1. \A m \in Nodes : worker'[m] # "none" => node'[m] = "running"
    BY <1>1, <1>7 DEF IInv, OwnedRun
  <2>2. ASSUME NEW e \in Drivers, ~thread'[e].error
        PROVE  \A m \in thread'[e].queue : node'[m] = "running" /\ worker'[m] = "none"
    BY <1>0, <1>1, <1>3, <1>4, <1>6, <1>7, <2>2 DEF IInv, OwnedRun, Threads
  <2>. QED BY <2>1, <2>2 DEF OwnedRun
<1>17. InFlightCounts'
  <2>1. ASSUME NEW e \in Drivers, ~thread[e].error PROVE Owned(e)' = Owned(e)
    <3>1. CASE e = d BY <1>3, <1>4, <1>6, <1>7, <2>1, <3>1 DEF Owned
    <3>2. CASE e # d BY <1>6, <1>7, <2>1, <3>2 DEF Owned
    <3>. QED BY <3>1, <3>2
  <2>. QED BY <1>4, <1>6, <2>1 DEF IInv, InFlightCounts
<1>18. ErrorsLeave' BY <1>1, <1>4, <1>6 DEF IInv, ErrorsLeave
<1>19. PublicationQuiet' /\ FlagIsTurn'
  BY <1>1, <1>4, <1>6 DEF IInv, PublicationQuiet, FlagIsTurn, Running
<1>. QED
  BY <1>9, <1>11, <1>12, <1>13, <1>14, <1>15, <1>16, <1>17, <1>18, <1>19 DEF IInv

-----------------------------------------------------------------------------
(* Every step of the driver and of those it works with keeps the invariant.*)
LEMMA Invariance == IInv /\ [Next]_vars => IInv'
<1> SUFFICES ASSUME IInv, [Next]_vars PROVE IInv'
  OBVIOUS
<1>1. ASSUME NEW d \in Drivers, DriverStep(d) PROVE IInv'
  <2>1. CASE \E n \in Nodes : Spawn(d, n) BY <2>1, SpawnInv
  <2>2. CASE Schedule(d) BY <2>2, ScheduleInv
  <2>3. CASE Finish(d) BY <2>3, FinishInv
  <2>. QED BY <1>1, <2>1, <2>2, <2>3, WalkInv, LeaveInv DEF DriverStep
<1>2. ASSUME NEW u \in Users, Drive(u) \/ Signal(u) \/ Request(u) PROVE IInv'
  BY <1>2, CallInv, RequestInv
<1>3. CASE (\E n \in Nodes : WorkerSends(n)) \/ (\E d \in Drivers : WorkerSignals(d))
  BY <1>3, SendInv, CallInv
<1>4. CASE TurnStarts \/ TurnStep \/ Quiet
  BY <1>4, CallInv, RequestInv DEF TurnStep, Quiet
<1>. QED BY <1>1, <1>2, <1>3, <1>4, RequestInv DEF Next

(* The flag, the generation and the channel are enough: one thread drives, *)
(* it never sleeps through a signal, publishes alone and leaves no node    *)
(* behind, whatever arrives while it is on its way out.                    *)
THEOREM DriverIsSafe == Spec => []DriverSafe
<1>1. IInv => PublishesAlone
  <2>1. SUFFICES ASSUME IInv, NEW d \in Drivers, thread[d].pc = "publish"
                 PROVE  /\ Running = {} /\ \A n \in Nodes : worker[n] = "none"
                        /\ thread[d].inFlight = 0 /\ phase = "publishing"
    BY DEF PublishesAlone, At
  <2>2. phase = "publishing" /\ Running = {} BY <2>1 DEF IInv, PublicationQuiet
  <2>3. \A n \in Nodes : worker[n] = "none" BY <2>1, <2>2 DEF IInv, OwnedRun, Running
  <2>4. thread[d].inFlight = 0 BY <2>1 DEF IInv, InFlightCounts, ErrorsLeave, Busy
  <2>. QED BY <2>2, <2>3, <2>4
<1>2. IInv => DriverSafe BY <1>1 DEF IInv, DriverSafe
<1>. QED BY <1>2, InitInv, Invariance, PTL DEF Spec

(* A scheduling pass is the only step that makes a ready node run, and it  *)
(* starts nothing while the planning flag is set: a Planner turn never     *)
(* sees a node start between the graph it read and the graph it commits.   *)
THEOREM NoStartInTurn == Spec => NoStartDuringTurn
<1>1. ASSUME IInv, [Next]_vars, planner = "turn", NEW n \in Nodes, node[n] = "ready"
      PROVE  node'[n] # "running"
  <2>1. planning BY <1>1 DEF IInv, FlagIsTurn
  <2>2. TypeOK BY <1>1 DEF IInv
  <2>3. CASE node' = node BY <1>1, <2>3
  <2>4. ASSUME NEW d \in Drivers, Schedule(d) PROVE node'[n] # "running"
    BY <1>1, <2>1, <2>4 DEF Schedule
  <2>5. ASSUME NEW d \in Drivers, NEW m \in Nodes, Spawn(d, m) PROVE node'[n] # "running"
    BY <1>1, <2>2, <2>5 DEF Spawn, SpawnFailed, TypeOK
  <2>6. ASSUME NEW d \in Drivers, Finish(d) PROVE node'[n] # "running"
    BY <1>1, <2>2, <2>6 DEF Finish, TypeOK
  <2>7. ASSUME NEW d \in Drivers, DriverStep(d) PROVE node' = node \/ node'[n] # "running"
    <3>1. CASE \/ Observe(d) \/ ScheduleFails(d) \/ Spawned(d) \/ Collect(d) \/ Idle(d)
               \/ Publish(d) \/ Published(d) \/ Review(d) \/ Reviewed(d) \/ Join(d)
      BY <3>1 DEF Observe, ScheduleFails, Spawned, Collect, Idle, Publish, Published, Review,
         Reviewed, Join, state
    <3>2. CASE Clear(d) \/ Recheck(d) \/ Redrive(d) \/ Resignal(d)
      BY <3>2 DEF Clear, Recheck, Redrive, Resignal, StartDriver, state
    <3>. QED BY <2>4, <2>5, <2>6, <2>7, <3>1, <3>2 DEF DriverStep
  <2>8. ASSUME NEW u \in Users, Drive(u) \/ Signal(u) \/ Request(u)
        PROVE  node' = node \/ node'[n] # "running"
    <3>1. CASE Drive(u) \/ Signal(u) BY <3>1 DEF Drive, Signal, StartDriver, state
    <3>2. CASE Request(u)
      BY <1>1, <2>2, <3>2 DEF Request, Pause, ResumeRun, RetryPublication, Intervene, TypeOK
    <3>. QED BY <2>8, <3>1, <3>2
  <2>9. TurnStep => node' = node \/ node'[n] # "running"
    BY <1>1 DEF TurnStep, TurnCommits, TurnWakes, TurnDrives, TurnSignals, TurnReleases,
       StartDriver, state
  <2>10. /\ \A m \in Nodes : WorkerSends(m) => node' = node
         /\ \A d \in Drivers : WorkerSignals(d) => node' = node
         /\ TurnStarts \/ Quiet \/ UNCHANGED vars => node' = node
    BY DEF WorkerSends, WorkerSignals, TurnStarts, Quiet, vars, state
  <2>. QED BY <1>1, <2>3, <2>7, <2>8, <2>9, <2>10 DEF Next
<1>2. IInv /\ [Next]_vars =>
        [planner = "turn" => \A n \in Nodes : node[n] = "ready" => node'[n] # "running"]_vars
  BY <1>1
<1>. QED BY <1>2, InitInv, Invariance, PTL DEF Spec, NoStartDuringTurn
=============================================================================
