------------------------ MODULE ProcessControlProofs ------------------------
(***************************************************************************)
(* Proofs about process control: for any nodes, any number of attempts,    *)
(* processes and stops, a stop that went through the registry leaves no    *)
(* process at work, no flag outlives its execution, every live process has *)
(* somebody who ends it, and a conversation has one engine.                *)
(***************************************************************************)
EXTENDS ProcessControl, TLAPS

(* Places where a worker has no process, and where only the worker of a    *)
(* Serial conversation comes.                                              *)
Free == {"idle", "check", "prepared", "record", "claim", "launch", "assigned", "ended"}
SerialOnly == {"claim", "rekey", "assigned", "park"}
PastClaim == {"rekey", "launch", "assigned", "register", "confirm", "turn", "settled", "park"}
Locked == {"flag", "collect", "kill", "stopped", "unpark"}

(* The registry knows a worker's process by the worker's place.            *)
Seated(n) ==
    /\ worker[n].proc = None <=> worker[n].pc \in Free
    /\ worker[n].pc = "register" => owner[worker[n].proc] = Untracked
    /\ worker[n].pc \in {"confirm", "turn", "settled"} => owner[worker[n].proc] = Attempt(n)
    /\ worker[n].pc \in {"rekey", "park"} => owner[worker[n].proc] = Linger
    /\ worker[n].pc = "assigned" => warm # None /\ owner[warm] = Attempt(n)
    /\ worker[n].pc \in SerialOnly => env.serial
    /\ worker[n].pc # "idle" => n \in env.nodes /\ worker[n].no > 0
Places == \A n \in Nodes : Seated(n)

Pools ==
    /\ parked # None => owner[parked] = Linger
    /\ warm # None => owner[warm] # None
    /\ warm = parked => warm = None
    /\ env.serial => \A m, n \in env.nodes : m = n

(* No two of the workers and the pools hold the same process.              *)
Apart ==
    \A n \in Nodes : worker[n].proc # None =>
        /\ worker[n].proc # warm /\ worker[n].proc # parked
        /\ \A m \in Nodes : m # n => worker[m].proc # worker[n].proc

(* The request holds the mutex while it stops executions, and what it has  *)
(* flagged or still has to flag is the attempt a worker is busy with.      *)
Busy(a) == \E n \in Nodes : a = Attempt(n) /\ worker[n].pc # "idle"
Asked ==
    /\ mutex <=> request.pc \in Locked
    /\ request.pc \notin {"flag", "collect", "kill"} => request.todo = {}
    /\ request.now # None <=> request.pc \in {"collect", "kill"}
    /\ request.now # None => request.now \in flags
    /\ \A a \in flags \cup request.todo : Busy(a)

(* A process that was at work for the attempt when the registry was read   *)
(* is among those the request is about to kill.                            *)
Caught(n) ==
    request.pc = "kill" /\ Attempt(n) = request.now /\ Working(n) =>
        env.serial \/ worker[n].proc \in request.victims
StoppedOK(n) ==
    Flagged(n) /\ Attempt(n) \notin request.todo \cup {request.now} /\ Working(n) => env.serial
Stops == \A n \in Nodes : Caught(n) /\ StoppedOK(n)

(* An engine of the conversation is parked, with the worker, or just       *)
(* assigned to it.                                                         *)
Engines ==
    env.serial =>
        /\ \A n \in Nodes : worker[n].pc \in PastClaim => parked = None
        /\ \A p \in alive : owner[p] \in Attempts \cup {Linger} =>
              \/ p = parked
              \/ \E n \in Nodes : worker[n].proc = p
              \/ p = warm /\ \E n \in Nodes : worker[n].pc = "assigned"

IInv == TypeOK /\ Places /\ Pools /\ Apart /\ Asked /\ Stops /\ Accounted /\ Engines

-----------------------------------------------------------------------------
(* Names.                                                                  *)

\* The names of owners and processes are apart.
LEMMA Namespaces ==
  /\ None \notin Procs /\ None \notin Attempts /\ None # Linger /\ None # Untracked /\ None # Idle
  /\ Idle \notin Attempts /\ Idle # Linger
<1>1. \A a \in Attempts : a[1] = "node" BY DEF Attempts
<1>2. Idle[1] = "idle" /\ Linger[1] = "linger" BY DEF Idle, Linger
<1>3. None \notin Procs BY NoneAssumption, ControlAssumption DEF Procs
<1>. QED BY <1>1, <1>2, <1>3, NoneAssumption DEF Owners

\* An attempt names its node and its number.
LEMMA AttemptNames ==
  /\ \A m, n \in Nodes : Attempt(m) = Attempt(n) => m = n
  /\ \A n \in Nodes : Attempt(n)[2] = n /\ Attempt(n)[3] = worker[n].no
  BY DEF Attempt

\* A worker that is busy works on an attempt.
LEMMA BusyAttempt ==
  ASSUME TypeOK, Places, NEW n \in Nodes, worker[n].pc # "idle"
  PROVE  Attempt(n) \in Attempts
<1>1. worker[n].no \in 1 .. MaxAttempts BY ControlAssumption DEF TypeOK, Workers, Places, Seated
<1>. QED BY <1>1 DEF Attempt, Attempts

(* One worker moves, and keeps its attempt.                                *)
Moved(n) ==
    /\ worker' \in [Nodes -> Workers] /\ worker'[n].no = worker[n].no
    /\ \A m \in Nodes : m # n => worker'[m] = worker[m]
    /\ \A m \in Nodes : Attempt(m)' = Attempt(m)

\* The two ways in which a worker changes its place.
LEMMA GoEffect ==
  ASSUME TypeOK, NEW n \in Nodes, NEW pc, NEW q \in Procs \cup {None},
         pc \in {"check", "prepared", "record", "claim", "rekey", "launch", "assigned", "register",
                 "confirm", "turn", "settled", "park", "ended", "idle"},
         GoWith(n, pc, q) \/ (Go(n, pc) /\ q = worker[n].proc)
  PROVE  Moved(n) /\ worker'[n].pc = pc /\ worker'[n].proc = q
<1>1. worker[n] \in Workers BY DEF TypeOK
<1>. DEFINE w == [worker[n] EXCEPT !.pc = pc, !.proc = q]
<1>2. w \in Workers /\ w.pc = pc /\ w.no = worker[n].no /\ w.proc = q BY <1>1 DEF Workers
<1>3. worker' = [worker EXCEPT ![n] = w]
  <2>1. CASE GoWith(n, pc, q) BY <2>1 DEF GoWith, TypeOK
  <2>2. CASE Go(n, pc) /\ q = worker[n].proc
    <3>1. w = [worker[n] EXCEPT !.pc = pc] BY <1>1, <2>2 DEF Workers
    <3>. QED BY <2>2, <3>1 DEF Go, TypeOK
  <2>. QED BY <2>1, <2>2
<1>. HIDE DEF w
<1>4. worker' \in [Nodes -> Workers] /\ worker'[n] = w /\ \A m \in Nodes : m # n => worker'[m] = worker[m]
  BY <1>2, <1>3 DEF TypeOK
<1>. QED BY <1>2, <1>4 DEF Moved, Attempt

-----------------------------------------------------------------------------
(* The kinds of steps.                                                     *)

(* The other workers are where they were, and so are their processes.      *)
LEMMA OthersSeated ==
  ASSUME IInv, NEW n \in Nodes, Moved(n), worker[n].pc # "idle", UNCHANGED env, Seated(n)',
         \A m \in Nodes : m # n /\ worker[m].proc # None =>
             owner'[worker[m].proc] = owner[worker[m].proc]
  PROVE  Places'
<1>. SUFFICES ASSUME NEW m \in Nodes, m # n PROVE Seated(m)' BY DEF Places
<1>1. Seated(m) /\ n \in env.nodes BY DEF IInv, Places, Seated
<1>2. worker'[m] = worker[m] /\ Attempt(m)' = Attempt(m) BY DEF Moved
<1>3. worker[m].pc # "assigned" BY <1>1 DEF Seated, SerialOnly, IInv, Pools
<1>. QED BY <1>1, <1>2, <1>3 DEF Seated, Free

(* A worker's step leaves the requests alone; it comes to work only if     *)
(* its attempt is not stopped.                                             *)
LEMMA WorkerStops ==
  ASSUME IInv, NEW n \in Nodes, Moved(n), UNCHANGED <<flags, request, mutex, env>>,
         worker[n].pc # "idle", worker'[n].pc # "idle",
         \A m \in Nodes : m # n /\ worker[m].proc \in alive' => worker[m].proc \in alive,
         worker'[n].pc = "turn" => ~Flagged(n) \/ env.serial
  PROVE  Asked' /\ Stops'
<1>1. Asked'
  <2>1. \A a : Busy(a) => Busy(a)' BY DEF Busy, Moved
  <2>. QED BY <2>1 DEF IInv, Asked
<1>2. ASSUME NEW m \in Nodes, m # n PROVE Caught(m)' /\ StoppedOK(m)'
  <2>1. worker'[m] = worker[m] /\ Attempt(m)' = Attempt(m) BY <1>2 DEF Moved
  <2>2. Working(m)' => Working(m) BY <1>2, <2>1 DEF Working, At
  <2>3. Caught(m) /\ StoppedOK(m) BY DEF IInv, Stops
  <2>4. Caught(m)' BY <2>1, <2>2, <2>3 DEF Caught
  <2>5. StoppedOK(m)' BY <2>1, <2>2, <2>3 DEF StoppedOK, Flagged
  <2>. QED BY <2>4, <2>5
<1>3. Caught(n)' /\ StoppedOK(n)'
  <2>1. Attempt(n)' = Attempt(n) BY DEF Moved
  <2>2. Working(n)' => ~Flagged(n) \/ env.serial BY DEF Working, At
  <2>3. request.pc = "kill" => request.now \in flags BY DEF IInv, Asked
  <2>4. Caught(n)' BY <2>1, <2>2, <2>3 DEF Caught, Flagged
  <2>5. StoppedOK(n)' BY <2>1, <2>2 DEF StoppedOK, Flagged
  <2>. QED BY <2>4, <2>5
<1>. QED BY <1>1, <1>2, <1>3 DEF Stops

(* A worker moves and no process changes hands.                            *)
LEMMA MoveInv ==
  ASSUME IInv, NEW n \in Nodes, Moved(n), UNCHANGED <<procs, env>>,
         worker'[n].proc = worker[n].proc, Seated(n)', worker[n].pc # "assigned",
         worker'[n].pc \in PastClaim => worker[n].pc \in PastClaim \/ parked = None \/ ~env.serial,
         \A m \in Nodes : m # n => Seated(m)'
  PROVE  Places' /\ Pools' /\ Apart' /\ Accounted' /\ Engines'
<1>0. UNCHANGED <<owner, alive, warm, parked, mem>> BY DEF procs
<1>1. Places' BY DEF Places
<1>2. Pools' BY <1>0 DEF IInv, Pools
<1>3. Apart' BY <1>0 DEF IInv, Apart, Moved
<1>4. Accounted' BY <1>0 DEF IInv, Accounted, Moved
<1>5. Engines'
  <2>. SUFFICES ASSUME env.serial
                PROVE  /\ \A m \in Nodes : worker'[m].pc \in PastClaim => parked = None
                       /\ \A p \in alive : owner[p] \in Attempts \cup {Linger} =>
                            \/ p = parked
                            \/ \E m \in Nodes : worker'[m].proc = p
                            \/ p = warm /\ \E m \in Nodes : worker'[m].pc = "assigned"
    BY <1>0 DEF Engines
  <2>1. ASSUME NEW m \in Nodes, worker'[m].pc \in PastClaim PROVE parked = None
    BY <2>1 DEF IInv, Engines, Moved
  <2>2. \A m \in Nodes : worker'[m].proc = worker[m].proc BY DEF Moved
  <2>3. \A m \in Nodes : worker[m].pc = "assigned" => worker'[m].pc = "assigned" BY DEF Moved
  <2>. QED BY <2>1, <2>2, <2>3 DEF IInv, Engines
<1>. QED BY <1>1, <1>2, <1>3, <1>4, <1>5

\* Steps that move a worker and no process.
LEMMA WalkInv ==
  ASSUME IInv, NEW n \in Nodes,
         Check(n) \/ Prepared(n) \/ Record(n) \/ ClaimMiss(n) \/ SpawnFails(n) \/ Settle(n)
  PROVE  IInv'
<1>0. TypeOK /\ Seated(n) /\ worker[n].proc \in Procs \cup {None}
  BY DEF IInv, Places, TypeOK, Workers
<1>1. UNCHANGED <<procs, control>>
  BY DEF Check, Prepared, Record, ClaimMiss, SpawnFails, Settle
<1>2. UNCHANGED <<owner, alive, warm, parked, mem, flags, request, mutex, branch, env>>
  BY <1>1 DEF procs, control
<1>3. /\ Moved(n) /\ worker'[n].proc = worker[n].proc
      /\ \/ worker[n].pc = "check" /\ worker'[n].pc \in {"ended", "prepared"}
         \/ worker[n].pc = "prepared" /\ worker'[n].pc \in {"ended", "record"}
         \/ worker[n].pc = "record" /\ worker'[n].pc = "claim" /\ env.serial
         \/ worker[n].pc = "record" /\ worker'[n].pc = "launch" /\ ~env.serial
         \/ worker[n].pc = "claim" /\ worker'[n].pc = "launch" /\ parked = None
         \/ worker[n].pc = "launch" /\ worker'[n].pc = "ended"
         \/ worker[n].pc = "turn" /\ worker'[n].pc = "settled"
  BY <1>0, GoEffect DEF Check, Prepared, Record, ClaimMiss, SpawnFails, Settle, At
<1>4. Seated(n)' BY <1>0, <1>2, <1>3 DEF Seated, Free, SerialOnly, Moved
<1>5. worker[n].pc # "idle" /\ worker'[n].pc \notin {"idle", "turn"} /\ worker[n].pc # "assigned"
  BY <1>3
<1>6. Places' BY <1>2, <1>3, <1>4, <1>5, OthersSeated
<1>7. worker'[n].pc \in PastClaim => worker[n].pc \in PastClaim \/ parked = None \/ ~env.serial
  BY <1>3 DEF PastClaim
<1>8. Places' /\ Pools' /\ Apart' /\ Accounted' /\ Engines'
  BY <1>1, <1>2, <1>3, <1>4, <1>5, <1>6, <1>7, MoveInv DEF Places
<1>9. Asked' /\ Stops' BY <1>2, <1>3, <1>5, WorkerStops
<1>10. TypeOK' BY <1>0, <1>2, <1>3 DEF TypeOK, Moved
<1>. QED BY <1>8, <1>9, <1>10 DEF IInv

(* A worker begins an attempt nobody has stopped, and ends it with its     *)
(* flag.                                                                   *)
LEMMA BeginInv ==
  ASSUME IInv, NEW n \in Nodes, Begin(n)
  PROVE  IInv'
<1>0. TypeOK /\ Seated(n) /\ worker[n] \in Workers BY DEF IInv, Places, TypeOK
<1>1. /\ n \in env.nodes /\ worker[n].pc = "idle" /\ ~mutex /\ worker[n].no < MaxAttempts
      /\ worker' = [worker EXCEPT ![n] = [pc |-> "check", no |-> worker[n].no + 1, proc |-> None]]
      /\ UNCHANGED <<owner, alive, warm, parked, mem, flags, request, mutex, branch, env>>
  BY DEF Begin, At, procs, control
<1>2. worker[n].no \in 0 .. MaxAttempts /\ worker[n].no + 1 \in 0 .. MaxAttempts /\ worker[n].no + 1 > 0
  BY <1>0, <1>1, ControlAssumption DEF Workers
<1>3. /\ worker' \in [Nodes -> Workers] /\ worker'[n].pc = "check" /\ worker'[n].proc = None
      /\ worker'[n].no > 0 /\ \A m \in Nodes : m # n => worker'[m] = worker[m]
  BY <1>0, <1>1, <1>2 DEF TypeOK, Workers
<1>4. worker[n].proc = None BY <1>0, <1>1 DEF Seated, Free
<1>5. TypeOK' BY <1>0, <1>1, <1>3 DEF TypeOK
<1>6. Places'
  <2>1. Seated(n)' BY <1>1, <1>3 DEF Seated, Free, SerialOnly
  <2>2. ASSUME NEW m \in Nodes, m # n PROVE Seated(m)'
    BY <1>1, <1>3, <2>2 DEF IInv, Places, Seated, Attempt
  <2>. QED BY <2>1, <2>2 DEF Places
<1>7. Pools' /\ Apart' BY <1>1, <1>3 DEF IInv, Pools, Apart
<1>8. Accounted' BY <1>1, <1>3, <1>4 DEF IInv, Accounted, TypeOK
<1>9. Engines'
  <2>1. \A m \in Nodes : worker'[m].proc = worker[m].proc BY <1>3, <1>4
  <2>2. \A m \in Nodes : worker'[m].pc \in PastClaim => worker[m].pc \in PastClaim
    BY <1>3 DEF PastClaim
  <2>3. \A m \in Nodes : worker[m].pc = "assigned" => worker'[m].pc = "assigned" BY <1>1, <1>3
  <2>. QED BY <1>1, <2>1, <2>2, <2>3 DEF IInv, Engines
<1>10. request.todo = {} /\ request.now = None /\ request.pc # "kill"
  BY <1>1 DEF IInv, Asked, Locked
<1>11. \A m \in Nodes : m # n => Attempt(m)' = Attempt(m) BY <1>3 DEF Attempt
<1>12. Asked'
  <2>1. ASSUME NEW a, Busy(a) PROVE Busy(a)' BY <1>1, <1>3, <1>11, <2>1 DEF Busy
  <2>. QED BY <1>1, <1>10, <2>1 DEF IInv, Asked
<1>13. Stops'
  <2>1. Caught(n)' /\ StoppedOK(n)' BY <1>3 DEF Caught, StoppedOK, Working, At
  <2>2. ASSUME NEW m \in Nodes, m # n PROVE Caught(m)' /\ StoppedOK(m)'
    BY <1>1, <1>3, <1>11, <2>2 DEF IInv, Stops, Caught, StoppedOK, Working, At, Flagged
  <2>. QED BY <2>1, <2>2 DEF Stops
<1>. QED BY <1>5, <1>6, <1>7, <1>8, <1>9, <1>12, <1>13 DEF IInv

\* The end of an execution clears its flag.
LEMMA FinishInv ==
  ASSUME IInv, NEW n \in Nodes, Finish(n)
  PROVE  IInv'
<1>0. TypeOK /\ Seated(n) /\ worker[n].proc \in Procs \cup {None}
  BY DEF IInv, Places, TypeOK, Workers
<1>1. /\ worker[n].pc = "ended" /\ ~mutex /\ flags' = flags \ {Attempt(n)} /\ Go(n, "idle")
      /\ UNCHANGED <<owner, alive, warm, parked, mem, request, mutex, branch, env>>
  BY DEF Finish, At, procs
<1>2. Moved(n) /\ worker'[n].pc = "idle" /\ worker'[n].proc = worker[n].proc
  BY <1>0, <1>1, GoEffect
<1>3. Seated(n)' BY <1>0, <1>1, <1>2 DEF Seated, Free, SerialOnly
<1>4. Places' BY <1>1, <1>2, <1>3, OthersSeated
<1>5. Places' /\ Pools' /\ Apart' /\ Accounted' /\ Engines'
  BY <1>1, <1>2, <1>3, <1>4, MoveInv DEF procs, Places, PastClaim
<1>6. request.todo = {} /\ request.now = None /\ request.pc # "kill"
  BY <1>1 DEF IInv, Asked, Locked
<1>7. Asked'
  <2>1. ASSUME NEW a \in flags' PROVE Busy(a)'
    <3>1. PICK m \in Nodes : a = Attempt(m) /\ worker[m].pc # "idle"
      BY <1>1, <2>1 DEF IInv, Asked, Busy
    <3>2. m # n BY <1>1, <2>1, <3>1
    <3>. QED BY <1>2, <3>1, <3>2 DEF Busy, Moved
  <2>. QED BY <1>1, <1>6, <2>1 DEF IInv, Asked
<1>8. Stops'
  <2>1. Caught(n)' /\ StoppedOK(n)' BY <1>2 DEF Caught, StoppedOK, Working, At
  <2>2. ASSUME NEW m \in Nodes, m # n PROVE Caught(m)' /\ StoppedOK(m)'
    BY <1>1, <1>2, <2>2 DEF IInv, Stops, Caught, StoppedOK, Working, At, Flagged, Moved
  <2>. QED BY <2>1, <2>2 DEF Stops
<1>9. TypeOK' BY <1>0, <1>1, <1>2 DEF TypeOK, Moved
<1>. QED BY <1>5, <1>7, <1>8, <1>9 DEF IInv

(* A request or a death: processes may die, and a parked shell may be      *)
(* retired; nobody gets one.                                               *)
LEMMA KillInv ==
  ASSUME IInv, TypeOK', UNCHANGED <<worker, owner, warm>>, alive' \subseteq alive,
         parked' = parked \/ (parked' = None /\ parked \notin alive'),
         env'.nodes = env.nodes, env'.serial = env.serial, Asked', Stops'
  PROVE  IInv'
<1>1. Places' BY DEF IInv, Places, Seated, Attempt
<1>2. Pools' /\ Apart' BY DEF IInv, Pools, Apart
<1>3. Accounted' BY DEF IInv, Accounted
<1>4. Engines' BY DEF IInv, Engines
<1>. QED BY <1>1, <1>2, <1>3, <1>4 DEF IInv

\* The steps of a request, and processes that die.
LEMMA ServeInv ==
  ASSUME IInv,
         \/ \E kind \in env.can : Ask(kind)
         \/ \E a \in Attempts : Flag(a)
         \/ Collect \/ KillVictims \/ Commit \/ Unpark \/ Release \/ Sweep
         \/ \E p \in Procs : Dies(p)
         \/ UNCHANGED vars
  PROVE  IInv'
<1>0. TypeOK /\ request \in Requests BY DEF IInv, TypeOK
<1>1. CASE \E kind \in env.can : Ask(kind)
  <2>1. PICK kind \in env.can : Ask(kind) BY <1>1
  <2>2. PICK ns \in SUBSET Running :
          request' = [pc |-> IF {Attempt(n) : n \in ns} = {} THEN "stopped" ELSE "flag",
                      kind |-> kind, todo |-> {Attempt(n) : n \in ns}, now |-> None, victims |-> {}]
    BY <2>1 DEF Ask
  <2>3. /\ request.pc = "none" /\ mutex' = TRUE /\ env.left > 0 /\ env' = [env EXCEPT !.left = env.left - 1]
        /\ UNCHANGED <<worker, owner, alive, warm, parked, mem, flags, branch>>
    BY <2>1 DEF Ask, procs
  <2>4. /\ env' \in [nodes : SUBSET Nodes, serial : BOOLEAN,
                     can : SUBSET {"stop", "edit", "run"}, left : Nat]
        /\ env'.nodes = env.nodes /\ env'.serial = env.serial
    <3>1. env.left - 1 \in Nat BY <1>0, <2>3 DEF TypeOK
    <3>. QED BY <1>0, <2>3, <3>1 DEF TypeOK
  <2>. DEFINE todo == {Attempt(n) : n \in ns}
  <2>5. todo \subseteq Attempts /\ \A a \in todo : Busy(a)
    BY <1>0, BusyAttempt DEF Running, Busy, IInv
  <2>6. kind \in {"stop", "edit", "run"} BY <1>0 DEF TypeOK
  <2>. HIDE DEF todo
  <2>7. /\ request' \in Requests /\ request'.todo = todo /\ request'.now = None
        /\ request'.pc \in {"stopped", "flag"} /\ (request'.pc = "stopped" => todo = {})
    <3>1. request' = [pc |-> IF todo = {} THEN "stopped" ELSE "flag",
                      kind |-> kind, todo |-> todo, now |-> None, victims |-> {}]
      BY <2>2 DEF todo
    <3>. QED BY <2>5, <2>6, <3>1 DEF Requests
  <2>8. TypeOK' BY <1>0, <2>3, <2>4, <2>7 DEF TypeOK
  <2>9. \A a : Busy(a)' <=> Busy(a) BY <2>3 DEF Busy, Attempt
  <2>10. Asked' BY <2>3, <2>5, <2>7, <2>9 DEF IInv, Asked, Locked
  <2>11. request.todo = {} /\ request.now = None BY <2>3 DEF IInv, Asked
  <2>12. Stops'
    BY <2>3, <2>4, <2>7, <2>11 DEF IInv, Stops, Caught, StoppedOK, Flagged, Working, At, Attempt
  <2>. QED BY <2>3, <2>4, <2>8, <2>10, <2>12, KillInv
<1>2. CASE \E a \in Attempts : Flag(a)
  <2>1. PICK a \in Attempts : Flag(a) BY <1>2
  <2>2. /\ request.pc = "flag" /\ a \in request.todo /\ flags' = flags \cup {a}
        /\ UNCHANGED <<worker, owner, alive, warm, parked, mem, mutex, branch, env>>
    BY <2>1 DEF Flag, procs
  <2>3. /\ request' \in Requests /\ request'.pc = "collect" /\ request'.now = a
        /\ request'.todo = request.todo \ {a}
    BY <1>0, <2>1 DEF Flag, Requests
  <2>4. TypeOK' BY <1>0, <2>2, <2>3 DEF TypeOK
  <2>5. \A b : Busy(b)' <=> Busy(b) BY <2>2 DEF Busy, Attempt
  <2>6. Asked' BY <2>2, <2>3, <2>5, Namespaces DEF IInv, Asked, Locked
  <2>7. request.now = None BY <2>2 DEF IInv, Asked
  <2>8. Stops'
    <3>. SUFFICES ASSUME NEW n \in Nodes PROVE Caught(n)' /\ StoppedOK(n)' BY DEF Stops
    <3>1. Caught(n)' BY <2>3 DEF Caught
    <3>2. Attempt(n)' = Attempt(n) /\ (Working(n)' <=> Working(n)) BY <2>2 DEF Attempt, Working, At
    <3>3. StoppedOK(n) BY DEF IInv, Stops
    <3>4. None \notin flags BY <1>0, Namespaces DEF TypeOK
    <3>5. StoppedOK(n)' BY <2>2, <2>3, <2>7, <3>2, <3>3, <3>4 DEF StoppedOK, Flagged
    <3>. QED BY <3>1, <3>5
  <2>. QED BY <2>2, <2>4, <2>6, <2>8, KillInv
<1>3. CASE Collect
  <2>1. /\ request.pc = "collect"
        /\ UNCHANGED <<worker, owner, alive, warm, parked, mem, flags, mutex, branch, env>>
    BY <1>3 DEF Collect, procs
  <2>2. /\ request' \in Requests /\ request'.pc = "kill" /\ request'.now = request.now
        /\ request'.todo = request.todo /\ request'.victims = {p \in alive : owner[p] = request.now}
    BY <1>0, <1>3 DEF Collect, Requests, TypeOK
  <2>3. TypeOK' BY <1>0, <2>1, <2>2 DEF TypeOK
  <2>4. \A b : Busy(b)' <=> Busy(b) BY <2>1 DEF Busy, Attempt
  <2>5. Asked' BY <2>1, <2>2, <2>4 DEF IInv, Asked, Locked
  <2>6. Stops'
    <3>. SUFFICES ASSUME NEW n \in Nodes PROVE Caught(n)' /\ StoppedOK(n)' BY DEF Stops
    <3>1. Attempt(n)' = Attempt(n) /\ (Working(n)' <=> Working(n)) BY <2>1 DEF Attempt, Working, At
    <3>2. Working(n) => worker[n].proc \in alive /\ owner[worker[n].proc] = Attempt(n)
      BY DEF Working, At, IInv, Places, Seated
    <3>3. Caught(n)' BY <2>1, <2>2, <3>1, <3>2 DEF Caught
    <3>4. StoppedOK(n) BY DEF IInv, Stops
    <3>5. StoppedOK(n)' BY <2>1, <2>2, <3>1, <3>4 DEF StoppedOK, Flagged
    <3>. QED BY <3>3, <3>5
  <2>. QED BY <2>1, <2>3, <2>5, <2>6, KillInv
<1>4. CASE KillVictims
  <2>1. /\ request.pc = "kill" /\ alive' = alive \ request.victims
        /\ UNCHANGED <<worker, owner, warm, parked, mem, flags, mutex, branch, env>>
    BY <1>4 DEF KillVictims, Kill
  <2>2. /\ request' \in Requests /\ request'.now = None /\ request'.todo = request.todo
        /\ request'.pc \in {"stopped", "flag"} /\ (request'.pc = "stopped" => request.todo = {})
    BY <1>0, <1>4 DEF KillVictims, Requests
  <2>3. TypeOK' BY <1>0, <2>1, <2>2 DEF TypeOK
  <2>4. \A b : Busy(b)' <=> Busy(b) BY <2>1 DEF Busy, Attempt
  <2>5. Asked' BY <2>1, <2>2, <2>4 DEF IInv, Asked, Locked
  <2>6. Stops'
    <3>. SUFFICES ASSUME NEW n \in Nodes PROVE Caught(n)' /\ StoppedOK(n)' BY DEF Stops
    <3>1. Attempt(n)' = Attempt(n) BY <2>1 DEF Attempt
    <3>2. Working(n)' => Working(n) /\ worker[n].proc \notin request.victims
      BY <2>1 DEF Working, At
    <3>3. Caught(n) /\ StoppedOK(n) BY DEF IInv, Stops
    <3>4. Caught(n)' BY <2>2 DEF Caught
    <3>5. StoppedOK(n)' BY <2>1, <2>2, <3>1, <3>2, <3>3 DEF StoppedOK, Caught, Flagged
    <3>. QED BY <3>4, <3>5
  <2>. QED BY <2>1, <2>3, <2>5, <2>6, KillInv
<1>5. CASE Commit \/ Unpark \/ Release \/ Sweep
  <2>1. /\ request.pc \in {"stopped", "unpark", "sweep"}
        /\ UNCHANGED <<worker, owner, warm, mem, flags, env>>
        /\ branch' \in Nat /\ mutex' \in BOOLEAN
    <3>1. branch \in Nat /\ branch + 1 \in Nat /\ mutex \in BOOLEAN BY <1>0 DEF TypeOK
    <3>2. CASE Commit BY <3>1, <3>2 DEF Commit, procs
    <3>3. CASE Unpark BY <3>1, <3>3 DEF Unpark
    <3>4. CASE Release BY <3>1, <3>4 DEF Release, procs
    <3>5. CASE Sweep BY <3>1, <3>5 DEF Sweep
    <3>. QED BY <1>5, <3>2, <3>3, <3>4, <3>5
  <2>2. /\ alive' \subseteq alive
        /\ parked' = parked \/ (parked' = None /\ parked \notin alive')
    BY <1>5 DEF Commit, Unpark, Release, Sweep, procs, Kill
  <2>3. request.todo = {} /\ request.now = None BY <2>1 DEF IInv, Asked
  <2>4. NoRequest \in Requests /\ NoRequest.pc = "none" /\ NoRequest.todo = {} /\ NoRequest.now = None
    BY DEF NoRequest, Requests
  <2>5. /\ request' \in Requests /\ request'.todo = {} /\ request'.now = None
        /\ request'.pc \in {"none", "unpark", "sweep"} /\ (mutex' <=> request'.pc = "unpark")
    <3>1. CASE Commit
      BY <1>0, <2>3, <3>1 DEF Commit, Requests, IInv, Asked, Locked
    <3>2. CASE Unpark BY <2>4, <3>2 DEF Unpark
    <3>3. CASE Release BY <1>0, <2>3, <2>4, <3>3 DEF Release, Requests
    <3>4. CASE Sweep BY <2>4, <3>4 DEF Sweep, IInv, Asked, Locked
    <3>. QED BY <1>5, <3>1, <3>2, <3>3, <3>4
  <2>6. TypeOK' BY <1>0, <2>1, <2>2, <2>5 DEF TypeOK
  <2>7. \A b : Busy(b)' <=> Busy(b) BY <2>1 DEF Busy, Attempt
  <2>8. Asked' BY <2>1, <2>5, <2>7 DEF IInv, Asked, Locked
  <2>9. Stops'
    BY <2>1, <2>2, <2>3, <2>5 DEF IInv, Stops, Caught, StoppedOK, Flagged, Working, At, Attempt
  <2>. QED BY <2>1, <2>2, <2>6, <2>8, <2>9, KillInv
<1>6. CASE (\E p \in Procs : Dies(p)) \/ UNCHANGED vars
  <2>1. /\ alive' \subseteq alive
        /\ UNCHANGED <<worker, owner, warm, parked, mem, flags, request, mutex, branch, env>>
    BY <1>6 DEF Dies, Kill, control, vars
  <2>2. TypeOK' BY <1>0, <2>1 DEF TypeOK
  <2>3. Asked' BY <2>1 DEF IInv, Asked, Busy, Attempt
  <2>4. Stops'
    BY <2>1 DEF IInv, Stops, Caught, StoppedOK, Flagged, Working, At, Attempt
  <2>. QED BY <2>1, <2>2, <2>3, <2>4, KillInv
<1>. QED BY <1>1, <1>2, <1>3, <1>4, <1>5, <1>6

-----------------------------------------------------------------------------
(* Processes that change hands.                                            *)

(* Whatever a worker or a pool holds is known to the registry.             *)
LEMMA HeldKnown ==
  ASSUME IInv, NEW p \in Procs, p \in Unused
  PROVE  p # warm /\ p # parked /\ p \notin alive /\ \A n \in Nodes : worker[n].proc # p
<1>1. owner[p] = None BY DEF Unused
<1>2. p # None BY Namespaces
<1>3. p # warm /\ p # parked BY <1>1, <1>2, Namespaces DEF IInv, Pools
<1>4. ASSUME NEW n \in Nodes PROVE worker[n].proc # p
  <2>. SUFFICES ASSUME worker[n].proc = p PROVE FALSE OBVIOUS
  <2>1. Seated(n) /\ worker[n].pc \notin Free /\ TypeOK BY <1>2 DEF IInv, Places, Seated
  <2>2. worker[n].pc \in {"rekey", "register", "confirm", "turn", "settled", "park"}
    BY <2>1 DEF TypeOK, Workers, Free
  <2>3. Attempt(n) # None BY <2>1, BusyAttempt, Namespaces DEF Free, IInv
  <2>. QED BY <1>1, <2>1, <2>2, <2>3, Namespaces DEF Seated
<1>. QED BY <1>3, <1>4 DEF IInv, Accounted

(* The worker of a Serial conversation is alone.                           *)
LEMMA Alone ==
  ASSUME IInv, env.serial, NEW n \in Nodes, worker[n].pc # "idle", NEW m \in Nodes, m # n
  PROVE  worker[m].pc = "idle" /\ worker[m].proc = None
  BY DEF IInv, Places, Seated, Pools, Free

(* What has to be shown of a worker's step, of which the rest follows.     *)
LEMMA HandInv ==
  ASSUME IInv, NEW n \in Nodes, Moved(n), UNCHANGED control,
         worker[n].pc # "idle", worker'[n].pc # "idle", Seated(n)',
         owner' \in [Procs -> Owners \cup {None}], alive' \subseteq Procs,
         warm' \in Procs \cup {None}, parked' \in Procs \cup {None}, mem' \in [Procs -> Nat],
         \A m \in Nodes : m # n /\ worker[m].proc # None =>
             owner'[worker[m].proc] = owner[worker[m].proc],
         \A m \in Nodes : m # n /\ worker[m].proc \in alive' => worker[m].proc \in alive,
         worker'[n].pc = "turn" => ~Flagged(n) \/ env.serial,
         Pools', Apart', Accounted', Engines'
  PROVE  IInv'
<1>1. UNCHANGED <<flags, request, mutex, branch, env>> BY DEF control
<1>2. Places' BY <1>1, OthersSeated
<1>3. Asked' /\ Stops' BY <1>1, WorkerStops
<1>4. TypeOK' BY <1>1 DEF IInv, TypeOK, Moved
<1>. QED BY <1>2, <1>3, <1>4 DEF IInv

\* Parked shells are claimed, given a new owner and parked again.
LEMMA ParkedInv ==
  ASSUME IInv, NEW n \in Nodes, ClaimRetires(n) \/ Claim(n) \/ Rekey(n) \/ Unown(n) \/ Park(n)
  PROVE  IInv'
<1>0. TypeOK /\ Seated(n) /\ worker[n].proc \in Procs \cup {None} /\ UNCHANGED <<control, warm, mem>>
  BY DEF IInv, Places, TypeOK, Workers, ClaimRetires, Claim, Rekey, Unown, Park
<1>1. UNCHANGED env BY <1>0 DEF control
<1>2. Pools /\ Apart /\ Accounted /\ Engines BY DEF IInv
<1>3. CASE ClaimRetires(n)
  <2>1. /\ worker[n].pc = "claim" /\ parked # None /\ parked' = None /\ alive' = alive \ {parked}
        /\ Go(n, "launch") /\ UNCHANGED owner
    BY <1>3 DEF ClaimRetires, At, Kill
  <2>2. Moved(n) /\ worker'[n].pc = "launch" /\ worker'[n].proc = worker[n].proc
    BY <1>0, <2>1, GoEffect
  <2>3. env.serial /\ worker[n].proc = None BY <1>0, <2>1 DEF Seated, Free, SerialOnly
  <2>4. Seated(n)' BY <1>0, <1>1, <2>1, <2>2, <2>3 DEF Seated, Free, SerialOnly, Moved
  <2>5. \A m \in Nodes : worker'[m].proc = worker[m].proc BY <2>2 DEF Moved
  <2>6. Pools' /\ Apart' BY <1>0, <1>1, <1>2, <2>1, <2>5 DEF Pools, Apart
  <2>7. Accounted' BY <1>0, <1>2, <2>1, <2>5 DEF Accounted
  <2>8. \A m \in Nodes : worker[m].pc # "assigned" BY <2>1, <2>3, Alone
  <2>9. Engines' BY <1>0, <1>1, <1>2, <2>1, <2>5, <2>8 DEF Engines
  <2>. QED BY <1>0, <2>1, <2>2, <2>4, <2>6, <2>7, <2>9, HandInv DEF TypeOK
<1>4. CASE Claim(n)
  <2>1. /\ worker[n].pc = "claim" /\ parked \in alive /\ parked' = None
        /\ GoWith(n, "rekey", parked) /\ UNCHANGED <<owner, alive>>
    BY <1>4 DEF Claim, At
  <2>2. parked \in Procs /\ parked # None BY <1>0, <2>1, Namespaces DEF TypeOK
  <2>3. Moved(n) /\ worker'[n].pc = "rekey" /\ worker'[n].proc = parked
    BY <1>0, <2>1, <2>2, GoEffect
  <2>4. env.serial /\ worker[n].proc = None BY <1>0, <2>1 DEF Seated, Free, SerialOnly
  <2>5. owner[parked] = Linger BY <1>2, <2>2 DEF Pools
  <2>6. Seated(n)' BY <1>0, <1>1, <2>1, <2>2, <2>3, <2>4, <2>5 DEF Seated, Free, SerialOnly, Moved
  <2>7. \A m \in Nodes : m # n => worker'[m] = worker[m] /\ worker[m].proc = None
    BY <2>1, <2>3, <2>4, Alone DEF Moved
  <2>8. Pools' BY <1>0, <1>1, <1>2, <2>1 DEF Pools
  <2>9. Apart' BY <1>0, <1>2, <2>1, <2>2, <2>3, <2>7 DEF Apart, Pools
  <2>10. Accounted' BY <1>0, <1>2, <2>1, <2>3, <2>4, <2>7 DEF Accounted
  <2>11. \A m \in Nodes : worker[m].pc # "assigned" BY <2>1, <2>4, Alone
  <2>12. Engines' BY <1>0, <1>1, <1>2, <2>1, <2>3, <2>4, <2>7, <2>11 DEF Engines
  <2>. QED BY <1>0, <2>1, <2>3, <2>6, <2>7, <2>8, <2>9, <2>10, <2>12, HandInv DEF TypeOK
<1>5. CASE Rekey(n) \/ Unown(n)
  <2>1. /\ \/ worker[n].pc = "rekey" /\ owner' = [owner EXCEPT ![worker[n].proc] = Attempt(n)]
              /\ Go(n, "turn")
           \/ worker[n].pc = "settled" /\ owner' = [owner EXCEPT ![worker[n].proc] = Linger]
              /\ Go(n, "park")
        /\ worker[n].pc \in {"rekey", "settled"} /\ UNCHANGED <<alive, parked>> /\ env.serial
    BY <1>0, <1>5 DEF Rekey, Unown, At, Seated, SerialOnly
  <2>2. Moved(n) /\ worker'[n].pc \in {"turn", "park"} /\ worker'[n].proc = worker[n].proc
        /\ (worker'[n].pc = "turn" <=> worker[n].pc = "rekey")
    BY <1>0, <2>1, GoEffect
  <2>3. worker[n].proc \in Procs /\ worker[n].proc # None BY <1>0, <2>1 DEF Seated, Free
  <2>4. Attempt(n) \in Owners /\ Linger \in Owners BY <2>1, BusyAttempt DEF Owners, IInv
  <2>5. /\ owner' \in [Procs -> Owners \cup {None}]
        /\ \A p \in Procs : p # worker[n].proc => owner'[p] = owner[p]
        /\ owner'[worker[n].proc] = IF worker[n].pc = "rekey" THEN Attempt(n) ELSE Linger
    BY <1>0, <2>1, <2>3, <2>4 DEF TypeOK
  <2>6. Seated(n)' BY <1>0, <1>1, <2>1, <2>2, <2>3, <2>5 DEF Seated, Free, SerialOnly, Moved
  <2>7. \A m \in Nodes : worker'[m].proc = worker[m].proc BY <2>2 DEF Moved
  <2>8. worker[n].proc # warm /\ worker[n].proc # parked /\ parked = None
    BY <1>2, <2>1, <2>3 DEF Apart, Engines, PastClaim
  <2>9. Pools' BY <1>0, <1>1, <1>2, <2>1, <2>5, <2>8 DEF Pools, TypeOK
  <2>10. Apart' BY <1>0, <1>2, <2>1, <2>7 DEF Apart
  <2>11. Accounted' BY <1>0, <1>2, <2>1, <2>7 DEF Accounted
  <2>12. \A m \in Nodes : worker[m].pc # "assigned" BY <2>1, Alone
  <2>13. Engines'
    <3>1. \A p \in alive : owner'[p] \in Attempts \cup {Linger} => p = parked \/ \E m \in Nodes : worker'[m].proc = p
      BY <1>0, <1>2, <2>1, <2>3, <2>5, <2>7, <2>12 DEF Engines, TypeOK
    <3>. QED BY <2>1, <2>8, <3>1 DEF Engines
  <2>14. \A m \in Nodes : m # n => worker[m].proc = None BY <2>1, Alone
  <2>. QED BY <1>0, <2>1, <2>2, <2>5, <2>6, <2>9, <2>10, <2>11, <2>13, <2>14, HandInv DEF TypeOK
<1>6. CASE Park(n)
  <2>1. /\ worker[n].pc = "park" /\ alive' = alive \ {parked} /\ parked' = worker[n].proc
        /\ GoWith(n, "ended", None) /\ UNCHANGED owner
    BY <1>6 DEF Park, At, Kill
  <2>2. Moved(n) /\ worker'[n].pc = "ended" /\ worker'[n].proc = None
    BY <1>0, <2>1, GoEffect
  <2>3. worker[n].proc \in Procs /\ worker[n].proc # None /\ env.serial /\ owner[worker[n].proc] = Linger
    BY <1>0, <2>1 DEF Seated, Free, SerialOnly
  <2>4. Seated(n)' BY <1>0, <1>1, <2>1, <2>2 DEF Seated, Free, SerialOnly, Moved
  <2>5. \A m \in Nodes : m # n => worker'[m] = worker[m] /\ worker[m].proc = None /\ worker[m].pc = "idle"
    BY <2>1, <2>2, <2>3, Alone DEF Moved
  <2>6. parked = None /\ worker[n].proc # warm BY <1>2, <2>1, <2>3 DEF Engines, PastClaim, Apart
  <2>7. Pools' BY <1>0, <1>1, <1>2, <2>1, <2>3, <2>6 DEF Pools
  <2>8. Apart' BY <2>2, <2>5 DEF Apart
  <2>9. Accounted' BY <1>0, <1>2, <2>1, <2>2, <2>5, <2>6 DEF Accounted
  <2>10. Engines'
    <3>1. \A m \in Nodes : worker'[m].pc \notin PastClaim BY <2>2, <2>5 DEF PastClaim
    <3>2. \A p \in alive' : owner[p] \in Attempts \cup {Linger} => p = parked'
      BY <1>0, <1>2, <2>1, <2>3, <2>5, <2>6, Namespaces DEF Engines, TypeOK
    <3>. QED BY <2>1, <3>1, <3>2 DEF Engines
  <2>. QED BY <1>0, <2>1, <2>2, <2>3, <2>4, <2>5, <2>7, <2>8, <2>9, <2>10, HandInv DEF TypeOK
<1>. QED BY <1>3, <1>4, <1>5, <1>6

\* A prestarted process is assigned and taken.
LEMMA WarmInv ==
  ASSUME IInv, NEW n \in Nodes, AssignWarm(n) \/ TakeWarm(n)
  PROVE  IInv'
<1>0. TypeOK /\ Seated(n) /\ worker[n].proc \in Procs \cup {None} /\ UNCHANGED <<control, parked>>
  BY DEF IInv, Places, TypeOK, Workers, AssignWarm, TakeWarm
<1>1. UNCHANGED env BY <1>0 DEF control
<1>2. Pools /\ Apart /\ Accounted /\ Engines BY DEF IInv
<1>3. CASE AssignWarm(n)
  <2>1. /\ worker[n].pc = "launch" /\ env.serial /\ warm \in alive
        /\ owner' = [owner EXCEPT ![warm] = Attempt(n)] /\ Go(n, "assigned")
        /\ UNCHANGED <<alive, warm, mem>>
    BY <1>3 DEF AssignWarm, At
  <2>2. warm \in Procs /\ warm # None BY <1>0, <2>1, Namespaces DEF TypeOK
  <2>3. Moved(n) /\ worker'[n].pc = "assigned" /\ worker'[n].proc = worker[n].proc
    BY <1>0, <2>1, GoEffect
  <2>4. Attempt(n) \in Owners BY <2>1, BusyAttempt DEF Owners, IInv
  <2>5. /\ owner' \in [Procs -> Owners \cup {None}] /\ owner'[warm] = Attempt(n)
        /\ \A p \in Procs : p # warm => owner'[p] = owner[p]
    BY <1>0, <2>1, <2>2, <2>4 DEF TypeOK
  <2>6. Seated(n)' BY <1>0, <1>1, <2>1, <2>2, <2>3, <2>5 DEF Seated, Free, SerialOnly, Moved
  <2>7. \A m \in Nodes : worker'[m].proc = worker[m].proc BY <2>3 DEF Moved
  <2>8. \A m \in Nodes : m # n => worker'[m] = worker[m] /\ worker[m].proc = None /\ worker[m].pc = "idle"
    BY <2>1, <2>3, Alone DEF Moved
  <2>9. Pools'
    <3>1. Attempt(n) # None BY <2>4, NoneAssumption
    <3>2. parked # None => owner'[parked] = owner[parked] BY <1>0, <1>2, <2>5 DEF Pools, TypeOK
    <3>. QED BY <1>0, <1>1, <1>2, <2>1, <2>5, <3>1, <3>2 DEF Pools
  <2>10. Apart' BY <1>0, <1>2, <2>1, <2>7 DEF Apart
  <2>11. Accounted' BY <1>0, <1>2, <2>1, <2>7 DEF Accounted
  <2>12. Engines'
    <3>1. parked = None BY <1>2, <2>1 DEF Engines, PastClaim
    <3>2. \A p \in alive : owner'[p] \in Attempts \cup {Linger} => p = warm \/ p = parked \/ \E m \in Nodes : worker'[m].proc = p
      BY <1>0, <1>2, <2>1, <2>5, <2>7 DEF Engines, TypeOK
    <3>. QED BY <1>0, <2>1, <2>3, <3>1, <3>2 DEF Engines
  <2>. QED BY <1>0, <2>1, <2>3, <2>5, <2>6, <2>8, <2>9, <2>10, <2>11, <2>12, HandInv DEF TypeOK
<1>4. CASE TakeWarm(n) /\ Flagged(n)
  <2>1. worker[n].pc = "assigned" /\ alive' = alive \ {warm} /\ Go(n, "launch") /\ UNCHANGED <<owner, warm, mem>>
    BY <1>4 DEF TakeWarm, At, Kill
  <2>2. Moved(n) /\ worker'[n].pc = "launch" /\ worker'[n].proc = worker[n].proc
    BY <1>0, <2>1, GoEffect
  <2>3. env.serial BY <1>0, <2>1 DEF Seated, SerialOnly
  <2>4. Seated(n)' BY <1>0, <1>1, <2>1, <2>2 DEF Seated, Free, SerialOnly, Moved
  <2>5. \A m \in Nodes : worker'[m].proc = worker[m].proc BY <2>2 DEF Moved
  <2>6. Pools' /\ Apart' BY <1>0, <1>1, <1>2, <2>1, <2>5 DEF Pools, Apart
  <2>7. Accounted' BY <1>0, <1>2, <2>1, <2>5 DEF Accounted
  <2>8. Engines'
    <3>1. parked = None BY <1>2, <2>1, <2>3 DEF Engines, PastClaim
    <3>. QED BY <1>0, <1>1, <1>2, <2>1, <2>3, <2>5, <3>1 DEF Engines
  <2>. QED BY <1>0, <2>1, <2>2, <2>4, <2>6, <2>7, <2>8, HandInv DEF TypeOK
<1>5. CASE TakeWarm(n) /\ ~Flagged(n)
  <2>1. /\ worker[n].pc = "assigned" /\ GoWith(n, "turn", warm) /\ warm' = None
        /\ mem' = [mem EXCEPT ![warm] = branch] /\ UNCHANGED <<owner, alive>>
    BY <1>5 DEF TakeWarm, At
  <2>2. /\ warm \in Procs /\ warm # None /\ owner[warm] = Attempt(n) /\ env.serial
        /\ worker[n].proc = None /\ mem' \in [Procs -> Nat]
    BY <1>0, <2>1 DEF TypeOK, Seated, Free, SerialOnly
  <2>3. Moved(n) /\ worker'[n].pc = "turn" /\ worker'[n].proc = warm
    BY <1>0, <2>1, <2>2, GoEffect
  <2>4. Seated(n)' BY <1>0, <1>1, <2>1, <2>2, <2>3 DEF Seated, Free, SerialOnly, Moved
  <2>5. \A m \in Nodes : m # n => worker'[m] = worker[m] /\ worker[m].proc = None /\ worker[m].pc = "idle"
    BY <2>1, <2>2, <2>3, Alone DEF Moved
  <2>6. parked = None BY <1>2, <2>1, <2>2 DEF Engines, PastClaim
  <2>7. Pools' BY <1>0, <1>1, <1>2, <2>1, <2>6 DEF Pools
  <2>8. Apart' BY <1>0, <2>1, <2>2, <2>3, <2>5, <2>6 DEF Apart
  <2>9. Accounted' BY <1>0, <1>2, <2>1, <2>2, <2>3, <2>5 DEF Accounted
  <2>10. Engines'
    <3>1. \A p \in alive : owner[p] \in Attempts \cup {Linger} => p = warm
      BY <1>0, <1>2, <2>2, <2>5, <2>6, Namespaces DEF Engines, TypeOK
    <3>. QED BY <1>0, <2>1, <2>3, <2>6, <3>1 DEF Engines
  <2>. QED BY <1>0, <1>5, <2>1, <2>2, <2>3, <2>4, <2>5, <2>7, <2>8, <2>9, <2>10, HandInv DEF TypeOK
<1>. QED BY <1>3, <1>4, <1>5

\* A process is spawned, registered, confirmed, used and reclaimed.
LEMMA LaunchInv ==
  ASSUME IInv, NEW n \in Nodes, Spawn(n) \/ Register(n) \/ Confirm(n) \/ TurnEnds(n) \/ Reclaim(n)
  PROVE  IInv'
<1>0. TypeOK /\ Seated(n) /\ worker[n].proc \in Procs \cup {None} /\ UNCHANGED <<control, warm, parked>>
  BY DEF IInv, Places, TypeOK, Workers, Spawn, Register, Confirm, TurnEnds, Reclaim, procs
<1>1. UNCHANGED env BY <1>0 DEF control
<1>2. Pools /\ Apart /\ Accounted /\ Engines BY DEF IInv
<1>3. CASE Spawn(n)
  <2>1. PICK p \in Unused :
          /\ worker[n].pc = "launch" /\ alive' = alive \cup {p} /\ GoWith(n, "register", p)
          /\ owner' = [owner EXCEPT ![p] = Untracked] /\ mem' = [mem EXCEPT ![p] = branch]
    BY <1>3 DEF Spawn, At
  <2>2. p \in Procs /\ p # None BY Namespaces DEF Unused
  <2>3. p # warm /\ p # parked /\ \A m \in Nodes : worker[m].proc # p BY <2>2, HeldKnown
  <2>4. Moved(n) /\ worker'[n].pc = "register" /\ worker'[n].proc = p
    BY <1>0, <2>1, <2>2, GoEffect
  <2>5. /\ owner' \in [Procs -> Owners \cup {None}] /\ mem' \in [Procs -> Nat]
        /\ owner'[p] = Untracked /\ \A q \in Procs : q # p => owner'[q] = owner[q]
    BY <1>0, <2>1, <2>2 DEF TypeOK, Owners
  <2>6. Seated(n)' BY <1>0, <1>1, <2>1, <2>2, <2>4, <2>5 DEF Seated, Free, SerialOnly, Moved
  <2>7. /\ \A m \in Nodes : m # n => worker'[m] = worker[m]
        /\ \A m \in Nodes : worker[m].proc \in Procs \cup {None}
    BY <1>0, <2>4 DEF Moved, TypeOK, Workers
  <2>8. worker[n].proc = None BY <1>0, <2>1 DEF Seated, Free
  <2>9. Pools' BY <1>0, <1>1, <1>2, <2>3, <2>5 DEF Pools, TypeOK
  <2>10. Apart' BY <1>0, <1>2, <2>2, <2>3, <2>4, <2>7 DEF Apart
  <2>11. Accounted' BY <1>0, <1>2, <2>1, <2>4, <2>7, <2>8, Namespaces DEF Accounted, TypeOK
  <2>12. Engines'
    <3>. SUFFICES ASSUME env.serial PROVE Engines' BY <1>1 DEF Engines
    <3>1. parked = None BY <1>2, <2>1 DEF Engines, PastClaim
    <3>2. \A m \in Nodes : worker[m].pc # "assigned" BY <2>1, Alone
    <3>3. ASSUME NEW q \in alive', owner'[q] \in Attempts \cup {Linger}
          PROVE  \E m \in Nodes : worker'[m].proc = q
      <4>1. CASE q = p BY <2>4, <4>1
      <4>2. CASE q # p
        <5>1. q \in alive /\ q \in Procs /\ owner[q] \in Attempts \cup {Linger}
          BY <1>0, <2>1, <2>5, <3>3, <4>2 DEF TypeOK
        <5>2. q # None BY <5>1, Namespaces
        <5>3. PICK m \in Nodes : worker[m].proc = q BY <1>2, <3>1, <3>2, <5>1, <5>2 DEF Engines
        <5>. QED BY <2>7, <2>8, <5>2, <5>3
      <4>. QED BY <4>1, <4>2
    <3>. QED BY <1>0, <3>1, <3>3 DEF Engines
  <2>. QED BY <1>0, <2>1, <2>2, <2>3, <2>4, <2>5, <2>6, <2>7, <2>9, <2>10, <2>11, <2>12, HandInv DEF TypeOK
<1>4. CASE Register(n)
  <2>1. /\ worker[n].pc = "register" /\ owner' = [owner EXCEPT ![worker[n].proc] = Attempt(n)]
        /\ Go(n, "confirm") /\ UNCHANGED <<alive, mem>>
    BY <1>4 DEF Register, At
  <2>2. Moved(n) /\ worker'[n].pc = "confirm" /\ worker'[n].proc = worker[n].proc
    BY <1>0, <2>1, GoEffect
  <2>3. worker[n].proc \in Procs /\ worker[n].proc # None BY <1>0, <2>1 DEF Seated, Free
  <2>4. Attempt(n) \in Owners BY <2>1, BusyAttempt DEF Owners, IInv
  <2>5. /\ owner' \in [Procs -> Owners \cup {None}] /\ owner'[worker[n].proc] = Attempt(n)
        /\ \A p \in Procs : p # worker[n].proc => owner'[p] = owner[p]
    BY <1>0, <2>1, <2>3, <2>4 DEF TypeOK
  <2>6. Seated(n)' BY <1>0, <1>1, <2>1, <2>2, <2>3, <2>5 DEF Seated, Free, SerialOnly, Moved
  <2>7. \A m \in Nodes : worker'[m].proc = worker[m].proc /\ worker[m].proc \in Procs \cup {None}
    BY <1>0, <2>2 DEF Moved, TypeOK, Workers
  <2>8. worker[n].proc # warm /\ worker[n].proc # parked BY <1>2, <2>3 DEF Apart
  <2>9. Pools' BY <1>0, <1>1, <1>2, <2>5, <2>8 DEF Pools, TypeOK
  <2>10. Apart' BY <1>0, <1>2, <2>7 DEF Apart
  <2>11. Accounted' BY <1>0, <1>2, <2>1, <2>7 DEF Accounted
  <2>12. Engines'
    <3>. SUFFICES ASSUME env.serial PROVE Engines' BY <1>1 DEF Engines
    <3>1. parked = None BY <1>2, <2>1 DEF Engines, PastClaim
    <3>2. \A m \in Nodes : worker[m].pc # "assigned" BY <2>1, Alone
    <3>3. \A p \in alive : owner'[p] \in Attempts \cup {Linger} => p = parked \/ \E m \in Nodes : worker'[m].proc = p
      BY <1>0, <1>2, <2>5, <2>7, <3>2 DEF Engines, TypeOK
    <3>. QED BY <1>0, <2>1, <3>1, <3>3 DEF Engines
  <2>13. \A m \in Nodes : m # n /\ worker[m].proc # None => worker[m].proc # worker[n].proc
    BY <1>2 DEF Apart
  <2>. QED BY <1>0, <2>1, <2>2, <2>5, <2>6, <2>7, <2>9, <2>10, <2>11, <2>12, <2>13, HandInv DEF TypeOK
<1>5. CASE Confirm(n) /\ ~Flagged(n)
  <2>1. worker[n].pc = "confirm" /\ Go(n, "turn") /\ UNCHANGED procs
    BY <1>5 DEF Confirm, At, procs
  <2>2. UNCHANGED <<owner, alive, mem>> BY <2>1 DEF procs
  <2>3. Moved(n) /\ worker'[n].pc = "turn" /\ worker'[n].proc = worker[n].proc
    BY <1>0, <2>1, GoEffect
  <2>4. Seated(n)' BY <1>0, <1>1, <2>1, <2>2, <2>3 DEF Seated, Free, SerialOnly, Moved
  <2>5. Places' BY <1>1, <2>1, <2>2, <2>3, <2>4, OthersSeated
  <2>6. Pools' /\ Apart' /\ Accounted' /\ Engines'
    BY <1>1, <2>1, <2>3, <2>4, <2>5, MoveInv DEF Places, PastClaim
  <2>. QED BY <1>0, <1>5, <2>1, <2>2, <2>3, <2>4, <2>6, HandInv DEF TypeOK
<1>6. CASE (Confirm(n) /\ Flagged(n)) \/ TurnEnds(n) \/ Reclaim(n)
  <2>1. /\ worker[n].pc \in {"confirm", "turn", "settled"} /\ GoWith(n, "ended", None)
        /\ alive' \subseteq alive /\ worker[n].proc \notin alive' /\ UNCHANGED <<owner, mem>>
    BY <1>6 DEF Confirm, TurnEnds, Reclaim, At, Kill, procs
  <2>2. alive' = alive \/ alive' = alive \ {worker[n].proc}
    BY <1>6 DEF Confirm, TurnEnds, Reclaim, Kill, procs
  <2>3. Moved(n) /\ worker'[n].pc = "ended" /\ worker'[n].proc = None
    BY <1>0, <2>1, GoEffect
  <2>4. Seated(n)' BY <1>0, <1>1, <2>1, <2>3 DEF Seated, Free, SerialOnly, Moved
  <2>5. \A m \in Nodes : m # n => worker'[m] = worker[m] BY <2>3 DEF Moved
  <2>6. Pools' BY <1>0, <1>1, <1>2, <2>1 DEF Pools
  <2>7. Apart' BY <1>0, <1>2, <2>3, <2>5 DEF Apart
  <2>8. Accounted'
    <3>. SUFFICES ASSUME NEW p \in alive', p # warm, p # parked
                  PROVE  \E m \in Nodes : p = worker'[m].proc
      BY <1>0 DEF Accounted
    <3>1. PICK m \in Nodes : p = worker[m].proc BY <1>2, <2>1 DEF Accounted
    <3>2. m # n BY <2>1, <3>1
    <3>. QED BY <2>5, <3>1, <3>2
  <2>9. Engines'
    <3>. SUFFICES ASSUME env.serial PROVE Engines' BY <1>1 DEF Engines
    <3>1. \A m \in Nodes : worker[m].pc # "assigned" BY <2>1, Alone
    <3>2. \A m \in Nodes : worker'[m].pc \in PastClaim => worker[m].pc \in PastClaim
      BY <2>3, <2>5 DEF PastClaim
    <3>3. ASSUME NEW p \in alive', owner[p] \in Attempts \cup {Linger}
          PROVE  p = parked \/ \E m \in Nodes : worker'[m].proc = p
      <4>1. p = parked \/ \E m \in Nodes : worker[m].proc = p BY <1>2, <2>1, <3>1, <3>3 DEF Engines
      <4>. QED BY <2>1, <2>5, <4>1
    <3>. QED BY <1>0, <1>2, <2>1, <3>2, <3>3 DEF Engines
  <2>. QED BY <1>0, <2>1, <2>3, <2>4, <2>6, <2>7, <2>8, <2>9, HandInv DEF TypeOK
<1>. QED BY <1>3, <1>4, <1>5, <1>6

(* The pool prestarts a process.                                           *)
LEMMA PrewarmInv ==
  ASSUME IInv, Prewarm
  PROVE  IInv'
<1>0. TypeOK /\ Pools /\ Apart /\ Accounted /\ Engines BY DEF IInv
<1>1. PICK p \in Unused :
        /\ env.serial /\ warm \notin alive /\ (\A n \in Nodes : worker[n].pc # "assigned")
        /\ alive' = alive \cup {p} /\ owner' = [owner EXCEPT ![p] = Idle] /\ warm' = p
        /\ UNCHANGED <<worker, parked, mem, flags, request, mutex, branch, env>>
  BY DEF Prewarm, At, control
<1>2. p \in Procs /\ p # None BY Namespaces DEF Unused
<1>3. p # warm /\ p # parked /\ \A m \in Nodes : worker[m].proc # p BY <1>2, HeldKnown
<1>4. /\ owner' \in [Procs -> Owners \cup {None}] /\ owner'[p] = Idle
      /\ \A q \in Procs : q # p => owner'[q] = owner[q]
  BY <1>0, <1>1, <1>2 DEF TypeOK, Owners
<1>5. TypeOK' BY <1>0, <1>1, <1>2, <1>4 DEF TypeOK
<1>6. \A m \in Nodes : worker[m].proc \in Procs \cup {None} BY <1>0 DEF TypeOK, Workers
<1>7. Places'
  <2>. SUFFICES ASSUME NEW m \in Nodes PROVE Seated(m)' BY DEF Places
  <2>1. Seated(m) BY DEF IInv, Places
  <2>2. worker[m].proc # None => owner'[worker[m].proc] = owner[worker[m].proc]
    BY <1>3, <1>4, <1>6
  <2>. QED BY <1>1, <2>1, <2>2 DEF Seated, Attempt, Free
<1>8. Pools' BY <1>0, <1>1, <1>2, <1>3, <1>4, Namespaces DEF Pools, TypeOK
<1>9. Apart' BY <1>0, <1>1, <1>3 DEF Apart
<1>10. Accounted' BY <1>0, <1>1 DEF Accounted
<1>11. Engines'
  <2>1. \A q \in alive' : owner'[q] \in Attempts \cup {Linger} => q \in alive /\ owner[q] = owner'[q]
    BY <1>0, <1>1, <1>4, Namespaces DEF TypeOK
  <2>. QED BY <1>0, <1>1, <2>1 DEF Engines
<1>12. Asked' BY <1>1 DEF IInv, Asked, Busy, Attempt
<1>13. Stops'
  <2>. SUFFICES ASSUME NEW m \in Nodes PROVE Caught(m)' /\ StoppedOK(m)' BY DEF Stops
  <2>1. Working(m)' => Working(m) BY <1>1, <1>3 DEF Working, At
  <2>. QED BY <1>1, <2>1 DEF IInv, Stops, Caught, StoppedOK, Flagged, Attempt
<1>. QED BY <1>5, <1>7, <1>8, <1>9, <1>10, <1>11, <1>12, <1>13 DEF IInv

-----------------------------------------------------------------------------
(* The invariant and its consequences.                                     *)

\* An empty registry satisfies the invariant.
LEMMA InitInv == Init => IInv
<1>. SUFFICES ASSUME Init PROVE IInv OBVIOUS
<1>1. NoRequest \in Requests /\ NoRequest.pc = "none" /\ NoRequest.todo = {} /\ NoRequest.now = None
  BY DEF NoRequest, Requests
<1>2. /\ worker \in [Nodes -> Workers]
      /\ \A n \in Nodes : worker[n].pc = "idle" /\ worker[n].proc = None
  BY ControlAssumption DEF Init, Workers
<1>3. TypeOK BY <1>1, <1>2, ControlAssumption DEF Init, TypeOK
<1>4. Places BY <1>2 DEF Places, Seated, Free, SerialOnly
<1>5. Pools /\ Apart BY <1>2, ControlAssumption DEF Init, Pools, Apart
<1>6. Asked /\ Stops BY <1>1, <1>2 DEF Init, Asked, Stops, Caught, StoppedOK, Working, At, Locked
<1>7. Accounted /\ Engines BY <1>2 DEF Init, Accounted, Engines, PastClaim
<1>. QED BY <1>3, <1>4, <1>5, <1>6, <1>7 DEF IInv

\* Every step keeps the invariant.
LEMMA Invariance == IInv /\ [Next]_vars => IInv'
<1>. SUFFICES ASSUME IInv, [Next]_vars PROVE IInv' OBVIOUS
<1>1. ASSUME NEW n \in Nodes, Launch(n) \/ Settle(n) \/ End(n) PROVE IInv'
  BY <1>1, BeginInv, WalkInv, ParkedInv, WarmInv, LaunchInv, FinishInv DEF Launch, End
<1>. QED BY <1>1, PrewarmInv, ServeInv DEF Next, Serve

\* The registry agrees with the workers and the request at every step of every
\* stop, launch, claim and park.
THEOREM InvHolds == Spec => []IInv
  BY InitInv, Invariance, PTL DEF Spec

(* Once a stop has gone through the registry, no process works for the     *)
(* stopped attempt of a Graph Run.                                         *)
THEOREM StopsHold == Spec => []StopHolds
<1>1. IInv => StopHolds BY DEF IInv, Stops, StoppedOK, StopHolds
<1>. QED BY <1>1, InvHolds, PTL

(* No stop flag outlives its execution, no conversation has two engines,   *)
(* and every live process is known to whoever has to end it.               *)
THEOREM ControlIsSafe == Spec => []ControlSafe
<1>1. ASSUME IInv PROVE ControlSafe
  <2>1. NoLeftoverFlag
    <3>. SUFFICES ASSUME NEW a \in flags PROVE worker[a[2]].no = a[3] /\ worker[a[2]].pc # "idle"
      BY DEF NoLeftoverFlag
    <3>1. PICK n \in Nodes : a = Attempt(n) /\ worker[n].pc # "idle" BY <1>1 DEF IInv, Asked, Busy
    <3>. QED BY <3>1, AttemptNames
  <2>2. OneEngine
    <3>. SUFFICES ASSUME env.serial, NEW p \in alive, NEW q \in alive,
                         owner[p] \in Attempts \cup {Linger}, owner[q] \in Attempts \cup {Linger}
                  PROVE  p = q
      BY DEF OneEngine
    <3>1. p # None /\ q # None BY <1>1, Namespaces DEF IInv, TypeOK
    <3>2. CASE \E n \in Nodes : worker[n].pc \in PastClaim
      <4>1. PICK n \in Nodes : worker[n].pc \in PastClaim BY <3>2
      <4>2. worker[n].pc # "idle" /\ parked = None BY <1>1, <4>1 DEF IInv, Engines, PastClaim
      <4>3. \A m \in Nodes : m # n => worker[m].pc = "idle" /\ worker[m].proc = None
        BY <1>1, <4>2, Alone
      <4>4. worker[n].pc = "assigned" => worker[n].proc = None
        BY <1>1 DEF IInv, Places, Seated, Free
      <4>5. p = worker[n].proc \/ (p = warm /\ worker[n].pc = "assigned")
        BY <1>1, <3>1, <4>2, <4>3 DEF IInv, Engines
      <4>6. q = worker[n].proc \/ (q = warm /\ worker[n].pc = "assigned")
        BY <1>1, <3>1, <4>2, <4>3 DEF IInv, Engines
      <4>. QED BY <3>1, <4>4, <4>5, <4>6
    <3>3. CASE ~\E n \in Nodes : worker[n].pc \in PastClaim
      <4>1. ASSUME NEW n \in Nodes PROVE worker[n].proc = None /\ worker[n].pc # "assigned"
        BY <1>1, <3>3 DEF IInv, Places, Seated, TypeOK, Workers, Free, PastClaim
      <4>. QED BY <1>1, <3>1, <4>1 DEF IInv, Engines
    <3>. QED BY <3>2, <3>3
  <2>. QED BY <1>1, <2>1, <2>2 DEF IInv, ControlSafe
<1>2. IInv => ControlSafe BY <1>1
<1>. QED BY <1>2, InvHolds, PTL
=============================================================================
