---------------------------- MODULE ReclaimProofs ----------------------------
(* Proofs about directories: what the cleanup threads reclaim, for every    *)
(* number of conversations and every machine to start on, and what launches *)
(* of a delivered result do to its workspaces, for every set of Runs and    *)
(* every story.                                                             *)
EXTENDS Reclaim, Results, FiniteSetTheorems, WellFoundedInduction, TLAPS

(***************************************************************************)
(* Module Reclaim.                                                         *)
(***************************************************************************)
(* The inductive invariant.                                                *)

\* The directories there are: a workspace root, a session directory and a planning directory
\* each, the shadow repository of the source, and the worker of an older version.
Dirs == {Work(c) : c \in TaskIds} \cup {Sess(c) : c \in TaskIds}
        \cup {<<"plan", x>> : x \in TaskIds \cup {"p"}} \cup {Shadow, Part}

\* The types of a conversation, a task and a thread, and of the shadow repository.
ConvType == [live : BOOLEAN, phase : {"idle", "running", "completed"}, seq : Nat, ran : BOOLEAN,
             head : BOOLEAN, keep : BOOLEAN]
TaskType == [on : BOOLEAN, targets : SUBSET Dirs, seq : Nat, lost : BOOLEAN]
Pcs == {"rest", "queue", "check", "enqueue", "plan", "remove", "next", "reclaim", "clear"}
ExecType == [pc : Pcs, run : TaskIds, left : SUBSET ((TaskIds \cup {"reclaim"}) \X BOOLEAN),
             locks : SUBSET (Convs \cup {"primary"}), targets : SUBSET Dirs, seq : Nat,
             lost : BOOLEAN, paths : SUBSET Dirs]
ShadowType == [refs : SUBSET Convs, pins : SUBSET Convs, made : SUBSET Convs]

\* Each variable has its type; only conversations that were there share a planning
\* directory, and their source is in none of the directories.
TypeInv ==
    /\ host \in Machines /\ host.plans \subseteq host.old
    /\ \A c \in host.old : host.inside[c] = <<>>
    /\ conv \in [Convs -> ConvType] /\ owned \in [TaskIds -> SUBSET Dirs]
    /\ task \in [TaskIds -> TaskType] /\ deleted \subseteq TaskIds
    /\ shadow \in ShadowType /\ sources \subseteq Convs /\ exec \in [Threads -> ExecType]

\* The directories a task of c may name.
Own(c) == {Work(c), Sess(c), Plan(c), Shadow, Part}

\* The races the code admits: a source or a start that comes late, and a task worked off
\* without the lock of its Run.
Lax == Can1("late") \/ Can1("lookup")
Locked(t, c) == c \in exec[t].locks \/ ~host.up \/ Can1("lookup")
AtRest(t) == exec[t].pc \notin {"queue", "clear", "reclaim"}

\* Nothing runs while the backend is down or the source folder is away, and the
\* source lock is held by a Run whose snapshot is in the source database.
Downtime ==
    /\ ~host.up => exec["retry"] = Resting /\ AtRest("api") /\ \A c \in Convs : ~Active(c)
    /\ host.gone => \A c \in Convs : ~Active(c)
    /\ host.guard # "none" =>
          /\ host.up /\ Active(host.guard) /\ SameSource(host.guard)
          /\ host.guard \notin host.serial /\ (Shadow \in disk \/ Lax)

\* What a conversation has, by what it is: deleted for good, there, or to come.
Life(c) ==
    /\ c \in deleted => ~conv[c].live
    /\ conv[c].phase = "running" => conv[c].live
    /\ conv[c].live => conv[c].seq # 0
    /\ owned[c] \subseteq Own(c)
    /\ c \notin deleted => /\ conv[c].live \/ owned[c] # {} => c \in sources \/ SameSource(c)
                           /\ Part \in owned[c] => c \in host.old
    /\ conv[c].phase = "completed" => ~conv[c].keep
    /\ conv[c].head => SameSource(c) /\ c \notin host.serial
    /\ Sess(c) \in disk => conv[c].ran
    /\ ~conv[c].live /\ c \notin deleted =>
          /\ c \notin host.old /\ Work(c) \notin disk /\ Sess(c) \notin disk
          /\ ~conv[c].ran /\ ~conv[c].keep /\ c \notin shadow.made
          /\ owned[c] # {} => Plan(c) \in disk

\* Every conversation.
Lives == \A c \in Convs : Life(c)

\* A task is of a conversation that is there or deleted, names its directories
\* only, and is older than what was started since.
TaskOf(c) ==
    /\ task[c].targets \subseteq Own(c) /\ (c \in deleted \/ Live(c))
    /\ task[c].seq = 0 => c \in deleted
    /\ task[c].seq # 0 => Live(c) \/ Can1("clear") \/ Can1("lookup")
    /\ Live(c) => /\ task[c].targets \subseteq owned[c] \cup {Work(c), Shadow}
                  /\ task[c].seq <= conv[c].seq
                  /\ task[c].seq = conv[c].seq => ~conv[c].keep \/ Can1("lookup")

\* Every queued task.
Tasks == \A c \in TaskIds : task[c].on => TaskOf(c)

\* The thread's list, and the task it is about to look at, under which lock.
Lists(t) ==
    LET e == exec[t] IN
    /\ e.pc = "rest" => e = Resting
    /\ ~AtRest(t) => t = "api"
    /\ e.pc = "next" => <<"reclaim", TRUE>> \notin e.left
    /\ <<"reclaim", TRUE>> \in e.left => t = "api" /\ host.up /\ e.left = {<<"reclaim", TRUE>>}
    /\ \A x \in e.left : x # <<"reclaim", TRUE>> =>
          /\ x[1] \in TaskIds /\ (x[1] \in deleted \/ Live(x[1]))
          /\ ~x[2] => x[1] \in deleted \/ ~host.up
          /\ t = "api" => ~x[2]
    /\ e.pc = "check" => /\ e.run \in deleted \/ Live(e.run)
                         /\ Live(e.run) => Locked(t, e.run)
    /\ e.pc = "clear" => Can1("clear")
    /\ e.pc = "queue" => /\ Live(e.run) /\ e.run \in e.locks
                         /\ ~Active(e.run) /\ ~conv[e.run].keep

\* The task it works off: of a live Run only its workspace, under its lock.
Tending(t) ==
    LET e == exec[t]
        c == e.run
    IN /\ e.pc # "remove" => e.paths = {}
       /\ e.pc \in {"enqueue", "plan", "remove"} =>
            /\ c \in deleted \/ Live(c)
            /\ e.targets \subseteq Own(c) /\ e.paths \subseteq e.targets
            /\ e.seq = 0 => c \in deleted
            /\ e.pc = "enqueue" => e.seq # 0
            /\ e.seq # 0 => Live(c) \/ Can1("clear") \/ Can1("lookup")
            /\ Live(c) => /\ e.seq <= conv[c].seq /\ e.targets \subseteq {Work(c), Shadow}
                          /\ \/ Can1("lookup")
                             \/ Locked(t, c) /\ ~Active(c) /\ ~conv[c].keep

\* Both threads.
Works1 == \A t \in Threads : Lists(t) /\ Tending(t)

\* What is about to be removed is nobody's need.
Threat(t) ==
    /\ \A c \in Convs : conv[c].live =>
          Plan(c) \notin exec[t].paths /\ ~(Part \in exec[t].paths /\ Part \in owned[c])
    /\ Shadow \in exec[t].paths =>
          Lax \/ \A c \in Convs : Active(c) => ~SameSource(c) \/ c \in host.serial
    /\ \A c \in sources : SameSource(c) \/ host.inside[c] \notin exec[t].paths \/ Can1("late")

\* Both threads.
Threats == \A t \in Threads : Threat(t)

\* What a deleted conversation owes is still named by the thread that tends it.
Unproved(lost, c) == IF lost THEN {Work(c)} ELSE {}
Excused == Can1("clear") \/ Can1("lookup")
Debt(t) ==
    LET e == exec[t]
        c == e.run
    IN c \in deleted \cap Convs /\ ~Excused =>
         /\ e.pc = "plan" => Owes(c) \ Unproved(e.lost, c) \subseteq e.targets
         /\ e.pc = "remove" /\ ~e.lost => Owes(c) \subseteq e.paths

\* Both threads.
Debts == \A t \in Threads : Debt(t)

\* What a live conversation has, and what is left of a deleted one.
Provided(c) ==
    /\ conv[c].keep => Work(c) \in disk \/ Can1("lookup")
    /\ conv[c].ran => Sess(c) \in disk
    /\ Plan(c) \in disk
    /\ Active(c) /\ conv[c].head => Shadow \in disk \/ Lax
    /\ Part \in owned[c] => Part \in disk
    /\ c \in shadow.made => c \in shadow.pins
Accounted(c) ==
    \/ Owes(c) = {} \/ Can1("clear") \/ Can1("lookup")
    \/ task[c].on /\ Owes(c) \ Unproved(task[c].lost, c) \subseteq task[c].targets

\* The inductive invariant.
ReclaimInv ==
    /\ TypeInv /\ Downtime /\ Lives /\ Tasks /\ Works1 /\ Threats /\ Debts
    /\ KeepsNeeded /\ KeepsSources /\ DeletedAccounted

-----------------------------------------------------------------------------

\* What the type invariant says of each field: cited where the whole would be too much.
LEMMA Typed ==
    ASSUME TypeInv
    PROVE  /\ host.plans \subseteq host.old /\ host.old \subseteq Convs
           /\ host.serial \subseteq Convs
           /\ host.up \in BOOLEAN /\ host.gone \in BOOLEAN /\ host.guard \in Convs \cup {"none"}
           /\ \A c \in Convs :
                 /\ conv[c] \in ConvType /\ conv[c].seq \in Nat
                 /\ conv[c].phase \in {"idle", "running", "completed"}
                 /\ conv[c].live \in BOOLEAN /\ conv[c].ran \in BOOLEAN
                 /\ conv[c].head \in BOOLEAN /\ conv[c].keep \in BOOLEAN
           /\ \A c \in TaskIds :
                 /\ task[c] \in TaskType /\ task[c].on \in BOOLEAN /\ task[c].seq \in Nat
                 /\ task[c].lost \in BOOLEAN /\ task[c].targets \subseteq Dirs
                 /\ owned[c] \subseteq Dirs
           /\ \A t \in Threads :
                 /\ exec[t] \in ExecType /\ exec[t].pc \in Pcs /\ exec[t].run \in TaskIds
                 /\ exec[t].seq \in Nat /\ exec[t].lost \in BOOLEAN
                 /\ exec[t].targets \subseteq Dirs /\ exec[t].paths \subseteq Dirs
                 /\ exec[t].locks \subseteq Convs \cup {"primary"}
                 /\ exec[t].left \subseteq (TaskIds \cup {"reclaim"}) \X BOOLEAN
           /\ "api" \in Threads /\ "retry" \in Threads
           /\ deleted \subseteq TaskIds /\ sources \subseteq Convs /\ Convs \subseteq TaskIds
<1>1. /\ host.old \subseteq Convs /\ host.serial \subseteq Convs /\ host.up \in BOOLEAN
      /\ host.gone \in BOOLEAN /\ host.guard \in Convs \cup {"none"}
  BY DEF TypeInv, Machines
<1>2. \A c \in Convs : conv[c] \in ConvType
  BY DEF TypeInv
<1>3. \A c \in TaskIds : task[c] \in TaskType /\ owned[c] \subseteq Dirs
  BY DEF TypeInv
<1>4. \A t \in Threads : exec[t] \in ExecType
  BY DEF TypeInv
<1>5. \A c \in Convs :
         /\ conv[c].seq \in Nat /\ conv[c].phase \in {"idle", "running", "completed"}
         /\ conv[c].live \in BOOLEAN /\ conv[c].ran \in BOOLEAN
         /\ conv[c].head \in BOOLEAN /\ conv[c].keep \in BOOLEAN
  BY <1>2 DEF ConvType
<1>6. \A c \in TaskIds : /\ task[c].on \in BOOLEAN /\ task[c].seq \in Nat
                         /\ task[c].lost \in BOOLEAN /\ task[c].targets \subseteq Dirs
  BY <1>3 DEF TaskType
<1>7. \A t \in Threads :
         /\ exec[t].pc \in Pcs /\ exec[t].run \in TaskIds /\ exec[t].seq \in Nat
         /\ exec[t].lost \in BOOLEAN /\ exec[t].targets \subseteq Dirs
         /\ exec[t].paths \subseteq Dirs /\ exec[t].locks \subseteq Convs \cup {"primary"}
         /\ exec[t].left \subseteq (TaskIds \cup {"reclaim"}) \X BOOLEAN
  BY <1>4 DEF ExecType
<1> QED
  BY <1>1, <1>2, <1>3, <1>4, <1>5, <1>6, <1>7 DEF TypeInv, Threads, TaskIds

\* Two conversations have no directory in common but a planning directory that is shared from
\* the start, and no source folder is in a shadow repository.
LEMMA Apart ==
    ASSUME TypeInv
    PROVE  /\ \A c, d \in TaskIds :
                 /\ Work(c) = Work(d) => c = d
                 /\ Sess(c) = Sess(d) => c = d
                 /\ Plan(c) = Plan(d) => c = d \/ (c \in host.plans /\ d \in host.plans)
                 /\ Work(c) # Sess(d) /\ Work(c) # Plan(d) /\ Sess(c) # Plan(d)
           /\ \A c \in TaskIds :
                 /\ Work(c) # Shadow /\ Sess(c) # Shadow /\ Plan(c) # Shadow
                 /\ Work(c) # Part /\ Sess(c) # Part /\ Plan(c) # Part
                 /\ Own(c) \subseteq Dirs
           /\ Shadow # Part
           /\ \A c \in Convs : host.inside[c] # Shadow
<1>1. \A c, d \in TaskIds :
         /\ Work(c) = Work(d) => c = d
         /\ Sess(c) = Sess(d) => c = d
         /\ Work(c) # Sess(d) /\ Work(c) # Plan(d) /\ Sess(c) # Plan(d)
  BY DEF Work, Sess, Plan
<1>2. \A c, d \in TaskIds : Plan(c) = Plan(d) => c = d \/ (c \in host.plans /\ d \in host.plans)
  BY NamesAssumption DEF Plan, TaskIds
<1>3. \A c \in TaskIds :
         /\ Work(c) # Shadow /\ Sess(c) # Shadow /\ Plan(c) # Shadow
         /\ Work(c) # Part /\ Sess(c) # Part /\ Plan(c) # Part
  BY DEF Work, Sess, Plan, Shadow, Part
<1>4. Shadow # Part
  BY DEF Shadow, Part
<1>5. \A c \in TaskIds : Own(c) \subseteq Dirs
  BY DEF Own, Dirs, Plan
<1>6. \A c \in Convs : host.inside[c] # Shadow
  <2>1. \A c \in Convs : host.inside[c] \in {<<>>} \cup {Work(d) : d \in Convs}
          \cup {Sess(d) : d \in Convs}
    BY DEF TypeInv, Machines
  <2>2. Shadow # <<>>
    BY DEF Shadow
  <2> QED BY <1>3, <2>1, <2>2 DEF TaskIds
<1> QED BY <1>1, <1>2, <1>3, <1>4, <1>5, <1>6


\* The entry for the shadow repository in a list is no task.
LEMMA Marks ==
    /\ Resting \in ExecType /\ Threads = {"api", "retry"}
    /\ <<"reclaim", TRUE>> \in (TaskIds \cup {"reclaim"}) \X BOOLEAN
    /\ \A x \in TaskIds, b \in BOOLEAN : <<x, b>> \in (TaskIds \cup {"reclaim"}) \X BOOLEAN
    /\ \A x \in TaskIds, b \in BOOLEAN : <<x, b>> # <<"reclaim", TRUE>>
<1>1. Resting \in ExecType /\ Threads = {"api", "retry"}
  BY DEF Resting, ExecType, TaskIds, Pcs, Threads
<1>2. "reclaim" \in TaskIds \cup {"reclaim"} /\ TRUE \in BOOLEAN
  OBVIOUS
<1>3. <<"reclaim", TRUE>> \in (TaskIds \cup {"reclaim"}) \X BOOLEAN
  BY <1>2
<1>4. \A x \in TaskIds, b \in BOOLEAN : <<x, b>> \in (TaskIds \cup {"reclaim"}) \X BOOLEAN
  OBVIOUS
<1>5. "reclaim" \notin TaskIds
  BY NamesAssumption DEF TaskIds
<1>6. \A x \in TaskIds, b \in BOOLEAN : <<x, b>> # <<"reclaim", TRUE>>
  BY <1>5
<1> QED BY <1>1, <1>3, <1>4, <1>6

\* The machine's layout does not change, so neither do the names drawn from it.
LEMMA Layout ==
    ASSUME host'.plans = host.plans
    PROVE  \A x \in TaskIds : Plan(x)' = Plan(x) /\ Own(x)' = Own(x)
<1>1. \A x \in TaskIds : Plan(x)' = Plan(x)
  BY DEF Plan
<1> QED BY <1>1 DEF Own

\* How the step may change conversation c while thread u stands still.
Beside(u, c) ==
    \/ conv'[c] = conv[c]
    \/ /\ conv'[c].live = conv[c].live /\ conv'[c].seq >= conv[c].seq
       /\ host.up /\ c \notin exec[u].locks
    \/ ~conv[c].live /\ c \notin deleted
    \/ /\ u = "retry" /\ ~conv'[c].live /\ c \in deleted'
       /\ Can1("clear") \/ (host.up /\ c \notin exec[u].locks)

\* A thread that stands still keeps its list and its task in order, whatever another one or
\* a request does to the conversations it does not lock.
LEMMA Bystander ==
    ASSUME TypeInv, TypeInv', NEW u \in Threads, exec'[u] = exec[u], Works1,
           deleted \subseteq deleted', host'.up = host.up, host'.plans = host.plans,
           Can1("lookup")' <=> Can1("lookup"), Can1("clear")' <=> Can1("clear"),
           \A c \in Convs : Beside(u, c)
    PROVE  Lists(u)' /\ Tending(u)'
<1>1. /\ Lists(u) /\ Tending(u) /\ exec[u].seq \in Nat
      /\ exec[u].run \in TaskIds
      /\ deleted \subseteq TaskIds /\ Convs \subseteq TaskIds
  BY Typed DEF Works1
<1>2. \A c \in Convs : conv[c].seq \in Nat /\ conv'[c].seq \in Nat
  BY DEF TypeInv, ConvType
<1> PICK r \in TaskIds : r = exec[u].run
  BY <1>1
<1>3. Own(r)' = Own(r)
  BY Layout
<1>4. \A c \in Convs : Live(c) => Live(c)' \/ c \in deleted'
  BY DEF Beside, Live
<1>5. \A c \in Convs : Live(c)' => Live(c) \/ c \notin deleted
  BY DEF Beside, Live
<1>6. Lists(u)'
  <2>1. exec'[u].pc = "rest" => exec'[u] = Resting
    BY <1>1 DEF Lists
  <2>2. ~AtRest(u)' => u = "api"
    BY <1>1 DEF Lists, AtRest
  <2>3. exec'[u].pc = "next" => <<"reclaim", TRUE>> \notin exec'[u].left
    BY <1>1 DEF Lists
  <2>4. \A x \in exec'[u].left : x # <<"reclaim", TRUE>> =>
          /\ x[1] \in TaskIds /\ (x[1] \in deleted' \/ Live(x[1])')
          /\ ~x[2] => x[1] \in deleted' \/ ~host'.up
          /\ u = "api" => ~x[2]
    BY <1>1, <1>4 DEF Lists, Live
  <2>5. exec'[u].pc = "check" => /\ r \in deleted' \/ Live(r)'
                                 /\ Live(r)' => Locked(u, r)'
    BY <1>1, <1>4, <1>5 DEF Lists, Live, Locked, Beside
  <2>6. exec'[u].pc = "queue" => /\ Live(r)' /\ r \in exec'[u].locks
                                 /\ ~Active(r)' /\ ~conv'[r].keep
    BY <1>1 DEF Lists, AtRest, Live, Active, Beside
  <2>7. /\ exec'[u].pc = "clear" => Can1("clear")'
        /\ <<"reclaim", TRUE>> \in exec'[u].left =>
              u = "api" /\ host'.up /\ exec'[u].left = {<<"reclaim", TRUE>>}
    BY <1>1 DEF Lists
  <2> QED BY <2>1, <2>2, <2>3, <2>4, <2>5, <2>6, <2>7 DEF Lists
<1>7. Tending(u)'
  <2> SUFFICES ASSUME exec[u].pc \in {"enqueue", "plan", "remove"}
               PROVE  /\ r \in deleted' \/ Live(r)'
                      /\ exec[u].targets \subseteq Own(r) /\ exec[u].paths \subseteq exec[u].targets
                      /\ exec[u].seq = 0 => r \in deleted'
                      /\ exec[u].pc = "enqueue" => exec[u].seq # 0
                      /\ exec[u].seq # 0 => Live(r)' \/ Can1("clear") \/ Can1("lookup")
                      /\ Live(r)' => /\ exec[u].seq <= conv'[r].seq
                                     /\ exec[u].targets \subseteq {Work(r), Shadow}
                                     /\ \/ Can1("lookup")
                                        \/ Locked(u, r)' /\ ~Active(r)' /\ ~conv'[r].keep
    BY <1>1, <1>3 DEF Tending
  <2>1. /\ r \in deleted \/ Live(r)
        /\ exec[u].targets \subseteq Own(r) /\ exec[u].paths \subseteq exec[u].targets
        /\ exec[u].seq = 0 => r \in deleted
        /\ exec[u].pc = "enqueue" => exec[u].seq # 0
        /\ exec[u].seq # 0 => Live(r) \/ Can1("clear") \/ Can1("lookup")
        /\ Live(r) => /\ exec[u].seq <= conv[r].seq
                      /\ exec[u].targets \subseteq {Work(r), Shadow}
                      /\ \/ Can1("lookup")
                         \/ Locked(u, r) /\ ~Active(r) /\ ~conv[r].keep
    BY <1>1 DEF Tending
  <2>2. exec[u].seq # 0 => Live(r)' \/ Can1("clear") \/ Can1("lookup")
    BY <2>1, <1>5, <1>4 DEF Live, Locked, Beside
  <2>3. Live(r)' => /\ exec[u].seq <= conv'[r].seq
                   /\ exec[u].targets \subseteq {Work(r), Shadow}
    BY <2>1, <1>2, <1>5, <1>4, <1>1 DEF Live, Beside
  <2>4. Live(r)' => \/ Can1("lookup")
                    \/ Locked(u, r)' /\ ~Active(r)' /\ ~conv'[r].keep
    BY <2>1, <1>5 DEF Live, Locked, Active, Beside
  <2> QED BY <2>1, <2>2, <2>3, <2>4, <1>4 DEF Live
<1> QED BY <1>6, <1>7

\* Nothing more is about to be removed, and nothing more is needed.
LEMMA ThreatFrame ==
    ASSUME TypeInv, NEW u \in Threads, Threat(u), host'.plans = host.plans,
           host'.inside = host.inside, host'.serial = host.serial,
           Can1("late")' <=> Can1("late"), Can1("lookup")' <=> Can1("lookup"),
           exec'[u].paths \subseteq exec[u].paths, sources' \subseteq sources,
           \A c \in Convs : /\ conv'[c].live => conv[c].live
                            /\ Part \in owned'[c] => Part \in owned[c]
                            /\ Active(c)' => Active(c)
    PROVE  Threat(u)'
<1>1. \A c \in Convs : Plan(c)' = Plan(c) /\ (SameSource(c)' <=> SameSource(c))
  BY Layout DEF TaskIds, SameSource
<1>2. \A c \in Convs : conv'[c].live =>
          Plan(c) \notin exec'[u].paths /\ ~(Part \in exec'[u].paths /\ Part \in owned'[c])
  BY DEF Threat
<1>3. Shadow \in exec'[u].paths =>
          Lax \/ \A c \in Convs : Active(c)' => ~SameSource(c) \/ c \in host.serial
  BY DEF Threat
<1>4. \A c \in sources' : SameSource(c) \/ host.inside[c] \notin exec'[u].paths \/ Can1("late")
  BY DEF Threat
<1>5. Lax' <=> Lax
  BY DEF Lax
<1>6. sources' \subseteq Convs
  BY DEF TypeInv
<1> QED BY <1>1, <1>2, <1>3, <1>4, <1>5, <1>6 DEF Threat

\* A deletion under the eyes of the thread is excused; else less is owed.
LEMMA DebtFrame ==
    ASSUME TypeInv, NEW u \in Threads, exec'[u] = exec[u], Works1, Debt(u),
           Can1("lookup")' <=> Can1("lookup"), Can1("clear")' <=> Can1("clear"),
           \A c \in Convs : /\ c \in deleted => Owes(c)' \subseteq Owes(c)
                            /\ \/ c \in deleted <=> c \in deleted'
                               \/ Can1("clear") \/ (host.up /\ c \notin exec[u].locks)
    PROVE  Debt(u)'
<1>1. Tending(u) /\ exec[u].run \in TaskIds
  BY Typed DEF Works1
<1> PICK r \in TaskIds : r = exec[u].run
  BY <1>1
<1> SUFFICES ASSUME r \in Convs, r \in deleted', ~Excused, exec[u].pc \in {"plan", "remove"}
             PROVE  /\ exec[u].pc = "plan" =>
                         Owes(r)' \ Unproved(exec[u].lost, r) \subseteq exec[u].targets
                    /\ exec[u].pc = "remove" /\ ~exec[u].lost => Owes(r)' \subseteq exec[u].paths
  BY DEF Debt, Excused, Unproved
<1>2. r \in deleted
  BY <1>1 DEF Tending, Live, Locked, Excused
<1>3. /\ exec[u].pc = "plan" => Owes(r) \ Unproved(exec[u].lost, r) \subseteq exec[u].targets
      /\ exec[u].pc = "remove" /\ ~exec[u].lost => Owes(r) \subseteq exec[u].paths
  BY <1>2 DEF Debt
<1> QED BY <1>2, <1>3

\* A manifest names what is the conversation's own: of a live one its workspace,
\* of a deleted one its sessions too, and the workspace unless nothing proves it.
Disposes(c, m) ==
    /\ m \in TaskType /\ m.on /\ m.seq = 0 /\ m.targets \subseteq Own(c)
    /\ conv[c].ran => Sess(c) \in m.targets
    /\ Work(c) \in m.targets \/ m.lost
GivesUp(c, m) ==
    m \in TaskType /\ m.on /\ m.seq = conv[c].seq /\ m.targets \subseteq {Work(c)}

\* disposal_manifest names a deleted conversation's own directories, all that is left of it;
\* the manifest of a live one names its workspace at most.
LEMMA Manifests ==
    ASSUME TypeInv, NEW c \in Convs, owned[c] \subseteq Own(c)
    PROVE  Disposes(c, manifest(c, TRUE)) /\ GivesUp(c, manifest(c, FALSE))
<1>1. /\ Own(c) \subseteq Dirs /\ c \in TaskIds /\ conv[c].seq \in Nat /\ 0 \in Nat
      /\ host.gone \in BOOLEAN
  BY Apart, Typed
<1>2. configuration_targets(c) \subseteq {Work(c), Shadow}
  BY DEF configuration_targets
<1>3. /\ legacy_workspace(c) \subseteq {Work(c)}
      /\ \A s : missing_source_workspaces(c, s) \subseteq {Work(c)}
  BY DEF legacy_workspace, missing_source_workspaces
<1> DEFINE known == owned[c] \cup configuration_targets(c) \cup legacy_workspace(c)
           all   == known \cup missing_source_workspaces(c, known)
           full  == all \cup planning_ids(c) \cup (IF conv[c].ran THEN {Sess(c)} ELSE {})
           none  == host.gone /\ Work(c) \notin all
<1>4. all \subseteq Own(c)
  BY <1>2, <1>3 DEF Own
<1>5. full \subseteq Own(c)
  BY <1>4 DEF planning_ids, Own
<1>6. all \cap {Work(x) : x \in Convs} \subseteq {Work(c)}
  BY <1>1, <1>4, Apart DEF Own, TaskIds
<1>7. Work(c) \in full \/ none
  BY DEF configuration_targets
<1>8. conv[c].ran => Sess(c) \in full
  OBVIOUS
<1> HIDE DEF full, all, none
<1>9. /\ manifest(c, TRUE) = [on |-> TRUE, targets |-> full, seq |-> 0, lost |-> none]
      /\ manifest(c, FALSE) = [on |-> TRUE, targets |-> all \cap {Work(x) : x \in Convs},
                                seq |-> conv[c].seq, lost |-> none]
  BY DEF manifest, full, all, none, known
<1>10. PICK s : s = all \cap {Work(x) : x \in Convs}
  OBVIOUS
<1>11. PICK n \in BOOLEAN : n = none
  BY DEF none
<1>12. PICK f : f = [on |-> TRUE, targets |-> full, seq |-> 0, lost |-> n]
  OBVIOUS
<1>13. PICK g : g = [on |-> TRUE, targets |-> s, seq |-> conv[c].seq, lost |-> n]
  OBVIOUS
<1>14. manifest(c, TRUE) = f /\ manifest(c, FALSE) = g
  BY <1>9, <1>10, <1>11, <1>12, <1>13, Zenon
<1>15. full \in SUBSET Dirs /\ s \in SUBSET Dirs /\ TRUE \in BOOLEAN
  BY <1>1, <1>4, <1>5, <1>10
<1>16. f \in TaskType
  BY <1>1, <1>11, <1>12, <1>15 DEF TaskType
<1>17. g \in TaskType
  BY <1>1, <1>11, <1>13, <1>15 DEF TaskType
<1>18. /\ f.on /\ f.seq = 0 /\ f.targets = full /\ f.lost = n
       /\ g.on /\ g.seq = conv[c].seq /\ g.targets = s
  BY <1>12, <1>13
<1>19. /\ full \subseteq Own(c) /\ (conv[c].ran => Sess(c) \in full) /\ (Work(c) \in full \/ n)
       /\ s \subseteq {Work(c)}
  BY <1>5, <1>6, <1>7, <1>8, <1>10, <1>11
<1> HIDE DEF full, all, none, known
<1>20. Disposes(c, f) /\ GivesUp(c, g)
  BY <1>16, <1>17, <1>18, <1>19 DEF Disposes, GivesUp
<1> QED BY <1>14, <1>20, Zenon

\* A deletion: the conversations are gone, and each has a task that names all of it.
LEMMA Deletion ==
    ASSUME TypeInv, Lives, NEW cs \in SUBSET Convs, \A c \in cs : conv[c].live,
           Deleted(cs, [c \in cs |-> manifest(c, TRUE)])
    PROVE  /\ conv' \in [Convs -> ConvType] /\ task' \in [TaskIds -> TaskType]
           /\ deleted' = deleted \cup cs
           /\ \A x \in Convs \ cs : conv'[x] = conv[x]
           /\ \A x \in cs :
                 /\ ~conv'[x].live /\ conv'[x].phase = conv[x].phase /\ conv'[x].keep = conv[x].keep
                 /\ conv'[x].ran = conv[x].ran /\ conv'[x].head = conv[x].head
                 /\ conv'[x].seq = conv[x].seq
           /\ \A x \in TaskIds \ cs : task'[x] = task[x]
           /\ \A x \in cs : Disposes(x, task'[x])
<1>1. /\ conv' = [c \in Convs |-> IF c \in cs THEN [conv[c] EXCEPT !.live = FALSE] ELSE conv[c]]
      /\ task' = [c \in TaskIds |-> IF c \in cs THEN manifest(c, TRUE) ELSE task[c]]
      /\ deleted' = deleted \cup cs
  <2>1. \A c \in cs : [x \in cs |-> manifest(x, TRUE)][c] = manifest(c, TRUE)
    BY Zenon
  <2> QED BY Zenon DEF Deleted
<1>2. \A c \in Convs \ cs : conv'[c] = conv[c]
  BY <1>1
<1>3. \A c \in cs : conv'[c] = [conv[c] EXCEPT !.live = FALSE] /\ conv[c] \in ConvType
  BY <1>1, Typed
<1>4. \A c \in cs : conv'[c] \in ConvType
  BY <1>3, FALSE \in BOOLEAN DEF ConvType
<1>5. \A x \in cs :
         /\ ~conv'[x].live /\ conv'[x].phase = conv[x].phase /\ conv'[x].keep = conv[x].keep
         /\ conv'[x].ran = conv[x].ran /\ conv'[x].head = conv[x].head
         /\ conv'[x].seq = conv[x].seq
  BY <1>3 DEF ConvType
<1>6. conv' \in [Convs -> ConvType]
  <2>1. \A c \in Convs : conv'[c] \in ConvType
    BY <1>2, <1>4, Typed
  <2>2. conv' = [c \in Convs |-> conv'[c]]
    BY <1>1
  <2> QED BY <2>1, <2>2
<1>7. \A c \in TaskIds \ cs : task'[c] = task[c]
  BY <1>1, Zenon
<1>8. \A c \in cs : Disposes(c, task'[c])
  <2>1. \A c \in cs : Disposes(c, manifest(c, TRUE))
    BY Manifests DEF Lives, Life
  <2>2. \A c \in cs : c \in TaskIds
    BY DEF TaskIds
  <2>3. \A c \in cs : task'[c] = manifest(c, TRUE)
    BY <1>1, <2>2, Zenon
  <2> QED BY <2>1, <2>3, Zenon
<1>9. task' \in [TaskIds -> TaskType]
  <2>1. \A c \in TaskIds : task'[c] \in TaskType
    BY <1>7, <1>8, Typed DEF Disposes
  <2>2. task' = [c \in TaskIds |-> task'[c]]
    BY <1>1, Zenon
  <2> QED BY <2>1, <2>2
<1> QED BY <1>1, <1>2, <1>5, <1>6, <1>7, <1>8, <1>9

\* Both ways to delete: Run by Run under each lock, or the whole history.
Deletes(cs) ==
    /\ host.up /\ \A c \in cs : conv[c].live /\ ~Active(c) /\ (Can1("clear") \/ Free1(c))
    /\ Deleted(cs, [c \in cs |-> manifest(c, TRUE)])
    /\ exec' \in [Threads -> ExecType] /\ \A u \in Threads \ {"api"} : exec'[u] = exec[u]
    /\ exec'["api"].pc \in {"rest", "next"} /\ exec'["api"].paths = {}
    /\ exec'["api"].pc = "rest" => exec'["api"] = Resting
    /\ \A x \in exec'["api"].left : x[1] \in TaskIds /\ ~x[2] /\ x[1] \in deleted'
    /\ UNCHANGED <<owned, done, disk, shadow, sources, host>>

\* A thread that is over with a task goes on with its list.
LEMMA Overs ==
    ASSUME TypeInv, NEW t \in Threads
    PROVE  /\ Over(t) \in ExecType /\ Over(t).left = exec[t].left /\ Over(t).paths = {}
           /\ Over(t).pc = IF exec[t].left = {<<"reclaim", TRUE>>} THEN "reclaim" ELSE "next"
<1>1. exec[t] \in ExecType /\ {} \in SUBSET Dirs /\ {} \in SUBSET (Convs \cup {"primary"})
  BY Typed
<1>2. "reclaim" \in Pcs /\ "next" \in Pcs
  BY DEF Pcs
<1>3. PICK e : e = [exec[t] EXCEPT !.paths = {}]
  OBVIOUS
<1>4. e \in ExecType
  BY <1>1, <1>3 DEF ExecType
<1>5. e.left = exec[t].left /\ e.paths = {}
  BY <1>1, <1>3 DEF ExecType
<1>6. PICK o : o = Over(t)
  OBVIOUS
<1>7. o = IF e.left = {<<"reclaim", TRUE>>} THEN [e EXCEPT !.pc = "reclaim", !.locks = {}]
          ELSE IF t = "api" THEN [e EXCEPT !.pc = "next"]
            ELSE [e EXCEPT !.pc = "next", !.locks = {}]
  BY <1>3, <1>6 DEF Over
<1>8. \/ o = [e EXCEPT !.pc = "reclaim", !.locks = {}]
      \/ o = [e EXCEPT !.pc = "next"] \/ o = [e EXCEPT !.pc = "next", !.locks = {}]
  BY <1>7
<1>9. o \in ExecType
  BY <1>1, <1>2, <1>4, <1>8 DEF ExecType
<1>10. o.left = e.left /\ o.paths = e.paths /\ o.pc \in {"next", "reclaim"}
       /\ o.pc = IF e.left = {<<"reclaim", TRUE>>} THEN "reclaim" ELSE "next"
  <2>1. CASE e.left = {<<"reclaim", TRUE>>}
    BY <1>7 DEF ExecType
  <2>2. CASE e.left # {<<"reclaim", TRUE>>}
    BY <1>7 DEF ExecType
  <2> QED BY <2>1, <2>2
<1> QED BY <1>5, <1>6, <1>9, <1>10

\* Having gone on, the thread is in order again.
LEMMA OverWorks ==
    ASSUME TypeInv, NEW t \in Threads, Lists(t), exec[t].pc \in {"check", "plan", "remove"},
           exec'[t] = Over(t), conv' = conv, deleted' = deleted, host'.up = host.up
    PROVE  Lists(t)' /\ Tending(t)'
<1>1. /\ exec'[t].left = exec[t].left /\ exec'[t].paths = {}
      /\ exec'[t].pc = IF exec[t].left = {<<"reclaim", TRUE>>} THEN "reclaim" ELSE "next"
  BY Overs
<1>2. \A x \in exec'[t].left : x # <<"reclaim", TRUE>> =>
          /\ x[1] \in TaskIds /\ (x[1] \in deleted' \/ Live(x[1])')
          /\ ~x[2] => x[1] \in deleted' \/ ~host'.up
          /\ t = "api" => ~x[2]
  BY <1>1 DEF Lists, Live
<1>3. /\ <<"reclaim", TRUE>> \in exec'[t].left =>
            t = "api" /\ host'.up /\ exec'[t].left = {<<"reclaim", TRUE>>}
      /\ exec'[t].pc = "next" => <<"reclaim", TRUE>> \notin exec'[t].left
      /\ exec'[t].pc = "reclaim" => t = "api"
  BY <1>1 DEF Lists
<1>4. Lists(t)'
  BY <1>1, <1>2, <1>3 DEF Lists, AtRest
<1>5. Tending(t)'
  BY <1>1 DEF Tending
<1> QED BY <1>4, <1>5

\* A thread goes on to its next step and touches nothing else.
Turns(t) ==
    /\ exec' \in [Threads -> ExecType] /\ \A u \in Threads \ {t} : exec'[u] = exec[u]
    /\ exec'[t].paths = {}
    /\ (host.up \/ (t = "api" /\ exec'[t].pc \notin {"queue", "clear", "reclaim"}))
    /\ UNCHANGED <<conv, owned, task, deleted, done, disk, shadow, sources, host>>

\* A thread gives up a task, or ends it when nothing is owed.
Finishes(t) ==
    LET c == exec[t].run IN
    /\ exec[t].pc \in {"check", "remove"} /\ exec' = [exec EXCEPT ![t] = Over(t)]
    /\ Finished(c) /\ (c \in Convs \cap deleted => Owes(c) = {} \/ Excused)
    /\ UNCHANGED <<conv, deleted, disk, shadow, sources, host>>

\* Some of the directories of a plan are removed.
Removes(t) ==
    /\ exec[t].pc \in {"plan", "remove"} /\ \E paths \in SUBSET exec[t].paths : Removed(paths)
    /\ exec' \in [Threads -> ExecType] /\ \A u \in Threads \ {t} : exec'[u] = exec[u]
    /\ exec'[t].paths = {}
    /\ (host.up \/ (t = "api" /\ exec'[t].pc \notin {"queue", "clear", "reclaim"}))
    /\ host' \in Machines /\ host'.up = host.up /\ host'.gone = host.gone /\ host'.can = host.can
    /\ host'.guard = host.guard /\ host'.plans = host.plans /\ host'.old = host.old
    /\ host'.inside = host.inside /\ host'.serial = host.serial
    /\ UNCHANGED <<conv, owned, task, deleted, done, sources>>

\* What the offline command makes of a task: a workspace that is given up with its
\* Run, a task as it was, or with the workspace it now proves, what a deletion left
\* without one, and the idle worker's.
Given(c) ==
    /\ Live(c) /\ conv[c].phase = "completed" /\ ~task[c].on
    /\ task'[c].on /\ task'[c].seq = conv[c].seq /\ task'[c].targets \subseteq {Work(c)}
Left(c) ==
    /\ task'[c].on = task[c].on /\ task'[c].seq = task[c].seq
    /\ task[c].targets \subseteq task'[c].targets
    /\ task'[c].targets \subseteq task[c].targets \cup {Work(c)}
    /\ task'[c].lost => task[c].lost
    /\ task[c].lost /\ ~task'[c].lost => Work(c) \in task'[c].targets
Dropped(c) ==
    /\ c \in deleted \cap Convs /\ ~task[c].on
    /\ task'[c].on /\ task'[c].seq = 0 /\ task'[c].targets = owned[c] \cup {Plan(c)}
Idled(c) == ~task[c].on /\ task'[c].on /\ task'[c].seq = 0 /\ task'[c].targets = {Part}

\* How the offline command completes a task whose workspace turned up.
LEMMA Proofs ==
    ASSUME TypeInv, NEW c \in TaskIds, NEW m \in TaskType
    PROVE  /\ Proved(m, c) \in TaskType /\ Proved(m, c).on = m.on /\ Proved(m, c).seq = m.seq
           /\ m.targets \subseteq Proved(m, c).targets
           /\ Proved(m, c).targets \subseteq m.targets \cup {Work(c)}
           /\ Proved(m, c).lost => m.lost
           /\ m.lost /\ ~Proved(m, c).lost => Work(c) \in Proved(m, c).targets
<1>1. PICK s \in SUBSET Dirs : s = m.targets \cup {Work(c)}
  BY DEF TaskType, Dirs
<1>2. PICK p : p = [m EXCEPT !.targets = s, !.lost = FALSE]
  OBVIOUS
<1>3. p \in TaskType
  BY <1>1, <1>2, FALSE \in BOOLEAN DEF TaskType
<1>4. p.on = m.on /\ p.seq = m.seq /\ p.targets = s /\ ~p.lost
  BY <1>2 DEF TaskType
<1>5. Proved(m, c) = p \/ Proved(m, c) = m
  <2>1. [m EXCEPT !.targets = @ \cup {Work(c)}, !.lost = FALSE] = p
    BY <1>1, <1>2
  <2> QED BY <2>1 DEF Proved
<1> QED BY <1>1, <1>3, <1>4, <1>5

\* Ownership is recorded before the first event: nothing claims what is about to go.
LEMMA remember_eventKeeps ==
    ASSUME ReclaimInv, NEW c \in Convs, remember_event(c) PROVE ReclaimInv'
<1>1. TypeInv /\ Works1 /\ Tasks /\ Lives /\ Downtime
  BY DEF ReclaimInv
<1>2. /\ host' = host /\ conv' = conv /\ task' = task /\ deleted' = deleted
      /\ shadow' = shadow /\ exec' = exec
      /\ host.up /\ ~host.gone /\ c \in host.fresh /\ ~conv[c].live /\ c \notin deleted
      /\ owned[c] = {}
      /\ SameSource(c) \/ host.inside[c] \in disk
      /\ Doomed(host.inside[c]) => Can1("late")
      /\ sources' = sources \cup {c}
  BY DEF remember_event
<1>3. /\ \A x \in TaskIds \ {c} : owned'[x] = owned[x]
      /\ owned'[c] = configuration_targets(c) \cup {Plan(c)}
      /\ disk' = disk \cup {Plan(c)}
  BY <1>1, Typed, <1>2 DEF remember_event, planning_ids, TypeInv
<1>4. configuration_targets(c) \subseteq {Work(c), Shadow}
  BY <1>3 DEF configuration_targets
<1>5. owned' \in [TaskIds -> SUBSET Dirs]
  <2>1. configuration_targets(c) \cup {Plan(c)} \subseteq Dirs
    BY <1>1, <1>4, Apart, Typed DEF Own
  <2> QED BY <1>1, <2>1 DEF TypeInv, remember_event, planning_ids
<1>6. TypeInv'
  BY <1>1, Typed, <1>2, <1>3, <1>4, <1>5 DEF TypeInv, remember_event
<1>7. \A x \in TaskIds : Plan(x)' = Plan(x) /\ Own(x)' = Own(x)
  BY <1>4, <1>5, Layout DEF remember_event
<1>8. Downtime'
  BY <1>1, Typed, <1>2, <1>3, <1>4, <1>5, <1>7
     DEF Downtime, AtRest, Active, Can1, Lax, SameSource, Resting
<1>9. Lives'
  <2> SUFFICES ASSUME NEW x \in Convs PROVE Life(x)'
    BY DEF Lives
  <2>1. Life(x)
    BY <1>1 DEF Lives
  <2> QED BY <1>1, Typed, <1>2, <1>3, <1>4, <1>5, <1>7, <2>1, Apart
             DEF Life, SameSource, TaskIds, Own
<1>10. Tasks'
  <2> SUFFICES ASSUME NEW x \in TaskIds, task'[x].on PROVE TaskOf(x)'
    BY DEF Tasks
  <2>1. task[x].on => TaskOf(x)
    BY <1>1 DEF Tasks
  <2> QED BY <1>1, Typed, <1>2, <1>3, <1>4, <1>5, <1>7, <2>1 DEF TaskOf, Live, Can1
<1>11. Works1'
  <2> SUFFICES ASSUME NEW u \in Threads PROVE Lists(u)' /\ Tending(u)'
    BY DEF Works1
  <2>1. \A x \in Convs : Beside(u, x)
    BY <1>1, Typed, <1>2, <1>3, <1>4, <1>5, <1>7 DEF Beside, Can1, Free1
  <2> QED BY <1>1, <1>2, <2>1, Bystander, <1>6 DEF Can1
<1>12. Threats'
  <2> SUFFICES ASSUME NEW u \in Threads PROVE Threat(u)'
    BY DEF Threats
  <2>1. Threat(u)
    BY DEF ReclaimInv, Threats
  <2> QED BY <1>1, Typed, <1>2, <1>3, <1>4, <1>5, <1>7, <2>1, Apart
             DEF Threat, Can1, Active, Lax, SameSource, Doomed
<1>13. Debts'
  <2> SUFFICES ASSUME NEW u \in Threads PROVE Debt(u)'
    BY DEF Debts
  <2>1. Debt(u)
    BY DEF ReclaimInv, Debts
  <2> QED BY <1>1, Typed, <1>2, <1>3, <1>4, <1>5, <1>7, <2>1, DebtFrame, Apart
             DEF Can1, Free1, Owes, Protected
<1>14. KeepsNeeded'
  <2> SUFFICES ASSUME NEW x \in Convs, conv'[x].live PROVE Provided(x)'
    BY <1>1, <1>7 DEF KeepsNeeded, Provided, Lax, TaskIds
  <2>1. conv[x].live => Provided(x)
    BY DEF ReclaimInv, KeepsNeeded, Provided, Lax
  <2>2. Life(x)
    BY <1>1 DEF Lives
  <2> QED BY <1>1, Typed, <1>2, <1>3, <1>4, <1>5, <1>7, <2>1, <2>2, Apart
             DEF Life, Active, Can1, Lax, TaskIds, Provided
<1>15. KeepsSources'
  <2>1. KeepsSources
    BY DEF ReclaimInv
  <2> QED BY <1>1, Typed, <1>2, <1>3, <1>4, <1>5, <1>7, <2>1 DEF KeepsSources, SameSource, Can1
<1>16. DeletedAccounted'
  <2> SUFFICES ASSUME NEW x \in Convs, x \in deleted' PROVE Accounted(x)'
    BY DEF DeletedAccounted, Accounted, Unproved
  <2>1. x \in deleted => Accounted(x)
    BY DEF ReclaimInv, DeletedAccounted, Accounted, Unproved
  <2> QED BY <1>1, Typed, <1>2, <1>3, <1>4, <1>5, <1>7, <2>1, Apart
             DEF Owes, Protected, Can1, TaskIds, Accounted
<1> QED BY <1>6, <1>8, <1>9, <1>10, <1>11, <1>12, <1>13, <1>14, <1>15, <1>16 DEF ReclaimInv

\* A new conversation is nobody's old one: no plan holds its directory.
LEMMA CreateKeeps ==
    ASSUME ReclaimInv, NEW c \in Convs, Create(c) PROVE ReclaimInv'
<1>1. TypeInv /\ Works1 /\ Tasks /\ Lives /\ Downtime
  BY DEF ReclaimInv
<1>2. /\ host' = host /\ owned' = owned /\ task' = task /\ deleted' = deleted /\ disk' = disk
      /\ shadow' = shadow /\ exec' = exec /\ sources' = sources
      /\ owned[c] # {} /\ ~conv[c].live /\ c \notin deleted
  BY DEF Create
<1>3. \A x \in Convs \ {c} : conv'[x] = conv[x]
  BY <1>1, Typed, <1>2 DEF Create, TypeInv
<1>4. conv'[c] = [conv[c] EXCEPT !.live = TRUE, !.seq = 1]
  BY <1>1, Typed, <1>2, <1>3 DEF Create, TypeInv
<1>5. conv'[c] \in ConvType
  <2>1. 1 \in Nat /\ TRUE \in BOOLEAN
    OBVIOUS
  <2> QED BY <1>1, <1>4, <2>1, Typed DEF ConvType
<1>6. /\ conv'[c].live /\ conv'[c].seq = 1 /\ conv'[c].phase = conv[c].phase
      /\ conv'[c].ran = conv[c].ran
      /\ conv'[c].head = conv[c].head /\ conv'[c].keep = conv[c].keep
      /\ conv' \in [Convs -> ConvType]
  BY <1>1, <1>5 DEF Create, TypeInv
<1>7. TypeInv'
  BY <1>1, Typed, <1>2, <1>3, <1>5, <1>6 DEF TypeInv, Create
<1>8. \A x \in TaskIds : Plan(x)' = Plan(x) /\ Own(x)' = Own(x)
  BY <1>5, <1>6, Layout DEF Create
<1>9. Downtime'
  BY <1>1, Typed, <1>2, <1>3, <1>5, <1>6, <1>8
     DEF Downtime, AtRest, Active, Can1, Lax, SameSource, Resting
<1>10. Lives'
  <2> SUFFICES ASSUME NEW x \in Convs PROVE Life(x)'
    BY DEF Lives
  <2>1. Life(x)
    BY <1>1 DEF Lives
  <2>2. CASE x = c
    <3>1. /\ c \in deleted' => ~conv'[c].live
          /\ conv'[c].phase = "running" => conv'[c].live
          /\ conv'[c].live => conv'[c].seq # 0
      BY <1>2, <1>5, <1>6
    <3>2. conv'[c].live \/ owned'[c] # {} => c \in sources' \/ SameSource(c)'
      BY <1>1, Typed, <1>2, <1>3, <1>5, <1>6, <1>8, <2>1, <2>2 DEF Life, SameSource, TaskIds, Active
    <3>3. owned'[c] \subseteq Own(c)' /\ (Part \in owned'[c] => c \in host'.old)
      BY <1>1, Typed, <1>2, <1>3, <1>5, <1>6, <1>8, <2>1, <2>2 DEF Life, SameSource, TaskIds, Active
    <3>4. /\ conv'[c].phase = "completed" => ~conv'[c].keep
          /\ conv'[c].head => SameSource(c)' /\ c \notin host'.serial
          /\ Sess(c) \in disk' => conv'[c].ran
      BY <1>1, Typed, <1>2, <1>3, <1>5, <1>6, <1>8, <2>1, <2>2 DEF Life, SameSource, TaskIds, Active
    <3>5. ~conv'[c].live /\ c \notin deleted' =>
            /\ c \notin host'.old /\ Work(c) \notin disk' /\ Sess(c) \notin disk'
            /\ ~conv'[c].ran /\ ~conv'[c].keep /\ c \notin shadow'.made
            /\ owned'[c] # {} => Plan(c)' \in disk'
      BY <1>6
    <3> QED BY <2>2, <3>1, <3>2, <3>3, <3>4, <3>5 DEF Life
  <2>3. CASE x # c
    BY <1>1, Typed, <1>2, <1>3, <1>5, <1>6, <1>8, <2>1, <2>3 DEF Life, SameSource, TaskIds
  <2> QED BY <2>2, <2>3
<1>11. Tasks'
  <2> SUFFICES ASSUME NEW x \in TaskIds, task'[x].on PROVE TaskOf(x)'
    BY DEF Tasks
  <2>1. task[x].on => TaskOf(x)
    BY <1>1 DEF Tasks
  <2> QED BY <1>1, Typed, <1>2, <1>3, <1>5, <1>6, <1>8, <2>1 DEF TaskOf, Live, Can1
<1>12. Works1'
  <2> SUFFICES ASSUME NEW u \in Threads PROVE Lists(u)' /\ Tending(u)'
    BY DEF Works1
  <2>1. \A x \in Convs : Beside(u, x)
    BY <1>1, Typed, <1>2, <1>3, <1>5, <1>6, <1>8 DEF Beside, Can1, Free1
  <2> QED BY <1>1, <1>2, <2>1, Bystander, <1>7 DEF Can1
<1>13. Threats'
  <2>1. Life(c) /\ c \in TaskIds
    BY <1>1 DEF Lives, TaskIds
  <2>2. c \notin host.plans
    BY <1>1, Typed, <1>2, <2>1 DEF Life
  <2> SUFFICES ASSUME NEW u \in Threads PROVE Threat(u)'
    BY DEF Threats
  <2>3. Threat(u) /\ Tending(u) /\ exec[u].run \in TaskIds
    BY <1>1, Typed DEF ReclaimInv, Threats, Works1
  <2>4. exec[u].paths # {} => /\ exec[u].paths \subseteq Own(exec[u].run)
                              /\ exec[u].run \in deleted \/ Live(exec[u].run)
    BY <2>3, Typed, <1>1 DEF Tending, Pcs
  <2>5. Plan(c) \notin exec[u].paths
    BY <1>1, Typed, <1>2, <1>3, <1>5, <1>6, <1>8, <2>1, <2>2, <2>3, <2>4, Apart DEF Own, Live
  <2>6. \A x \in Convs : conv'[x].live =>
          Plan(x)' \notin exec'[u].paths /\ ~(Part \in exec'[u].paths /\ Part \in owned'[x])
    BY <1>1, Typed, <1>2, <1>3, <1>5, <1>6, <1>8, <2>1, <2>3, <2>5 DEF Threat, Life, TaskIds
  <2>7. \A x \in Convs : Active(x)' <=> Active(x)
    BY <1>1, Typed, <1>2, <1>3, <1>5, <1>6, <1>8 DEF Active
  <2> QED BY <1>1, Typed, <1>2, <1>3, <1>5, <1>6, <1>8, <2>3, <2>6, <2>7
             DEF Threat, Lax, Can1, SameSource
<1>14. Debts'
  <2> SUFFICES ASSUME NEW u \in Threads PROVE Debt(u)'
    BY DEF Debts
  <2>1. Debt(u)
    BY DEF ReclaimInv, Debts
  <2> QED BY <1>1, Typed, <1>2, <1>3, <1>5, <1>6, <1>8, <2>1, DebtFrame
             DEF Can1, Free1, Owes, Protected
<1>15. KeepsNeeded'
  <2> SUFFICES ASSUME NEW x \in Convs, conv'[x].live PROVE Provided(x)'
    BY <1>1, <1>8 DEF KeepsNeeded, Provided, Lax, TaskIds
  <2>1. conv[x].live => Provided(x)
    BY DEF ReclaimInv, KeepsNeeded, Provided, Lax
  <2>2. Life(x)
    BY <1>1 DEF Lives
  <2> QED BY <1>1, Typed, <1>2, <1>3, <1>5, <1>6, <1>8, <2>1, <2>2, Apart
             DEF Life, Active, Can1, Lax, TaskIds, Own, Provided
<1>16. KeepsSources'
  <2>1. KeepsSources
    BY DEF ReclaimInv
  <2> QED BY <1>1, Typed, <1>2, <1>3, <1>5, <1>6, <1>8, <2>1 DEF KeepsSources, SameSource, Can1
<1>17. DeletedAccounted'
  <2> SUFFICES ASSUME NEW x \in Convs, x \in deleted' PROVE Accounted(x)'
    BY DEF DeletedAccounted, Accounted, Unproved
  <2>1. x \in deleted => Accounted(x)
    BY DEF ReclaimInv, DeletedAccounted, Accounted, Unproved
  <2> QED BY <1>1, Typed, <1>2, <1>3, <1>5, <1>6, <1>8, <2>1
             DEF Owes, Protected, Can1, TaskIds, Accounted
<1> QED BY <1>7, <1>9, <1>10, <1>11, <1>12, <1>13, <1>14, <1>15, <1>16, <1>17 DEF ReclaimInv

\* A start needs its workspace and sessions again, and no thread is under way to remove them:
\* the Run's lock is free.
LEMMA StartKeeps ==
    ASSUME ReclaimInv, NEW c \in Convs, Start(c) PROVE ReclaimInv'
<1>1. TypeInv /\ Works1 /\ Tasks /\ Lives /\ Downtime
  BY DEF ReclaimInv
<1>2. /\ host' = host /\ task' = task /\ deleted' = deleted /\ shadow' = shadow /\ exec' = exec
      /\ Doomed(Shadow) => Can1("late")
      /\ host.up /\ ~host.gone /\ conv[c].live /\ ~Active(c) /\ Free1(c)
      /\ sources' = sources \cup {c} /\ disk' = disk \cup {Work(c), Sess(c)}
  BY DEF Start
<1>3. /\ \A x \in Convs \ {c} : conv'[x] = conv[x]
      /\ \A x \in TaskIds \ {c} : owned'[x] = owned[x]
  BY <1>1, Typed, <1>2 DEF Start, TypeInv
<1>4. owned'[c] = owned[c] \cup configuration_targets(c) \cup {Sess(c)}
  BY <1>1, Typed, <1>2, <1>3 DEF Start, TypeInv, TaskIds
<1>5. conv'[c] = [conv[c] EXCEPT !.phase = "running", !.seq = @ + 1, !.ran = TRUE,
                         !.head = @ /\ Shadow \in disk, !.keep = TRUE]
  BY <1>1, Typed, <1>2, <1>3, <1>4 DEF Start, TypeInv
<1>6. conv'[c] \in ConvType
  <2>1. /\ conv[c].seq + 1 \in Nat /\ TRUE \in BOOLEAN
        /\ (conv[c].head /\ Shadow \in disk) \in BOOLEAN
        /\ "running" \in {"idle", "running", "completed"}
    BY <1>1, Typed
  <2>2. conv[c] \in ConvType
    BY <1>1, Typed
  <2> QED BY <1>5, <2>1, <2>2 DEF ConvType
<1>7. /\ conv'[c].live = conv[c].live /\ conv'[c].seq = conv[c].seq + 1
      /\ conv'[c].phase = "running"
      /\ conv'[c].head => conv[c].head /\ Shadow \in disk
      /\ conv'[c].keep /\ conv'[c].ran
  BY <1>4, <1>6, <1>5 DEF ConvType
<1>8. conv' \in [Convs -> ConvType]
  BY <1>1, Typed, <1>2, <1>3, <1>4, <1>6, <1>7 DEF Start, TypeInv
<1>9. configuration_targets(c) \subseteq {Work(c), Shadow}
  BY <1>6, <1>7, <1>8 DEF configuration_targets
<1>10. owned' \in [TaskIds -> SUBSET Dirs]
  <2>1. configuration_targets(c) \cup {Sess(c)} \subseteq Dirs
    BY <1>1, <1>9, Apart, Typed DEF Own
  <2>2. \A x \in TaskIds : owned'[x] \subseteq Dirs
    BY <1>1, <1>3, <1>4, <2>1, Typed
  <2>3. owned' = [x \in TaskIds |-> owned'[x]]
    BY <1>1 DEF Start, TypeInv
  <2> QED BY <2>2, <2>3
<1>11. Life(c) /\ c \in TaskIds
  BY <1>1, Typed, <1>2, <1>3, <1>4, <1>6, <1>7, <1>8, <1>9, <1>10 DEF Lives, TaskIds
<1>12. TypeInv'
  BY <1>1, Typed, <1>2, <1>3, <1>4, <1>6, <1>7, <1>8, <1>9, <1>10, <1>11 DEF TypeInv, Start
<1>13. \A x \in TaskIds : Plan(x)' = Plan(x) /\ Own(x)' = Own(x)
  BY <1>8, <1>9, <1>10, <1>11, Layout DEF Start
<1>14. Downtime'
  BY <1>1, Typed, <1>2, <1>3, <1>4, <1>6, <1>7, <1>8, <1>9, <1>10, <1>11, <1>13
     DEF Downtime, AtRest, Active, Can1, Lax, SameSource, Resting
<1>15. Lives'
  <2> SUFFICES ASSUME NEW x \in Convs PROVE Life(x)'
    BY DEF Lives
  <2>1. Life(x)
    BY <1>1 DEF Lives
  <2>2. CASE x = c
    <3>1. /\ c \in deleted' => ~conv'[c].live
          /\ conv'[c].phase = "running" => conv'[c].live
          /\ conv'[c].live => conv'[c].seq # 0
      BY <1>1, Typed, <1>2, <1>3, <1>4, <1>6, <1>7, <1>8, <1>9, <1>10, <1>11, <1>13, <2>1, <2>2,
         Apart
         DEF Life, SameSource, TaskIds, Active, Own
    <3>2. conv'[c].live \/ owned'[c] # {} => c \in sources' \/ SameSource(c)'
      BY <1>2
    <3>3. owned'[c] \subseteq Own(c)' /\ (Part \in owned'[c] => c \in host'.old)
      BY <1>1, Typed, <1>2, <1>3, <1>4, <1>6, <1>7, <1>8, <1>9, <1>10, <1>11, <1>13, <2>1, <2>2,
         Apart
         DEF Life, SameSource, TaskIds, Active, Own
    <3>4. /\ conv'[c].phase = "completed" => ~conv'[c].keep
          /\ conv'[c].head => SameSource(c)' /\ c \notin host'.serial
          /\ Sess(c) \in disk' => conv'[c].ran
      BY <1>2, <1>3, <1>7, <1>8, <2>1, <2>2, Apart DEF Life, SameSource, TaskIds, Active, Own
    <3>5. ~conv'[c].live /\ c \notin deleted' =>
            /\ c \notin host'.old /\ Work(c) \notin disk' /\ Sess(c) \notin disk'
            /\ ~conv'[c].ran /\ ~conv'[c].keep /\ c \notin shadow'.made
            /\ owned'[c] # {} => Plan(c)' \in disk'
      BY <1>2, <1>3, <1>7, <1>8
    <3> QED BY <2>2, <3>1, <3>2, <3>3, <3>4, <3>5 DEF Life
  <2>3. CASE x # c
    BY <1>1, Typed, <1>2, <1>3, <1>4, <1>6, <1>7, <1>8, <1>9, <1>10, <1>11, <1>13, <2>1, <2>3, Apart
       DEF Life, SameSource, TaskIds, Own
  <2> QED BY <2>2, <2>3
<1>16. Tasks'
  <2> SUFFICES ASSUME NEW x \in TaskIds, task'[x].on PROVE TaskOf(x)'
    BY DEF Tasks
  <2>1. task[x].on => TaskOf(x)
    BY <1>1 DEF Tasks
  <2>2. CASE x = c
    <3>1. task[c].on => task[c].seq \in Nat /\ TaskOf(c)
      BY <1>1, Typed, <2>1, <2>2
    <3>2. task[c].on => task[c].seq <= conv'[c].seq /\ task[c].seq # conv'[c].seq
      BY <1>1, Typed, <1>2, <1>7, <1>8, <1>9, <3>1 DEF TaskOf, Live
    <3> QED BY <1>1, <1>2, <1>3, <1>4, <1>6, <1>7, <1>8, <1>9, <1>10, <1>11, <1>13, <2>2, <3>1, <3>2
               DEF TaskOf, Live
  <2>3. CASE x # c
    BY <1>1, Typed, <1>2, <1>3, <1>4, <1>6, <1>7, <1>8, <1>9, <1>10, <1>11, <1>13, <2>1, <2>3
       DEF TaskOf, Live, Can1
  <2> QED BY <2>2, <2>3
<1>17. Works1'
  <2> SUFFICES ASSUME NEW u \in Threads PROVE Lists(u)' /\ Tending(u)'
    BY DEF Works1
  <2>1. Beside(u, c) /\ \A x \in Convs \ {c} : Beside(u, x)
    BY <1>1, Typed, <1>2, <1>3, <1>4, <1>6, <1>7, <1>8, <1>9, <1>10, <1>11, <1>13
       DEF Beside, Can1, Free1
  <2> QED BY <1>1, <1>2, <2>1, Bystander, <1>12 DEF Can1
<1>18. Threats'
  <2> SUFFICES ASSUME NEW u \in Threads PROVE Threat(u)'
    BY DEF Threats
  <2>1. Threat(u)
    BY DEF ReclaimInv, Threats
  <2> QED BY <1>1, Typed, <1>2, <1>3, <1>4, <1>6, <1>7, <1>8, <1>9, <1>10, <1>11, <1>13, <2>1, Apart
             DEF Threat, Can1, Active, Lax, SameSource, Doomed, Life
<1>19. Debts'
  <2> SUFFICES ASSUME NEW u \in Threads PROVE Debt(u)'
    BY DEF Debts
  <2>1. Debt(u)
    BY DEF ReclaimInv, Debts
  <2> QED BY <1>1, Typed, <1>2, <1>3, <1>4, <1>6, <1>7, <1>8, <1>9, <1>10, <1>11, <1>13, <2>1,
             DebtFrame, Apart
             DEF Can1, Free1, Owes, Protected, Life
<1>20. KeepsNeeded'
  <2> SUFFICES ASSUME NEW x \in Convs, conv'[x].live PROVE Provided(x)'
    BY <1>1, <1>13 DEF KeepsNeeded, Provided, Lax, TaskIds
  <2>1. conv[x].live => Provided(x)
    BY DEF ReclaimInv, KeepsNeeded, Provided, Lax
  <2>2. Life(x)
    BY <1>1 DEF Lives
  <2>3. CASE x = c
    BY <1>1, Typed, <1>2, <1>3, <1>4, <1>6, <1>7, <1>8, <1>9, <1>10, <1>11, <1>13, <2>1, <2>2, <2>3,
       Apart
       DEF Life, Active, Can1, Lax, TaskIds, Own, Provided
  <2>4. CASE x # c
    BY <1>1, Typed, <1>2, <1>3, <1>4, <1>6, <1>7, <1>8, <1>9, <1>10, <1>11, <1>13, <2>1, <2>2, <2>4,
       Apart
       DEF Life, Active, Can1, Lax, TaskIds, Own, Provided
  <2> QED BY <2>3, <2>4 DEF Provided
<1>21. KeepsSources'
  <2>1. KeepsSources
    BY DEF ReclaimInv
  <2> QED BY <1>1, Typed, <1>2, <1>3, <1>4, <1>6, <1>7, <1>8, <1>9, <1>10, <1>11, <1>13, <2>1
             DEF KeepsSources, SameSource, Can1, Life
<1>22. DeletedAccounted'
  <2> SUFFICES ASSUME NEW x \in Convs, x \in deleted' PROVE Accounted(x)'
    BY DEF DeletedAccounted, Accounted, Unproved
  <2>1. x \in deleted => Accounted(x)
    BY DEF ReclaimInv, DeletedAccounted, Accounted, Unproved
  <2> QED BY <1>1, Typed, <1>2, <1>3, <1>4, <1>6, <1>7, <1>8, <1>9, <1>10, <1>11, <1>13, <2>1, Apart
             DEF Owes, Protected, Can1, TaskIds, Life, Accounted
<1> QED BY <1>12, <1>14, <1>15, <1>16, <1>17, <1>18, <1>19, <1>20, <1>21, <1>22 DEF ReclaimInv

\* The source lock keeps the shadow repository while a snapshot is taken.
LEMMA collect_source_snapshotKeeps ==
    ASSUME ReclaimInv, NEW c \in Convs, collect_source_snapshot(c) PROVE ReclaimInv'
<1>1. TypeInv /\ Works1 /\ Tasks /\ Lives /\ Downtime
  BY DEF ReclaimInv
<1>2. /\ conv' = conv /\ owned' = owned /\ task' = task /\ deleted' = deleted /\ shadow' = shadow
      /\ sources' = sources /\ exec' = exec /\ disk' = disk \cup {Shadow}
      /\ host.up /\ Active(c) /\ c \notin host.serial /\ SameSource(c)
  BY DEF collect_source_snapshot
<1>3. /\ host'.guard = c /\ host'.up = host.up /\ host'.can = host.can /\ host'.plans = host.plans
      /\ host'.old = host.old /\ host'.inside = host.inside /\ host'.serial = host.serial
      /\ host'.gone = host.gone
  BY <1>1, Typed, <1>2 DEF collect_source_snapshot, TypeInv, Machines
<1>4. host' \in Machines
  BY <1>1, Typed, <1>2, <1>3 DEF collect_source_snapshot, TypeInv, Machines
<1>5. TypeInv'
  BY <1>1, Typed, <1>2, <1>3, <1>4 DEF TypeInv, collect_source_snapshot
<1>6. \A x \in TaskIds : Plan(x)' = Plan(x) /\ Own(x)' = Own(x)
  BY <1>4, Layout DEF collect_source_snapshot
<1>7. Downtime'
  BY <1>1, Typed, <1>2, <1>3, <1>4, <1>6
     DEF Downtime, AtRest, Active, Can1, Lax, SameSource, Resting
<1>8. Lives'
  <2> SUFFICES ASSUME NEW x \in Convs PROVE Life(x)'
    BY DEF Lives
  <2>1. Life(x)
    BY <1>1 DEF Lives
  <2> QED BY <1>1, Typed, <1>2, <1>3, <1>4, <1>6, <2>1, Apart DEF Life, SameSource
<1>9. Tasks'
  <2> SUFFICES ASSUME NEW x \in TaskIds, task'[x].on PROVE TaskOf(x)'
    BY DEF Tasks
  <2>1. task[x].on => TaskOf(x)
    BY <1>1 DEF Tasks
  <2> QED BY <1>1, Typed, <1>2, <1>3, <1>4, <1>6, <2>1 DEF TaskOf, Live, Can1
<1>10. Works1'
  <2> SUFFICES ASSUME NEW u \in Threads PROVE Lists(u)' /\ Tending(u)'
    BY DEF Works1
  <2>1. \A x \in Convs : Beside(u, x)
    BY <1>2 DEF Beside
  <2> QED BY <1>1, <1>2, <1>3, <1>4, <2>1, Bystander, <1>5 DEF Can1
<1>11. Threats'
  <2> SUFFICES ASSUME NEW u \in Threads PROVE Threat(u)'
    BY DEF Threats
  <2>1. Threat(u)
    BY DEF ReclaimInv, Threats
  <2> QED BY <1>1, Typed, <1>2, <1>3, <1>4, <1>6, <2>1, ThreatFrame DEF Can1, Active
<1>12. Debts'
  <2> SUFFICES ASSUME NEW u \in Threads PROVE Debt(u)'
    BY DEF Debts
  <2>1. Debt(u)
    BY DEF ReclaimInv, Debts
  <2> QED BY <1>1, Typed, <1>2, <1>3, <1>4, <1>6, <2>1, DebtFrame, Apart
             DEF Can1, Free1, Owes, Protected
<1>13. KeepsNeeded'
  <2> SUFFICES ASSUME NEW x \in Convs, conv'[x].live PROVE Provided(x)'
    BY <1>1, <1>6 DEF KeepsNeeded, Provided, Lax, TaskIds
  <2>1. conv[x].live => Provided(x)
    BY DEF ReclaimInv, KeepsNeeded, Provided, Lax
  <2>2. Life(x)
    BY <1>1 DEF Lives
  <2> QED BY <1>1, Typed, <1>2, <1>3, <1>4, <1>6, <2>1, <2>2
             DEF Life, Active, Can1, Lax, TaskIds, Provided
<1>14. KeepsSources'
  <2>1. KeepsSources
    BY DEF ReclaimInv
  <2> QED BY <1>1, Typed, <1>2, <1>3, <1>4, <1>6, <2>1 DEF KeepsSources, SameSource, Can1
<1>15. DeletedAccounted'
  <2> SUFFICES ASSUME NEW x \in Convs, x \in deleted' PROVE Accounted(x)'
    BY DEF DeletedAccounted, Accounted, Unproved
  <2>1. x \in deleted => Accounted(x)
    BY DEF ReclaimInv, DeletedAccounted, Accounted, Unproved
  <2> QED BY <1>1, Typed, <1>2, <1>3, <1>4, <1>6, <2>1, Apart
             DEF Owes, Protected, Can1, TaskIds, Accounted
<1> QED BY <1>5, <1>7, <1>8, <1>9, <1>10, <1>11, <1>12, <1>13, <1>14, <1>15 DEF ReclaimInv

\* The snapshot that a Run builds on is in the shadow repository.
LEMMA record_job_sourceKeeps ==
    ASSUME ReclaimInv, NEW c \in Convs, record_job_source(c) PROVE ReclaimInv'
<1>1. TypeInv /\ Works1 /\ Tasks /\ Lives /\ Downtime
  BY DEF ReclaimInv
<1>2. /\ task' = task /\ deleted' = deleted /\ disk' = disk /\ shadow' = shadow
      /\ sources' = sources /\ exec' = exec
      /\ host.up /\ host.guard = c /\ Free1(c)
  BY DEF record_job_source
<1>3. /\ host'.guard = "none" /\ host'.up = host.up /\ host'.can = host.can
      /\ host'.plans = host.plans
      /\ host'.old = host.old /\ host'.inside = host.inside /\ host'.serial = host.serial
      /\ host'.gone = host.gone
  BY <1>1, Typed, <1>2 DEF record_job_source, TypeInv, Machines
<1>4. host' \in Machines
  BY <1>1, Typed, <1>2, <1>3 DEF record_job_source, TypeInv, Machines
<1>5. /\ \A x \in Convs \ {c} : conv'[x] = conv[x]
      /\ \A x \in TaskIds \ {c} : owned'[x] = owned[x]
  BY <1>4 DEF record_job_source, TypeInv
<1>6. owned'[c] = owned[c] \cup {Shadow}
  BY <1>1 DEF record_job_source, TypeInv, TaskIds
<1>7. conv'[c] = [conv[c] EXCEPT !.head = TRUE]
  BY <1>1 DEF record_job_source, TypeInv
<1>8. conv'[c] \in ConvType
  <2>1. TRUE \in BOOLEAN /\ conv[c] \in ConvType
    BY <1>1, Typed
  <2> QED BY <1>7, <2>1 DEF ConvType
<1>9. /\ conv'[c].live = conv[c].live /\ conv'[c].seq = conv[c].seq
      /\ conv'[c].phase = conv[c].phase
      /\ conv'[c].ran = conv[c].ran /\ conv'[c].head /\ conv'[c].keep = conv[c].keep
  BY <1>5, <1>6, <1>8, <1>7 DEF ConvType
<1>10. conv' \in [Convs -> ConvType]
  BY <1>1, Typed, <1>2, <1>3, <1>4, <1>5, <1>6, <1>8, <1>9 DEF record_job_source, TypeInv
<1>11. owned' \in [TaskIds -> SUBSET Dirs]
  <2>1. Shadow \in Dirs
    BY DEF Dirs
  <2>2. \A x \in TaskIds : owned'[x] \subseteq Dirs
    BY <1>1, Typed, <1>2, <1>3, <1>4, <1>5, <1>6, <1>8, <1>9, <1>10, <2>1
  <2>3. owned' = [x \in TaskIds |-> owned'[x]]
    BY <1>1 DEF record_job_source, TypeInv
  <2> QED BY <2>2, <2>3
<1>12. /\ Active(c) /\ SameSource(c) /\ c \notin host.serial /\ (Shadow \in disk \/ Lax)
  BY <1>1, Typed, <1>2, <1>3, <1>4, <1>5, <1>6, <1>8, <1>9, <1>10, <1>11, NamesAssumption
     DEF Downtime
<1>13. Life(c) /\ c \in TaskIds
  BY <1>1 DEF Lives, TaskIds
<1>14. TypeInv'
  BY <1>1, Typed, <1>2, <1>3, <1>4, <1>5, <1>6, <1>8, <1>9, <1>10, <1>11, <1>12, <1>13
     DEF TypeInv, record_job_source
<1>15. \A x \in TaskIds : Plan(x)' = Plan(x) /\ Own(x)' = Own(x)
  BY <1>9, <1>10, <1>11, <1>12, <1>13, Layout DEF record_job_source
<1>16. Downtime'
  BY <1>1, Typed, <1>2, <1>3, <1>11, <1>12, <1>13, <1>15 DEF Downtime, AtRest
<1>17. Lives'
  <2> SUFFICES ASSUME NEW x \in Convs PROVE Life(x)'
    BY DEF Lives
  <2>1. Life(x)
    BY <1>1 DEF Lives
  <2>2. CASE x = c
    <3>1. /\ c \in deleted' => ~conv'[c].live
          /\ conv'[c].phase = "running" => conv'[c].live
          /\ conv'[c].live => conv'[c].seq # 0
      BY <1>2, <1>3, <1>9, <1>10, <1>11, <1>12, <1>13, <1>15, <2>1, <2>2, Apart
         DEF Life, SameSource, TaskIds
    <3>2. conv'[c].live \/ owned'[c] # {} => c \in sources' \/ SameSource(c)'
      BY <1>2, <1>3, <1>11, <1>12, Apart DEF Life, SameSource, TaskIds
    <3>3. owned'[c] \subseteq Own(c)' /\ (Part \in owned'[c] => c \in host'.old)
      BY <1>1, Typed, <1>2, <1>3, <1>4, <1>5, <1>6, <1>8, <1>9, <1>10, <1>11, <1>12, <1>13, <1>15,
         <2>1, <2>2, Apart
         DEF Life, SameSource, TaskIds, Active, Own
    <3>4. /\ conv'[c].phase = "completed" => ~conv'[c].keep
          /\ conv'[c].head => SameSource(c)' /\ c \notin host'.serial
          /\ Sess(c) \in disk' => conv'[c].ran
      BY <1>2, <1>3, <1>9, <1>10, <1>11, <1>12, <1>13, <1>15, <2>1, <2>2, Apart
         DEF Life, SameSource, TaskIds
    <3>5. ~conv'[c].live /\ c \notin deleted' =>
            /\ c \notin host'.old /\ Work(c) \notin disk' /\ Sess(c) \notin disk'
            /\ ~conv'[c].ran /\ ~conv'[c].keep /\ c \notin shadow'.made
            /\ owned'[c] # {} => Plan(c)' \in disk'
      BY <1>1, Typed, <1>2, <1>3, <1>4, <1>5, <1>6, <1>8, <1>9, <1>10, <1>11, <1>12, <1>13, <1>15,
         <2>1, <2>2, Apart
         DEF Life, SameSource, TaskIds, Active, Own
    <3> QED BY <2>2, <3>1, <3>2, <3>3, <3>4, <3>5 DEF Life
  <2>3. CASE x # c
    BY <1>2, <1>3, <1>4, <1>5, <1>6, <1>8, <1>13, <1>15, <2>1, <2>3, Apart
       DEF Life, SameSource, TaskIds
  <2> QED BY <2>2, <2>3
<1>18. Tasks'
  <2> SUFFICES ASSUME NEW x \in TaskIds, task'[x].on PROVE TaskOf(x)'
    BY DEF Tasks
  <2>1. task[x].on => TaskOf(x)
    BY <1>1 DEF Tasks
  <2>2. CASE x = c
    <3>1. task[c].on => task[c].seq \in Nat /\ TaskOf(c)
      BY <1>1, Typed, <2>1, <2>2
    <3> QED BY <1>1, <1>2, <1>3, <1>4, <1>5, <1>6, <1>8, <1>9, <1>10, <1>11, <1>12, <1>13, <1>15,
               <2>2, <3>1
               DEF TaskOf, Live, Can1
  <2>3. CASE x # c
    BY <1>1, Typed, <1>2, <1>3, <1>4, <1>5, <1>6, <1>8, <1>9, <1>10, <1>11, <1>12, <1>13, <1>15,
       <2>1, <2>3
       DEF TaskOf, Live, Can1
  <2> QED BY <2>2, <2>3
<1>19. Works1'
  <2> SUFFICES ASSUME NEW u \in Threads PROVE Lists(u)' /\ Tending(u)'
    BY DEF Works1
  <2>1. Beside(u, c) /\ \A x \in Convs \ {c} : Beside(u, x)
    BY <1>1, Typed, <1>2, <1>3, <1>4, <1>5, <1>6, <1>8, <1>9, <1>10, <1>11, <1>12, <1>13, <1>15
       DEF Beside, Can1, Free1
  <2> QED BY <1>1, <1>2, <1>3, <1>4, <2>1, Bystander, <1>14 DEF Can1
<1>20. Threats'
  <2> SUFFICES ASSUME NEW u \in Threads PROVE Threat(u)'
    BY DEF Threats
  <2>1. Threat(u)
    BY DEF ReclaimInv, Threats
  <2> QED BY <1>1, Typed, <1>2, <1>3, <1>4, <1>5, <1>6, <1>8, <1>9, <1>10, <1>11, <1>12, <1>13,
             <1>15, <2>1, ThreatFrame, Apart
             DEF Can1, Active
<1>21. Debts'
  <2> SUFFICES ASSUME NEW u \in Threads PROVE Debt(u)'
    BY DEF Debts
  <2>1. Debt(u)
    BY DEF ReclaimInv, Debts
  <2> QED BY <1>1, Typed, <1>2, <1>3, <1>4, <1>5, <1>6, <1>8, <1>9, <1>10, <1>11, <1>12, <1>13,
             <1>15, <2>1, DebtFrame
             DEF Can1, Free1, Owes, Protected
<1>22. KeepsNeeded'
  <2> SUFFICES ASSUME NEW x \in Convs, conv'[x].live PROVE Provided(x)'
    BY <1>1, <1>15 DEF KeepsNeeded, Provided, Lax, TaskIds
  <2>1. conv[x].live => Provided(x)
    BY DEF ReclaimInv, KeepsNeeded, Provided, Lax
  <2>2. Life(x)
    BY <1>1 DEF Lives
  <2>3. CASE x = c
    BY <1>1, Typed, <1>2, <1>3, <1>4, <1>5, <1>6, <1>8, <1>9, <1>10, <1>11, <1>12, <1>13, <1>15,
       <2>1, <2>2, <2>3, Apart
       DEF Life, Active, Can1, Lax, TaskIds, Provided
  <2>4. CASE x # c
    BY <1>1, Typed, <1>2, <1>3, <1>4, <1>5, <1>6, <1>8, <1>9, <1>10, <1>11, <1>12, <1>13, <1>15,
       <2>1, <2>2, <2>4, Apart
       DEF Life, Active, Can1, Lax, TaskIds, Provided
  <2> QED BY <2>3, <2>4 DEF Provided
<1>23. KeepsSources'
  <2>1. KeepsSources
    BY DEF ReclaimInv
  <2> QED BY <1>1, Typed, <1>2, <1>3, <1>4, <1>5, <1>6, <1>8, <1>9, <1>10, <1>11, <1>12, <1>13,
             <1>15, <2>1
             DEF KeepsSources, SameSource, Can1
<1>24. DeletedAccounted'
  <2> SUFFICES ASSUME NEW x \in Convs, x \in deleted' PROVE Accounted(x)'
    BY DEF DeletedAccounted, Accounted, Unproved
  <2>1. x \in deleted => Accounted(x)
    BY DEF ReclaimInv, DeletedAccounted, Accounted, Unproved
  <2> QED BY <1>2, <1>3, <2>1 DEF Owes, Protected, Can1, TaskIds, Accounted
<1> QED BY <1>14, <1>16, <1>17, <1>18, <1>19, <1>20, <1>21, <1>22, <1>23, <1>24 DEF ReclaimInv

\* A Run that fails keeps its directories.
LEMMA Fail1Keeps ==
    ASSUME ReclaimInv, NEW c \in Convs, Fail1(c) PROVE ReclaimInv'
<1>1. TypeInv /\ Works1 /\ Tasks /\ Lives /\ Downtime
  BY DEF ReclaimInv
<1>2. /\ host' = host /\ owned' = owned /\ task' = task /\ deleted' = deleted /\ shadow' = shadow
      /\ exec' = exec
      /\ sources' = sources /\ disk' = disk
      /\ host.up /\ Active(c) /\ Free1(c) /\ host.guard # c
  BY DEF Fail1
<1>3. \A x \in Convs \ {c} : conv'[x] = conv[x]
  BY <1>1, Typed, <1>2 DEF Fail1, TypeInv
<1>4. conv'[c] = [conv[c] EXCEPT !.phase = "idle", !.seq = @ + 1]
  BY <1>1, Typed, <1>2, <1>3 DEF Fail1, TypeInv
<1>5. conv'[c] \in ConvType
  <2>1. /\ conv[c].seq + 1 \in Nat /\ "idle" \in {"idle", "running", "completed"}
        /\ conv[c] \in ConvType
    BY <1>1, Typed
  <2> QED BY <1>4, <2>1 DEF ConvType
<1>6. /\ conv'[c].live = conv[c].live /\ conv'[c].seq = conv[c].seq + 1 /\ conv'[c].phase = "idle"
      /\ conv'[c].ran = conv[c].ran /\ conv'[c].head = conv[c].head /\ conv'[c].keep = conv[c].keep
  BY <1>5, <1>4 DEF ConvType
<1>7. conv' \in [Convs -> ConvType]
  BY <1>1, <1>5 DEF Fail1, TypeInv
<1>8. Life(c) /\ c \in TaskIds /\ conv[c].live
  BY <1>1, Typed, <1>2, <1>3, <1>5, <1>6, <1>7 DEF Lives, TaskIds, Active, Life
<1>9. TypeInv'
  BY <1>1, Typed, <1>2, <1>3, <1>5, <1>6, <1>7, <1>8 DEF TypeInv, Fail1
<1>10. \A x \in TaskIds : Plan(x)' = Plan(x) /\ Own(x)' = Own(x)
  BY <1>6, <1>7, <1>8, Layout DEF Fail1
<1>11. Downtime'
  BY <1>1, Typed, <1>2, <1>3, <1>5, <1>6 DEF Downtime, AtRest, Active, Can1, Lax, SameSource
<1>12. Lives'
  <2> SUFFICES ASSUME NEW x \in Convs PROVE Life(x)'
    BY DEF Lives
  <2>1. Life(x)
    BY <1>1 DEF Lives
  <2>2. CASE x = c
    <3>1. /\ c \in deleted' => ~conv'[c].live
          /\ conv'[c].phase = "running" => conv'[c].live
          /\ conv'[c].live => conv'[c].seq # 0
      BY <1>1, Typed, <1>2, <1>3, <1>5, <1>6, <1>7, <1>8, <1>10, <2>1, <2>2
         DEF Life, SameSource, TaskIds, Active
    <3>2. conv'[c].live \/ owned'[c] # {} => c \in sources' \/ SameSource(c)'
      BY <1>2, <2>1, <2>2 DEF Life, SameSource, TaskIds, Active
    <3>3. owned'[c] \subseteq Own(c)' /\ (Part \in owned'[c] => c \in host'.old)
      BY <1>2, <1>7, <1>8, <1>10, <2>1, <2>2 DEF Life
    <3>4. /\ conv'[c].phase = "completed" => ~conv'[c].keep
          /\ conv'[c].head => SameSource(c)' /\ c \notin host'.serial
          /\ Sess(c) \in disk' => conv'[c].ran
      BY <1>2, <1>6, <2>1, <2>2 DEF Life, SameSource, TaskIds, Active
    <3>5. ~conv'[c].live /\ c \notin deleted' =>
            /\ c \notin host'.old /\ Work(c) \notin disk' /\ Sess(c) \notin disk'
            /\ ~conv'[c].ran /\ ~conv'[c].keep /\ c \notin shadow'.made
            /\ owned'[c] # {} => Plan(c)' \in disk'
      BY <1>6, <1>7, <1>8
    <3> QED BY <2>2, <3>1, <3>2, <3>3, <3>4, <3>5 DEF Life
  <2>3. CASE x # c
    BY <1>1, Typed, <1>2, <1>3, <1>5, <1>6, <1>7, <1>8, <1>10, <2>1, <2>3
       DEF Life, SameSource, TaskIds
  <2> QED BY <2>2, <2>3
<1>13. Tasks'
  <2> SUFFICES ASSUME NEW x \in TaskIds, task'[x].on PROVE TaskOf(x)'
    BY DEF Tasks
  <2>1. task[x].on => TaskOf(x)
    BY <1>1 DEF Tasks
  <2>2. CASE x = c
    <3>1. task[c].on => task[c].seq \in Nat /\ TaskOf(c)
      BY <1>1, Typed, <2>1, <2>2
    <3>2. task[c].on => task[c].seq <= conv'[c].seq /\ task[c].seq # conv'[c].seq
      BY <1>1, Typed, <1>2, <1>3, <1>5, <1>6, <1>7, <1>8, <1>10, <3>1 DEF TaskOf, Live, Active
    <3> QED BY <1>1, <1>2, <1>3, <1>5, <1>6, <1>7, <1>8, <1>10, <2>2, <3>1, <3>2 DEF TaskOf, Live
  <2>3. CASE x # c
    BY <1>1, Typed, <1>2, <1>3, <1>5, <1>6, <1>7, <1>8, <1>10, <2>1, <2>3 DEF TaskOf, Live, Can1
  <2> QED BY <2>2, <2>3
<1>14. Works1'
  <2> SUFFICES ASSUME NEW u \in Threads PROVE Lists(u)' /\ Tending(u)'
    BY DEF Works1
  <2>1. Beside(u, c) /\ \A x \in Convs \ {c} : Beside(u, x)
    BY <1>1, Typed, <1>2, <1>3, <1>5, <1>6, <1>7, <1>8, <1>10 DEF Beside, Can1, Free1
  <2> QED BY <1>1, <1>2, <2>1, Bystander, <1>9 DEF Can1
<1>15. Threats'
  <2> SUFFICES ASSUME NEW u \in Threads PROVE Threat(u)'
    BY DEF Threats
  <2>1. Threat(u)
    BY DEF ReclaimInv, Threats
  <2> QED BY <1>1, Typed, <1>2, <1>3, <1>5, <1>6, <1>7, <1>8, <1>10, <2>1, ThreatFrame
             DEF Can1, Active
<1>16. Debts'
  <2> SUFFICES ASSUME NEW u \in Threads PROVE Debt(u)'
    BY DEF Debts
  <2>1. Debt(u)
    BY DEF ReclaimInv, Debts
  <2> QED BY <1>1, Typed, <1>2, <1>3, <1>5, <1>6, <1>7, <1>8, <1>10, <2>1, DebtFrame
             DEF Can1, Free1, Owes, Protected
<1>17. KeepsNeeded'
  <2> SUFFICES ASSUME NEW x \in Convs, conv'[x].live PROVE Provided(x)'
    BY <1>1, <1>10 DEF KeepsNeeded, Provided, Lax, TaskIds
  <2>1. conv[x].live => Provided(x)
    BY DEF ReclaimInv, KeepsNeeded, Provided, Lax
  <2>2. Life(x)
    BY <1>1 DEF Lives
  <2>3. CASE x = c
    BY <1>1, Typed, <1>2, <1>3, <1>5, <1>6, <1>7, <1>8, <1>10, <2>1, <2>2, <2>3
       DEF Life, Active, Can1, Lax, TaskIds, Provided
  <2>4. CASE x # c
    BY <1>1, Typed, <1>2, <1>3, <1>5, <1>6, <1>7, <1>8, <1>10, <2>1, <2>2, <2>4
       DEF Life, Active, Can1, Lax, TaskIds, Provided
  <2> QED BY <2>3, <2>4 DEF Provided
<1>18. KeepsSources'
  <2>1. KeepsSources
    BY DEF ReclaimInv
  <2> QED BY <1>1, Typed, <1>2, <1>3, <1>5, <1>6, <1>7, <1>8, <1>10, <2>1
             DEF KeepsSources, SameSource, Can1
<1>19. DeletedAccounted'
  <2> SUFFICES ASSUME NEW x \in Convs, x \in deleted' PROVE Accounted(x)'
    BY DEF DeletedAccounted, Accounted, Unproved
  <2>1. x \in deleted => Accounted(x)
    BY DEF ReclaimInv, DeletedAccounted, Accounted, Unproved
  <2> QED BY <1>2, <2>1 DEF Owes, Protected, Can1, TaskIds, Accounted
<1> QED BY <1>9, <1>11, <1>12, <1>13, <1>14, <1>15, <1>16, <1>17, <1>18, <1>19 DEF ReclaimInv

\* A delivered Run needs its workspaces no more.
LEMMA CompleteKeeps ==
    ASSUME ReclaimInv, NEW c \in Convs, Complete(c) PROVE ReclaimInv'
<1>1. TypeInv /\ Works1 /\ Tasks /\ Lives /\ Downtime
  BY DEF ReclaimInv
<1>2. /\ host' = host /\ owned' = owned /\ task' = task /\ deleted' = deleted
      /\ sources' = sources /\ disk' = disk
      /\ host.up /\ Active(c) /\ Free1(c) /\ host.guard # c /\ exec["api"].pc = "rest"
      /\ conv[c].head \/ c \in host.serial \/ ~SameSource(c)
  BY DEF Complete
<1>3. /\ \A x \in Convs \ {c} : conv'[x] = conv[x]
      /\ \A u \in Threads \ {"api"} : exec'[u] = exec[u]
      /\ shadow'.made \subseteq shadow.made \cup {c} /\ shadow.pins \subseteq shadow'.pins
      /\ c \in shadow'.made => c \in shadow.made \/ c \in shadow'.pins
  <2>1. shadow' = shadow \/ shadow' = [k \in DOMAIN shadow |-> shadow[k] \cup {c}]
    BY DEF Complete
  <2>2. DOMAIN shadow = {"refs", "pins", "made"}
    BY <1>1 DEF TypeInv, ShadowType
  <2> QED BY <1>1, <2>1, <2>2 DEF Complete, TypeInv
<1>4. /\ conv'[c] = [conv[c] EXCEPT !.phase = "completed", !.seq = @ + 1, !.keep = FALSE]
      /\ exec'["api"] = [Resting EXCEPT !.pc = "queue", !.run = c, !.locks = {c},
           !.left = {<<"reclaim", TRUE>>}]
  BY <1>1, Typed, <1>2, <1>3 DEF Complete, TypeInv
<1>5. conv'[c] \in ConvType
  <2>1. /\ conv[c].seq + 1 \in Nat /\ "completed" \in {"idle", "running", "completed"}
        /\ conv[c] \in ConvType /\ FALSE \in BOOLEAN
    BY <1>1, Typed
  <2> QED BY <1>4, <2>1 DEF ConvType
<1>6. /\ conv'[c].live = conv[c].live /\ conv'[c].seq = conv[c].seq + 1
      /\ conv'[c].phase = "completed"
      /\ conv'[c].ran = conv[c].ran /\ conv'[c].head = conv[c].head /\ ~conv'[c].keep
  BY <1>5, <1>4 DEF ConvType
<1>7. /\ exec'["api"].pc = "queue" /\ exec'["api"].run = c /\ exec'["api"].locks = {c}
      /\ exec'["api"].left = {<<"reclaim", TRUE>>} /\ exec'["api"].paths = {}
  BY <1>5, <1>6, <1>4 DEF Resting
<1>8. conv' \in [Convs -> ConvType]
  BY <1>1, <1>5 DEF Complete, TypeInv
<1>9. exec' \in [Threads -> ExecType]
  <2>1. Resting \in ExecType /\ Threads = {"api", "retry"}
    BY Marks
  <2>2. "queue" \in Pcs /\ c \in TaskIds /\ {c} \in SUBSET (Convs \cup {"primary"})
    BY DEF Pcs, TaskIds
  <2>5. {<<"reclaim", TRUE>>} \in SUBSET ((TaskIds \cup {"reclaim"}) \X BOOLEAN)
    BY Marks
  <2>3. exec'["api"] \in ExecType
    BY <1>4, <2>1, <2>2, <2>5 DEF ExecType
  <2>4. exec' = [u \in Threads |-> exec'[u]]
    BY <1>1 DEF Complete, TypeInv
  <2> QED BY <1>1, <1>3, <2>1, <2>3, <2>4, Typed
<1>10. shadow' \in ShadowType
  BY <1>1, Typed, <1>2, <1>3, <1>5, <1>6, <1>7, <1>8, <1>9 DEF Complete, TypeInv, ShadowType
<1>11. Life(c) /\ c \in TaskIds /\ conv[c].live
  BY <1>1, Typed, <1>2, <1>3, <1>5, <1>6, <1>7, <1>8, <1>9, <1>10 DEF Lives, TaskIds, Active, Life
<1>12. TypeInv'
  BY <1>1, Typed, <1>2, <1>3, <1>5, <1>6, <1>7, <1>8, <1>9, <1>10, <1>11 DEF TypeInv, Complete
<1>13. \A x \in TaskIds : Plan(x)' = Plan(x) /\ Own(x)' = Own(x)
  BY <1>8, <1>9, <1>10, <1>11, Layout DEF Complete
<1>14. Downtime'
  BY <1>1, Typed, <1>2, <1>3, <1>5, <1>6, <1>7, <1>8, <1>9, <1>10, <1>11, <1>13
     DEF Downtime, AtRest, Active, Can1, Lax, SameSource, Resting
<1>15. Lives'
  <2> SUFFICES ASSUME NEW x \in Convs PROVE Life(x)'
    BY DEF Lives
  <2>1. Life(x)
    BY <1>1 DEF Lives
  <2>2. CASE x = c
    <3>1. /\ c \in deleted' => ~conv'[c].live
          /\ conv'[c].phase = "running" => conv'[c].live
          /\ conv'[c].live => conv'[c].seq # 0
      BY <1>1, Typed, <1>2, <1>6, <2>1, <2>2 DEF Life
    <3>2. conv'[c].live \/ owned'[c] # {} => c \in sources' \/ SameSource(c)'
      BY <1>1, Typed, <1>2, <1>3, <1>5, <1>6, <1>7, <1>8, <1>9, <1>10, <1>11, <1>13, <2>1, <2>2
         DEF Life, SameSource, TaskIds, Active
    <3>3. owned'[c] \subseteq Own(c)' /\ (Part \in owned'[c] => c \in host'.old)
      BY <1>2, <1>10, <1>11, <1>13, <2>1, <2>2 DEF Life
    <3>4. /\ conv'[c].phase = "completed" => ~conv'[c].keep
          /\ conv'[c].head => SameSource(c)' /\ c \notin host'.serial
          /\ Sess(c) \in disk' => conv'[c].ran
      BY <1>1, Typed, <1>2, <1>3, <1>5, <1>6, <1>7, <1>8, <1>9, <1>10, <1>11, <1>13, <2>1, <2>2
         DEF Life, SameSource, TaskIds, Active
    <3>5. ~conv'[c].live /\ c \notin deleted' =>
            /\ c \notin host'.old /\ Work(c) \notin disk' /\ Sess(c) \notin disk'
            /\ ~conv'[c].ran /\ ~conv'[c].keep /\ c \notin shadow'.made
            /\ owned'[c] # {} => Plan(c)' \in disk'
      BY <1>6, <1>10, <1>11, <1>13
    <3> QED BY <2>2, <3>1, <3>2, <3>3, <3>4, <3>5 DEF Life
  <2>3. CASE x # c
    BY <1>1, Typed, <1>2, <1>3, <1>5, <1>6, <1>7, <1>8, <1>9, <1>10, <1>11, <1>13, <2>1, <2>3
       DEF Life, SameSource, TaskIds
  <2> QED BY <2>2, <2>3
<1>16. Tasks'
  <2> SUFFICES ASSUME NEW x \in TaskIds, task'[x].on PROVE TaskOf(x)'
    BY DEF Tasks
  <2>1. task[x].on => TaskOf(x)
    BY <1>1 DEF Tasks
  <2>2. CASE x = c
    <3>1. task[c].on => task[c].seq \in Nat /\ TaskOf(c)
      BY <1>1, Typed, <2>1, <2>2
    <3>2. task[c].on => task[c].seq <= conv'[c].seq /\ task[c].seq # conv'[c].seq
      BY <1>1, Typed, <1>6, <1>10, <1>11, <1>13, <3>1 DEF TaskOf, Live
    <3> QED BY <1>1, <1>2, <1>3, <1>5, <1>6, <1>7, <1>8, <1>9, <1>10, <1>11, <1>13, <2>2, <3>1, <3>2
               DEF TaskOf, Live
  <2>3. CASE x # c
    BY <1>1, Typed, <1>2, <1>3, <1>5, <1>6, <1>7, <1>8, <1>9, <1>10, <1>11, <1>13, <2>1, <2>3
       DEF TaskOf, Live, Can1
  <2> QED BY <2>2, <2>3
<1>17. Works1'
  <2> SUFFICES ASSUME NEW u \in Threads PROVE Lists(u)' /\ Tending(u)'
    BY DEF Works1
  <2>1. CASE u # "api"
    <3>1. Beside(u, c) /\ \A x \in Convs \ {c} : Beside(u, x)
      BY <1>1, Typed, <1>2, <1>3, <1>5, <1>6, <1>7, <1>8, <1>9, <1>10, <1>11, <1>13, <2>1
         DEF Beside, Can1, Free1
    <3> QED BY <1>1, <1>2, <1>3, <2>1, <3>1, Bystander, <1>12 DEF Can1
  <2>2. CASE u = "api"
    <3>1. Lists("api") /\ Tending("api")
      BY <1>1, Typed DEF Works1
    <3>2. Lists("api")'
      BY <1>1, Typed, <1>2, <1>3, <1>5, <1>6, <1>7, <1>8, <1>9, <1>10, <1>11, <1>13, <3>1
         DEF Lists, Live, AtRest, Active, Locked, Can1
    <3>3. Tending("api")'
      BY <1>7, <1>8, <3>1 DEF Tending, Live
    <3> QED BY <2>2, <3>2, <3>3
  <2> QED BY <2>1, <2>2
<1>18. Threats'
  <2> SUFFICES ASSUME NEW u \in Threads PROVE Threat(u)'
    BY DEF Threats
  <2>1. Threat(u)
    BY DEF ReclaimInv, Threats
  <2> QED BY <1>1, Typed, <1>2, <1>3, <1>5, <1>6, <1>7, <1>8, <1>9, <1>10, <1>11, <1>13, <2>1,
             ThreatFrame
             DEF Can1, Active
<1>19. Debts'
  <2> SUFFICES ASSUME NEW u \in Threads PROVE Debt(u)'
    BY DEF Debts
  <2>1. Debt(u)
    BY DEF ReclaimInv, Debts
  <2>2. CASE u # "api"
    BY <1>1, Typed, <1>2, <1>3, <1>5, <1>6, <1>7, <1>8, <1>9, <1>10, <1>11, <1>13, <2>1, <2>2,
       DebtFrame
       DEF Can1, Free1, Owes, Protected
  <2>3. CASE u = "api"
    BY <1>7, <1>8, <2>1, <2>3 DEF Debt, Excused
  <2> QED BY <2>2, <2>3
<1>20. KeepsNeeded'
  <2> SUFFICES ASSUME NEW x \in Convs, conv'[x].live PROVE Provided(x)'
    BY <1>1, <1>13 DEF KeepsNeeded, Provided, Lax, TaskIds
  <2>1. conv[x].live => Provided(x)
    BY DEF ReclaimInv, KeepsNeeded, Provided, Lax
  <2>2. Life(x)
    BY <1>1 DEF Lives
  <2>3. CASE x = c
    BY <1>1, Typed, <1>2, <1>3, <1>5, <1>6, <1>7, <1>8, <1>9, <1>10, <1>11, <1>13, <2>1, <2>2, <2>3
       DEF Life, Active, Can1, Lax, TaskIds, Provided
  <2>4. CASE x # c
    BY <1>1, Typed, <1>2, <1>3, <1>5, <1>6, <1>7, <1>8, <1>9, <1>10, <1>11, <1>13, <2>1, <2>2, <2>4
       DEF Life, Active, Can1, Lax, TaskIds, Provided
  <2> QED BY <2>3, <2>4 DEF Provided
<1>21. KeepsSources'
  <2>1. KeepsSources
    BY DEF ReclaimInv
  <2> QED BY <1>1, Typed, <1>2, <1>3, <1>5, <1>6, <1>7, <1>8, <1>9, <1>10, <1>11, <1>13, <2>1
             DEF KeepsSources, SameSource, Can1
<1>22. DeletedAccounted'
  <2> SUFFICES ASSUME NEW x \in Convs, x \in deleted' PROVE Accounted(x)'
    BY DEF DeletedAccounted, Accounted, Unproved
  <2>1. x \in deleted => Accounted(x)
    BY DEF ReclaimInv, DeletedAccounted, Accounted, Unproved
  <2> QED BY <1>1, Typed, <1>2, <1>3, <1>5, <1>6, <1>7, <1>8, <1>9, <1>10, <1>11, <1>13, <2>1
             DEF Owes, Protected, Can1, TaskIds, Accounted
<1> QED BY <1>12, <1>14, <1>15, <1>16, <1>17, <1>18, <1>19, <1>20, <1>21, <1>22 DEF ReclaimInv

\* Given up by the user, the workspaces are nobody's need.
LEMMA reset_workspaceKeeps ==
    ASSUME ReclaimInv, NEW c \in Convs, reset_workspace(c) PROVE ReclaimInv'
<1>1. TypeInv /\ Works1 /\ Tasks /\ Lives /\ Downtime
  BY DEF ReclaimInv
<1>2. /\ owned' = owned /\ task' = task /\ deleted' = deleted /\ sources' = sources /\ disk' = disk
      /\ shadow' = shadow /\ host.up /\ conv[c].live /\ ~Active(c) /\ Free1(c)
      /\ exec["api"].pc = "rest"
  BY DEF reset_workspace
<1>3. /\ host'.guard = host.guard /\ host'.up = host.up /\ host'.can = host.can \ {"reset"}
      /\ host'.plans = host.plans /\ host'.old = host.old /\ host'.inside = host.inside
      /\ host'.serial = host.serial /\ host'.gone = host.gone
  BY <1>1, Typed, <1>2 DEF reset_workspace, TypeInv, Machines
<1>4. host' \in Machines
  BY <1>1, Typed, <1>2, <1>3 DEF reset_workspace, TypeInv, Machines
<1>5. /\ \A x \in Convs \ {c} : conv'[x] = conv[x]
      /\ \A u \in Threads \ {"api"} : exec'[u] = exec[u]
  BY <1>4 DEF reset_workspace, TypeInv
<1>6. /\ conv'[c] = [conv[c] EXCEPT !.keep = FALSE]
      /\ exec'["api"] = [Resting EXCEPT !.pc = "queue", !.run = c, !.locks = {c}]
  BY <1>1, Typed DEF reset_workspace, TypeInv
<1>7. conv'[c] \in ConvType
  <2>1. conv[c] \in ConvType /\ FALSE \in BOOLEAN
    BY <1>1, Typed
  <2> QED BY <1>6, <2>1 DEF ConvType
<1>8. /\ conv'[c].live = conv[c].live /\ conv'[c].seq = conv[c].seq
      /\ conv'[c].phase = conv[c].phase
      /\ conv'[c].ran = conv[c].ran /\ conv'[c].head = conv[c].head /\ ~conv'[c].keep
  BY <1>5, <1>7, <1>6 DEF ConvType
<1>9. /\ exec'["api"].pc = "queue" /\ exec'["api"].run = c /\ exec'["api"].locks = {c}
      /\ exec'["api"].left = {} /\ exec'["api"].paths = {}
  BY <1>5, <1>7, <1>8, <1>6 DEF Resting
<1>10. conv' \in [Convs -> ConvType]
  BY <1>1, Typed, <1>2, <1>3, <1>4, <1>5, <1>7, <1>8, <1>9 DEF reset_workspace, TypeInv
<1>11. exec' \in [Threads -> ExecType]
  <2>1. Resting \in ExecType /\ Threads = {"api", "retry"}
    BY Marks
  <2>2. "queue" \in Pcs /\ c \in TaskIds /\ {c} \in SUBSET (Convs \cup {"primary"})
    BY DEF Pcs, TaskIds
  <2>3. exec'["api"] \in ExecType
    BY <1>6, <2>1, <2>2 DEF ExecType
  <2>4. exec' = [u \in Threads |-> exec'[u]]
    BY <1>1 DEF reset_workspace, TypeInv
  <2> QED BY <1>1, <1>5, <2>1, <2>3, <2>4, Typed
<1>12. Life(c) /\ c \in TaskIds
  BY <1>1, Typed, <1>2, <1>3, <1>4, <1>5, <1>7, <1>8, <1>9, <1>10, <1>11
     DEF Lives, TaskIds, Active, Life
<1>13. TypeInv'
  BY <1>1, Typed, <1>2, <1>3, <1>4, <1>5, <1>7, <1>8, <1>9, <1>10, <1>11, <1>12
     DEF TypeInv, reset_workspace
<1>14. \A x \in TaskIds : Plan(x)' = Plan(x) /\ Own(x)' = Own(x)
  BY <1>8, <1>9, <1>10, <1>11, <1>12, Layout DEF reset_workspace
<1>15. Downtime'
  BY <1>1, Typed, <1>2, <1>3, <1>4, <1>5, <1>7, <1>8, <1>9, <1>10, <1>11, <1>12, <1>14
     DEF Downtime, AtRest, Active, Can1, Lax, SameSource, Resting
<1>16. Lives'
  <2> SUFFICES ASSUME NEW x \in Convs PROVE Life(x)'
    BY DEF Lives
  <2>1. Life(x)
    BY <1>1 DEF Lives
  <2>2. CASE x = c
    <3>1. /\ c \in deleted' => ~conv'[c].live
          /\ conv'[c].phase = "running" => conv'[c].live
          /\ conv'[c].live => conv'[c].seq # 0
      BY <1>1, Typed, <1>2, <1>3, <1>4, <1>5, <1>7, <1>8, <1>9, <1>10, <1>11, <1>12, <1>14, <2>1,
         <2>2
         DEF Life, SameSource, TaskIds, Active
    <3>2. conv'[c].live \/ owned'[c] # {} => c \in sources' \/ SameSource(c)'
      BY <1>1, Typed, <1>2, <1>3, <1>4, <1>5, <1>7, <1>8, <1>9, <1>10, <1>11, <1>12, <1>14, <2>1,
         <2>2
         DEF Life, SameSource, TaskIds, Active
    <3>3. owned'[c] \subseteq Own(c)' /\ (Part \in owned'[c] => c \in host'.old)
      BY <1>1, Typed, <1>2, <1>3, <1>4, <1>5, <1>7, <1>8, <1>9, <1>10, <1>11, <1>12, <1>14, <2>1,
         <2>2
         DEF Life, SameSource, TaskIds, Active
    <3>4. /\ conv'[c].phase = "completed" => ~conv'[c].keep
          /\ conv'[c].head => SameSource(c)' /\ c \notin host'.serial
          /\ Sess(c) \in disk' => conv'[c].ran
      BY <1>1, Typed, <1>2, <1>3, <1>4, <1>5, <1>7, <1>8, <1>9, <1>10, <1>11, <1>12, <1>14, <2>1,
         <2>2
         DEF Life, SameSource, TaskIds, Active
    <3>5. ~conv'[c].live /\ c \notin deleted' =>
            /\ c \notin host'.old /\ Work(c) \notin disk' /\ Sess(c) \notin disk'
            /\ ~conv'[c].ran /\ ~conv'[c].keep /\ c \notin shadow'.made
            /\ owned'[c] # {} => Plan(c)' \in disk'
      BY <1>2, <1>7, <1>8, <1>9
    <3> QED BY <2>2, <3>1, <3>2, <3>3, <3>4, <3>5 DEF Life
  <2>3. CASE x # c
    BY <1>1, Typed, <1>2, <1>3, <1>4, <1>5, <1>7, <1>8, <1>9, <1>10, <1>11, <1>12, <1>14, <2>1, <2>3
       DEF Life, SameSource, TaskIds
  <2> QED BY <2>2, <2>3
<1>17. Tasks'
  <2> SUFFICES ASSUME NEW x \in TaskIds, task'[x].on PROVE TaskOf(x)'
    BY DEF Tasks
  <2>1. task[x].on => TaskOf(x)
    BY <1>1 DEF Tasks
  <2>2. CASE x = c
    <3>1. task[c].on => task[c].seq \in Nat /\ TaskOf(c)
      BY <1>1, Typed, <2>1, <2>2
    <3> QED BY <1>1, <1>2, <1>3, <1>4, <1>5, <1>7, <1>8, <1>9, <1>10, <1>11, <1>12, <1>14, <2>2,
               <3>1
               DEF TaskOf, Live, Can1
  <2>3. CASE x # c
    BY <1>1, Typed, <1>2, <1>3, <1>4, <1>5, <1>7, <1>8, <1>9, <1>10, <1>11, <1>12, <1>14, <2>1, <2>3
       DEF TaskOf, Live, Can1
  <2> QED BY <2>2, <2>3
<1>18. Works1'
  <2> SUFFICES ASSUME NEW u \in Threads PROVE Lists(u)' /\ Tending(u)'
    BY DEF Works1
  <2>1. CASE u # "api"
    <3>1. Beside(u, c) /\ \A x \in Convs \ {c} : Beside(u, x)
      BY <1>1, Typed, <1>2, <1>3, <1>4, <1>5, <1>7, <1>8, <1>9, <1>10, <1>11, <1>12, <1>14, <2>1
         DEF Beside, Can1, Free1
    <3> QED BY <1>1, <1>2, <1>3, <1>4, <1>5, <2>1, <3>1, Bystander, <1>13 DEF Can1
  <2>2. CASE u = "api"
    <3>1. Lists("api") /\ Tending("api")
      BY <1>1, Typed, <1>14 DEF Works1
    <3>2. Lists("api")'
      BY <1>1, Typed, <1>2, <1>3, <1>4, <1>5, <1>7, <1>8, <1>9, <1>10, <1>11, <1>12, <1>14, <3>1
         DEF Lists, Live, AtRest, Active, Locked, Can1
    <3>3. Tending("api")'
      BY <1>9, <1>14, <3>1 DEF Tending
    <3> QED BY <2>2, <3>2, <3>3
  <2> QED BY <2>1, <2>2
<1>19. Threats'
  <2> SUFFICES ASSUME NEW u \in Threads PROVE Threat(u)'
    BY DEF Threats
  <2>1. Threat(u)
    BY DEF ReclaimInv, Threats
  <2> QED BY <1>1, Typed, <1>2, <1>3, <1>4, <1>5, <1>7, <1>8, <1>9, <1>10, <1>11, <1>12, <1>14,
             <2>1, ThreatFrame
             DEF Can1, Active
<1>20. Debts'
  <2> SUFFICES ASSUME NEW u \in Threads PROVE Debt(u)'
    BY DEF Debts
  <2>1. Debt(u)
    BY DEF ReclaimInv, Debts
  <2>2. CASE u # "api"
    BY <1>1, Typed, <1>2, <1>3, <1>4, <1>5, <1>7, <1>8, <1>9, <1>10, <1>11, <1>12, <1>14, <2>1,
       <2>2, DebtFrame
       DEF Can1, Free1, Owes, Protected
  <2>3. CASE u = "api"
    BY <1>9, <1>10, <2>3 DEF Debt
  <2> QED BY <2>2, <2>3
<1>21. KeepsNeeded'
  <2> SUFFICES ASSUME NEW x \in Convs, conv'[x].live PROVE Provided(x)'
    BY <1>1, <1>14 DEF KeepsNeeded, Provided, Lax, TaskIds
  <2>1. conv[x].live => Provided(x)
    BY DEF ReclaimInv, KeepsNeeded, Provided, Lax
  <2>2. Life(x)
    BY <1>1 DEF Lives
  <2>3. CASE x = c
    BY <1>1, Typed, <1>2, <1>3, <1>4, <1>5, <1>7, <1>8, <1>9, <1>10, <1>11, <1>12, <1>14, <2>1,
       <2>2, <2>3
       DEF Life, Active, Can1, Lax, TaskIds, Provided
  <2>4. CASE x # c
    BY <1>1, Typed, <1>2, <1>3, <1>4, <1>5, <1>7, <1>8, <1>9, <1>10, <1>11, <1>12, <1>14, <2>1,
       <2>2, <2>4
       DEF Life, Active, Can1, Lax, TaskIds, Provided
  <2> QED BY <2>3, <2>4 DEF Provided
<1>22. KeepsSources'
  <2>1. KeepsSources
    BY DEF ReclaimInv
  <2> QED BY <1>1, Typed, <1>2, <1>3, <1>4, <1>5, <1>7, <1>8, <1>9, <1>10, <1>11, <1>12, <1>14, <2>1
             DEF KeepsSources, SameSource, Can1
<1>23. DeletedAccounted'
  <2> SUFFICES ASSUME NEW x \in Convs, x \in deleted' PROVE Accounted(x)'
    BY DEF DeletedAccounted, Accounted, Unproved
  <2>1. x \in deleted => Accounted(x)
    BY DEF ReclaimInv, DeletedAccounted, Accounted, Unproved
  <2> QED BY <1>1, Typed, <1>2, <1>3, <1>4, <1>5, <1>7, <1>8, <1>9, <1>10, <1>11, <1>12, <1>14, <2>1
             DEF Owes, Protected, Can1, TaskIds, Accounted
<1> QED BY <1>13, <1>15, <1>16, <1>17, <1>18, <1>19, <1>20, <1>21, <1>22, <1>23 DEF ReclaimInv

\* The task queued for a Run that is over names its workspace only.
LEMMA cleanup_worktreesKeeps ==
    ASSUME ReclaimInv, cleanup_worktrees PROVE ReclaimInv'
<1>1. TypeInv /\ Works1 /\ Tasks /\ Lives /\ Downtime
  BY DEF ReclaimInv
<1> PICK c \in TaskIds : c = exec["api"].run
  BY <1>1, Typed
<1>2. /\ host' = host /\ conv' = conv /\ owned' = owned /\ deleted' = deleted /\ sources' = sources
      /\ shadow' = shadow /\ disk' = disk /\ exec["api"].pc = "queue"
  BY DEF cleanup_worktrees
<1>3. /\ \A x \in TaskIds \ {c} : task'[x] = task[x]
      /\ \A u \in Threads \ {"api"} : exec'[u] = exec[u]
  BY DEF cleanup_worktrees, TypeInv
<1>4. /\ Live(c) /\ c \in exec["api"].locks /\ ~Active(c) /\ ~conv[c].keep /\ conv[c].seq # 0
      /\ c \notin deleted
  <2>1. Live(c) /\ c \in exec["api"].locks /\ ~Active(c) /\ ~conv[c].keep
    BY <1>1, <1>2, Typed DEF Works1, Lists
  <2>2. Life(c)
    BY <1>1, <2>1 DEF Lives, Live
  <2> QED BY <2>1, <2>2 DEF Life, Live
<1>5. /\ task'[c] = Queued(owned[c] \cap {Work(c)}, conv[c].seq)
      /\ exec'["api"] = [exec["api"] EXCEPT !.pc = "check"]
  BY <1>1, Typed, <1>2, <1>3, <1>4 DEF cleanup_worktrees, TypeInv, Live
<1>6. task'[c] \in TaskType /\ exec'["api"] \in ExecType
  <2>1. /\ "check" \in Pcs /\ exec["api"] \in ExecType /\ TRUE \in BOOLEAN /\ FALSE \in BOOLEAN
        /\ conv[c].seq \in Nat /\ (owned[c] \cap {Work(c)}) \in SUBSET Dirs
    BY <1>1, <1>4, Typed DEF Pcs, Live
  <2>2. exec'["api"] \in ExecType
    BY <1>5, <2>1 DEF ExecType
  <2>3. task'[c] \in TaskType
    BY <1>5, <2>1 DEF TaskType, Queued
  <2> QED BY <2>2, <2>3
<1>7. /\ exec'["api"].pc = "check" /\ exec'["api"].run = c /\ exec'["api"].locks = exec["api"].locks
      /\ exec'["api"].left = exec["api"].left /\ exec'["api"].paths = exec["api"].paths
      /\ task'[c].on /\ task'[c].targets = owned[c] \cap {Work(c)} /\ task'[c].seq = conv[c].seq
  BY <1>6, <1>5 DEF ExecType, Queued
<1>8. task' \in [TaskIds -> TaskType] /\ exec' \in [Threads -> ExecType]
  BY <1>1, Typed, <1>2, <1>3, <1>4, <1>6, <1>7 DEF cleanup_worktrees, TypeInv
<1>9. TypeInv'
  BY <1>1, Typed, <1>2, <1>3, <1>4, <1>6, <1>7, <1>8 DEF TypeInv, cleanup_worktrees
<1>10. \A x \in TaskIds : Plan(x)' = Plan(x) /\ Own(x)' = Own(x)
  BY <1>6, <1>7, <1>8, Layout DEF cleanup_worktrees
<1>11. Downtime'
  BY <1>1, Typed, <1>2 DEF Downtime, AtRest, Active, Can1, Lax, SameSource
<1>12. Lives'
  <2> SUFFICES ASSUME NEW x \in Convs PROVE Life(x)'
    BY DEF Lives
  <2>1. Life(x)
    BY <1>1 DEF Lives
  <2> QED BY <1>1, Typed, <1>2, <1>3, <1>4, <1>6, <1>7, <1>8, <1>10, <2>1
             DEF Life, SameSource, TaskIds
<1>13. Tasks'
  <2> SUFFICES ASSUME NEW x \in TaskIds, task'[x].on PROVE TaskOf(x)'
    BY DEF Tasks
  <2>1. task[x].on => TaskOf(x)
    BY <1>1 DEF Tasks
  <2>2. CASE x = c
    <3>1. task'[c].targets \subseteq Own(c) /\ task'[c].targets \subseteq owned'[c]
      BY <1>1, Typed, <1>2, <1>3, <1>4, <1>6, <1>7, <1>8, <1>10 DEF Own
    <3>2. Live(c)' /\ task'[c].seq = conv'[c].seq /\ ~conv'[c].keep /\ task'[c].seq # 0
      BY <1>1, Typed, <1>2, <1>3, <1>4, <1>6, <1>7, <1>8, <1>10 DEF Live
    <3>3. task'[c].seq <= conv'[c].seq
      BY <1>1, Typed, <1>2, <1>3, <1>4, <1>6, <1>7, <1>8, <1>10, <3>2 DEF Live
    <3> QED BY <2>2, <1>10, <3>1, <3>2, <3>3 DEF TaskOf
  <2>3. CASE x # c
    BY <1>1, Typed, <1>2, <1>3, <1>4, <1>6, <1>7, <1>8, <1>10, <2>1, <2>3 DEF TaskOf, Live, Can1
  <2> QED BY <2>2, <2>3
<1>14. Works1'
  <2> SUFFICES ASSUME NEW u \in Threads PROVE Lists(u)' /\ Tending(u)'
    BY DEF Works1
  <2>1. CASE u # "api"
    <3>1. \A x \in Convs : Beside(u, x)
      BY <1>1, Typed, <1>2, <1>3, <1>4, <1>6, <1>7, <1>8, <1>10, <2>1 DEF Beside, Can1, Free1
    <3> QED BY <1>1, <1>2, <1>3, <2>1, <3>1, Bystander, <1>9 DEF Can1
  <2>2. CASE u = "api"
    <3>1. Lists("api") /\ Tending("api")
      BY <1>1, Typed, <1>2, <1>3, <1>4, <1>6, <1>7, <1>8, <1>10 DEF Works1
    <3>2. Lists("api")'
      BY <1>1, Typed, <1>2, <1>3, <1>4, <1>6, <1>7, <1>8, <1>10, <3>1
         DEF Lists, Live, AtRest, Active, Locked, Can1
    <3>3. Tending("api")'
      BY <1>2, <1>7, <1>8, <3>1 DEF Tending, Live
    <3> QED BY <2>2, <3>2, <3>3
  <2> QED BY <2>1, <2>2
<1>15. Threats'
  <2> SUFFICES ASSUME NEW u \in Threads PROVE Threat(u)'
    BY DEF Threats
  <2>1. Threat(u)
    BY DEF ReclaimInv, Threats
  <2> QED BY <1>1, Typed, <1>2, <1>3, <1>4, <1>6, <1>7, <1>8, <1>10, <2>1, ThreatFrame
             DEF Can1, Active
<1>16. Debts'
  <2> SUFFICES ASSUME NEW u \in Threads PROVE Debt(u)'
    BY DEF Debts
  <2>1. Debt(u)
    BY DEF ReclaimInv, Debts
  <2>2. CASE u # "api"
    BY <1>1, Typed, <1>2, <1>3, <1>4, <1>6, <1>7, <1>8, <1>10, <2>1, <2>2, DebtFrame
       DEF Can1, Free1, Owes, Protected
  <2>3. CASE u = "api"
    BY <1>7, <1>8, <2>1, <2>3 DEF Debt
  <2> QED BY <2>2, <2>3
<1>17. KeepsNeeded'
  <2> SUFFICES ASSUME NEW x \in Convs, conv'[x].live PROVE Provided(x)'
    BY <1>1, <1>10 DEF KeepsNeeded, Provided, Lax, TaskIds
  <2>1. conv[x].live => Provided(x)
    BY DEF ReclaimInv, KeepsNeeded, Provided, Lax
  <2>2. Life(x)
    BY <1>1 DEF Lives
  <2> QED BY <1>1, Typed, <1>2, <1>3, <1>4, <1>6, <1>7, <1>8, <1>10, <2>1, <2>2
             DEF Life, Active, Can1, Lax, TaskIds, Provided
<1>18. KeepsSources'
  <2>1. KeepsSources
    BY DEF ReclaimInv
  <2> QED BY <1>1, Typed, <1>2, <1>3, <1>4, <1>6, <1>7, <1>8, <1>10, <2>1
             DEF KeepsSources, SameSource, Can1
<1>19. DeletedAccounted'
  <2> SUFFICES ASSUME NEW x \in Convs, x \in deleted' PROVE Accounted(x)'
    BY DEF DeletedAccounted, Accounted, Unproved
  <2>1. x \in deleted => Accounted(x)
    BY DEF ReclaimInv, DeletedAccounted, Accounted, Unproved
  <2> QED BY <1>2, <1>3, <1>4, <2>1 DEF Owes, Protected, Can1, TaskIds, Accounted
<1> QED BY <1>9, <1>11, <1>12, <1>13, <1>14, <1>15, <1>16, <1>17, <1>18, <1>19 DEF ReclaimInv

\* The shadow repository goes only when no other Run needs it.
LEMMA reclaim_shadowKeeps ==
    ASSUME ReclaimInv, reclaim_shadow PROVE ReclaimInv'
<1>1. TypeInv /\ Works1 /\ Tasks /\ Lives /\ Downtime
  BY DEF ReclaimInv
<1> PICK c \in TaskIds : c = exec["api"].run
  BY <1>1, Typed
<1>2. /\ host' = host /\ conv' = conv /\ owned' = owned /\ deleted' = deleted /\ sources' = sources
      /\ task' = task /\ exec["api"].pc = "reclaim" /\ host.guard = "none"
      /\ disk \ {Shadow} \subseteq disk' /\ disk' \subseteq disk
  BY DEF reclaim_shadow
<1>3. /\ \A u \in Threads \ {"api"} : exec'[u] = exec[u]
      /\ exec'["api"] = Resting
  BY <1>1, Typed, <1>2 DEF reclaim_shadow, TypeInv
<1>4. exec' \in [Threads -> ExecType]
  <2>1. Resting \in ExecType
    BY Marks
  <2> QED BY <1>1, <2>1 DEF reclaim_shadow, TypeInv
<1>5. /\ shadow' \in ShadowType /\ (shadow' = shadow \/ shadow'.made = {})
  <2>1. NoShadow \in ShadowType /\ NoShadow.made = {}
    BY DEF NoShadow, ShadowType
  <2> QED BY <1>1, <2>1 DEF reclaim_shadow, TypeInv
<1>6. exec'["api"].pc = "rest" /\ exec'["api"].paths = {} /\ exec'["api"].left = {}
  BY <1>3 DEF Resting
<1>7. /\ Shadow \in disk' \/ Shadow \notin disk \/ \A x \in Convs : Active(x) => ~conv[x].head
  <2> SUFFICES ASSUME Shadow \in disk, Shadow \notin disk', NEW x \in Convs, Active(x), conv[x].head
               PROVE  FALSE
    OBVIOUS
  <2>1. shadow_reclaimable(c)
    BY DEF reclaim_shadow
  <2>2. Life(x) /\ conv[x].phase = "running"
    BY <1>1 DEF Lives, Active
  <2>3. x # c
    BY <2>1, <2>2 DEF shadow_reclaimable
  <2> QED BY <2>1, <2>2, <2>3 DEF Life, shadow_reclaimable, shadow_repo_referenced_by
<1>8. TypeInv'
  BY <1>1, Typed, <1>2, <1>3, <1>4, <1>5, <1>6, <1>7 DEF TypeInv, reclaim_shadow
<1>9. \A x \in TaskIds : Plan(x)' = Plan(x) /\ Own(x)' = Own(x)
  BY <1>5, <1>6, <1>7, Layout DEF reclaim_shadow
<1>10. Downtime'
  BY <1>1, Typed, <1>2 DEF Downtime, AtRest, Active
<1>11. Lives'
  <2> SUFFICES ASSUME NEW x \in Convs PROVE Life(x)'
    BY DEF Lives
  <2>1. Life(x)
    BY <1>1 DEF Lives
  <2> QED BY <1>1, Typed, <1>2, <1>3, <1>4, <1>5, <1>6, <1>7, <1>9, <2>1, Apart
             DEF Life, SameSource, TaskIds
<1>12. Tasks'
  <2> SUFFICES ASSUME NEW x \in TaskIds, task'[x].on PROVE TaskOf(x)'
    BY DEF Tasks
  <2>1. task[x].on => TaskOf(x)
    BY <1>1 DEF Tasks
  <2> QED BY <1>1, Typed, <1>2, <1>3, <1>4, <1>5, <1>6, <1>7, <1>9, <2>1 DEF TaskOf, Live, Can1
<1>13. Works1'
  <2> SUFFICES ASSUME NEW u \in Threads PROVE Lists(u)' /\ Tending(u)'
    BY DEF Works1
  <2>1. CASE u # "api"
    <3>1. \A x \in Convs : Beside(u, x)
      BY <1>1, Typed, <1>2, <1>3, <1>4, <1>5, <1>6, <1>7, <1>9, <2>1 DEF Beside, Can1, Free1
    <3> QED BY <1>1, <1>2, <1>3, <2>1, <3>1, Bystander, <1>8 DEF Can1
  <2>2. CASE u = "api"
    <3>1. Lists("api") /\ Tending("api")
      BY <1>1, Typed, <1>2, <1>3, <1>4, <1>5, <1>6, <1>7, <1>9 DEF Works1
    <3>2. Lists("api")'
      BY <1>3, <1>4, <1>6, <1>7, <1>9, <3>1 DEF Lists, Live
    <3>3. Tending("api")'
      BY <1>1, Typed, <1>2, <1>3, <1>4, <1>5, <1>6, <1>7, <1>9, <3>1
         DEF Tending, Live, Active, Locked, Can1
    <3> QED BY <2>2, <3>2, <3>3
  <2> QED BY <2>1, <2>2
<1>14. Threats'
  <2> SUFFICES ASSUME NEW u \in Threads PROVE Threat(u)'
    BY DEF Threats
  <2>1. Threat(u)
    BY DEF ReclaimInv, Threats
  <2> QED BY <1>1, Typed, <1>2, <1>3, <1>4, <1>5, <1>6, <1>7, <1>9, <2>1, ThreatFrame
             DEF Can1, Active
<1>15. Debts'
  <2> SUFFICES ASSUME NEW u \in Threads PROVE Debt(u)'
    BY DEF Debts
  <2>1. Debt(u)
    BY DEF ReclaimInv, Debts
  <2>2. CASE u # "api"
    BY <1>1, Typed, <1>2, <1>3, <1>4, <1>5, <1>6, <1>7, <1>9, <2>1, <2>2, DebtFrame, Apart
       DEF Can1, Free1, Owes, Protected
  <2>3. CASE u = "api"
    BY <1>6, <1>7, <2>1, <2>3, Apart DEF Debt, Excused, Unproved
  <2> QED BY <2>2, <2>3
<1>16. KeepsNeeded'
  <2> SUFFICES ASSUME NEW x \in Convs, conv'[x].live PROVE Provided(x)'
    BY <1>1, <1>9 DEF KeepsNeeded, Provided, Lax, TaskIds
  <2>1. conv[x].live => Provided(x)
    BY DEF ReclaimInv, KeepsNeeded, Provided, Lax
  <2>2. Life(x)
    BY <1>1 DEF Lives
  <2> QED BY <1>1, Typed, <1>2, <1>3, <1>4, <1>5, <1>6, <1>7, <1>9, <2>1, <2>2, Apart
             DEF Life, Active, Can1, Lax, TaskIds, Provided
<1>17. KeepsSources'
  <2>1. KeepsSources
    BY DEF ReclaimInv
  <2> QED BY <1>1, Typed, <1>2, <1>3, <1>4, <1>5, <1>6, <1>7, <1>9, <2>1, Apart
             DEF KeepsSources, SameSource, Can1, TypeInv
<1>18. DeletedAccounted'
  <2> SUFFICES ASSUME NEW x \in Convs, x \in deleted' PROVE Accounted(x)'
    BY DEF DeletedAccounted, Accounted, Unproved
  <2>1. x \in deleted => Accounted(x)
    BY DEF ReclaimInv, DeletedAccounted, Accounted, Unproved
  <2> QED BY <1>1, Typed, <1>2, <1>3, <1>4, <1>5, <1>6, <1>7, <1>9, <2>1, Apart
             DEF Owes, Protected, Can1, TaskIds, Accounted
<1> QED BY <1>8, <1>10, <1>11, <1>12, <1>13, <1>14, <1>15, <1>16, <1>17, <1>18 DEF ReclaimInv

\* A deletion, for each of the ways to it: the manifest names all that is owed.
LEMMA DeletingKeeps ==
    ASSUME ReclaimInv, NEW cs \in SUBSET Convs, Deletes(cs) PROVE ReclaimInv'
<1>1. TypeInv /\ Works1 /\ Tasks /\ Lives /\ Downtime
  BY DEF ReclaimInv
<1>2. /\ host' = host /\ owned' = owned /\ sources' = sources /\ shadow' = shadow /\ disk' = disk
      /\ host.up /\ \A x \in cs : conv[x].live /\ ~Active(x) /\ (Can1("clear") \/ Free1(x))
      /\ \A u \in Threads \ {"api"} : exec'[u] = exec[u]
      /\ exec' \in [Threads -> ExecType] /\ exec'["api"].pc \in {"rest", "next"}
      /\ exec'["api"].pc = "rest" => exec'["api"] = Resting
      /\ exec'["api"].paths = {}
      /\ \A x \in exec'["api"].left : x[1] \in TaskIds /\ ~x[2] /\ x[1] \in deleted'
  BY DEF Deletes
<1>3. /\ conv' \in [Convs -> ConvType] /\ task' \in [TaskIds -> TaskType]
      /\ deleted' = deleted \cup cs
      /\ \A x \in Convs \ cs : conv'[x] = conv[x]
      /\ \A x \in cs : ~conv'[x].live /\ conv'[x].phase = conv[x].phase
           /\ conv'[x].keep = conv[x].keep
      /\ \A x \in cs : conv'[x].ran = conv[x].ran /\ conv'[x].head = conv[x].head
           /\ conv'[x].seq = conv[x].seq
      /\ \A x \in TaskIds \ cs : task'[x] = task[x]
      /\ \A x \in cs : Disposes(x, task'[x])
  <2>1. /\ Deleted(cs, [c \in cs |-> manifest(c, TRUE)])
        /\ \A c \in cs : conv[c].live
    BY DEF Deletes
  <2> QED BY <1>1, <2>1, Deletion, Zenon
<1>4. cs \subseteq TaskIds /\ "reclaim" \notin TaskIds
  BY <1>3, NamesAssumption DEF TaskIds
<1>5. <<"reclaim", TRUE>> \notin exec'["api"].left
  BY <1>2, <1>4
<1>6. TypeInv'
  BY <1>1, Typed, <1>2, <1>3, <1>4 DEF TypeInv
<1>7. \A x \in TaskIds : Plan(x)' = Plan(x) /\ Own(x)' = Own(x)
  BY <1>4, <1>5, Layout DEF Deletes
<1>8. Downtime'
  BY <1>1, Typed, <1>2, <1>3, <1>4, <1>5, <1>7
     DEF Downtime, AtRest, Active, Can1, Lax, SameSource, Resting
<1>9. Lives'
  <2> SUFFICES ASSUME NEW x \in Convs PROVE Life(x)'
    BY DEF Lives
  <2>1. Life(x)
    BY <1>1 DEF Lives
  <2>2. CASE x \in cs
    BY <1>1, Typed, <1>2, <1>3, <1>4, <1>5, <1>7, <2>1, <2>2 DEF Life, SameSource, TaskIds, Active
  <2>3. CASE x \notin cs
    BY <1>1, Typed, <1>2, <1>3, <1>4, <1>5, <1>7, <2>1, <2>3 DEF Life, SameSource, TaskIds
  <2> QED BY <2>2, <2>3
<1>10. Tasks'
  <2> SUFFICES ASSUME NEW x \in TaskIds, task'[x].on PROVE TaskOf(x)'
    BY DEF Tasks
  <2>1. task[x].on => TaskOf(x)
    BY <1>1 DEF Tasks
  <2>2. CASE x \in cs
    BY <1>1, Typed, <1>2, <1>3, <1>4, <1>5, <1>7, <2>2 DEF TaskOf, Live, Disposes
  <2>3. CASE x \notin cs
    BY <1>1, Typed, <1>2, <1>3, <1>4, <1>5, <1>7, <2>1, <2>3 DEF TaskOf, Live, Can1
  <2> QED BY <2>2, <2>3
<1>11. Works1'
  <2> SUFFICES ASSUME NEW u \in Threads PROVE Lists(u)' /\ Tending(u)'
    BY DEF Works1
  <2>1. CASE u # "api"
    <3>1. \A x \in Convs : Beside(u, x)
      BY <1>1, Typed, <1>2, <1>3, <1>4, <1>5, <1>7, <2>1 DEF Beside, Can1, Free1, Threads
    <3> QED BY <1>1, <1>2, <1>3, <2>1, <3>1, Bystander, <1>6 DEF Can1
  <2>2. CASE u = "api"
    <3>1. Lists("api") /\ Tending("api")
      BY <1>1, Typed DEF Works1
    <3>2. Lists("api")'
      BY <1>1, Typed, <1>2, <1>3, <1>4, <1>5, <1>7, <3>1
         DEF Lists, Live, AtRest, Active, Locked, Can1, Threads
    <3>3. Tending("api")'
      BY <1>2 DEF Tending, Live
    <3> QED BY <2>2, <3>2, <3>3
  <2> QED BY <2>1, <2>2
<1>12. Threats'
  <2> SUFFICES ASSUME NEW u \in Threads PROVE Threat(u)'
    BY DEF Threats
  <2>1. Threat(u)
    BY DEF ReclaimInv, Threats
  <2> QED BY <1>1, Typed, <1>2, <1>3, <1>4, <1>5, <1>7, <2>1, ThreatFrame DEF Can1, Active
<1>13. Debts'
  <2> SUFFICES ASSUME NEW u \in Threads PROVE Debt(u)'
    BY DEF Debts
  <2>1. Debt(u)
    BY DEF ReclaimInv, Debts
  <2>2. CASE u # "api"
    BY <1>1, Typed, <1>2, <1>3, <1>4, <1>5, <1>7, <2>1, <2>2, DebtFrame
       DEF Can1, Free1, Owes, Protected
  <2>3. CASE u = "api"
    BY <1>2, <2>3 DEF Debt, Excused, Unproved
  <2> QED BY <2>2, <2>3
<1>14. KeepsNeeded'
  <2> SUFFICES ASSUME NEW x \in Convs, conv'[x].live PROVE Provided(x)'
    BY <1>1, <1>7 DEF KeepsNeeded, Provided, Lax, TaskIds
  <2>1. conv[x].live => Provided(x)
    BY DEF ReclaimInv, KeepsNeeded, Provided, Lax
  <2>2. Life(x)
    BY <1>1 DEF Lives
  <2> QED BY <1>2, <1>3, <1>4, <1>7, <2>1, <2>2 DEF Life, Active, Can1, Lax, TaskIds, Provided
<1>15. KeepsSources'
  <2>1. KeepsSources
    BY DEF ReclaimInv
  <2> QED BY <1>1, Typed, <1>2, <1>3, <1>4, <1>5, <1>7, <2>1 DEF KeepsSources, SameSource, Can1
<1>16. DeletedAccounted'
  <2> SUFFICES ASSUME NEW x \in Convs, x \in deleted' PROVE Accounted(x)'
    BY DEF DeletedAccounted, Accounted, Unproved
  <2>1. x \in deleted => Accounted(x)
    BY DEF ReclaimInv, DeletedAccounted, Accounted, Unproved
  <2>2. Owes(x)' = Owes(x)
    BY <1>2 DEF Owes, Protected
  <2>3. CASE x \in cs
    <3>1. Sess(x) \in disk => conv[x].ran
      BY <1>1 DEF Lives, Life
    <3>2. Owes(x) \subseteq {Work(x), Sess(x)} \cap disk
      BY DEF Owes
    <3> QED BY <1>1, Typed, <1>2, <1>3, <1>4, <1>5, <1>7, <2>2, <2>3, <3>1, <3>2
               DEF Disposes, Unproved, Accounted
  <2>4. CASE x \notin cs
    BY <1>1, Typed, <1>2, <1>3, <1>4, <1>5, <1>7, <2>1, <2>2, <2>4 DEF Can1, Accounted
  <2> QED BY <2>3, <2>4 DEF Accounted
<1> QED BY <1>6, <1>8, <1>9, <1>10, <1>11, <1>12, <1>13, <1>14, <1>15, <1>16 DEF ReclaimInv

\* clear_history looks at the Runs one by one before it takes the primary lock.
LEMMA ClearCheckKeeps ==
    ASSUME ReclaimInv, ClearCheck PROVE ReclaimInv'
<1>1. TypeInv /\ Works1 /\ Tasks /\ Lives /\ Downtime
  BY DEF ReclaimInv
<1>2. /\ host' = host /\ conv' = conv /\ owned' = owned /\ deleted' = deleted /\ sources' = sources
      /\ task' = task /\ shadow' = shadow /\ disk' = disk /\ host.up /\ Can1("clear")
      /\ exec["api"].pc = "rest"
  BY DEF ClearCheck
<1>3. \A u \in Threads \ {"api"} : exec'[u] = exec[u]
  BY DEF ClearCheck, TypeInv
<1>4. exec'["api"] = [Resting EXCEPT !.pc = "clear", !.locks = {"primary"}]
  BY <1>1, Typed, <1>2, <1>3 DEF ClearCheck, TypeInv
<1>5. exec'["api"] \in ExecType
  <2>1. Resting \in ExecType /\ "clear" \in Pcs /\ {"primary"} \in SUBSET (Convs \cup {"primary"})
    BY Marks DEF Pcs
  <2> QED BY <1>4, <2>1 DEF ExecType
<1>6. exec'["api"].pc = "clear" /\ exec'["api"].paths = {} /\ exec'["api"].left = {}
  BY <1>5, <1>4 DEF Resting
<1>7. exec' \in [Threads -> ExecType]
  BY <1>1, <1>5 DEF ClearCheck, TypeInv
<1>8. TypeInv'
  BY <1>1, <1>7 DEF TypeInv, ClearCheck
<1>9. \A x \in TaskIds : Plan(x)' = Plan(x) /\ Own(x)' = Own(x)
  BY <1>6, <1>7, Layout DEF ClearCheck
<1>10. Downtime'
  BY <1>1, Typed, <1>2, <1>3, <1>5, <1>6, <1>7, <1>9
     DEF Downtime, AtRest, Active, Can1, Lax, SameSource, Resting
<1>11. Lives'
  <2> SUFFICES ASSUME NEW x \in Convs PROVE Life(x)'
    BY DEF Lives
  <2>1. Life(x)
    BY <1>1 DEF Lives
  <2> QED BY <1>1, Typed, <1>2, <1>3, <1>5, <1>6, <1>7, <1>9, <2>1 DEF Life, SameSource, TaskIds
<1>12. Tasks'
  <2> SUFFICES ASSUME NEW x \in TaskIds, task'[x].on PROVE TaskOf(x)'
    BY DEF Tasks
  <2>1. task[x].on => TaskOf(x)
    BY <1>1 DEF Tasks
  <2> QED BY <1>1, Typed, <1>2, <1>3, <1>5, <1>6, <1>7, <1>9, <2>1 DEF TaskOf, Live, Can1
<1>13. Works1'
  <2> SUFFICES ASSUME NEW u \in Threads PROVE Lists(u)' /\ Tending(u)'
    BY DEF Works1
  <2>1. CASE u # "api"
    <3>1. \A x \in Convs : Beside(u, x)
      BY <1>2 DEF Beside
    <3> QED BY <1>1, <1>2, <1>3, <2>1, <3>1, Bystander, <1>8 DEF Can1
  <2>2. CASE u = "api"
    <3>1. Lists("api") /\ Tending("api")
      BY <1>1, Typed DEF Works1
    <3>2. Lists("api")'
      BY <1>2, <1>6 DEF Lists, Live, AtRest, Active, Locked, Can1
    <3>3. Tending("api")'
      BY <1>6, <3>1 DEF Tending
    <3> QED BY <2>2, <3>2, <3>3
  <2> QED BY <2>1, <2>2
<1>14. Threats'
  <2> SUFFICES ASSUME NEW u \in Threads PROVE Threat(u)'
    BY DEF Threats
  <2>1. Threat(u)
    BY DEF ReclaimInv, Threats
  <2> QED BY <1>1, Typed, <1>2, <1>3, <1>5, <1>6, <1>7, <1>9, <2>1, ThreatFrame DEF Can1, Active
<1>15. Debts'
  <2> SUFFICES ASSUME NEW u \in Threads PROVE Debt(u)'
    BY DEF Debts
  <2>1. Debt(u)
    BY DEF ReclaimInv, Debts
  <2>2. CASE u # "api"
    BY <1>1, Typed, <1>2, <1>3, <1>5, <1>6, <1>7, <1>9, <2>1, <2>2, DebtFrame
       DEF Can1, Free1, Owes, Protected
  <2>3. CASE u = "api"
    BY <1>6, <2>3 DEF Debt, Excused
  <2> QED BY <2>2, <2>3
<1>16. KeepsNeeded'
  <2> SUFFICES ASSUME NEW x \in Convs, conv'[x].live PROVE Provided(x)'
    BY <1>1, <1>9 DEF KeepsNeeded, Provided, Lax, TaskIds
  <2>1. conv[x].live => Provided(x)
    BY DEF ReclaimInv, KeepsNeeded, Provided, Lax
  <2>2. Life(x)
    BY <1>1 DEF Lives
  <2> QED BY <1>1, Typed, <1>2, <1>3, <1>5, <1>6, <1>7, <1>9, <2>1, <2>2
             DEF Life, Active, Can1, Lax, TaskIds, Provided
<1>17. KeepsSources'
  <2>1. KeepsSources
    BY DEF ReclaimInv
  <2> QED BY <1>1, Typed, <1>2, <1>3, <1>5, <1>6, <1>7, <1>9, <2>1
             DEF KeepsSources, SameSource, Can1
<1>18. DeletedAccounted'
  <2> SUFFICES ASSUME NEW x \in Convs, x \in deleted' PROVE Accounted(x)'
    BY DEF DeletedAccounted, Accounted, Unproved
  <2>1. x \in deleted => Accounted(x)
    BY DEF ReclaimInv, DeletedAccounted, Accounted, Unproved
  <2> QED BY <1>1, Typed, <1>2, <1>3, <1>5, <1>6, <1>7, <1>9, <2>1
             DEF Owes, Protected, Can1, TaskIds, Accounted
<1> QED BY <1>8, <1>10, <1>11, <1>12, <1>13, <1>14, <1>15, <1>16, <1>17, <1>18 DEF ReclaimInv

\* A thread that takes its next step leaves the others' needs and debts alone.
LEMMA TurningKeeps ==
    ASSUME ReclaimInv, NEW t \in Threads, Turns(t), Lists(t)', Tending(t)', Debt(t)'
    PROVE  ReclaimInv'
<1>1. TypeInv /\ Works1 /\ Tasks /\ Lives /\ Downtime
  BY DEF ReclaimInv
<1>2. /\ host' = host /\ conv' = conv /\ owned' = owned /\ deleted' = deleted /\ sources' = sources
      /\ task' = task /\ shadow' = shadow /\ disk' = disk
      /\ \A u \in Threads \ {t} : exec'[u] = exec[u]
      /\ exec' \in [Threads -> ExecType] /\ exec'[t].paths = {}
      /\ host.up \/ (t = "api" /\ exec'[t].pc \notin {"queue", "clear", "reclaim"})
  BY DEF Turns
<1>3. TypeInv'
  BY <1>1, Typed, <1>2 DEF TypeInv, Turns
<1>4. \A x \in TaskIds : Plan(x)' = Plan(x) /\ Own(x)' = Own(x)
  BY Layout DEF Turns
<1>5. Downtime'
  BY <1>1, Typed, <1>2, <1>4 DEF Downtime, AtRest, Active, Can1, Lax, SameSource
<1>6. Lives'
  <2> SUFFICES ASSUME NEW x \in Convs PROVE Life(x)'
    BY DEF Lives
  <2>1. Life(x)
    BY <1>1 DEF Lives
  <2> QED BY <1>1, Typed, <1>2, <1>4, <2>1 DEF Life, SameSource, TaskIds
<1>7. Tasks'
  <2> SUFFICES ASSUME NEW x \in TaskIds, task'[x].on PROVE TaskOf(x)'
    BY DEF Tasks
  <2>1. task[x].on => TaskOf(x)
    BY <1>1 DEF Tasks
  <2> QED BY <1>1, Typed, <1>2, <1>4, <2>1 DEF TaskOf, Live, Can1
<1>8. Works1'
  <2> SUFFICES ASSUME NEW u \in Threads PROVE Lists(u)' /\ Tending(u)'
    BY DEF Works1
  <2>1. CASE u # t
    <3>1. \A x \in Convs : Beside(u, x)
      BY <1>2 DEF Beside
    <3> QED BY <1>1, <1>2, <2>1, <3>1, Bystander, <1>3 DEF Can1
  <2>2. CASE u = t
    BY <2>2
  <2> QED BY <2>1, <2>2
<1>9. Threats'
  <2> SUFFICES ASSUME NEW u \in Threads PROVE Threat(u)'
    BY DEF Threats
  <2>1. Threat(u)
    BY DEF ReclaimInv, Threats
  <2> QED BY <1>1, Typed, <1>2, <1>4, <2>1, ThreatFrame DEF Can1, Active
<1>10. Debts'
  <2> SUFFICES ASSUME NEW u \in Threads PROVE Debt(u)'
    BY DEF Debts
  <2>1. Debt(u)
    BY DEF ReclaimInv, Debts
  <2>2. CASE u # t
    BY <1>1, <1>2, <2>1, <2>2, DebtFrame DEF Can1, Owes, Protected
  <2>3. CASE u = t
    BY <2>3
  <2> QED BY <2>2, <2>3
<1>11. KeepsNeeded'
  <2> SUFFICES ASSUME NEW x \in Convs, conv'[x].live PROVE Provided(x)'
    BY <1>1, <1>4 DEF KeepsNeeded, Provided, Lax, TaskIds
  <2>1. conv[x].live => Provided(x)
    BY DEF ReclaimInv, KeepsNeeded, Provided, Lax
  <2>2. Life(x)
    BY <1>1 DEF Lives
  <2> QED BY <1>1, Typed, <1>2, <1>4, <2>1, <2>2 DEF Life, Active, Can1, Lax, TaskIds, Provided
<1>12. KeepsSources'
  <2>1. KeepsSources
    BY DEF ReclaimInv
  <2> QED BY <1>1, Typed, <1>2, <1>4, <2>1 DEF KeepsSources, SameSource, Can1
<1>13. DeletedAccounted'
  <2> SUFFICES ASSUME NEW x \in Convs, x \in deleted' PROVE Accounted(x)'
    BY DEF DeletedAccounted, Accounted, Unproved
  <2>1. x \in deleted => Accounted(x)
    BY DEF ReclaimInv, DeletedAccounted, Accounted, Unproved
  <2> QED BY <1>1, Typed, <1>2, <1>4, <2>1 DEF Owes, Protected, Can1, TaskIds, Accounted
<1> QED BY <1>3, <1>5, <1>6, <1>7, <1>8, <1>9, <1>10, <1>11, <1>12, <1>13 DEF ReclaimInv

\* Ending a task forgets a directory only when it is gone or was never owed.
LEMMA FinishingKeeps ==
    ASSUME ReclaimInv, NEW t \in Threads, Finishes(t) PROVE ReclaimInv'
<1>1. TypeInv /\ Works1 /\ Tasks /\ Lives /\ Downtime
  BY DEF ReclaimInv
<1> PICK c \in TaskIds : c = exec[t].run
  BY <1>1, Typed
<1>2. /\ host' = host /\ conv' = conv /\ deleted' = deleted /\ sources' = sources
      /\ shadow' = shadow /\ disk' = disk /\ exec[t].pc \in {"check", "remove"}
      /\ c \in Convs \cap deleted => Owes(c) = {} \/ Excused
  BY DEF Finishes
<1>3. /\ \A u \in Threads \ {t} : exec'[u] = exec[u]
      /\ exec'[t] = Over(t)
  BY <1>1, Typed, <1>2 DEF Finishes, TypeInv
<1>4. /\ \A x \in TaskIds \ {c} : task'[x] = task[x] /\ owned'[x] = owned[x]
      /\ task'[c] = NoTask /\ (owned'[c] = owned[c] \/ (owned'[c] = {} /\ c \in deleted))
  BY <1>1, Typed, <1>2, <1>3 DEF Finishes, Finished, TypeInv
<1>5. /\ exec'[t] \in ExecType /\ exec'[t].paths = {} /\ exec'[t].pc \in {"next", "reclaim"}
      /\ exec'[t].left = exec[t].left
      /\ (exec'[t].pc = "reclaim" => exec[t].left = {<<"reclaim", TRUE>>})
  <2>1. /\ Over(t) \in ExecType /\ Over(t).left = exec[t].left /\ Over(t).paths = {}
        /\ Over(t).pc = IF exec[t].left = {<<"reclaim", TRUE>>} THEN "reclaim" ELSE "next"
    BY <1>1, Overs
  <2> QED BY <1>3, <2>1
<1>6. /\ task' \in [TaskIds -> TaskType] /\ owned' \in [TaskIds -> SUBSET Dirs]
      /\ exec' \in [Threads -> ExecType]
  <2>1. NoTask \in TaskType
    BY DEF NoTask, TaskType
  <2> QED BY <1>1, <1>3, <1>5, <2>1, Typed DEF TypeInv, Finishes, Finished
<1>7. ~task'[c].on
  BY <1>4, <1>5, <1>6 DEF NoTask
<1>8. exec'[t].pc = "reclaim" => t = "api" /\ host.up
  BY <1>1, Typed, <1>2, <1>3, <1>4, <1>5, <1>6, <1>7 DEF Works1, Lists
<1>9. TypeInv'
  BY <1>1, Typed, <1>2, <1>3, <1>4, <1>5, <1>6, <1>7, <1>8 DEF TypeInv, Finishes
<1>10. \A x \in TaskIds : Plan(x)' = Plan(x) /\ Own(x)' = Own(x)
  BY <1>6, <1>7, <1>8, Layout DEF Finishes
<1>11. Downtime'
  <2>1. ~host.up => exec["retry"].pc = "rest"
    BY <1>1 DEF Downtime, Resting
  <2> QED BY <1>1, Typed, <1>2, <1>3, <1>4, <1>5, <1>6, <1>7, <1>8, <1>10, <2>1
             DEF Downtime, AtRest, Active, Can1, Lax, SameSource, Resting, Threads
<1>12. Lives'
  <2> SUFFICES ASSUME NEW x \in Convs PROVE Life(x)'
    BY DEF Lives
  <2>1. Life(x) /\ x \in TaskIds
    BY <1>1, Typed DEF Lives
  <2>2. CASE x = c
    BY <1>1, Typed, <1>2, <1>3, <1>4, <1>5, <1>6, <1>7, <1>8, <1>10, <2>1, <2>2 DEF Life, SameSource
  <2>3. CASE x # c
    BY <1>1, Typed, <1>2, <1>3, <1>4, <1>5, <1>6, <1>7, <1>8, <1>10, <2>1, <2>3 DEF Life, SameSource
  <2> QED BY <2>2, <2>3
<1>13. Tasks'
  <2> SUFFICES ASSUME NEW x \in TaskIds, task'[x].on PROVE TaskOf(x)'
    BY DEF Tasks
  <2>1. task[x].on => TaskOf(x)
    BY <1>1 DEF Tasks
  <2>2. x # c
    BY <1>5, <1>6, <1>7, <1>8, <1>10
  <2> QED BY <1>2, <1>3, <1>4, <1>10, <2>1, <2>2 DEF TaskOf, Live, Can1
<1>14. Works1'
  <2> SUFFICES ASSUME NEW u \in Threads PROVE Lists(u)' /\ Tending(u)'
    BY DEF Works1
  <2>1. CASE u # t
    <3>1. \A x \in Convs : Beside(u, x)
      BY <1>2 DEF Beside
    <3> QED BY <1>1, <1>2, <1>3, <2>1, <3>1, Bystander, <1>9 DEF Can1
  <2>2. CASE u = t
    BY <1>1, <1>2, <1>3, <2>2, OverWorks DEF Works1
  <2> QED BY <2>1, <2>2
<1>15. Threats'
  <2> SUFFICES ASSUME NEW u \in Threads PROVE Threat(u)'
    BY DEF Threats
  <2>1. Threat(u)
    BY DEF ReclaimInv, Threats
  <2> QED BY <1>1, Typed, <1>2, <1>3, <1>4, <1>5, <1>6, <1>7, <1>8, <1>10, <2>1, ThreatFrame
             DEF Can1, Active
<1>16. Debts'
  <2> SUFFICES ASSUME NEW u \in Threads PROVE Debt(u)'
    BY DEF Debts
  <2>1. Debt(u)
    BY DEF ReclaimInv, Debts
  <2>2. CASE u # t
    BY <1>1, Typed, <1>2, <1>3, <1>4, <1>5, <1>6, <1>7, <1>8, <1>10, <2>1, <2>2, DebtFrame
       DEF Can1, Free1, Owes, Protected
  <2>3. CASE u = t
    BY <1>5, <1>10, <2>1, <2>3 DEF Debt, Excused, Unproved
  <2> QED BY <2>2, <2>3
<1>17. KeepsNeeded'
  <2> SUFFICES ASSUME NEW x \in Convs, conv'[x].live PROVE Provided(x)'
    BY <1>1, <1>10 DEF KeepsNeeded, Provided, Lax, TaskIds
  <2>1. conv[x].live => Provided(x)
    BY DEF ReclaimInv, KeepsNeeded, Provided, Lax
  <2>2. Life(x)
    BY <1>1 DEF Lives
  <2> QED BY <1>1, Typed, <1>2, <1>3, <1>4, <1>5, <1>6, <1>7, <1>8, <1>10, <2>1, <2>2
             DEF Life, Active, Can1, Lax, TaskIds, Provided
<1>18. KeepsSources'
  <2>1. KeepsSources
    BY DEF ReclaimInv
  <2> QED BY <1>1, Typed, <1>2, <1>3, <1>4, <1>5, <1>6, <1>7, <1>8, <1>10, <2>1
             DEF KeepsSources, SameSource, Can1
<1>19. DeletedAccounted'
  <2> SUFFICES ASSUME NEW x \in Convs, x \in deleted' PROVE Accounted(x)'
    BY DEF DeletedAccounted, Accounted, Unproved
  <2>1. x \in deleted => Accounted(x)
    BY DEF ReclaimInv, DeletedAccounted, Accounted, Unproved
  <2>2. Owes(x)' = Owes(x)
    BY <1>1, Typed, <1>2, <1>3, <1>4, <1>5, <1>6, <1>7, <1>8, <1>10 DEF Owes, Protected
  <2>3. CASE x = c
    BY <1>2, <1>10, <2>2, <2>3 DEF Excused, Can1, Accounted
  <2>4. CASE x # c
    BY <1>1, Typed, <1>2, <1>3, <1>4, <1>5, <1>6, <1>7, <1>8, <1>10, <2>1, <2>2, <2>4
       DEF Can1, TaskIds, Accounted
  <2> QED BY <2>3, <2>4 DEF Accounted
<1> QED BY <1>9, <1>11, <1>12, <1>13, <1>14, <1>15, <1>16, <1>17, <1>18, <1>19 DEF ReclaimInv

\* Planned anew, the task of a live Run still names its workspace only.
LEMMA enqueue_cleanupKeeps ==
    ASSUME ReclaimInv, NEW t \in Threads, enqueue_cleanup(t) PROVE ReclaimInv'
<1>1. TypeInv /\ Works1 /\ Tasks /\ Lives /\ Downtime
  BY DEF ReclaimInv
<1> PICK c \in TaskIds : c = exec[t].run
  BY <1>1, Typed
<1>2. /\ host' = host /\ conv' = conv /\ deleted' = deleted /\ sources' = sources /\ owned' = owned
      /\ shadow' = shadow /\ disk' = disk /\ exec[t].pc = "enqueue"
  BY DEF enqueue_cleanup
<1>3. /\ \A u \in Threads \ {t} : exec'[u] = exec[u]
      /\ \A x \in TaskIds \ {c} : task'[x] = task[x]
  BY DEF enqueue_cleanup, Step, TypeInv
<1>4. /\ exec'[t] = [exec[t] EXCEPT !.pc = "plan"]
      /\ task'[c] = [on |-> TRUE, targets |-> exec[t].targets, seq |-> exec[t].seq,
           lost |-> exec[t].lost]
  BY <1>1, Typed, <1>2, <1>3 DEF enqueue_cleanup, Step, TypeInv
<1>5. exec'[t] \in ExecType /\ task'[c] \in TaskType
  <2>1. /\ exec[t].targets \in SUBSET Dirs /\ exec[t].seq \in Nat /\ exec[t].lost \in BOOLEAN
        /\ exec[t] \in ExecType /\ "plan" \in Pcs /\ TRUE \in BOOLEAN
    BY <1>1, Typed DEF Pcs
  <2>2. exec'[t] \in ExecType
    BY <1>4, <2>1 DEF ExecType
  <2>3. task'[c] \in TaskType
    BY <1>4, <2>1 DEF TaskType
  <2> QED BY <2>2, <2>3
<1>6. /\ exec'[t].pc = "plan" /\ exec'[t].run = c /\ exec'[t].left = exec[t].left
      /\ exec'[t].locks = exec[t].locks
      /\ exec'[t].targets = exec[t].targets /\ exec'[t].seq = exec[t].seq
      /\ exec'[t].paths = exec[t].paths
      /\ task'[c].on /\ task'[c].targets = exec[t].targets /\ task'[c].seq = exec[t].seq
  BY <1>5, <1>4 DEF ExecType
<1>7. exec' \in [Threads -> ExecType] /\ task' \in [TaskIds -> TaskType]
  BY <1>1, <1>5 DEF enqueue_cleanup, Step, TypeInv
<1>8. /\ c \in deleted \/ Live(c)
      /\ exec[t].targets \subseteq Own(c) /\ exec[t].paths = {} /\ exec[t].seq # 0
      /\ Live(c) \/ Can1("clear") \/ Can1("lookup")
      /\ Live(c) => exec[t].seq <= conv[c].seq /\ exec[t].targets \subseteq {Work(c), Shadow}
      /\ Live(c) => Can1("lookup") \/ (Locked(t, c) /\ ~Active(c) /\ ~conv[c].keep)
  BY <1>1, <1>2 DEF Works1, Tending
<1>9. TypeInv'
  BY <1>1, Typed, <1>2, <1>3, <1>5, <1>6, <1>7, <1>8 DEF TypeInv, enqueue_cleanup
<1>10. \A x \in TaskIds : Plan(x)' = Plan(x) /\ Own(x)' = Own(x)
  BY <1>6, <1>7, <1>8, Layout DEF enqueue_cleanup
<1>11. Downtime'
  BY <1>1, Typed, <1>2, <1>3, <1>5, <1>6, <1>7, <1>8, <1>10
     DEF Downtime, AtRest, Active, Can1, Lax, SameSource, Resting, Threads
<1>12. Lives'
  <2> SUFFICES ASSUME NEW x \in Convs PROVE Life(x)'
    BY DEF Lives
  <2>1. Life(x)
    BY <1>1 DEF Lives
  <2> QED BY <1>1, Typed, <1>2, <1>3, <1>5, <1>6, <1>7, <1>8, <1>10, <2>1
             DEF Life, SameSource, TaskIds
<1>13. Tasks'
  <2> SUFFICES ASSUME NEW x \in TaskIds, task'[x].on PROVE TaskOf(x)'
    BY DEF Tasks
  <2>1. task[x].on => TaskOf(x)
    BY <1>1 DEF Tasks
  <2>2. CASE x = c
    BY <1>1, Typed, <1>2, <1>3, <1>5, <1>6, <1>7, <1>8, <1>10, <2>2 DEF TaskOf, Live, Can1
  <2>3. CASE x # c
    BY <1>1, Typed, <1>2, <1>3, <1>5, <1>6, <1>7, <1>8, <1>10, <2>1, <2>3 DEF TaskOf, Live, Can1
  <2> QED BY <2>2, <2>3
<1>14. Works1'
  <2> SUFFICES ASSUME NEW u \in Threads PROVE Lists(u)' /\ Tending(u)'
    BY DEF Works1
  <2>1. CASE u # t
    <3>1. \A x \in Convs : Beside(u, x)
      BY <1>1, Typed, <1>2, <1>3, <1>5, <1>6, <1>7, <1>8, <1>10, <2>1 DEF Beside, Can1, Free1
    <3> QED BY <1>1, <1>2, <1>3, <2>1, <3>1, Bystander, <1>9 DEF Can1
  <2>2. CASE u = t
    <3>1. Lists(t) /\ Tending(t)
      BY <1>1, Typed, <1>2, <1>3, <1>5, <1>6, <1>7, <1>8, <1>10 DEF Works1
    <3>2. Lists(t)'
      BY <1>1, Typed, <1>2, <1>3, <1>5, <1>6, <1>7, <1>8, <1>10, <3>1
         DEF Lists, Live, AtRest, Active, Locked, Can1
    <3>3. Tending(t)'
      BY <1>2, <1>3, <1>5, <1>6, <1>7, <1>8, <1>10, <3>1 DEF Tending, Live, Active, Locked, Can1
    <3> QED BY <2>2, <3>2, <3>3
  <2> QED BY <2>1, <2>2
<1>15. Threats'
  <2> SUFFICES ASSUME NEW u \in Threads PROVE Threat(u)'
    BY DEF Threats
  <2>1. Threat(u)
    BY DEF ReclaimInv, Threats
  <2> QED BY <1>1, Typed, <1>2, <1>3, <1>5, <1>6, <1>7, <1>8, <1>10, <2>1, ThreatFrame
             DEF Can1, Active
<1>16. Debts'
  <2> SUFFICES ASSUME NEW u \in Threads PROVE Debt(u)'
    BY DEF Debts
  <2>1. Debt(u)
    BY DEF ReclaimInv, Debts
  <2>2. CASE u # t
    BY <1>1, Typed, <1>2, <1>3, <1>5, <1>6, <1>7, <1>8, <1>10, <2>1, <2>2, DebtFrame
       DEF Can1, Owes, Protected
  <2>3. CASE u = t
    <3>1. c \in Convs \cap deleted => Excused
      BY <1>1, Typed, <1>2, <1>3, <1>5, <1>6, <1>7, <1>8, <1>10 DEF Lives, Life, Live, Excused
    <3> QED BY <1>1, Typed, <1>2, <1>3, <1>5, <1>6, <1>7, <1>8, <1>10, <2>3, <3>1
               DEF Debt, Excused, Can1
  <2> QED BY <2>2, <2>3
<1>17. KeepsNeeded'
  <2> SUFFICES ASSUME NEW x \in Convs, conv'[x].live PROVE Provided(x)'
    BY <1>1, <1>10 DEF KeepsNeeded, Provided, Lax, TaskIds
  <2>1. conv[x].live => Provided(x)
    BY DEF ReclaimInv, KeepsNeeded, Provided, Lax
  <2>2. Life(x)
    BY <1>1 DEF Lives
  <2> QED BY <1>1, Typed, <1>2, <1>3, <1>5, <1>6, <1>7, <1>8, <1>10, <2>1, <2>2
             DEF Life, Active, Can1, Lax, TaskIds, Provided
<1>18. KeepsSources'
  <2>1. KeepsSources
    BY DEF ReclaimInv
  <2> QED BY <1>1, Typed, <1>2, <1>3, <1>5, <1>6, <1>7, <1>8, <1>10, <2>1
             DEF KeepsSources, SameSource, Can1
<1>19. DeletedAccounted'
  <2> SUFFICES ASSUME NEW x \in Convs, x \in deleted' PROVE Accounted(x)'
    BY DEF DeletedAccounted, Accounted, Unproved
  <2>1. x \in deleted => Accounted(x)
    BY DEF ReclaimInv, DeletedAccounted, Accounted, Unproved
  <2>2. Owes(x)' = Owes(x)
    BY <1>1, Typed, <1>2, <1>3, <1>5, <1>6, <1>7, <1>8, <1>10 DEF Owes, Protected
  <2>3. CASE x = c
    BY <1>1, Typed, <1>2, <1>3, <1>5, <1>6, <1>7, <1>8, <1>10, <2>3
       DEF Lives, Life, Live, Can1, Accounted
  <2>4. CASE x # c
    BY <1>2, <1>3, <1>5, <2>1, <2>2, <2>4 DEF Can1, TaskIds, Accounted
  <2> QED BY <2>3, <2>4 DEF Accounted
<1> QED BY <1>9, <1>11, <1>12, <1>13, <1>14, <1>15, <1>16, <1>17, <1>18, <1>19 DEF ReclaimInv

\* Directories of a plan are nobody's need, so they may go.
LEMMA RemovingKeeps ==
    ASSUME ReclaimInv, NEW t \in Threads, Removes(t), Lists(t)', Tending(t)', Debt(t)'
    PROVE  ReclaimInv'
<1>1. TypeInv /\ Works1 /\ Tasks /\ Lives /\ Downtime
  BY DEF ReclaimInv
<1> PICK c \in TaskIds : c = exec[t].run
  BY <1>1, Typed
<1> PICK paths \in SUBSET exec[t].paths : Removed(paths)
  BY DEF Removes
<1>2. /\ conv' = conv /\ owned' = owned /\ deleted' = deleted /\ sources' = sources /\ task' = task
      /\ exec[t].pc \in {"plan", "remove"} /\ (\A u \in Threads \ {t} : exec'[u] = exec[u])
      /\ exec' \in [Threads -> ExecType] /\ exec'[t].paths = {}
      /\ host.up \/ (t = "api" /\ exec'[t].pc \notin {"queue", "clear", "reclaim"})
  BY DEF Removes
<1>3. /\ host' \in Machines /\ host'.up = host.up /\ host'.gone = host.gone /\ host'.can = host.can
      /\ host'.guard = host.guard /\ host'.plans = host.plans /\ host'.old = host.old
      /\ host'.inside = host.inside /\ host'.serial = host.serial
  BY <1>2 DEF Removes
<1>4. /\ disk' = disk \ paths /\ (shadow' = shadow \/ shadow' = NoShadow)
  BY <1>3 DEF Removed
<1>5. /\ shadow' \in ShadowType /\ shadow'.made \subseteq shadow.made
      /\ \A x \in shadow'.made : x \in shadow.pins => x \in shadow'.pins
  BY <1>1, Typed, <1>2, <1>3, <1>4 DEF NoShadow, ShadowType, TypeInv
<1>6. /\ c \in deleted \/ Live(c)
      /\ paths \subseteq Own(c) /\ (Live(c) => paths \subseteq {Work(c), Shadow})
      /\ Live(c) => Can1("lookup") \/ (~Active(c) /\ ~conv[c].keep)
      /\ Threat(t)
  <2>1. Tending(t) /\ Threat(t) /\ exec[t].run = c
    BY <1>1 DEF Works1, ReclaimInv, Threats
  <2>2. exec[t].paths \subseteq exec[t].targets /\ (c \in deleted \/ Live(c))
    BY <2>1, <1>2 DEF Tending
  <2> QED BY <2>1, <2>2, <1>2 DEF Tending
<1>7. /\ \A x \in Convs : Work(x) \in paths \/ Sess(x) \in paths => x = c
  <2>1. \A x \in TaskIds : Work(x) \in Own(c) \/ Sess(x) \in Own(c) => x = c
    BY <1>1, Apart DEF Own
  <2> QED BY <1>6, <2>1 DEF TaskIds
<1>8. TypeInv'
  BY <1>1, Typed, <1>2, <1>3, <1>4, <1>5, <1>6, <1>7 DEF TypeInv, Removes
<1>9. \A x \in TaskIds : Plan(x)' = Plan(x) /\ Own(x)' = Own(x)
  BY <1>5, <1>6, <1>7, Layout DEF Removes
<1>10. Downtime'
  <2>1. host.guard # "none" => Shadow \notin paths \/ Lax
    BY <1>1, Typed, <1>2, <1>3, <1>4, <1>5, <1>6, <1>7, <1>9 DEF Downtime, Threat
  <2> QED BY <1>1, Typed, <1>2, <1>3, <1>4, <1>5, <1>6, <1>7, <1>9, <2>1
             DEF Downtime, AtRest, Active, Can1, Lax, SameSource, Resting, Threads
<1>11. Lives'
  <2> SUFFICES ASSUME NEW x \in Convs PROVE Life(x)'
    BY DEF Lives
  <2>1. Life(x) /\ x \in TaskIds
    BY <1>1, Typed DEF Lives
  <2>2. ~conv[x].live /\ x \notin deleted => Plan(x) \notin paths
    BY <1>1, Typed, <1>2, <1>3, <1>4, <1>5, <1>6, <1>7, <1>9, <2>1, Apart DEF Life, Own, Live
  <2> QED BY <1>1, Typed, <1>2, <1>3, <1>4, <1>5, <1>6, <1>7, <1>9, <2>1, <2>2 DEF Life, SameSource
<1>12. Tasks'
  <2> SUFFICES ASSUME NEW x \in TaskIds, task'[x].on PROVE TaskOf(x)'
    BY DEF Tasks
  <2>1. task[x].on => TaskOf(x)
    BY <1>1 DEF Tasks
  <2> QED BY <1>1, Typed, <1>2, <1>3, <1>4, <1>5, <1>6, <1>7, <1>9, <2>1 DEF TaskOf, Live, Can1
<1>13. Works1'
  <2> SUFFICES ASSUME NEW u \in Threads PROVE Lists(u)' /\ Tending(u)'
    BY DEF Works1
  <2>1. CASE u # t
    <3>1. \A x \in Convs : Beside(u, x)
      BY <1>2 DEF Beside
    <3> QED BY <1>1, <1>2, <1>3, <2>1, <3>1, Bystander, <1>8 DEF Can1
  <2>2. CASE u = t
    BY <2>2
  <2> QED BY <2>1, <2>2
<1>14. Threats'
  <2> SUFFICES ASSUME NEW u \in Threads PROVE Threat(u)'
    BY DEF Threats
  <2>1. Threat(u)
    BY DEF ReclaimInv, Threats
  <2> QED BY <1>1, Typed, <1>2, <1>3, <1>4, <1>5, <1>6, <1>7, <1>9, <2>1, ThreatFrame
             DEF Can1, Active
<1>15. Debts'
  <2> SUFFICES ASSUME NEW u \in Threads PROVE Debt(u)'
    BY DEF Debts
  <2>1. Debt(u)
    BY DEF ReclaimInv, Debts
  <2>2. CASE u # t
    BY <1>1, Typed, <1>2, <1>3, <1>4, <1>5, <1>6, <1>7, <1>9, <2>1, <2>2, DebtFrame
       DEF Can1, Owes, Protected
  <2>3. CASE u = t
    BY <2>3
  <2> QED BY <2>2, <2>3
<1>16. KeepsNeeded'
  <2> SUFFICES ASSUME NEW x \in Convs, conv[x].live
               PROVE  /\ conv[x].keep => Work(x) \in disk' \/ Can1("lookup")
                      /\ conv[x].ran => Sess(x) \in disk'
                      /\ Plan(x) \in disk'
                      /\ Active(x) /\ conv[x].head => Shadow \in disk' \/ Lax
                      /\ Part \in owned[x] => Part \in disk'
                      /\ x \in shadow'.made => x \in shadow'.pins
    BY <1>1, Typed, <1>2, <1>3, <1>4, <1>5, <1>6, <1>7, <1>9
       DEF KeepsNeeded, Active, Lax, Can1, TaskIds
  <2>1. /\ conv[x].keep => Work(x) \in disk \/ Can1("lookup")
        /\ conv[x].ran => Sess(x) \in disk
        /\ Plan(x) \in disk
        /\ Active(x) /\ conv[x].head => Shadow \in disk \/ Lax
        /\ Part \in owned[x] => Part \in disk
        /\ x \in shadow.made => x \in shadow.pins
    BY DEF ReclaimInv, KeepsNeeded, Provided, Lax
  <2>2. Life(x) /\ Live(x) /\ x \notin deleted /\ x \in TaskIds
    BY <1>1, Typed DEF Lives, Life, Live
  <2>3. (conv[x].keep => Work(x) \notin paths \/ Can1("lookup")) /\ Sess(x) \notin paths
    BY <1>1, Typed, <1>2, <1>3, <1>4, <1>5, <1>6, <1>7, <1>9, <2>2, Apart
  <2>4. Plan(x) \notin paths /\ (Part \in owned[x] => Part \notin paths)
    BY <1>5, <1>6, <1>7, <1>9 DEF Threat
  <2>5. Active(x) /\ conv[x].head => Shadow \notin paths \/ Lax
    BY <1>6, <1>7, <1>9, <2>2 DEF Threat, Life
  <2> QED BY <1>1, Typed, <1>2, <1>3, <1>4, <1>5, <1>6, <1>7, <1>9, <2>1, <2>3, <2>4, <2>5
             DEF Provided
<1>17. KeepsSources'
  <2>1. KeepsSources
    BY DEF ReclaimInv
  <2> QED BY <1>1, Typed, <1>2, <1>3, <1>4, <1>5, <1>6, <1>7, <1>9, <2>1
             DEF KeepsSources, SameSource, Can1, Threat
<1>18. DeletedAccounted'
  <2> SUFFICES ASSUME NEW x \in Convs, x \in deleted' PROVE Accounted(x)'
    BY DEF DeletedAccounted, Accounted, Unproved
  <2>1. x \in deleted => Accounted(x)
    BY DEF ReclaimInv, DeletedAccounted, Accounted, Unproved
  <2> QED BY <1>2, <1>3, <1>4, <2>1 DEF Owes, Protected, Can1, TaskIds, Accounted
<1> QED BY <1>8, <1>10, <1>11, <1>12, <1>13, <1>14, <1>15, <1>16, <1>17, <1>18 DEF ReclaimInv

\* A plan keeps what is shared or holds a source, and everything else that is owed stays in it.
LEMMA PlanPathsKeeps ==
    ASSUME ReclaimInv, NEW t \in Threads, PlanPaths(t) PROVE ReclaimInv'
<1>1. TypeInv /\ Works1 /\ Tasks /\ Lives /\ Downtime
  BY DEF ReclaimInv
<1> PICK c \in TaskIds : c = exec[t].run
  BY <1>1, Typed
<1>found. PICK found \in BOOLEAN : found = (exec[t].lost /\ ~host.gone)
  BY Typed
<1>lost. PICK lost \in BOOLEAN : lost = (exec[t].lost /\ ~found)
  BY Typed
<1>all. PICK all : all = exec[t].targets \cup (IF found THEN configuration_targets(c) ELSE {})
  OBVIOUS
<1>paths. PICK paths :
      paths = (all \ {x \in all : cleanup_target_is_shared(c, x) \/ Protected(x)}) \cap disk
  OBVIOUS
<1>2. /\ host' = host /\ conv' = conv /\ deleted' = deleted /\ sources' = sources /\ owned' = owned
      /\ disk' = disk /\ exec[t].pc = "plan"
  BY DEF PlanPaths
<1>3. /\ \A u \in Threads \ {t} : exec'[u] = exec[u]
      /\ \A x \in TaskIds \ {c} : task'[x] = task[x]
  BY <1>1, Typed, <1>2 DEF PlanPaths, Step, TypeInv
<1>4. /\ c \in deleted \/ Live(c)
      /\ exec[t].targets \subseteq Own(c) /\ (exec[t].seq = 0 => c \in deleted)
      /\ exec[t].seq # 0 => Live(c) \/ Can1("clear") \/ Can1("lookup")
      /\ Live(c) => exec[t].seq <= conv[c].seq /\ exec[t].targets \subseteq {Work(c), Shadow}
      /\ Live(c) => Can1("lookup") \/ (Locked(t, c) /\ ~Active(c) /\ ~conv[c].keep)
  BY <1>1, Typed, <1>2, <1>3 DEF Works1, Tending
<1>5. /\ all \subseteq Own(c) /\ all \subseteq Dirs /\ (Live(c) => all \subseteq {Work(c), Shadow})
      /\ paths \subseteq all /\ paths \subseteq disk
  <2>1. configuration_targets(c) \subseteq {Work(c), Shadow}
    BY DEF configuration_targets
  <2>2. Own(c) \subseteq Dirs
    BY <1>1, Apart
  <2>3. all \subseteq Own(c) /\ (Live(c) => all \subseteq {Work(c), Shadow})
    BY <1>4, <1>all, <2>1 DEF Own
  <2> QED BY <2>2, <2>3, <1>paths
<1>6. /\ task' = task \/ (found /\ task'[c] = [task[c] EXCEPT !.targets = all, !.lost = FALSE])
  <2>1. CASE found
    <3>1. task' = [task EXCEPT ![c].targets = all, ![c].lost = FALSE]
      BY <2>1, <1>all, <1>found DEF PlanPaths
    <3> QED BY <1>1, <2>1, <3>1 DEF TypeInv
  <2>2. CASE ~found
    BY <2>2, <1>found DEF PlanPaths
  <2> QED BY <2>1, <2>2
<1>7. /\ exec'[t] = [exec[t] EXCEPT !.pc = "remove", !.targets = all, !.lost = lost,
           !.paths = paths]
      /\ exec' =
              [exec EXCEPT ![t] = [exec[t] EXCEPT !.pc = "remove", !.targets = all, !.lost = lost,
                                                 !.paths = paths]]
  <2>1. exec' =
          [exec EXCEPT ![t] = [exec[t] EXCEPT !.pc = "remove", !.targets = all, !.lost = lost,
                                             !.paths = paths]]
    BY <1>all, <1>paths, <1>lost, <1>found DEF PlanPaths, Step
  <2> QED BY <1>1, <2>1 DEF TypeInv
<1>8. exec'[t] \in ExecType /\ task'[c] \in TaskType
  <2>1. /\ all \in SUBSET Dirs /\ paths \in SUBSET Dirs
        /\ exec[t] \in ExecType /\ "remove" \in Pcs /\ FALSE \in BOOLEAN /\ task[c] \in TaskType
        /\ lost \in BOOLEAN
    BY <1>1, <1>5, <1>lost, Typed DEF Pcs
  <2>2. exec'[t] \in ExecType
    <3>1. PICK e \in ExecType : e = exec[t]
      BY <2>1
    <3>2. PICK s \in SUBSET Dirs : s = all
      BY <2>1
    <3>3. PICK g : g = [e EXCEPT !.pc = "remove", !.targets = s, !.lost = lost, !.paths = paths]
      OBVIOUS
    <3>4. g \in ExecType
      <4>1. "remove" \in Pcs /\ s \in SUBSET Dirs /\ paths \in SUBSET Dirs /\ lost \in BOOLEAN
        BY <2>1
      <4> QED BY <3>1, <3>3, <4>1 DEF ExecType
    <3> QED BY <1>7, <3>1, <3>2, <3>3, <3>4
  <2>3. task'[c] \in TaskType
    <3>1. [task[c] EXCEPT !.targets = all, !.lost = FALSE] \in TaskType
      BY <2>1 DEF TaskType
    <3> QED BY <1>6, <2>1, <3>1
  <2> QED BY <2>2, <2>3
<1>9. /\ exec'[t].pc = "remove" /\ exec'[t].run = c /\ exec'[t].left = exec[t].left
      /\ exec'[t].locks = exec[t].locks
      /\ exec'[t].targets = all /\ exec'[t].seq = exec[t].seq /\ exec'[t].paths = paths
      /\ exec'[t].lost = lost
  BY <1>6, <1>8, <1>7, <1>lost DEF ExecType
<1>10. /\ task'[c].on = task[c].on /\ task'[c].seq = task[c].seq
       /\ task'[c].targets = task[c].targets \/ task'[c].targets = all
       /\ task' = task \/ (found /\ task'[c].targets = all /\ ~task'[c].lost)
  BY <1>5, <1>6, <1>8, <1>9 DEF TaskType
<1>11. exec' \in [Threads -> ExecType] /\ task' \in [TaskIds -> TaskType]
  <2>1. task' = task \/ task' = [task EXCEPT ![c].targets = all, ![c].lost = FALSE]
    BY <1>all, <1>found DEF PlanPaths
  <2> QED BY <1>1, <1>7, <1>8, <2>1 DEF TypeInv
<1>12. /\ shadow' \in ShadowType /\ shadow'.made = shadow.made
       /\ \A x \in Convs : x \in shadow.pins /\ conv[x].live => x \in shadow'.pins
  <2>1. shadow \in ShadowType
    BY <1>1 DEF TypeInv
  <2>2. CASE shadow' = shadow
    BY <2>1, <2>2
  <2>3. CASE exec[t].seq = 0 /\ shadow' = prune_shadow_run_refs(c)
    <3>1. PICK refs \in SUBSET Convs : refs = shadow.refs \ {c}
      BY <2>1 DEF ShadowType
    <3>2. PICK pins \in SUBSET Convs :
            pins = {x \in shadow.pins : x \in refs \cup protected_shadow_objects(c)}
      BY <2>1 DEF ShadowType
    <3>3. shadow' = [shadow EXCEPT !.refs = refs, !.pins = pins]
      BY <2>3, <3>1, <3>2 DEF prune_shadow_run_refs
    <3>4. shadow' \in ShadowType /\ shadow'.made = shadow.made /\ shadow'.pins = pins
      BY <2>1, <3>3 DEF ShadowType
    <3>5. ~Live(c)
      BY <1>1, <1>4, <2>3 DEF Lives, Life, Live
    <3> QED BY <3>2, <3>4, <3>5 DEF protected_shadow_objects, Live
  <2> QED BY <2>2, <2>3 DEF PlanPaths
<1>13. TypeInv'
  BY <1>1, <1>2, <1>11, <1>12 DEF TypeInv
<1>14. \A x \in TaskIds : Plan(x)' = Plan(x) /\ Own(x)' = Own(x)
  BY <1>8, <1>9, <1>10, <1>11, <1>12, Layout DEF PlanPaths
<1>15. Downtime'
  BY <1>1, Typed, <1>2, <1>3, <1>4, <1>5, <1>6, <1>8, <1>9, <1>10, <1>11, <1>12, <1>14
     DEF Downtime, AtRest, Active, Can1, Lax, SameSource, Resting
<1>16. Lives'
  <2> SUFFICES ASSUME NEW x \in Convs PROVE Life(x)'
    BY DEF Lives
  <2>1. Life(x)
    BY <1>1 DEF Lives
  <2> QED BY <1>1, Typed, <1>2, <1>3, <1>4, <1>5, <1>6, <1>8, <1>9, <1>10, <1>11, <1>12, <1>14, <2>1
             DEF Life, SameSource, TaskIds
<1>17. Tasks'
  <2> SUFFICES ASSUME NEW x \in TaskIds, task'[x].on PROVE TaskOf(x)'
    BY DEF Tasks
  <2>1. task[x].on => TaskOf(x)
    BY <1>1 DEF Tasks
  <2>2. CASE x = c
    BY <1>2, <1>4, <1>5, <1>10, <1>14, <2>1, <2>2 DEF TaskOf, Live, Can1
  <2>3. CASE x # c
    BY <1>2, <1>3, <1>14, <2>1, <2>3 DEF TaskOf, Live, Can1
  <2> QED BY <2>2, <2>3
<1>18. Works1'
  <2> SUFFICES ASSUME NEW u \in Threads PROVE Lists(u)' /\ Tending(u)'
    BY DEF Works1
  <2>1. CASE u # t
    <3>1. \A x \in Convs : Beside(u, x)
      BY <1>2 DEF Beside
    <3> QED BY <1>1, <1>2, <1>3, <2>1, <3>1, Bystander, <1>13 DEF Can1
  <2>2. CASE u = t
    <3>1. Lists(t) /\ Tending(t)
      BY <1>1, <1>14 DEF Works1
    <3>2. Lists(t)'
      BY <1>1, Typed, <1>2, <1>3, <1>4, <1>5, <1>6, <1>8, <1>9, <1>10, <1>11, <1>12, <1>14, <3>1
         DEF Lists, Live, AtRest, Active, Locked, Can1
    <3>3. Tending(t)'
      BY <1>1, Typed, <1>2, <1>3, <1>4, <1>5, <1>6, <1>8, <1>9, <1>10, <1>11, <1>12, <1>14, <3>1
         DEF Tending, Live, Active, Locked, Can1
    <3> QED BY <2>2, <3>2, <3>3
  <2> QED BY <2>1, <2>2
<1>19. Threats'
  <2> SUFFICES ASSUME NEW u \in Threads PROVE Threat(u)'
    BY DEF Threats
  <2>1. Threat(u)
    BY DEF ReclaimInv, Threats
  <2>2. CASE u # t
    BY <1>1, <1>2, <1>3, <2>1, <2>2, ThreatFrame DEF Can1, Active
  <2>3. CASE u = t
    <3>1. \A x \in paths : ~cleanup_target_is_shared(c, x) /\ ~Protected(x)
      BY <1>paths
    <3>2. \A x \in Convs : conv[x].live =>
            Plan(x) \notin paths /\ ~(Part \in paths /\ Part \in owned[x])
      <4> SUFFICES ASSUME NEW x \in Convs, conv[x].live
                   PROVE  Plan(x) \notin paths /\ ~(Part \in paths /\ Part \in owned[x])
        OBVIOUS
      <4>1. CASE x = c
        BY <1>1, <1>5, <4>1, Apart DEF Live
      <4>2. CASE x # c
        BY <1>1, <3>1, <4>2, Apart, Typed DEF cleanup_target_is_shared
      <4> QED BY <4>1, <4>2
    <3>3. Shadow \in paths =>
           Lax \/ \A x \in Convs : Active(x) => ~SameSource(x) \/ x \in host.serial
      <4> SUFFICES ASSUME Shadow \in paths, ~Lax, NEW x \in Convs, Active(x)
                   PROVE  ~SameSource(x) \/ x \in host.serial
        OBVIOUS
      <4>1. ~shadow_repo_referenced_by(c) /\ ~host.gone
        BY <1>1, <3>1 DEF cleanup_target_is_shared, Downtime
      <4>2. conv[x].live /\ x \notin deleted /\ conv[x].phase = "running"
        BY <1>1 DEF Lives, Life, Active
      <4>3. x # c
        BY <1>4, <4>2 DEF Live, Lax
      <4> QED BY <4>1, <4>2, <4>3 DEF shadow_repo_referenced_by
    <3>4. \A x \in sources : host.inside[x] \notin paths
      BY <3>1 DEF Protected
    <3>5. \A x \in Convs : Plan(x)' = Plan(x)
      BY <1>1, <1>14, Typed
    <3> QED BY <1>2, <1>9, <2>3, <3>2, <3>3, <3>4, <3>5 DEF Threat, Lax, Can1, Active, SameSource
  <2> QED BY <2>2, <2>3
<1>20. Debts'
  <2> SUFFICES ASSUME NEW u \in Threads PROVE Debt(u)'
    BY DEF Debts
  <2>1. Debt(u)
    BY DEF ReclaimInv, Debts
  <2>2. CASE u # t
    BY <1>1, <1>2, <1>3, <2>1, <2>2, DebtFrame DEF Can1, Owes, Protected
  <2>3. CASE u = t
    <3> SUFFICES ASSUME c \in deleted \cap Convs, ~Excused, ~(exec[t].lost /\ ~found)
                 PROVE  Owes(c) \subseteq paths
      <4>1. Owes(c)' = Owes(c)
        BY <1>2 DEF Owes, Protected
      <4>2. Excused' <=> Excused
        BY <1>2 DEF Excused, Can1
      <4> QED BY <1>2, <1>9, <1>lost, <2>3, <4>1, <4>2 DEF Debt
    <3>1. Owes(c) \ Unproved(exec[t].lost, c) \subseteq exec[t].targets
      BY <1>2, <2>1, <2>3 DEF Debt
    <3>2. found => Work(c) \in configuration_targets(c)
      BY <1>found DEF configuration_targets
    <3>3. Owes(c) \subseteq all
      BY <3>1, <3>2, <1>all, <1>found DEF Unproved
    <3>4. /\ Owes(c) \subseteq disk /\ Owes(c) \subseteq {Work(c), Sess(c)}
          /\ \A x \in Owes(c) : ~Protected(x)
      BY DEF Owes
    <3>5. \A x \in Owes(c) : ~cleanup_target_is_shared(c, x)
      <4>1. \A d \in Convs \ {c} : owned[d] \subseteq Own(d) /\ d \in TaskIds
        BY <1>1, Typed DEF Lives, Life
      <4>2. \A d \in Convs \ {c} : /\ Work(c) \notin Own(d) /\ Sess(c) \notin Own(d)
                                   /\ Work(c) # Plan(d) /\ Sess(c) # Plan(d)
        BY <1>1, <4>1, Apart DEF Own
      <4>3. Work(c) # Shadow /\ Sess(c) # Shadow
        BY <1>1, Apart
      <4> QED BY <3>4, <4>1, <4>2, <4>3 DEF cleanup_target_is_shared
    <3> QED BY <3>3, <3>4, <3>5, <1>paths
  <2> QED BY <2>2, <2>3
<1>21. KeepsNeeded'
  <2> SUFFICES ASSUME NEW x \in Convs, conv'[x].live PROVE Provided(x)'
    BY <1>1, <1>14 DEF KeepsNeeded, Provided, Lax, TaskIds
  <2>1. conv[x].live => Provided(x)
    BY DEF ReclaimInv, KeepsNeeded, Provided, Lax
  <2>2. Life(x)
    BY <1>1 DEF Lives
  <2> QED BY <1>1, Typed, <1>2, <1>3, <1>4, <1>5, <1>6, <1>8, <1>9, <1>10, <1>11, <1>12, <1>14,
             <2>1, <2>2
             DEF Life, Active, Can1, Lax, TaskIds, Provided
<1>22. KeepsSources'
  <2>1. KeepsSources
    BY DEF ReclaimInv
  <2> QED BY <1>1, Typed, <1>2, <1>3, <1>4, <1>5, <1>6, <1>8, <1>9, <1>10, <1>11, <1>12, <1>14, <2>1
             DEF KeepsSources, SameSource, Can1
<1>23. DeletedAccounted'
  <2> SUFFICES ASSUME NEW x \in Convs, x \in deleted' PROVE Accounted(x)'
    BY DEF DeletedAccounted, Accounted, Unproved
  <2>1. x \in deleted => Accounted(x)
    BY DEF ReclaimInv, DeletedAccounted, Accounted, Unproved
  <2>2. Owes(x)' = Owes(x)
    BY <1>2 DEF Owes, Protected
  <2>3. CASE x = c /\ task' # task
    <3>1. Debt(t)
      BY DEF ReclaimInv, Debts
    <3>2. ~Excused => Owes(c) \ Unproved(exec[t].lost, c) \subseteq exec[t].targets
      BY <1>2, <2>3, <3>1 DEF Debt
    <3>3. found /\ Work(c) \in configuration_targets(c)
      BY <1>10, <1>found, <2>3 DEF configuration_targets
    <3>4. ~Excused => Owes(c) \subseteq all
      BY <3>2, <3>3, <1>all DEF Unproved
    <3> QED BY <1>2, <1>10, <2>1, <2>2, <2>3, <3>4 DEF Can1, Excused, Accounted
  <2>4. CASE x # c \/ task' = task
    BY <1>2, <1>3, <2>1, <2>2, <2>4 DEF Can1, TaskIds, Accounted
  <2> QED BY <2>3, <2>4 DEF Accounted
<1> QED BY <1>13, <1>15, <1>16, <1>17, <1>18, <1>19, <1>20, <1>21, <1>22, <1>23 DEF ReclaimInv

\* The source folder is moved while nothing runs.
LEMMA MoveSourceKeeps ==
    ASSUME ReclaimInv, MoveSource PROVE ReclaimInv'
<1>1. TypeInv /\ Works1 /\ Tasks /\ Lives /\ Downtime
  BY DEF ReclaimInv
<1>2. /\ conv' = conv /\ owned' = owned /\ task' = task /\ deleted' = deleted /\ disk' = disk
      /\ shadow' = shadow /\ sources' = sources /\ exec' = exec
      /\ \A x \in Convs : ~Active(x)
  BY DEF MoveSource
<1>3. /\ host'.up = host.up /\ host'.guard = host.guard /\ host'.plans = host.plans
      /\ host'.old = host.old
      /\ host'.inside = host.inside /\ host'.serial = host.serial
      /\ host'.can \in {host.can, host.can \ {"move"}}
  BY DEF MoveSource, TypeInv, Machines
<1>4. host' \in Machines
  <2>1. PICK g \in BOOLEAN : g = ~host.gone
    OBVIOUS
  <2>2. PICK cs \in SUBSET Faults : cs = IF host.gone THEN host.can \ {"move"} ELSE host.can
    BY <1>1 DEF TypeInv, Machines
  <2>3. host' = [host EXCEPT !.gone = g, !.can = cs] /\ host \in Machines
    BY <1>1, <2>1, <2>2 DEF MoveSource, TypeInv
  <2> QED BY <2>3 DEF Machines
<1>5. /\ host' \in Machines /\ host'.up = host.up /\ host'.guard = host.guard
      /\ host'.plans = host.plans
      /\ host'.old = host.old /\ host'.inside = host.inside /\ host'.serial = host.serial
      /\ Can1("clear")' <=> Can1("clear")
      /\ Can1("lookup")' <=> Can1("lookup")
      /\ Can1("late")' <=> Can1("late")
  <2>1. \A x \in {"clear", "lookup", "late"} : x \in host'.can <=> x \in host.can
    BY <1>3
  <2> QED BY <1>3, <1>4, <2>1 DEF Can1
<1>6. TypeInv'
  BY <1>1, <1>2, <1>5 DEF TypeInv
<1>7. \A x \in TaskIds : Plan(x)' = Plan(x) /\ Own(x)' = Own(x)
  BY <1>5, Layout DEF MoveSource
<1>8. Downtime'
  BY <1>1, <1>2, <1>5, <1>7 DEF Downtime, AtRest, Active
<1>9. Lives'
  <2> SUFFICES ASSUME NEW x \in Convs PROVE Life(x)'
    BY DEF Lives
  <2>1. Life(x)
    BY <1>1 DEF Lives
  <2> QED BY <1>1, Typed, <1>2, <1>5, <1>7, <2>1 DEF Life, SameSource, TaskIds
<1>10. Tasks'
  <2> SUFFICES ASSUME NEW x \in TaskIds, task'[x].on PROVE TaskOf(x)'
    BY DEF Tasks
  <2>1. task[x].on => TaskOf(x)
    BY <1>1 DEF Tasks
  <2> QED BY <1>1, Typed, <1>2, <1>5, <1>7, <2>1 DEF TaskOf, Live, Can1
<1>11. Works1'
  <2> SUFFICES ASSUME NEW u \in Threads PROVE Lists(u)' /\ Tending(u)'
    BY DEF Works1
  <2>1. \A x \in Convs : Beside(u, x)
    BY <1>1, Typed, <1>2, <1>5, <1>7 DEF Beside, Can1, Free1
  <2> QED BY <1>1, <1>2, <1>5, <2>1, Bystander, <1>6 DEF Can1
<1>12. Threats'
  <2> SUFFICES ASSUME NEW u \in Threads PROVE Threat(u)'
    BY DEF Threats
  <2>1. Threat(u)
    BY DEF ReclaimInv, Threats
  <2> QED BY <1>1, Typed, <1>2, <1>5, <1>7, <2>1, ThreatFrame DEF Can1, Active
<1>13. Debts'
  <2> SUFFICES ASSUME NEW u \in Threads PROVE Debt(u)'
    BY DEF Debts
  <2>1. Debt(u)
    BY DEF ReclaimInv, Debts
  <2> QED BY <1>1, Typed, <1>2, <1>5, <1>7, <2>1, DebtFrame DEF Can1, Free1, Owes, Protected
<1>14. KeepsNeeded'
  <2> SUFFICES ASSUME NEW x \in Convs, conv'[x].live PROVE Provided(x)'
    BY <1>1, <1>7 DEF KeepsNeeded, Provided, Lax, TaskIds
  <2>1. conv[x].live => Provided(x)
    BY DEF ReclaimInv, KeepsNeeded, Provided, Lax
  <2>2. Life(x)
    BY <1>1 DEF Lives
  <2> QED BY <1>1, Typed, <1>2, <1>5, <1>7, <2>1, <2>2
             DEF Life, Active, Can1, Lax, TaskIds, Provided
<1>15. KeepsSources'
  <2>1. KeepsSources
    BY DEF ReclaimInv
  <2> QED BY <1>1, Typed, <1>2, <1>5, <1>7, <2>1 DEF KeepsSources, SameSource, Can1
<1>16. DeletedAccounted'
  <2> SUFFICES ASSUME NEW x \in Convs, x \in deleted' PROVE Accounted(x)'
    BY DEF DeletedAccounted, Accounted, Unproved
  <2>1. x \in deleted => Accounted(x)
    BY DEF ReclaimInv, DeletedAccounted, Accounted, Unproved
  <2> QED BY <1>1, Typed, <1>2, <1>5, <1>7, <2>1 DEF Owes, Protected, Can1, TaskIds, Accounted
<1> QED BY <1>6, <1>8, <1>9, <1>10, <1>11, <1>12, <1>13, <1>14, <1>15, <1>16 DEF ReclaimInv

\* A crash ends both threads; the tasks stay.
LEMMA ReclaimCrashKeeps ==
    ASSUME ReclaimInv, ReclaimCrash PROVE ReclaimInv'
<1>1. TypeInv /\ Works1 /\ Tasks /\ Lives /\ Downtime
  BY DEF ReclaimInv
<1>2. /\ owned' = owned /\ task' = task /\ deleted' = deleted /\ disk' = disk
      /\ shadow' = shadow /\ sources' = sources /\ exec' = [u \in Threads |-> Resting] /\ host.up
  BY DEF ReclaimCrash
<1>3. /\ host'.guard = "none" /\ host'.plans = host.plans /\ host'.old = host.old /\ ~host'.up
      /\ host'.inside = host.inside /\ host'.serial = host.serial /\ host'.gone = host.gone
      /\ host'.can = host.can
  BY <1>1, Typed, <1>2 DEF ReclaimCrash, TypeInv, Machines
<1>4. host' \in Machines
  <2>0. host.crashes \in Nat /\ host.crashes > 0
    BY <1>1 DEF ReclaimCrash, TypeInv, Machines
  <2>1. PICK n \in Nat : n = host.crashes - 1
    BY <2>0
  <2>2. host' = [host EXCEPT !.up = FALSE, !.crashes = n, !.guard = "none"] /\ host \in Machines
    BY <1>1, <2>1 DEF ReclaimCrash, TypeInv
  <2> QED BY <2>2 DEF Machines
<1>5. /\ \A u \in Threads :
           exec'[u] = Resting /\ Resting.pc = "rest" /\ Resting.paths = {} /\ Resting.left = {}
      /\ exec' \in [Threads -> ExecType]
  <2>1. Resting \in ExecType
    BY Marks
  <2>2. Resting.pc = "rest" /\ Resting.paths = {} /\ Resting.left = {}
    BY DEF Resting
  <2> QED BY <1>2, <2>1, <2>2
<1>6. \A x \in Convs :
        conv'[x] = IF Active(x) THEN [conv[x] EXCEPT !.phase = "idle", !.seq = @ + 1] ELSE conv[x]
  <2> QED BY DEF ReclaimCrash
<1>7. /\ conv' \in [Convs -> ConvType]
      /\ \A x \in Convs : ~Active(x) => conv'[x] = conv[x]
      /\ \A x \in Convs : Active(x) => conv'[x].phase = "idle" /\ conv'[x].seq = conv[x].seq + 1
      /\ \A x \in Convs : conv'[x].live = conv[x].live /\ conv'[x].ran = conv[x].ran
           /\ conv'[x].head = conv[x].head
      /\ \A x \in Convs : conv'[x].keep = conv[x].keep /\ conv'[x].seq >= conv[x].seq
  <2>1. \A x \in Convs : conv[x] \in ConvType /\ conv[x].seq \in Nat
    BY <1>1, Typed
  <2>2. ASSUME NEW x \in Convs, Active(x)
        PROVE  /\ conv'[x] \in ConvType /\ conv'[x].phase = "idle" /\ conv'[x].seq = conv[x].seq + 1
               /\ conv'[x].live = conv[x].live /\ conv'[x].ran = conv[x].ran
               /\ conv'[x].head = conv[x].head /\ conv'[x].keep = conv[x].keep
    <3>1. PICK n \in Nat : n = conv[x].seq + 1
      BY <2>1
    <3>2. conv'[x] = [conv[x] EXCEPT !.phase = "idle", !.seq = n]
      BY <1>6, <2>2, <3>1
    <3>3. conv'[x] \in ConvType
      BY <2>1, <3>1, <3>2 DEF ConvType
    <3> QED BY <2>1, <3>1, <3>2, <3>3 DEF ConvType
  <2>3. \A x \in Convs : ~Active(x) => conv'[x] = conv[x]
    BY <1>6
  <2>4. \A x \in Convs : conv'[x] \in ConvType
    BY <2>1, <2>2, <2>3
  <2>5. conv' = [x \in Convs |-> conv'[x]]
    BY DEF ReclaimCrash
  <2>6. conv' \in [Convs -> ConvType]
    BY <2>4, <2>5
  <2>7. \A x \in Convs : conv'[x].seq >= conv[x].seq
    BY <2>1, <2>2, <2>3
  <2> QED BY <2>2, <2>3, <2>6, <2>7
<1>8. TypeInv'
  BY <1>1, <1>2, <1>3, <1>4, <1>5, <1>7 DEF TypeInv
<1>9. \A x \in TaskIds : Plan(x)' = Plan(x) /\ Own(x)' = Own(x)
  BY <1>1, Typed, <1>2, <1>3, <1>4, <1>5, <1>7, Layout DEF ReclaimCrash
<1>10. Downtime'
  BY <1>1, Typed, <1>2, <1>3, <1>4, <1>5, <1>7, <1>9
     DEF Downtime, AtRest, Active, Can1, Lax, SameSource, Resting
<1>11. Lives'
  <2> SUFFICES ASSUME NEW x \in Convs PROVE Life(x)'
    BY DEF Lives
  <2>1. Life(x)
    BY <1>1 DEF Lives
  <2> QED BY <1>1, Typed, <1>2, <1>3, <1>4, <1>5, <1>7, <1>9, <2>1 DEF Life, SameSource, TaskIds
<1>12. Tasks'
  <2> SUFFICES ASSUME NEW x \in TaskIds, task'[x].on PROVE TaskOf(x)'
    BY DEF Tasks
  <2>1. task[x].on => TaskOf(x)
    BY <1>1 DEF Tasks
  <2> QED BY <1>1, Typed, <1>2, <1>3, <1>4, <1>5, <1>7, <1>9, <2>1 DEF TaskOf, Live, Can1
<1>13. Works1'
  <2> SUFFICES ASSUME NEW u \in Threads PROVE Lists(u)' /\ Tending(u)'
    BY DEF Works1
  <2> QED BY <1>5 DEF Lists, Tending, AtRest
<1>14. Threats'
  <2> SUFFICES ASSUME NEW u \in Threads PROVE Threat(u)'
    BY DEF Threats
  <2> QED BY <1>5 DEF Threat
<1>15. Debts'
  <2> SUFFICES ASSUME NEW u \in Threads PROVE Debt(u)'
    BY DEF Debts
  <2> QED BY <1>5 DEF Debt
<1>16. KeepsNeeded'
  <2> SUFFICES ASSUME NEW x \in Convs, conv'[x].live PROVE Provided(x)'
    BY <1>1, <1>9 DEF KeepsNeeded, Provided, Lax, TaskIds
  <2>1. conv[x].live => Provided(x)
    BY DEF ReclaimInv, KeepsNeeded, Provided, Lax
  <2>2. Life(x)
    BY <1>1 DEF Lives
  <2> QED BY <1>1, Typed, <1>2, <1>3, <1>4, <1>5, <1>7, <1>9, <2>1, <2>2
             DEF Life, Active, Can1, Lax, TaskIds, Provided
<1>17. KeepsSources'
  <2>1. KeepsSources
    BY DEF ReclaimInv
  <2> QED BY <1>1, Typed, <1>2, <1>3, <1>4, <1>5, <1>7, <1>9, <2>1
             DEF KeepsSources, SameSource, Can1
<1>18. DeletedAccounted'
  <2> SUFFICES ASSUME NEW x \in Convs, x \in deleted' PROVE Accounted(x)'
    BY DEF DeletedAccounted, Accounted, Unproved
  <2>1. x \in deleted => Accounted(x)
    BY DEF ReclaimInv, DeletedAccounted, Accounted, Unproved
  <2> QED BY <1>1, Typed, <1>2, <1>3, <1>4, <1>5, <1>7, <1>9, <2>1
             DEF Owes, Protected, Can1, TaskIds, Accounted
<1> QED BY <1>8, <1>10, <1>11, <1>12, <1>13, <1>14, <1>15, <1>16, <1>17, <1>18 DEF ReclaimInv

\* What recovery finds without an owner belongs to nobody, and is queued with all of it.
LEMMA recover_cleanup_tasksKeeps ==
    ASSUME ReclaimInv, recover_cleanup_tasks PROVE ReclaimInv'
<1>1. TypeInv /\ Works1 /\ Tasks /\ Lives /\ Downtime
  BY DEF ReclaimInv
<1>lost. PICK lost \in SUBSET Convs : lost = orphaned_cleanup_owners
  BY DEF orphaned_cleanup_owners
<1>idle. PICK idle \in SUBSET {"idle"} : idle = idle_partitioners
  BY DEF idle_partitioners
<1>late. PICK late \in SUBSET Convs : late = {c \in completed_workspace_runs : ~task[c].on}
  BY DEF completed_workspace_runs
<1>2. /\ conv' = conv /\ owned' = owned /\ disk' = disk /\ shadow' = shadow /\ sources' = sources
      /\ exec' = exec
      /\ ~host.up /\ \A u \in Threads : exec[u] = Resting
  BY DEF recover_cleanup_tasks
<1>3. /\ host' \in Machines /\ host'.up /\ host'.guard = host.guard /\ host'.plans = host.plans
      /\ host'.inside = host.inside /\ host'.serial = host.serial /\ host'.gone = host.gone
      /\ host'.old = host.old /\ host'.can = host.can
  BY <1>1, Typed, <1>2 DEF recover_cleanup_tasks, TypeInv, Machines
<1>4. \A u \in Threads : exec[u].pc = "rest" /\ exec[u].paths = {} /\ exec[u].left = {}
  <2> QED BY <1>2 DEF Resting
<1>5. /\ deleted' = deleted \cup lost \cup idle /\ lost \subseteq Convs /\ idle \subseteq {"idle"}
      /\ "idle" \in TaskIds /\ "idle" \notin Convs
      /\ \A x \in lost : x \in Convs /\ ~conv[x].live /\ ~task[x].on
      /\ \A x \in late : x \in Convs /\ conv[x].live /\ conv[x].phase = "completed"
  <2>1. deleted' = deleted \cup lost \cup idle
    BY <1>lost, <1>idle DEF recover_cleanup_tasks
  <2>2. "idle" \in TaskIds /\ "idle" \notin Convs
    BY NamesAssumption DEF TaskIds
  <2>3. \A x \in lost : ~conv[x].live /\ ~task[x].on
    BY <1>lost DEF orphaned_cleanup_owners
  <2>4. \A x \in late : conv[x].live /\ conv[x].phase = "completed"
    BY <1>late DEF completed_workspace_runs
  <2> QED BY <2>1, <2>2, <2>3, <2>4, <1>idle
<1>6. /\ \A x \in lost : /\ task'[x].on /\ task'[x].targets = owned[x] /\ task'[x].seq = 0
                         /\ ~task'[x].lost
      /\ \A x \in idle : /\ task'[x].on /\ task'[x].targets = {Part} /\ task'[x].seq = 0
                         /\ ~task'[x].lost
      /\ \A x \in late : /\ task'[x].on /\ task'[x].targets = owned[x]
                         /\ task'[x].seq = conv[x].seq /\ ~task'[x].lost
      /\ \A x \in TaskIds : x \notin lost /\ x \notin idle /\ x \notin late => task'[x] = task[x]
      /\ task' \in [TaskIds -> TaskType]
  <2>1. task' = [x \in TaskIds |-> IF x \in lost THEN Queued(owned[x], 0)
                   ELSE IF x \in idle THEN Queued({Part}, 0)
                   ELSE IF x \in late THEN Queued(owned[x], conv[x].seq) ELSE task[x]]
    BY <1>lost, <1>idle, <1>late, Zenon DEF recover_cleanup_tasks
  <2>2. \A s, n : /\ Queued(s, n).on /\ Queued(s, n).targets = s /\ Queued(s, n).seq = n
                  /\ ~Queued(s, n).lost
    BY DEF Queued
  <2>3. \A s \in SUBSET Dirs, n \in Nat : Queued(s, n) \in TaskType
    BY DEF Queued, TaskType
  <2>4. /\ \A x \in lost : x \in TaskIds /\ x \notin idle /\ x \notin late
        /\ \A x \in idle : x \in TaskIds /\ x \notin lost /\ x \notin late
        /\ \A x \in late : x \in TaskIds /\ x \notin lost /\ x \notin idle
    BY <1>1, <1>5, Typed
  <2>5. \A x \in TaskIds :
          /\ x \in lost => task'[x] = Queued(owned[x], 0)
          /\ x \in idle => task'[x] = Queued({Part}, 0)
          /\ x \in late => task'[x] = Queued(owned[x], conv[x].seq)
          /\ x \notin lost /\ x \notin idle /\ x \notin late => task'[x] = task[x]
    BY <2>1, <2>4
  <2>6. /\ 0 \in Nat /\ {Part} \in SUBSET Dirs
        /\ \A x \in TaskIds : owned[x] \in SUBSET Dirs /\ task[x] \in TaskType
        /\ \A x \in Convs : conv[x].seq \in Nat
    BY <1>1, Typed DEF Dirs
  <2>7. \A x \in TaskIds : task'[x] \in TaskType
    BY <2>3, <2>5, <2>6, <1>5
  <2>8. task' = [x \in TaskIds |-> task'[x]]
    BY <2>1
  <2>9. task' \in [TaskIds -> TaskType]
    BY <2>7, <2>8
  <2> QED BY <2>2, <2>4, <2>5, <2>9
<1>7. TypeInv'
    <2>1. deleted' \subseteq TaskIds
    BY <1>1, <1>5, Typed
  <2> QED BY <1>1, <1>2, <1>3, <1>6, <2>1 DEF TypeInv
<1>8. \A x \in TaskIds : Plan(x)' = Plan(x) /\ Own(x)' = Own(x)
  BY <1>5, <1>6, Layout DEF recover_cleanup_tasks
<1>9. Downtime'
  BY <1>1, Typed, <1>2, <1>3, <1>4, <1>5, <1>6, <1>8
     DEF Downtime, AtRest, Active, Can1, Lax, SameSource, Resting
<1>10. Lives'
  <2> SUFFICES ASSUME NEW x \in Convs PROVE Life(x)'
    BY DEF Lives
  <2>1. Life(x) /\ x \in TaskIds /\ Own(x)' = Own(x) /\ (SameSource(x)' <=> SameSource(x))
    BY <1>1, <1>3, <1>8 DEF Lives, TaskIds, SameSource
  <2>2. x \in deleted' => x \in deleted \/ ~conv[x].live
    BY <1>5
  <2>3. x \notin deleted' => x \notin deleted
    BY <1>5
  <2> QED BY <1>2, <1>3, <1>8, <2>1, <2>2, <2>3 DEF Life
<1>11. Tasks'
  <2> SUFFICES ASSUME NEW x \in TaskIds, task'[x].on PROVE TaskOf(x)'
    BY DEF Tasks
  <2>1. task[x].on => TaskOf(x)
    BY <1>1 DEF Tasks
  <2>2. \A y \in Convs : Live(y)' <=> Live(y)
    BY <1>2 DEF Live
  <2>3. owned[x] \subseteq Own(x) \/ x \notin Convs
    BY <1>1 DEF Lives, Life
  <2>4. CASE x \in lost
    BY <1>2, <1>5, <1>6, <1>8, <2>3, <2>4 DEF TaskOf, Live
  <2>5. CASE x \in idle
    BY <1>2, <1>5, <1>6, <1>8, <2>5 DEF TaskOf, Live, Own
  <2>6. CASE x \in late
    <3>1. Life(x) /\ conv[x].seq \in Nat
      BY <1>1, <1>5, <2>6, Typed DEF Lives
    <3> QED BY <1>2, <1>5, <1>6, <1>8, <2>3, <2>6, <3>1 DEF TaskOf, Live, Life
  <2>7. CASE x \notin lost /\ x \notin idle /\ x \notin late
    BY <1>2, <1>3, <1>5, <1>6, <1>8, <2>1, <2>7 DEF TaskOf, Live, Can1
  <2> QED BY <2>4, <2>5, <2>6, <2>7
<1>12. Works1'
  <2> SUFFICES ASSUME NEW u \in Threads PROVE Lists(u)' /\ Tending(u)'
    BY DEF Works1
  <2> QED BY <1>2, <1>4 DEF Lists, Tending, AtRest
<1>13. Threats'
  <2> SUFFICES ASSUME NEW u \in Threads PROVE Threat(u)'
    BY DEF Threats
  <2> QED BY <1>2, <1>4 DEF Threat
<1>14. Debts'
  <2> SUFFICES ASSUME NEW u \in Threads PROVE Debt(u)'
    BY DEF Debts
  <2> QED BY <1>2, <1>4 DEF Debt
<1>15. KeepsNeeded'
  <2> SUFFICES ASSUME NEW x \in Convs, conv'[x].live PROVE Provided(x)'
    BY <1>1, <1>8 DEF KeepsNeeded, Provided, Lax, TaskIds
  <2>1. conv[x].live => Provided(x)
    BY DEF ReclaimInv, KeepsNeeded, Provided, Lax
  <2>2. Life(x)
    BY <1>1 DEF Lives
  <2> QED BY <1>1, Typed, <1>2, <1>3, <1>4, <1>5, <1>6, <1>8, <2>1, <2>2
             DEF Life, Active, Can1, Lax, TaskIds, Provided
<1>16. KeepsSources'
  <2>1. KeepsSources
    BY DEF ReclaimInv
  <2> QED BY <1>1, Typed, <1>2, <1>3, <1>4, <1>5, <1>6, <1>8, <2>1
             DEF KeepsSources, SameSource, Can1
<1>17. DeletedAccounted'
  <2> SUFFICES ASSUME NEW x \in Convs, x \in deleted' PROVE Accounted(x)'
    BY DEF DeletedAccounted, Accounted, Unproved
  <2>1. x \in deleted => Accounted(x)
    BY DEF ReclaimInv, DeletedAccounted, Accounted, Unproved
  <2>2. /\ Owes(x)' = Owes(x) /\ (Can1("clear")' <=> Can1("clear"))
        /\ (Can1("lookup")' <=> Can1("lookup"))
    BY <1>2, <1>3 DEF Owes, Protected, Can1
  <2>3. Life(x) /\ x \in TaskIds
    BY <1>1 DEF Lives, TaskIds
  <2>4. CASE x \notin deleted
    <3>1. Work(x) \notin disk /\ Sess(x) \notin disk
      BY <1>5, <2>3, <2>4 DEF Life
    <3> QED BY <2>2, <3>1 DEF Owes, Accounted
  <2>5. CASE x \in deleted
    <3>1. x \notin late /\ x \notin idle
      BY <1>5, <2>3, <2>5 DEF Life
    <3>2. x \in lost => ~task[x].on
      BY <1>5
    <3>3. x \notin lost => task'[x] = task[x]
      BY <1>6, <2>3, <3>1
    <3> QED BY <2>1, <2>2, <2>5, <3>2, <3>3 DEF Accounted
  <2> QED BY <2>4, <2>5 DEF Accounted
<1> QED BY <1>7, <1>9, <1>10, <1>11, <1>12, <1>13, <1>14, <1>15, <1>16, <1>17 DEF ReclaimInv

\* The offline command removes only what a deleted Run left and what nobody references.
LEMMA cleanup_workspacesKeeps ==
    ASSUME ReclaimInv, cleanup_workspaces PROVE ReclaimInv'
<1>1. TypeInv /\ Works1 /\ Tasks /\ Lives /\ Downtime
  BY DEF ReclaimInv
<1>idle. PICK idle \in SUBSET {"idle"} : idle = idle_partitioners
  BY DEF idle_partitioners
<1>paths. PICK paths : paths = workspace_plan.paths
  OBVIOUS
<1>2. conv' = conv /\ sources' = sources /\ ~host.up /\ \A u \in Threads : exec[u] = Resting
  BY DEF cleanup_workspaces
<1>3. /\ host'.up = host.up /\ host'.guard = host.guard /\ host'.plans = host.plans
      /\ host'.inside = host.inside /\ host'.serial = host.serial /\ host'.gone = host.gone
      /\ host'.old = host.old /\ host'.can = host.can \ {"offline"}
  BY DEF cleanup_workspaces, TypeInv, Machines
<1>4. /\ host' \in Machines
      /\ Can1("clear")' <=> Can1("clear")
      /\ Can1("lookup")' <=> Can1("lookup")
      /\ Can1("late")' <=> Can1("late")
  <2>1. PICK cs \in SUBSET Faults : cs = host.can \ {"offline"}
    BY <1>1 DEF TypeInv, Machines
  <2>2. host' = [host EXCEPT !.can = cs] /\ host \in Machines
    BY <1>1, <2>1 DEF cleanup_workspaces, TypeInv
  <2>3. host' \in Machines
    BY <2>2 DEF Machines
  <2>4. \A x \in {"clear", "lookup", "late"} : x \in host'.can <=> x \in host.can
    BY <1>3
  <2> QED BY <2>3, <2>4 DEF Can1
<1>5. /\ deleted' = deleted \cup idle /\ idle \subseteq {"idle"} /\ "idle" \in TaskIds
      /\ "idle" \notin Convs
      /\ \A x \in Convs : ~conv[x].live \/ x \notin deleted
      /\ \A x \in Convs : ~Active(x)
  <2>1. deleted' = deleted \cup idle
    BY <1>idle DEF cleanup_workspaces
  <2>2. "idle" \in TaskIds /\ "idle" \notin Convs
    BY NamesAssumption DEF TaskIds
  <2> QED BY <1>1, <1>2, <1>idle, <2>1, <2>2 DEF Downtime, Lives, Life
<1>6. /\ disk' = disk \ paths /\ (shadow' = shadow \/ shadow' = NoShadow)
      /\ \A x \in paths : x = Shadow \/ \E d \in deleted \cap Convs : x = Work(d) /\ ~Protected(x)
      /\ shadow' \in ShadowType
  <2>1. Removed(paths)
    BY <1>paths DEF cleanup_workspaces
  <2>2. paths = {Work(c) : c \in {x \in deleted \cap Convs : ~Protected(Work(x))}}
                \cup (IF shadow_repo_referenced_by("idle") THEN {} ELSE {Shadow})
    BY <1>paths DEF workspace_plan
  <2>3. shadow \in ShadowType /\ NoShadow \in ShadowType
    BY <1>1 DEF TypeInv, NoShadow, ShadowType
  <2> QED BY <2>1, <2>2, <2>3 DEF Removed
<1>7. /\ \A c \in TaskIds : \/ Given(c) \/ Left(c) \/ Dropped(c) \/ (c \in idle /\ Idled(c))
      /\ task' \in [TaskIds -> TaskType]
  <2>1. task' = [c \in TaskIds |->
          IF Live(c) /\ conv[c].phase = "completed" /\ ~task[c].on /\ Work(c) \in disk
          THEN Proved(manifest(c, FALSE), c)
          ELSE IF c \in deleted \cap Convs
            /\ ~task[c].on THEN Queued(owned[c] \cup planning_ids(c), 0)
          ELSE IF c \in idle /\ ~task[c].on THEN Queued({Part}, 0)
          ELSE IF task[c].on THEN Proved(task[c], c) ELSE task[c]]
    BY <1>idle, Zenon DEF cleanup_workspaces, workspace_plan
  <2>2. ASSUME NEW c \in TaskIds
        PROVE  /\ \/ Given(c) \/ Left(c) \/ Dropped(c) \/ (c \in idle /\ Idled(c))
               /\ task'[c] \in TaskType
    <3>1. task'[c] = IF Live(c) /\ conv[c].phase = "completed" /\ ~task[c].on /\ Work(c) \in disk
                     THEN Proved(manifest(c, FALSE), c)
                     ELSE IF c \in deleted \cap Convs
                       /\ ~task[c].on THEN Queued(owned[c] \cup planning_ids(c), 0)
                     ELSE IF c \in idle /\ ~task[c].on THEN Queued({Part}, 0)
                     ELSE IF task[c].on THEN Proved(task[c], c) ELSE task[c]
      BY <2>1, Zenon
    <3>2. \/ /\ Live(c) /\ conv[c].phase = "completed" /\ ~task[c].on /\ Work(c) \in disk
             /\ task'[c] = Proved(manifest(c, FALSE), c)
          \/ c \in deleted \cap Convs /\ ~task[c].on
               /\ task'[c] = Queued(owned[c] \cup planning_ids(c), 0)
          \/ c \in idle /\ ~task[c].on /\ task'[c] = Queued({Part}, 0)
          \/ task[c].on /\ task'[c] = Proved(task[c], c)
          \/ ~task[c].on /\ task'[c] = task[c]
      BY <3>1, Zenon
    <3>3. CASE /\ Live(c) /\ conv[c].phase = "completed" /\ ~task[c].on /\ Work(c) \in disk
               /\ task'[c] = Proved(manifest(c, FALSE), c)
      <4>1. c \in Convs /\ conv[c].live /\ owned[c] \subseteq Own(c)
        BY <1>1, <3>3 DEF Live, Lives, Life
      <4>2. PICK m \in TaskType : m = manifest(c, FALSE) /\ GivesUp(c, m)
        BY <1>1, <4>1, Manifests, Zenon DEF GivesUp
      <4>3. task'[c] = Proved(m, c)
        BY <3>3, <4>2, Zenon
      <4>4. /\ task'[c] \in TaskType /\ task'[c].on = m.on /\ task'[c].seq = m.seq
            /\ task'[c].targets \subseteq m.targets \cup {Work(c)}
        <5>1. PICK p : p = Proved(m, c)
          OBVIOUS
        <5>2. /\ p \in TaskType /\ p.on = m.on /\ p.seq = m.seq
              /\ p.targets \subseteq m.targets \cup {Work(c)}
          BY <1>1, <4>2, <5>1, Proofs, Zenon
        <5>3. task'[c] = p
          BY <4>3, <5>1
        <5> QED BY <5>2, <5>3
      <4> QED BY <3>3, <4>2, <4>4 DEF Given, GivesUp
    <3>4. CASE c \in deleted \cap Convs /\ ~task[c].on
            /\ task'[c] = Queued(owned[c] \cup planning_ids(c), 0)
      <4>1. planning_ids(c) = {Plan(c)} /\ Own(c) \subseteq Dirs /\ owned[c] \subseteq Dirs
        BY <1>1, Apart, Typed DEF planning_ids
      <4>2. PICK s \in SUBSET Dirs : s = owned[c] \cup planning_ids(c)
        BY <4>1 DEF Own
      <4>3. PICK m : m = [on |-> TRUE, targets |-> s, seq |-> 0, lost |-> FALSE]
        OBVIOUS
      <4>4. m \in TaskType /\ m.on /\ m.targets = s /\ m.seq = 0
        BY <4>2, <4>3, 0 \in Nat, TRUE \in BOOLEAN, FALSE \in BOOLEAN DEF TaskType
      <4>5. task'[c] = m
        BY <3>4, <4>2, <4>3, Zenon DEF Queued
      <4> QED BY <3>4, <4>1, <4>2, <4>4, <4>5 DEF Dropped
    <3>5. CASE c \in idle /\ ~task[c].on /\ task'[c] = Queued({Part}, 0)
      <4>1. PICK s \in SUBSET Dirs : s = {Part}
        BY DEF Dirs
      <4>2. PICK m : m = [on |-> TRUE, targets |-> s, seq |-> 0, lost |-> FALSE]
        OBVIOUS
      <4>3. m \in TaskType /\ m.on /\ m.targets = s /\ m.seq = 0
        BY <4>1, <4>2, 0 \in Nat, TRUE \in BOOLEAN, FALSE \in BOOLEAN DEF TaskType
      <4>4. task'[c] = m
        BY <3>5, <4>1, <4>2, Zenon DEF Queued
      <4> QED BY <3>5, <4>1, <4>3, <4>4 DEF Idled
    <3>6. CASE task[c].on /\ task'[c] = Proved(task[c], c)
      <4>1. PICK m \in TaskType : m = task[c]
        BY <1>1, Typed
      <4>2. PICK p : p = Proved(m, c)
        OBVIOUS
      <4>3. /\ p \in TaskType /\ p.on = m.on /\ p.seq = m.seq /\ m.targets \subseteq p.targets
            /\ p.targets \subseteq m.targets \cup {Work(c)} /\ (p.lost => m.lost)
            /\ m.lost /\ ~p.lost => Work(c) \in p.targets
        BY <1>1, <4>1, <4>2, Proofs, Zenon
      <4>4. task'[c] = p
        BY <3>6, <4>1, <4>2
      <4> QED BY <4>1, <4>3, <4>4 DEF Left
    <3>7. CASE ~task[c].on /\ task'[c] = task[c]
      BY <1>1, <3>7, Typed DEF Left
    <3> QED BY <3>2, <3>3, <3>4, <3>5, <3>6, <3>7
  <2>3. task' = [c \in TaskIds |-> task'[c]]
    BY <2>1, Zenon
  <2> QED BY <2>2, <2>3
<1>8. /\ \A c \in TaskIds : task'[c].on => c \in deleted' \/ Live(c)
      /\ \A c \in TaskIds : task'[c].on => task'[c].targets \subseteq Own(c)
      /\ \A c \in TaskIds : Live(c) /\ task'[c].on =>
           task'[c].targets \subseteq owned[c] \cup {Work(c), Shadow}
  <2> SUFFICES ASSUME NEW c \in TaskIds, task'[c].on
               PROVE  /\ c \in deleted' \/ Live(c)
                      /\ task'[c].targets \subseteq Own(c)
                      /\ Live(c) => task'[c].targets \subseteq owned[c] \cup {Work(c), Shadow}
    OBVIOUS
  <2>1. CASE Given(c)
    BY <2>1 DEF Given, Own
  <2>2. CASE Left(c)
    <3>1. TaskOf(c)
      BY <1>1, <2>2 DEF Tasks, Left
    <3> QED BY <1>5, <2>2, <3>1 DEF TaskOf, Left, Own
  <2>3. CASE Dropped(c)
    <3>1. owned[c] \subseteq Own(c)
      BY <1>1, <2>3 DEF Lives, Life, Dropped
    <3> QED BY <1>5, <2>3, <3>1 DEF Dropped, Own, Live
  <2>4. CASE c \in idle /\ Idled(c)
    BY <1>5, <2>4 DEF Idled, Own, Live
  <2> QED BY <1>7, <2>1, <2>2, <2>3, <2>4
<1>9. /\ owned' \in [TaskIds -> SUBSET Dirs] /\ \A c \in TaskIds : owned[c] \subseteq owned'[c]
      /\ \A c \in TaskIds : owned'[c] = owned[c]
           \/ (task'[c].on /\ task'[c].seq # 0 /\ owned'[c] = owned[c] \cup task'[c].targets)
  <2>1. owned' = [c \in TaskIds |-> IF task'[c].on /\ task'[c].seq # 0
                                   THEN owned[c] \cup task'[c].targets ELSE owned[c]]
    BY DEF cleanup_workspaces
  <2>2. \A c \in TaskIds : task'[c].targets \in SUBSET Dirs /\ owned[c] \in SUBSET Dirs
    BY <1>1, <1>7, Typed DEF TaskType
  <2> QED BY <2>1, <2>2
<1>10. /\ exec' \in [Threads -> ExecType] /\ exec'["retry"] = Resting /\ Threads = {"api", "retry"}
       /\ exec'["api"].pc = "next" /\ exec'["api"].paths = {}
       /\ \A x \in exec'["api"].left : x[1] \in TaskIds /\ ~x[2] /\ task'[x[1]].on
  <2>1. PICK l : l = {<<c, FALSE>> : c \in {x \in TaskIds : task'[x].on}}
    OBVIOUS
  <2>2. exec' = [exec EXCEPT !["api"]
          = [Resting EXCEPT !.pc = "next", !.locks = {"primary"}, !.left = l]]
    BY <2>1 DEF cleanup_workspaces
  <2>3. /\ exec'["api"] = [Resting EXCEPT !.pc = "next", !.locks = {"primary"}, !.left = l]
        /\ exec'["retry"] = Resting
    BY <1>1, <1>2, <2>2, Typed DEF TypeInv
  <2>4. /\ Resting \in ExecType /\ Threads = {"api", "retry"} /\ "next" \in Pcs
        /\ {"primary"} \in SUBSET (Convs \cup {"primary"})
    BY Marks DEF Pcs
  <2>5. l \in SUBSET ((TaskIds \cup {"reclaim"}) \X BOOLEAN)
    <3>1. \A c \in TaskIds : <<c, FALSE>> \in (TaskIds \cup {"reclaim"}) \X BOOLEAN
      BY Marks
    <3> QED BY <2>1, <3>1
  <2>6. exec'["api"] \in ExecType
    BY <2>3, <2>4, <2>5 DEF ExecType
  <2>7. exec'["api"].pc = "next" /\ exec'["api"].paths = {} /\ exec'["api"].left = l
    BY <2>3 DEF Resting
  <2>8. exec' \in [Threads -> ExecType]
    BY <1>1, <2>2, <2>3, <2>4, <2>6 DEF TypeInv
  <2>9. \A x \in l : x[1] \in TaskIds /\ ~x[2] /\ task'[x[1]].on
    <3>1. \A x \in l : \E c \in TaskIds : task'[c].on /\ x = <<c, FALSE>>
      BY <2>1
    <3>2. \A c : <<c, FALSE>>[1] = c /\ ~(<<c, FALSE>>[2])
      OBVIOUS
    <3> QED BY <3>1, <3>2
  <2> QED BY <2>3, <2>4, <2>7, <2>8, <2>9
<1>11. TypeInv'
    <2>1. deleted' \subseteq TaskIds
    BY <1>1, <1>5, Typed
  <2> QED BY <1>1, <1>2, <1>3, <1>4, <1>6, <1>7, <1>9, <1>10, <2>1 DEF TypeInv
<1>12. \A x \in TaskIds : Plan(x)' = Plan(x) /\ Own(x)' = Own(x)
  BY <1>7, <1>8, <1>9, <1>10, Layout DEF cleanup_workspaces
<1>13. Downtime'
BY <1>1, <1>2, <1>3, <1>5, <1>10 DEF Downtime, AtRest, Active
<1>14. Lives'
  <2> SUFFICES ASSUME NEW x \in Convs PROVE Life(x)'
    BY DEF Lives
  <2>1. /\ Life(x) /\ x \in TaskIds /\ Own(x)' = Own(x) /\ Plan(x)' = Plan(x)
        /\ SameSource(x)' <=> SameSource(x)
    BY <1>1, <1>3, <1>12 DEF Lives, TaskIds, SameSource
  <2>2. x \in deleted' <=> x \in deleted
    BY <1>5
  <2>3. owned'[x] \subseteq Own(x)
    BY <1>8, <1>9, <2>1 DEF Life
  <2>4. x \notin deleted => owned'[x] = owned[x]
          \/ (conv[x].live /\ owned'[x] \subseteq owned[x] \cup {Work(x), Shadow})
    BY <1>8, <1>9, <2>1, <2>2 DEF Live
  <2>5. Part # Work(x) /\ Part # Shadow /\ Plan(x) \notin paths
    <3>1. \A d \in Convs : d \in TaskIds
      BY DEF TaskIds
    <3> QED BY <1>1, <1>6, <2>1, <3>1, Apart
  <2>6. x \notin shadow.made => x \notin shadow'.made
    BY <1>6 DEF NoShadow
  <2> QED BY <1>2, <1>3, <1>6, <2>1, <2>2, <2>3, <2>4, <2>5, <2>6 DEF Life
<1>15. Tasks'
  <2> SUFFICES ASSUME NEW x \in TaskIds, task'[x].on PROVE TaskOf(x)'
    BY DEF Tasks
  <2>1. /\ \A y \in TaskIds : Live(y)' <=> Live(y)
        /\ Own(x)' = Own(x) /\ (x \in deleted => x \in deleted')
    BY <1>2, <1>5, <1>12 DEF Live
  <2>2. task'[x].targets \subseteq Own(x) /\ (x \in deleted' \/ Live(x))
    BY <1>8
  <2>3. Live(x) => task'[x].targets \subseteq owned'[x] \cup {Work(x), Shadow}
    BY <1>8, <1>9
  <2>4. CASE Given(x)
    <3>1. Life(x) /\ x \in Convs /\ conv[x].seq \in Nat
      BY <1>1, <2>4, Typed DEF Given, Lives, Live
    <3> QED BY <1>2, <2>1, <2>2, <2>3, <2>4, <3>1 DEF Given, TaskOf, Life, Live
  <2>5. CASE Left(x)
    <3>1. TaskOf(x)
      BY <1>1, <2>5 DEF Left, Tasks
    <3> QED BY <1>2, <1>4, <2>1, <2>2, <2>3, <2>5, <3>1 DEF Left, TaskOf, Live
  <2>6. CASE Dropped(x)
    <3>1. ~Live(x)
      BY <1>5, <2>6 DEF Dropped, Live
    <3> QED BY <2>1, <2>2, <2>6, <3>1 DEF Dropped, TaskOf
  <2>7. CASE x \in idle /\ Idled(x)
    <3>1. ~Live(x)
      BY <1>5, <2>7 DEF Live
    <3> QED BY <1>5, <2>1, <2>2, <2>7, <3>1 DEF Idled, TaskOf
  <2> QED BY <1>7, <2>4, <2>5, <2>6, <2>7
<1>16. Works1'
  <2> SUFFICES ASSUME NEW u \in Threads PROVE Lists(u)' /\ Tending(u)'
    BY DEF Works1
  <2>1. CASE u = "retry"
    <3>1. exec'["retry"].pc = "rest" /\ exec'["retry"].left = {} /\ exec'["retry"].paths = {}
      BY <1>10 DEF Resting
    <3> QED BY <1>10, <2>1, <3>1 DEF Lists, Tending, AtRest
  <2>2. CASE u = "api"
    <3>1. \A x \in exec'["api"].left :
            x[1] \in TaskIds /\ ~x[2] /\ (x[1] \in deleted' \/ Live(x[1])')
      BY <1>2, <1>8, <1>10 DEF Live
    <3>2. <<"reclaim", TRUE>> \notin exec'["api"].left
      <4>1. <<"reclaim", TRUE>>[2]
        OBVIOUS
      <4> QED BY <3>1, <4>1
    <3> QED BY <1>2, <1>3, <1>10, <2>2, <3>1, <3>2 DEF Lists, Tending, AtRest
  <2> QED BY <1>10, <2>1, <2>2
<1>17. Threats'
  <2> SUFFICES ASSUME NEW u \in Threads PROVE Threat(u)'
    BY DEF Threats
  <2>1. exec'[u].paths = {}
    BY <1>10 DEF Resting
  <2> QED BY <2>1 DEF Threat
<1>18. Debts'
  <2> SUFFICES ASSUME NEW u \in Threads PROVE Debt(u)'
    BY DEF Debts
  <2>1. exec'[u].pc \in {"next", "rest"}
    BY <1>10 DEF Resting
  <2> QED BY <2>1 DEF Debt
<1>19. KeepsNeeded'
  <2> SUFFICES ASSUME NEW x \in Convs, conv'[x].live PROVE Provided(x)'
    BY <1>12 DEF KeepsNeeded, Provided, Lax, TaskIds
  <2>1. /\ conv[x].live /\ x \in TaskIds /\ x \notin deleted /\ ~Active(x)
        /\ conv[x].keep => Work(x) \in disk \/ Can1("lookup")
        /\ conv[x].ran => Sess(x) \in disk
        /\ Plan(x) \in disk
        /\ Part \in owned[x] => Part \in disk
        /\ x \in shadow.made => x \in shadow.pins
    BY <1>2, <1>5 DEF ReclaimInv, KeepsNeeded, TaskIds
  <2>2. \A d \in Convs : d \in TaskIds
    BY DEF TaskIds
  <2>3. Work(x) \notin paths /\ Sess(x) \notin paths /\ Plan(x) \notin paths /\ Part \notin paths
    BY <1>1, <1>6, <2>1, <2>2, Apart DEF Provided
  <2>4. Part \in owned'[x] => Part \in owned[x]
    <3>1. Part # Work(x) /\ Part # Shadow
      BY <1>1, <2>1, Apart DEF Provided
    <3> QED BY <1>8, <1>9, <2>1, <3>1 DEF Live, Provided
  <2>5. x \in shadow'.made => x \in shadow'.pins
    BY <1>6, <2>1 DEF NoShadow, Provided
  <2>6. ~Active(x)'
    BY <1>2, <2>1 DEF Active, Provided
  <2> QED BY <1>2, <1>4, <1>6, <1>12, <2>1, <2>3, <2>4, <2>5, <2>6 DEF Provided
<1>20. KeepsSources'
  <2> SUFFICES ASSUME NEW x \in sources, ~SameSource(x),
        ~Can1("late") PROVE host.inside[x] \in disk'
    BY <1>2, <1>3, <1>4 DEF KeepsSources, SameSource
  <2>1. host.inside[x] \in disk /\ x \in Convs
    BY <1>1, Typed DEF ReclaimInv, KeepsSources
  <2>2. host.inside[x] # Shadow /\ Protected(host.inside[x])
    BY <1>1, <2>1, Apart DEF Protected
  <2> QED BY <1>6, <2>1, <2>2
<1>21. DeletedAccounted'
  <2> SUFFICES ASSUME NEW x \in Convs, x \in deleted' PROVE Accounted(x)'
    BY DEF DeletedAccounted, Accounted, Unproved
  <2>1. x \in deleted /\ x \in TaskIds /\ ~Live(x)
    BY <1>5 DEF TaskIds, Live
  <2>2. \/ Owes(x) = {} \/ Can1("clear") \/ Can1("lookup")
        \/ task[x].on /\ Owes(x) \ Unproved(task[x].lost, x) \subseteq task[x].targets
    BY <2>1 DEF ReclaimInv, DeletedAccounted, Accounted, Unproved
  <2>3. Owes(x)' \subseteq Owes(x)
    BY <1>2, <1>3, <1>6 DEF Owes, Protected
  <2>4. task[x].on => /\ task'[x].on /\ task[x].targets \subseteq task'[x].targets
                      /\ task'[x].lost => task[x].lost
                      /\ task[x].lost /\ ~task'[x].lost => Work(x) \in task'[x].targets
    BY <1>7, <2>1 DEF Given, Left, Dropped, Idled, Accounted
  <2>5. CASE task[x].on /\ Owes(x) \ Unproved(task[x].lost, x) \subseteq task[x].targets
    <3>1. Owes(x) \ Unproved(task'[x].lost, x) \subseteq task'[x].targets
      BY <2>4, <2>5 DEF Unproved
    <3> QED BY <2>3, <2>4, <2>5, <3>1 DEF Accounted
  <2> QED BY <1>4, <2>2, <2>3, <2>5 DEF Accounted
<1> QED BY <1>11, <1>13, <1>14, <1>15, <1>16, <1>17, <1>18, <1>19, <1>20, <1>21 DEF ReclaimInv

\* delete_run and delete_workspace are such deletions.
LEMMA delete_workspaceKeeps ==
    ASSUME ReclaimInv, NEW cs \in SUBSET Convs, delete_workspace(cs)
    PROVE  ReclaimInv'
<1>1. TypeInv
  BY DEF ReclaimInv
<1>2. exec'["api"] = [Resting EXCEPT !.pc = "next", !.left = cs \X {FALSE}, !.locks = cs]
  BY <1>1, Typed DEF delete_workspace, TypeInv
<1>3. exec'["api"].pc = "next" /\ exec'["api"].left = cs \X {FALSE} /\ exec'["api"].paths = {}
  BY <1>2 DEF Resting
<1>4. exec' \in [Threads -> ExecType] /\ \A u \in Threads \ {"api"} : exec'[u] = exec[u]
  <2>1. Resting \in ExecType /\ Threads = {"api", "retry"}
    BY Marks
  <2>2. "next" \in Pcs /\ cs \in SUBSET (Convs \cup {"primary"})
    BY DEF Pcs
  <2>3. cs \X {FALSE} \in SUBSET ((TaskIds \cup {"reclaim"}) \X BOOLEAN)
    BY DEF TaskIds
  <2>4. exec'["api"] \in ExecType
    BY <1>2, <2>1, <2>2, <2>3 DEF ExecType
  <2> QED BY <1>1, <2>1, <2>4, Typed DEF delete_workspace, TypeInv
<1>5. Deleted(cs, [c \in cs |-> manifest(c, TRUE)])
  BY DEF delete_workspace
<1>6. \A x \in exec'["api"].left : x[1] \in TaskIds /\ ~x[2] /\ x[1] \in deleted'
  <2>1. deleted' = deleted \cup cs
    BY <1>5 DEF Deleted
  <2> QED BY <1>3, <2>1 DEF TaskIds
<1>7. Deletes(cs)
  BY <1>3, <1>4, <1>5, <1>6, Zenon DEF Deletes, delete_workspace
<1> QED BY <1>7, DeletingKeeps

\* So is clear_history; it may run under the eyes of a thread, which the invariant excuses.
LEMMA clear_historyKeeps ==
    ASSUME ReclaimInv, clear_history
    PROVE  ReclaimInv'
<1>1. TypeInv /\ Works1 /\ Downtime /\ Tasks /\ Lives
  BY DEF ReclaimInv
<1> DEFINE cs == {c \in Convs : conv[c].live}
<1>2. Can1("clear") /\ host.up
  BY <1>1, Typed DEF clear_history, Works1, Lists, Downtime, AtRest
<1>3. CASE \E c \in cs : Active(c)
  <2>1. exec' = [exec EXCEPT !["api"] = Resting] /\ UNCHANGED <<conv, task, deleted>>
    BY <1>3 DEF clear_history
  <2>2. Resting \in ExecType /\ Resting.pc = "rest" /\ Resting.paths = {} /\ Resting.left = {}
    BY Marks DEF Resting
  <2>3. /\ exec' \in [Threads -> ExecType] /\ exec'["api"] = Resting
        /\ \A u \in Threads \ {"api"} : exec'[u] = exec[u]
    BY <1>1, <2>1, <2>2, Typed DEF TypeInv
  <2>4. Deleted({}, [c \in {} |-> manifest(c, TRUE)])
    <3>1. /\ task' = [c \in TaskIds |-> task[c]] /\ deleted' = deleted
          /\ conv' = [c \in Convs |-> conv[c]]
      BY <1>1, <2>1 DEF TypeInv
    <3> QED BY <3>1, Zenon DEF Deleted
  <2>5. Deletes({})
    BY <1>2, <2>2, <2>3, <2>4, Zenon DEF Deletes, clear_history
  <2> QED BY <2>5, DeletingKeeps
<1>4. CASE ~\E c \in cs : Active(c)
  <2>1. /\ Deleted(cs, [c \in cs |-> manifest(c, TRUE)])
        /\ exec' = [exec EXCEPT !["api"].pc = "next", !["api"].left =
                        {<<c, FALSE>> : c \in {x \in TaskIds : task'[x].on /\ task'[x].seq = 0}}]
    BY <1>4, Zenon DEF clear_history
  <2>2. PICK l : l = {<<c, FALSE>> : c \in {x \in TaskIds : task'[x].on /\ task'[x].seq = 0}}
    OBVIOUS
  <2>3. /\ exec'["api"] = [exec["api"] EXCEPT !.pc = "next", !.left = l]
        /\ \A u \in Threads \ {"api"} : exec'[u] = exec[u]
    BY <1>1, <2>1, <2>2, Typed DEF TypeInv
  <2>4. l \in SUBSET ((TaskIds \cup {"reclaim"}) \X BOOLEAN) /\ "next" \in Pcs
          /\ exec["api"] \in ExecType
    <3>1. \A c \in TaskIds : <<c, FALSE>> \in (TaskIds \cup {"reclaim"}) \X BOOLEAN
      BY Marks
    <3>2. l \in SUBSET ((TaskIds \cup {"reclaim"}) \X BOOLEAN)
      BY <2>2, <3>1
    <3> QED BY <1>1, <3>2, Typed DEF Pcs
  <2>5. exec'["api"] \in ExecType
    BY <2>3, <2>4 DEF ExecType
  <2>6. exec'["api"].pc = "next" /\ exec'["api"].left = l /\ exec'["api"].paths = exec["api"].paths
    BY <2>3, <2>4 DEF ExecType
  <2>7. exec["api"].paths = {}
    BY <1>1, Typed DEF clear_history, Works1, Tending
  <2>8. exec' \in [Threads -> ExecType]
    BY <1>1, <2>1, <2>3, <2>5, Typed DEF TypeInv
  <2>9. \A x \in l : x[1] \in TaskIds /\ ~x[2] /\ x[1] \in deleted'
    <3>1. \A c \in cs : conv[c].live
      OBVIOUS
    <3>2. /\ \A x \in TaskIds \ cs : task'[x] = task[x]
          /\ deleted' = deleted \cup cs
      BY <1>1, <2>1, <3>1, Deletion, Zenon
    <3>3. \A x \in TaskIds : task'[x].on /\ task'[x].seq = 0 => x \in deleted'
      BY <1>1, <3>2 DEF Tasks, TaskOf
    <3>4. \A x \in l : \E c \in TaskIds : task'[c].on /\ task'[c].seq = 0 /\ x = <<c, FALSE>>
      BY <2>2
    <3>5. \A c : <<c, FALSE>>[1] = c /\ ~(<<c, FALSE>>[2])
      OBVIOUS
    <3> QED BY <3>3, <3>4, <3>5
  <2>10. Deletes(cs)
    BY <1>2, <1>4, <2>1, <2>3, <2>6, <2>7, <2>8, <2>9, Zenon DEF Deletes, clear_history
  <2> QED BY <2>10, DeletingKeeps
<1> QED BY <1>3, <1>4

\* The thread takes its next task: under the Run's lock, or under the primary service's.
LEMMA Next1Keeps ==
    ASSUME ReclaimInv, NEW t \in Threads, Next1(t)
    PROVE  ReclaimInv'
<1>1. /\ TypeInv /\ Downtime /\ Lives /\ Lists(t) /\ Tending(t) /\ exec[t].pc = "next"
      /\ exec[t] \in ExecType /\ exec[t].paths = {} /\ Threads = {"api", "retry"}
  BY Typed, Marks DEF ReclaimInv, Works1, Next1, Tending
<1>2. UNCHANGED <<conv, owned, task, deleted, done, disk, shadow, sources, host>>
  BY DEF Next1
<1>3. host.up \/ t = "api"
  BY <1>1 DEF Downtime, Resting
<1>4. CASE exec' = [exec EXCEPT ![t] = Resting]
  <2>1. Resting \in ExecType /\ Resting.pc = "rest" /\ Resting.paths = {} /\ Resting.left = {}
    BY Marks DEF Resting
  <2>2. exec'[t] = Resting /\ \A u \in Threads \ {t} : exec'[u] = exec[u]
    BY <1>1, <1>4 DEF TypeInv
  <2>3. exec' \in [Threads -> ExecType]
    BY <1>1, <1>4, <2>1 DEF TypeInv
  <2>4. Lists(t)' /\ Tending(t)' /\ Debt(t)'
    BY <2>1, <2>2 DEF Lists, Tending, Debt, AtRest
  <2>5. Turns(t)
    BY <1>2, <1>3, <2>1, <2>2, <2>3 DEF Turns
  <2> QED BY <2>4, <2>5, TurningKeeps
<1>5. ASSUME NEW x \in exec[t].left, NEW lock \in {x[1], "primary"},
             IF t = "api" THEN lock = "primary"
             ELSE /\ Free1(lock)
                  /\ lock # "primary" => x[2] /\ Live(x[1]) /\ ~Active(x[1])
                  /\ lock = "primary" => ~(x[2] /\ Live(x[1])) \/ Can1("lookup"),
             exec' = [exec EXCEPT ![t]
               = [exec[t] EXCEPT !.pc = "check", !.run = x[1], !.left = @ \ {x},
                                              !.locks = IF t = "api" THEN @ ELSE {lock}]]
      PROVE  ReclaimInv'
  <2>1. /\ x # <<"reclaim", TRUE>> /\ x[1] \in TaskIds /\ (x[1] \in deleted \/ Live(x[1]))
        /\ ~x[2] => x[1] \in deleted \/ ~host.up
        /\ t = "api" => ~x[2]
    BY <1>1 DEF Lists
  <2>2. PICK k : k = IF t = "api" THEN exec[t].locks ELSE {lock}
    OBVIOUS
  <2>3. k \in SUBSET (Convs \cup {"primary"})
    BY <1>1, <1>5, <2>2, Typed DEF Live
  <2>4. /\ exec'[t] = [exec[t] EXCEPT !.pc = "check", !.run = x[1], !.left = exec[t].left \ {x},
             !.locks = k]
        /\ \A u \in Threads \ {t} : exec'[u] = exec[u]
    BY <1>1, <1>5, <2>2 DEF TypeInv
  <2>5. /\ exec[t].left \ {x} \in SUBSET ((TaskIds \cup {"reclaim"}) \X BOOLEAN) /\ "check" \in Pcs
    BY <1>1, Typed DEF Pcs
  <2>6. exec'[t] \in ExecType
    BY <1>1, <2>1, <2>3, <2>4, <2>5 DEF ExecType
  <2>7. /\ exec'[t].pc = "check" /\ exec'[t].run = x[1] /\ exec'[t].left = exec[t].left \ {x}
        /\ exec'[t].locks = k /\ exec'[t].paths = {}
    BY <1>1, <2>4 DEF ExecType
  <2>8. exec' \in [Threads -> ExecType]
    BY <1>1, <1>5, <2>4, <2>6 DEF TypeInv
  <2>9. PICK r \in TaskIds : r = x[1]
    BY <2>1
  <2>10. Live(r) => r \in k \/ ~host.up \/ Can1("lookup")
    BY <1>1, <1>5, <2>1, <2>2, <2>9 DEF Lives, Life, Live
  <2>11. Lists(t)'
    <3>1. \A y \in exec'[t].left : y # <<"reclaim", TRUE>> =>
            /\ y[1] \in TaskIds /\ (y[1] \in deleted' \/ Live(y[1])')
            /\ ~y[2] => y[1] \in deleted' \/ ~host'.up
            /\ t = "api" => ~y[2]
      BY <1>1, <1>2, <2>7 DEF Lists, Live
    <3>2. <<"reclaim", TRUE>> \notin exec'[t].left
      BY <1>1, <2>7 DEF Lists
    <3>3. (r \in deleted' \/ Live(r)') /\ (Live(r)' => Locked(t, r)')
      BY <1>2, <2>1, <2>7, <2>9, <2>10 DEF Live, Locked, Can1
    <3>4. exec'[t].run = r
      BY <2>7, <2>9
    <3> QED BY <2>7, <3>1, <3>2, <3>3, <3>4 DEF Lists, AtRest
  <2>12. Tending(t)' /\ Debt(t)'
    BY <2>7 DEF Tending, Debt
  <2>13. Turns(t)
    BY <1>2, <1>3, <2>4, <2>7, <2>8 DEF Turns
  <2> QED BY <2>11, <2>12, <2>13, TurningKeeps
<1>6. ASSUME NEW x \in exec[t].left, t = "retry",
             exec' = [exec EXCEPT ![t] = [exec[t] EXCEPT !.left = @ \ {x}]]
      PROVE  ReclaimInv'
  <2>1. /\ exec'[t] = [exec[t] EXCEPT !.left = exec[t].left \ {x}]
        /\ \A u \in Threads \ {t} : exec'[u] = exec[u]
    BY <1>1, <1>6 DEF TypeInv
  <2>2. /\ exec[t].left \ {x} \in SUBSET ((TaskIds \cup {"reclaim"}) \X BOOLEAN)
    BY <1>1, Typed
  <2>3. exec'[t] \in ExecType
    BY <1>1, <2>1, <2>2 DEF ExecType
  <2>4. exec'[t].pc = "next" /\ exec'[t].left = exec[t].left \ {x} /\ exec'[t].paths = {}
    BY <1>1, <2>1 DEF ExecType
  <2>5. exec' \in [Threads -> ExecType]
    BY <1>1, <1>6, <2>1, <2>3 DEF TypeInv
  <2>6. Lists(t)'
    <3>1. \A y \in exec'[t].left : y # <<"reclaim", TRUE>> =>
            /\ y[1] \in TaskIds /\ (y[1] \in deleted' \/ Live(y[1])')
            /\ ~y[2] => y[1] \in deleted' \/ ~host'.up
            /\ t = "api" => ~y[2]
      BY <1>1, <1>2, <2>4 DEF Lists, Live
    <3>2. <<"reclaim", TRUE>> \notin exec'[t].left
      BY <1>1, <2>4 DEF Lists
    <3> QED BY <2>4, <3>1, <3>2 DEF Lists, AtRest
  <2>7. Tending(t)' /\ Debt(t)'
    BY <2>4 DEF Tending, Debt
  <2>8. Turns(t)
    BY <1>2, <1>3, <2>1, <2>4, <2>5 DEF Turns
  <2> QED BY <2>6, <2>7, <2>8, TurningKeeps
<1> QED BY <1>4, <1>5, <1>6 DEF Next1, Step

\* The periodic retry lists every task.
LEMMA retry_cleanup_tasksKeeps ==
    ASSUME ReclaimInv, retry_cleanup_tasks
    PROVE  ReclaimInv'
<1>1. TypeInv /\ Tasks /\ Threads = {"api", "retry"} /\ "reclaim" \notin TaskIds
  BY Marks, NamesAssumption DEF ReclaimInv, TaskIds
<1>2. /\ UNCHANGED <<conv, owned, task, deleted, done, disk, shadow, sources, host>>
      /\ host.up
  BY DEF retry_cleanup_tasks
<1>3. PICK l : l = {<<c, task[c].seq # 0>> : c \in {x \in TaskIds : task[x].on}}
  OBVIOUS
<1>4. /\ exec'["retry"] = [Resting EXCEPT !.pc = "next", !.left = l]
      /\ \A u \in Threads \ {"retry"} : exec'[u] = exec[u]
  BY <1>1, <1>3 DEF retry_cleanup_tasks, Step, TypeInv
<1>5. \A y \in l : \E c \in TaskIds, b \in BOOLEAN :
        task[c].on /\ (b <=> task[c].seq # 0) /\ y = <<c, b>>
  BY <1>3
<1>6. \A c, b : <<c, b>>[1] = c /\ <<c, b>>[2] = b
  OBVIOUS
<1>7. \A y \in l : /\ y \in (TaskIds \cup {"reclaim"}) \X BOOLEAN /\ y[1] \in TaskIds
                   /\ y[1] \in deleted \/ Live(y[1])
                   /\ ~y[2] => y[1] \in deleted
  <2> SUFFICES ASSUME NEW c \in TaskIds, NEW b \in BOOLEAN, task[c].on, b <=> task[c].seq # 0
               PROVE  /\ c \in deleted \/ Live(c)
                      /\ ~b => c \in deleted
    BY <1>5, <1>6, Marks
  <2> QED BY <1>1 DEF Tasks, TaskOf
<1>8. l \in SUBSET ((TaskIds \cup {"reclaim"}) \X BOOLEAN) /\ Resting \in ExecType /\ "next" \in Pcs
  BY <1>7, Marks DEF Pcs
<1>9. exec'["retry"] \in ExecType
  BY <1>4, <1>8 DEF ExecType
<1>10. exec'["retry"].pc = "next" /\ exec'["retry"].left = l /\ exec'["retry"].paths = {}
  BY <1>4 DEF Resting
<1>11. exec' \in [Threads -> ExecType]
  BY <1>1, <1>4, <1>9 DEF TypeInv, retry_cleanup_tasks, Step
<1>12. Lists("retry")'
  <2>1. \A y \in exec'["retry"].left :
          /\ y[1] \in TaskIds /\ (y[1] \in deleted' \/ Live(y[1])')
          /\ ~y[2] => y[1] \in deleted'
    BY <1>2, <1>7, <1>10 DEF Live
  <2>2. <<"reclaim", TRUE>> \notin exec'["retry"].left
    BY <1>1, <1>6, <2>1
  <2> QED BY <1>10, <2>1, <2>2 DEF Lists, AtRest
<1>13. Tending("retry")' /\ Debt("retry")'
  BY <1>10 DEF Tending, Debt
<1>14. Turns("retry")
  BY <1>2, <1>4, <1>10, <1>11 DEF Turns
<1> QED BY <1>1, <1>12, <1>13, <1>14, TurningKeeps

\* A thread that gives up its task owes nothing any more: the task stays.
LEMMA StandsDown ==
    ASSUME ReclaimInv, NEW t \in Threads, exec[t].pc \in {"check", "remove"},
           exec' = [exec EXCEPT ![t] = Over(t)],
           UNCHANGED <<conv, owned, task, deleted, done, disk, shadow, sources, host>>
    PROVE  ReclaimInv'
<1>1. TypeInv /\ Downtime /\ Lists(t) /\ Threads = {"api", "retry"}
  BY Marks DEF ReclaimInv, Works1
<1>2. exec'[t] = Over(t) /\ \A u \in Threads \ {t} : exec'[u] = exec[u]
  BY <1>1 DEF TypeInv
<1>3. /\ Over(t) \in ExecType /\ Over(t).left = exec[t].left /\ Over(t).paths = {}
      /\ Over(t).pc = IF exec[t].left = {<<"reclaim", TRUE>>} THEN "reclaim" ELSE "next"
  BY <1>1, Overs
<1>4. exec' \in [Threads -> ExecType]
  BY <1>1, <1>3 DEF TypeInv
<1>5. Lists(t)' /\ Tending(t)'
  BY <1>1, <1>2, OverWorks
<1>6. Debt(t)'
  BY <1>2, <1>3 DEF Debt
<1>7. host.up \/ (t = "api" /\ exec'[t].pc \notin {"queue", "clear", "reclaim"})
  <2>1. host.up \/ t = "api"
    BY <1>1 DEF Downtime, Resting
  <2>2. exec[t].left = {<<"reclaim", TRUE>>} => host.up
    BY <1>1 DEF Lists
  <2> QED BY <1>2, <1>3, <2>1, <2>2
<1>8. Turns(t)
  BY <1>2, <1>3, <1>4, <1>7 DEF Turns
<1> QED BY <1>5, <1>6, <1>8, TurningKeeps

\* A task is looked up again before it is worked off: of a Run that was started since, it is
\* finished without a removal; of a deleted one, it is worked off in full.
LEMMA executeKeeps ==
    ASSUME ReclaimInv, NEW t \in Threads, execute(t)
    PROVE  ReclaimInv'
<1>1. /\ TypeInv /\ Downtime /\ Lives /\ Tasks /\ Lists(t) /\ Tending(t) /\ exec[t].pc = "check"
      /\ exec[t] \in ExecType /\ Threads = {"api", "retry"} /\ DeletedAccounted
  BY Typed, Marks DEF ReclaimInv, Works1, execute
<1>2. PICK c \in TaskIds : c = exec[t].run
  BY <1>1, Typed
<1>3. PICK m \in TaskType : m = task[c]
  BY <1>1, <1>2, Typed
<1>4. /\ UNCHANGED <<conv, deleted, disk, shadow, sources, host>>
      /\ \/ /\ m.on /\ m.seq # 0 /\ Live(c) /\ exec' = [exec EXCEPT ![t] = Over(t)] /\ Finished(c)
         \/ /\ m.on /\ m.seq # 0 /\ Live(c) /\ m.seq = conv[c].seq /\ ~Active(c)
            /\ exec' = [exec EXCEPT ![t] = [exec[t] EXCEPT !.pc = "enqueue",
                          !.targets = manifest(c, FALSE).targets, !.seq = manifest(c, FALSE).seq,
                          !.lost = manifest(c, FALSE).lost]]
            /\ UNCHANGED <<task, done, owned>>
         \/ /\ m.on /\ ~Live(c) /\ c \in deleted
            /\ exec' = [exec EXCEPT ![t] = [exec[t] EXCEPT !.pc = "plan", !.targets = m.targets,
                                                !.seq = m.seq, !.lost = m.lost]]
            /\ UNCHANGED <<task, done, owned>>
         \/ exec' = [exec EXCEPT ![t] = Over(t)] /\ UNCHANGED <<task, done, owned>>
  BY <1>2, <1>3, Zenon DEF execute, Step
<1>5. host.up \/ t = "api"
  BY <1>1 DEF Downtime, Resting
<1>6. m.on => TaskOf(c)
  BY <1>1, <1>2, <1>3 DEF Tasks
<1>7. /\ m.seq \in Nat /\ m.lost \in BOOLEAN /\ m.targets \in SUBSET Dirs
      /\ exec[t].paths = {} /\ exec[t].run = c
  BY <1>1, <1>2, <1>3 DEF TaskType, Tending
<1>8. CASE m.on /\ m.seq # 0 /\ Live(c) /\ exec' = [exec EXCEPT ![t] = Over(t)] /\ Finished(c)
  <2>1. c \notin deleted
    BY <1>1, <1>8 DEF Lives, Life, Live
  <2>2. Finishes(t)
    BY <1>1, <1>2, <1>4, <1>8, <2>1 DEF Finishes
  <2> QED BY <2>2, FinishingKeeps
<1>9. ASSUME m.on, m.seq # 0, Live(c), m.seq = conv[c].seq, ~Active(c),
             exec' = [exec EXCEPT ![t] = [exec[t] EXCEPT !.pc = "enqueue",
                          !.targets = manifest(c, FALSE).targets, !.seq = manifest(c, FALSE).seq,
                          !.lost = manifest(c, FALSE).lost]],
             UNCHANGED <<task, done, owned>>
      PROVE  ReclaimInv'
  <2>1. c \in Convs /\ owned[c] \subseteq Own(c)
    BY <1>1, <1>9 DEF Lives, Life, Live
  <2>2. PICK g : g = manifest(c, FALSE)
    OBVIOUS
  <2>3. GivesUp(c, g)
    BY <1>1, <2>1, <2>2, Manifests, Zenon
  <2>4. /\ g.targets \in SUBSET Dirs /\ g.seq \in Nat /\ g.lost \in BOOLEAN /\ "enqueue" \in Pcs
        /\ g.targets \subseteq {Work(c)} /\ g.seq = conv[c].seq
    BY <2>3 DEF GivesUp, TaskType, Pcs
  <2>5. exec' = [exec EXCEPT ![t] = [exec[t] EXCEPT !.pc = "enqueue", !.targets = g.targets,
                                         !.seq = g.seq, !.lost = g.lost]]
    BY <1>9, <2>2, Zenon
  <2>6. /\ exec'[t] = [exec[t] EXCEPT !.pc = "enqueue", !.targets = g.targets, !.seq = g.seq,
             !.lost = g.lost]
        /\ \A u \in Threads \ {t} : exec'[u] = exec[u]
    BY <1>1, <2>5 DEF TypeInv
  <2>7. exec'[t] \in ExecType
    BY <1>1, <2>4, <2>6 DEF ExecType
  <2>8. /\ exec'[t].pc = "enqueue" /\ exec'[t].run = c /\ exec'[t].left = exec[t].left
        /\ exec'[t].locks = exec[t].locks /\ exec'[t].paths = {} /\ exec'[t].targets = g.targets
        /\ exec'[t].seq = g.seq
    BY <1>1, <1>7, <2>4, <2>6 DEF ExecType
  <2>9. exec' \in [Threads -> ExecType]
    BY <1>1, <2>5, <2>6, <2>7 DEF TypeInv
  <2>10. Lists(t)'
    BY <1>1, <1>4, <2>8 DEF Lists, Live, AtRest
  <2>11. \/ Can1("lookup")
         \/ Locked(t, c) /\ ~Active(c) /\ ~conv[c].keep
    BY <1>1, <1>2, <1>3, <1>6, <1>7, <1>9 DEF Lists, TaskOf
  <2>12. /\ g.targets \subseteq Own(c)' /\ g.targets \subseteq {Work(c), Shadow}
    BY <2>4 DEF Own
  <2>13. g.seq # 0 /\ g.seq <= conv[c].seq /\ Live(c)'
    BY <1>3, <1>4, <1>7, <1>9, <2>4 DEF Live
  <2>14. /\ Can1("lookup")' <=> Can1("lookup")
         /\ Locked(t, c)' <=> Locked(t, c)
         /\ Active(c)' <=> Active(c)
         /\ conv' = conv
    BY <1>4, <2>8 DEF Can1, Locked, Active
  <2>15. Tending(t)'
    BY <2>8, <2>11, <2>12, <2>13, <2>14 DEF Tending
  <2>16. Debt(t)'
    BY <2>8 DEF Debt
  <2>17. Turns(t)
    BY <1>4, <1>5, <1>9, <2>6, <2>8, <2>9 DEF Turns
  <2> QED BY <2>10, <2>15, <2>16, <2>17, TurningKeeps
<1>10. ASSUME m.on, ~Live(c), c \in deleted,
              exec' = [exec EXCEPT ![t] = [exec[t] EXCEPT !.pc = "plan", !.targets = m.targets,
                                               !.seq = m.seq, !.lost = m.lost]],
              UNCHANGED <<task, done, owned>>
       PROVE  ReclaimInv'
  <2>1. "plan" \in Pcs
    BY DEF Pcs
  <2>2. /\ exec'[t] = [exec[t] EXCEPT !.pc = "plan", !.targets = m.targets, !.seq = m.seq,
             !.lost = m.lost]
        /\ \A u \in Threads \ {t} : exec'[u] = exec[u]
    BY <1>1, <1>10 DEF TypeInv
  <2>3. exec'[t] \in ExecType
    BY <1>1, <1>7, <2>1, <2>2 DEF ExecType
  <2>4. /\ exec'[t].pc = "plan" /\ exec'[t].run = c /\ exec'[t].left = exec[t].left
        /\ exec'[t].locks = exec[t].locks /\ exec'[t].paths = {} /\ exec'[t].targets = m.targets
        /\ exec'[t].seq = m.seq /\ exec'[t].lost = m.lost
    BY <1>1, <1>7, <2>2 DEF ExecType
  <2>5. exec' \in [Threads -> ExecType]
    BY <1>1, <1>10, <2>2, <2>3 DEF TypeInv
  <2>6. Lists(t)'
    BY <1>1, <1>4, <2>4 DEF Lists, Live, AtRest
  <2>7. Own(c)' = Own(c) /\ ~Live(c)' /\ (Can1("lookup")' <=> Can1("lookup"))
        /\ (Can1("clear")' <=> Can1("clear"))
    BY <1>4, <1>10, Layout DEF Live, Can1
  <2>8. Tending(t)'
    BY <1>2, <1>3, <1>4, <1>6, <1>10, <2>4, <2>7 DEF Tending, TaskOf
  <2>9. Debt(t)'
    <3>1. Owes(c)' = Owes(c)
      BY <1>4 DEF Owes, Protected
    <3>2. c \in Convs /\ ~Excused => Owes(c) \ Unproved(m.lost, c) \subseteq m.targets
      BY <1>1, <1>2, <1>3, <1>10 DEF DeletedAccounted, Excused, Unproved
    <3>3. Excused' <=> Excused
      BY <1>4 DEF Excused, Can1
    <3>4. Unproved(exec'[t].lost, exec'[t].run) = Unproved(m.lost, c)
      BY <2>4
    <3> QED BY <2>4, <3>1, <3>2, <3>3, <3>4 DEF Debt, Unproved
  <2>10. Turns(t)
    BY <1>4, <1>5, <1>10, <2>2, <2>4, <2>5 DEF Turns
  <2> QED BY <2>6, <2>8, <2>9, <2>10, TurningKeeps
<1>11. CASE exec' = [exec EXCEPT ![t] = Over(t)] /\ UNCHANGED <<task, done, owned>>
  BY <1>1, <1>4, <1>11, StandsDown
<1> QED BY <1>4, <1>8, <1>9, <1>10, <1>11

\* A refused plan, or a removal that fails half-way, leaves the task.
LEMMA fail_cleanupKeeps ==
    ASSUME ReclaimInv, NEW t \in Threads, fail_cleanup(t)
    PROVE  ReclaimInv'
<1>1. /\ TypeInv /\ Downtime /\ Lists(t) /\ Threads = {"api", "retry"} /\ host \in Machines
      /\ exec[t].pc \in {"plan", "remove"}
  BY Marks DEF ReclaimInv, Works1, TypeInv, fail_cleanup
<1>2. exec' = [exec EXCEPT ![t] = Over(t)]
  BY DEF fail_cleanup, Step
<1>3. exec'[t] = Over(t) /\ \A u \in Threads \ {t} : exec'[u] = exec[u]
  BY <1>1, <1>2 DEF TypeInv
<1>4. /\ Over(t) \in ExecType /\ Over(t).left = exec[t].left /\ Over(t).paths = {}
      /\ Over(t).pc = IF exec[t].left = {<<"reclaim", TRUE>>} THEN "reclaim" ELSE "next"
  BY <1>1, Overs
<1>5. exec' \in [Threads -> ExecType]
  BY <1>1, <1>2, <1>4 DEF TypeInv
<1>6. host' = [host EXCEPT !.fails = @ - 1] /\ host.fails \in Nat /\ host.fails > 0
  BY <1>1 DEF fail_cleanup, Machines
<1>7. /\ host' \in Machines /\ host'.up = host.up /\ host'.gone = host.gone /\ host'.can = host.can
      /\ host'.guard = host.guard /\ host'.plans = host.plans /\ host'.old = host.old
      /\ host'.inside = host.inside /\ host'.serial = host.serial
  <2>1. host.fails - 1 \in Nat
    BY <1>6
  <2>2. host' = [host EXCEPT !.fails = host.fails - 1]
    BY <1>6
  <2>3. host' \in Machines
    BY <1>1, <2>1, <2>2 DEF Machines
  <2> QED BY <1>1, <2>2, <2>3 DEF Machines
<1>8. UNCHANGED <<conv, owned, task, deleted, done, sources>>
  BY DEF fail_cleanup
<1>9. Lists(t)' /\ Tending(t)'
  BY <1>1, <1>3, <1>7, <1>8, OverWorks
<1>10. Debt(t)'
  BY <1>3, <1>4 DEF Debt
<1>11. host.up \/ (t = "api" /\ exec'[t].pc \notin {"queue", "clear", "reclaim"})
  <2>1. host.up \/ t = "api"
    BY <1>1 DEF Downtime, Resting
  <2>2. exec[t].left = {<<"reclaim", TRUE>>} => host.up
    BY <1>1 DEF Lists
  <2> QED BY <1>3, <1>4, <2>1, <2>2
<1>12. \E paths \in SUBSET exec[t].paths : Removed(paths)
  BY DEF fail_cleanup
<1>13. Removes(t)
  BY <1>1, <1>3, <1>4, <1>5, <1>7, <1>8, <1>11, <1>12 DEF Removes
<1> QED BY <1>9, <1>10, <1>13, RemovingKeeps

\* The directories of a plan go.
LEMMA remove_pathsKeeps ==
    ASSUME ReclaimInv, NEW t \in Threads, remove_paths(t)
    PROVE  ReclaimInv'
<1>1. /\ TypeInv /\ Downtime /\ Lists(t) /\ Tending(t) /\ Debt(t) /\ host \in Machines
      /\ exec[t].pc = "remove" /\ exec[t] \in ExecType /\ {} \in SUBSET Dirs
      /\ Threads = {"api", "retry"}
      /\ exec[t].run \in TaskIds
  BY Typed, Marks DEF ReclaimInv, Works1, Debts, TypeInv, remove_paths
<1>2. exec' = [exec EXCEPT ![t] = [exec[t] EXCEPT !.paths = {}]]
  BY DEF remove_paths, Step
<1>3. exec'[t] = [exec[t] EXCEPT !.paths = {}] /\ \A u \in Threads \ {t} : exec'[u] = exec[u]
  BY <1>1, <1>2 DEF TypeInv
<1>4. exec'[t] \in ExecType
  BY <1>1, <1>3 DEF ExecType
<1>5. /\ exec'[t].pc = "remove" /\ exec'[t].run = exec[t].run /\ exec'[t].left = exec[t].left
      /\ exec'[t].locks = exec[t].locks /\ exec'[t].targets = exec[t].targets
      /\ exec'[t].seq = exec[t].seq /\ exec'[t].lost = exec[t].lost /\ exec'[t].paths = {}
  BY <1>1, <1>3 DEF ExecType
<1>6. exec' \in [Threads -> ExecType]
  BY <1>1, <1>2, <1>4 DEF TypeInv
<1>7. UNCHANGED <<conv, owned, task, deleted, done, sources, host>>
  BY DEF remove_paths
<1>8. disk' = disk \ exec[t].paths
  BY DEF remove_paths, Removed
<1>9. PICK c \in TaskIds : c = exec[t].run
  BY <1>1
<1>10. /\ Own(c)' = Own(c) /\ Live(c)' = Live(c) /\ Locked(t, c)' = Locked(t, c)
       /\ Active(c)' = Active(c)
       /\ (Can1("lookup")' <=> Can1("lookup")) /\ (Can1("clear")' <=> Can1("clear"))
  BY <1>5, <1>7, Layout DEF Live, Locked, Active, Can1
<1>11. Lists(t)'
  BY <1>1, <1>5, <1>7 DEF Lists, Live, AtRest
<1>12. Tending(t)'
  BY <1>1, <1>5, <1>7, <1>9, <1>10 DEF Tending
<1>13. Debt(t)'
  <2>1. c \in deleted \cap Convs /\ ~Excused /\ ~exec[t].lost => Owes(c) \subseteq exec[t].paths
    BY <1>1, <1>9 DEF Debt
  <2>2. Owes(c)' = Owes(c) \ exec[t].paths
    BY <1>7, <1>8 DEF Owes, Protected
  <2>3. Excused' <=> Excused
    BY <1>10 DEF Excused
  <2>4. exec'[t].run = c
    BY <1>5, <1>9
  <2> QED BY <1>5, <1>7, <2>1, <2>2, <2>3, <2>4 DEF Debt
<1>14. host.up \/ t = "api"
  BY <1>1 DEF Downtime, Resting
<1>15. \E paths \in SUBSET exec[t].paths : Removed(paths)
  BY DEF remove_paths
<1>16. Removes(t)
  BY <1>1, <1>3, <1>5, <1>6, <1>7, <1>14, <1>15 DEF Removes
<1> QED BY <1>11, <1>12, <1>13, <1>16, RemovingKeeps

\* The task goes when its directories are gone; not when its workspace is unproved.
LEMMA finish_cleanupKeeps ==
    ASSUME ReclaimInv, NEW t \in Threads, finish_cleanup(t)
    PROVE  ReclaimInv'
<1>1. /\ TypeInv /\ Debt(t) /\ exec[t].pc = "remove" /\ exec[t].paths = {}
      /\ exec' = [exec EXCEPT ![t] = Over(t)]
      /\ UNCHANGED <<conv, deleted, disk, shadow, sources, host>>
  BY DEF ReclaimInv, Debts, finish_cleanup, Step
<1>2. CASE exec[t].lost
  <2>1. UNCHANGED <<task, done, owned>>
    BY <1>2 DEF finish_cleanup
  <2> QED BY <1>1, <2>1, StandsDown
<1>3. CASE ~exec[t].lost
  <2>1. Finished(exec[t].run)
    BY <1>3 DEF finish_cleanup
  <2>2. exec[t].run \in Convs \cap deleted => Owes(exec[t].run) = {} \/ Excused
    BY <1>1, <1>3 DEF Debt
  <2>3. Finishes(t)
    BY <1>1, <2>1, <2>2 DEF Finishes
  <2> QED BY <2>3, FinishingKeeps
<1> QED BY <1>2, <1>3

-----------------------------------------------------------------------------

\* The machines a behaviour may start on.
LEMMA InitKeeps ==
    ASSUME ReclaimInit
    PROVE  ReclaimInv
<1>1. /\ host \in Machines /\ host.up /\ ~host.gone /\ host.guard = "none"
      /\ host.plans \subseteq host.old /\ host.known \subseteq host.old
      /\ \A c \in host.old : host.inside[c] = <<>>
  BY HostsAssumption DEF ReclaimInit
<1>2. /\ host.old \subseteq Convs /\ Convs \subseteq TaskIds
      /\ \A c \in Convs : host.inside[c] \in {<<>>} \cup {Work(d) : d \in Convs}
           \cup {Sess(d) : d \in Convs}
  BY <1>1 DEF Machines, TaskIds
<1>3. /\ disk = (UNION {{Work(c), Sess(c), Plan(c)} : c \in host.old})
                \cup (IF host.old = {} THEN {} ELSE {Shadow})
                  \cup (IF host.worker THEN {Part} ELSE {})
      /\ deleted = {} /\ sources = {}
      /\ shadow = [refs |-> {}, pins |-> host.old, made |-> host.old]
  BY DEF ReclaimInit
<1>a. \A y \in disk : \/ y = Shadow \/ y = Part
                       \/ \E d \in host.old : y = Work(d) \/ y = Sess(d) \/ y = Plan(d)
  <2>1. \A y \in UNION {{Work(c), Sess(c), Plan(c)} : c \in host.old} :
           \E d \in host.old : y = Work(d) \/ y = Sess(d) \/ y = Plan(d)
    OBVIOUS
  <2>2. \A y \in disk : \/ y \in UNION {{Work(c), Sess(c), Plan(c)} : c \in host.old}
                       \/ y = Shadow \/ y = Part
    <3>1. (IF host.old = {} THEN {} ELSE {Shadow}) \subseteq {Shadow}
      OBVIOUS
    <3>2. (IF host.worker THEN {Part} ELSE {}) \subseteq {Part}
      OBVIOUS
    <3>3. PICK a : a = IF host.old = {} THEN {} ELSE {Shadow}
      OBVIOUS
    <3>4. PICK b : b = IF host.worker THEN {Part} ELSE {}
      OBVIOUS
    <3>5. PICK u : u = UNION {{Work(c), Sess(c), Plan(c)} : c \in host.old}
      OBVIOUS
    <3>6. disk = u \cup a \cup b
      BY <1>3, <3>3, <3>4, <3>5, Zenon
    <3> QED BY <3>1, <3>2, <3>3, <3>4, <3>5, <3>6
  <2> QED BY <2>2
<1>b. \A d \in host.old : Sess(d) \in disk /\ Plan(d) \in disk
  <2>1. \A d \in host.old : {Work(d), Sess(d), Plan(d)} \subseteq disk
    BY <1>3
  <2> QED BY <2>1
<1>4. \A c \in Convs :
         /\ conv[c].live = (c \in host.old)
         /\ conv[c].phase = IF c \in host.old THEN "completed" ELSE "idle"
         /\ conv[c].seq = IF c \in host.old THEN 1 ELSE 0
         /\ conv[c].ran = (c \in host.old) /\ ~conv[c].head /\ ~conv[c].keep
  BY DEF ReclaimInit
<1>5. \A c \in TaskIds :
         /\ task[c] = NoTask
         /\ owned[c] = IF c \in host.known THEN {Work(c), Sess(c), Shadow, Part} \cap disk ELSE {}
  BY DEF ReclaimInit
<1>6. \A t \in Threads : exec[t] = Resting
  BY DEF ReclaimInit
<1>7. TypeInv
  <2>1. conv \in [Convs -> ConvType]
    <3>1. conv = [c \in Convs |->
                    [live |-> c \in host.old, phase |-> IF c \in host.old THEN "completed"
                      ELSE "idle",
                     seq |-> IF c \in host.old THEN 1 ELSE 0, ran |-> c \in host.old,
                     head |-> FALSE, keep |-> FALSE]]
      BY DEF ReclaimInit
    <3> QED BY <3>1 DEF ConvType
  <2>2. owned \in [TaskIds -> SUBSET Dirs]
    <3>1. \A c \in TaskIds : {Work(c), Sess(c), Shadow, Part} \in SUBSET Dirs
      BY DEF Dirs
    <3>2. \A c \in TaskIds : owned[c] \in SUBSET Dirs
      BY <1>5, <3>1
    <3>3. owned = [c \in TaskIds |-> owned[c]]
      BY DEF ReclaimInit
    <3> QED BY <3>2, <3>3
  <2>3. task \in [TaskIds -> TaskType]
    <3>1. NoTask \in TaskType
      BY DEF NoTask, TaskType
    <3> QED BY <3>1 DEF ReclaimInit
  <2>4. shadow \in ShadowType
    BY <1>2, <1>3 DEF ShadowType
  <2>5. exec \in [Threads -> ExecType]
    BY Marks DEF ReclaimInit
  <2> QED BY <1>1, <1>3, <2>1, <2>2, <2>3, <2>4, <2>5 DEF TypeInv
<1>8. \A c \in Convs : ~Active(c)
  BY <1>4 DEF Active
<1>9. Downtime
  BY <1>1, <1>8 DEF Downtime
<1>10. \A c \in TaskIds : owned[c] \subseteq Own(c)
  BY <1>5 DEF Own
<1>11. Lives
  <2> SUFFICES ASSUME NEW c \in Convs PROVE Life(c)
    BY DEF Lives
  <2>1. c \in TaskIds /\ (owned[c] # {} => c \in host.old)
    BY <1>1, <1>2, <1>5
  <2>2. c \in host.old => SameSource(c)
    BY <1>1 DEF SameSource
  <2>3. ASSUME c \notin host.old PROVE Work(c) \notin disk /\ Sess(c) \notin disk
    <3>1. \A d \in host.old : d \in TaskIds
      BY <1>2
    <3>2. /\ \A d \in host.old : d # c =>
               Work(c) # Work(d) /\ Work(c) # Sess(d) /\ Work(c) # Plan(d)
          /\ \A d \in host.old : d # c =>
               Sess(c) # Work(d) /\ Sess(c) # Sess(d) /\ Sess(c) # Plan(d)
          /\ Work(c) # Shadow /\ Work(c) # Part /\ Sess(c) # Shadow /\ Sess(c) # Part
      BY <1>7, <2>1, <3>1, Apart
    <3>3. \A d \in host.old : d # c
      BY <2>3
    <3> QED BY <1>a, <3>2, <3>3
  <2>4. Sess(c) \in disk => c \in host.old
    BY <2>3
  <2>5. /\ conv[c].live <=> c \in host.old
        /\ conv[c].phase # "running" /\ (conv[c].phase = "completed" => ~conv[c].keep)
        /\ conv[c].live => conv[c].seq # 0
        /\ conv[c].ran <=> c \in host.old
        /\ ~conv[c].head /\ ~conv[c].keep /\ c \notin deleted
    <3>1. (conv[c].live <=> c \in host.old) /\ (conv[c].ran <=> c \in host.old)
      BY <1>4, Zenon
    <3>2. /\ conv[c].phase = IF c \in host.old THEN "completed" ELSE "idle"
          /\ conv[c].seq = IF c \in host.old THEN 1 ELSE 0
          /\ ~conv[c].head /\ ~conv[c].keep
      BY <1>4, Zenon
    <3> QED BY <1>3, <3>1, <3>2
  <2>6. shadow.made = host.old /\ owned[c] \subseteq Own(c)
    BY <1>3, <1>10, <2>1
  <2> QED BY <2>1, <2>2, <2>3, <2>4, <2>5, <2>6 DEF Life
<1>12. Tasks
  <2>1. ~NoTask.on
    BY DEF NoTask
  <2> QED BY <1>5, <2>1 DEF Tasks
<1>13. \A t \in Threads : exec[t].pc = "rest" /\ exec[t].paths = {} /\ exec[t].left = {}
  BY <1>6 DEF Resting
<1>14. Works1
  <2> SUFFICES ASSUME NEW t \in Threads PROVE Lists(t) /\ Tending(t)
    BY DEF Works1
  <2> QED BY <1>6, <1>13 DEF Lists, Tending, AtRest
<1>15. Threats
  <2> SUFFICES ASSUME NEW t \in Threads PROVE Threat(t)
    BY DEF Threats
  <2> QED BY <1>3, <1>13 DEF Threat
<1>16. Debts
  <2> SUFFICES ASSUME NEW t \in Threads PROVE Debt(t)
    BY DEF Debts
  <2> QED BY <1>13 DEF Debt
<1>17. KeepsNeeded
  <2> SUFFICES ASSUME NEW c \in Convs, conv[c].live
               PROVE  /\ conv[c].keep => Work(c) \in disk \/ Can1("lookup")
                      /\ conv[c].ran => Sess(c) \in disk
                      /\ Plan(c) \in disk
                      /\ Active(c) /\ conv[c].head =>
                           Shadow \in disk \/ Can1("late") \/ Can1("lookup")
                      /\ Part \in owned[c] => Part \in disk
                      /\ c \in shadow.made => c \in shadow.pins
    BY DEF KeepsNeeded
  <2>1. c \in host.old /\ c \in TaskIds
    BY <1>2, <1>4
  <2>2. Sess(c) \in disk /\ Plan(c) \in disk
    BY <1>b, <2>1
  <2>3. Part \in owned[c] => Part \in disk
    BY <1>5, <2>1
  <2> QED BY <1>3, <1>4, <1>8, <2>2, <2>3
<1>18. KeepsSources /\ DeletedAccounted
  BY <1>3 DEF KeepsSources, DeletedAccounted
<1> QED BY <1>7, <1>9, <1>11, <1>12, <1>14, <1>15, <1>16, <1>17, <1>18 DEF ReclaimInv

\* A step that changes nothing.
LEMMA StutterKeeps ==
    ASSUME ReclaimInv, UNCHANGED reclaimVars
    PROVE  ReclaimInv'
<1>1. /\ host' = host /\ conv' = conv /\ owned' = owned /\ task' = task /\ deleted' = deleted
      /\ disk' = disk /\ shadow' = shadow /\ sources' = sources /\ exec' = exec
  BY DEF reclaimVars
<1>2. /\ \A t \in Threads : (Lists(t)' <=> Lists(t)) /\ (Tending(t)' <=> Tending(t))
      /\ \A t \in Threads : (Threat(t)' <=> Threat(t)) /\ (Debt(t)' <=> Debt(t))
  BY <1>1 DEF Lists, Tending, Threat, Debt, AtRest, Live, Locked, Can1, Active, Own, Plan, Lax,
              SameSource, Excused, Owes, Protected
<1>3. /\ \A c \in Convs : Life(c)' <=> Life(c)
      /\ \A c \in TaskIds : TaskOf(c)' <=> TaskOf(c)
  BY <1>1 DEF Life, TaskOf, Own, Plan, SameSource, Live, Can1
<1>4. TypeInv' /\ Downtime'
  BY <1>1 DEF ReclaimInv, TypeInv, Downtime, AtRest, Active, SameSource, Lax, Can1
<1>5. KeepsNeeded' /\ KeepsSources' /\ DeletedAccounted'
  BY <1>1
     DEF ReclaimInv, KeepsNeeded, KeepsSources, DeletedAccounted, Plan, Active, Can1, SameSource,
              Owes, Protected
<1> QED BY <1>1, <1>2, <1>3, <1>4, <1>5 DEF ReclaimInv, Lives, Tasks, Works1, Threats, Debts

\* Every step keeps the invariant.
LEMMA ReclaimStep == ReclaimInv /\ [ReclaimNext]_reclaimVars => ReclaimInv'
<1> SUFFICES ASSUME ReclaimInv, [ReclaimNext]_reclaimVars PROVE ReclaimInv'
  OBVIOUS
<1>1. ASSUME NEW c \in Convs,
             \/ remember_event(c) \/ Create(c) \/ Start(c) \/ collect_source_snapshot(c)
             \/ record_job_source(c) \/ Fail1(c) \/ Complete(c) \/ reset_workspace(c)
      PROVE  ReclaimInv'
  BY <1>1, remember_eventKeeps, CreateKeeps, StartKeeps, collect_source_snapshotKeeps,
     record_job_sourceKeeps, Fail1Keeps, CompleteKeeps, reset_workspaceKeeps
<1>2. ASSUME NEW cs \in SUBSET Convs, delete_workspace(cs) PROVE ReclaimInv'
  BY <1>2, delete_workspaceKeeps
<1>3. ASSUME NEW t \in Threads, Works(t) \/ fail_cleanup(t) PROVE ReclaimInv'
  BY <1>3, Next1Keeps, executeKeeps, enqueue_cleanupKeeps, PlanPathsKeeps, remove_pathsKeeps,
     finish_cleanupKeeps, fail_cleanupKeeps DEF Works
<1>4. CASE \/ cleanup_worktrees \/ reclaim_shadow \/ ClearCheck \/ clear_history
        \/ retry_cleanup_tasks
           \/ recover_cleanup_tasks \/ cleanup_workspaces \/ MoveSource \/ ReclaimCrash
  BY <1>4, cleanup_worktreesKeeps, reclaim_shadowKeeps, ClearCheckKeeps, clear_historyKeeps,
     retry_cleanup_tasksKeeps, recover_cleanup_tasksKeeps, cleanup_workspacesKeeps, MoveSourceKeeps,
     ReclaimCrashKeeps
<1>5. CASE UNCHANGED reclaimVars
  BY <1>5, StutterKeeps
<1> QED BY <1>1, <1>2, <1>3, <1>4, <1>5 DEF ReclaimNext

\* The threads that reclaim directories take nothing that is needed and lose nothing that is
\* owed, for every number of conversations and every machine to start on: with crashes, failing
\* removals, a source folder that moves away, the offline command and the races that the
\* properties name (cleanup.rs, workspace_cleanup.rs).
THEOREM ReclaimSafety == ReclaimSpec => []ReclaimSafe
<1>1. ReclaimInit => ReclaimInv
  BY InitKeeps
<1>2. ReclaimInv => ReclaimSafe
  BY DEF ReclaimInv, ReclaimSafe
<1> QED BY <1>1, <1>2, ReclaimStep, PTL DEF ReclaimSpec

(***************************************************************************)
(* Module Results.                                                         *)
(***************************************************************************)
(* The inductive invariant.                                                *)

\* The types of the state of a Run: its commits, workspaces, generations and writer.
Phases == {"running", "publishing", "completed", "needs_attention", "launching_result", "paused"}
Statuses == {"running", "failed", "completed"}
Working == {"admit", "select", "prepare", "prepared", "track", "tracked", "wait", "exited",
            "sealed", "failed"}
CommitType == [id : Nat, marks : SUBSET Nat]
ResultType == [code : CommitType, env : SUBSET Nat]
ViewType == [there : BOOLEAN, head : CommitType, code : SUBSET Nat, env : SUBSET Nat]
GenType == [entry : EntrySet, status : Statuses, cancelled : BOOLEAN, wrote : BOOLEAN,
            half : BOOLEAN]
PublicationType == [head : CommitType, entry : [EntrySet -> ResultType]]
WriterType == [pc : Working \cup {"drop"}, entry : EntrySet, retry : BOOLEAN,
               from : ResultType, there : BOOLEAN, result : ResultType]
Evidence == {"selected", "before", "after"}

\* Each variable has its type.
ResultsTypeInv ==
    /\ story \in StoryType /\ phase \in [Runs -> Phases]
    /\ heads \in [Runs -> [EntrySet -> ResultType]] /\ delivered \in [Runs -> SUBSET CommitType]
    /\ published \in [Runs -> PublicationType] /\ gens \in [Runs -> Seq(GenType)]
    /\ flags \in [Runs -> Nat] /\ views \in [Runs -> [EntrySet -> ViewType]]
    /\ records \in [Runs -> SUBSET (Evidence \X Nat)]
    /\ writer \in [Runs -> WriterType \cup {Idle}]
    /\ proc \in [Runs -> {"none", "spawned", "registered"}] /\ cancel \in [Runs -> BOOLEAN]
    /\ lease \in Runs \cup {NoRun} /\ baseline \in BOOLEAN

\* The last generation of a Run.
Gen(r) == gens[r][Generation(r)]

\* A generation that is performed is the last one and runs.
Performs(r) ==
    /\ writer[r].pc \in Working => Status(r) = "running" /\ writer[r].entry = Gen(r).entry
    /\ phase[r] = "publishing" => Status(r) # "running"
    /\ proc[r] # "none" => writer[r].pc \in {"track", "tracked", "wait"}
    /\ story.device /\ writer[r].pc \in Working \ {"admit", "sealed", "failed"} => lease = r

\* The flag in the table is that of the last generation, which may still be
\* cancelled.
Flags(r) ==
    /\ flags[r] \in {0, Generation(r)}
    /\ flags[r] # 0 => Status(r) # "completed"
    /\ \A g \in DOMAIN gens[r] : ~(gens[r][g].cancelled /\ gens[r][g].status = "completed")

\* Evidence is left step by step.
Evidenced(r) ==
    /\ writer[r].pc \in Working \ {"admit", "select", "failed"} =>
          <<"selected", Generation(r)>> \in records[r]
    /\ writer[r].pc \in Working \ {"admit", "select", "prepare", "failed"} =>
          <<"before", Generation(r)>> \in records[r]
    /\ writer[r].pc = "sealed" => <<"after", Generation(r)>> \in records[r]
    /\ \A g \in DOMAIN gens[r] :
          gens[r][g].status = "completed" => Evidence \X {g} \subseteq records[r]

\* The generations whose program wrote into a workspace.
Wrote(r, e) == {g \in DOMAIN gens[r] : gens[r][g].wrote /\ gens[r][g].entry = e}

\* What the writer knows of its view.
Rebuilds(r) ==
    /\ writer[r].pc \in Working => writer[r].from = published[r].entry[writer[r].entry]
    /\ writer[r].pc = "select" => (writer[r].there <=> View(r).there)
    /\ writer[r].pc \in Working \ {"admit", "select", "failed"} => View(r).there
    /\ writer[r].pc \in {"admit", "select"} => ~Gen(r).half
    /\ writer[r].pc = "prepare" => (Gen(r).half <=> ~writer[r].there)
    /\ writer[r].pc = "prepare" /\ ~writer[r].there =>
          Wrote(r, writer[r].entry) \subseteq heads[r][writer[r].entry].code.marks
    /\ writer[r].pc \in Working \ {"admit", "select", "prepare", "failed"} => ~Gen(r).half

\* The generations that left a half rebuilt view for good.
Halves(r, e) ==
    {h \in DOMAIN gens[r] : /\ gens[r][h].half /\ gens[r][h].entry = e
                            /\ ~(h = Generation(r) /\ gens[r][h].status = "running")}

\* What was written is in the view, or, when the view is gone, in the result
\* that it is built again from.
Kept(r, e) ==
    \A g \in Wrote(r, e) :
        /\ views[r][e].there =>
              /\ g \in views[r][e].code
              /\ g \in views[r][e].env \/ \E h \in DOMAIN gens[r] :
                                             gens[r][h].half /\ gens[r][h].entry = e
        /\ ~views[r][e].there => g \in heads[r][e].code.marks
        /\ g \in heads[r][e].code.marks => g \in heads[r][e].env \/ Halves(r, e) # {}

\* The published entries hold what the nodes' results hold, and the source what
\* was delivered.
Delivered(r) ==
    /\ \A e \in EntrySet : /\ heads[r][e].env = published[r].entry[e].env
                           /\ heads[r][e].code.marks \subseteq published[r].entry[e].code.marks
    /\ \A c \in delivered[r] : c.marks \subseteq published[r].head.marks

\* A sealed result has what was written, and is its view if nobody touched it.
Untouched(r, e) == 0 \notin views[r][e].code \cup views[r][e].env
Seals(r) ==
    LET e == writer[r].entry
        result == writer[r].result
    IN writer[r].pc = "sealed" =>
         /\ result.code = View(r).head
         /\ \A g \in Wrote(r, e) :
               g \in result.code.marks /\ (g \in result.env \/ Halves(r, e) # {})
         /\ Untouched(r, e) => Verified(View(r), result)

\* LaunchableIsSealed, whatever the Run does meanwhile.
Launchable(r, e) ==
    ~Stale(r, e) /\ views[r][e].there /\ Untouched(r, e)
    /\ (Status(r) \in {"none", "completed"} \/ Gen(r).entry # e)
        => Verified(views[r][e], published[r].entry[e])

\* MarksKnown are of generations that there were; the results of the nodes have none
\* of the generation that runs.
Last(r) == IF Status(r) = "running" THEN Generation(r) - 1 ELSE Generation(r)
MarksKnown(r) ==
    /\ published[r].head.marks \subseteq 0 .. Generation(r)
    /\ \A e \in EntrySet :
          /\ heads[r][e].code.marks \subseteq 0 .. Last(r)
          /\ views[r][e].code \subseteq 0 .. Generation(r)
          /\ views[r][e].head.marks \subseteq 0 .. Generation(r)
          /\ published[r].entry[e].code.marks \subseteq 0 .. Generation(r)

\* There is a number for a new commit.
Numbered(r) == \E n \in Nat : \A c \in Commits(r) : c.id <= n

\* What holds of each Run.
RunInv(r) ==
    /\ Performs(r) /\ Flags(r) /\ Evidenced(r) /\ Rebuilds(r)
    /\ Delivered(r) /\ Seals(r) /\ Numbered(r) /\ MarksKnown(r)
    /\ \A e \in EntrySet : Kept(r, e) /\ Launchable(r, e)

\* The inductive invariant.
ResultsInv == ResultsTypeInv /\ \A r \in Runs : RunInv(r)

-----------------------------------------------------------------------------

\* The order that Max is a greatest element of.
LessThan == {p \in Nat \X Nat : p[1] < p[2]}

\* A bounded set of numbers has a greatest one, which Max returns.
LEMMA MaxIsGreatest ==
    ASSUME NEW S \in SUBSET Nat, S # {}, NEW n \in Nat, \A x \in S : x <= n
    PROVE  Max(S) \in S /\ \A x \in S : x <= Max(S)
<1> DEFINE T == {n - x : x \in S}
<1>1. T \in SUBSET Nat /\ T # {}
  <2>1. \A x \in S : n - x \in Nat
    OBVIOUS
  <2>2. PICK x \in S : TRUE
    OBVIOUS
  <2>3. n - x \in T
    BY <2>2
  <2> QED BY <2>1, <2>3
<1>2. PICK y \in T : \A z \in T : ~(<<z, y>> \in LessThan)
  <2> HIDE DEF T
  <2>1. IsWellFoundedOn(LessThan, Nat)
    BY NatLessThanWellFounded DEF OpToRel, LessThan
  <2> QED BY <1>1, <2>1, WFMin, Zenon
<1>3. \A z \in T : y <= z
  <2>1. \A z \in T : z \in Nat /\ y \in Nat
    BY <1>1
  <2>2. \A z \in T : ~(z < y)
    BY <1>2, <2>1 DEF LessThan
  <2> QED BY <2>1, <2>2
<1>4. PICK m \in S : y = n - m
  OBVIOUS
<1>5. \A x \in S : x <= m
  <2> TAKE x \in S
  <2>1. y <= n - x
    BY <1>3
  <2> QED BY <1>4, <2>1
<1> QED BY <1>5 DEF Max

\* What the type invariant says of the rows of one Run.
LEMMA RowsTyped ==
    ASSUME ResultsTypeInv, NEW r \in Runs
    PROVE  /\ phase[r] \in Phases /\ heads[r] \in [EntrySet -> ResultType]
           /\ delivered[r] \subseteq CommitType /\ published[r] \in PublicationType
           /\ gens[r] \in Seq(GenType) /\ flags[r] \in Nat
           /\ views[r] \in [EntrySet -> ViewType] /\ records[r] \subseteq Evidence \X Nat
           /\ writer[r] \in WriterType \cup {Idle}
           /\ proc[r] \in {"none", "spawned", "registered"} /\ cancel[r] \in BOOLEAN
           /\ Generation(r) \in Nat /\ DOMAIN gens[r] = 1 .. Generation(r)
           /\ \A g \in DOMAIN gens[r] : gens[r][g] \in GenType /\ g \in Nat \ {0}
           /\ Status(r) # "none" => /\ Generation(r) \in DOMAIN gens[r]
                                    /\ Status(r) = Gen(r).status /\ Gen(r) \in GenType
           /\ Generation(r) \in DOMAIN gens[r] => Status(r) = Gen(r).status /\ Status(r) # "none"
           /\ Status(r) \in {"none", "running", "failed", "completed"}
           /\ writer[r].pc # "idle" => writer[r] \in WriterType
           /\ writer[r].pc \in Working => writer[r] \in WriterType
<1>1. /\ phase[r] \in Phases /\ heads[r] \in [EntrySet -> ResultType]
      /\ delivered[r] \subseteq CommitType /\ published[r] \in PublicationType
      /\ gens[r] \in Seq(GenType) /\ flags[r] \in Nat
      /\ views[r] \in [EntrySet -> ViewType] /\ records[r] \subseteq Evidence \X Nat
      /\ writer[r] \in WriterType \cup {Idle}
      /\ proc[r] \in {"none", "spawned", "registered"} /\ cancel[r] \in BOOLEAN
  BY DEF ResultsTypeInv
<1>2. /\ Generation(r) \in Nat /\ DOMAIN gens[r] = 1 .. Generation(r)
      /\ \A g \in DOMAIN gens[r] : gens[r][g] \in GenType /\ g \in Nat \ {0}
      /\ gens[r] = <<>> <=> Generation(r) = 0
  BY <1>1 DEF Generation
<1>3. \A x \in GenType : x.status \in Statuses
  BY DEF GenType
<1>4. Generation(r) \in DOMAIN gens[r] <=> gens[r] # <<>>
  BY <1>2
<1>5. gens[r] # <<>> => Status(r) = Gen(r).status /\ Gen(r) \in GenType
  BY <1>2, <1>4 DEF Status, Gen, Generation
<1>6. gens[r] # <<>> => Status(r) \in Statuses
  BY <1>3, <1>5
<1>7. gens[r] = <<>> => Status(r) = "none"
  BY DEF Status
<1>8. writer[r].pc # "idle" => writer[r] \in WriterType
  BY <1>1 DEF Idle
<1> QED BY <1>1, <1>2, <1>4, <1>5, <1>6, <1>7, <1>8 DEF Statuses, Working

-----------------------------------------------------------------------------
(* What a step that leaves rows alone leaves of the invariant.             *)

\* The Runs a step does not concern.
LEMMA Elsewhere ==
    ASSUME NEW r, RunInv(r), story'.entries = story.entries, story'.device = story.device,
           phase'[r] = phase[r], heads'[r] = heads[r], delivered'[r] = delivered[r],
           published'[r] = published[r], gens'[r] = gens[r], flags'[r] = flags[r],
           views'[r] = views[r], records'[r] = records[r], writer'[r] = writer[r],
           proc'[r] = proc[r], lease = r => lease' = r
    PROVE  RunInv(r)'
<1>1. EntrySet' = EntrySet
  BY DEF EntrySet, Entries
<1>2. Performs(r)'
  BY DEF RunInv, Performs, Status, Generation, Gen
<1>3. Flags(r)'
  BY DEF RunInv, Flags, Status, Generation
<1>4. Evidenced(r)'
  BY DEF RunInv, Evidenced, Generation
<1>5. Rebuilds(r)'
  BY DEF RunInv, Rebuilds, View, Gen, Generation, Wrote
<1>6. Delivered(r)'
  BY <1>1 DEF RunInv, Delivered
<1>7. Seals(r)'
  BY DEF RunInv, Seals, View, Verified, Wrote, Halves, Generation, Untouched
<1>8. Numbered(r)'
  BY <1>1 DEF RunInv, Numbered, Commits
<1>9. \A e \in EntrySet : Kept(r, e)' /\ Launchable(r, e)'
  BY DEF RunInv, Kept, Launchable, Wrote, Halves, Generation, Stale, Untouched, Status, Verified,
         Gen
<1>10. MarksKnown(r)'
  BY <1>1 DEF RunInv, MarksKnown, Last, Status, Generation
<1> QED BY <1>1, <1>2, <1>3, <1>4, <1>5, <1>6, <1>7, <1>8, <1>9, <1>10 DEF RunInv

\* The files of a Run, when a step only moves the writer or the scheduler.
LEMMA FilesStay ==
    ASSUME NEW r, RunInv(r), story'.entries = story.entries,
           heads'[r] = heads[r], delivered'[r] = delivered[r], published'[r] = published[r],
           gens'[r] = gens[r], views'[r] = views[r]
    PROVE  /\ Delivered(r)' /\ Numbered(r)' /\ MarksKnown(r)'
           /\ \A e \in EntrySet' : Kept(r, e)' /\ Launchable(r, e)'
           /\ EntrySet' = EntrySet
<1>1. EntrySet' = EntrySet
  BY DEF EntrySet, Entries
<1>6. Delivered(r)'
  BY <1>1 DEF RunInv, Delivered
<1>8. Numbered(r)'
  BY <1>1 DEF RunInv, Numbered, Commits
<1>9. \A e \in EntrySet : Kept(r, e)' /\ Launchable(r, e)'
  BY DEF RunInv, Kept, Launchable, Wrote, Halves, Generation, Stale, Untouched, Status, Verified,
         Gen
<1>10. MarksKnown(r)'
  BY <1>1 DEF RunInv, MarksKnown, Last, Status, Generation
<1> QED BY <1>1, <1>6, <1>8, <1>9, <1>10


\* The type invariant after a step, with the entries as they are.
LEMMA Retyped ==
    ASSUME story'.entries = story.entries, story' \in StoryType,
           phase' \in [Runs -> Phases], heads' \in [Runs -> [EntrySet -> ResultType]],
           delivered' \in [Runs -> SUBSET CommitType],
           published' \in [Runs -> PublicationType], gens' \in [Runs -> Seq(GenType)],
           flags' \in [Runs -> Nat], views' \in [Runs -> [EntrySet -> ViewType]],
           records' \in [Runs -> SUBSET (Evidence \X Nat)],
           writer' \in [Runs -> WriterType \cup {Idle}],
           proc' \in [Runs -> {"none", "spawned", "registered"}],
           cancel' \in [Runs -> BOOLEAN], lease' \in Runs \cup {NoRun}, baseline' \in BOOLEAN
    PROVE  ResultsTypeInv'
<1>1. EntrySet' = EntrySet
  BY DEF EntrySet, Entries
<1>2. GenType' = GenType /\ WriterType' = WriterType /\ PublicationType' = PublicationType
  BY <1>1 DEF GenType, WriterType, PublicationType
<1> QED BY <1>1, <1>2 DEF ResultsTypeInv

\* A function with one new value.
LEMMA Row ==
    ASSUME NEW S, NEW f \in [Runs -> S], NEW r \in Runs, NEW v \in S,
           NEW g, g = [f EXCEPT ![r] = v]
    PROVE  g \in [Runs -> S] /\ g[r] = v /\ \A s \in Runs \ {r} : g[s] = f[s]
OBVIOUS

\* A story in which one event may not happen again.
LEMMA StoryGoesOn ==
    ASSUME ResultsTypeInv, NEW x, story' = [story EXCEPT !.can = @ \ {x}]
    PROVE  story' \in StoryType /\ story'.entries = story.entries /\ story'.device = story.device
           /\ EntrySet' = EntrySet
<1>1. story \in StoryType
  BY DEF ResultsTypeInv
<1>2. story' \in StoryType /\ story'.entries = story.entries /\ story'.device = story.device
  BY <1>1 DEF StoryType
<1> QED BY <1>2 DEF EntrySet, Entries
\* A step of one Run, whose rows of the others stay.
LEMMA Locally ==
    ASSUME ResultsInv, NEW r \in Runs, ResultsTypeInv', RunInv(r)',
           story'.entries = story.entries, story'.device = story.device,
           \A s \in Runs \ {r} :
               /\ phase'[s] = phase[s] /\ heads'[s] = heads[s] /\ delivered'[s] = delivered[s]
               /\ published'[s] = published[s] /\ gens'[s] = gens[s] /\ flags'[s] = flags[s]
               /\ views'[s] = views[s] /\ records'[s] = records[s] /\ writer'[s] = writer[s]
               /\ proc'[s] = proc[s] /\ (lease = s => lease' = s)
    PROVE  ResultsInv'
<1>1. \A s \in Runs \ {r} : RunInv(s)'
  <2> TAKE s \in Runs \ {r}
  <2>1. RunInv(s)
    BY DEF ResultsInv
  <2> QED BY <2>1, Elsewhere
<1> QED BY <1>1 DEF ResultsInv

\* What holds while a generation is performed.
LEMMA AtWork ==
    ASSUME ResultsInv, NEW r \in Runs, writer[r].pc \in Working
    PROVE  /\ ResultsTypeInv /\ RunInv(r) /\ writer[r] \in WriterType
           /\ Status(r) = "running" /\ Generation(r) \in DOMAIN gens[r]
           /\ Gen(r) \in GenType /\ Gen(r).status = "running" /\ Generation(r) \in Nat \ {0}
           /\ writer[r].entry = Gen(r).entry /\ writer[r].entry \in EntrySet
           /\ writer[r].from = published[r].entry[writer[r].entry]
           /\ writer[r].from \in ResultType /\ writer[r].result \in ResultType
           /\ View(r) \in ViewType /\ phase[r] # "publishing" /\ gens[r] \in Seq(GenType)
<1>1. ResultsTypeInv /\ RunInv(r)
  BY DEF ResultsInv
<1>2. writer[r] \in WriterType
  BY <1>1, RowsTyped
<1>3. Status(r) = "running" /\ writer[r].entry = Gen(r).entry /\ phase[r] # "publishing"
  BY <1>1 DEF RunInv, Performs
<1>4. writer[r].from = published[r].entry[writer[r].entry]
  BY <1>1 DEF RunInv, Rebuilds
<1>5. writer[r].entry \in EntrySet /\ writer[r].from \in ResultType
        /\ writer[r].result \in ResultType
  BY <1>2 DEF WriterType
<1>6. View(r) \in ViewType
  BY <1>1, <1>5, RowsTyped DEF View
<1>7. /\ Generation(r) \in DOMAIN gens[r] /\ Gen(r) \in GenType /\ Gen(r).status = "running"
      /\ gens[r] \in Seq(GenType) /\ Generation(r) \in Nat \ {0}
  BY <1>1, <1>3, RowsTyped
<1> QED BY <1>1, <1>2, <1>3, <1>4, <1>5, <1>6, <1>7

\* A step of the writer between two steps on files.
LEMMA Moves ==
    ASSUME ResultsInv, NEW r \in Runs, NEW p \in Working, writer[r].pc \in Working,
           writer' = [writer EXCEPT ![r].pc = p],
           story' = story, phase' = phase, heads' = heads, delivered' = delivered,
           published' = published, gens' = gens, flags' = flags, views' = views,
           records' = records, cancel' = cancel, lease' = lease, baseline' = baseline,
           proc' \in [Runs -> {"none", "spawned", "registered"}],
           \A s \in Runs \ {r} : proc'[s] = proc[s],
           proc'[r] # "none" => p \in {"track", "tracked", "wait"},
           \/ p = "failed"
           \/ /\ p \in {"track", "tracked", "wait", "exited"}
              /\ writer[r].pc \in {"prepared", "track", "tracked", "wait"}
    PROVE  ResultsInv'
<1>1. /\ ResultsTypeInv /\ RunInv(r) /\ writer[r] \in WriterType /\ Status(r) = "running"
      /\ writer[r].entry = Gen(r).entry
  BY AtWork
<1>2. writer'[r] = [writer[r] EXCEPT !.pc = p] /\ \A s \in Runs \ {r} : writer'[s] = writer[s]
  BY <1>1 DEF ResultsTypeInv
<1>3. writer'[r] \in WriterType
  BY <1>1, <1>2 DEF WriterType
<1>4. writer' \in [Runs -> WriterType \cup {Idle}]
  BY <1>1, <1>2, <1>3 DEF ResultsTypeInv
<1>6. ResultsTypeInv'
  <2>1. ResultsTypeInv
    BY <1>1
  <2> QED BY <2>1, <1>4, Retyped DEF ResultsTypeInv
<1>7. /\ writer'[r].pc = p /\ writer'[r].entry = writer[r].entry /\ writer'[r].from = writer[r].from
      /\ writer'[r].there = writer[r].there /\ writer'[r].result = writer[r].result
  BY <1>1, <1>2 DEF WriterType
<1>8. Delivered(r)' /\ Numbered(r)' /\ MarksKnown(r)' /\ \A e \in EntrySet' :
        Kept(r, e)' /\ Launchable(r, e)'
  BY <1>1, FilesStay
<1>9. Performs(r)'
  BY <1>1, <1>7 DEF RunInv, Performs, Status, Generation, Gen, Working
<1>10. Flags(r)'
  BY <1>1 DEF RunInv, Flags, Status, Generation
<1>11. Evidenced(r)'
  BY <1>1, <1>7 DEF RunInv, Evidenced, Generation, Working
<1>12. Rebuilds(r)'
  BY <1>1, <1>7 DEF RunInv, Rebuilds, View, Gen, Generation, Working
<1>13. Seals(r)'
  BY <1>7 DEF Seals
<1>14. RunInv(r)'
  BY <1>8, <1>9, <1>10, <1>11, <1>12, <1>13 DEF RunInv
<1> QED BY <1>1, <1>2, <1>6, <1>14, Locally

\* The program is started.
LEMMA spawnKeeps ==
    ASSUME ResultsInv, NEW r \in Runs, spawn(r)
    PROVE  ResultsInv'
<1>1. ResultsTypeInv /\ proc[r] = "none" /\ writer[r].pc = "prepared"
  BY DEF spawn, AtStep, ResultsInv, RunInv, Performs
<1>2. CASE Cancelled(r)
  BY <1>1, <1>2, Moves DEF spawn, Goto, Working, ResultsTypeInv
<1>3. CASE ~Cancelled(r)
  <2>1. proc' \in [Runs -> {"none", "spawned", "registered"}] /\ \A s \in Runs \ {r} :
          proc'[s] = proc[s]
    BY <1>1, <1>3 DEF spawn, ResultsTypeInv
  <2> QED BY <1>1, <1>3, <2>1, Moves DEF spawn, Goto, Working
<1> QED BY <1>2, <1>3

\* Its process is known.
LEMMA registerKeeps ==
    ASSUME ResultsInv, NEW r \in Runs, register(r)
    PROVE  ResultsInv'
<1>1. ResultsTypeInv /\ writer[r].pc = "track"
  BY DEF register, AtStep, ResultsInv
<1>2. proc' \in [Runs -> {"none", "spawned", "registered"}] /\ \A s \in Runs \ {r} :
        proc'[s] = proc[s]
  BY <1>1 DEF register, ResultsTypeInv
<1> QED BY <1>1, <1>2, Moves DEF register, Goto, Working

\* Its owner is registered.
LEMMA trackKeeps ==
    ASSUME ResultsInv, NEW r \in Runs, track(r)
    PROVE  ResultsInv'
<1>1. ResultsTypeInv /\ writer[r].pc = "tracked"
  BY DEF track, AtStep, ResultsInv
<1>2. proc' \in [Runs -> {"none", "spawned", "registered"}] /\ \A s \in Runs \ {r} :
        proc'[s] = proc[s]
  BY <1>1 DEF track, ResultsTypeInv
<1>3. CASE flags[r] # 0 /\ gens[r][flags[r]].cancelled
  <2>1. proc'[r] = "none"
    BY <1>1, <1>3 DEF track, ResultsTypeInv
  <2> QED BY <1>1, <1>2, <1>3, <2>1, Moves DEF track, Goto, Working
<1>4. CASE ~(flags[r] # 0 /\ gens[r][flags[r]].cancelled)
  BY <1>1, <1>2, <1>4, Moves DEF track, Goto, Working
<1> QED BY <1>3, <1>4

\* The program ends.
LEMMA ExitKeeps ==
    ASSUME ResultsInv, NEW r \in Runs, NEW ok \in BOOLEAN, Exit(r, ok)
    PROVE  ResultsInv'
<1>1. ResultsTypeInv /\ writer[r].pc = "wait"
  BY DEF Exit, AtStep, ResultsInv
<1>2. /\ proc' \in [Runs -> {"none", "spawned", "registered"}] /\ proc'[r] = "none"
      /\ \A s \in Runs \ {r} : proc'[s] = proc[s]
  BY <1>1 DEF Exit, ResultsTypeInv
<1>3. CASE ok
  BY <1>1, <1>2, <1>3, Moves DEF Exit, Goto, Working
<1>4. CASE ~ok
  BY <1>1, <1>2, <1>4, Moves DEF Exit, Goto, Working
<1> QED BY <1>3, <1>4


\* The number of a new commit is none that is in use.
LEMMA NewCommit ==
    ASSUME ResultsTypeInv, NEW r \in Runs, Numbered(r)
    PROVE  NextId(r) \in Nat /\ \A c \in Commits(r) : c.id \in Nat /\ c.id < NextId(r)
<1> DEFINE S == {c.id : c \in Commits(r)}
<1>1. \A c \in Commits(r) : c.id \in Nat
  <2>1. /\ \A c \in delivered[r] : c.id \in Nat
        /\ published[r].head.id \in Nat
    BY RowsTyped DEF PublicationType, CommitType
  <2>2. ASSUME NEW e \in EntrySet
        PROVE  /\ views[r][e].head.id \in Nat /\ heads[r][e].code.id \in Nat
               /\ published[r].entry[e].code.id \in Nat
    <3>1. views[r][e] \in ViewType /\ heads[r][e] \in ResultType
            /\ published[r].entry[e] \in ResultType
      BY RowsTyped DEF PublicationType
    <3> QED BY <3>1 DEF ViewType, ResultType, CommitType
  <2> QED BY <2>1, <2>2 DEF Commits
<1>2. S \in SUBSET Nat /\ S # {}
  <2>1. published[r].head.id \in S
    BY DEF Commits
  <2> QED BY <1>1, <2>1
<1>3. PICK n \in Nat : \A c \in Commits(r) : c.id <= n
  BY DEF Numbered
<1>4. \A x \in S : x <= n
  BY <1>3
<1>5. Max(S) \in S /\ \A x \in S : x <= Max(S)
  <2> HIDE DEF S
  <2> QED BY <1>2, <1>4, MaxIsGreatest
<1>6. NextId(r) = 1 + Max(S)
  BY DEF NextId
<1> HIDE DEF S
<1>7. Max(S) \in Nat
  BY <1>2, <1>5
<1>8. \A c \in Commits(r) : c.id \in S
  BY DEF S
<1> QED BY <1>1, <1>5, <1>6, <1>7, <1>8

\* What numbers a commit in the place of one in use.
LEMMA StillNumbered ==
    ASSUME ResultsTypeInv, NEW r \in Runs, Numbered(r), NEW n \in Nat,
           \A c \in Commits(r)' : c \in Commits(r) \/ c.id = n
    PROVE  Numbered(r)'
<1>1. PICK m \in Nat : \A c \in Commits(r) : c.id <= m
  BY DEF Numbered
<1>2. \A c \in Commits(r) : c.id \in Nat
  BY NewCommit
<1>3. PICK k \in Nat : k >= m /\ k >= n
  OBVIOUS
<1>4. \A c \in Commits(r)' : c.id <= k
  BY <1>1, <1>2, <1>3
<1> QED BY <1>4 DEF Numbered

\* A launch begins the next generation, of a Run that is completed and whose last one ended.
LEMMA start_result_entryKeeps ==
    ASSUME ResultsInv, NEW r \in Runs, NEW e \in EntrySet, start_result_entry(r, e)
    PROVE  ResultsInv'
<1> DEFINE n == Generation(r) + 1
           new == [entry |-> e, status |-> "running", cancelled |-> FALSE,
                   wrote |-> FALSE, half |-> FALSE]
           job == [pc |-> "admit", entry |-> e, retry |-> Retry(r),
                   from |-> published[r].entry[e], there |-> TRUE,
                   result |-> published[r].entry[e]]
<1>1. /\ ResultsTypeInv /\ RunInv(r)
      /\ writer[r] = Idle /\ Status(r) # "running" /\ EntrySet' = EntrySet
      /\ n \in Nat
  <2>1. ResultsTypeInv /\ RunInv(r)
    BY DEF ResultsInv
  <2>2. Generation(r) \in Nat
    BY <2>1, RowsTyped
  <2> QED BY <2>1, <2>2 DEF start_result_entry, active, EntrySet, Entries
<1>2. new \in GenType /\ job \in WriterType
  <2>1. published[r].entry[e] \in ResultType
    BY <1>1, RowsTyped DEF PublicationType
  <2>2. Retry(r) \in BOOLEAN
    BY DEF Retry
  <2> QED BY <2>1, <2>2 DEF GenType, WriterType, Statuses, Working
<1>3. /\ flags' = [flags EXCEPT ![r] = n] /\ gens' = [gens EXCEPT ![r] = Append(gens[r], new)]
      /\ phase' = [phase EXCEPT ![r] = "launching_result"]
      /\ writer' = [writer EXCEPT ![r] = job]
  BY <1>1 DEF start_result_entry, ResultsTypeInv
<1>4. /\ flags' \in [Runs -> Nat] /\ flags'[r] = n /\ \A s \in Runs \ {r} : flags'[s] = flags[s]
  BY <1>1, <1>3, Row DEF ResultsTypeInv
<1>5. /\ gens' \in [Runs -> Seq(GenType)] /\ gens'[r] = Append(gens[r], new)
      /\ \A s \in Runs \ {r} : gens'[s] = gens[s]
  <2> HIDE DEF new
  <2>1. Append(gens[r], new) \in Seq(GenType)
    BY <1>1, <1>2, RowsTyped
  <2> QED BY <1>1, <1>3, <2>1, Row DEF ResultsTypeInv
<1>6. /\ phase' \in [Runs -> Phases] /\ phase'[r] = "launching_result"
      /\ \A s \in Runs \ {r} : phase'[s] = phase[s]
  BY <1>1, <1>3, Row DEF ResultsTypeInv, Phases
<1>7. /\ writer' \in [Runs -> WriterType \cup {Idle}] /\ writer'[r] = job
      /\ \A s \in Runs \ {r} : writer'[s] = writer[s]
  <2> HIDE DEF job
  <2> QED BY <1>1, <1>2, <1>3, Row DEF ResultsTypeInv
<1>8. ResultsTypeInv'
  <2>1. ResultsTypeInv
    BY <1>1
  <2> QED BY <2>1, <1>4, <1>5, <1>6, <1>7, Retyped DEF ResultsTypeInv, start_result_entry
<1>9. /\ Generation(r)' = n /\ DOMAIN gens'[r] = (DOMAIN gens[r]) \cup {n} /\ gens'[r][n] = new
      /\ \A g \in DOMAIN gens[r] : gens'[r][g] = gens[r][g] /\ g # n
      /\ Gen(r)' = new /\ Status(r)' = "running"
  <2> HIDE DEF new
  <2>1. gens[r] \in Seq(GenType) /\ Generation(r) \in Nat /\ DOMAIN gens[r] = 1 .. Generation(r)
    BY <1>1, RowsTyped
  <2>2. /\ Generation(r)' = n /\ DOMAIN gens'[r] = (DOMAIN gens[r]) \cup {n} /\ gens'[r][n] = new
        /\ \A g \in DOMAIN gens[r] : gens'[r][g] = gens[r][g] /\ g # n
        /\ gens'[r] # <<>>
    BY <1>2, <1>5, <2>1 DEF Generation
  <2>3. Status(r)' = new.status /\ Gen(r)' = new
    BY <2>2 DEF Status, Gen, Generation
  <2> QED BY <2>2, <2>3 DEF new
<1>10. Performs(r)'
  <2>1. proc[r] = "none"
    BY <1>1 DEF RunInv, Performs, Idle
  <2> QED BY <1>6, <1>7, <1>9, <2>1 DEF Performs, start_result_entry, Working
<1>11. Flags(r)'
  BY <1>1, <1>4, <1>9 DEF RunInv, Flags
<1>12. Evidenced(r)'
  BY <1>1, <1>7, <1>9 DEF RunInv, Evidenced, start_result_entry, Working
<1>13. Rebuilds(r)'
  BY <1>7, <1>9 DEF Rebuilds, start_result_entry, Working
<1>14. Delivered(r)' /\ Numbered(r)'
  BY <1>1 DEF RunInv, Delivered, Numbered, Commits, start_result_entry
<1>15. Seals(r)'
  BY <1>7 DEF Seals
<1>16. MarksKnown(r)'
  <2>1. Last(r)' = Generation(r) /\ Last(r) = Generation(r)
    BY <1>1, <1>9, RowsTyped DEF Last
  <2>2. \A x : x \in 0 .. Generation(r) => x \in 0 .. n
    BY <1>1, RowsTyped
  <2> QED BY <1>1, <1>9, <2>1, <2>2 DEF RunInv, MarksKnown, start_result_entry
<1>17. ASSUME NEW f \in EntrySet  PROVE Kept(r, f)' /\ Launchable(r, f)'
  <2>1. Wrote(r, f)' = Wrote(r, f)
    BY <1>9 DEF Wrote
  <2>2. Halves(r, f) \subseteq Halves(r, f)'
    BY <1>9 DEF Halves
  <2>3. Kept(r, f)'
    BY <1>1, <1>9, <1>17, <2>1, <2>2 DEF RunInv, Kept, start_result_entry
  <2>4. CASE f = e
    BY <1>9, <2>3, <2>4 DEF Launchable
  <2>5. CASE f # e
    <3>1. Status(r) \in {"none", "completed"} \/ Gen(r).entry # f
      <4>1. Status(r) \in {"none", "failed", "completed"}
        BY <1>1, RowsTyped
      <4> QED BY <4>1, <2>5 DEF start_result_entry, Retry, Gen
    <3>2. Launchable(r, f)
      BY <1>1, <1>17 DEF RunInv
    <3> QED BY <3>1, <3>2, <2>3 DEF Launchable, start_result_entry, Stale, Untouched, Verified
  <2> QED BY <2>4, <2>5
<1>18. RunInv(r)'
  BY <1>1, <1>10, <1>11, <1>12, <1>13, <1>14, <1>15, <1>16, <1>17 DEF RunInv
<1> QED BY <1>4, <1>5, <1>6, <1>7, <1>8, <1>18, Locally DEF start_result_entry

\* The launch begins to work, with the device when it needs one.
LEMMA admitKeeps ==
    ASSUME ResultsInv, NEW r \in Runs, admit(r), NoRun \notin Runs
    PROVE  ResultsInv'
<1>1. ResultsTypeInv /\ RunInv(r) /\ writer[r] \in WriterType /\ Status(r) = "running"
      /\ writer[r].pc = "admit" /\ writer[r].entry = Gen(r).entry
      /\ View(r) \in ViewType
  BY AtWork DEF admit, AtStep, Working
<1>2. PICK p \in {"select", "failed"}, t \in BOOLEAN :
         /\ writer' = [writer EXCEPT ![r].pc = p, ![r].there = t]
         /\ p = "select" => Admitted(r) /\ (t <=> View(r).there)
  <2>1. CASE Admitted(r)
    <3>1. View(r).there \in BOOLEAN
      BY <1>1 DEF ViewType
    <3> QED BY <2>1, <3>1 DEF admit
  <2>2. CASE ~Admitted(r)
    <3>1. writer[r].there \in BOOLEAN
      BY <1>1 DEF WriterType
    <3>2. writer' = [writer EXCEPT ![r].pc = "failed", ![r].there = writer[r].there]
      BY <1>1, <2>2 DEF admit, Goto, ResultsTypeInv, WriterType
    <3> QED BY <3>1, <3>2
  <2> QED BY <2>1, <2>2
<1>3. /\ writer'[r] \in WriterType /\ writer'[r].pc = p /\ (writer'[r].there <=> t)
      /\ writer'[r].entry = writer[r].entry /\ writer'[r].from = writer[r].from
      /\ writer' \in [Runs -> WriterType \cup {Idle}]
      /\ \A s \in Runs \ {r} : writer'[s] = writer[s]
  <2> DEFINE job == [writer[r] EXCEPT !.pc = p, !.there = t]
  <2>1. writer' = [writer EXCEPT ![r] = job]
    BY <1>1, <1>2 DEF ResultsTypeInv
  <2>2. job \in WriterType /\ job.pc = p /\ (job.there <=> t) /\ job.entry = writer[r].entry
        /\ job.from = writer[r].from
    BY <1>1 DEF WriterType, Working
  <2> HIDE DEF job
  <2> QED BY <1>1, <2>1, <2>2, Row DEF ResultsTypeInv
<1>4. ResultsTypeInv'
  <2>1. ResultsTypeInv
    BY <1>1
  <2>2. lease' \in Runs \cup {NoRun}
    BY <2>1 DEF ResultsTypeInv, admit
  <2> QED BY <2>1, <2>2, <1>3, Retyped DEF ResultsTypeInv, admit
<1>5. Delivered(r)' /\ Numbered(r)' /\ MarksKnown(r)' /\ EntrySet' = EntrySet
      /\ \A e \in EntrySet' : Kept(r, e)' /\ Launchable(r, e)'
  BY <1>1, FilesStay DEF admit
<1>6. Performs(r)'
  <2>1. p = "select" /\ story.device => lease' = r
    BY <1>2 DEF admit, Admitted, Busy
  <2>2. proc[r] = "none" /\ phase[r] # "publishing"
    BY <1>1 DEF RunInv, Performs
  <2>3. p \in Working
    BY DEF Working
  <2> QED BY <1>1, <1>3, <2>1, <2>2, <2>3 DEF Performs, admit, Status, Generation, Gen
<1>7. Flags(r)'
  BY <1>1 DEF RunInv, Flags, Status, Generation, admit
<1>8. Evidenced(r)'
  BY <1>1, <1>3 DEF RunInv, Evidenced, Generation, admit, Working
<1>9. Rebuilds(r)'
  BY <1>1, <1>2, <1>3 DEF RunInv, Rebuilds, View, Gen, Generation, admit, Working
<1>10. Seals(r)'
  BY <1>3 DEF Seals
<1>11. RunInv(r)'
  BY <1>5, <1>6, <1>7, <1>8, <1>9, <1>10 DEF RunInv
<1>12. \A s \in Runs \ {r} : lease = s => lease' = s
  BY DEF admit
<1> QED BY <1>1, <1>3, <1>4, <1>11, <1>12, Locally DEF admit

\* The lease is given back.
LEMMA ReleaseKeeps ==
    ASSUME ResultsInv, NEW r \in Runs, Release(r)
    PROVE  ResultsInv'
<1>1. ResultsTypeInv /\ RunInv(r)
  BY DEF ResultsInv
<1>2. ResultsTypeInv'
  BY <1>1, Retyped DEF ResultsTypeInv, Release
<1>3. Delivered(r)' /\ Numbered(r)' /\ MarksKnown(r)' /\ EntrySet' = EntrySet
      /\ \A e \in EntrySet' : Kept(r, e)' /\ Launchable(r, e)'
  BY <1>1, FilesStay DEF Release
<1>4. Performs(r)'
  BY <1>1 DEF RunInv, Performs, Status, Generation, Gen, Release
<1>5. Flags(r)' /\ Evidenced(r)'
  BY <1>1 DEF RunInv, Flags, Evidenced, Status, Generation, Release
<1>6. Rebuilds(r)'
  BY <1>1 DEF RunInv, Rebuilds, View, Gen, Generation, Wrote, Release
<1>7. Seals(r)'
  BY <1>1 DEF RunInv, Seals, View, Verified, Wrote, Halves, Generation, Untouched, Release
<1>8. RunInv(r)'
  BY <1>3, <1>4, <1>5, <1>6, <1>7 DEF RunInv
<1> QED BY <1>1, <1>2, <1>8, Locally DEF Release

\* The last generation with other flags, written by its own writer.
LEMMA Regen ==
    ASSUME ResultsInv, NEW r \in Runs, writer[r].pc \in Working, NEW new \in GenType,
           new.entry = Gen(r).entry, new.status = "running",
           gens' = [gens EXCEPT ![r][Generation(r)] = new]
    PROVE  /\ gens' \in [Runs -> Seq(GenType)] /\ \A s \in Runs \ {r} : gens'[s] = gens[s]
           /\ Generation(r)' = Generation(r) /\ Status(r)' = "running" /\ Gen(r)' = new
           /\ DOMAIN gens'[r] = DOMAIN gens[r] /\ gens'[r][Generation(r)] = new
           /\ \A g \in DOMAIN gens[r] : g # Generation(r) => gens'[r][g] = gens[r][g]
           /\ Last(r)' = Last(r)
           /\ \A e : Halves(r, e)' = Halves(r, e)
<1>1. ResultsTypeInv /\ Generation(r) \in DOMAIN gens[r] /\ gens[r] \in Seq(GenType)
      /\ Gen(r).status = "running" /\ Status(r) = "running" /\ Generation(r) \in Nat
  BY AtWork
<1> DEFINE row == [gens[r] EXCEPT ![Generation(r)] = new]
<1>2. row \in Seq(GenType) /\ Len(row) = Len(gens[r]) /\ DOMAIN row = DOMAIN gens[r]
      /\ row[Generation(r)] = new /\ row # <<>>
      /\ \A g \in DOMAIN gens[r] : g # Generation(r) => row[g] = gens[r][g]
  BY <1>1
<1>3. gens' = [gens EXCEPT ![r] = row]
  BY <1>1 DEF ResultsTypeInv
<1>4. gens' \in [Runs -> Seq(GenType)] /\ gens'[r] = row /\ \A s \in Runs \ {r} : gens'[s] = gens[s]
  <2> HIDE DEF row
  <2> QED BY <1>1, <1>2, <1>3, Row DEF ResultsTypeInv
<1> HIDE DEF row
<1>5. Generation(r)' = Generation(r)
  BY <1>2, <1>4 DEF Generation
<1>6. Status(r)' = "running" /\ Gen(r)' = new
  BY <1>2, <1>4, <1>5 DEF Status, Gen, Generation
<1>7. Last(r)' = Last(r)
  BY <1>1, <1>5, <1>6 DEF Last
<1>8. ASSUME NEW e  PROVE Halves(r, e)' = Halves(r, e)
  BY <1>1, <1>2, <1>4, <1>5 DEF Halves, Gen
<1> QED BY <1>2, <1>4, <1>5, <1>6, <1>7, <1>8

\* A step of the writer on its view and on its own generation.
LEMMA Files ==
    ASSUME ResultsInv, NEW r \in Runs, writer[r].pc \in Working, NEW view \in ViewType,
           views' = [views EXCEPT ![r][writer[r].entry] = view]
    PROVE  /\ views' \in [Runs -> [EntrySet -> ViewType]]
           /\ \A s \in Runs \ {r} : views'[s] = views[s]
           /\ views'[r][writer[r].entry] = view
           /\ \A e \in EntrySet : e # writer[r].entry => views'[r][e] = views[r][e]
<1>1. ResultsTypeInv /\ writer[r].entry \in EntrySet
  BY AtWork
<1>2. views[r] \in [EntrySet -> ViewType] /\ views \in [Runs -> [EntrySet -> ViewType]]
  BY <1>1 DEF ResultsTypeInv
<1>3. views' = [views EXCEPT ![r] = [views[r] EXCEPT ![writer[r].entry] = view]]
  BY <1>2
<1>4. [views[r] EXCEPT ![writer[r].entry] = view] \in [EntrySet -> ViewType]
  BY <1>2
<1> DEFINE row == [views[r] EXCEPT ![writer[r].entry] = view]
<1>5. row[writer[r].entry] = view /\ \A e \in EntrySet : e # writer[r].entry => row[e] = views[r][e]
  BY <1>1, <1>2
<1> HIDE DEF row
<1>6. views' \in [Runs -> [EntrySet -> ViewType]] /\ views'[r] = row
      /\ \A s \in Runs \ {r} : views'[s] = views[s]
  BY <1>2, <1>3, <1>4, Row DEF row
<1> QED BY <1>5, <1>6

\* The workspaces the writer does not have, when it changes its own generation.
LEMMA OtherEntries ==
    ASSUME ResultsInv, NEW r \in Runs, writer[r].pc \in Working, NEW new \in GenType,
           new.entry = Gen(r).entry, new.status = "running",
           gens' = [gens EXCEPT ![r][Generation(r)] = new],
           heads' = heads, published' = published,
           NEW f \in EntrySet, f # writer[r].entry, views'[r][f] = views[r][f]
    PROVE  Kept(r, f)' /\ Launchable(r, f)'
<1>1. RunInv(r) /\ Generation(r) \in DOMAIN gens[r] /\ writer[r].entry = Gen(r).entry
      /\ Status(r) = "running"
  BY AtWork
<1>2. /\ Generation(r)' = Generation(r) /\ Status(r)' = "running" /\ Gen(r)' = new
      /\ DOMAIN gens'[r] = DOMAIN gens[r] /\ gens'[r][Generation(r)] = new
      /\ \A g \in DOMAIN gens[r] : g # Generation(r) => gens'[r][g] = gens[r][g]
      /\ Halves(r, f)' = Halves(r, f)
  BY Regen
<1>3. Wrote(r, f)' = Wrote(r, f)
  BY <1>1, <1>2 DEF Wrote, Gen
<1>4. Kept(r, f)'
  <2>1. Kept(r, f)
    BY <1>1 DEF RunInv
  <2>2. \A h \in DOMAIN gens[r] :
          gens[r][h].half /\ gens[r][h].entry = f => gens'[r][h].half /\ gens'[r][h].entry = f
    BY <1>1, <1>2 DEF Gen
  <2> QED BY <1>2, <1>3, <2>1, <2>2 DEF Kept
<1>5. Launchable(r, f)'
  <2>1. Launchable(r, f)
    BY <1>1 DEF RunInv
  <2> QED BY <1>1, <1>2, <2>1 DEF Launchable, Stale, Untouched, Verified
<1> QED BY <1>4, <1>5

\* The program writes into its workspace, and with it the mark of its generation.
LEMMA ProgramWorksKeeps ==
    ASSUME ResultsInv, NEW r \in Runs, ProgramWorks(r)
    PROVE  ResultsInv'
<1>0. PICK e : e = writer[r].entry
  OBVIOUS
<1> DEFINE n == Generation(r)
           view == [views[r][e] EXCEPT !.code = @ \cup {n}, !.env = @ \cup {n}]
           new == [Gen(r) EXCEPT !.wrote = TRUE]
<1>1. writer[r].pc \in {"track", "tracked", "wait"} /\ writer[r].pc \in Working
  BY DEF ProgramWorks, ResultsInv, RunInv, Performs, Working
<1>2. /\ ResultsTypeInv /\ RunInv(r) /\ writer[r] \in WriterType
      /\ Status(r) = "running" /\ n \in DOMAIN gens[r]
      /\ Gen(r) \in GenType /\ Gen(r).status = "running" /\ n \in Nat \ {0}
      /\ e = Gen(r).entry /\ e \in EntrySet /\ View(r) \in ViewType
      /\ gens[r] \in Seq(GenType)
  BY <1>0, <1>1, AtWork
<1>3. view \in ViewType /\ view.there = View(r).there /\ view.head = View(r).head
      /\ view.code = View(r).code \cup {n} /\ view.env = View(r).env \cup {n}
  BY <1>0, <1>2 DEF ViewType, View
<1>4. new \in GenType /\ new.entry = Gen(r).entry /\ new.status = "running" /\ new.wrote
      /\ new.cancelled = Gen(r).cancelled /\ new.half = Gen(r).half
  BY <1>2 DEF GenType
<1>5. views' = [views EXCEPT ![r][e] = view] /\ View(r).there
  <2>1. views[r] \in [EntrySet -> ViewType] /\ views \in [Runs -> [EntrySet -> ViewType]]
    BY <1>2 DEF ResultsTypeInv
  <2>2. /\ views[r][e].there
        /\ views' = [views EXCEPT ![r][e] = [views[r][e] EXCEPT !.code = @ \cup {n},
                                                               !.env = @ \cup {n}]]
    BY <1>0 DEF ProgramWorks, Write
  <2>3. View(r) = views[r][e]
    BY <1>0 DEF View
  <2>4. views' = [views EXCEPT ![r][e] = view]
    BY <2>2
  <2> QED BY <2>2, <2>3, <2>4
<1>6. gens' = [gens EXCEPT ![r][n] = new]
  BY <1>2 DEF ProgramWorks, Write, Gen, ResultsTypeInv
<1> HIDE DEF view, new
<1>7. /\ views' \in [Runs -> [EntrySet -> ViewType]] /\ \A s \in Runs \ {r} : views'[s] = views[s]
      /\ views'[r][e] = view /\ \A f \in EntrySet : f # e => views'[r][f] = views[r][f]
  <2>1. views' = [views EXCEPT ![r][writer[r].entry] = view]
    BY <1>0, <1>5
  <2>2. /\ views' \in [Runs -> [EntrySet -> ViewType]] /\ \A s \in Runs \ {r} : views'[s] = views[s]
        /\ views'[r][writer[r].entry] = view
        /\ \A f \in EntrySet : f # writer[r].entry => views'[r][f] = views[r][f]
    BY <1>1, <1>3, <2>1, Files
  <2> QED BY <1>0, <2>2
<1>8. /\ gens' \in [Runs -> Seq(GenType)] /\ \A s \in Runs \ {r} : gens'[s] = gens[s]
      /\ Generation(r)' = n /\ Status(r)' = "running" /\ Gen(r)' = new
      /\ DOMAIN gens'[r] = DOMAIN gens[r] /\ gens'[r][n] = new
      /\ \A g \in DOMAIN gens[r] : g # n => gens'[r][g] = gens[r][g]
      /\ Last(r)' = Last(r) /\ Halves(r, e)' = Halves(r, e)
  BY <1>1, <1>4, <1>6, Regen
<1>9. ResultsTypeInv'
  <2>1. ResultsTypeInv
    BY <1>2
  <2> QED BY <2>1, <1>7, <1>8, Retyped DEF ResultsTypeInv, ProgramWorks
<1>10. Performs(r)'
  BY <1>2, <1>4, <1>8 DEF RunInv, Performs, ProgramWorks
<1>11. Flags(r)'
  BY <1>2, <1>4, <1>8 DEF RunInv, Flags, ProgramWorks
<1>12. Evidenced(r)'
  BY <1>2, <1>4, <1>8 DEF RunInv, Evidenced, ProgramWorks
<1>13. Rebuilds(r)'
  BY <1>0, <1>1, <1>2, <1>3, <1>4, <1>5, <1>7, <1>8 DEF RunInv, Rebuilds, ProgramWorks, View
<1>14. Delivered(r)' /\ EntrySet' = EntrySet
  BY <1>2 DEF RunInv, Delivered, ProgramWorks, EntrySet, Entries
<1>15. Seals(r)'
  BY <1>1 DEF ProgramWorks, Seals
<1>16. Numbered(r)'
  <2>1. \A f \in EntrySet : views'[r][f].head = views[r][f].head
    BY <1>0, <1>3, <1>7 DEF View
  <2>2. Commits(r)' = Commits(r)
    BY <1>14, <2>1 DEF Commits, ProgramWorks
  <2> QED BY <1>2, <2>2 DEF RunInv, Numbered
<1>17. MarksKnown(r)'
  <2>1. n \in 0 .. n
    BY <1>2
  <2>2. MarksKnown(r)
    BY <1>2 DEF RunInv
  <2>3. \A f \in EntrySet : /\ views'[r][f].code \subseteq views[r][f].code \cup {n}
                            /\ views'[r][f].head = views[r][f].head
    BY <1>0, <1>3, <1>7 DEF View
  <2> QED BY <1>8, <1>14, <2>1, <2>2, <2>3 DEF MarksKnown, ProgramWorks
<1>18. ASSUME NEW f \in EntrySet  PROVE Kept(r, f)' /\ Launchable(r, f)'
  <2>1. CASE f # e
    BY <1>0, <1>1, <1>4, <1>6, <1>7, <1>18, <2>1, OtherEntries DEF ProgramWorks
  <2>2. CASE f = e
    <3>1. Launchable(r, e)'
      BY <1>2, <1>4, <1>8 DEF Launchable
    <3>2. Wrote(r, e)' = Wrote(r, e) \cup {n}
      BY <1>2, <1>4, <1>8 DEF Wrote, Gen
    <3>3. Kept(r, e)
      BY <1>2 DEF RunInv
    <3>4. n \notin heads[r][e].code.marks
      <4>1. heads[r][e].code.marks \subseteq 0 .. (n - 1)
        BY <1>2 DEF RunInv, MarksKnown, Last
      <4>2. n \notin 0 .. (n - 1)
        BY <1>2
      <4> QED BY <4>1, <4>2
    <3>5. \A h \in DOMAIN gens[r] :
            gens[r][h].half /\ gens[r][h].entry = e => gens'[r][h].half /\ gens'[r][h].entry = e
      BY <1>2, <1>4, <1>8 DEF Gen
    <3>6. Kept(r, e)'
      BY <1>0, <1>3, <1>5, <1>7, <1>8, <3>2, <3>3, <3>4, <3>5 DEF Kept, ProgramWorks, View
    <3> QED BY <2>2, <3>1, <3>6
  <2> QED BY <2>1, <2>2
<1>19. RunInv(r)'
  BY <1>10, <1>11, <1>12, <1>13, <1>14, <1>15, <1>16, <1>17, <1>18 DEF RunInv
<1> QED BY <1>7, <1>8, <1>9, <1>19, Locally DEF ProgramWorks

\* The writer finds its view, or none to work in.
LEMMA selectKeeps ==
    ASSUME ResultsInv, NEW r \in Runs, select(r)
    PROVE  ResultsInv'
<1>0. PICK e : e = writer[r].entry
  OBVIOUS
<1> DEFINE n == Generation(r)
           from == writer[r].from
           view == IF writer[r].there THEN View(r)
                   ELSE [there |-> TRUE, head |-> from.code, code |-> from.code.marks, env |-> {}]
           new == [Gen(r) EXCEPT !.half = ~writer[r].there]
<1>1. writer[r].pc = "select" /\ writer[r].pc \in Working
  BY DEF select, AtStep, Working
<1>2. /\ ResultsTypeInv /\ RunInv(r) /\ writer[r] \in WriterType
      /\ Status(r) = "running" /\ n \in DOMAIN gens[r]
      /\ Gen(r) \in GenType /\ Gen(r).status = "running" /\ n \in Nat \ {0}
      /\ e = Gen(r).entry /\ e \in EntrySet /\ View(r) \in ViewType
      /\ gens[r] \in Seq(GenType) /\ from = published[r].entry[e] /\ from \in ResultType
      /\ writer[r].result \in ResultType
  BY <1>0, <1>1, AtWork
<1>3. proc[r] = "none" /\ (writer[r].there <=> View(r).there) /\ ~Gen(r).half
        /\ View(r) = views[r][e]
  BY <1>0, <1>1, <1>2 DEF RunInv, Performs, Rebuilds, View
<1>4. CASE Cancelled(r)
  <2>1. proc' \in [Runs -> {"none", "spawned", "registered"}]
    BY <1>2 DEF ResultsTypeInv, select
  <2> QED BY <1>1, <1>3, <1>4, <2>1, Moves DEF select, Goto, Working
<1>5. CASE ~Cancelled(r)
  <2>1. view \in ViewType /\ view.there
    <3>1. CASE writer[r].there
      BY <1>2, <1>3, <3>1
    <3>2. CASE ~writer[r].there
      BY <1>2, <3>2 DEF ViewType, ResultType, CommitType
    <3> QED BY <3>1, <3>2
  <2>2. /\ writer[r].there => view = View(r)
        /\ ~writer[r].there => view.head = from.code /\ view.code = from.code.marks /\ view.env = {}
    OBVIOUS
  <2>3. PICK head : head = (IF view.code = view.head.marks THEN view.head
                            ELSE Commit(NextId(r), view.code))
    OBVIOUS
  <2>4. /\ records' = [records EXCEPT ![r] = records[r] \cup {<<"selected", n>>}]
        /\ views' = [views EXCEPT ![r][e] = [view EXCEPT !.head = head]]
        /\ writer' = [writer EXCEPT ![r].pc = "prepare", ![r].result.code = head]
        /\ gens' = [gens EXCEPT ![r][n].half = ~writer[r].there]
    BY <1>0, <1>2, <1>5, <2>3 DEF select, ResultsTypeInv
  <2>5. new \in GenType /\ new.entry = Gen(r).entry /\ new.status = "running"
        /\ new.cancelled = Gen(r).cancelled /\ new.wrote = Gen(r).wrote
        /\ (new.half <=> ~writer[r].there)
    <3>1. (~writer[r].there) \in BOOLEAN
      OBVIOUS
    <3> QED BY <1>2, <3>1 DEF GenType
  <2>6. gens' = [gens EXCEPT ![r][n] = new]
    BY <1>2, <2>4 DEF Gen, ResultsTypeInv
  <2> HIDE DEF view, new
  <2>7. head \in CommitType /\ head.marks = view.code
        /\ (head = view.head \/ head.id = NextId(r)) /\ NextId(r) \in Nat
    <3>1. NextId(r) \in Nat
      BY <1>2, NewCommit DEF RunInv
    <3> QED BY <2>1, <2>3, <3>1 DEF ViewType, CommitType, Commit
  <2>8. PICK w : w = [view EXCEPT !.head = head]
    OBVIOUS
  <2>9. w \in ViewType /\ w.there /\ w.head = head /\ w.code = view.code /\ w.env = view.env
    BY <2>1, <2>7, <2>8 DEF ViewType
  <2>10. /\ views' \in [Runs -> [EntrySet -> ViewType]] /\ \A s \in Runs \ {r} :
              views'[s] = views[s]
         /\ views'[r][e] = w /\ \A f \in EntrySet : f # e => views'[r][f] = views[r][f]
    <3>1. views' = [views EXCEPT ![r][writer[r].entry] = w]
      BY <1>0, <2>4, <2>8
    <3>2. /\ views' \in [Runs -> [EntrySet -> ViewType]] /\ \A s \in Runs \ {r} :
               views'[s] = views[s]
          /\ views'[r][writer[r].entry] = w
          /\ \A f \in EntrySet : f # writer[r].entry => views'[r][f] = views[r][f]
      BY <1>1, <2>9, <3>1, Files
    <3> QED BY <1>0, <3>2
  <2>11. /\ gens' \in [Runs -> Seq(GenType)] /\ \A s \in Runs \ {r} : gens'[s] = gens[s]
         /\ Generation(r)' = n /\ Status(r)' = "running" /\ Gen(r)' = new
         /\ DOMAIN gens'[r] = DOMAIN gens[r] /\ gens'[r][n] = new
         /\ \A g \in DOMAIN gens[r] : g # n => gens'[r][g] = gens[r][g]
         /\ Last(r)' = Last(r) /\ Halves(r, e)' = Halves(r, e)
    BY <1>1, <2>5, <2>6, Regen
  <2>12. /\ writer' \in [Runs -> WriterType \cup {Idle}] /\ writer'[r].pc = "prepare"
         /\ writer'[r].entry = e /\ writer'[r].from = from
         /\ (writer'[r].there <=> writer[r].there)
         /\ \A s \in Runs \ {r} : writer'[s] = writer[s]
    <3> DEFINE job == [writer[r] EXCEPT !.pc = "prepare",
                                        !.result = [writer[r].result EXCEPT !.code = head]]
    <3>1. writer' = [writer EXCEPT ![r] = job]
      BY <1>2, <2>4 DEF ResultsTypeInv, WriterType
    <3>2. [writer[r].result EXCEPT !.code = head] \in ResultType
      BY <1>2, <2>7 DEF ResultType
    <3>3. job \in WriterType /\ job.pc = "prepare" /\ job.entry = e /\ job.from = from
          /\ (job.there <=> writer[r].there)
      BY <1>0, <1>2, <3>2 DEF WriterType, Working
    <3> HIDE DEF job
    <3> QED BY <1>2, <3>1, <3>3, Row DEF ResultsTypeInv
  <2>13. /\ records' \in [Runs -> SUBSET (Evidence \X Nat)]
         /\ records'[r] = records[r] \cup {<<"selected", n>>}
         /\ \A s \in Runs \ {r} : records'[s] = records[s]
    <3>1. records[r] \cup {<<"selected", n>>} \in SUBSET (Evidence \X Nat)
      BY <1>2 DEF Evidence, ResultsTypeInv
    <3> QED BY <1>2, <2>4, <3>1, Row DEF ResultsTypeInv
  <2>14. ResultsTypeInv'
    <3>1. ResultsTypeInv
      BY <1>2
    <3> QED BY <3>1, <2>10, <2>11, <2>12, <2>13, Retyped DEF ResultsTypeInv, select
  <2>15. Performs(r)'
    BY <1>1, <1>2, <1>3, <2>5, <2>11, <2>12 DEF RunInv, Performs, select, Working
  <2>16. Flags(r)'
    BY <1>2, <2>5, <2>11 DEF RunInv, Flags, select
  <2>17. Evidenced(r)'
    <3>1. \A g \in DOMAIN gens[r] : gens'[r][g].status = gens[r][g].status
      BY <1>2, <2>5, <2>11 DEF Gen
    <3> QED BY <1>2, <2>11, <2>12, <2>13, <3>1 DEF RunInv, Evidenced, Working
  <2>18. Wrote(r, e)' = Wrote(r, e)
    BY <1>2, <2>5, <2>11 DEF Wrote, Gen
  <2>19. ~writer[r].there => Wrote(r, e) \subseteq heads[r][e].code.marks
    BY <1>2, <1>3 DEF RunInv, Kept
  <2>20. Rebuilds(r)'
    <3>1. View(r)' = w
      BY <2>10, <2>12 DEF View
    <3> QED BY <1>2, <2>5, <2>9, <2>11, <2>12, <2>18, <2>19, <3>1 DEF Rebuilds, select, Working
  <2>21. Delivered(r)' /\ EntrySet' = EntrySet
    BY <1>2 DEF RunInv, Delivered, select, EntrySet, Entries
  <2>22. Seals(r)'
    BY <2>12 DEF Seals
  <2>23. view.head \in Commits(r)
    BY <1>2, <1>3, <2>2 DEF Commits
  <2>24. Numbered(r)'
    <3>1. \A f \in EntrySet : views'[r][f].head = views[r][f].head \/ views'[r][f].head = head
      BY <2>9, <2>10
    <3>2. \A c \in Commits(r)' : c \in Commits(r) \/ c = head
      BY <2>21, <3>1 DEF Commits, select
    <3>3. \A c \in Commits(r)' : c \in Commits(r) \/ c.id = NextId(r)
      BY <2>7, <2>23, <3>2
    <3>4. Numbered(r)
      BY <1>2 DEF RunInv
    <3> HIDE DEF n, from
    <3> QED BY <1>2, <2>7, <3>3, <3>4, StillNumbered
  <2>25. MarksKnown(r)'
    <3>1. MarksKnown(r)
      BY <1>2 DEF RunInv
    <3>2. view.code \subseteq 0 .. n
      BY <1>2, <1>3, <2>2, <3>1 DEF MarksKnown
    <3>3. \A f \in EntrySet : views'[r][f].code \subseteq 0 .. n
            /\ views'[r][f].head.marks \subseteq 0 .. n
      BY <2>7, <2>9, <2>10, <3>1, <3>2 DEF MarksKnown
    <3> QED BY <2>11, <2>21, <3>1, <3>3 DEF MarksKnown, select
  <2>26. ASSUME NEW f \in EntrySet  PROVE Kept(r, f)' /\ Launchable(r, f)'
    <3>1. CASE f # e
      BY <1>0, <1>1, <2>5, <2>6, <2>10, <2>26, <3>1, OtherEntries DEF select
    <3>2. CASE f = e
      <4>1. Launchable(r, e)'
        BY <1>2, <2>5, <2>11 DEF Launchable
      <4>2. Kept(r, e)
        BY <1>2 DEF RunInv
      <4>3. CASE writer[r].there
        <5>1. \A h \in DOMAIN gens[r] : gens[r][h].half /\ gens[r][h].entry = e =>
                                            gens'[r][h].half /\ gens'[r][h].entry = e
          BY <1>2, <1>3, <2>5, <2>11 DEF Gen
        <5> QED BY <1>3, <2>2, <2>9, <2>10, <2>11, <2>18, <3>2, <4>1, <4>2, <4>3, <5>1
                   DEF Kept, select
      <4>4. CASE ~writer[r].there
        <5>1. n \in DOMAIN gens'[r] /\ gens'[r][n].half /\ gens'[r][n].entry = e
          BY <1>2, <2>5, <2>11, <4>4
        <5>2. heads[r][e].code.marks \subseteq w.code
          BY <1>2, <2>2, <2>9, <4>4 DEF RunInv, Delivered
        <5> QED BY <2>9, <2>10, <2>11, <2>18, <2>19, <3>2, <4>1, <4>2, <4>4, <5>1, <5>2
                   DEF Kept, select
      <4> QED BY <4>3, <4>4
    <3> QED BY <3>1, <3>2
  <2>27. RunInv(r)'
    BY <2>15, <2>16, <2>17, <2>20, <2>21, <2>22, <2>24, <2>25, <2>26 DEF RunInv
  <2> QED BY <2>10, <2>11, <2>12, <2>13, <2>14, <2>27, Locally DEF select
<1> QED BY <1>4, <1>5

\* A view that is gone is checked out again, and then its environment; one that the user
\* changed is refused.
LEMMA prepareKeeps ==
    ASSUME ResultsInv, NEW r \in Runs, prepare(r)
    PROVE  ResultsInv'
<1>0. PICK e : e = writer[r].entry
  OBVIOUS
<1> DEFINE n == Generation(r)
           from == writer[r].from
           new == [Gen(r) EXCEPT !.half = FALSE]
<1>1. writer[r].pc = "prepare" /\ writer[r].pc \in Working
  BY DEF prepare, AtStep, Working
<1>2. /\ ResultsTypeInv /\ RunInv(r) /\ writer[r] \in WriterType
      /\ Status(r) = "running" /\ n \in DOMAIN gens[r]
      /\ Gen(r) \in GenType /\ Gen(r).status = "running" /\ n \in Nat \ {0}
      /\ e = Gen(r).entry /\ e \in EntrySet /\ View(r) \in ViewType
      /\ gens[r] \in Seq(GenType) /\ from = published[r].entry[e] /\ from \in ResultType
      /\ writer[r].result \in ResultType
  BY <1>0, <1>1, AtWork
<1>3. proc[r] = "none" /\ (Gen(r).half <=> ~writer[r].there) /\ View(r).there
        /\ View(r) = views[r][e]
      /\ (~writer[r].there => Wrote(r, e) \subseteq heads[r][e].code.marks)
  BY <1>0, <1>1, <1>2 DEF RunInv, Performs, Rebuilds, View, Working
<1>4. CASE ~Prepares(r)
  <2>1. proc' \in [Runs -> {"none", "spawned", "registered"}]
    BY <1>2 DEF ResultsTypeInv, prepare
  <2> QED BY <1>1, <1>3, <1>4, <2>1, Moves DEF prepare, Goto, Working
<1>5. CASE Prepares(r)
  <2>1. PICK env : env = (IF writer[r].there THEN View(r).env ELSE from.env)
    OBVIOUS
  <2>2. env \in SUBSET Nat
    BY <1>2, <2>1 DEF ViewType, ResultType
  <2>3. /\ records' = [records EXCEPT ![r] = records[r] \cup {<<"before", n>>}]
        /\ views' = [views EXCEPT ![r][e].env = env]
        /\ writer' = [writer EXCEPT ![r].pc = "prepared", ![r].result.env = env]
        /\ gens' = [gens EXCEPT ![r][n].half = FALSE]
    BY <1>0, <1>2, <1>5, <2>1 DEF prepare, ResultsTypeInv
  <2>4. new \in GenType /\ new.entry = Gen(r).entry /\ new.status = "running"
        /\ new.cancelled = Gen(r).cancelled /\ new.wrote = Gen(r).wrote /\ ~new.half
    BY <1>2 DEF GenType
  <2>5. gens' = [gens EXCEPT ![r][n] = new]
    BY <1>2, <2>3 DEF Gen, ResultsTypeInv
  <2> HIDE DEF new
  <2>6. PICK w : w = [views[r][e] EXCEPT !.env = env]
    OBVIOUS
  <2>7. w \in ViewType /\ w.there /\ w.head = views[r][e].head /\ w.code = views[r][e].code
        /\ w.env = env
    BY <1>2, <1>3, <2>2, <2>6 DEF ViewType
  <2>8. /\ views' \in [Runs -> [EntrySet -> ViewType]] /\ \A s \in Runs \ {r} : views'[s] = views[s]
        /\ views'[r][e] = w /\ \A f \in EntrySet : f # e => views'[r][f] = views[r][f]
    <3>1. views' = [views EXCEPT ![r][e] = w]
      BY <1>2, <2>3, <2>6 DEF ResultsTypeInv
    <3>2. views' = [views EXCEPT ![r][writer[r].entry] = w]
      BY <1>0, <3>1
    <3>3. /\ views' \in [Runs -> [EntrySet -> ViewType]] /\ \A s \in Runs \ {r} :
               views'[s] = views[s]
          /\ views'[r][writer[r].entry] = w
          /\ \A f \in EntrySet : f # writer[r].entry => views'[r][f] = views[r][f]
      BY <1>1, <2>7, <3>2, Files
    <3> QED BY <1>0, <3>3
  <2>9. /\ gens' \in [Runs -> Seq(GenType)] /\ \A s \in Runs \ {r} : gens'[s] = gens[s]
        /\ Generation(r)' = n /\ Status(r)' = "running" /\ Gen(r)' = new
        /\ DOMAIN gens'[r] = DOMAIN gens[r] /\ gens'[r][n] = new
        /\ \A g \in DOMAIN gens[r] : g # n => gens'[r][g] = gens[r][g]
        /\ Last(r)' = Last(r) /\ Halves(r, e)' = Halves(r, e)
    BY <1>1, <2>4, <2>5, Regen
  <2>10. /\ writer' \in [Runs -> WriterType \cup {Idle}] /\ writer'[r].pc = "prepared"
         /\ writer'[r].entry = e /\ writer'[r].from = from
         /\ \A s \in Runs \ {r} : writer'[s] = writer[s]
    <3> DEFINE job == [writer[r] EXCEPT !.pc = "prepared",
                                        !.result = [writer[r].result EXCEPT !.env = env]]
    <3>1. writer' = [writer EXCEPT ![r] = job]
      BY <1>2, <2>3 DEF ResultsTypeInv, WriterType
    <3>2. [writer[r].result EXCEPT !.env = env] \in ResultType
      BY <1>2, <2>2 DEF ResultType
    <3>3. job \in WriterType /\ job.pc = "prepared" /\ job.entry = e /\ job.from = from
      BY <1>0, <1>2, <3>2 DEF WriterType, Working
    <3> HIDE DEF job
    <3> QED BY <1>2, <3>1, <3>3, Row DEF ResultsTypeInv
  <2>11. /\ records' \in [Runs -> SUBSET (Evidence \X Nat)]
         /\ records'[r] = records[r] \cup {<<"before", n>>}
         /\ \A s \in Runs \ {r} : records'[s] = records[s]
    <3>1. records[r] \cup {<<"before", n>>} \in SUBSET (Evidence \X Nat)
      BY <1>2 DEF Evidence, ResultsTypeInv
    <3> QED BY <1>2, <2>3, <3>1, Row DEF ResultsTypeInv
  <2>12. ResultsTypeInv'
    <3>1. ResultsTypeInv
      BY <1>2
    <3> QED BY <3>1, <2>8, <2>9, <2>10, <2>11, Retyped DEF ResultsTypeInv, prepare
  <2>13. Performs(r)'
    BY <1>1, <1>2, <1>3, <2>4, <2>9, <2>10 DEF RunInv, Performs, prepare, Working
  <2>14. Flags(r)'
    BY <1>2, <2>4, <2>9 DEF RunInv, Flags, prepare
  <2>15. Evidenced(r)'
    <3>1. \A g \in DOMAIN gens[r] : gens'[r][g].status = gens[r][g].status
      BY <1>2, <2>4, <2>9 DEF Gen
    <3>2. <<"selected", n>> \in records[r]
      BY <1>1, <1>2 DEF RunInv, Evidenced, Working
    <3> QED BY <1>2, <2>9, <2>10, <2>11, <3>1, <3>2 DEF RunInv, Evidenced, Working
  <2>16. Wrote(r, e)' = Wrote(r, e)
    BY <1>2, <2>4, <2>9 DEF Wrote, Gen
  <2>17. Rebuilds(r)'
    <3>1. View(r)' = w
      BY <2>8, <2>10 DEF View
    <3> QED BY <1>2, <2>4, <2>7, <2>9, <2>10, <3>1 DEF Rebuilds, prepare, Working
  <2>18. Delivered(r)' /\ EntrySet' = EntrySet
    BY <1>2 DEF RunInv, Delivered, prepare, EntrySet, Entries
  <2>19. Seals(r)'
    BY <2>10 DEF Seals
  <2>20. \A f \in EntrySet : /\ views'[r][f].head = views[r][f].head
                             /\ views'[r][f].code = views[r][f].code
    BY <2>7, <2>8
  <2>21. Numbered(r)'
    <3>1. Commits(r)' = Commits(r)
      BY <2>18, <2>20 DEF Commits, prepare
    <3> QED BY <1>2, <3>1 DEF RunInv, Numbered
  <2>22. MarksKnown(r)'
    BY <1>2, <2>9, <2>18, <2>20 DEF RunInv, MarksKnown, prepare
  <2>23. ASSUME NEW f \in EntrySet  PROVE Kept(r, f)' /\ Launchable(r, f)'
    <3>1. CASE f # e
      BY <1>0, <1>1, <2>4, <2>5, <2>8, <2>23, <3>1, OtherEntries DEF prepare
    <3>2. CASE f = e
      <4>1. Launchable(r, e)'
        BY <1>2, <2>4, <2>9 DEF Launchable
      <4>2. Kept(r, e)
        BY <1>2 DEF RunInv
      <4>3. CASE writer[r].there
        <5>1. \A h \in DOMAIN gens[r] : gens[r][h].half /\ gens[r][h].entry = e =>
                                            gens'[r][h].half /\ gens'[r][h].entry = e
          BY <1>2, <1>3, <2>4, <2>9, <4>3 DEF Gen
        <5> QED BY <1>3, <2>1, <2>7, <2>8, <2>9, <2>16, <3>2, <4>1, <4>2, <4>3, <5>1
                   DEF Kept, prepare
      <4>4. CASE ~writer[r].there
        <5>1. env = heads[r][e].env
          BY <1>2, <2>1, <4>4 DEF RunInv, Delivered
        <5>2. \A h \in Halves(r, e) :
                gens'[r][h].half /\ gens'[r][h].entry = e /\ h \in DOMAIN gens'[r]
          BY <1>2, <2>9 DEF Halves, Gen
        <5>3. \A g \in Wrote(r, e) : g \in views[r][e].code /\ g \in heads[r][e].code.marks
          BY <1>3, <4>2, <4>4 DEF Kept
        <5>4. \A g \in Wrote(r, e) : g \in heads[r][e].env \/ Halves(r, e) # {}
          BY <4>2, <5>3 DEF Kept
        <5> QED BY <2>7, <2>8, <2>9, <2>16, <3>2, <4>1, <5>1, <5>2, <5>3, <5>4 DEF Kept, prepare
      <4> QED BY <4>3, <4>4
    <3> QED BY <3>1, <3>2
  <2>24. RunInv(r)'
    BY <2>13, <2>14, <2>15, <2>17, <2>18, <2>19, <2>21, <2>22, <2>23 DEF RunInv
  <2> QED BY <2>8, <2>9, <2>10, <2>11, <2>12, <2>24, Locally DEF prepare
<1> QED BY <1>4, <1>5

\* What the workspace holds becomes a commit and an environment.
LEMMA sealKeeps ==
    ASSUME ResultsInv, NEW r \in Runs, NEW proved \in BOOLEAN, seal(r, proved)
    PROVE  ResultsInv'
<1>0. PICK e : e = writer[r].entry
  OBVIOUS
<1> DEFINE n == Generation(r)
<1>1. writer[r].pc = "exited" /\ writer[r].pc \in Working
  BY DEF seal, AtStep, Working
<1>2. /\ ResultsTypeInv /\ RunInv(r) /\ writer[r] \in WriterType
      /\ Status(r) = "running" /\ n \in DOMAIN gens[r]
      /\ Gen(r) \in GenType /\ Gen(r).status = "running" /\ n \in Nat \ {0}
      /\ e = Gen(r).entry /\ e \in EntrySet /\ View(r) \in ViewType
      /\ gens[r] \in Seq(GenType) /\ phase[r] # "publishing"
      /\ writer[r].from = published[r].entry[e]
  BY <1>0, <1>1, AtWork
<1>3. proc[r] = "none" /\ ~Gen(r).half /\ View(r).there /\ View(r) = views[r][e]
  BY <1>0, <1>1, <1>2 DEF RunInv, Performs, Rebuilds, View, Working
<1>4. CASE ~(~Cancelled(r) /\ proved /\ baseline)
  <2>1. proc' \in [Runs -> {"none", "spawned", "registered"}]
    BY <1>2 DEF ResultsTypeInv, seal
  <2> QED BY <1>1, <1>3, <1>4, <2>1, Moves DEF seal, Goto, Working
<1>5. CASE ~Cancelled(r) /\ proved /\ baseline
  <2>1. PICK head : head = (IF View(r).code = View(r).head.marks THEN View(r).head
                            ELSE Commit(NextId(r), View(r).code))
    OBVIOUS
  <2>2. PICK w : w = [View(r) EXCEPT !.head = head]
    OBVIOUS
  <2>3. /\ records' = [records EXCEPT ![r] = records[r] \cup {<<"after", n>>}]
        /\ views' = [views EXCEPT ![r][e] = w]
        /\ writer' = [writer EXCEPT ![r].pc = "sealed", ![r].result = Sealed(w)]
    BY <1>0, <1>2, <1>5, <2>1, <2>2 DEF seal, ResultsTypeInv
  <2>4. head \in CommitType /\ head.marks = View(r).code
        /\ (head = View(r).head \/ head.id = NextId(r)) /\ NextId(r) \in Nat
    <3>1. NextId(r) \in Nat
      BY <1>2, NewCommit DEF RunInv
    <3> QED BY <1>2, <2>1, <3>1 DEF ViewType, CommitType, Commit
  <2>5. w \in ViewType /\ w.there /\ w.head = head /\ w.code = views[r][e].code
        /\ w.env = views[r][e].env
    BY <1>2, <1>3, <2>2, <2>4 DEF ViewType
  <2>6. /\ views' \in [Runs -> [EntrySet -> ViewType]] /\ \A s \in Runs \ {r} : views'[s] = views[s]
        /\ views'[r][e] = w /\ \A f \in EntrySet : f # e => views'[r][f] = views[r][f]
    <3>1. views' = [views EXCEPT ![r][writer[r].entry] = w]
      BY <1>0, <2>3
    <3>2. /\ views' \in [Runs -> [EntrySet -> ViewType]] /\ \A s \in Runs \ {r} :
               views'[s] = views[s]
          /\ views'[r][writer[r].entry] = w
          /\ \A f \in EntrySet : f # writer[r].entry => views'[r][f] = views[r][f]
      BY <1>1, <2>5, <3>1, Files
    <3> QED BY <1>0, <3>2
  <2>7. Sealed(w) \in ResultType /\ Sealed(w).code = head /\ Sealed(w).env = w.env
    BY <2>5 DEF Sealed, ResultType, ViewType
  <2>8. /\ writer' \in [Runs -> WriterType \cup {Idle}] /\ writer'[r].pc = "sealed"
        /\ writer'[r].entry = e /\ writer'[r].from = writer[r].from /\ writer'[r].result = Sealed(w)
        /\ \A s \in Runs \ {r} : writer'[s] = writer[s]
    <3> DEFINE job == [writer[r] EXCEPT !.pc = "sealed", !.result = Sealed(w)]
    <3>1. writer' = [writer EXCEPT ![r] = job]
      BY <1>2, <2>3 DEF ResultsTypeInv, WriterType
    <3>2. job \in WriterType /\ job.pc = "sealed" /\ job.entry = e /\ job.from = writer[r].from
          /\ job.result = Sealed(w)
      BY <1>0, <1>2, <2>7 DEF WriterType, Working
    <3> HIDE DEF job
    <3> QED BY <1>2, <3>1, <3>2, Row DEF ResultsTypeInv
  <2>9. /\ records' \in [Runs -> SUBSET (Evidence \X Nat)]
        /\ records'[r] = records[r] \cup {<<"after", n>>}
        /\ \A s \in Runs \ {r} : records'[s] = records[s]
    <3>1. records[r] \cup {<<"after", n>>} \in SUBSET (Evidence \X Nat)
      BY <1>2 DEF Evidence, ResultsTypeInv
    <3> QED BY <1>2, <2>3, <3>1, Row DEF ResultsTypeInv
  <2>10. ResultsTypeInv'
    <3>1. ResultsTypeInv
      BY <1>2
    <3> QED BY <3>1, <2>6, <2>8, <2>9, Retyped DEF ResultsTypeInv, seal
  <2>11. Performs(r)'
    BY <1>1, <1>2, <1>3, <2>8 DEF RunInv, Performs, seal, Working, Status, Generation, Gen
  <2>12. Flags(r)'
    BY <1>2 DEF RunInv, Flags, seal, Status, Generation
  <2>13. Evidenced(r)'
    <3>1. <<"selected", n>> \in records[r] /\ <<"before", n>> \in records[r]
      BY <1>1, <1>2 DEF RunInv, Evidenced, Working
    <3> QED BY <1>2, <2>8, <2>9, <3>1 DEF RunInv, Evidenced, Working, seal, Generation
  <2>14. View(r)' = w
    BY <2>6, <2>8 DEF View
  <2>15. Rebuilds(r)'
    BY <1>2, <1>3, <2>5, <2>8, <2>14 DEF Rebuilds, seal, Working, Gen, Generation
  <2>16. Delivered(r)' /\ EntrySet' = EntrySet
    BY <1>2 DEF RunInv, Delivered, seal, EntrySet, Entries
  <2>17. Kept(r, e)
    BY <1>2 DEF RunInv
  <2>18. Wrote(r, e)' = Wrote(r, e) /\ Halves(r, e)' = Halves(r, e)
    BY DEF Wrote, Halves, seal, Generation
  <2>19. \A g \in Wrote(r, e) : g \in w.code /\ (g \in w.env \/ Halves(r, e) # {})
    <3> TAKE g \in Wrote(r, e)
    <3>1. g \in w.code /\ (g \in w.env \/ \E h \in DOMAIN gens[r] :
            gens[r][h].half /\ gens[r][h].entry = e)
      BY <1>3, <2>5, <2>17 DEF Kept
    <3>2. ASSUME NEW h \in DOMAIN gens[r], gens[r][h].half, gens[r][h].entry = e
          PROVE  h \in Halves(r, e)
      BY <1>3, <3>2 DEF Halves, Gen
    <3> QED BY <3>1, <3>2
  <2>20. Seals(r)'
    <3>1. Untouched(r, e)' => Verified(w, Sealed(w))
      BY <2>4, <2>5, <2>7, <1>3 DEF Verified
    <3>2. Verified(View(r), writer[r].result)' <=> Verified(w, Sealed(w))
      BY <2>8, <2>14 DEF Verified
    <3> QED BY <1>3, <2>4, <2>5, <2>7, <2>8, <2>14, <2>18, <2>19, <3>1, <3>2 DEF Seals
  <2>21. \A f \in EntrySet : views'[r][f].code = views[r][f].code
    BY <2>5, <2>6
  <2>22. Numbered(r)'
    <3>1. \A f \in EntrySet : views'[r][f].head = views[r][f].head \/ views'[r][f].head = head
      BY <2>5, <2>6
    <3>2. \A c \in Commits(r)' : c \in Commits(r) \/ c = head
      BY <2>16, <3>1 DEF Commits, seal
    <3>3. View(r).head \in Commits(r)
      BY <1>2, <1>3 DEF Commits
    <3>4. \A c \in Commits(r)' : c \in Commits(r) \/ c.id = NextId(r)
      BY <2>4, <3>2, <3>3
    <3>5. Numbered(r)
      BY <1>2 DEF RunInv
    <3> HIDE DEF n
    <3> QED BY <1>2, <2>4, <3>4, <3>5, StillNumbered
  <2>23. MarksKnown(r)'
    <3>1. MarksKnown(r)
      BY <1>2 DEF RunInv
    <3>2. \A f \in EntrySet : views'[r][f].head.marks \subseteq 0 .. n
      BY <1>2, <1>3, <2>4, <2>5, <2>6, <3>1 DEF MarksKnown
    <3> QED BY <2>16, <2>21, <3>1, <3>2 DEF MarksKnown, seal, Last, Status, Generation
  <2>24. ASSUME NEW f \in EntrySet  PROVE Kept(r, f)' /\ Launchable(r, f)'
    <3>1. Kept(r, f)'
      <4>1. Kept(r, f)
        BY <1>2, <2>24 DEF RunInv
      <4>2. /\ views'[r][f].code = views[r][f].code /\ views'[r][f].env = views[r][f].env
            /\ (views'[r][f].there <=> views[r][f].there)
        BY <1>3, <2>5, <2>6
      <4> QED BY <4>1, <4>2 DEF Kept, Wrote, Halves, seal, Generation
    <3>2. CASE f # e
      <4>1. Launchable(r, f)
        BY <1>2, <2>24 DEF RunInv
      <4> QED BY <2>6, <2>24, <3>1, <3>2, <4>1
                 DEF Launchable, Stale, Untouched, Verified, Status, Gen,
                                       Generation, seal
    <3>3. CASE f = e
      <4>1. Launchable(r, e)'
        BY <1>2 DEF Launchable, Status, Gen, Generation, seal
      <4> QED BY <3>1, <3>3, <4>1
    <3> QED BY <3>2, <3>3
  <2>25. RunInv(r)'
    BY <2>11, <2>12, <2>13, <2>15, <2>16, <2>20, <2>22, <2>23, <2>24 DEF RunInv
  <2> QED BY <2>6, <2>8, <2>9, <2>10, <2>25, Locally DEF seal
<1> QED BY <1>4, <1>5

\* A sealed generation completes unless it was cancelled, and its result is published; one
\* that failed leaves the entry as it was.
LEMMA finish_resultKeeps ==
    ASSUME ResultsInv, NEW r \in Runs, finish_result(r)
    PROVE  ResultsInv'
<1>0. PICK e : e = writer[r].entry
  OBVIOUS
<1> DEFINE n == Generation(r)
<1>1. writer[r].pc \in {"sealed", "failed"} /\ writer[r].pc \in Working
  BY DEF finish_result, Working
<1>2. /\ ResultsTypeInv /\ RunInv(r) /\ writer[r] \in WriterType
      /\ Status(r) = "running" /\ n \in DOMAIN gens[r]
      /\ Gen(r) \in GenType /\ Gen(r).status = "running" /\ n \in Nat \ {0}
      /\ e = Gen(r).entry /\ e \in EntrySet /\ View(r) \in ViewType
      /\ gens[r] \in Seq(GenType) /\ phase[r] # "publishing"
      /\ writer[r].result \in ResultType
  BY <1>0, <1>1, AtWork
<1>3. proc[r] = "none" /\ View(r) = views[r][e]
  BY <1>0, <1>1, <1>2 DEF RunInv, Performs, View
<1>4. PICK st \in {"completed", "failed"} :
         /\ gens' = [gens EXCEPT ![r][n].status = st]
         /\ st = "completed" => AtStep(r, "sealed") /\ ~Cancelled(r) /\ ResultExecutionFinished(r)
                                /\ flags' = [flags EXCEPT ![r] = 0]
         /\ st = "failed" => ResultExecutionFailed(r) /\ flags' = flags
  <2>1. CASE AtStep(r, "sealed") /\ ~Cancelled(r)
    BY <1>2, <2>1 DEF finish_result, ResultExecutionFinished
  <2>2. CASE ~(AtStep(r, "sealed") /\ ~Cancelled(r))
    BY <1>2, <2>2 DEF finish_result, ResultExecutionFailed
  <2> QED BY <2>1, <2>2
<1> DEFINE new == [Gen(r) EXCEPT !.status = st]
<1>5. new \in GenType /\ new.entry = Gen(r).entry /\ new.status = st
      /\ new.cancelled = Gen(r).cancelled /\ new.wrote = Gen(r).wrote /\ new.half = Gen(r).half
  BY <1>2 DEF GenType, Statuses
<1>6. /\ gens' \in [Runs -> Seq(GenType)] /\ \A s \in Runs \ {r} : gens'[s] = gens[s]
      /\ Generation(r)' = n /\ Status(r)' = st /\ Gen(r)' = new
      /\ DOMAIN gens'[r] = DOMAIN gens[r] /\ gens'[r][n] = new
      /\ \A g \in DOMAIN gens[r] : g # n => gens'[r][g] = gens[r][g]
  <2> DEFINE row == [gens[r] EXCEPT ![n] = new]
  <2>1. gens' = [gens EXCEPT ![r] = row]
    BY <1>2, <1>4 DEF ResultsTypeInv, Gen
  <2> HIDE DEF new
  <2>2. row \in Seq(GenType) /\ Len(row) = Len(gens[r]) /\ DOMAIN row = DOMAIN gens[r]
        /\ row[n] = new /\ row # <<>>
        /\ \A g \in DOMAIN gens[r] : g # n => row[g] = gens[r][g]
    BY <1>2, <1>5
  <2> HIDE DEF row
  <2>3. gens' \in [Runs -> Seq(GenType)] /\ gens'[r] = row /\ \A s \in Runs \ {r} :
          gens'[s] = gens[s]
    BY <1>2, <2>1, <2>2, Row DEF ResultsTypeInv
  <2>4. Generation(r)' = n
    BY <2>2, <2>3 DEF Generation
  <2>5. Status(r)' = st /\ Gen(r)' = new
    BY <1>5, <2>2, <2>3, <2>4 DEF Status, Gen, Generation
  <2> QED BY <2>2, <2>3, <2>4, <2>5
<1> HIDE DEF new
<1>7. /\ writer' \in [Runs -> WriterType \cup {Idle}] /\ writer'[r].pc = "drop"
      /\ \A s \in Runs \ {r} : writer'[s] = writer[s]
  <2> DEFINE job == [writer[r] EXCEPT !.pc = "drop"]
  <2>1. writer' = [writer EXCEPT ![r] = job]
    BY <1>2 DEF ResultsTypeInv, WriterType, finish_result, Goto
  <2>2. job \in WriterType /\ job.pc = "drop"
    BY <1>2 DEF WriterType
  <2> HIDE DEF job
  <2> QED BY <1>2, <2>1, <2>2, Row DEF ResultsTypeInv
<1>8. /\ phase' \in [Runs -> Phases] /\ phase'[r] \in {"running", "needs_attention"}
      /\ \A s \in Runs \ {r} : phase'[s] = phase[s]
  BY <1>2, <1>4 DEF ResultsTypeInv, Phases, ResultExecutionFinished, ResultExecutionFailed
<1>9. /\ flags' \in [Runs -> Nat] /\ \A s \in Runs \ {r} : flags'[s] = flags[s]
      /\ st = "completed" => flags'[r] = 0
      /\ st = "failed" => flags'[r] = flags[r]
  <2>1. flags \in [Runs -> Nat]
    BY <1>2 DEF ResultsTypeInv
  <2>2. CASE st = "completed"
    BY <1>4, <2>1, <2>2
  <2>3. CASE st = "failed"
    BY <1>4, <2>1, <2>3
  <2> QED BY <2>2, <2>3
<1>10. /\ heads' \in [Runs -> [EntrySet -> ResultType]] /\ \A s \in Runs \ {r} :
            heads'[s] = heads[s]
       /\ st = "failed" => heads'[r] = heads[r]
       /\ st = "completed" => heads'[r][e] = writer[r].result
       /\ \A f \in EntrySet : f # e => heads'[r][f] = heads[r][f]
  <2>1. heads \in [Runs -> [EntrySet -> ResultType]] /\ heads[r] \in [EntrySet -> ResultType]
    BY <1>2 DEF ResultsTypeInv
  <2>2. CASE st = "failed"
    BY <1>4, <2>1, <2>2 DEF ResultExecutionFailed
  <2>3. CASE st = "completed"
    <3>1. heads' = [heads EXCEPT ![r] = [heads[r] EXCEPT ![e] = writer[r].result]]
      BY <1>0, <1>4, <2>1, <2>3 DEF ResultExecutionFinished
    <3>2. [heads[r] EXCEPT ![e] = writer[r].result] \in [EntrySet -> ResultType]
      BY <1>2, <2>1
    <3>3. heads' \in [Runs -> [EntrySet -> ResultType]]
          /\ heads'[r] = [heads[r] EXCEPT ![e] = writer[r].result]
          /\ \A s \in Runs \ {r} : heads'[s] = heads[s]
      BY <2>1, <3>1, <3>2, Row
    <3> QED BY <1>2, <2>1, <2>3, <3>3
  <2> QED BY <2>2, <2>3
<1>11. /\ published' \in [Runs -> PublicationType]
       /\ \A s \in Runs \ {r} : published'[s] = published[s]
       /\ st = "failed" => published'[r] = published[r]
       /\ st = "completed" => published'[r].entry[e] = writer[r].result
       /\ published'[r].head = published[r].head
       /\ \A f \in EntrySet : f # e => published'[r].entry[f] = published[r].entry[f]
  <2>1. CASE st = "failed"
    BY <1>2, <1>4, <2>1 DEF ResultsTypeInv, ResultExecutionFailed
  <2>2. CASE st = "completed"
    <3>1. published' = [published EXCEPT ![r].entry[e] = writer[r].result]
      BY <1>0, <1>4, <2>2 DEF ResultExecutionFinished
    <3>2. published[r] \in PublicationType /\ published \in [Runs -> PublicationType]
      BY <1>2 DEF ResultsTypeInv
    <3> DEFINE row == [published[r] EXCEPT !.entry
          = [published[r].entry EXCEPT ![e] = writer[r].result]]
    <3>3. published' = [published EXCEPT ![r] = row]
      BY <3>1, <3>2 DEF PublicationType
    <3>4. [published[r].entry EXCEPT ![e] = writer[r].result] \in [EntrySet -> ResultType]
      BY <1>2, <3>2 DEF PublicationType
    <3>5. row \in PublicationType /\ row.head = published[r].head
          /\ row.entry = [published[r].entry EXCEPT ![e] = writer[r].result]
      BY <3>2, <3>4 DEF PublicationType
    <3>6. row.entry[e] = writer[r].result /\ \A f \in EntrySet : f # e =>
            row.entry[f] = published[r].entry[f]
      BY <1>2, <3>2, <3>5 DEF PublicationType
    <3> HIDE DEF row
    <3>7. published' \in [Runs -> PublicationType] /\ published'[r] = row
          /\ \A s \in Runs \ {r} : published'[s] = published[s]
      BY <3>2, <3>3, <3>5, Row
    <3> QED BY <2>2, <3>5, <3>6, <3>7
  <2> QED BY <2>1, <2>2
<1>12. ResultsTypeInv'
  <2>1. ResultsTypeInv
    BY <1>2
  <2> QED BY <2>1, <1>6, <1>7, <1>8, <1>9, <1>10, <1>11, Retyped DEF ResultsTypeInv, finish_result
<1>13. EntrySet' = EntrySet /\ views' = views /\ records' = records /\ delivered' = delivered
       /\ proc' = proc /\ lease' = lease /\ story' = story
  BY DEF finish_result, EntrySet, Entries
<1>14. Performs(r)'
  BY <1>3, <1>7, <1>8, <1>13 DEF Performs, Working
<1>15. Flags(r)'
  <2>1. st = "completed" => ~Gen(r).cancelled
    BY <1>4 DEF Cancelled, Gen
  <2> QED BY <1>2, <1>4, <1>5, <1>6, <1>9, <2>1 DEF RunInv, Flags
<1>16. st = "completed" => /\ writer[r].pc = "sealed" /\ View(r).there /\ ~Gen(r).half
                           /\ writer[r].result.code = View(r).head
  BY <1>2, <1>4 DEF AtStep, RunInv, Rebuilds, Seals, Working
<1>17. Evidenced(r)'
  <2>1. st = "completed" => Evidence \X {n} \subseteq records[r]
    <3>1. st = "completed" => /\ <<"selected", n>> \in records[r] /\ <<"before", n>> \in records[r]
                              /\ <<"after", n>> \in records[r]
      BY <1>2, <1>16 DEF RunInv, Evidenced, Working
    <3> QED BY <3>1 DEF Evidence
  <2>2. \A g \in DOMAIN gens[r] : gens'[r][g].status = "completed" =>
          Evidence \X {g} \subseteq records[r]
    BY <1>2, <1>5, <1>6, <2>1 DEF RunInv, Evidenced
  <2> QED BY <1>6, <1>7, <1>13, <2>2 DEF Evidenced, Working
<1>18. Rebuilds(r)' /\ Seals(r)'
  BY <1>7 DEF Rebuilds, Seals, Working
<1>19. Delivered(r)'
  <2>1. Delivered(r)
    BY <1>2 DEF RunInv
  <2>2. ASSUME NEW f \in EntrySet
        PROVE  /\ heads'[r][f].env = published'[r].entry[f].env
               /\ heads'[r][f].code.marks \subseteq published'[r].entry[f].code.marks
    <3>1. CASE f # e \/ st = "failed"
      BY <1>10, <1>11, <2>1, <2>2, <3>1 DEF Delivered
    <3>2. CASE f = e /\ st = "completed"
      BY <1>10, <1>11, <3>2
    <3> QED BY <3>1, <3>2
  <2> QED BY <1>11, <1>13, <2>1, <2>2 DEF Delivered
<1>20. Numbered(r)'
  <2>1. \A c \in Commits(r)' : c \in Commits(r)
    <3>1. View(r).head \in Commits(r)
      BY <1>2, <1>3 DEF Commits
    <3>2. ASSUME NEW f \in EntrySet
          PROVE  {views'[r][f].head, heads'[r][f].code, published'[r].entry[f].code}
                   \subseteq Commits(r)
      <4>1. {views[r][f].head, heads[r][f].code, published[r].entry[f].code} \subseteq Commits(r)
        BY <3>2 DEF Commits
      <4>2. CASE f # e \/ st = "failed"
        BY <1>10, <1>11, <1>13, <3>2, <4>1, <4>2
      <4>3. CASE f = e /\ st = "completed"
        BY <1>10, <1>11, <1>13, <1>16, <3>1, <4>1, <4>3
      <4> QED BY <4>2, <4>3
    <3>3. delivered[r] \subseteq Commits(r) /\ published[r].head \in Commits(r)
      BY DEF Commits
    <3> TAKE c \in Commits(r)'
    <3>4. CASE c \in delivered[r] \/ c = published[r].head
      BY <3>3, <3>4
    <3>5. CASE \E f \in EntrySet : c \in {views'[r][f].head, heads'[r][f].code,
                                          published'[r].entry[f].code}
      BY <3>2, <3>5
    <3> QED BY <1>11, <1>13, <3>4, <3>5 DEF Commits
  <2> QED BY <1>2, <2>1 DEF RunInv, Numbered
<1>21. MarksKnown(r)'
  <2>1. MarksKnown(r)
    BY <1>2 DEF RunInv
  <2>2. Last(r)' = n /\ \A x : x \in 0 .. Last(r) => x \in 0 .. n
    BY <1>2, <1>6 DEF Last
  <2>3. ASSUME NEW f \in EntrySet
        PROVE  /\ heads'[r][f].code.marks \subseteq 0 .. n
               /\ published'[r].entry[f].code.marks \subseteq 0 .. n
    <3>1. CASE f # e \/ st = "failed"
      BY <1>10, <1>11, <2>1, <2>2, <2>3, <3>1 DEF MarksKnown
    <3>2. CASE f = e /\ st = "completed"
      BY <1>2, <1>3, <1>10, <1>11, <1>16, <2>1, <3>2 DEF MarksKnown
    <3> QED BY <3>1, <3>2
  <2> QED BY <1>6, <1>11, <1>13, <2>1, <2>2, <2>3 DEF MarksKnown
<1>22. \A f : Wrote(r, f)' = Wrote(r, f) /\ Halves(r, f) \subseteq Halves(r, f)'
  <2> TAKE f
  <2>1. Wrote(r, f)' = Wrote(r, f)
    BY <1>2, <1>5, <1>6 DEF Wrote, Gen
  <2>2. Halves(r, f) \subseteq Halves(r, f)'
    BY <1>2, <1>5, <1>6 DEF Halves, Gen
  <2> QED BY <2>1, <2>2
<1>23. \A h \in DOMAIN gens[r] : /\ gens'[r][h].half <=> gens[r][h].half
                                 /\ gens'[r][h].entry = gens[r][h].entry
  BY <1>2, <1>5, <1>6 DEF Gen
<1> DEFINE HalfBuilt(f) == \E h \in DOMAIN gens[r] : gens[r][h].half /\ gens[r][h].entry = f
<1>26. \A f : (\E h \in DOMAIN gens'[r] : gens'[r][h].half /\ gens'[r][h].entry = f) <=>
         HalfBuilt(f)
  BY <1>6, <1>23
<1>24. ASSUME NEW f \in EntrySet  PROVE Kept(r, f)' /\ Launchable(r, f)'
  <2>1. Kept(r, f) /\ Launchable(r, f)
    BY <1>2, <1>24 DEF RunInv
  <2>2. CASE f # e \/ st = "failed"
    <3>1. heads'[r][f] = heads[r][f] /\ published'[r].entry[f] = published[r].entry[f]
      BY <1>10, <1>11, <1>24, <2>2
    <3>2. Kept(r, f)'
      <4>1. Kept(r, f)
        BY <2>1
      <4>2. ASSUME NEW g \in Wrote(r, f)'
            PROVE  /\ views'[r][f].there => g \in views'[r][f].code
                                            /\ (g \in views'[r][f].env \/ HalfBuilt(f))
                   /\ ~views'[r][f].there => g \in heads'[r][f].code.marks
                   /\ g \in heads'[r][f].code.marks =>
                         g \in heads'[r][f].env \/ Halves(r, f) # {}
        BY <1>13, <1>22, <3>1, <4>1, <4>2 DEF Kept
      <4> HIDE DEF HalfBuilt
      <4> QED BY <1>22, <1>26, <4>2 DEF Kept
    <3>3. Launchable(r, f)'
      BY <1>2, <1>5, <1>6, <1>11, <1>13, <2>1, <2>2, <3>1 DEF Launchable, Stale, Untouched, Verified
    <3> QED BY <3>2, <3>3
  <2>3. CASE f = e /\ st = "completed"
    <3>1. /\ \A g \in Wrote(r, e) : g \in writer[r].result.code.marks
                                       /\ (g \in writer[r].result.env \/ Halves(r, e) # {})
          /\ Untouched(r, e) => Verified(views[r][e], writer[r].result)
      BY <1>0, <1>2, <1>3, <1>16, <2>3 DEF RunInv, Seals
    <3>2. Kept(r, e)'
      <4>1. Kept(r, e)
        BY <2>1, <2>3
      <4>2. ASSUME NEW g \in Wrote(r, e)'
            PROVE  /\ views'[r][e].there /\ g \in views'[r][e].code
                   /\ (g \in views'[r][e].env \/ HalfBuilt(e))
                   /\ g \in heads'[r][e].env \/ Halves(r, e) # {}
        BY <1>3, <1>10, <1>13, <1>16, <1>22, <2>3, <3>1, <4>1, <4>2 DEF Kept
      <4> HIDE DEF HalfBuilt
      <4> QED BY <1>22, <1>26, <4>2 DEF Kept
    <3>3. Launchable(r, e)'
      BY <1>11, <1>13, <2>3, <3>1 DEF Launchable, Untouched, Verified
    <3> QED BY <2>3, <3>2, <3>3
  <2> QED BY <2>2, <2>3
<1>25. RunInv(r)'
  BY <1>13, <1>14, <1>15, <1>17, <1>18, <1>19, <1>20, <1>21, <1>24 DEF RunInv
<1> QED BY <1>6, <1>7, <1>8, <1>9, <1>10, <1>11, <1>12, <1>13, <1>25, Locally

\* The writer is gone.
LEMMA DropKeeps ==
    ASSUME ResultsInv, NEW r \in Runs, Drop(r)
    PROVE  ResultsInv'
<1>1. ResultsTypeInv /\ RunInv(r) /\ writer[r].pc = "drop"
  BY DEF ResultsInv, Drop, AtStep
<1>2. /\ flags' \in [Runs -> Nat] /\ flags'[r] = 0 /\ \A s \in Runs \ {r} : flags'[s] = flags[s]
  <2>1. flags[r] \in {0, Generation(r)} /\ flags \in [Runs -> Nat]
    BY <1>1 DEF RunInv, Flags, ResultsTypeInv
  <2> QED BY <2>1 DEF Drop
<1>3. /\ writer' \in [Runs -> WriterType \cup {Idle}] /\ writer'[r] = Idle
      /\ \A s \in Runs \ {r} : writer'[s] = writer[s]
  BY <1>1 DEF ResultsTypeInv, Drop
<1>4. ResultsTypeInv'
  <2>1. ResultsTypeInv
    BY <1>1
  <2> QED BY <2>1, <1>2, <1>3, Retyped DEF ResultsTypeInv, Drop
<1>5. Delivered(r)' /\ Numbered(r)' /\ MarksKnown(r)' /\ EntrySet' = EntrySet
      /\ \A e \in EntrySet' : Kept(r, e)' /\ Launchable(r, e)'
  BY <1>1, FilesStay DEF Drop
<1>6. Performs(r)' /\ Rebuilds(r)' /\ Seals(r)'
  BY <1>1, <1>3 DEF RunInv, Performs, Rebuilds, Seals, Drop, Idle, Working, Status, Generation
<1>7. Flags(r)'
  BY <1>1, <1>2 DEF RunInv, Flags, Drop, Status, Generation
<1>8. Evidenced(r)'
  BY <1>1, <1>3 DEF RunInv, Evidenced, Drop, Idle, Working
<1>9. RunInv(r)'
  BY <1>5, <1>6, <1>7, <1>8 DEF RunInv
<1> QED BY <1>2, <1>3, <1>4, <1>9, Locally DEF Drop

\* A step that only gives a Run another phase.
LEMMA Rephased ==
    ASSUME ResultsInv, NEW r \in Runs, NEW p \in Phases, phase' = [phase EXCEPT ![r] = p],
           p = "publishing" => Status(r) # "running",
           story' \in StoryType, story'.entries = story.entries, story'.device = story.device,
           heads' = heads, delivered' = delivered, published' = published, gens' = gens,
           flags' = flags, views' = views, records' = records, writer' = writer, proc' = proc,
           cancel' = cancel, lease' = lease, baseline' = baseline
    PROVE  ResultsInv'
<1>1. ResultsTypeInv /\ RunInv(r)
  BY DEF ResultsInv
<1>2. phase' \in [Runs -> Phases] /\ phase'[r] = p /\ \A s \in Runs \ {r} : phase'[s] = phase[s]
  BY <1>1, Row DEF ResultsTypeInv
<1>3. ResultsTypeInv'
  <2>1. ResultsTypeInv
    BY <1>1
  <2> QED BY <2>1, <1>2, Retyped DEF ResultsTypeInv
<1>4. Delivered(r)' /\ Numbered(r)' /\ MarksKnown(r)' /\ EntrySet' = EntrySet
      /\ \A e \in EntrySet' : Kept(r, e)' /\ Launchable(r, e)'
  BY <1>1, FilesStay
<1>5. Performs(r)'
  BY <1>1, <1>2 DEF RunInv, Performs, Status, Generation, Gen
<1>6. Flags(r)' /\ Evidenced(r)'
  BY <1>1 DEF RunInv, Flags, Evidenced, Status, Generation
<1>7. Rebuilds(r)'
  BY <1>1 DEF RunInv, Rebuilds, View, Gen, Generation, Wrote
<1>8. Seals(r)'
  BY <1>1 DEF RunInv, Seals, View, Verified, Wrote, Halves, Generation, Untouched
<1>9. RunInv(r)'
  BY <1>4, <1>5, <1>6, <1>7, <1>8 DEF RunInv
<1> QED BY <1>2, <1>3, <1>9, Locally

\* The Run is settled, paused or continued.
LEMMA PhasesKeep ==
    ASSUME ResultsInv, NEW r \in Runs, settle(r) \/ set_paused(r) \/ resume_run(r)
    PROVE  ResultsInv'
<1>1. ResultsTypeInv /\ story \in StoryType
  BY DEF ResultsInv, ResultsTypeInv
<1>2. CASE settle(r)
  <2>1. Status(r) # "running"
    BY <1>2 DEF settle, active
  <2>2. PICK p \in {"completed", "publishing"} : phase' = [phase EXCEPT ![r] = p]
    BY <1>2 DEF settle
  <2> QED BY <1>1, <1>2, <2>1, <2>2, Rephased DEF settle, Phases
<1>3. CASE set_paused(r)
  <2>1. story' \in StoryType /\ story'.entries = story.entries /\ story'.device = story.device
    BY <1>1, <1>3, StoryGoesOn DEF set_paused
  <2> QED BY <1>3, <2>1, Rephased DEF set_paused, Phases
<1>4. CASE resume_run(r)
  BY <1>1, <1>4, Rephased DEF resume_run, Phases
<1> QED BY <1>2, <1>3, <1>4

\* A cancel of the generation that runs is recorded, and the program is told.
LEMMA cancel_resultKeeps ==
    ASSUME ResultsInv, NEW r \in Runs, cancel_result(r)
    PROVE  ResultsInv'
<1> DEFINE n == Generation(r)
           new == [Gen(r) EXCEPT !.cancelled = TRUE]
<1>1. ResultsTypeInv /\ RunInv(r)
  BY DEF ResultsInv
<1>2. flags[r] = n /\ n # 0 /\ Status(r) # "completed"
  BY <1>1 DEF RunInv, Flags, cancel_result
<1>3. n \in DOMAIN gens[r] /\ Gen(r) \in GenType /\ Status(r) = Gen(r).status
      /\ gens[r] \in Seq(GenType) /\ n \in Nat
  <2>1. n \in Nat /\ DOMAIN gens[r] = 1 .. n
    BY <1>1, RowsTyped
  <2>2. n \in DOMAIN gens[r]
    BY <1>2, <2>1
  <2> QED BY <1>1, <2>1, <2>2, RowsTyped
<1>4. new \in GenType /\ new.entry = Gen(r).entry /\ new.status = Gen(r).status
      /\ new.wrote = Gen(r).wrote /\ new.half = Gen(r).half
  BY <1>3 DEF GenType
<1>5. gens' = [gens EXCEPT ![r] = [gens[r] EXCEPT ![n] = new]]
  BY <1>1, <1>2, <1>3 DEF cancel_result, Gen, ResultsTypeInv
<1> HIDE DEF new
<1> DEFINE row == [gens[r] EXCEPT ![n] = new]
<1>6. row \in Seq(GenType) /\ Len(row) = Len(gens[r]) /\ DOMAIN row = DOMAIN gens[r]
      /\ row[n] = new /\ row # <<>>
      /\ \A g \in DOMAIN gens[r] : g # n => row[g] = gens[r][g]
  BY <1>3, <1>4
<1> HIDE DEF row
<1>7. gens' \in [Runs -> Seq(GenType)] /\ gens'[r] = row /\ \A s \in Runs \ {r} : gens'[s] = gens[s]
  BY <1>1, <1>5, <1>6, Row DEF ResultsTypeInv, row
<1>8. Generation(r)' = n
  BY <1>6, <1>7 DEF Generation
<1>9. Status(r)' = Status(r) /\ Gen(r)' = new /\ Last(r)' = Last(r)
  <2>1. Status(r)' = Status(r) /\ Gen(r)' = new
    BY <1>3, <1>4, <1>6, <1>7, <1>8 DEF Status, Gen, Generation
  <2> QED BY <1>8, <2>1 DEF Last
<1>10. \A h \in DOMAIN gens[r] : /\ gens'[r][h].half <=> gens[r][h].half
                                 /\ gens'[r][h].wrote <=> gens[r][h].wrote
                                 /\ gens'[r][h].entry = gens[r][h].entry
                                 /\ gens'[r][h].status = gens[r][h].status
                                 /\ h # n => gens'[r][h] = gens[r][h]
  BY <1>3, <1>4, <1>6, <1>7 DEF Gen
<1>11. DOMAIN gens'[r] = DOMAIN gens[r]
  BY <1>6, <1>7
<1>12. story' \in StoryType /\ story'.entries = story.entries /\ story'.device = story.device
       /\ EntrySet' = EntrySet
  BY <1>1, StoryGoesOn DEF cancel_result
<1>13. cancel' \in [Runs -> BOOLEAN]
  BY <1>1 DEF cancel_result, ResultsTypeInv
<1>14. ResultsTypeInv'
  <2>1. ResultsTypeInv
    BY <1>1
  <2> QED BY <2>1, <1>7, <1>12, <1>13, Retyped DEF ResultsTypeInv, cancel_result
<1>15. Performs(r)'
  BY <1>1, <1>4, <1>9, <1>12 DEF RunInv, Performs, cancel_result
<1>16. Flags(r)'
  <2>1. \A g \in DOMAIN gens[r] : ~(gens'[r][g].cancelled /\ gens'[r][g].status = "completed")
    BY <1>1, <1>2, <1>3, <1>10 DEF RunInv, Flags, Gen
  <2> QED BY <1>1, <1>8, <1>9, <1>11, <2>1 DEF RunInv, Flags, cancel_result
<1>17. Evidenced(r)'
  BY <1>1, <1>8, <1>10, <1>11 DEF RunInv, Evidenced, cancel_result
<1>18. \A f : Wrote(r, f)' = Wrote(r, f) /\ Halves(r, f)' = Halves(r, f)
  <2> TAKE f
  <2>1. Wrote(r, f)' = Wrote(r, f)
    BY <1>10, <1>11 DEF Wrote
  <2>2. Halves(r, f)' = Halves(r, f)
    BY <1>8, <1>10, <1>11 DEF Halves
  <2> QED BY <2>1, <2>2
<1>19. Rebuilds(r)'
  BY <1>1, <1>4, <1>9, <1>18 DEF RunInv, Rebuilds, cancel_result, View
<1>20. Delivered(r)' /\ Numbered(r)'
  BY <1>1, <1>12 DEF RunInv, Delivered, Numbered, Commits, cancel_result
<1>21. Seals(r)'
  BY <1>1, <1>18 DEF RunInv, Seals, View, Verified, Untouched, cancel_result
<1>22. MarksKnown(r)'
  BY <1>1, <1>8, <1>9, <1>12 DEF RunInv, MarksKnown, cancel_result
<1>23. ASSUME NEW f \in EntrySet  PROVE Kept(r, f)' /\ Launchable(r, f)'
  <2>1. Kept(r, f) /\ Launchable(r, f)
    BY <1>1, <1>23 DEF RunInv
  <2>2. (\E h \in DOMAIN gens'[r] : gens'[r][h].half /\ gens'[r][h].entry = f)
           <=> \E h \in DOMAIN gens[r] : gens[r][h].half /\ gens[r][h].entry = f
    BY <1>10, <1>11
  <2>3. Kept(r, f)'
    BY <1>18, <2>1, <2>2 DEF Kept, cancel_result
  <2>4. Launchable(r, f)'
    BY <1>4, <1>9, <2>1 DEF Launchable, Stale, Untouched, Verified, cancel_result
  <2> QED BY <2>3, <2>4
<1>24. RunInv(r)'
  BY <1>12, <1>15, <1>16, <1>17, <1>19, <1>20, <1>21, <1>22, <1>23 DEF RunInv
<1> QED BY <1>7, <1>12, <1>14, <1>24, Locally DEF cancel_result

\* A cancelled program is terminated.
LEMMA terminate_ownerKeeps ==
    ASSUME ResultsInv, NEW r \in Runs, terminate_owner(r)
    PROVE  ResultsInv'
<1>1. ResultsTypeInv /\ RunInv(r)
  BY DEF ResultsInv
<1>2. /\ proc' \in [Runs -> {"none", "spawned", "registered"}] /\ proc'[r] \in {"none", proc[r]}
      /\ \A s \in Runs \ {r} : proc'[s] = proc[s]
      /\ cancel' \in [Runs -> BOOLEAN]
  BY <1>1 DEF terminate_owner, ResultsTypeInv
<1>3. ResultsTypeInv'
  <2>1. ResultsTypeInv
    BY <1>1
  <2> QED BY <2>1, <1>2, Retyped DEF ResultsTypeInv, terminate_owner
<1>4. Delivered(r)' /\ Numbered(r)' /\ MarksKnown(r)' /\ EntrySet' = EntrySet
      /\ \A e \in EntrySet' : Kept(r, e)' /\ Launchable(r, e)'
  BY <1>1, FilesStay DEF terminate_owner
<1>5. Performs(r)'
  BY <1>1, <1>2 DEF RunInv, Performs, Status, Generation, Gen, terminate_owner
<1>6. Flags(r)' /\ Evidenced(r)'
  BY <1>1 DEF RunInv, Flags, Evidenced, Status, Generation, terminate_owner
<1>7. Rebuilds(r)'
  BY <1>1 DEF RunInv, Rebuilds, View, Gen, Generation, Wrote, terminate_owner
<1>8. Seals(r)'
  BY <1>1 DEF RunInv, Seals, View, Verified, Wrote, Halves, Generation, Untouched, terminate_owner
<1>9. RunInv(r)'
  BY <1>4, <1>5, <1>6, <1>7, <1>8 DEF RunInv
<1> QED BY <1>2, <1>3, <1>9, Locally DEF terminate_owner

\* The user changes a workspace: it is no more what was sealed.
LEMMA TamperKeeps ==
    ASSUME ResultsInv, NEW r \in Runs, NEW e \in EntrySet, Tamper(r, e)
    PROVE  ResultsInv'
<1>1. /\ ResultsTypeInv /\ RunInv(r) /\ views[r] \in [EntrySet -> ViewType]
      /\ views[r][e] \in ViewType /\ views \in [Runs -> [EntrySet -> ViewType]]
  BY DEF ResultsInv, ResultsTypeInv
<1>2. PICK w \in ViewType : /\ views' = [views EXCEPT ![r][e] = w]
                            /\ w.there = views[r][e].there /\ w.head = views[r][e].head
                            /\ views[r][e].code \subseteq w.code
                            /\ w.code \subseteq views[r][e].code \cup {0}
                            /\ views[r][e].env \subseteq w.env
                            /\ 0 \in w.code \cup w.env
  <2>1. CASE views' = [views EXCEPT ![r][e].code = @ \cup {0}]
    <3> DEFINE w == [views[r][e] EXCEPT !.code = @ \cup {0}]
    <3>1. views' = [views EXCEPT ![r][e] = w]
      BY <1>1, <2>1
    <3>2. views[r][e].code \cup {0} \in SUBSET Nat
      BY <1>1 DEF ViewType
    <3>3. w = [views[r][e] EXCEPT !.code = views[r][e].code \cup {0}]
      OBVIOUS
    <3> HIDE DEF w
    <3>4. w \in ViewType /\ w.there = views[r][e].there /\ w.head = views[r][e].head
          /\ w.code = views[r][e].code \cup {0} /\ w.env = views[r][e].env
      BY <1>1, <3>2, <3>3 DEF ViewType
    <3> QED BY <3>1, <3>4
  <2>2. CASE views' = [views EXCEPT ![r][e].env = @ \cup {0}]
    <3> DEFINE w == [views[r][e] EXCEPT !.env = @ \cup {0}]
    <3>1. views' = [views EXCEPT ![r][e] = w]
      BY <1>1, <2>2
    <3>2. views[r][e].env \cup {0} \in SUBSET Nat
      BY <1>1 DEF ViewType
    <3>3. w = [views[r][e] EXCEPT !.env = views[r][e].env \cup {0}]
      OBVIOUS
    <3> HIDE DEF w
    <3>4. w \in ViewType /\ w.there = views[r][e].there /\ w.head = views[r][e].head
          /\ w.code = views[r][e].code /\ w.env = views[r][e].env \cup {0}
      BY <1>1, <3>2, <3>3 DEF ViewType
    <3> QED BY <3>1, <3>4
  <2> QED BY <2>1, <2>2 DEF Tamper
<1>3. /\ views' \in [Runs -> [EntrySet -> ViewType]] /\ \A s \in Runs \ {r} : views'[s] = views[s]
      /\ views'[r][e] = w /\ \A f \in EntrySet : f # e => views'[r][f] = views[r][f]
  <2>1. views' = [views EXCEPT ![r] = [views[r] EXCEPT ![e] = w]]
    BY <1>1, <1>2
  <2>2. [views[r] EXCEPT ![e] = w] \in [EntrySet -> ViewType]
    BY <1>1
  <2>3. /\ views' \in [Runs -> [EntrySet -> ViewType]] /\ \A s \in Runs \ {r} : views'[s] = views[s]
        /\ views'[r] = [views[r] EXCEPT ![e] = w]
    BY <1>1, <2>1, <2>2, Row
  <2> QED BY <1>1, <2>3
<1>4. story' \in StoryType /\ story'.entries = story.entries /\ story'.device = story.device
      /\ EntrySet' = EntrySet
  BY <1>1, StoryGoesOn DEF Tamper
<1>5. ResultsTypeInv'
  <2>1. ResultsTypeInv
    BY <1>1
  <2> QED BY <2>1, <1>3, <1>4, Retyped DEF ResultsTypeInv, Tamper
<1>6. \A f \in EntrySet : views'[r][f].head = views[r][f].head
        /\ views'[r][f].there = views[r][f].there
  BY <1>2, <1>3
<1>7. Performs(r)' /\ Flags(r)' /\ Evidenced(r)'
  BY <1>1, <1>4 DEF RunInv, Performs, Flags, Evidenced, Status, Generation, Gen, Tamper
<1>8. writer[r].pc \in Working => writer[r].entry \in EntrySet
  BY AtWork
<1>9. Rebuilds(r)'
  <2>1. writer[r].pc \in Working => View(r)'.there = View(r).there
    BY <1>6, <1>8 DEF View, Tamper
  <2> QED BY <1>1, <2>1 DEF RunInv, Rebuilds, Gen, Generation, Wrote, Tamper, Working
<1>10. Delivered(r)'
  BY <1>1, <1>4 DEF RunInv, Delivered, Tamper
<1>11. Numbered(r)'
  <2>1. Commits(r)' = Commits(r)
    BY <1>4, <1>6 DEF Commits, Tamper
  <2> QED BY <1>1, <2>1 DEF RunInv, Numbered
<1>12. MarksKnown(r)'
  <2>1. Generation(r) \in Nat /\ MarksKnown(r)
    BY <1>1, RowsTyped DEF RunInv
  <2>2. 0 \in 0 .. Generation(r)
    BY <2>1
  <2>3. \A f \in EntrySet : views'[r][f].code \subseteq views[r][f].code \cup {0}
    BY <1>2, <1>3
  <2> QED BY <1>4, <1>6, <2>1, <2>2, <2>3 DEF MarksKnown, Tamper, Last, Status, Generation
<1>13. Seals(r)'
  <2>1. CASE writer[r].pc # "sealed"
    BY <2>1 DEF Seals, Tamper
  <2>2. CASE writer[r].pc = "sealed"
    <3>1. writer[r].entry \in EntrySet /\ Seals(r)
      BY <1>1, <1>8, <2>2 DEF RunInv, Working
    <3>2. \A f : Wrote(r, f)' = Wrote(r, f) /\ Halves(r, f)' = Halves(r, f)
      BY DEF Wrote, Halves, Generation, Tamper
    <3>3. View(r)'.head = View(r).head
      BY <1>6, <3>1 DEF View, Tamper
    <3>4. CASE writer[r].entry = e
      <4>1. ~Untouched(r, writer[r].entry)'
        BY <1>2, <1>3, <3>4 DEF Untouched, Tamper
      <4> QED BY <2>2, <3>1, <3>2, <3>3, <4>1 DEF Seals, Tamper
    <3>5. CASE writer[r].entry # e
      <4>1. views'[r][writer[r].entry] = views[r][writer[r].entry]
        BY <1>3, <3>1, <3>5
      <4>2. View(r)' = View(r)
        BY <4>1 DEF View, Tamper
      <4> QED BY <2>2, <3>1, <3>2, <4>1, <4>2 DEF Seals, Untouched, Verified, Tamper
    <3> QED BY <3>4, <3>5
  <2> QED BY <2>1, <2>2
<1>14. ASSUME NEW f \in EntrySet  PROVE Kept(r, f)' /\ Launchable(r, f)'
  <2>1. Kept(r, f) /\ Launchable(r, f)
    BY <1>1, <1>14 DEF RunInv
  <2>2. views[r][f].code \subseteq views'[r][f].code /\ views[r][f].env \subseteq views'[r][f].env
    BY <1>2, <1>3, <1>14
  <2>3. Kept(r, f)'
    BY <1>6, <2>1, <2>2 DEF Kept, Wrote, Halves, Generation, Tamper
  <2>4. Launchable(r, f)'
    <3>1. CASE f = e
      BY <1>2, <1>3, <3>1 DEF Launchable, Untouched
    <3>2. CASE f # e
      BY <1>3, <2>1, <3>2
         DEF Launchable, Stale, Untouched, Verified, Status, Gen, Generation, Tamper
    <3> QED BY <3>1, <3>2
  <2> QED BY <2>3, <2>4
<1>15. RunInv(r)'
  BY <1>4, <1>7, <1>9, <1>10, <1>11, <1>12, <1>13, <1>14 DEF RunInv
<1> QED BY <1>3, <1>4, <1>5, <1>15, Locally DEF Tamper

\* The user removes an idle workspace, and with it what no commit of a node holds.
LEMMA RemoveViewKeeps ==
    ASSUME ResultsInv, NEW r \in Runs, NEW e \in EntrySet, RemoveView(r, e)
    PROVE  ResultsInv'
<1> DEFINE n == Generation(r)
<1>1. /\ ResultsTypeInv /\ RunInv(r) /\ views[r] \in [EntrySet -> ViewType]
      /\ views[r][e] \in ViewType
      /\ views \in [Runs -> [EntrySet -> ViewType]] /\ gens \in [Runs -> Seq(GenType)]
      /\ gens[r] \in Seq(GenType)
  BY DEF ResultsInv, ResultsTypeInv
<1>2. PICK w \in ViewType : /\ views' = [views EXCEPT ![r][e] = w] /\ ~w.there
                            /\ w.head = views[r][e].head /\ w.code = views[r][e].code
  <2> DEFINE w == [views[r][e] EXCEPT !.there = FALSE]
  <2>1. views' = [views EXCEPT ![r][e] = w]
    BY <1>1 DEF RemoveView
  <2>2. w \in ViewType /\ ~w.there /\ w.head = views[r][e].head /\ w.code = views[r][e].code
    BY <1>1 DEF ViewType
  <2> HIDE DEF w
  <2> QED BY <2>1, <2>2
<1>3. /\ views' \in [Runs -> [EntrySet -> ViewType]] /\ \A s \in Runs \ {r} : views'[s] = views[s]
      /\ views'[r][e] = w /\ \A f \in EntrySet : f # e => views'[r][f] = views[r][f]
  <2>1. views' = [views EXCEPT ![r] = [views[r] EXCEPT ![e] = w]]
    BY <1>1, <1>2
  <2>2. [views[r] EXCEPT ![e] = w] \in [EntrySet -> ViewType]
    BY <1>1
  <2>3. /\ views' \in [Runs -> [EntrySet -> ViewType]] /\ \A s \in Runs \ {r} : views'[s] = views[s]
        /\ views'[r] = [views[r] EXCEPT ![e] = w]
    BY <1>1, <2>1, <2>2, Row
  <2> QED BY <1>1, <2>3
<1> DEFINE Keep(g) == gens[r][g].wrote /\ (gens[r][g].entry = e => g \in heads[r][e].code.marks)
           row == [g \in DOMAIN gens[r] |-> [gens[r][g] EXCEPT !.wrote = Keep(g)]]
<1>4. gens' = [gens EXCEPT ![r] = row]
  BY <1>1 DEF RemoveView
<1>5. n \in Nat /\ DOMAIN gens[r] = 1 .. n /\ \A g \in DOMAIN gens[r] : gens[r][g] \in GenType
  BY <1>1, RowsTyped
<1>6. DOMAIN row = DOMAIN gens[r] /\ \A g \in DOMAIN gens[r] :
         /\ row[g] \in GenType /\ row[g].entry = gens[r][g].entry
         /\ row[g].status = gens[r][g].status
         /\ row[g].half = gens[r][g].half /\ row[g].cancelled = gens[r][g].cancelled
         /\ row[g].wrote <=> Keep(g)
  <2>1. ASSUME NEW g \in DOMAIN gens[r]
        PROVE  /\ row[g] \in GenType /\ row[g].entry = gens[r][g].entry
               /\ row[g].status = gens[r][g].status
               /\ row[g].half = gens[r][g].half /\ row[g].cancelled = gens[r][g].cancelled
               /\ row[g].wrote <=> Keep(g)
    <3>1. PICK k \in BOOLEAN : k = Keep(g)
      OBVIOUS
    <3>2. row[g] = [gens[r][g] EXCEPT !.wrote = k]
      BY <2>1, <3>1
    <3> HIDE DEF row, Keep
    <3>3. gens[r][g] \in GenType
      BY <1>5, <2>1
    <3>4. row[g].wrote <=> k
      BY <3>2, <3>3 DEF GenType
    <3> QED BY <3>1, <3>2, <3>3, <3>4 DEF GenType
  <2> HIDE DEF Keep
  <2> QED BY <2>1
<1> HIDE DEF row
<1>7. row \in Seq(GenType) /\ Len(row) = n
  <2>1. row \in [1 .. n -> GenType]
    <3>1. row = [g \in DOMAIN gens[r] |-> row[g]]
      BY DEF row
    <3> QED BY <1>5, <1>6, <3>1
  <2> QED BY <1>5, <2>1
<1>8. gens' \in [Runs -> Seq(GenType)] /\ gens'[r] = row /\ \A s \in Runs \ {r} : gens'[s] = gens[s]
  BY <1>1, <1>4, <1>7, Row
<1>9. Generation(r)' = n /\ DOMAIN gens'[r] = DOMAIN gens[r]
  BY <1>6, <1>7, <1>8 DEF Generation
<1>10. \A g \in DOMAIN gens[r] :
          /\ gens'[r][g].entry = gens[r][g].entry /\ gens'[r][g].status = gens[r][g].status
          /\ gens'[r][g].half = gens[r][g].half /\ gens'[r][g].cancelled = gens[r][g].cancelled
          /\ gens'[r][g].wrote => gens[r][g].wrote
               /\ (gens[r][g].entry = e => g \in heads[r][e].code.marks)
          /\ gens[r][g].wrote /\ gens[r][g].entry # e => gens'[r][g].wrote
  BY <1>6, <1>8
<1>11. Status(r)' = Status(r) /\ Last(r)' = Last(r)
  <2>1. CASE n = 0
    <3>1. gens[r] = <<>> /\ gens'[r] = <<>>
      BY <1>1, <1>7, <1>8, <2>1 DEF Generation
    <3> QED BY <1>9, <3>1 DEF Status, Last
  <2>2. CASE n # 0
    <3>1. n \in DOMAIN gens[r] /\ gens[r] # <<>> /\ gens'[r] # <<>>
      BY <1>1, <1>5, <1>7, <1>8, <2>2
    <3>2. Status(r)' = gens'[r][n].status /\ Status(r) = gens[r][n].status
      BY <1>9, <3>1 DEF Status, Generation
    <3>3. Status(r)' = Status(r)
      BY <1>10, <3>1, <3>2
    <3> QED BY <1>9, <3>3 DEF Last
  <2> QED BY <2>1, <2>2
<1>12. n \in DOMAIN gens[r] => /\ Gen(r)'.entry = Gen(r).entry /\ Gen(r)'.status = Gen(r).status
                               /\ (Gen(r)'.half <=> Gen(r).half)
  BY <1>9, <1>10 DEF Gen
<1>13. Status(r) = "running" => n \in DOMAIN gens[r] /\ Gen(r).entry # e
  BY <1>1, RowsTyped DEF RemoveView, view_is_running, Gen
<1>14. writer[r].pc \in Working => /\ Status(r) = "running" /\ writer[r].entry = Gen(r).entry
                                   /\ writer[r].entry \in EntrySet
  BY AtWork
<1>15. story' \in StoryType /\ story'.entries = story.entries /\ story'.device = story.device
       /\ EntrySet' = EntrySet
  BY <1>1, StoryGoesOn DEF RemoveView
<1>16. ResultsTypeInv'
  <2>1. ResultsTypeInv
    BY <1>1
  <2> QED BY <2>1, <1>3, <1>8, <1>15, Retyped DEF ResultsTypeInv, RemoveView
<1>17. writer[r].pc \in Working => View(r)' = View(r)
  <2>1. writer[r].pc \in Working => views'[r][writer[r].entry] = views[r][writer[r].entry]
    BY <1>3, <1>13, <1>14
  <2> QED BY <2>1 DEF View, RemoveView
<1>18. Performs(r)'
  BY <1>1, <1>11, <1>12, <1>13, <1>15 DEF RunInv, Performs, RemoveView
<1>19. Flags(r)' /\ Evidenced(r)'
  <2>1. Flags(r)'
    BY <1>1, <1>9, <1>10, <1>11 DEF RunInv, Flags, RemoveView
  <2>2. Evidenced(r)'
    BY <1>1, <1>9, <1>10 DEF RunInv, Evidenced, RemoveView
  <2> QED BY <2>1, <2>2
<1>20. \A f : Wrote(r, f)' \subseteq Wrote(r, f)
  BY <1>9, <1>10 DEF Wrote
<1>21. \A f : Halves(r, f)' = Halves(r, f)
  BY <1>9, <1>10 DEF Halves
<1>22. Rebuilds(r)'
  BY <1>1, <1>12, <1>13, <1>14, <1>17, <1>20 DEF RunInv, Rebuilds, RemoveView, Working
<1>23. Delivered(r)'
  BY <1>1, <1>15 DEF RunInv, Delivered, RemoveView
<1>24. \A f \in EntrySet :
         views'[r][f].head = views[r][f].head /\ views'[r][f].code = views[r][f].code
  BY <1>2, <1>3
<1>25. Numbered(r)'
  <2>1. Commits(r)' = Commits(r)
    BY <1>15, <1>24 DEF Commits, RemoveView
  <2> QED BY <1>1, <2>1 DEF RunInv, Numbered
<1>26. MarksKnown(r)'
  BY <1>1, <1>9, <1>11, <1>15, <1>24 DEF RunInv, MarksKnown, RemoveView
<1>27. Seals(r)'
  <2>1. CASE writer[r].pc # "sealed"
    BY <2>1 DEF Seals, RemoveView
  <2>2. CASE writer[r].pc = "sealed"
    <3>1. writer[r].entry # e /\ writer[r].entry \in EntrySet /\ View(r)' = View(r)
      BY <1>13, <1>14, <1>17, <2>2 DEF Working
    <3>2. views'[r][writer[r].entry] = views[r][writer[r].entry]
      BY <1>3, <3>1
    <3>3. Seals(r)
      BY <1>1 DEF RunInv
    <3> QED BY <1>20, <1>21, <2>2, <3>1, <3>2, <3>3 DEF Seals, Untouched, Verified, RemoveView
  <2> QED BY <2>1, <2>2
<1>28. ASSUME NEW f \in EntrySet  PROVE Kept(r, f)' /\ Launchable(r, f)'
  <2>1. Kept(r, f) /\ Launchable(r, f)
    BY <1>1, <1>28 DEF RunInv
  <2>2. CASE f = e
    <3>1. Kept(r, e)'
      <4>1. \A g \in Wrote(r, e)' : g \in heads[r][e].code.marks
        BY <1>9, <1>10 DEF Wrote
      <4> QED BY <1>2, <1>3, <1>20, <1>21, <2>1, <2>2, <4>1 DEF Kept, RemoveView
    <3>2. Launchable(r, e)'
      BY <1>2, <1>3 DEF Launchable
    <3> QED BY <2>2, <3>1, <3>2
  <2>3. CASE f # e
    <3>1. views'[r][f] = views[r][f]
      BY <1>3, <1>28, <2>3
    <3>2. (\E h \in DOMAIN gens'[r] : gens'[r][h].half /\ gens'[r][h].entry = f)
             <=> \E h \in DOMAIN gens[r] : gens[r][h].half /\ gens[r][h].entry = f
      BY <1>9, <1>10
    <3>3. Kept(r, f)'
      BY <1>20, <1>21, <2>1, <3>1, <3>2 DEF Kept, RemoveView
    <3>4. Launchable(r, f)'
      <4>1. CASE n \in DOMAIN gens[r]
        BY <1>11, <1>12, <2>1, <3>1, <4>1 DEF Launchable, Stale, Untouched, Verified, RemoveView
      <4>2. CASE n \notin DOMAIN gens[r]
        <5>1. Status(r) \in {"none", "completed"}
          <6>1. gens[r] = <<>>
            BY <1>1, <1>5, <4>2 DEF Generation
          <6> QED BY <6>1 DEF Status
        <5> QED BY <2>1, <3>1, <5>1 DEF Launchable, Stale, Untouched, Verified, RemoveView
      <4> QED BY <4>1, <4>2
    <3> QED BY <3>3, <3>4
  <2> QED BY <2>2, <2>3
<1>29. RunInv(r)'
  BY <1>15, <1>18, <1>19, <1>22, <1>23, <1>25, <1>26, <1>27, <1>28 DEF RunInv
<1> QED BY <1>3, <1>8, <1>15, <1>16, <1>29, Locally DEF RemoveView

\* The host changes: the baseline only.
LEMMA UpgradeKeeps ==
    ASSUME ResultsInv, Upgrade
    PROVE  ResultsInv'
<1>1. ResultsTypeInv
  BY DEF ResultsInv
<1>2. story' \in StoryType /\ story'.entries = story.entries /\ story'.device = story.device
  BY <1>1, StoryGoesOn DEF Upgrade
<1>3. ResultsTypeInv'
  BY <1>1, <1>2, Retyped DEF ResultsTypeInv, Upgrade
<1>4. ASSUME NEW r \in Runs  PROVE RunInv(r)'
  <2>1. RunInv(r)
    BY <1>4 DEF ResultsInv
  <2> QED BY <1>2, <2>1, Elsewhere DEF Upgrade
<1> QED BY <1>3, <1>4 DEF ResultsInv

\* A step that changes nothing.
LEMMA ResultsStutter ==
    ASSUME ResultsInv, UNCHANGED resultVars
    PROVE  ResultsInv'
<1>1. ResultsTypeInv
  BY DEF ResultsInv
<1>2. ResultsTypeInv'
  BY <1>1, Retyped DEF ResultsTypeInv, resultVars
<1>3. ASSUME NEW r \in Runs  PROVE RunInv(r)'
  <2>1. RunInv(r)
    BY <1>3 DEF ResultsInv
  <2> QED BY <2>1, Elsewhere DEF resultVars
<1> QED BY <1>2, <1>3 DEF ResultsInv

\* A restart ends the generation that ran and keeps its workspace.
LEMMA recoverKeeps ==
    ASSUME ResultsInv, recover
    PROVE  ResultsInv'
<1>1. ResultsTypeInv
  BY DEF ResultsInv
<1>2. story' \in StoryType /\ story'.entries = story.entries /\ story'.device = story.device
      /\ EntrySet' = EntrySet
  BY <1>1, StoryGoesOn DEF recover
<1>3. ASSUME NEW r \in Runs
      PROVE  /\ gens'[r] \in Seq(GenType) /\ RunInv(r)' /\ phase'[r] \in Phases
  <2> DEFINE n == Generation(r)
  <2>1. RunInv(r) /\ gens[r] \in Seq(GenType) /\ n \in Nat /\ DOMAIN gens[r] = 1 .. n
        /\ phase[r] \in Phases
    <3>1. RunInv(r)
      BY <1>3 DEF ResultsInv
    <3> QED BY <1>1, <1>3, <3>1, RowsTyped
  <2>2. /\ writer'[r] = Idle /\ proc'[r] = "none" /\ flags'[r] = 0
        /\ heads' = heads /\ delivered' = delivered /\ published' = published
        /\ views' = views /\ records' = records
    BY <1>3 DEF recover
  <2>3. /\ Status(r) = "running" => phase'[r] = "needs_attention"
        /\ Status(r) # "running" => phase'[r] = phase[r]
    BY <1>3 DEF recover
  <2>4. /\ gens'[r] \in Seq(GenType) /\ Generation(r)' = n /\ DOMAIN gens'[r] = DOMAIN gens[r]
        /\ \A g \in DOMAIN gens[r] :
              /\ gens'[r][g].entry = gens[r][g].entry /\ gens'[r][g].wrote = gens[r][g].wrote
              /\ gens'[r][g].half = gens[r][g].half
              /\ gens'[r][g].cancelled = gens[r][g].cancelled
              /\ gens'[r][g].status = (IF g = n /\ Status(r) = "running" THEN "failed"
                                       ELSE gens[r][g].status)
        /\ Status(r)' = (IF Status(r) = "running" THEN "failed" ELSE Status(r))
    <3>1. CASE Status(r) # "running"
      <4>1. gens'[r] = gens[r]
        BY <1>3, <3>1 DEF recover
      <4> QED BY <2>1, <3>1, <4>1 DEF Generation, Status
    <3>2. CASE Status(r) = "running"
      <4>1. n \in DOMAIN gens[r] /\ Gen(r) \in GenType
        BY <1>1, <3>2, RowsTyped
      <4> DEFINE new == [Gen(r) EXCEPT !.status = "failed"]
                 row == [gens[r] EXCEPT ![n] = new]
      <4>2. new \in GenType /\ new.entry = Gen(r).entry /\ new.wrote = Gen(r).wrote
            /\ new.half = Gen(r).half /\ new.cancelled = Gen(r).cancelled /\ new.status = "failed"
        BY <4>1 DEF GenType, Statuses
      <4>3. gens'[r] = row
        BY <1>3, <2>1, <3>2 DEF recover, Gen
      <4> HIDE DEF new
      <4>4. row \in Seq(GenType) /\ Len(row) = Len(gens[r]) /\ DOMAIN row = DOMAIN gens[r]
            /\ row[n] = new /\ row # <<>>
            /\ \A g \in DOMAIN gens[r] : g # n => row[g] = gens[r][g]
        BY <2>1, <4>1, <4>2
      <4> HIDE DEF row
      <4>5. Generation(r)' = n
        BY <4>3, <4>4 DEF Generation
      <4>6. Status(r)' = new.status
        BY <4>3, <4>4, <4>5 DEF Status, Generation
      <4> QED BY <3>2, <4>2, <4>3, <4>4, <4>5, <4>6 DEF Gen
    <3> QED BY <3>1, <3>2
  <2>5. Performs(r)' /\ Rebuilds(r)' /\ Seals(r)'
    <3>1. Status(r) # "running" \/ phase'[r] = "needs_attention"
      BY <2>3
    <3>2. phase'[r] = "publishing" => Status(r)' # "running"
      BY <2>4
    <3> QED BY <2>2, <3>2 DEF Performs, Rebuilds, Seals, Idle, Working
  <2>6. Flags(r)'
    BY <2>1, <2>2, <2>4 DEF RunInv, Flags
  <2>7. Evidenced(r)'
    BY <2>1, <2>2, <2>4 DEF RunInv, Evidenced, Idle, Working
  <2>8. Delivered(r)' /\ Numbered(r)'
    BY <1>2, <2>1, <2>2 DEF RunInv, Delivered, Numbered, Commits
  <2>9. MarksKnown(r)'
    <3>1. MarksKnown(r)
      BY <2>1 DEF RunInv
    <3>2. \A x : x \in 0 .. Last(r) => x \in 0 .. Last(r)'
      BY <2>1, <2>4 DEF Last
    <3> QED BY <1>2, <2>2, <2>4, <3>1, <3>2 DEF MarksKnown
  <2>10. ASSUME NEW f \in EntrySet  PROVE Kept(r, f)' /\ Launchable(r, f)'
    <3>1. Kept(r, f) /\ Launchable(r, f)
      BY <2>1, <2>10 DEF RunInv
    <3>2. Wrote(r, f)' = Wrote(r, f)
      BY <2>4 DEF Wrote
    <3>3. Halves(r, f) \subseteq Halves(r, f)'
      BY <2>4 DEF Halves
    <3>4. (\E h \in DOMAIN gens'[r] : gens'[r][h].half /\ gens'[r][h].entry = f)
             <=> \E h \in DOMAIN gens[r] : gens[r][h].half /\ gens[r][h].entry = f
      BY <2>4
    <3>5. Kept(r, f)'
      <4>1. \A g \in Wrote(r, f) : g \in heads[r][f].code.marks =>
                                      g \in heads[r][f].env \/ Halves(r, f)' # {}
        BY <3>1, <3>3 DEF Kept
      <4>2. \A g \in Wrote(r, f) :
              /\ views[r][f].there => /\ g \in views[r][f].code
                                      /\ \/ g \in views[r][f].env
                                         \/ \E h \in DOMAIN gens[r] :
                                               gens[r][h].half /\ gens[r][h].entry = f
              /\ ~views[r][f].there => g \in heads[r][f].code.marks
        BY <3>1 DEF Kept
      <4> QED BY <2>2, <3>2, <3>4, <4>1, <4>2 DEF Kept
    <3>6. Launchable(r, f)'
      <4>1. Status(r)' \in {"none", "completed"} => Status(r) \in {"none", "completed"}
        BY <2>4
      <4>2. CASE n \in DOMAIN gens[r]
        <5>1. Gen(r)'.entry = Gen(r).entry
          BY <2>4, <4>2 DEF Gen
        <5> QED BY <2>2, <3>1, <4>1, <5>1 DEF Launchable, Stale, Untouched, Verified
      <4>3. CASE n \notin DOMAIN gens[r]
        <5>1. gens[r] = <<>>
          BY <2>1, <4>3
        <5>2. Status(r) \in {"none", "completed"}
          BY <5>1 DEF Status
        <5> QED BY <2>2, <3>1, <5>2 DEF Launchable, Stale, Untouched, Verified
      <4> QED BY <4>2, <4>3
    <3> QED BY <3>5, <3>6
  <2>11. RunInv(r)'
    BY <1>2, <2>5, <2>6, <2>7, <2>8, <2>9, <2>10 DEF RunInv
  <2> QED BY <2>1, <2>3, <2>4, <2>11 DEF Phases
<1>4. ResultsTypeInv'
  <2>1. gens' \in [Runs -> Seq(GenType)] /\ phase' \in [Runs -> Phases]
    BY <1>3 DEF recover
  <2>2. /\ flags' \in [Runs -> Nat] /\ writer' \in [Runs -> WriterType \cup {Idle}]
        /\ proc' \in [Runs -> {"none", "spawned", "registered"}] /\ cancel' \in [Runs -> BOOLEAN]
        /\ lease' \in Runs \cup {NoRun}
    BY DEF recover
  <2> QED BY <1>1, <1>2, <2>1, <2>2, Retyped DEF ResultsTypeInv, recover
<1> QED BY <1>3, <1>4 DEF ResultsInv

\* A publication checks the entries out at its new commit, up to the first that it refuses.
LEMMA publishKeeps ==
    ASSUME ResultsInv, NEW r \in Runs, publish(r)
    PROVE  ResultsInv'
<1> DEFINE n == Generation(r)
<1>1. /\ ResultsTypeInv /\ RunInv(r) /\ views[r] \in [EntrySet -> ViewType]
      /\ views \in [Runs -> [EntrySet -> ViewType]] /\ heads[r] \in [EntrySet -> ResultType]
      /\ published \in [Runs -> PublicationType] /\ published[r] \in PublicationType
      /\ n \in Nat /\ Status(r) # "running"
  <2>1. ResultsTypeInv /\ RunInv(r)
    BY DEF ResultsInv
  <2>2. Status(r) # "running"
    BY <2>1 DEF RunInv, Performs, publish
  <2>3. n \in Nat
    BY <2>1, RowsTyped
  <2> QED BY <2>1, <2>2, <2>3 DEF ResultsTypeInv
<1>2. NextId(r) \in Nat /\ \A c \in Commits(r) : c.id \in Nat /\ c.id < NextId(r)
  BY <1>1, NewCommit DEF RunInv
<1>3. PICK head : head = Commit(NextId(r), published[r].head.marks
                                           \cup UNION {h.marks : h \in undelivered_heads(r)})
  OBVIOUS
<1>4. /\ head.id = NextId(r) /\ published[r].head.marks \subseteq head.marks
      /\ \A c \in undelivered_heads(r) : c.marks \subseteq head.marks
      /\ \A x \in head.marks : x \in published[r].head.marks
                                \/ \E c \in undelivered_heads(r) : x \in c.marks
  BY <1>3 DEF Commit
<1>5. /\ Delivered(r) /\ MarksKnown(r) /\ Numbered(r)
      /\ \A e \in EntrySet : heads[r][e].code.marks \subseteq head.marks
  <2>1. Delivered(r) /\ MarksKnown(r) /\ Numbered(r)
    BY <1>1 DEF RunInv
  <2>2. ASSUME NEW e \in EntrySet  PROVE heads[r][e].code.marks \subseteq head.marks
    <3>1. CASE heads[r][e].code \in delivered[r]
      BY <1>4, <2>1, <3>1 DEF Delivered
    <3>2. CASE heads[r][e].code \notin delivered[r]
      BY <1>4, <2>2, <3>2 DEF undelivered_heads
    <3> QED BY <3>1, <3>2
  <2> QED BY <2>1, <2>2
<1>6. head.marks \subseteq 0 .. n
  <2>1. Last(r) = n
    BY <1>1 DEF Last
  <2>2. \A c \in undelivered_heads(r) : c.marks \subseteq 0 .. n
    BY <1>5, <2>1 DEF MarksKnown, undelivered_heads
  <2> QED BY <1>4, <1>5, <2>2 DEF MarksKnown
<1>7. head \in CommitType
  <2>1. head.marks \in SUBSET Nat
    BY <1>1, <1>6
  <2> QED BY <1>2, <1>3, <2>1 DEF Commit, CommitType
<1>8. PICK Failing : Failing = {i \in DOMAIN Entries : ~DescriptorOk(r, Entries[i], head)}
  OBVIOUS
<1>9. PICK Done : Done = {Entries[i] : i \in {j \in DOMAIN Entries : \A k \in Failing : j < k}}
  OBVIOUS
<1>10. descriptor(r, head) /\ delivered' = [delivered EXCEPT ![r] = @ \cup undelivered_heads(r)]
       /\ phase' = [phase EXCEPT ![r] = "completed"]
  BY <1>3 DEF publish
<1>11. /\ views' = [views EXCEPT ![r] = [e \in EntrySet |->
                      IF e \in Done
                      THEN [there |-> TRUE, head |-> head, code |-> head.marks,
                        env |-> heads[r][e].env]
                      ELSE views[r][e]]]
       /\ published' = [published EXCEPT ![r] =
                      [head |-> head,
                       entry |-> IF Failing # {} THEN published[r].entry
                                 ELSE [e \in EntrySet |-> [code |-> head,
                                   env |-> heads[r][e].env]]]]
  BY <1>1, <1>8, <1>9, <1>10 DEF descriptor
<1>12. /\ \A e \in Done : DescriptorOk(r, e, head)
       /\ Failing = {} => EntrySet \subseteq Done
       /\ Done \subseteq EntrySet
  <2>1. ASSUME NEW i \in DOMAIN Entries, \A k \in Failing : i < k
        PROVE  DescriptorOk(r, Entries[i], head)
    <3>1. i \in Nat
      BY <1>1 DEF ResultsTypeInv, StoryType, Entries
    <3>2. i \notin Failing
      BY <2>1, <3>1
    <3> QED BY <1>8, <3>2
  <2>2. \A e \in Done : DescriptorOk(r, e, head)
    BY <1>9, <2>1
  <2>3. Failing = {} => EntrySet \subseteq Done
    BY <1>9 DEF EntrySet
  <2>4. Done \subseteq EntrySet
    BY <1>9 DEF EntrySet
  <2> QED BY <2>2, <2>3, <2>4
<1>13. /\ views' \in [Runs -> [EntrySet -> ViewType]] /\ \A s \in Runs \ {r} : views'[s] = views[s]
       /\ \A e \in Done : /\ views'[r][e].there /\ views'[r][e].head = head
                          /\ views'[r][e].code = head.marks /\ views'[r][e].env = heads[r][e].env
       /\ \A e \in EntrySet \ Done : views'[r][e] = views[r][e]
  <2> DEFINE built(e) == [there |-> TRUE, head |-> head, code |-> head.marks,
        env |-> heads[r][e].env]
             row == [e \in EntrySet |-> IF e \in Done THEN built(e) ELSE views[r][e]]
  <2>1. \A e \in EntrySet : built(e) \in ViewType
    <3> TAKE e \in EntrySet
    <3>1. heads[r][e].env \in SUBSET Nat /\ head.marks \in SUBSET Nat
      BY <1>1, <1>7 DEF ResultType, CommitType
    <3> QED BY <1>7, <3>1 DEF ViewType
  <2>2. \A e : /\ built(e).there /\ built(e).head = head
               /\ built(e).code = head.marks /\ built(e).env = heads[r][e].env
    OBVIOUS
  <2>3. views' = [views EXCEPT ![r] = row]
    BY <1>11
  <2> HIDE DEF built
  <2>4. row \in [EntrySet -> ViewType] /\ \A e \in EntrySet :
          row[e] = IF e \in Done THEN built(e) ELSE views[r][e]
    BY <1>1, <2>1
  <2> HIDE DEF row
  <2>5. views' \in [Runs -> [EntrySet -> ViewType]] /\ views'[r] = row
        /\ \A s \in Runs \ {r} : views'[s] = views[s]
    BY <1>1, <2>3, <2>4, Row
  <2> QED BY <1>12, <2>2, <2>4, <2>5
<1>14. /\ published' \in [Runs -> PublicationType]
       /\ \A s \in Runs \ {r} : published'[s] = published[s]
       /\ published'[r].head = head
       /\ Failing # {} => published'[r].entry = published[r].entry
       /\ Failing = {} => \A e \in EntrySet : /\ published'[r].entry[e].code = head
                                              /\ published'[r].entry[e].env = heads[r][e].env
  <2> DEFINE entry == IF Failing # {} THEN published[r].entry
                      ELSE [e \in EntrySet |-> [code |-> head, env |-> heads[r][e].env]]
             row == [head |-> head, entry |-> entry]
  <2>1. published' = [published EXCEPT ![r] = row]
    BY <1>11
  <2>2. entry \in [EntrySet -> ResultType]
    <3>1. published[r].entry \in [EntrySet -> ResultType]
      BY <1>1 DEF PublicationType
    <3>2. \A e \in EntrySet : [code |-> head, env |-> heads[r][e].env] \in ResultType
      BY <1>1, <1>7 DEF ResultType
    <3> QED BY <3>1, <3>2
  <2>3. /\ Failing # {} => entry = published[r].entry
        /\ Failing = {} => \A e \in EntrySet :
             entry[e].code = head /\ entry[e].env = heads[r][e].env
    OBVIOUS
  <2> HIDE DEF entry
  <2>4. row \in PublicationType /\ row.head = head /\ row.entry = entry
    BY <1>7, <2>2 DEF PublicationType
  <2> HIDE DEF row
  <2>5. published' \in [Runs -> PublicationType] /\ published'[r] = row
        /\ \A s \in Runs \ {r} : published'[s] = published[s]
    BY <1>1, <2>1, <2>4, Row
  <2> QED BY <2>3, <2>4, <2>5
<1>15. /\ delivered' \in [Runs -> SUBSET CommitType]
       /\ delivered'[r] = delivered[r] \cup undelivered_heads(r)
       /\ \A s \in Runs \ {r} : delivered'[s] = delivered[s]
  <2>1. \A e \in EntrySet : heads[r][e].code \in CommitType
    BY <1>1 DEF ResultType
  <2>2. undelivered_heads(r) \subseteq CommitType
    BY <2>1 DEF undelivered_heads
  <2>3. delivered[r] \cup undelivered_heads(r) \in SUBSET CommitType
    BY <1>1, <2>2 DEF ResultsTypeInv
  <2>4. delivered \in [Runs -> SUBSET CommitType]
    BY <1>1 DEF ResultsTypeInv
  <2>5. delivered' = [delivered EXCEPT ![r] = delivered[r] \cup undelivered_heads(r)]
    BY <1>10, <2>4
  <2> QED BY <2>3, <2>4, <2>5, Row
<1>16. /\ phase' \in [Runs -> Phases] /\ phase'[r] = "completed"
       /\ \A s \in Runs \ {r} : phase'[s] = phase[s]
  BY <1>1, <1>10 DEF ResultsTypeInv, Phases
<1>17. EntrySet' = EntrySet /\ story' = story /\ heads' = heads /\ gens' = gens /\ flags' = flags
       /\ records' = records /\ writer' = writer /\ proc' = proc /\ lease' = lease
  BY DEF publish, EntrySet, Entries
<1>18. ResultsTypeInv'
  <2>1. ResultsTypeInv
    BY <1>1
  <2> QED BY <2>1, <1>13, <1>14, <1>15, <1>16, Retyped DEF ResultsTypeInv, publish
<1>19. writer[r].pc \notin Working
  BY <1>1 DEF RunInv, Performs
<1>20. Performs(r)' /\ Flags(r)' /\ Evidenced(r)'
  BY <1>1, <1>16, <1>17 DEF RunInv, Performs, Flags, Evidenced, Status, Generation, Gen
<1>21. Rebuilds(r)' /\ Seals(r)'
  BY <1>17, <1>19 DEF Rebuilds, Seals, Working
<1>22. Delivered(r)'
  <2>1. \A e \in EntrySet : /\ heads[r][e].env = published'[r].entry[e].env
                            /\ heads[r][e].code.marks \subseteq published'[r].entry[e].code.marks
    BY <1>5, <1>14 DEF Delivered
  <2>2. \A c \in delivered'[r] : c.marks \subseteq head.marks
    BY <1>4, <1>5, <1>15 DEF Delivered
  <2> QED BY <1>14, <1>17, <2>1, <2>2 DEF Delivered
<1>23. Numbered(r)'
  <2>1. ASSUME NEW c \in Commits(r)'  PROVE c \in Commits(r) \/ c = head
    <3>1. CASE c \in delivered'[r] \/ c = published'[r].head
      BY <1>14, <1>15, <3>1 DEF Commits, undelivered_heads
    <3>2. ASSUME NEW e \in EntrySet, c \in {views'[r][e].head, heads'[r][e].code,
                                           published'[r].entry[e].code}
          PROVE  c \in Commits(r) \/ c = head
      <4>1. {views[r][e].head, heads[r][e].code, published[r].entry[e].code} \subseteq Commits(r)
        BY DEF Commits
      <4>2. views'[r][e].head = head \/ views'[r][e].head = views[r][e].head
        BY <1>13
      <4>3. published'[r].entry[e].code \in {head, published[r].entry[e].code}
        BY <1>14
      <4> QED BY <1>17, <3>2, <4>1, <4>2, <4>3
    <3> QED BY <1>17, <2>1, <3>1, <3>2 DEF Commits
  <2>2. \A c \in Commits(r)' : c \in Commits(r) \/ c.id = NextId(r)
    BY <1>4, <2>1
  <2>3. ResultsTypeInv /\ Numbered(r)
    BY <1>1, <1>5
  <2> HIDE DEF n
  <2> QED BY <1>2, <2>2, <2>3, StillNumbered
<1>24. MarksKnown(r)'
  <2>1. ASSUME NEW e \in EntrySet
        PROVE  /\ views'[r][e].code \subseteq 0 .. n /\ views'[r][e].head.marks \subseteq 0 .. n
               /\ published'[r].entry[e].code.marks \subseteq 0 .. n
               /\ heads[r][e].code.marks \subseteq 0 .. Last(r)
    <3>1. views'[r][e].code \subseteq 0 .. n /\ views'[r][e].head.marks \subseteq 0 .. n
      BY <1>5, <1>6, <1>13 DEF MarksKnown
    <3>2. published'[r].entry[e].code.marks \subseteq 0 .. n
      BY <1>5, <1>6, <1>14 DEF MarksKnown
    <3> QED BY <1>5, <3>1, <3>2 DEF MarksKnown
  <2>2. Last(r)' = Last(r) /\ Generation(r)' = n
    BY <1>17 DEF Last, Status, Generation
  <2> QED BY <1>6, <1>14, <1>17, <2>1, <2>2 DEF MarksKnown
<1>25. ASSUME NEW e \in EntrySet  PROVE Kept(r, e)' /\ Launchable(r, e)'
  <2>1. Kept(r, e) /\ Launchable(r, e)
    BY <1>1, <1>25 DEF RunInv
  <2>2. Wrote(r, e)' = Wrote(r, e) /\ Halves(r, e)' = Halves(r, e)
    BY <1>17 DEF Wrote, Halves, Generation
  <2>3. Kept(r, e)'
    <3>1. CASE e \notin Done
      BY <1>13, <1>17, <1>25, <2>1, <2>2, <3>1 DEF Kept
    <3>2. CASE e \in Done
      <4>1. DescriptorOk(r, e, head)
        BY <1>12, <3>2
      <4>2. views[r][e].there => /\ views[r][e].code \subseteq head.marks
                                 /\ views[r][e].env = heads[r][e].env
        <5>1. views[r][e].head = heads[r][e].code => views[r][e].head.marks \subseteq head.marks
          BY <1>5
        <5> QED BY <4>1, <5>1 DEF DescriptorOk
      <4>3. \A h \in Halves(r, e) : h \in DOMAIN gens[r] /\ gens[r][h].half /\ gens[r][h].entry = e
        BY DEF Halves
      <4>4. ASSUME NEW g \in Wrote(r, e)
            PROVE  /\ g \in head.marks
                   /\ g \in heads[r][e].env \/ \E h \in DOMAIN gens[r] :
                                                  gens[r][h].half /\ gens[r][h].entry = e
        <5>1. CASE views[r][e].there
          BY <2>1, <4>2, <4>4, <5>1 DEF Kept
        <5>2. CASE ~views[r][e].there
          BY <1>5, <2>1, <4>3, <4>4, <5>2 DEF Kept
        <5> QED BY <5>1, <5>2
      <4> QED BY <1>13, <1>17, <2>1, <2>2, <3>2, <4>4 DEF Kept
    <3> QED BY <3>1, <3>2
  <2>4. Launchable(r, e)'
    <3>1. CASE Failing = {}
      <4>1. e \in Done
        BY <1>12, <3>1
      <4> QED BY <1>13, <1>14, <3>1, <4>1 DEF Launchable, Verified
    <3>2. CASE Failing # {}
      <4>1. published[r].entry[e].code \in Commits(r)
        BY <1>25 DEF Commits
      <4>2. published[r].entry[e].code # head
        BY <1>2, <1>4, <4>1
      <4> QED BY <1>14, <3>2, <4>2 DEF Launchable, Stale
    <3> QED BY <3>1, <3>2
  <2> QED BY <2>3, <2>4
<1>26. RunInv(r)'
  BY <1>17, <1>20, <1>21, <1>22, <1>23, <1>24, <1>25 DEF RunInv
<1> QED BY <1>13, <1>14, <1>15, <1>16, <1>17, <1>18, <1>26, Locally

-----------------------------------------------------------------------------
(* The specification.                                                      *)

\* A Run is published without a generation.
LEMMA ResultsInitInv ==
    ASSUME ResultsInit
    PROVE  ResultsInv
<1>1. story \in StoryType
  BY StoriesAssumption DEF ResultsInit
<1>2. Base \in CommitType /\ Base.id = 0 /\ Base.marks = {}
  BY DEF Base, Commit, CommitType
<1> HIDE DEF Base
<1>3. ResultsTypeInv
  <2>1. [code |-> Base, env |-> {}] \in ResultType
    BY <1>2 DEF ResultType
  <2>2. [there |-> TRUE, head |-> Base, code |-> {}, env |-> {}] \in ViewType
    BY <1>2 DEF ViewType
  <2>3. heads \in [Runs -> [EntrySet -> ResultType]]
    BY <2>1 DEF ResultsInit
  <2>4. published \in [Runs -> PublicationType]
    <3>1. [e \in EntrySet |-> [code |-> Base, env |-> {}]] \in [EntrySet -> ResultType]
      BY <2>1
    <3>2. [head |-> Base, entry |-> [e \in EntrySet |-> [code |-> Base, env |-> {}]]]
            \in PublicationType
      BY <1>2, <3>1 DEF PublicationType
    <3> QED BY <3>2 DEF ResultsInit
  <2>5. views \in [Runs -> [EntrySet -> ViewType]]
    BY <2>2 DEF ResultsInit
  <2>6. delivered \in [Runs -> SUBSET CommitType]
    BY <1>2 DEF ResultsInit
  <2>7. /\ phase \in [Runs -> Phases] /\ gens \in [Runs -> Seq(GenType)] /\ flags \in [Runs -> Nat]
        /\ records \in [Runs -> SUBSET (Evidence \X Nat)]
        /\ writer \in [Runs -> WriterType \cup {Idle}]
        /\ proc \in [Runs -> {"none", "spawned", "registered"}] /\ cancel \in [Runs -> BOOLEAN]
        /\ lease \in Runs \cup {NoRun} /\ baseline \in BOOLEAN
    BY DEF ResultsInit, Phases
  <2> QED BY <1>1, <2>3, <2>4, <2>5, <2>6, <2>7 DEF ResultsTypeInv
<1>4. ASSUME NEW r \in Runs  PROVE RunInv(r)
  <2>1. /\ gens[r] = <<>> /\ writer[r] = Idle /\ proc[r] = "none" /\ flags[r] = 0
        /\ phase[r] = "completed" /\ delivered[r] = {Base}
    BY <1>4 DEF ResultsInit
  <2>2. published[r].head = Base
    BY <1>4 DEF ResultsInit
  <2>3. \A e \in EntrySet :
          /\ heads[r][e].code = Base /\ heads[r][e].env = {}
          /\ published[r].entry[e].code = Base /\ published[r].entry[e].env = {}
          /\ views[r][e].there /\ views[r][e].head = Base
          /\ views[r][e].code = {} /\ views[r][e].env = {}
    BY <1>4 DEF ResultsInit
  <2>4. Status(r) = "none" /\ Generation(r) = 0 /\ DOMAIN gens[r] = {}
    BY <2>1 DEF Status, Generation
  <2>5. Performs(r) /\ Flags(r) /\ Evidenced(r) /\ Rebuilds(r) /\ Seals(r)
    BY <2>1, <2>4 DEF Performs, Flags, Evidenced, Rebuilds, Seals, Idle, Working
  <2>6. Delivered(r) /\ MarksKnown(r)
    BY <1>2, <2>1, <2>2, <2>3 DEF Delivered, MarksKnown
  <2>7. Numbered(r)
    <3>1. \A c \in Commits(r) : c = Base
      BY <2>1, <2>2, <2>3 DEF Commits
    <3>2. \A c \in Commits(r) : c.id <= 0
      BY <1>2, <3>1
    <3> QED BY <3>2 DEF Numbered
  <2>8. ASSUME NEW e \in EntrySet  PROVE Kept(r, e) /\ Launchable(r, e)
    <3>1. Kept(r, e)
      BY <2>4 DEF Kept, Wrote
    <3>2. Launchable(r, e)
      BY <1>2, <2>3 DEF Launchable, Verified
    <3> QED BY <3>1, <3>2
  <2> QED BY <2>5, <2>6, <2>7, <2>8 DEF RunInv
<1> QED BY <1>3, <1>4 DEF ResultsInv

\* Every step keeps the invariant.
LEMMA ResultsNextKeeps ==
    ASSUME ResultsInv, [ResultsNext]_resultVars
    PROVE  ResultsInv'
<1>1. CASE UNCHANGED resultVars
  BY <1>1, ResultsStutter
<1>2. CASE Upgrade
  BY <1>2, UpgradeKeeps
<1>3. CASE recover
  BY <1>3, recoverKeeps
<1>4. ASSUME NEW r \in Runs, NEW e \in EntrySet,
             start_result_entry(r, e) \/ Tamper(r, e) \/ RemoveView(r, e)
      PROVE  ResultsInv'
  BY <1>4, start_result_entryKeeps, TamperKeeps, RemoveViewKeeps
<1>5. ASSUME NEW r \in Runs,
             admit(r) \/ select(r) \/ prepare(r) \/ spawn(r) \/ register(r) \/ track(r)
      PROVE  ResultsInv'
  BY <1>5, StoriesAssumption, admitKeeps, selectKeeps, prepareKeeps, spawnKeeps, registerKeeps,
     trackKeeps
<1>6. ASSUME NEW r \in Runs, ProgramWorks(r) \/ \E ok \in BOOLEAN : Exit(r, ok)
      PROVE  ResultsInv'
  BY <1>6, ProgramWorksKeeps, ExitKeeps
<1>7. ASSUME NEW r \in Runs, \/ \E proved \in BOOLEAN : seal(r, proved)
                             \/ Release(r) \/ finish_result(r) \/ Drop(r)
      PROVE  ResultsInv'
  BY <1>7, sealKeeps, ReleaseKeeps, finish_resultKeeps, DropKeeps
<1>8. ASSUME NEW r \in Runs, \/ cancel_result(r) \/ terminate_owner(r)
                             \/ settle(r) \/ publish(r) \/ set_paused(r) \/ resume_run(r)
      PROVE  ResultsInv'
  BY <1>8, cancel_resultKeeps, terminate_ownerKeeps, PhasesKeep, publishKeeps
<1> QED BY <1>1, <1>2, <1>3, <1>4, <1>5, <1>6, <1>7, <1>8 DEF ResultsNext

\* What ResultsHold says of each state follows from it.
LEMMA InvImpliesSafe ==
    ASSUME ResultsInv
    PROVE  /\ ResultTypeOK /\ CancelWins /\ WorkKept
           /\ LaunchableIsSealed /\ ProcessOwned /\ EvidenceComplete
<1>1. ResultsTypeInv /\ \A r \in Runs : RunInv(r)
  BY DEF ResultsInv
<1>2. ResultTypeOK
  <2>1. ASSUME NEW r \in Runs
        PROVE  phase[r] \in Phases /\ flags[r] \in 0 .. Generation(r)
               /\ proc[r] \in {"none", "spawned", "registered"}
    <3>1. phase[r] \in Phases /\ proc[r] \in {"none", "spawned", "registered"}
          /\ Generation(r) \in Nat
      BY <1>1, RowsTyped
    <3>2. flags[r] \in {0, Generation(r)}
      BY <1>1 DEF RunInv, Flags
    <3> QED BY <3>1, <3>2
  <2>2. lease \in Runs \cup {NoRun}
    BY <1>1 DEF ResultsTypeInv
  <2> QED BY <2>1, <2>2 DEF ResultTypeOK, Phases
<1>3. CancelWins
  BY <1>1 DEF RunInv, Flags, CancelWins
<1>4. WorkKept
  <2> SUFFICES ASSUME NEW r \in Runs, NEW g \in DOMAIN gens[r], NEW e, e = gens[r][g].entry,
                      gens[r][g].wrote, views[r][e].there
               PROVE  g \in views[r][e].code
                      /\ (g \in views[r][e].env \/ \E h \in DOMAIN gens[r] :
                                                    gens[r][h].half /\ gens[r][h].entry = e)
    BY DEF WorkKept
  <2>1. e \in EntrySet
    <3>1. gens[r][g] \in GenType
      BY <1>1, RowsTyped
    <3> QED BY <3>1 DEF GenType
  <2>2. Kept(r, e) /\ g \in Wrote(r, e)
    BY <1>1, <2>1 DEF RunInv, Wrote
  <2> QED BY <2>2 DEF Kept
<1>5. LaunchableIsSealed
  BY <1>1 DEF RunInv, Launchable, Untouched, LaunchableIsSealed
<1>6. ProcessOwned
  <2> SUFFICES ASSUME NEW r \in Runs, proc[r] # "none"
               PROVE  /\ Status(r) = "running" /\ writer[r].pc \in {"track", "tracked", "wait"}
                      /\ story.device => lease = r
    BY DEF ProcessOwned
  <2>1. Performs(r)
    BY <1>1 DEF RunInv
  <2> QED BY <2>1 DEF Performs, Working
<1>7. EvidenceComplete
  BY <1>1 DEF RunInv, Evidenced, Evidence, EvidenceComplete
<1> QED BY <1>2, <1>3, <1>4, <1>5, <1>6, <1>7

\* NothingOverwritten, of one view in one step.
KeepsView(r, e) ==
    (views[r][e].there /\ views'[r][e].there)
        => /\ views[r][e].code \subseteq views'[r][e].code
           /\ \/ views[r][e].env \subseteq views'[r][e].env
              \/ view_is_running(r, e) /\ gens[r][Generation(r)].half

\* A step on the view of one Run.
LEMMA WritesOneView ==
    ASSUME ResultsInv, NEW r \in Runs, NEW e \in EntrySet, NEW w,
           views' = [views EXCEPT ![r][e] = w],
           (views[r][e].there /\ w.there)
               => /\ views[r][e].code \subseteq w.code
                  /\ \/ views[r][e].env \subseteq w.env
                     \/ view_is_running(r, e) /\ gens[r][Generation(r)].half
    PROVE  \A s \in Runs : \A f \in EntrySet : KeepsView(s, f)
<1>1. views \in [Runs -> [EntrySet -> ViewType]]
  BY DEF ResultsInv, ResultsTypeInv
<1>2. views'[r][e] = w /\ \A s \in Runs : \A f \in EntrySet :
         s # r \/ f # e => views'[s][f] = views[s][f]
  BY <1>1
<1> TAKE s \in Runs
<1> TAKE f \in EntrySet
<1>3. CASE s = r /\ f = e
  BY <1>2, <1>3 DEF KeepsView
<1>4. CASE s # r \/ f # e
  BY <1>2, <1>4 DEF KeepsView
<1> QED BY <1>3, <1>4

\* And what it says of each step.
LEMMA NextKeepsViews ==
    ASSUME ResultsInv, [ResultsNext]_resultVars
    PROVE  \A r \in Runs : \A e \in EntrySet : KeepsView(r, e)
<1>1. ResultsTypeInv /\ views \in [Runs -> [EntrySet -> ViewType]]
  BY DEF ResultsInv, ResultsTypeInv
<1>2. CASE UNCHANGED views
  BY <1>2 DEF KeepsView
<1>3. ASSUME NEW r \in Runs, select(r)  PROVE \A s \in Runs : \A f \in EntrySet : KeepsView(s, f)
  <2>1. CASE Cancelled(r)
    BY <1>2, <1>3, <2>1 DEF select
  <2>2. CASE ~Cancelled(r)
    <3>1. PICK e : e = writer[r].entry
      OBVIOUS
    <3>2. writer[r].pc = "select" /\ writer[r].pc \in Working
      BY <1>3 DEF select, AtStep, Working
    <3>3. e \in EntrySet /\ View(r) = views[r][e] /\ View(r) \in ViewType /\ RunInv(r)
      BY <3>1, <3>2, AtWork DEF View
    <3> DEFINE view == IF writer[r].there THEN View(r)
                       ELSE [there |-> TRUE, head |-> writer[r].from.code,
                             code |-> writer[r].from.code.marks, env |-> {}]
               head == IF view.code = view.head.marks THEN view.head
                       ELSE Commit(NextId(r), view.code)
               w == [view EXCEPT !.head = head]
    <3>4. views' = [views EXCEPT ![r][e] = w]
      BY <1>3, <2>2, <3>1 DEF select
    <3>5. writer[r].there <=> views[r][e].there
      BY <3>2, <3>3 DEF RunInv, Rebuilds
    <3>6. views[r][e].there => w.code = views[r][e].code /\ w.env = views[r][e].env
      <4>1. views[r][e].there => view = views[r][e]
        BY <3>3, <3>5
      <4> HIDE DEF view, head
      <4>2. views[r][e].there => view \in ViewType
        BY <3>3, <4>1
      <4> QED BY <4>1, <4>2 DEF ViewType
    <3> HIDE DEF w
    <3> QED BY <3>3, <3>4, <3>6, WritesOneView
  <2> QED BY <2>1, <2>2
<1>4. ASSUME NEW r \in Runs, prepare(r)  PROVE \A s \in Runs : \A f \in EntrySet : KeepsView(s, f)
  <2>1. CASE ~Prepares(r)
    BY <1>2, <1>4, <2>1 DEF prepare
  <2>2. CASE Prepares(r)
    <3>1. PICK e : e = writer[r].entry
      OBVIOUS
    <3>2. writer[r].pc = "prepare" /\ writer[r].pc \in Working
      BY <1>4 DEF prepare, AtStep, Working
    <3>3. e \in EntrySet /\ View(r) = views[r][e] /\ View(r) \in ViewType /\ RunInv(r)
          /\ Status(r) = "running" /\ e = Gen(r).entry
      BY <3>1, <3>2, AtWork DEF View
    <3>4. PICK env : env = (IF writer[r].there THEN View(r).env ELSE writer[r].from.env)
      OBVIOUS
    <3>5. views' = [views EXCEPT ![r][e].env = env]
      BY <1>4, <2>2, <3>1, <3>4 DEF prepare
    <3> DEFINE w == [views[r][e] EXCEPT !.env = env]
    <3>6. views' = [views EXCEPT ![r][e] = w]
      BY <1>1, <3>3, <3>5
    <3>7. w.code = views[r][e].code /\ w.env = env
      BY <3>3 DEF ViewType
    <3>8. writer[r].there \/ (view_is_running(r, e) /\ gens[r][Generation(r)].half)
      BY <3>2, <3>3 DEF RunInv, Rebuilds, view_is_running, Gen
    <3> HIDE DEF w
    <3> QED BY <3>3, <3>4, <3>6, <3>7, <3>8, WritesOneView
  <2> QED BY <2>1, <2>2
<1>5. ASSUME NEW r \in Runs, ProgramWorks(r)  PROVE \A s \in Runs : \A f \in EntrySet :
        KeepsView(s, f)
  <2>1. PICK e : e = writer[r].entry
    OBVIOUS
  <2>2. writer[r].pc \in Working
    BY <1>5 DEF ProgramWorks, ResultsInv, RunInv, Performs, Working
  <2>3. e \in EntrySet /\ views[r][e] \in ViewType
    BY <2>1, <2>2, AtWork DEF View
  <2> DEFINE w == [views[r][e] EXCEPT !.code = @ \cup {Generation(r)},
        !.env = @ \cup {Generation(r)}]
  <2>4. views' = [views EXCEPT ![r][e] = w]
    BY <1>5, <2>1 DEF ProgramWorks, Write
  <2>5. views[r][e].code \subseteq w.code /\ views[r][e].env \subseteq w.env
    BY <2>3 DEF ViewType
  <2> HIDE DEF w
  <2> QED BY <2>3, <2>4, <2>5, WritesOneView
<1>6. ASSUME NEW r \in Runs, NEW proved \in BOOLEAN, seal(r, proved)
      PROVE  \A s \in Runs : \A f \in EntrySet : KeepsView(s, f)
  <2>1. CASE ~(~Cancelled(r) /\ proved /\ baseline)
    BY <1>2, <1>6, <2>1 DEF seal
  <2>2. CASE ~Cancelled(r) /\ proved /\ baseline
    <3>1. PICK e : e = writer[r].entry
      OBVIOUS
    <3>2. writer[r].pc \in Working
      BY <1>6 DEF seal, AtStep, Working
    <3>3. e \in EntrySet /\ View(r) = views[r][e] /\ View(r) \in ViewType
      BY <3>1, <3>2, AtWork DEF View
    <3>4. PICK head : views' = [views EXCEPT ![r][e] = [View(r) EXCEPT !.head = head]]
      BY <1>6, <2>2, <3>1 DEF seal
    <3> DEFINE w == [View(r) EXCEPT !.head = head]
    <3>5. w.code = views[r][e].code /\ w.env = views[r][e].env
      BY <3>3 DEF ViewType
    <3>6. views' = [views EXCEPT ![r][e] = w]
      BY <3>4
    <3> HIDE DEF w
    <3> QED BY <3>3, <3>5, <3>6, WritesOneView
  <2> QED BY <2>1, <2>2
<1>7. ASSUME NEW r \in Runs, NEW e \in EntrySet, Tamper(r, e)
      PROVE  \A s \in Runs : \A f \in EntrySet : KeepsView(s, f)
  <2>1. views[r][e] \in ViewType
    BY <1>1
  <2>2. CASE views' = [views EXCEPT ![r][e].code = @ \cup {0}]
    <3> DEFINE w == [views[r][e] EXCEPT !.code = @ \cup {0}]
    <3>1. views' = [views EXCEPT ![r][e] = w]
      BY <1>1, <2>2
    <3>2. w.code = views[r][e].code \cup {0} /\ w.env = views[r][e].env
      BY <2>1 DEF ViewType
    <3> HIDE DEF w
    <3> QED BY <3>1, <3>2, WritesOneView
  <2>3. CASE views' = [views EXCEPT ![r][e].env = @ \cup {0}]
    <3> DEFINE w == [views[r][e] EXCEPT !.env = @ \cup {0}]
    <3>1. views' = [views EXCEPT ![r][e] = w]
      BY <1>1, <2>3
    <3>2. w.code = views[r][e].code /\ w.env = views[r][e].env \cup {0}
      BY <2>1 DEF ViewType
    <3> HIDE DEF w
    <3> QED BY <3>1, <3>2, WritesOneView
  <2> QED BY <1>7, <2>2, <2>3 DEF Tamper
<1>8. ASSUME NEW r \in Runs, NEW e \in EntrySet, RemoveView(r, e)
      PROVE  \A s \in Runs : \A f \in EntrySet : KeepsView(s, f)
  <2> DEFINE w == [views[r][e] EXCEPT !.there = FALSE]
  <2>1. views' = [views EXCEPT ![r][e] = w]
    BY <1>1, <1>8 DEF RemoveView
  <2>2. ~w.there
    BY <1>1 DEF ViewType
  <2> HIDE DEF w
  <2> QED BY <2>1, <2>2, WritesOneView
<1>9. ASSUME NEW r \in Runs, publish(r)  PROVE \A s \in Runs : \A f \in EntrySet : KeepsView(s, f)
  <2>1. RunInv(r)
    BY DEF ResultsInv
  <2>2. PICK head : /\ descriptor(r, head) /\ published[r].head.marks \subseteq head.marks
                    /\ \A c \in undelivered_heads(r) : c.marks \subseteq head.marks
    BY <1>9 DEF publish, Commit
  <2>3. \A e \in EntrySet : heads[r][e].code.marks \subseteq head.marks
    BY <2>1, <2>2 DEF RunInv, Delivered, undelivered_heads
  <2>4. PICK Failing : Failing = {i \in DOMAIN Entries : ~DescriptorOk(r, Entries[i], head)}
    OBVIOUS
  <2>5. PICK Done : Done = {Entries[i] : i \in {j \in DOMAIN Entries : \A k \in Failing : j < k}}
    OBVIOUS
  <2>6. views' = [views EXCEPT ![r] = [e \in EntrySet |->
                     IF e \in Done
                     THEN [there |-> TRUE, head |-> head, code |-> head.marks,
                       env |-> heads[r][e].env]
                     ELSE views[r][e]]]
    BY <1>1, <2>2, <2>4, <2>5 DEF descriptor
  <2>7. ASSUME NEW i \in DOMAIN Entries, \A k \in Failing : i < k
        PROVE  DescriptorOk(r, Entries[i], head)
    <3>1. i \in Nat
      BY <1>1 DEF ResultsTypeInv, StoryType, Entries
    <3>2. i \notin Failing
      BY <2>7, <3>1
    <3> QED BY <2>4, <3>2
  <2>8. \A e \in Done : DescriptorOk(r, e, head) /\ e \in EntrySet
    BY <2>5, <2>7 DEF EntrySet
  <2>9. ASSUME NEW f \in EntrySet  PROVE KeepsView(r, f)
    <3>1. CASE f \in Done
      <4>1. views'[r][f].code = head.marks /\ views'[r][f].env = heads[r][f].env
        BY <1>1, <2>6, <2>9, <3>1
      <4>2. views[r][f].there => /\ views[r][f].code \subseteq head.marks
                                 /\ views[r][f].env = heads[r][f].env
        <5>1. DescriptorOk(r, f, head)
          BY <2>8, <3>1
        <5>2. views[r][f].head = heads[r][f].code => views[r][f].head.marks \subseteq head.marks
          BY <2>3
        <5> QED BY <5>1, <5>2 DEF DescriptorOk
      <4> QED BY <4>1, <4>2 DEF KeepsView
    <3>2. CASE f \notin Done
      BY <1>1, <2>6, <2>9, <3>2 DEF KeepsView
    <3> QED BY <3>1, <3>2
  <2>10. ASSUME NEW s \in Runs \ {r}, NEW f \in EntrySet  PROVE KeepsView(s, f)
    BY <1>1, <2>6, <2>10 DEF KeepsView
  <2> QED BY <2>9, <2>10
<1>10. CASE Upgrade \/ recover \/ UNCHANGED resultVars
  BY <1>2, <1>10 DEF Upgrade, recover, resultVars
<1>11. ASSUME NEW r \in Runs, \/ admit(r) \/ spawn(r) \/ register(r) \/ track(r)
                              \/ \E ok \in BOOLEAN : Exit(r, ok)
                              \/ Release(r) \/ finish_result(r) \/ Drop(r)
       PROVE  \A s \in Runs : \A f \in EntrySet : KeepsView(s, f)
  BY <1>2, <1>11 DEF admit, spawn, register, track, Exit, Release, finish_result, Drop
<1>12. ASSUME NEW r \in Runs, \/ cancel_result(r) \/ terminate_owner(r)
                              \/ settle(r) \/ set_paused(r) \/ resume_run(r)
                              \/ \E e \in EntrySet : start_result_entry(r, e)
       PROVE  \A s \in Runs : \A f \in EntrySet : KeepsView(s, f)
  BY <1>2, <1>12 DEF cancel_result, terminate_owner, settle, set_paused, resume_run,
                     start_result_entry
<1> QED BY <1>3, <1>4, <1>5, <1>6, <1>7, <1>8, <1>9, <1>10, <1>11, <1>12 DEF ResultsNext

\* For every set of Runs and entries and every story of launches, cancels, failures, edits,
\* removals, pauses, crashes and upgrades: what is cancelled never commits, what a program or the
\* user wrote is not lost, what can be launched is what was sealed, and one process at a time
\* writes (runtime.rs, perform_result; workspace_view.rs, results.rs).
THEOREM ResultsSafety == ResultsInit /\ [][ResultsNext]_resultVars => ResultsHold
<1>1. ResultsInit /\ [][ResultsNext]_resultVars => []ResultsInv
  <2>1. ResultsInit => ResultsInv
    BY ResultsInitInv
  <2>2. ResultsInv /\ [ResultsNext]_resultVars => ResultsInv'
    BY ResultsNextKeeps
  <2> QED BY <2>1, <2>2, PTL
<1>2. ResultsInv => /\ ResultTypeOK /\ CancelWins /\ WorkKept
                    /\ LaunchableIsSealed /\ ProcessOwned /\ EvidenceComplete
  BY InvImpliesSafe
<1>3. ResultsInv /\ [ResultsNext]_resultVars =>
         [\A r \in Runs : \A e \in EntrySet :
            (views[r][e].there /\ views'[r][e].there)
                => /\ views[r][e].code \subseteq views'[r][e].code
                   /\ \/ views[r][e].env \subseteq views'[r][e].env
                      \/ view_is_running(r, e) /\ gens[r][Generation(r)].half]_resultVars
  BY NextKeepsViews DEF KeepsView
<1> QED BY <1>1, <1>2, <1>3, PTL DEF ResultsHold, NothingOverwritten
=============================================================================
