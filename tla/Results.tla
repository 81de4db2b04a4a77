------------------------------- MODULE Results -------------------------------
(***************************************************************************)
(* Managed result executions: after a Run with a managed environment has   *)
(* been published, each of its business entries can be launched in the     *)
(* entry's own workspace.  One execution is a generation: it is reserved   *)
(* under the Run mutex (Runtime::start_result_entry), performed by a       *)
(* writer outside the mutex (runtime::perform_result), can be cancelled at *)
(* any moment (process_control::cancel_result), and is committed under the *)
(* mutex (Runtime::finish_result), after which the driver publishes the    *)
(* changed code again and rebuilds the launch descriptor.                  *)
(*                                                                         *)
(* Data.  File content is a set of marks: a generation that writes leaves  *)
(* its number in the code and the environment of its view, the user leaves *)
(* 0.  A commit is [id, marks]; two commits of equal content differ, as    *)
(* two Git commits do.  An environment reference is its content, because   *)
(* capture_scoped returns the parent reference for unchanged content.      *)
(***************************************************************************)
EXTENDS Naturals, Sequences, FiniteSetsExt

CONSTANTS Runs,       \* the Runs of one host
          Stories     \* what a behaviour may contain: a set of records
                      \* [entries, device, launches, can]: the business entries
                      \* in order, whether the policy names a CUDA device, a
                      \* bound on the launches of each Run, and the events
                      \* (each at most once; "fail" any number of times)

Events == {"cancel", "fail", "edit", "remove", "crash", "pause", "upgrade"}
StoryType == [entries : Seq(STRING), device : BOOLEAN, launches : [Runs -> Nat],
              can : SUBSET Events]
NoRun == "no run"

ASSUME StoriesAssumption == Stories \subseteq StoryType /\ NoRun \notin Runs

VARIABLES story,      \* the part of the story that may still happen
          phase,      \* phase[r]: RunState.phase
          heads,      \* heads[r][e]: the terminal node's result [code, env]
          delivered,  \* delivered[r]: published_heads
          published,  \* published[r]: published_head and published_result
          gens,       \* gens[r]: the result executions so far; the last one is
                      \* RunState.result_execution
          flags,      \* flags[r]: the entry of the RESULTS table, 0 if absent
          views,      \* views[r][e]: the entry's workspace on disk
          records,    \* records[r]: the evidence files <<phase, generation>>
          writer,     \* writer[r]: the thread performing the execution
          proc,       \* proc[r]: its native process
          cancel,     \* cancel[r]: a cancel request between flag and kill
          lease,      \* the Run holding the CUDA device lease, or NoRun
          baseline    \* the host still has the frozen native baseline

resultVars == <<story, phase, heads, delivered, published, gens, flags, views,
                records, writer, proc, cancel, lease, baseline>>

Idle == [pc |-> "idle"]
Entries == story.entries
EntrySet == {Entries[i] : i \in DOMAIN Entries}
Commit(n, marks) == [id |-> n, marks |-> marks]
Base == Commit(0, {})

(* RunState.result_execution: status of the last generation.               *)
Status(r) == IF gens[r] = <<>> THEN "none" ELSE gens[r][Len(gens[r])].status
Generation(r) == Len(gens[r])
Retry(r) == Status(r) = "failed"

(* Runtime::active, for a Run whose nodes have all completed.              *)
active(r) == phase[r] \in {"publishing", "launching_result"} \/ Status(r) = "running"

(* Runtime::path_is_running, for the workspace of an entry.                *)
view_is_running(r, e) == Status(r) = "running" /\ gens[r][Generation(r)].entry = e

(* A new commit is none of those anything still refers to.                 *)
Commits(r) == delivered[r] \cup {published[r].head}
              \cup UNION {{views[r][e].head, heads[r][e].code, published[r].entry[e].code}
                          : e \in EntrySet}
NextId(r) == 1 + Max({c.id : c \in Commits(r)})

(***************************************************************************)
(* The first publication has happened: every entry's view is checked out   *)
(* at the published head and its descriptor is current.                    *)
(***************************************************************************)
ResultsInit ==
    /\ story \in Stories
    /\ phase = [r \in Runs |-> "completed"]
    /\ heads = [r \in Runs |-> [e \in EntrySet |-> [code |-> Base, env |-> {}]]]
    /\ delivered = [r \in Runs |-> {Base}]
    /\ published = [r \in Runs |->
                      [head |-> Base, entry |-> [e \in EntrySet |-> [code |-> Base, env |-> {}]]]]
    /\ gens = [r \in Runs |-> <<>>]
    /\ flags = [r \in Runs |-> 0]
    /\ views = [r \in Runs |-> [e \in EntrySet |->
                  [there |-> TRUE, head |-> Base, code |-> {}, env |-> {}]]]
    /\ records = [r \in Runs |-> {}]
    /\ writer = [r \in Runs |-> Idle]
    /\ proc = [r \in Runs |-> "none"]
    /\ cancel = [r \in Runs |-> FALSE]
    /\ lease = NoRun
    /\ baseline = TRUE

(***************************************************************************)
(* Reservation, under the Run mutex.                                       *)
(***************************************************************************)
(* A published descriptor is stale when its code is not the published head.*)
Stale(r, e) == published[r].entry[e].code # published[r].head

(* Runtime::start_result_entry with ResultDescriptor::for_entry; the table *)
(* is claimed (ResultControl::begin) before ResultExecutionStarted.        *)
start_result_entry(r, e) ==
    /\ ~active(r)
    /\ phase[r] = "completed" \/ (phase[r] = "needs_attention" /\ Retry(r))
    /\ ~Stale(r, e)
    /\ Retry(r) => gens[r][Generation(r)].entry = e
    /\ flags[r] = 0
    /\ writer[r] = Idle
    /\ Generation(r) < story.launches[r]
    /\ flags' = [flags EXCEPT ![r] = Generation(r) + 1]
    /\ gens' = [gens EXCEPT ![r] =
                  Append(@, [entry |-> e, status |-> "running", cancelled |-> FALSE,
                             wrote |-> FALSE, half |-> FALSE])]
    /\ phase' = [phase EXCEPT ![r] = "launching_result"]
    /\ writer' = [writer EXCEPT ![r] =
                    [pc |-> "admit", entry |-> e, retry |-> Retry(r),
                     from |-> published[r].entry[e], there |-> TRUE,
                     result |-> published[r].entry[e]]]
    /\ UNCHANGED <<story, heads, delivered, published, views, records, proc, cancel,
                   lease, baseline>>

(***************************************************************************)
(* runtime::perform_result, outside the mutex.  Every error ends in        *)
(* finish_result with Err; `check` is ResultControl::check.                *)
(***************************************************************************)
Cancelled(r) == gens[r][Generation(r)].cancelled
AtStep(r, pc) == writer[r].pc = pc
Goto(r, pc) == writer' = [writer EXCEPT ![r].pc = pc]
View(r) == views[r][writer[r].entry]

(* The CUDA lease: file locks, taken without waiting, in id order.         *)
Busy(r) == story.device /\ lease # NoRun

(* The view is the published one: verify_result_scoped, HEAD, a clean      *)
(* status and Environments::verify_view.                                   *)
Verified(view, result) ==
    /\ view.head = result.code
    /\ view.code = result.code.marks
    /\ view.env = result.env

(* Admission: the lease, the frozen baseline, a view that is either the    *)
(* published one or the partial one of the failed execution.               *)
Admitted(r) ==
    /\ ~Cancelled(r)
    /\ ~Busy(r)
    /\ baseline
    /\ writer[r].retry => View(r).there
    /\ (View(r).there /\ ~writer[r].retry) => Verified(View(r), writer[r].from)

admit(r) ==
    /\ AtStep(r, "admit")
    /\ IF Admitted(r)
       THEN writer' = [writer EXCEPT ![r].pc = "select", ![r].there = View(r).there]
       ELSE Goto(r, "failed")
    /\ lease' = IF story.device /\ ~Cancelled(r) /\ lease = NoRun THEN r ELSE lease
    /\ UNCHANGED <<story, phase, heads, delivered, published, gens, flags, views, records,
                   proc, cancel, baseline>>

(* record_selected, then the missing view is checked out again and what    *)
(* is in the view is committed (snapshot_node_scoped: HEAD when clean).    *)
select(r) ==
    /\ AtStep(r, "select")
    /\ IF Cancelled(r)
       THEN Goto(r, "failed") /\ UNCHANGED <<gens, views, records>>
       ELSE LET from == writer[r].from
                view == IF writer[r].there THEN View(r)
                        ELSE [there |-> TRUE, head |-> from.code, code |-> from.code.marks,
                              env |-> {}]
                head == IF view.code = view.head.marks THEN view.head
                        ELSE Commit(NextId(r), view.code)
            IN  /\ records' = [records EXCEPT ![r] = @ \cup {<<"selected", Generation(r)>>}]
                /\ views' = [views EXCEPT ![r][writer[r].entry] = [view EXCEPT !.head = head]]
                /\ writer' = [writer EXCEPT ![r].pc = "prepare", ![r].result.code = head]
                /\ gens' = [gens EXCEPT ![r][Generation(r)].half = ~writer[r].there]
    /\ UNCHANGED <<story, phase, heads, delivered, published, flags, proc, cancel,
                   lease, baseline>>

(* Environments::prepare: verify a kept view, materialize a rebuilt one,   *)
(* keep the partial one; the captured input is the `before` evidence.      *)
Prepares(r) ==
    /\ baseline
    /\ (writer[r].there /\ ~writer[r].retry) => View(r).env = writer[r].from.env

prepare(r) ==
    /\ AtStep(r, "prepare")
    /\ IF Prepares(r)
       THEN LET env == IF writer[r].there THEN View(r).env ELSE writer[r].from.env
            IN  /\ views' = [views EXCEPT ![r][writer[r].entry].env = env]
                /\ records' = [records EXCEPT ![r] = @ \cup {<<"before", Generation(r)>>}]
                /\ writer' = [writer EXCEPT ![r].pc = "prepared", ![r].result.env = env]
                /\ gens' = [gens EXCEPT ![r][Generation(r)].half = FALSE]
       ELSE Goto(r, "failed") /\ UNCHANGED <<gens, views, records>>
    /\ UNCHANGED <<story, phase, heads, delivered, published, flags, proc, cancel,
                   lease, baseline>>

(* on_prepared (ResultExecutionPrepared changes no field kept here), then  *)
(* controlled_output_with_limits starts the process.                       *)
spawn(r) ==
    /\ AtStep(r, "prepared")
    /\ IF Cancelled(r)
       THEN Goto(r, "failed") /\ UNCHANGED proc
       ELSE Goto(r, "track") /\ proc' = [proc EXCEPT ![r] = "spawned"]
    /\ UNCHANGED <<story, phase, heads, delivered, published, gens, flags, views, records,
                   cancel, lease, baseline>>

(* process_control::track: register first, then look at the flag.          *)
register(r) ==
    /\ AtStep(r, "track")
    /\ proc' = [proc EXCEPT ![r] = IF @ = "spawned" THEN "registered" ELSE @]
    /\ Goto(r, "tracked")
    /\ UNCHANGED <<story, phase, heads, delivered, published, gens, flags, views, records,
                   cancel, lease, baseline>>

track_Unchecked(r) ==
    /\ AtStep(r, "tracked")
    /\ Goto(r, "wait")
    /\ UNCHANGED <<story, phase, heads, delivered, published, gens, flags, views, records,
                   proc, cancel, lease, baseline>>

track(r) ==
    /\ AtStep(r, "tracked")
    /\ IF flags[r] # 0 /\ gens[r][flags[r]].cancelled
       THEN Goto(r, "failed") /\ proc' = [proc EXCEPT ![r] = "none"]
       ELSE Goto(r, "wait") /\ UNCHANGED proc
    /\ UNCHANGED <<story, phase, heads, delivered, published, gens, flags, views, records,
                   cancel, lease, baseline>>

(* The program writes into its view, and may also end by itself or only by *)
(* being killed.                                                           *)
Write(r, e, g) ==
    /\ views[r][e].there
    /\ views' = [views EXCEPT ![r][e] = [views[r][e] EXCEPT !.code = @ \cup {g},
                                                           !.env = @ \cup {g}]]
    /\ gens' = [gens EXCEPT ![r][g].wrote = TRUE]

ProgramWorks(r) ==
    /\ proc[r] \in {"spawned", "registered"}
    /\ ~gens[r][Generation(r)].wrote
    /\ Write(r, writer[r].entry, Generation(r))
    /\ UNCHANGED <<story, phase, heads, delivered, published, flags, records, writer, proc,
                   cancel, lease, baseline>>

(* The wait loop of controlled_output_with_limits: the process ended, with *)
(* success or without, or it was killed, or its time or output limit was   *)
(* exceeded.                                                               *)
Exit(r, ok) ==
    /\ AtStep(r, "wait")
    /\ ok => proc[r] = "registered"
    /\ ~ok => proc[r] = "none" \/ "fail" \in story.can
    /\ Goto(r, IF ok THEN "exited" ELSE "failed")
    /\ proc' = [proc EXCEPT ![r] = "none"]
    /\ UNCHANGED <<story, phase, heads, delivered, published, gens, flags, views, records,
                   cancel, lease, baseline>>

(* prove_accelerator: a policy with a device needs a computation proof.    *)
prove_accelerator(proved) == proved \/ story.device

(* Environments::seal: the baseline must be the frozen one still.          *)
Sealed(view) == [code |-> view.head, env |-> view.env]

(* discover, prove_accelerator and snapshot_node_scoped, then the seal and *)
(* its `after` evidence.                                                   *)
seal(r, proved) ==
    /\ AtStep(r, "exited")
    /\ prove_accelerator(proved)
    /\ IF ~Cancelled(r) /\ proved /\ baseline
       THEN LET head == IF View(r).code = View(r).head.marks THEN View(r).head
                        ELSE Commit(NextId(r), View(r).code)
                view == [View(r) EXCEPT !.head = head]
            IN  /\ views' = [views EXCEPT ![r][writer[r].entry] = view]
                /\ records' = [records EXCEPT ![r] = @ \cup {<<"after", Generation(r)>>}]
                /\ writer' = [writer EXCEPT ![r].pc = "sealed", ![r].result = Sealed(view)]
       ELSE Goto(r, "failed") /\ UNCHANGED <<views, records>>
    /\ UNCHANGED <<story, phase, heads, delivered, published, gens, flags, proc, cancel,
                   lease, baseline>>

(* The lease is dropped when perform_result returns, before the result is  *)
(* committed.                                                              *)
Release(r) ==
    /\ writer[r].pc \in {"sealed", "failed"}
    /\ lease = r
    /\ lease' = NoRun
    /\ UNCHANGED <<story, phase, heads, delivered, published, gens, flags, views, records,
                   writer, proc, cancel, baseline>>

(* ResultExecutionFailed: the Run asks for attention and stops scheduling. *)
ResultExecutionFailed(r) ==
    /\ gens' = [gens EXCEPT ![r][Generation(r)].status = "failed"]
    /\ phase' = [phase EXCEPT ![r] = "needs_attention"]
    /\ UNCHANGED <<heads, published>>

(* ResultExecutionFinished: the node of that workspace now has this result *)
(* and the Run runs again so that the driver publishes it.                 *)
ResultExecutionFinished(r) ==
    LET e == writer[r].entry IN
    /\ gens' = [gens EXCEPT ![r][Generation(r)].status = "completed"]
    /\ heads' = [heads EXCEPT ![r][e] = writer[r].result]
    /\ published' = [published EXCEPT ![r].entry[e] = writer[r].result]
    /\ phase' = [phase EXCEPT ![r] = "running"]

finish_result_Unchecked(r) ==
    /\ writer[r].pc \in {"sealed", "failed"}
    /\ lease # r
    /\ IF Status(r) # "running"
       THEN UNCHANGED <<gens, heads, published, phase, flags>>
       ELSE IF AtStep(r, "sealed")
            THEN ResultExecutionFinished(r) /\ flags' = [flags EXCEPT ![r] = 0]
            ELSE ResultExecutionFailed(r) /\ UNCHANGED flags
    /\ Goto(r, "drop")
    /\ UNCHANGED <<story, delivered, views, records, proc, cancel, lease, baseline>>

(* Runtime::finish_result: only the running generation may commit, and     *)
(* ResultControl::finish checks the flag and commits under the table lock, *)
(* so no cancel is accepted between the check and the commit.              *)
finish_result(r) ==
    /\ writer[r].pc \in {"sealed", "failed"}
    /\ lease # r
    /\ IF Status(r) # "running"
       THEN UNCHANGED <<gens, heads, published, phase, flags>>
       ELSE IF AtStep(r, "sealed") /\ ~Cancelled(r)
            THEN ResultExecutionFinished(r) /\ flags' = [flags EXCEPT ![r] = 0]
            ELSE ResultExecutionFailed(r) /\ UNCHANGED flags
    /\ Goto(r, "drop")
    /\ UNCHANGED <<story, delivered, views, records, proc, cancel, lease, baseline>>

(* Drop for ResultControl: removes only its own flag.                      *)
Drop(r) ==
    /\ AtStep(r, "drop")
    /\ flags' = [flags EXCEPT ![r] = IF @ = Generation(r) THEN 0 ELSE @]
    /\ writer' = [writer EXCEPT ![r] = Idle]
    /\ UNCHANGED <<story, phase, heads, delivered, published, gens, views, records, proc,
                   cancel, lease, baseline>>

(***************************************************************************)
(* process_control::cancel_result: the flag, under the table lock and      *)
(* without the Run mutex; then every registered process of the Run.        *)
(***************************************************************************)
cancel_result(r) ==
    /\ "cancel" \in story.can
    /\ flags[r] # 0 /\ ~cancel[r]
    /\ story' = [story EXCEPT !.can = @ \ {"cancel"}]
    /\ gens' = [gens EXCEPT ![r][flags[r]].cancelled = TRUE]
    /\ cancel' = [cancel EXCEPT ![r] = TRUE]
    /\ UNCHANGED <<phase, heads, delivered, published, flags, views, records, writer, proc,
                   lease, baseline>>

terminate_owner(r) ==
    /\ cancel[r]
    /\ cancel' = [cancel EXCEPT ![r] = FALSE]
    /\ proc' = [proc EXCEPT ![r] = IF @ = "registered" THEN "none" ELSE @]
    /\ UNCHANGED <<story, phase, heads, delivered, published, gens, flags, views, records,
                   writer, lease, baseline>>

(***************************************************************************)
(* The driver: settle or publish, then rebuild the descriptor.             *)
(***************************************************************************)
(* Runtime::jobs_with_pending_feedback with nothing left to run: terminal  *)
(* heads that no publication delivered yet are published, else Settled.    *)
undelivered_heads(r) == {heads[r][e].code : e \in EntrySet} \ delivered[r]

settle(r) ==
    /\ phase[r] = "running"
    /\ ~active(r)
    /\ phase' = [phase EXCEPT ![r] =
                   IF undelivered_heads(r) = {} THEN "completed" ELSE "publishing"]
    /\ UNCHANGED <<story, heads, delivered, published, gens, flags, views, records, writer,
                   proc, cancel, lease, baseline>>

(* PublicationJob::descriptor, one entry: a present view must be the       *)
(* entry's own sealed one, or already hold the publication head.           *)
DescriptorOk(r, e, head) ==
    LET view == views[r][e]
        expected == IF view.head = heads[r][e].code THEN view.head ELSE head
    IN  /\ baseline
        /\ ~view_is_running(r, e)
        /\ view.there => /\ view.code = expected.marks
                         /\ view.env = heads[r][e].env

(* The entries are handled in order and the first failure ends the loop:   *)
(* the entries before it are checked out at the new head all the same.     *)
descriptor(r, head) ==
    LET Failing == {i \in DOMAIN Entries : ~DescriptorOk(r, Entries[i], head)}
        Done == {Entries[i] : i \in {j \in DOMAIN Entries : \A k \in Failing : j < k}}
    IN  /\ views' = [views EXCEPT ![r] = [e \in EntrySet |->
                        IF e \in Done
                        THEN [there |-> TRUE, head |-> head, code |-> head.marks,
                              env |-> heads[r][e].env]
                        ELSE @[e]]]
        /\ published' = [published EXCEPT ![r] =
                           [head |-> head,
                            entry |-> IF Failing # {} THEN @.entry
                                      ELSE [e \in EntrySet |->
                                              [code |-> head, env |-> heads[r][e].env]]]]

(* drive: the merge of the undelivered heads into the source is a new      *)
(* commit; then the descriptor, ResultPublished and PublicationCompleted.  *)
publish(r) ==
    LET head == Commit(NextId(r), published[r].head.marks
                                  \cup UNION {h.marks : h \in undelivered_heads(r)})
    IN  /\ phase[r] = "publishing"
        /\ descriptor(r, head)
        /\ delivered' = [delivered EXCEPT ![r] = @ \cup undelivered_heads(r)]
        /\ phase' = [phase EXCEPT ![r] = "completed"]
        /\ UNCHANGED <<story, heads, gens, flags, records, writer, proc, cancel, lease,
                       baseline>>

(* Runtime::set_paused: a Run whose result execution runs can be paused    *)
(* and continued too; only the phase changes.                              *)
set_paused(r) ==
    /\ "pause" \in story.can
    /\ phase[r] # "publishing"
    /\ story' = [story EXCEPT !.can = @ \ {"pause"}]
    /\ phase' = [phase EXCEPT ![r] = "paused"]
    /\ UNCHANGED <<heads, delivered, published, gens, flags, views, records, writer, proc,
                   cancel, lease, baseline>>

resume_run(r) ==
    /\ phase[r] \in {"paused", "needs_attention"}
    /\ phase' = [phase EXCEPT ![r] = "running"]
    /\ UNCHANGED <<story, heads, delivered, published, gens, flags, views, records, writer,
                   proc, cancel, lease, baseline>>

(***************************************************************************)
(* The world: the user, or a process that outlived the backend, changes a  *)
(* view outside its writer lease; the user removes an idle one; the host   *)
(* changes; the backend stops.                                             *)
(***************************************************************************)
Tamper(r, e) ==
    /\ "edit" \in story.can /\ views[r][e].there
    /\ story' = [story EXCEPT !.can = @ \ {"edit"}]
    /\ \/ views' = [views EXCEPT ![r][e].code = @ \cup {0}]
       \/ views' = [views EXCEPT ![r][e].env = @ \cup {0}]
    /\ UNCHANGED <<phase, heads, delivered, published, gens, flags, records, writer, proc,
                   cancel, lease, baseline>>

RemoveView(r, e) ==
    /\ "remove" \in story.can /\ views[r][e].there
    /\ ~view_is_running(r, e)
    /\ story' = [story EXCEPT !.can = @ \ {"remove"}]
    /\ views' = [views EXCEPT ![r][e].there = FALSE]
    /\ gens' = [gens EXCEPT ![r] = [g \in DOMAIN gens[r] |->
                  LET gen == gens[r][g] IN
                  [gen EXCEPT !.wrote = @ /\ (gen.entry = e => g \in heads[r][e].code.marks)]]]
    /\ UNCHANGED <<phase, heads, delivered, published, flags, records, writer, proc,
                   cancel, lease, baseline>>

Upgrade ==
    /\ "upgrade" \in story.can
    /\ story' = [story EXCEPT !.can = @ \ {"upgrade"}]
    /\ baseline' = FALSE
    /\ UNCHANGED <<phase, heads, delivered, published, gens, flags, views, records, writer,
                   proc, cancel, lease>>

(* Runtime::recover after the backend stopped: file locks and tables are   *)
(* gone, a running execution is recorded as failed.  A publication is      *)
(* resumed by the driver (module Publication).                             *)
recover ==
    /\ "crash" \in story.can
    /\ story' = [story EXCEPT !.can = @ \ {"crash"}]
    /\ gens' = [r \in Runs |-> IF Status(r) = "running"
                               THEN [gens[r] EXCEPT ![Generation(r)].status = "failed"]
                               ELSE gens[r]]
    /\ phase' = [r \in Runs |-> IF Status(r) = "running" THEN "needs_attention" ELSE phase[r]]
    /\ flags' = [r \in Runs |-> 0]
    /\ writer' = [r \in Runs |-> Idle]
    /\ proc' = [r \in Runs |-> "none"]
    /\ cancel' = [r \in Runs |-> FALSE]
    /\ lease' = NoRun
    /\ UNCHANGED <<heads, delivered, published, views, records, baseline>>

WriterStep(r) ==
    \/ admit(r) \/ select(r) \/ prepare(r) \/ spawn(r) \/ register(r) \/ track(r)
    \/ Exit(r, FALSE) /\ proc[r] = "none"
    \/ \E proved \in BOOLEAN : seal(r, proved)
    \/ Release(r) \/ finish_result(r) \/ Drop(r)

ResultsNext ==
    \/ \E r \in Runs :
         \/ \E e \in EntrySet : start_result_entry(r, e) \/ Tamper(r, e) \/ RemoveView(r, e)
         \/ admit(r) \/ select(r) \/ prepare(r) \/ spawn(r) \/ register(r) \/ track(r)
         \/ ProgramWorks(r)
         \/ \E ok \in BOOLEAN : Exit(r, ok)
         \/ \E proved \in BOOLEAN : seal(r, proved)
         \/ Release(r) \/ finish_result(r) \/ Drop(r)
         \/ cancel_result(r) \/ terminate_owner(r)
         \/ settle(r) \/ publish(r) \/ set_paused(r) \/ resume_run(r)
    \/ Upgrade
    \/ recover

(***************************************************************************)
(* Properties.                                                             *)
(***************************************************************************)
ResultTypeOK ==
    /\ lease \in Runs \cup {NoRun}
    /\ \A r \in Runs :
         /\ phase[r] \in {"running", "publishing", "completed", "needs_attention",
                          "launching_result", "paused"}
         /\ flags[r] \in 0..Generation(r)
         /\ proc[r] \in {"none", "spawned", "registered"}

(* A generation whose cancellation was accepted is never the one that      *)
(* completes, wherever in preparation, spawn or commit the cancel fell.    *)
CancelWins == \A r \in Runs : \A g \in DOMAIN gens[r] :
    ~(gens[r][g].cancelled /\ gens[r][g].status = "completed")

(* What a program wrote into an entry's workspace, completed or not, is    *)
(* still there after retries, cancels, crashes and republications.  Only a *)
(* rebuild that failed between the checkout and the environment leaves a   *)
(* view whose environment a retry keeps as it is (`half`).                 *)
WorkKept == \A r \in Runs : \A g \in DOMAIN gens[r] :
    LET view == views[r][gens[r][g].entry] IN
    (gens[r][g].wrote /\ view.there)
        => /\ g \in view.code
           /\ g \in view.env \/ \E h \in DOMAIN gens[r] :
                                  gens[r][h].half /\ gens[r][h].entry = gens[r][g].entry

(* A published entry that can be launched without a retry and that nobody  *)
(* touched is exactly the sealed workspace on disk, so that a launch is    *)
(* not refused for changes Grapher made itself.                            *)
LaunchableIsSealed == \A r \in Runs : \A e \in EntrySet :
    (phase[r] = "completed" /\ Status(r) \in {"none", "completed"} /\ ~Stale(r, e)
     /\ views[r][e].there /\ 0 \notin views[r][e].code \cup views[r][e].env)
        => Verified(views[r][e], published[r].entry[e])

(* A running native process belongs to the one running generation of its   *)
(* Run and, with a device, to the Run that holds the lease.                *)
ProcessOwned == \A r \in Runs : proc[r] # "none" =>
    /\ Status(r) = "running"
    /\ writer[r].pc \in {"track", "tracked", "wait"}
    /\ story.device => lease = r

(* A completed generation left all three pieces of evidence.               *)
EvidenceComplete == \A r \in Runs : \A g \in DOMAIN gens[r] :
    gens[r][g].status = "completed" => {"selected", "before", "after"} \X {g} \subseteq records[r]

(* Neither a launch nor a republication overwrites what a view holds, the  *)
(* user's own changes included: a changed view is refused, not reset.      *)
(* Only a launch that builds a removed view again overwrites what was      *)
(* changed in its environment after the checkout: until the environment is *)
(* materialized nothing tells that change from the rebuild (`half`).       *)
NothingOverwritten == [][\A r \in Runs : \A e \in EntrySet :
    (views[r][e].there /\ views'[r][e].there)
        => /\ views[r][e].code \subseteq views'[r][e].code
           /\ \/ views[r][e].env \subseteq views'[r][e].env
              \/ view_is_running(r, e) /\ gens[r][Generation(r)].half
    ]_resultVars

(* A managed result: cancelled means never committed, no work of a program *)
(* or of the user is lost, what can be launched is what was sealed, and    *)
(* one process at a time writes.                                           *)
ResultsHold ==
    /\ [](/\ ResultTypeOK /\ CancelWins /\ WorkKept
         /\ LaunchableIsSealed /\ ProcessOwned /\ EvidenceComplete)
    /\ NothingOverwritten

(* An accepted cancel ends the execution, even when the native program     *)
(* would run for ever.                                                     *)
CancelEnds == \A r \in Runs :
    (Status(r) = "running" /\ gens[r][Generation(r)].cancelled) ~> (Status(r) # "running")
=============================================================================
