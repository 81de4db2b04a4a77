---------------------------- MODULE Publication -----------------------------
(***************************************************************************)
(* The publication of a Run's results to the project: publish, deliver and *)
(* record_delivery of graph_merge/publication.rs, the composition of       *)
(* graph_merge.rs, and what runtime.rs does around them (a failure is      *)
(* recorded, a crash becomes a failure, the user retries).                 *)
(*                                                                         *)
(* Nothing is written to the project before its state is recorded in a     *)
(* journal and composed with the results in private.  Every write is a     *)
(* step of its own: the process may crash between any two, and the owner   *)
(* of the project edits, uses Git and cleans up other Runs at any time.    *)
(*                                                                         *)
(* The content of a file is the set of the changes made to it; an edit     *)
(* adds one.  Branch, HEAD and index of the project are one number.        *)
(*                                                                         *)
(* An operator X_Fault, defined before X, is a faulty variant of X.        *)
(***************************************************************************)
EXTENDS Naturals, Sequences

CONSTANTS
    Files,       \* paths of the project
    Heads,       \* results to publish
    Change,      \* per result and file, the changes it makes
    None, Foreign,
    Scenarios,   \* the environment: when the owner changes the project ("always", or
                 \* only "before" a delivery sets out for its lease), and how many
                 \* edits, Git commands, crashes, prunings and foreign locks there are
    MaxAttempts  \* bound: attempts in the journal

ASSUME ChangeAssumption == Change \in [Heads -> [Files -> SUBSET ({"head"} \X Nat)]]
ASSUME ScenarioAssumption ==
    Scenarios \subseteq [until : {"before", "always"}, edits : Nat, gits : Nat, crashes : Nat,
                         gcs : Nat, foreign : Nat]

\* The changes there are, and the contents the project's files can have.
EditTags == {<<"edit", n>> : n \in UNION {1 .. s.edits : s \in Scenarios}}
HeadTags == UNION {Change[h][f] : h \in Heads, f \in Files}
Tags == EditTags \cup HeadTags
Trees == [Files -> SUBSET Tags]

\* None and Foreign are nothing else.
ASSUME NoneAssumption ==
    /\ MaxAttempts \in Nat \ {0} /\ None # Foreign
    /\ {None, Foreign} \cap Nat = {} /\ None \notin Trees
    /\ None \notin ({"head"} \X Heads) \cup ({"input"} \X Nat)

VARIABLES
    source,   \* per file of the project, the changes it holds
    git,      \* the project's branch, HEAD and index
    lock,     \* index.lock: None, Foreign, or the attempt that wrote it
    journal,  \* the attempts and what is recorded of each
    ws,       \* the private workspace of the composition
    refs,     \* private database: the results that exist, the pins, what is published
    pub,      \* the publishing thread
    phase,    \* of the Run
    env       \* what the environment may still do

vars == <<source, git, lock, journal, ws, refs, pub, phase, env>>

Empty == [f \in Files |-> {}]
Fresh == [evidence |-> FALSE, git |-> 0, input |-> None, result |-> None,
          applying |-> FALSE, installed |-> FALSE]
Idle == [pc |-> "idle", a |-> 0, git |-> 0, live |-> Empty, todo |-> {}]

Init ==
    /\ source = Empty /\ git = 0 /\ lock = None
    /\ journal = <<Fresh>>
    /\ ws = [made |-> FALSE, tree |-> Empty, merged |-> {}, pending |-> None]
    /\ refs = [db |-> {}, pins |-> {}, published |-> None]
    /\ pub = [Idle EXCEPT !.pc = "select"] /\ phase = "publishing"
    /\ env \in Scenarios

\* A merge keeps the changes of both sides; it conflicts where each side
\* changed a file the other way.
Join(s, t) == [f \in Files |-> s[f] \cup t[f]]
Conflict(s, t) == \E f \in Files : ~(s[f] \subseteq t[f]) /\ ~(t[f] \subseteq s[f])

Attempt == journal[pub.a]
Latest == Len(journal)
At(pc) == pub.pc = pc
Goto(pc) == pub' = [pub EXCEPT !.pc = pc]

\* An error ends the publication; the lease is released if it is ours.
Own == IF lock = pub.a THEN None ELSE lock
Fail(unlock) ==
    /\ pub' = Idle /\ phase' = "publication_failed"
    /\ lock' = IF unlock THEN Own ELSE lock
    /\ UNCHANGED <<source, git, journal, ws, refs, env>>

----------------------------------------------------------------------------
(* select_attempt: an attempt whose checkout began is finished; one whose  *)
(* evidence is incomplete, or whose input the project has left, is         *)
(* superseded.                                                             *)
Stale(j) ==
    IF j.input = None THEN j.evidence
    ELSE ~j.installed /\ ~j.applying /\ (git # j.git \/ source # j.input)

Select_Rebaselines ==
    /\ At("select")
    /\ LET j == journal[Latest]
           stale == IF j.input = None THEN j.evidence
                    ELSE ~j.installed /\ (git # j.git \/ source # j.input)
           k == IF stale THEN Latest + 1 ELSE Latest
       IN /\ k <= MaxAttempts
          /\ journal' = IF stale THEN Append(journal, Fresh) ELSE journal
          /\ pub' = [pub EXCEPT !.a = k, !.pc =
                IF stale \/ j.input = None THEN "capture"
                ELSE IF j.result = None THEN "compose" ELSE "deliver"]
    /\ UNCHANGED <<source, git, lock, ws, refs, phase, env>>

Select ==
    /\ At("select")
    /\ LET j == journal[Latest]
           k == IF Stale(j) THEN Latest + 1 ELSE Latest
       IN /\ k <= MaxAttempts
          /\ journal' = IF Stale(j) THEN Append(journal, Fresh) ELSE journal
          /\ pub' = [pub EXCEPT !.a = k, !.pc =
                IF Stale(j) \/ j.input = None THEN "capture"
                ELSE IF j.result = None THEN "compose" ELSE "deliver"]
    /\ UNCHANGED <<source, git, lock, ws, refs, phase, env>>

\* The project's Git state, then its files, then its Git state again.
CaptureGit ==
    /\ At("capture")
    /\ pub' = [pub EXCEPT !.git = git, !.pc = "snapshot"]
    /\ UNCHANGED <<source, git, lock, journal, ws, refs, phase, env>>

CaptureFiles ==
    /\ At("snapshot")
    /\ pub' = [pub EXCEPT !.live = source, !.pc = "recheck"]
    /\ UNCHANGED <<source, git, lock, journal, ws, refs, phase, env>>

SaveEvidence ==
    /\ At("recheck") /\ git = pub.git
    /\ journal' = [journal EXCEPT ![pub.a].evidence = TRUE, ![pub.a].git = pub.git]
    /\ Goto("input")
    /\ UNCHANGED <<source, git, lock, ws, refs, phase, env>>

CaptureFails == At("recheck") /\ git # pub.git /\ Fail(FALSE)

SaveInput ==
    /\ At("input")
    /\ journal' = [journal EXCEPT ![pub.a].input = pub.live]
    /\ Goto("compose")
    /\ UNCHANGED <<source, git, lock, ws, refs, phase, env>>

----------------------------------------------------------------------------
(* Composition.  Its operands are the results and the inputs of this and   *)
(* of the earlier attempts.                                                *)
Inputs == {k \in 1 .. Latest : journal[k].input # None}
Operands == ({"head"} \X Heads) \cup ({"input"} \X Inputs)
TreeOf(x) == IF x[1] = "head" THEN Change[x[2]] ELSE journal[x[2]].input

\* On trees alone, when nothing conflicts and no workspace was made; the
\* database's lock covers the merge and the pin of its result.
ComposeVirtual_Unpinned ==
    /\ At("compose") /\ ~ws.made
    /\ \A x, y \in Operands : ~Conflict(TreeOf(x), TreeOf(y))
    /\ LET result == [f \in Files |-> UNION {TreeOf(x)[f] : x \in Operands}]
       IN /\ refs' = [refs EXCEPT !.db = @ \cup {result}]
          /\ pub' = [pub EXCEPT !.live = result, !.pc = "prepared"]
    /\ UNCHANGED <<source, git, lock, journal, ws, phase, env>>

ComposeVirtual ==
    /\ At("compose") /\ ~ws.made
    /\ \A x, y \in Operands : ~Conflict(TreeOf(x), TreeOf(y))
    /\ LET result == [f \in Files |-> UNION {TreeOf(x)[f] : x \in Operands}]
       IN /\ refs' = [refs EXCEPT !.db = @ \cup {result}, !.pins = @ \cup {result}]
          /\ pub' = [pub EXCEPT !.live = result, !.pc = "prepared"]
    /\ UNCHANGED <<source, git, lock, journal, ws, phase, env>>

\* Otherwise in a workspace: a conflict needs one, and so may the project's
\* other state.
Materialize ==
    /\ At("compose") /\ ~ws.made
    /\ ws' = [made |-> TRUE, tree |-> Attempt.input, merged |-> {<<"input", pub.a>>}, pending |-> None]
    /\ UNCHANGED <<source, git, lock, journal, refs, pub, phase, env>>

Merge(x) ==
    /\ At("compose") /\ ws.made /\ ws.pending = None /\ x \notin ws.merged
    /\ IF Conflict(ws.tree, TreeOf(x))
       THEN ws' = [ws EXCEPT !.pending = x]
       ELSE ws' = [ws EXCEPT !.tree = Join(@, TreeOf(x)), !.merged = @ \cup {x}]
    /\ UNCHANGED <<source, git, lock, journal, refs, pub, phase, env>>

\* The Merger, which keeps the valid changes of both sides, then finish_merge.
Resolve ==
    /\ At("compose") /\ ws.pending # None
    /\ ws' = [ws EXCEPT !.tree = Join(@, TreeOf(ws.pending)),
                        !.merged = @ \cup {ws.pending}, !.pending = None]
    /\ UNCHANGED <<source, git, lock, journal, refs, pub, phase, env>>

ResolveFails == At("compose") /\ ws.pending # None /\ Fail(FALSE)

\* The result is fetched into the private database, pinned.
Import ==
    /\ At("compose") /\ ws.made /\ ws.pending = None /\ Operands \subseteq ws.merged
    /\ refs' = [refs EXCEPT !.db = @ \cup {ws.tree}, !.pins = @ \cup {ws.tree}]
    /\ pub' = [pub EXCEPT !.live = ws.tree, !.pc = "prepared"]
    /\ UNCHANGED <<source, git, lock, journal, ws, phase, env>>

SavePrepared ==
    /\ At("prepared")
    /\ journal' = [journal EXCEPT ![pub.a].result = pub.live]
    /\ Goto("deliver")
    /\ UNCHANGED <<source, git, lock, ws, refs, phase, env>>

----------------------------------------------------------------------------
(* deliver                                                                 *)

\* valid_partial_checkout: every file is as it was or as it will be.
Partial(live) == \A f \in Files : live[f] \in {Attempt.input[f], Attempt.result[f]}

Verify ==
    /\ At("deliver")
    /\ IF Attempt.installed
       THEN lock' = Own /\ Goto("record") /\ UNCHANGED phase
       ELSE IF git = Attempt.git
               /\ (source = Attempt.input \/ (Attempt.applying /\ Partial(source)))
       THEN pub' = [pub EXCEPT !.live = source, !.pc = "lease"] /\ UNCHANGED <<lock, phase>>
       ELSE pub' = Idle /\ phase' = "publication_failed" /\ UNCHANGED lock
    /\ UNCHANGED <<source, git, journal, ws, refs, env>>

\* A lease of the same attempt is left from before a crash.
Lease ==
    /\ At("lease") /\ lock \in {None, pub.a}
    /\ lock' = pub.a /\ Goto("refresh")
    /\ UNCHANGED <<source, git, journal, ws, refs, phase, env>>

LeaseFails == At("lease") /\ lock \notin {None, pub.a} /\ Fail(FALSE)

Written == pub.live # Attempt.result

Refresh ==
    /\ At("refresh") /\ git = Attempt.git
    /\ Written => source = pub.live
    /\ Goto(IF Written THEN "apply" ELSE "confirm")
    /\ UNCHANGED <<source, git, lock, journal, ws, refs, phase, env>>

RefreshFails ==
    At("refresh") /\ (git # Attempt.git \/ (Written /\ source # pub.live)) /\ Fail(TRUE)

SaveApplying ==
    /\ At("apply")
    /\ journal' = [journal EXCEPT ![pub.a].applying = TRUE]
    /\ Goto("checkout")
    /\ UNCHANGED <<source, git, lock, ws, refs, phase, env>>

\* read-tree -m -u refuses files that are not as its index says, and then
\* writes them one by one.
Touched == {f \in Files : pub.live[f] # Attempt.result[f]}

Checkout_Forced ==
    /\ At("checkout")
    /\ pub' = [pub EXCEPT !.todo = Touched, !.pc = "writing"]
    /\ UNCHANGED <<source, git, lock, journal, ws, refs, phase, env>>

Checkout ==
    /\ At("checkout") /\ \A f \in Touched : source[f] = pub.live[f]
    /\ pub' = [pub EXCEPT !.todo = Touched, !.pc = "writing"]
    /\ UNCHANGED <<source, git, lock, journal, ws, refs, phase, env>>

CheckoutFails == At("checkout") /\ (\E f \in Touched : source[f] # pub.live[f]) /\ Fail(TRUE)

Write(f) ==
    /\ At("writing") /\ f \in pub.todo
    /\ source' = [source EXCEPT ![f] = Attempt.result[f]]
    /\ pub' = [pub EXCEPT !.todo = @ \ {f}, !.pc = IF pub.todo = {f} THEN "confirm" ELSE @]
    /\ UNCHANGED <<git, lock, journal, ws, refs, phase, env>>

Confirm ==
    /\ At("confirm") /\ git = Attempt.git
    /\ Written => source = Attempt.result
    /\ Goto("install")
    /\ UNCHANGED <<source, git, lock, journal, ws, refs, phase, env>>

ConfirmFails ==
    At("confirm") /\ (git # Attempt.git \/ (Written /\ source # Attempt.result)) /\ Fail(TRUE)

Install ==
    /\ At("install")
    /\ journal' = [journal EXCEPT ![pub.a].installed = TRUE]
    /\ Goto("record")
    /\ UNCHANGED <<source, git, lock, ws, refs, phase, env>>

\* record_delivery: the published references first, then the pin.
Record ==
    /\ At("record")
    /\ refs' = [refs EXCEPT !.published = Attempt.result]
    /\ Goto("unpin")
    /\ UNCHANGED <<source, git, lock, journal, ws, phase, env>>

Unpin ==
    /\ At("unpin")
    /\ refs' = [refs EXCEPT !.pins = @ \ {Attempt.result}]
    /\ Goto("unlock")
    /\ UNCHANGED <<source, git, lock, journal, ws, phase, env>>

Unlock ==
    /\ At("unlock")
    /\ lock' = Own /\ pub' = Idle /\ phase' = "completed"
    /\ UNCHANGED <<source, git, journal, ws, refs, env>>

----------------------------------------------------------------------------
(* The process, its restart and the user's retry.                          *)
Crash ==
    /\ env.crashes > 0 /\ pub.pc # "idle"
    /\ pub' = Idle /\ env' = [env EXCEPT !.crashes = @ - 1]
    /\ UNCHANGED <<source, git, lock, journal, ws, refs, phase>>

\* recover_publication
Recover ==
    /\ pub.pc = "idle" /\ phase = "publishing"
    /\ phase' = "publication_failed"
    /\ UNCHANGED <<source, git, lock, journal, ws, refs, pub, env>>

Retry ==
    /\ pub.pc = "idle" /\ phase = "publication_failed"
    /\ phase' = "publishing" /\ pub' = [Idle EXCEPT !.pc = "select"]
    /\ UNCHANGED <<source, git, lock, journal, ws, refs, env>>

----------------------------------------------------------------------------
(* The owner of the project, and other Runs.                               *)
Begun == \E k \in 1 .. Latest : journal[k].applying
MayChange == env.until = "before" => ~Begun /\ lock \in {None, Foreign} /\ pub.pc # "lease"

\* A program that saves a file respects no Git lock.  Only the instant
\* between Git's own check of the files and its writes is left out.
Edit(f) ==
    /\ env.edits > 0 /\ MayChange /\ pub.pc # "writing"
    /\ source' = [source EXCEPT ![f] = @ \cup {<<"edit", env.edits>>}]
    /\ env' = [env EXCEPT !.edits = @ - 1]
    /\ UNCHANGED <<git, lock, journal, ws, refs, pub, phase>>

UserGit ==
    /\ env.gits > 0 /\ MayChange
    /\ git' = git + 1 /\ env' = [env EXCEPT !.gits = @ - 1]
    /\ UNCHANGED <<source, lock, journal, ws, refs, pub, phase>>

ForeignLock ==
    /\ env.foreign > 0 /\ lock = None
    /\ lock' = Foreign /\ env' = [env EXCEPT !.foreign = @ - 1]
    /\ UNCHANGED <<source, git, journal, ws, refs, pub, phase>>

ForeignUnlock ==
    /\ lock = Foreign /\ lock' = None
    /\ UNCHANGED <<source, git, journal, ws, refs, pub, phase, env>>

\* Another Run is deleted, and what no reference keeps is pruned.
Prune ==
    /\ env.gcs > 0
    /\ refs' = [refs EXCEPT !.db = @ \cap (refs.pins \cup {refs.published})]
    /\ env' = [env EXCEPT !.gcs = @ - 1]
    /\ UNCHANGED <<source, git, lock, journal, ws, pub, phase>>

----------------------------------------------------------------------------
Publish ==
    \/ Select \/ CaptureGit \/ CaptureFiles \/ SaveEvidence \/ CaptureFails \/ SaveInput
    \/ ComposeVirtual \/ Materialize \/ Resolve \/ ResolveFails \/ Import \/ SavePrepared
    \/ \E x \in Operands : Merge(x)
    \/ Verify \/ Lease \/ LeaseFails \/ Refresh \/ RefreshFails \/ SaveApplying
    \/ Checkout \/ CheckoutFails \/ Confirm \/ ConfirmFails
    \/ Install \/ Record \/ Unpin \/ Unlock
    \/ \E f \in Files : Write(f)

World == \/ \E f \in Files : Edit(f)
         \/ UserGit \/ ForeignLock \/ ForeignUnlock \/ Prune

Next == Publish \/ Crash \/ Recover \/ Retry \/ World

Spec == Init /\ [][Next]_vars

(* The thread runs, a restart recovers, the user retries, other programs   *)
(* release their locks, and a Merger that is asked again and again         *)
(* succeeds at last.                                                       *)
Fairness == /\ WF_vars(Publish) /\ WF_vars(Recover) /\ WF_vars(Retry)
            /\ WF_vars(ForeignUnlock) /\ SF_vars(Resolve)

FairSpec == Spec /\ Fairness

----------------------------------------------------------------------------
(* Properties.                                                             *)
Journals == [evidence : BOOLEAN, git : Nat, input : Trees \cup {None},
             result : Trees \cup {None}, applying : BOOLEAN, installed : BOOLEAN]
Workspaces == [made : BOOLEAN, tree : Trees,
               merged : SUBSET (({"head"} \X Heads) \cup ({"input"} \X (1 .. MaxAttempts))),
               pending : ({"head"} \X Heads) \cup ({"input"} \X (1 .. MaxAttempts)) \cup {None}]
Threads == [pc : {"idle", "select", "capture", "snapshot", "recheck", "input", "compose",
                  "prepared", "deliver", "lease", "refresh", "apply", "checkout", "writing",
                  "confirm", "install", "record", "unpin", "unlock"},
            a : Nat, git : Nat, live : Trees, todo : SUBSET Files]

\* Every variable holds a value the code can give it.
TypeOK ==
    /\ source \in Trees /\ git \in Nat
    /\ lock \in (1 .. Latest) \cup {None, Foreign}
    /\ journal \in Seq(Journals) /\ Latest \in 1 .. MaxAttempts
    /\ ws \in Workspaces
    /\ ws.merged \subseteq Operands /\ (ws.pending # None => ws.pending \in Operands \ ws.merged)
    /\ refs \in [db : SUBSET Trees, pins : SUBSET Trees, published : Trees \cup {None}]
    /\ pub \in Threads /\ pub.a \in 0 .. Latest
    /\ phase \in {"publishing", "publication_failed", "completed"}
    /\ env \in [until : {"before", "always"}, edits : Nat, gits : Nat, crashes : Nat,
                gcs : Nat, foreign : Nat]
    /\ env.edits > 0 => <<"edit", env.edits>> \in EditTags

Given == [f \in Files |-> UNION {Change[h][f] : h \in Heads}]

D == INSTANCE Delivery WITH Edits <- EditTags, Given <- Given, source <- source,
                            done <- \E k \in 1 .. Latest : journal[k].installed

\* Publication implements Delivery: whatever crashes, retries and edits come
\* in between, the project's files only gain changes, no edit of the owner is
\* lost, nothing is written after the result is installed, and it is
\* installed only when every file has the Run's changes.
ImplementsDelivery == D!Spec

\* The result of an attempt that is not recorded as delivered survives the
\* pruning that another Run's deletion does (publication.rs 162).
ResultKept ==
    /\ \A k \in 1 .. Latest : (journal[k].result # None /\ ~journal[k].installed)
                                 => journal[k].result \in refs.db
    /\ refs.published # None => refs.published \in refs.db

\* A checkout that began is finished by the attempt that began it, not
\* captured again as if the owner had made its changes.
FinishesOriginal ==
    [][Begun => Len(journal') = Len(journal) /\ \A k \in 1 .. Latest : journal'[k].input = journal[k].input]_vars

\* A publication that is retried is delivered at last, when its owner leaves
\* the project alone once a delivery set out for its lease.
Delivers == env.until = "before" ~> phase = "completed"

\* A publication keeps its shape and its result until it is delivered.
PublicationSafe == TypeOK /\ ResultKept

\* A checkout that began is finished as it began, and a retried publication
\* is delivered at last.
Concludes == FinishesOriginal /\ Delivers
============================================================================
