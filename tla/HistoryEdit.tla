----------------------------- MODULE HistoryEdit -----------------------------
(***************************************************************************)
(* Edits of earlier user turns: Runtime::edit_node_message_at and          *)
(* server::edit_planner, on top of session_branch.rs, which branches the   *)
(* JSONL conversation file of the engine (Pi) before the selected turn.    *)
(*                                                                         *)
(* A conversation file is a tree kept as a sequence: every entry names its *)
(* parent, and the last entry is the leaf from which Pi continues.  An     *)
(* edit appends a marker whose parent is the parent of the selected turn;  *)
(* the abandoned branch stays in the file.  The edit holds the Run mutex   *)
(* all along, but the engine it stops writes the same file: the selected   *)
(* turn is looked up, the writer is stopped, the marker is written, the    *)
(* event is saved, and the next attempt reads the file again.              *)
(*                                                                         *)
(* Against this the module keeps what the user means: the turns told so    *)
(* far, each with the turns before it, and view, the turns the             *)
(* conversation is supposed to hold.  The code never reads them.           *)
(*                                                                         *)
(* Data.  A text is a sequence of words, so that texts sent together are   *)
(* joined; a row of the execution log stands at its position instead of    *)
(* its byte offset; 0 is an absent offset, entry or attempt.               *)
(***************************************************************************)
EXTENDS Naturals, SequencesExt

CONSTANTS Task,        \* the word that is the node's first task
          Episodes     \* what a behaviour may contain: a set of records
                       \* [role, words, stamps, starts, steers, msgs, edits,
                       \* can]: "node" or "planner"; what the user may
                       \* write; whether rows carry the "exact" time, the
                       \* "same" time within an attempt, or "none"; bounds
                       \* on attempts, steers, messages and edits; and the
                       \* events "startup", "fail", "tear", "emit",
                       \* "crash", "move", "publish", "restart", "version",
                       \* "model", each at most once

VARIABLES episode,     \* the part of the episode that may still happen
          files,       \* files[s]: the file of conversation s
          attempts,    \* RunState.executions of the node, in order of start
          superseded,  \* superseded_execution_ids
          target,      \* the NodeState, and the task or the Planner's goal
          events,      \* the saved events that an edit reads
          pi,          \* the engine: its attempt, its leaf, and its state
          edit,        \* the edit that holds the Run mutex
          models,      \* the conversation's model selection
          isPublished, \* the Run has been published
          turns,       \* every user turn told: [text, before, cause, attempt]
          view,        \* the turns the conversation is meant to hold
          owed,        \* a replacement accepted and not yet told, else <<>>
          overtaken    \* an edit met one of the cases its property leaves out

meant == <<turns, view, owed, overtaken>>
historyVars == <<episode, files, attempts, superseded, target, events, pi, edit, models,
                 isPublished, meant>>

None == "none"
NoConversation == [made |-> FALSE, entries |-> <<>>, cwd |-> 0, torn |-> FALSE]
NoPi == [attempt |-> 0, leaf |-> 0, state |-> "gone", inbox |-> 0]
Source == 99
NoEdit == [step |-> "idle"]
Can(what) == what \in episode.can
Spent(what) == [episode EXCEPT !.can = @ \ {what}]
LatestOf(S) == IF S = {} THEN 0 ELSE Max(S)
Clock == Len(turns) + Len(attempts) + Len(events)

(***************************************************************************)
(* Reading a conversation file.                                            *)
(***************************************************************************)
(* The entries from the leaf up to the root.                               *)
Chain(entries, leaf) ==
    LET up[k \in 0..Len(entries)] ==
            IF k = 0 THEN {} ELSE {k} \cup up[entries[k].parent]
    IN  up[leaf]
Active(entries) == Chain(entries, Len(entries))
UserTurns(entries, S) ==
    LET users == SelectSeq([k \in 1..Len(entries) |-> k], LAMBDA k : k \in S /\ entries[k].user)
    IN  [i \in DOMAIN users |-> entries[users[i]].turn]

(* session_file, open_session: one file, ending in a complete entry, of    *)
(* this conversation and bound to this directory.                          *)
open_session(file, cwd) == file.made /\ ~file.torn /\ file.cwd = cwd

(* output_user_turns: the rows of a log that are this user turn.           *)
output_user_turns(rows, text) == {i \in DOMAIN rows : rows[i].user /\ rows[i].text = text}
unique_output_user_turn(rows, text) ==
    LET found == output_user_turns(rows, text)
    IN  IF Cardinality(found) = 1 THEN Max(found) ELSE 0

(* output_user_turn: how a row is recognised in the file.                  *)
NoSelector == [offset |-> 0, nth |-> 0, of |-> 0, time |-> 0]
output_user_turn(rows, offset, text) ==
    LET found == output_user_turns(rows, text)
    IN  [offset |-> offset, nth |-> Cardinality({i \in found : i <= offset}),
         of |-> Cardinality(found), time |-> rows[offset].time]
NthOf(S, n) == CHOOSE k \in S : Cardinality({j \in S : j <= k}) = n

(* prepare_user_branch: the turn to branch before, 0 when it cannot be     *)
(* told.  With a selector only the active branch is searched: by time when *)
(* that is unique, else by position when file and log agree on how many    *)
(* there are.  Without one the whole tree is, and a single active match    *)
(* wins.                                                                   *)
selected_turn(entries, text, from, to, sel) ==
    LET matches == {k \in DOMAIN entries : /\ entries[k].user
                                           /\ entries[k].text = text
                                           /\ entries[k].time \in from..to}
        active == matches \cap Active(entries)
        by_time == {k \in active : sel.time > 0 /\ entries[k].time = sel.time}
        chosen == IF Cardinality(by_time) = 1 THEN Max(by_time)
                  ELSE IF Cardinality(active) = sel.of THEN NthOf(active, sel.nth)
                  ELSE 0
    IN  IF sel # NoSelector
        THEN IF chosen # 0 /\ sel.time > 0 /\ entries[chosen].time # sel.time THEN 0 ELSE chosen
        ELSE IF Cardinality(matches) = 1 THEN Max(matches)
        ELSE IF Cardinality(active) = 1 THEN Max(active)
        ELSE 0

prepare_user_branch(s, text, from, to, sel) ==
    LET entries == files[s].entries
        k == selected_turn(entries, text, from, to, sel)
        opening == {j \in Active(entries) : entries[j].user /\ entries[j].time \in from..to}
    IN  [selected |-> k,
         parent |-> IF k = 0 THEN 0 ELSE entries[k].parent,
         first_user_turn |-> k # 0 /\ UserTurns(entries, Chain(entries, entries[k].parent)) = <<>>,
         first_in_execution |-> opening # {} /\ k = Min(opening),
         require_active |-> sel # NoSelector]

(* UserBranch::commit: reads the file again and appends the marker.        *)
still_active(entries, branch) ==
    branch.require_active => branch.selected \in Active(entries)
marker_AfterTurn(branch) ==
    [parent |-> branch.selected, user |-> FALSE, text |-> <<>>, time |-> 0, turn |-> 0]
marker(branch) == [parent |-> branch.parent, user |-> FALSE, text |-> <<>>, time |-> 0, turn |-> 0]
committed(s, branch) == [files EXCEPT ![s].entries = Append(@, marker(branch))]
(* PreparedBranch::rollback: the file is cut to its old length.            *)
rollback(s, len) == [files EXCEPT ![s].entries = SubSeq(@, 1, len)]

(***************************************************************************)
(* The attempts of the node.                                               *)
(***************************************************************************)
Running == {a \in DOMAIN attempts : attempts[a].status = "running"}
Current == DOMAIN attempts \ superseded
OfSession(s) == {a \in DOMAIN attempts : attempts[a].session = s}
first_of(a) == Min(OfSession(attempts[a].session))
LatestFailed == LatestOf(Current) # 0 /\ attempts[LatestOf(Current)].status = "failed"
completed_history == \E a \in Current : attempts[a].status = "completed"
missing(a) == ~files[attempts[a].session].made
no_unfinished(a) ==
    \A b \in OfSession(attempts[a].session) :
        (\E c \in OfSession(attempts[a].session) : c > b /\ attempts[c].status = "completed")
        \/ attempts[b].status = "completed" \/ ~attempts[b].spoke
no_activity(a) ==
    no_unfinished(a)
    /\ \A b \in OfSession(attempts[a].session) : attempts[b].status # "completed"
Queued == FlattenSeq(target.queue)

(* The attempt an execution resumes.                                       *)
resumed(continuation) ==
    IF continuation THEN LatestOf({a \in Current : attempts[a].status = "failed"})
    ELSE IF target.human
    THEN LatestOf({a \in DOMAIN attempts \ Running : target.edit # 0 => a = target.edit})
    ELSE 0

(* What the new attempt is told, and how it stands to the resumed one.     *)
Plan ==
    LET asked == target.continuation /\ target.queue = <<>>
        r == resumed(asked)
        origin == IF asked /\ target.direct /\ r # 0 /\ missing(r) /\ no_activity(r)
                  THEN LatestOf({a \in Current : attempts[a].status = "completed" /\ ~missing(a)})
                  ELSE 0
        unstarted == /\ asked /\ target.human /\ target.instruction # <<>> /\ r # 0
                     /\ ~missing(r) /\ attempts[r].early
                     /\ no_unfinished(r) /\ completed_history
        no_session == r # 0 /\ missing(r) /\ no_activity(r) /\ ~completed_history
        before_session == target.human /\ no_session /\ attempts[r].status = "failed"
        unspoken == \A a \in DOMAIN attempts : ~attempts[a].spoke /\ attempts[a].status # "completed"
        initial == \/ before_session
                   \/ asked /\ no_session /\ attempts[r].end = "failed"
                   \/ /\ asked /\ ~target.human /\ unspoken
                      /\ r # 0 /\ missing(r) /\ attempts[r].end = "stopped"
        continuation == asked /\ ~initial /\ origin = 0 /\ ~unstarted
        followup == IF target.queue = <<>> THEN target.instruction
                    ELSE IF target.instruction # <<>> /\ target.instruction \notin ToSet(target.queue)
                    THEN target.instruction \o Queued
                    ELSE Queued
        edited_opening == target.edit # 0 /\ first_of(target.edit) = target.edit
    IN  [resume |-> r, initial |-> initial, origin |-> origin,
         prompt |-> IF origin # 0 \/ unstarted THEN target.instruction
                    ELSE IF before_session
                    THEN IF followup = <<>> THEN target.task
                         ELSE IF edited_opening THEN followup ELSE target.task \o followup
                    ELSE IF target.queue # <<>>
                    THEN IF r = 0 THEN target.task \o Queued ELSE followup
                    ELSE IF continuation THEN <<>>
                    ELSE IF target.instruction = <<>> THEN target.task
                    ELSE target.instruction]

(* The model of an attempt: the node's own, else the conversation's for a  *)
(* first attempt, else the one the Run was created with.                   *)
chosen_model == IF target.model # None THEN target.model
                ELSE IF attempts = <<>> THEN models.chosen
                ELSE models.original

(* Runtime::jobs: the next attempt of a waiting node.  In another          *)
(* directory (the old one is taken, or the Run is published and the        *)
(* follow-up works in the source) the conversation is forked.              *)
Start ==
    /\ episode.role = "node" /\ edit = NoEdit /\ Running = {} /\ episode.starts > 0
    /\ target.status \in {"waiting", "dirty"}
    /\ \E moved \in IF Can("move") /\ ~target.direct THEN BOOLEAN ELSE {FALSE} :
        LET p == Plan
            r == p.resume
            s == Len(files) + 1
            cwd == IF target.direct THEN Source ELSE IF r = 0 \/ moved THEN s ELSE attempts[r].cwd
            fork == IF p.origin # 0 THEN p.origin
                    ELSE IF r # 0 /\ ~p.initial /\ cwd # attempts[r].cwd THEN r ELSE 0
            anew == r = 0
        IN  /\ moved => r # 0
            /\ target.human => r # 0
            /\ episode' = [IF moved THEN Spent("move") ELSE episode EXCEPT !.starts = @ - 1]
            /\ files' = IF fork # 0 \/ anew THEN Append(files, NoConversation) ELSE files
            /\ attempts' = Append(attempts,
                 [session |-> IF fork # 0 \/ anew THEN s ELSE attempts[r].session,
                  fork |-> fork, cwd |-> cwd, fresh |-> anew, initial |-> p.initial,
                  prompt |-> p.prompt, rows |-> <<>>, status |-> "running", end |-> None,
                  from |-> Clock + 1, to |-> 0, spoke |-> FALSE, early |-> TRUE,
                  model |-> chosen_model, want |-> target.want])
            /\ superseded' = IF anew THEN DOMAIN attempts ELSE superseded
            /\ events' = Append(events, [kind |-> "started", attempt |-> Len(attempts) + 1])
            /\ target' = [target EXCEPT !.status = "running", !.edit = 0, !.continuation = FALSE,
                                    !.queue = <<>>, !.want = None, !.direct = FALSE]
            /\ view' = IF anew THEN <<>> ELSE view
    /\ pi' = [NoPi EXCEPT !.attempt = Len(attempts) + 1, !.state = "preparing"]
    /\ UNCHANGED <<edit, models, isPublished, turns, owed, overtaken>>

(* A settled attempt; a superseded one leaves the node alone.              *)
settled(a, status) ==
    [attempts EXCEPT ![a].status = status, ![a].to = Clock + 1,
                     ![a].end = IF @ = None THEN status ELSE @]
NodeAfter(a, status) == IF a \in superseded THEN target ELSE [target EXCEPT !.status = status]

(* The attempt dies before its Prepared event.                             *)
StartupFails ==
    /\ Can("startup") /\ edit = NoEdit /\ pi.state = "preparing"
    /\ episode' = Spent("startup")
    /\ attempts' = settled(pi.attempt, "failed")
    /\ target' = NodeAfter(pi.attempt, "failed")
    /\ pi' = NoPi
    /\ UNCHANGED <<files, superseded, events, edit, models, isPublished, meant>>

(* A user turn reaches the engine: an entry in the file, a row in the log. *)
StampOf(a) == IF episode.stamps = "same" THEN attempts[a].from ELSE Clock + 1
Said(fs, s, leaf, text, a) ==
    [fs EXCEPT ![s].entries =
        Append(@, [parent |-> leaf, user |-> TRUE, text |-> text, time |-> StampOf(a),
                   turn |-> Len(turns) + 1])]
Row(a, text) == [user |-> TRUE, text |-> text, turn |-> Len(turns) + 1,
                 time |-> IF episode.stamps = "none" THEN 0 ELSE StampOf(a)]
Told(text, a, cause) ==
    /\ turns' = Append(turns, [text |-> text, before |-> view, attempt |-> a, cause |-> cause])
    /\ view' = Append(view, Len(turns) + 1)

(* The event that asked for the prompt of an attempt: the human message or *)
(* edit that no earlier attempt has taken, else its own start.             *)
StartedAt(a) == CHOOSE i \in DOMAIN events : events[i].kind = "started" /\ events[i].attempt = a
Opening(a) ==
    LET human == {i \in 1..StartedAt(a) : events[i].kind \in {"message", "edited"}}
    IN  IF human = {} THEN StartedAt(a) ELSE Max(human)

(* validate_session: a resumed conversation must be there, whole and bound *)
(* to the directory it was last used in; a new one need not.               *)
resumable(x) ==
    IF x.fork # 0
    THEN open_session(files[attempts[x.fork].session], attempts[x.fork].cwd)
    ELSE x.fresh \/ x.initial \/ open_session(files[x.session], x.cwd)

(* perform_with_merger and execute: the conversation is forked or          *)
(* validated, and Pi opens it and takes the prompt.                        *)
Launch ==
    /\ edit = NoEdit /\ pi.state = "preparing"
    /\ LET a == pi.attempt
           x == attempts[a]
           old == files[IF x.fork # 0 THEN attempts[x.fork].session ELSE x.session].entries
           opened == [files EXCEPT ![x.session] =
                         [made |-> TRUE, entries |-> old, cwd |-> x.cwd, torn |-> FALSE]]
       IN  IF ~resumable(x)
           THEN /\ attempts' = [settled(a, "failed") EXCEPT ![a].early = x.fork = 0]
                /\ target' = NodeAfter(a, "failed")
                /\ pi' = NoPi
                /\ UNCHANGED <<files, turns, view, owed>>
           ELSE IF x.prompt = <<>>
           THEN /\ files' = opened
                /\ attempts' = [attempts EXCEPT ![a].early = FALSE, ![a].spoke = TRUE]
                /\ pi' = [pi EXCEPT !.state = "live", !.leaf = Len(old)]
                /\ UNCHANGED <<target, turns, view, owed>>
           ELSE /\ files' = Said(opened, x.session, Len(old), x.prompt, a)
                /\ attempts' = [attempts EXCEPT ![a].early = FALSE, ![a].spoke = TRUE,
                                                ![a].rows = Append(@, Row(a, x.prompt))]
                /\ pi' = [pi EXCEPT !.state = "live", !.leaf = Len(old) + 1]
                /\ Told(x.prompt, a, Opening(a))
                /\ owed' = IF ToSet(owed) \subseteq ToSet(x.prompt) THEN <<>> ELSE owed
                /\ UNCHANGED target
    /\ UNCHANGED <<episode, superseded, events, edit, models, isPublished, overtaken>>

(***************************************************************************)
(* The engine and its worker.  The engine writes its file whether or not   *)
(* an edit holds the Run mutex; its log and its outcome wait for the       *)
(* mutex.                                                                  *)
(***************************************************************************)
Speaking == pi.state \in {"live", "answered"}
OwnFile == attempts[pi.attempt].session

PiReplies ==
    /\ pi.state = "live"
    /\ files' = [files EXCEPT ![OwnFile].entries =
                    Append(@, [parent |-> pi.leaf, user |-> FALSE, text |-> <<>>, time |-> 0, turn |-> 0])]
    /\ pi' = [pi EXCEPT !.state = "answered", !.leaf = Len(files[OwnFile].entries) + 1]
    /\ UNCHANGED <<episode, attempts, superseded, target, events, edit, models, isPublished, meant>>

(* A message to the running node is a steer; Pi takes it up later.         *)
Steer ==
    /\ Speaking /\ edit = NoEdit /\ pi.inbox = 0 /\ episode.steers > 0
    /\ \E w \in episode.words :
        events' = Append(events, [kind |-> "steered", attempt |-> pi.attempt, text |-> <<w>>])
    /\ episode' = [episode EXCEPT !.steers = @ - 1]
    /\ pi' = [pi EXCEPT !.inbox = Len(events) + 1]
    /\ UNCHANGED <<files, attempts, superseded, target, edit, models, isPublished, meant>>

PiTakes ==
    /\ Speaking /\ pi.inbox # 0
    /\ LET text == events[pi.inbox].text IN
        /\ files' = Said(files, OwnFile, pi.leaf, text, pi.attempt)
        /\ attempts' = IF edit # NoEdit THEN attempts
                       ELSE [attempts EXCEPT ![pi.attempt].rows = Append(@, Row(pi.attempt, text))]
        /\ Told(text, pi.attempt, pi.inbox)
    /\ pi' = [pi EXCEPT !.state = "live", !.inbox = 0, !.leaf = Len(files[OwnFile].entries) + 1]
    /\ UNCHANGED <<episode, superseded, target, events, edit, models, isPublished, owed, overtaken>>

PiEnds ==
    /\ \/ /\ pi.state = "answered" /\ pi.inbox = 0
          /\ pi' = [pi EXCEPT !.state = "done"] /\ UNCHANGED episode
       \/ Speaking /\ Can("fail") /\ pi' = [pi EXCEPT !.state = "failed"] /\ episode' = Spent("fail")
    /\ UNCHANGED <<files, attempts, superseded, target, events, edit, models, isPublished, meant>>

(* EventKind::Finished and EventKind::Failed.                              *)
Settle ==
    /\ pi.state \in {"done", "failed", "killed"} /\ edit = NoEdit
    /\ LET status == IF pi.state = "done" THEN "completed" ELSE "failed" IN
        /\ attempts' = settled(pi.attempt, status)
        /\ target' = NodeAfter(pi.attempt, status)
    /\ pi' = NoPi
    /\ UNCHANGED <<episode, files, superseded, events, edit, models, isPublished, meant>>

(***************************************************************************)
(* What the user does besides editing.                                     *)
(***************************************************************************)
(* sync_failed_node_models: a failed node follows the conversation.        *)
synced == IF /\ models.saved /\ target.status = "failed" /\ LatestFailed
             /\ (IF target.model = None THEN models.original ELSE target.model) # models.chosen
          THEN [target EXCEPT !.model = models.chosen] ELSE target
Wanted(n) == [n EXCEPT !.want = IF n.status = "failed" /\ LatestFailed THEN models.chosen ELSE @]

(* update_node_models: the selection, and the nodes not started or failed. *)
update_node_models ==
    /\ Can("model") /\ edit = NoEdit /\ episode.role = "node"
    /\ episode' = Spent("model")
    /\ models' = [models EXCEPT !.chosen = "other", !.saved = TRUE]
    /\ target' = IF \/ target.status = "waiting" /\ attempts = <<>>
                    \/ target.status = "failed" /\ LatestFailed
                 THEN [target EXCEPT !.model = "other"] ELSE target
    /\ UNCHANGED <<files, attempts, superseded, events, pi, edit, isPublished, meant>>

(* intervene_with_images: the message is queued; unless another one waits, *)
(* it also becomes the node's instruction, in place of a waiting edit.     *)
source_direct_context ==
    isPublished /\ (target.status = "completed" \/ (target.queue # <<>> /\ target.direct))
Invalidated(n, text, direct) ==
    LET queued == [n EXCEPT !.queue = Append(@, text)]
    IN  IF n.queue # <<>> /\ n.status \in {"dirty", "waiting"} THEN queued
        ELSE [queued EXCEPT !.status = IF n.status = "waiting" THEN "waiting" ELSE "dirty",
                            !.instruction = text, !.edit = 0, !.human = TRUE, !.direct = direct]
intervene ==
    /\ edit = NoEdit /\ Running = {} /\ attempts # <<>> /\ episode.msgs > 0
    /\ \E a \in DOMAIN attempts : attempts[a].status \in {"completed", "failed"}
    /\ episode' = [episode EXCEPT !.msgs = @ - 1]
    /\ \E w \in episode.words : target' = Invalidated(Wanted(synced), <<w>>, source_direct_context)
    /\ events' = Append(events, [kind |-> "message"])
    /\ overtaken' = (overtaken \/ target.edit # 0)
    /\ UNCHANGED <<files, attempts, superseded, pi, edit, models, isPublished, turns, view, owed>>

(* A message claim or an earlier recovery put the attempt in the source.   *)
execution_was_source_direct(a) == isPublished /\ attempts[a].cwd = Source

(* queue_node_recovery and EventKind::RecoveryQueued.                      *)
retry ==
    /\ edit = NoEdit /\ target.status = "failed" /\ LatestFailed
    /\ target' = [Wanted(synced) EXCEPT
                   !.status = IF completed_history THEN "dirty" ELSE "waiting",
                   !.continuation = target.queue = <<>>,
                   !.direct = IF target.queue = <<>> THEN execution_was_source_direct(LatestOf(Current))
                              ELSE @]
    /\ overtaken' = (overtaken \/ LET r == LatestOf(Current) IN
                        /\ attempts[r].early /\ ~missing(r)
                        /\ ~(completed_history /\ no_unfinished(r)))
    /\ UNCHANGED <<episode, files, attempts, superseded, events, pi, edit, models, isPublished, turns,
                   view, owed>>

(* A parent ran again: the node is to be computed anew.                    *)
Restart ==
    /\ Can("restart") /\ edit = NoEdit /\ target.status = "completed" /\ ~isPublished
    /\ episode' = Spent("restart")
    /\ target' = [target EXCEPT !.status = "dirty", !.instruction = <<>>, !.edit = 0, !.human = FALSE]
    /\ UNCHANGED <<files, attempts, superseded, events, pi, edit, models, isPublished, meant>>

Publish ==
    /\ Can("publish") /\ edit = NoEdit /\ target.status = "completed"
    /\ episode' = Spent("publish") /\ isPublished' = TRUE
    /\ UNCHANGED <<files, attempts, superseded, target, events, pi, edit, models, meant>>

(***************************************************************************)
(* Editing a turn of the node.                                             *)
(***************************************************************************)
(* Which rows of a superseded attempt the conversation still holds: up to the*)
(* offset of the last edit of that attempt, unless an edit of an earlier   *)
(* attempt of the conversation came after it.                              *)
retained_end(a) ==
    LET cut(end, e) ==
            IF e.kind # "edited" \/ attempts[e.attempt].session # attempts[a].session THEN end
            ELSE IF e.attempt < a THEN 0
            ELSE IF e.attempt = a THEN e.offset
            ELSE end
    IN  FoldLeft(cut, 0, events)

(* Everything the edit decides before it stops the writer.  old is the     *)
(* text the user saw, offset the row it was in, 0 when not told.           *)
PreparedEdit(a, old, offset, version) ==
    LET x == attempts[a]
        late == a \in superseded /\ ~version
        end == retained_end(a)
        newest == LatestOf(Current)
        output == IF late /\ end # 0 THEN SubSeq(x.rows, 1, end - 1) ELSE x.rows
        row == IF offset = 0 /\ ~version THEN unique_output_user_turn(output, old) ELSE offset
        sel == IF row \in output_user_turns(output, old) THEN output_user_turn(output, row, old)
               ELSE NoSelector
        writer == LatestOf(OfSession(x.session) \ superseded)
        cwd == attempts[IF writer = 0 THEN a ELSE writer].cwd
        unborn == ~files[x.session].made /\ x.status = "failed" /\ row = 0
        branch == prepare_user_branch(x.session, old, x.from,
                                      IF x.status = "running" THEN Clock + 1 ELSE x.to, sel)
        start == StartedAt(a)
        opening == Opening(a)
        bound == opening < start /\ ~\E i \in opening..(start - 1) : events[i].kind = "started"
        steers == {i \in DOMAIN events : /\ i > start /\ events[i].kind = "steered"
                                         /\ events[i].attempt = a /\ events[i].text = old}
        first == IF unborn THEN a = first_of(a) ELSE branch.first_user_turn
        opens_attempt == first \/ (bound /\ ~unborn /\ branch.first_in_execution)
    IN  [ok |-> /\ late => /\ end # 0
                           /\ IF newest = 0 THEN target.edit # 0
                              ELSE attempts[newest].session = x.session
                           /\ row # 0 /\ row < end
                /\ row # 0 => row \in output_user_turns(output, old)
                /\ unborn \/ (open_session(files[x.session], cwd) /\ branch.selected # 0),
         attempt |-> a, session |-> x.session, unborn |-> unborn, branch |-> branch,
         offset |-> row, first_turn |-> first,
         from |-> IF opens_attempt THEN opening
                  ELSE IF row # 0 THEN start
                  ELSE IF steers # {} THEN Min(steers) ELSE opening]

(* edit_node_message_at up to its first side effect.  The published Run    *)
(* takes the replacement as a new message instead.                         *)
edit_node_message_at ==
    /\ episode.role = "node" /\ edit = NoEdit /\ episode.edits > 0
    /\ episode' = [episode EXCEPT !.edits = @ - 1]
    /\ \E a \in DOMAIN attempts, w \in episode.words, version \in IF Can("version") THEN BOOLEAN ELSE {FALSE} :
       \E i \in 0..Len(attempts[a].rows), given \in BOOLEAN :
        LET old == IF i = 0 THEN attempts[a].prompt ELSE attempts[a].rows[i].text
        IN  /\ (given => i # 0) /\ (i = 0 => attempts[a].rows = <<>>) /\ ~(given /\ version)
            /\ IF source_direct_context
               THEN /\ target' = Invalidated(Wanted(synced), <<w>>, TRUE)
                    /\ events' = Append(events, [kind |-> "message"])
                    /\ UNCHANGED edit
               ELSE LET p == PreparedEdit(a, old, IF given THEN i ELSE 0, version)
                        k == p.branch.selected
                    IN  /\ p.ok
                        /\ edit' = [step |-> "prepared", attempt |-> a, session |-> p.session,
                                    unborn |-> p.unborn, branch |-> p.branch, offset |-> p.offset,
                                    first_turn |-> p.first_turn, from |-> p.from, text |-> <<w>>,
                                    len |-> 0, version |-> version,
                                    cut |-> IF p.unborn THEN 0
                                            ELSE IF p.offset # 0 THEN attempts[a].rows[p.offset].turn
                                            ELSE files[p.session].entries[k].turn]
                        /\ UNCHANGED <<target, events>>
    /\ UNCHANGED <<files, attempts, superseded, pi, models, isPublished, meant>>

(* request_execution_stop, stop_owner and sync_failed_node_models: the     *)
(* engine is killed, perhaps in the middle of an entry; its worker reports *)
(* the failure once the edit has released the Run mutex.                   *)
edit_stop ==
    /\ edit.step = "prepared"
    /\ edit' = [edit EXCEPT !.step = "stopped"]
    /\ attempts' = [a \in DOMAIN attempts |->
                       IF a \in Running THEN [attempts[a] EXCEPT !.end = "stopped"] ELSE attempts[a]]
    /\ target' = Wanted(synced)
    /\ pi' = IF Speaking \/ pi.state = "preparing" THEN [pi EXCEPT !.state = "killed"] ELSE pi
    /\ \E torn \in IF Can("tear") /\ Speaking THEN BOOLEAN ELSE {FALSE} :
        /\ files' = IF torn THEN [files EXCEPT ![OwnFile].torn = TRUE] ELSE files
        /\ episode' = IF torn THEN Spent("tear") ELSE episode
    /\ UNCHANGED <<superseded, events, models, isPublished, meant>>

(* UserBranch::commit, or nothing to branch.                               *)
edit_commit ==
    /\ edit.step = "stopped"
    /\ LET file == files[edit.session] IN
        IF edit.unborn
        THEN /\ edit' = [edit EXCEPT !.step = "committed"]
             /\ UNCHANGED files
        ELSE IF ~file.torn /\ still_active(file.entries, edit.branch)
        THEN /\ files' = committed(edit.session, edit.branch)
             /\ edit' = [edit EXCEPT !.step = "committed", !.len = Len(file.entries)]
        ELSE edit' = NoEdit /\ UNCHANGED files
    /\ UNCHANGED <<episode, attempts, superseded, target, events, pi, models, isPublished, meant>>

(* EventKind::ConversationEdited.                                          *)
ConversationEdited ==
    /\ edit.step = "committed" /\ episode.role = "node"
    /\ events' = Append(events, [kind |-> "edited", attempt |-> edit.attempt, offset |-> edit.offset,
                                 from |-> edit.from, cut |-> edit.cut])
    /\ superseded' = superseded \cup {a \in DOMAIN attempts : attempts[a].from >= attempts[edit.attempt].from}
    /\ target' = [target EXCEPT !.status = "dirty", !.instruction = edit.text, !.human = TRUE,
                            !.edit = edit.attempt,
                            !.task = IF edit.first_turn THEN edit.text ELSE @]
    /\ view' = IF edit.cut = 0 THEN view ELSE turns[edit.cut].before
    /\ owed' = edit.text
    /\ overtaken' = (overtaken \/ target.continuation \/ (edit.unborn /\ attempts[edit.attempt].fork # 0))
    /\ edit' = NoEdit
    /\ UNCHANGED <<episode, files, attempts, pi, models, isPublished, turns>>

(* The event cannot be saved: the marker is taken back.                    *)
EmitFails ==
    /\ edit.step = "committed" /\ Can("emit")
    /\ episode' = Spent("emit")
    /\ files' = IF edit.unborn THEN files ELSE rollback(edit.session, edit.len)
    /\ edit' = NoEdit
    /\ UNCHANGED <<attempts, superseded, target, events, pi, models, isPublished, meant>>

(***************************************************************************)
(* The Planner's conversation: one engine turn after the other, and an     *)
(* edit only between them (server::edit_planner).                          *)
(***************************************************************************)
PlannerTurn ==
    /\ episode.role = "planner" /\ edit = NoEdit /\ episode.starts > 0
    /\ episode' = [episode EXCEPT !.starts = @ - 1]
    /\ \E w \in episode.words :
        LET text == IF owed # <<>> THEN owed ELSE IF turns = <<>> THEN target.task ELSE <<w>>
            time == Len(turns) + 1
            said == [parent |-> Len(files[1].entries), user |-> TRUE, text |-> text, time |-> time,
                     turn |-> Len(turns) + 1]
        IN  /\ files' = [files EXCEPT ![1].made = TRUE, ![1].entries = Append(@, said)]
            /\ Told(text, 0, 0)
    /\ owed' = <<>>
    /\ UNCHANGED <<attempts, superseded, target, events, pi, edit, models, isPublished, overtaken>>

(* branch_before_planner_user: looked up by its text and branched at once; *)
(* a Planner that never launched Pi has nothing to branch.  version is the *)
(* version of the message the user went back to, if any.                   *)
edit_planner ==
    /\ episode.role = "planner" /\ edit = NoEdit /\ episode.edits > 0
    /\ episode' = [episode EXCEPT !.edits = @ - 1]
    /\ \E old, w \in episode.words, version \in IF Can("version") THEN {None, "first", "later"} ELSE {None} :
        LET unborn == ~files[1].made
            branch == prepare_user_branch(1, <<old>>, 0, Len(turns), NoSelector)
            k == branch.selected
            cut == IF unborn THEN 0 ELSE files[1].entries[k].turn
        IN  /\ IF unborn THEN <<old>> = target.task
               ELSE version # None \/ \E t \in ToSet(view) : turns[t].text = <<old>>
            /\ unborn \/ (open_session(files[1], 0) /\ k # 0)
            /\ files' = IF unborn THEN files ELSE committed(1, branch)
            /\ edit' = [step |-> "committed", session |-> 1, unborn |-> unborn,
                        len |-> Len(files[1].entries), text |-> <<w>>, cut |-> cut,
                        first_turn |-> <<old>> = target.task \/ version = "first"]
    /\ UNCHANGED <<attempts, superseded, target, events, pi, models, isPublished, meant>>

PlannerConversationEdited ==
    /\ edit.step = "committed" /\ episode.role = "planner"
    /\ target' = [target EXCEPT !.task = IF edit.first_turn THEN edit.text ELSE @]
    /\ view' = IF edit.unborn THEN view ELSE turns[edit.cut].before
    /\ owed' = edit.text
    /\ edit' = NoEdit
    /\ UNCHANGED <<episode, files, attempts, superseded, events, pi, models, isPublished, turns, overtaken>>

(* The backend dies and is opened again: attempts that ran have failed.    *)
BackendDies ==
    /\ Can("crash") /\ episode' = Spent("crash")
    /\ attempts' = [a \in DOMAIN attempts |->
                       IF a \in Running
                       THEN [attempts[a] EXCEPT !.status = "failed", !.to = Clock + 1, !.end = "crash"]
                       ELSE attempts[a]]
    /\ target' = IF Running \subseteq superseded THEN target ELSE [target EXCEPT !.status = "failed"]
    /\ overtaken' = (overtaken \/ edit.step = "committed")
    /\ pi' = NoPi /\ edit' = NoEdit
    /\ UNCHANGED <<files, superseded, events, models, isPublished, turns, view, owed>>

HistoryInit ==
    /\ episode \in Episodes
    /\ files = IF episode.role = "planner" THEN <<NoConversation>> ELSE <<>>
    /\ attempts = <<>> /\ superseded = {} /\ events = <<>>
    /\ target = [status |-> "waiting", task |-> <<Task>>, instruction |-> <<>>, human |-> FALSE,
               queue |-> <<>>, continuation |-> FALSE, direct |-> FALSE, edit |-> 0,
               model |-> None, want |-> None]
    /\ pi = NoPi /\ edit = NoEdit
    /\ models = [original |-> "original", chosen |-> "original", saved |-> FALSE]
    /\ isPublished = FALSE /\ turns = <<>> /\ view = <<>> /\ owed = <<>> /\ overtaken = FALSE

HistoryNext ==
    \/ Start \/ StartupFails \/ Launch \/ PiReplies \/ Steer \/ PiTakes \/ PiEnds \/ Settle
    \/ update_node_models \/ intervene \/ retry \/ Restart \/ Publish
    \/ edit_node_message_at \/ edit_stop \/ edit_commit \/ ConversationEdited \/ EmitFails
    \/ PlannerTurn \/ edit_planner \/ PlannerConversationEdited
    \/ BackendDies

(***************************************************************************)
(* Properties                                                              *)
(***************************************************************************)
Conversation == IF episode.role = "planner" THEN 1
                ELSE attempts[IF target.edit # 0 THEN target.edit ELSE Len(attempts)].session

(* Between edits the file, read from its leaf as the engine reads it,      *)
(* holds exactly the turns the conversation is meant to hold: every        *)
(* accepted edit cut at the turn the user pointed at, and every refused,   *)
(* failed or rolled back edit cut nothing.                                 *)
HoldsView ==
    edit = NoEdit /\ ~overtaken /\ files # <<>> /\ files[Conversation].made =>
        UserTurns(files[Conversation].entries, Active(files[Conversation].entries)) = view

(* Every turn ever told is still in some file: edits abandon, never erase. *)
NothingErased ==
    \A t \in DOMAIN turns : \E s \in DOMAIN files : \E k \in DOMAIN files[s].entries :
        files[s].entries[k].turn = t

(* A node does not complete before the replacement was told.               *)
ReplacementTold == target.status = "completed" /\ ~overtaken => owed = <<>>

(* The target's task, or the Planner's goal, is how its conversation opens.*)
OpensWithTask ==
    view # <<>> /\ edit = NoEdit /\ ~overtaken /\ ~Can("version") => Head(turns[view[1]].text) = Head(target.task)

(* The event an edit replaces from is the start of the attempt that told   *)
(* the turn or not later than the event that brought it, and no turn that  *)
(* is kept came at or after it, unless it is in the log of the same        *)
(* attempt, which is cut by the row.                                       *)
ClaimsExactly ==
    \A i \in DOMAIN events : ~overtaken /\ events[i].kind = "edited" /\ events[i].cut # 0 =>
        LET e == events[i]
            t == turns[e.cut]
        IN  /\ e.from <= t.cause \/ e.from = StartedAt(t.attempt)
            /\ \A u \in ToSet(t.before) : turns[u].cause < e.from \/ turns[u].attempt = e.attempt

(* An attempt asked for after a failure runs with the models selected when *)
(* it was asked for.                                                       *)
FollowsSelection == \A a \in DOMAIN attempts : attempts[a].want \in {None, attempts[a].model}

(* The history survives edits: the six parts above, in every state.        *)
HistoryHolds == /\ HoldsView /\ NothingErased /\ ReplacementTold /\ OpensWithTask
                /\ ClaimsExactly /\ FollowsSelection
=============================================================================
