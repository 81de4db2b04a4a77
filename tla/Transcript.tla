----------------------------- MODULE Transcript -----------------------------
(* What Pi prints, on its way to the log and to the summaries shown of it:   *)
(* the coalescing buffer of engine/output_buffer.rs, the single writer       *)
(* persist_outputs of server.rs, the live metrics of model.rs and the cache  *)
(* of changed files in file_changes.rs.  The cache is fed by the writer and  *)
(* by requests that parse a log without the Run's lock; a sidecar file       *)
(* keeps it over a restart.                                                  *)
EXTENDS Naturals, Sequences, SequencesExt, FiniteSets, FiniteSetsExt

CONSTANTS
    Attempts,       \* executions of one Run
    Requests,       \* threads that answer get_file_changes
    Absent,         \* no value
    Calls,          \* tool call id -> [tool, path, old, lines]
    Scripts,        \* the behaviours to start from: what each attempt and the Planner print,
                    \* what Git says of the attempts, which faults and reads may happen
    DeltaBytes,     \* bound on a coalesced delta
    BatchMax        \* bound on one write of the writer

VARIABLES
    pi,         \* per attempt: lines still to print, the buffered delta, its status
    channel,    \* lines and flush requests on their way to the writer
    broken,     \* persist_outputs' sticky failure
    lines,      \* the durable log of each attempt
    meter,      \* its live metrics
    cached,     \* FileChangesCache of the attempts
    cacheRun,   \* its epoch and whether the sidecar was loaded
    sidecar,    \* file-changes/<run>/changes.json
    request,    \* the readers
    planner,    \* planner.jsonl and its part of the cache
    scene       \* the script being played, with its remaining faults

transcriptVars == <<pi, channel, broken, lines, meter, cached, cacheRun, sidecar, request, planner, scene>>

-----------------------------------------------------------------------------
(* One transcript line: a text delta of n bytes; an assistant message with   *)
(* its usage n, a tool call and a model; the start, end and result of a      *)
(* call; a context estimate; the start and exit of the process.              *)
HasTool(s) == \E i \in DOMAIN s : s[i].t \in {"ask", "call", "end", "result", "started", "exited"}

Nothing == [files |-> <<>>, busy |-> FALSE]
Accumulator(alive) == [known |-> {}, settled |-> {}, pending |-> <<>>, reads |-> <<>>,
                       committed |-> <<>>, alive |-> alive]
Put(f, k, v) == [x \in DOMAIN f \cup {k} |-> IF x = k THEN v ELSE f[x]]
Drop(f, k) == [x \in DOMAIN f \ {k} |-> f[x]]

(* The status of a path after another change of it. *)
NextStatus(was, now) ==
    CASE was = "added" /\ now = "modified" -> "added"
      [] was = "deleted" /\ now \in {"added", "modified"} -> "modified"
      [] now \in {"deleted", "renamed"} -> now
      [] OTHER -> was

(* Git's counts win over the transcript's, a write replaces them, an edit    *)
(* adds to them.                                                             *)
merge_file_item_into(map, item) ==
    LET m == IF item.status = "renamed" THEN Drop(map, item.old) ELSE map
        old == m[item.path]
        counts == CASE item.source = "git" -> [n |-> item.lines, source |-> "git"]
                    [] item.source # "git" /\ old.source = "git" -> [n |-> old.lines, source |-> "git"]
                    [] item.source = "write" /\ old.source # "git" -> [n |-> item.lines, source |-> "write"]
                    [] OTHER -> [n |-> old.lines + item.lines, source |-> item.source]
    IN IF item.path \notin DOMAIN m THEN Put(m, item.path, item)
       ELSE Put(m, item.path, [old EXCEPT !.status = NextStatus(old.status, item.status),
                                          !.old = IF item.old = Absent THEN @ ELSE item.old,
                                          !.lines = counts.n, !.source = counts.source,
                                          !.running = @ \/ item.running])

MergeAll(map, items) == FoldLeft(merge_file_item_into, map, items)
Rows(map) == LET order == SetToSortSeq(DOMAIN map, LAMBDA x, y : x < y) IN [i \in DOMAIN order |-> map[order[i]]]

(* rm and mv stand for what parse_bash_command_changes finds in a command.   *)
parse_bash_command_changes(call) ==
    <<[path |-> call.path, old |-> call.old, lines |-> 0, running |-> FALSE, source |-> "bash",
       status |-> IF call.tool = "mv" THEN "renamed" ELSE "deleted"]>>

build_tool_change_items(known, id) ==
    LET call == Calls[id] IN
    CASE call.tool = "write" -> <<[path |-> call.path, old |-> Absent, lines |-> call.lines,
                                   running |-> FALSE, source |-> "write",
                                   status |-> IF call.path \in known THEN "modified" ELSE "added"]>>
      [] call.tool = "edit" -> <<[path |-> call.path, old |-> Absent, lines |-> call.lines,
                                  running |-> FALSE, source |-> "edit", status |-> "modified"]>>
      [] call.tool \in {"rm", "mv"} -> parse_bash_command_changes(call)
      [] OTHER -> <<>>

(* A call was announced: by the message that asks for it, its stream or its start. *)
Announced(acc, id) ==
    IF Calls[id].tool = "read" THEN [acc EXCEPT !.reads = Put(@, id, Calls[id].path)]
    ELSE [acc EXCEPT !.pending = Put(@, id, build_tool_change_items(acc.known, id))]

(* A call ended; late: its end carries the arguments, so an unannounced one counts too. *)
Settled(acc, id, ok, late) ==
    LET items == CASE id \in DOMAIN acc.pending -> acc.pending[id]
                   [] late -> build_tool_change_items(acc.known, id)
                   [] OTHER -> <<>>
        read == IF ok /\ id \in DOMAIN acc.reads THEN {acc.reads[id]} ELSE {}
        kept == IF ok THEN items ELSE <<>>
    IN [acc EXCEPT !.settled = @ \cup {id}, !.reads = Drop(@, id), !.pending = Drop(@, id),
                   !.known = @ \cup read \cup {kept[i].path : i \in DOMAIN kept},
                   !.committed = MergeAll(@, kept)]

ApplyLine(acc, line, running) ==
    CASE line.t = "call" -> Announced(acc, line.id)
      [] line.t = "ask" -> IF line.id \in acc.settled THEN acc ELSE Announced(acc, line.id)
      [] line.t = "end" -> Settled(acc, line.id, line.ok, TRUE)
      [] line.t = "result" -> Settled(acc, line.id, line.ok, FALSE)
      [] line.t = "exited" -> [acc EXCEPT !.alive = FALSE, !.pending = <<>>]
      [] line.t = "started" -> [acc EXCEPT !.alive = running]
      [] OTHER -> acc

apply_jsonl(acc, text, running) == FoldLeft(LAMBDA x, line : ApplyLine(x, line, running), acc, text)

(* The view of an accumulator: calls in flight are shown as running. *)
accumulator_summary(acc) ==
    LET flight == IF acc.alive THEN FlattenSeq(SetToSeq({acc.pending[id] : id \in DOMAIN acc.pending})) ELSE <<>>
        shown == [i \in DOMAIN flight |-> [flight[i] EXCEPT !.running = TRUE]]
    IN [files |-> MergeAll(acc.committed, shown), busy |-> shown # <<>>]

parse_jsonl_file_changes(text, running) ==
    accumulator_summary(apply_jsonl(Accumulator(running), text, running))

merge_summaries(parts, running) ==
    [files |-> FoldLeft(LAMBDA m, s : MergeAll(m, Rows(s.files)), <<>>, parts),
     busy |-> running \/ \E i \in DOMAIN parts : parts[i].busy]

-----------------------------------------------------------------------------
(* Metrics: counted while the lines stream, and parsed again at the end.     *)
NoMetrics == [messages |-> 0, tools |-> 0, errors |-> 0, usage |-> 0, context |-> 0, peak |-> 0,
              window |-> Absent, model |-> Absent, seen |-> FALSE]

MaxOf2(x, y) == IF x > y THEN x ELSE y

record_context_model(m, next) ==
    [m EXCEPT !.model = next, !.window = IF m.model \notin {Absent, next} THEN Absent ELSE @]

record_assistant_context(m, count) ==
    IF count = 0 THEN m ELSE [m EXCEPT !.context = count, !.peak = MaxOf2(@, count)]

record_context_usage(m, line) ==
    [m EXCEPT !.context = line.n, !.peak = MaxOf2(@, line.n), !.window = line.window, !.seen = TRUE]

MetricLine(m, line) ==
    CASE line.t = "ask" -> LET n == record_assistant_context(record_context_model(m, line.model), line.n)
                           IN [n EXCEPT !.messages = @ + 1, !.usage = @ + line.n]
      [] line.t = "context" -> record_context_usage(m, line)
      [] line.t = "call" -> [m EXCEPT !.tools = @ + 1]
      [] line.t = "end" -> [m EXCEPT !.errors = @ + IF line.ok THEN 0 ELSE 1]
      [] OTHER -> m

accumulate_live_metrics(m, text) == FoldLeft(MetricLine, m, text)
parse_execution_metrics(text) == FoldLeft(MetricLine, NoMetrics, text)

(* The Run's totals, and the session its attempts may share: usage adds up,  *)
(* the newest attempt that knows the context says how large it is.           *)
Ended(p) == p.status \in {"done", "failed"}
Stamp(a, p) == 2 * a - IF Ended(p[a]) THEN 0 ELSE 1

record_session_context(s, m, stamp) ==
    IF ~m.seen /\ m.context = 0 THEN s
    ELSE [s EXCEPT !.peak = MaxOf2(@, m.peak),
                   !.tokens = IF stamp >= s.stamp THEN m.context ELSE @,
                   !.stamp = IF stamp >= s.stamp THEN stamp ELSE @]

compute_run_metrics(each, p) ==
    LET seq == SetToSortSeq(Attempts, LAMBDA x, y : x < y)
        total(f) == FoldLeft(LAMBDA n, a : n + each[a][f], 0, seq)
    IN [messages |-> total("messages"), tools |-> total("tools"), errors |-> total("errors"),
        usage |-> total("usage"),
        session |-> FoldLeft(LAMBDA s, a : record_session_context(s, each[a], Stamp(a, p)),
                             [tokens |-> 0, peak |-> 0, stamp |-> 0], seq)]

-----------------------------------------------------------------------------
(* The cache, one entry per attempt. *)
Cold == [rev |-> 0, scanned |-> Absent, changes |-> Absent, live |-> Absent, git |-> Absent,
         hydrated |-> FALSE]

log_changed(c) == [c EXCEPT !.rev = @ + 1, !.scanned = Absent]
log_token(a) == <<cacheRun.epoch, cached[a].rev>>

(* A summary with no row and no call in flight is not kept once the attempt is over. *)
update_from_log_chunk(c, text, running) ==
    LET acc == apply_jsonl(IF c.live = Absent THEN Accumulator(running) ELSE c.live, text, running)
        sum == accumulator_summary(acc)
        d == [log_changed(c) EXCEPT !.live = acc]
    IN CASE sum # Nothing -> [d EXCEPT !.changes = sum]
         [] sum = Nothing /\ ~running -> [d EXCEPT !.changes = Absent, !.live = Absent]
         [] OTHER -> d

note_read_only_log_append(c, bytes, running) ==
    IF c.scanned = Absent THEN c
    ELSE IF c.scanned[1] > bytes THEN c
    ELSE [c EXCEPT !.rev = @ + 1, !.scanned = <<bytes, running>>]

update_from_log_text(c, text, running) ==
    LET acc == apply_jsonl(Accumulator(running), text, running)
        sum == accumulator_summary(acc)
    IN [log_changed(c) EXCEPT !.live = IF sum = Nothing THEN Absent ELSE acc,
                              !.changes = IF sum = Nothing THEN Absent ELSE sum]

settle(c) ==
    LET acc == [c.live EXCEPT !.alive = FALSE, !.pending = <<>>]
        sum == accumulator_summary(acc)
    IN IF c.live = Absent THEN log_changed(c)
       ELSE [log_changed(c) EXCEPT !.live = IF sum = Nothing THEN Absent ELSE acc,
                                   !.changes = IF sum = Nothing THEN Absent ELSE sum]

(* The sidecar: this session's summaries over the ones it already holds. *)
PartsOf(c) == (IF c.changes = Absent THEN <<>> ELSE <<c.changes>>)
              \o (IF c.git = Absent THEN <<>> ELSE <<c.git>>)

merge_persisted_executions(saved, cs) ==
    [a \in Attempts |->
        IF PartsOf(cs[a]) = <<>> THEN saved[a]
        ELSE merge_summaries((IF saved[a] = Absent THEN <<>> ELSE <<saved[a]>>) \o PartsOf(cs[a]), FALSE)]

persist_run(cs) == sidecar' = merge_persisted_executions(sidecar, cs)

Waiting == [at |-> "idle", snap |-> <<>>, token |-> <<>>, plan |-> 0, left |-> {}, text |-> <<>>, file |-> <<>>]

TranscriptInit ==
    /\ scene \in Scripts
    /\ pi = [a \in Attempts |-> [todo |-> scene.prints[a], buffer |-> 0,
                                 status |-> IF scene.prints[a] = <<>> THEN "none" ELSE "running"]]
    /\ channel = <<>> /\ broken = FALSE
    /\ lines = [a \in Attempts |-> <<>>]
    /\ meter = [each |-> [a \in Attempts |-> NoMetrics],
                run |-> compute_run_metrics([a \in Attempts |-> NoMetrics], pi)]
    /\ cached = [a \in Attempts |-> Cold] /\ cacheRun = [epoch |-> 0, hydrated |-> FALSE, gone |-> FALSE]
    /\ sidecar = [a \in Attempts |-> Absent]
    /\ request = [r \in Requests |-> Waiting]
    /\ planner = [todo |-> scene.plan, log |-> <<>>, told |-> 0, rev |-> 0, changes |-> Absent,
                  live |-> Absent, over |-> FALSE]

May(x) == x \in scene.can
Spend(x) == scene' = [scene EXCEPT !.can = @ \ {x}]

-----------------------------------------------------------------------------
(* OutputBuffer: deltas wait to be joined; any other line flushes them first. *)
Delta(n) == [t |-> "delta", n |-> n]
Text(a, s) == [i \in DOMAIN s |-> [a |-> a, flush |-> FALSE, line |-> s[i]]]
Flushed(a) == IF pi[a].buffer = 0 THEN <<>> ELSE <<Delta(pi[a].buffer)>>

push(a) ==
    /\ pi[a].status = "running" /\ pi[a].todo # <<>>
    /\ LET line == Head(pi[a].todo)
           held == pi[a].buffer
           joins == held > 0 /\ held + line.n <= DeltaBytes
           sum == held + line.n
           out == CASE line.t # "delta" -> Flushed(a) \o <<line>>
                    [] line.t = "delta" /\ joins /\ sum = DeltaBytes -> <<Delta(sum)>>
                    [] line.t = "delta" /\ joins /\ sum < DeltaBytes -> <<>>
                    [] line.t = "delta" /\ ~joins /\ line.n >= DeltaBytes -> Flushed(a) \o <<line>>
                    [] OTHER -> Flushed(a)
           keeps == CASE line.t # "delta" -> 0
                      [] line.t = "delta" /\ joins -> IF sum = DeltaBytes THEN 0 ELSE sum
                      [] OTHER -> IF line.n >= DeltaBytes THEN 0 ELSE line.n
       IN /\ channel' = channel \o Text(a, out)
          /\ pi' = [pi EXCEPT ![a].todo = Tail(@), ![a].buffer = keeps]
    /\ UNCHANGED <<broken, lines, meter, cached, cacheRun, sidecar, request, planner, scene>>

(* The deadline of a waiting delta. *)
flush_due(a) ==
    /\ pi[a].status = "running" /\ pi[a].buffer > 0
    /\ channel' = channel \o Text(a, Flushed(a)) /\ pi' = [pi EXCEPT ![a].buffer = 0]
    /\ UNCHANGED <<broken, lines, meter, cached, cacheRun, sidecar, request, planner, scene>>

(* Pi is through: the buffer is flushed, and the worker asks for a barrier.  *)
worker_flush(a) ==
    /\ pi[a].status = "running" /\ pi[a].todo = <<>>
    /\ channel' = channel \o Text(a, Flushed(a)) \o <<[a |-> a, flush |-> TRUE, line |-> Delta(0)]>>
    /\ pi' = [pi EXCEPT ![a].buffer = 0, ![a].status = "flushing"]
    /\ UNCHANGED <<broken, lines, meter, cached, cacheRun, sidecar, request, planner, scene>>

(* append_logs after its COMMIT: the log, the live metrics and the cache.    *)
Chunk(a, batch) ==
    LET own == SelectSeq(batch, LAMBDA m : m.a = a /\ ~m.flush) IN [i \in DOMAIN own |-> own[i].line]

append_log_batch(batch, hint) ==
    LET each == [a \in Attempts |-> accumulate_live_metrics(meter.each[a], Chunk(a, batch))]
    IN /\ lines' = [a \in Attempts |-> lines[a] \o Chunk(a, batch)]
       /\ meter' = [each |-> each, run |-> compute_run_metrics(each, pi)]
       /\ cached' = [a \in Attempts |->
                       LET text == Chunk(a, batch) IN
                       IF text = <<>> THEN cached[a]
                       ELSE IF HasTool(text) THEN update_from_log_chunk(cached[a], text, TRUE)
                       ELSE IF hint THEN note_read_only_log_append(cached[a], Len(lines[a] \o text), TRUE)
                       ELSE cached[a]]

(* One write: up to BatchMax lines, cut at a flush request. A failure sticks. *)
persist_outputs ==
    \E n \in 1..Len(channel) :
        LET batch == SubSeq(channel, 1, n)
            barrier == batch[n].flush
            text == SelectSeq(batch, LAMBDA m : ~m.flush)
            reply(failed) == pi' = IF barrier THEN [pi EXCEPT ![batch[n].a].status = IF failed THEN "refused" ELSE "acked"]
                                   ELSE pi
        IN /\ \A i \in 1..(n - 1) : ~batch[i].flush
           /\ Len(text) <= BatchMax
           /\ channel' = SubSeq(channel, n + 1, Len(channel))
           /\ \/ /\ ~broken /\ text # <<>> /\ reply(FALSE)
                 /\ \E hint \in BOOLEAN : append_log_batch(text, hint)
                 /\ UNCHANGED <<broken, scene>>
              \/ /\ ~broken /\ text # <<>> /\ May("disk") /\ Spend("disk")
                 /\ broken' = TRUE /\ reply(TRUE) /\ UNCHANGED <<lines, meter, cached>>
              \/ /\ broken \/ text = <<>>
                 /\ reply(broken) /\ UNCHANGED <<broken, lines, meter, cached, scene>>
           /\ UNCHANGED <<cacheRun, sidecar, request, planner>>

(* The terminal event, under the Run's lock: in-flight calls are settled,    *)
(* metrics come from the whole log, the sidecar is written.                  *)
finish(a) ==
    /\ pi[a].status \in {"acked", "refused", "lost"}
    /\ pi' = [pi EXCEPT ![a].status = IF @ = "acked" THEN "done" ELSE "failed"]
    /\ cached' = [cached EXCEPT ![a] = settle(@)]
    /\ LET each == [meter.each EXCEPT ![a] = parse_execution_metrics(lines[a])]
       IN meter' = [each |-> each, run |-> compute_run_metrics(each, pi')]
    /\ persist_run(cached')
    /\ UNCHANGED <<channel, broken, lines, cacheRun, request, planner, scene>>

(* A page that covers the whole log replaces what the cache knows of it. *)
execution_output(a) ==
    /\ May("page") /\ Spend("page")
    /\ lines[a] # <<>>
    /\ cached' = [cached EXCEPT ![a] = update_from_log_text(@, lines[a], ~Ended(pi[a]))]
    /\ UNCHANGED <<pi, channel, broken, lines, meter, cacheRun, sidecar, request, planner>>

(* compute_git_changes of the finished attempt, recorded after its turn. *)
record_git_commit_changes(a) ==
    cached' = [cached EXCEPT ![a].git = IF scene.git[a] = Absent THEN @ ELSE scene.git[a]]

-----------------------------------------------------------------------------
(* A request: snapshot and tokens together under the Run's lock, the rest without it. *)
capture_warm_fence(r) ==
    /\ request[r].at = "idle" /\ ~cacheRun.gone
    /\ scene.reads > 0 /\ scene' = [scene EXCEPT !.reads = @ - 1]
    /\ request' = [request EXCEPT ![r] =
         [at |-> "hydrate", left |-> {a \in Attempts : pi[a].status # "none"},
          snap |-> [a \in Attempts |-> [running |-> ~Ended(pi[a]),
                                        bytes |-> Len(lines[a]), after |-> pi[a].status = "done"]],
          token |-> [a \in Attempts |-> log_token(a)], plan |-> planner.rev, text |-> <<>>, file |-> <<>>]]
    /\ UNCHANGED <<pi, channel, broken, lines, meter, cached, cacheRun, sidecar, planner>>

Goto(r, at) == request' = [request EXCEPT ![r].at = at]

(* The sidecar is read once per process, and inserted where the cache has nothing. *)
hydrate_read(r) ==
    /\ request[r].at = "hydrate"
    /\ IF cacheRun.hydrated \/ \A a \in Attempts : sidecar[a] = Absent THEN Goto(r, "plan")
       ELSE request' = [request EXCEPT ![r].at = "insert", ![r].file = sidecar]
    /\ UNCHANGED <<pi, channel, broken, lines, meter, cached, cacheRun, sidecar, planner, scene>>

hydrate_run(r) ==
    /\ request[r].at = "insert" /\ Goto(r, "plan")
    /\ cached' = [a \in Attempts |->
                    LET saved == request[r].file[a] IN
                    IF saved = Absent THEN cached[a]
                    ELSE [cached[a] EXCEPT !.hydrated = TRUE, !.changes = IF @ = Absent THEN saved ELSE @]]
    /\ cacheRun' = [cacheRun EXCEPT !.hydrated = TRUE]
    /\ UNCHANGED <<pi, channel, broken, lines, meter, sidecar, planner, scene>>

(* The Planner's log is read outside every lock, after a first look at the token. *)
PlanCold(r) == request[r].plan = planner.rev /\ planner.changes = Absent /\ planner.live = Absent

warm_planning(r) ==
    /\ \/ request[r].at = "plan" /\ PlanCold(r)
          /\ request' = [request EXCEPT ![r].at = "planned", ![r].text = planner.log]
          /\ UNCHANGED planner
       \/ request[r].at = "plan" /\ ~PlanCold(r) /\ Goto(r, "scan") /\ UNCHANGED planner
       \/ request[r].at = "planned" /\ Goto(r, "scan")
          /\ planner' = IF PlanCold(r)
                        THEN [planner EXCEPT !.changes = parse_jsonl_file_changes(request[r].text, FALSE)]
                        ELSE planner
    /\ UNCHANGED <<pi, channel, broken, lines, meter, cached, cacheRun, sidecar, scene>>

Cursor(r) == CHOOSE a \in request[r].left : \A b \in request[r].left : a <= b
Unwarmed(r, a) == request[r].token[a] = log_token(a) /\ cached[a].changes = Absent /\ cached[a].git = Absent

(* First look: is there anything to parse? *)
warm_check(r) ==
    /\ request[r].at = "scan" /\ request[r].left # {}
    /\ LET a == Cursor(r)
           seen == request[r].snap[a]
       IN Goto(r, IF /\ seen.bytes > 0 /\ Unwarmed(r, a)
                     /\ cached[a].scanned # <<seen.bytes, seen.running>>
                  THEN "read" ELSE "git")
    /\ UNCHANGED <<pi, channel, broken, lines, meter, cached, cacheRun, sidecar, planner, scene>>

(* The bytes the snapshot knew of; a shorter log is not parsed. *)
warm_read(r) ==
    /\ request[r].at = "read"
    /\ LET a == Cursor(r)
           n == request[r].snap[a].bytes
       IN request' = [request EXCEPT ![r].at = IF Len(lines[a]) < n THEN "git" ELSE "publish",
                                     ![r].text = IF Len(lines[a]) < n THEN <<>> ELSE SubSeq(lines[a], 1, n)]
    /\ UNCHANGED <<pi, channel, broken, lines, meter, cached, cacheRun, sidecar, planner, scene>>

(* Published only if nothing was written to the entry since the snapshot. *)
Publish(r, a) ==
    LET running == request[r].snap[a].running
        acc == apply_jsonl(Accumulator(running), request[r].text, running)
        sum == accumulator_summary(acc)
    IN cached' = [cached EXCEPT ![a] =
         [@ EXCEPT !.rev = @ + 1, !.scanned = <<request[r].snap[a].bytes, running>>,
                   !.changes = IF sum = Nothing THEN @ ELSE sum,
                   !.live = IF running THEN acc ELSE @]]

warm_execution_log_Unfenced(r) ==
    /\ request[r].at = "publish"
    /\ request' = [request EXCEPT ![r].at = "git", ![r].text = <<>>]
    /\ IF cached[Cursor(r)].changes = Absent THEN Publish(r, Cursor(r)) ELSE UNCHANGED cached
    /\ UNCHANGED <<pi, channel, broken, lines, meter, cacheRun, sidecar, planner, scene>>

warm_execution_log(r) ==
    /\ request[r].at = "publish"
    /\ request' = [request EXCEPT ![r].at = "git", ![r].text = <<>>]
    /\ IF Unwarmed(r, Cursor(r)) THEN Publish(r, Cursor(r)) ELSE UNCHANGED cached
    /\ UNCHANGED <<pi, channel, broken, lines, meter, cacheRun, sidecar, planner, scene>>

(* The Git part of a finished attempt, unless it is cached or came from the sidecar. *)
warm_scoped_changes(r) ==
    /\ request[r].at = "git"
    /\ LET a == Cursor(r) IN
       /\ IF request[r].snap[a].after /\ cached[a].git = Absent /\ ~cached[a].hydrated
          THEN record_git_commit_changes(a) ELSE UNCHANGED cached
       /\ request' = [request EXCEPT ![r].at = IF request[r].left = {a} THEN "answer" ELSE "scan",
                                     ![r].left = @ \ {a}]
    /\ UNCHANGED <<pi, channel, broken, lines, meter, cacheRun, sidecar, planner, scene>>

(* The answer: every part the cache has, of the attempts the snapshot knows. *)
get_cached_run_changes(r) ==
    LET known == SetToSortSeq({a \in Attempts : pi[a].status # "none"}, LAMBDA x, y : x < y)
        parts == (IF planner.changes = Absent THEN <<>> ELSE <<planner.changes>>)
                 \o FlattenSeq([i \in DOMAIN known |-> PartsOf(cached[known[i]])])
        running == \E a \in Attempts : pi[a].status # "none" /\ request[r].snap[a].running
        all == merge_summaries(parts, running)
    IN IF running THEN all
       ELSE [files |-> [p \in DOMAIN all.files |-> [all.files[p] EXCEPT !.running = FALSE]], busy |-> FALSE]

get_file_changes(r) ==
    /\ request[r].at \in {"answer", "scan"} /\ request[r].left = {}
    /\ request' = [request EXCEPT ![r] = Waiting]
    /\ UNCHANGED <<pi, channel, broken, lines, meter, cached, cacheRun, sidecar, planner, scene>>

-----------------------------------------------------------------------------
(* The Planner writes a line to its log, then tells the cache. *)
plan_write ==
    /\ planner.todo # <<>> /\ planner.told = Len(planner.log)
    /\ planner' = [planner EXCEPT !.log = Append(@, Head(planner.todo)), !.todo = Tail(@)]
    /\ UNCHANGED <<pi, channel, broken, lines, meter, cached, cacheRun, sidecar, request, scene>>

update_planning_from_log_chunk ==
    /\ planner.told < Len(planner.log)
    /\ LET chunk == SubSeq(planner.log, planner.told + 1, Len(planner.log))
           acc == apply_jsonl(IF planner.live = Absent THEN Accumulator(TRUE) ELSE planner.live, chunk, TRUE)
           sum == accumulator_summary(acc)
       IN planner' = IF ~HasTool(chunk) THEN [planner EXCEPT !.told = @ + 1]
                     ELSE [planner EXCEPT !.told = @ + 1, !.rev = @ + 1, !.live = acc,
                                          !.changes = IF sum = Nothing THEN Absent ELSE sum]
    /\ UNCHANGED <<pi, channel, broken, lines, meter, cached, cacheRun, sidecar, request, scene>>

settle_planning ==
    /\ ~planner.over /\ planner.todo = <<>> /\ planner.told = Len(planner.log) /\ planner.log # <<>>
    /\ LET acc == [planner.live EXCEPT !.alive = FALSE, !.pending = <<>>]
           sum == accumulator_summary(acc)
           p == [planner EXCEPT !.rev = @ + 1, !.over = TRUE]
       IN planner' = IF planner.live = Absent THEN p
                     ELSE [p EXCEPT !.live = IF sum = Nothing THEN Absent ELSE acc,
                                    !.changes = IF sum = Nothing THEN Absent ELSE sum]
    /\ persist_run(cached)
    /\ UNCHANGED <<pi, channel, broken, lines, meter, cached, cacheRun, request, scene>>

(* The turn is tried again under its id: an empty log, and a reset cache entry. *)
reset_planning ==
    /\ planner.over /\ May("retry") /\ Spend("retry")
    /\ planner' = [planner EXCEPT !.todo = scene.plan, !.log = <<>>, !.told = 0, !.rev = @ + 1,
                                  !.changes = Absent, !.live = Absent, !.over = FALSE]
    /\ UNCHANGED <<pi, channel, broken, lines, meter, cached, cacheRun, sidecar, request>>

-----------------------------------------------------------------------------
(* The conversation is deleted: its logs go, and readers still parsing are fenced off. *)
invalidate_run ==
    /\ May("delete") /\ Spend("delete")
    /\ \A a \in Attempts : pi[a].status \in {"none", "done", "failed"}
    /\ lines' = [a \in Attempts |-> <<>>]
    /\ cached' = [a \in Attempts |-> Cold]
    /\ cacheRun' = [epoch |-> cacheRun.epoch + 1, hydrated |-> FALSE, gone |-> TRUE]
    /\ UNCHANGED <<pi, channel, broken, meter, sidecar, request, planner>>

(* The process dies: logs and sidecar stay, an attempt that ran is failed by recovery. *)
TranscriptCrash ==
    /\ May("crash") /\ Spend("crash") /\ ~cacheRun.gone
    /\ pi' = [a \in Attempts |-> IF pi[a].status \in {"none", "done", "failed"} THEN pi[a]
                                 ELSE [todo |-> <<>>, buffer |-> 0, status |-> "lost"]]
    /\ channel' = <<>> /\ broken' = FALSE
    /\ LET each == [a \in Attempts |-> IF pi[a].status \in {"done", "failed"} THEN meter.each[a] ELSE NoMetrics]
       IN meter' = [each |-> each, run |-> compute_run_metrics(each, pi')]
    /\ cached' = [a \in Attempts |-> Cold] /\ cacheRun' = [epoch |-> 0, hydrated |-> FALSE, gone |-> FALSE]
    /\ request' = [r \in Requests |-> Waiting]
    /\ planner' = [planner EXCEPT !.todo = <<>>, !.told = Len(planner.log), !.over = TRUE, !.rev = 0,
                                  !.changes = Absent, !.live = Absent]
    /\ UNCHANGED <<lines, sidecar>>

Answering(r) ==
    \/ capture_warm_fence(r) \/ hydrate_read(r) \/ hydrate_run(r) \/ warm_planning(r)
    \/ warm_check(r) \/ warm_read(r) \/ warm_execution_log(r)
    \/ warm_scoped_changes(r) \/ get_file_changes(r)

TranscriptNext ==
    \/ \E a \in Attempts : push(a) \/ flush_due(a) \/ worker_flush(a) \/ finish(a) \/ execution_output(a)
    \/ persist_outputs
    \/ \E r \in Requests : Answering(r)
    \/ plan_write \/ update_planning_from_log_chunk \/ settle_planning \/ reset_planning
    \/ invalidate_run \/ TranscriptCrash

-----------------------------------------------------------------------------
Expand(text) == FlattenSeq([i \in DOMAIN text |->
                   IF text[i].t = "delta" THEN [j \in 1..text[i].n |-> Delta(1)] ELSE <<text[i]>>])
Unwritten(a) == Chunk(a, channel) \o Flushed(a) \o pi[a].todo

(* Coalescing and batching lose, repeat and reorder nothing: a log is what   *)
(* Pi printed so far, a finished attempt's is all of it, and what is missing *)
(* is still on its way unless a write failed.                                *)
InOrder ==
    ~cacheRun.gone => \A a \in Attempts :
        /\ IsPrefix(Expand(lines[a]), Expand(scene.prints[a]))
        /\ pi[a].status = "done" => Expand(lines[a]) = Expand(scene.prints[a])
        /\ ~broken /\ pi[a].status \in {"running", "flushing"} =>
              Expand(lines[a] \o Unwritten(a)) = Expand(scene.prints[a])

(* The metrics counted while streaming are those of the whole log, and the   *)
(* session's context is the newest attempt's, never an older one's.          *)
MetricsTrue ==
    ~cacheRun.gone =>
      LET true == [a \in Attempts |-> IF pi[a].status = "lost" THEN NoMetrics ELSE parse_execution_metrics(lines[a])]
          tell == {a \in Attempts : true[a].seen \/ true[a].context > 0}
      IN /\ meter.each = true
         /\ meter.run = compute_run_metrics(true, pi)
         /\ tell # {} => meter.run.session.tokens = true[CHOOSE a \in tell : \A b \in tell : b <= a].context

Whole(text, over) ==
    LET acc == apply_jsonl(Accumulator(~over), text, ~over)
    IN accumulator_summary(IF over THEN [acc EXCEPT !.alive = FALSE, !.pending = <<>>] ELSE acc)
Full(a) == Whole(lines[a], Ended(pi[a]))
Same2(x, y) == /\ DOMAIN x.files = DOMAIN y.files
               /\ \A p \in DOMAIN x.files : /\ x.files[p].lines = y.files[p].lines
                                            /\ "page" \in scene.all \/ x.files[p].status = y.files[p].status

(* What the cache says of a log is what parsing the whole log says, however  *)
(* chunks, cold reads, pages, restarts and a deletion interleave; only a     *)
(* running attempt whose one call failed may still show it, and only what    *)
(* the sidecar brought may be older.                                         *)
ChangesTrue ==
    /\ \A a \in Attempts :
        LET c == cached[a] IN
        /\ ~c.hydrated /\ c.changes # Absent => \/ Same2(c.changes, Full(a))
                                                \/ ~Ended(pi[a]) /\ Full(a) = Nothing
        /\ c.scanned = <<Len(lines[a]), ~Ended(pi[a])>> /\ c.changes = Absent => Full(a) = Nothing
        /\ "crash" \notin scene.all /\ Ended(pi[a]) /\ ~cacheRun.gone =>
              Same2(Full(a), IF c.changes = Absent THEN Nothing ELSE c.changes)
    /\ planner.changes # Absent /\ planner.told = Len(planner.log) =>
          Same2(planner.changes, Whole(planner.log, planner.over))

(* A call counts once if it succeeded, whichever lines report it, and not if *)
(* it failed.                                                                *)
Succeeded(text) == {id \in DOMAIN Calls : \E i \in DOMAIN text : text[i].t \in {"end", "result"} /\ text[i].id = id /\ text[i].ok}
SumLines(ids) == FoldSet(LAMBDA id, n : n + Calls[id].lines, 0, ids)
CountedOnce ==
    \A a \in Attempts :
        LET ok == {id \in Succeeded(lines[a]) : Calls[id].tool # "read"}
            moved == {Calls[id].old : id \in {i \in ok : Calls[i].tool = "mv"}}
            files == Whole(lines[a], TRUE).files
            edits(p) == {id \in ok : Calls[id].path = p}
        IN /\ DOMAIN files = {Calls[id].path : id \in ok} \ moved
           /\ \A p \in DOMAIN files : (\A id \in edits(p) : Calls[id].tool = "edit") =>
                 files[p].lines = SumLines(edits(p))

(* A finished attempt's files are all in the sidecar, whatever the cache    *)
(* held when later attempts rewrote it.                                      *)
SidecarKeeps ==
    \A a \in Attempts : pi[a].status = "done" /\ Full(a) # Nothing =>
        /\ sidecar[a] # Absent
        /\ DOMAIN Full(a).files \subseteq DOMAIN sidecar[a].files

(* An answer names every file of every attempt that had ended when it was    *)
(* asked, however the cold read raced the writer and other requests.         *)
AnswersComplete ==
    \A r \in Requests : request[r].at = "answer" /\ ~cacheRun.gone =>
        \A a \in Attempts : pi[a].status # "none" /\ ~request[r].snap[a].running /\ ~cached[a].hydrated =>
            DOMAIN Full(a).files \subseteq DOMAIN get_cached_run_changes(r).files

TranscriptExact == InOrder /\ MetricsTrue /\ ChangesTrue /\ CountedOnce /\ SidecarKeeps /\ AnswersComplete
=============================================================================
