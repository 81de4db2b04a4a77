------------------------------ MODULE MCRecords ------------------------------
(***************************************************************************)
(* What the backend keeps of a Run, checked part by part: the event store  *)
(* (Store), the directories that are given up (Reclaim) and the output of  *)
(* the attempts (Transcript).  The parts share no state, so a behaviour    *)
(* exercises one of them and the other two stay as they start.             *)
(***************************************************************************)
EXTENDS Store, Reclaim, Transcript

CONSTANTS ca, cb    \* two conversations

VARIABLE part

vars == <<part, storeVars, reclaimVars, transcriptVars>>

(* Store: a Run with one event, one whose checkpoint is behind its output  *)
(* rows, and one written before logs had a table of their own.             *)
OldChar(n) == <<n + 100, 1>>
OldRow(i, kind, text) == [seq |-> i, run |-> 1, kind |-> kind, bytes |-> 0, text |-> text]
Database(rs, c) == [rows |-> rs, ckpt |-> [r \in Runs |-> c]]
MCHistories ==
    {Database(<<OldRow(1, "note", <<>>)>>, None),
     Database(<<OldRow(1, "start", <<>>), OldRow(2, "output", <<OldChar(1), OldChar(2)>>),
                OldRow(3, "output", <<OldChar(3)>>)>>,
              [seq |-> 1, current |-> FALSE, state |-> [Blank EXCEPT !.status = "failed"]]),
     Database(<<OldRow(1, "start", <<>>), OldRow(2, "output", <<OldChar(1)>>),
                OldRow(3, "finish", <<OldChar(1), OldChar(2), OldChar(3)>>)>>, None)}
MCWidths == {<<1>>, <<2, 1>>}

(* Reclaim: the machines, each with the faults and races it may meet.      *)
Plain == [can |-> {}, git |-> FALSE, serial |-> {}, plans |-> {}, old |-> {}, known |-> {},
          fresh |-> {}, max |-> 2, odd |-> FALSE, worker |-> FALSE, gone |-> FALSE,
          inside |-> [c \in Convs |-> <<>>], up |-> TRUE, guard |-> "none", crashes |-> 0, fails |-> 0]
MCHosts ==
    {[Plain EXCEPT !.fresh = {ca}, !.worker = TRUE, !.crashes = 1, !.fails = 1],
     [Plain EXCEPT !.old = {ca}, !.known = {ca}, !.worker = TRUE, !.can = {"reset"}, !.max = 4, !.fails = 1],
     [Plain EXCEPT !.old = {ca, cb}, !.known = {ca, cb}],
     [Plain EXCEPT !.old = {ca, cb}, !.plans = {ca, cb}, !.git = TRUE],
     [Plain EXCEPT !.old = {ca}, !.odd = TRUE, !.can = {"move", "offline"}, !.crashes = 1],
     [Plain EXCEPT !.old = {ca}, !.known = {ca}, !.fresh = {cb}, !.serial = {cb}, !.crashes = 1,
                   !.inside = [c \in Convs |-> IF c = cb THEN Work(ca) ELSE <<>>], !.can = {"offline"}],
     [Plain EXCEPT !.old = {ca}, !.max = 4, !.fails = 1, !.can = {"clear", "lookup", "late"}],
     [Plain EXCEPT !.old = {ca, cb}, !.can = {"clear", "late"}]}

(* Transcript: what the engines print, which faults happen, how often the  *)
(* front end reads.                                                        *)
ToolCall(tool, path, old, n) == [tool |-> tool, path |-> path, old |-> old, lines |-> n]
MCCalls == <<ToolCall("edit", 1, Absent, 2), ToolCall("edit", 1, Absent, 1),
             ToolCall("read", 2, Absent, 0), ToolCall("write", 2, Absent, 3), ToolCall("mv", 3, 1, 0)>>
D(n) == [t |-> "delta", n |-> n]
Ask(i, n, m) == [t |-> "ask", id |-> i, n |-> n, model |-> m]
Go(i) == [t |-> "call", id |-> i, n |-> 0]
End(i, ok) == [t |-> "end", id |-> i, ok |-> ok, n |-> 0]
Result(i, ok) == [t |-> "result", id |-> i, ok |-> ok, n |-> 0]
Ctx(n) == [t |-> "context", n |-> n, window |-> 9]
Exits == [t |-> "exited", n |-> 0]
Script(first, second, can, reads) ==
    [prints |-> [x \in Attempts |-> IF x = 1 THEN first ELSE second], plan |-> <<>>,
     git |-> [x \in Attempts |-> Absent], can |-> can, all |-> can, reads |-> reads]
GitRow(p, n) == [files |-> (p :> [path |-> p, old |-> Absent, lines |-> n, running |-> FALSE,
                                  source |-> "git", status |-> "modified"]), busy |-> FALSE]
MCScripts ==
    {Script(<<D(1), D(1), D(1), Ask(1, 3, "m"), Go(1), End(1, TRUE), Result(1, TRUE), D(2)>>, <<>>, {"disk"}, 1),
     Script(<<Go(3), End(3, TRUE), D(1), Ask(4, 1, "n"), Go(4), End(4, TRUE)>>, <<>>, {"page"}, 1),
     Script(<<Go(1), End(1, FALSE), Go(2), End(2, TRUE), Exits>>, <<>>, {"crash"}, 1),
     Script(<<Ctx(4), Go(1), End(1, TRUE), Go(5)>>, <<>>, {"delete"}, 2),
     [Script(<<Go(1), End(1, TRUE)>>, <<Go(2), Result(2, TRUE), Ctx(0)>>, {"crash"}, 1)
         EXCEPT !.git = [x \in Attempts |-> IF x = 1 THEN GitRow(1, 2) ELSE Absent]],
     [Script(<<>>, <<>>, {"retry", "crash"}, 2) EXCEPT !.plan = <<D(1), Go(1), End(1, TRUE)>>]}

Init ==
    /\ part \in {"store", "reclaim", "transcript"}
    /\ StoreInit /\ ReclaimInit /\ TranscriptInit
    /\ part # "store" => rows = (CHOOSE h \in Histories : TRUE).rows
    /\ part # "reclaim" => host = (CHOOSE h \in Hosts : TRUE)
    /\ part # "transcript" => scene = (CHOOSE s \in Scripts : TRUE)

Next ==
    /\ \/ part = "store" /\ StoreNext /\ UNCHANGED <<reclaimVars, transcriptVars>>
       \/ part = "reclaim" /\ ReclaimNext /\ UNCHANGED <<storeVars, transcriptVars>>
       \/ part = "transcript" /\ TranscriptNext /\ UNCHANGED <<storeVars, reclaimVars>>
    /\ UNCHANGED part

(* The cleanup threads run whenever a task is due.                         *)
Reclaiming(A) == part = "reclaim" /\ A /\ UNCHANGED <<part, storeVars, transcriptVars>>
Spec ==
    /\ Init /\ [][Next]_vars
    /\ \A t \in Threads : WF_vars(Reclaiming(Works(t)))
    /\ WF_vars(Reclaiming(cleanup_worktrees)) /\ WF_vars(Reclaiming(reclaim_shadow))
    /\ WF_vars(Reclaiming(clear_history)) /\ WF_vars(Reclaiming(retry_cleanup_tasks))
    /\ WF_vars(Reclaiming(recover_cleanup_tasks))
=============================================================================
