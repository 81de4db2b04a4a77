----------------------------- MODULE EngineTurn -----------------------------
(***************************************************************************)
(* One turn of an engine process that speaks RPC, and the messages sent    *)
(* into it while it runs: run_turn, finish_turn, send_steer and the RPC    *)
(* registry of engine.rs, engine/context_stats.rs, and the Planner steers  *)
(* of server.rs (steer_planner, observe_planner_steer_line and             *)
(* expire_planner_steer_confirmation).                                     *)
(*                                                                         *)
(* The engine, Pi, is external.  It reads commands from its input, answers *)
(* each of them, and writes events.  A message that it accepts is consumed *)
(* as a user turn, at once or when the reply it works on is over.  Times   *)
(* are abstracted to the thresholds the code compares them with.           *)
(*                                                                         *)
(* An operator X_Fault, defined before X, is a faulty variant of X.        *)
(***************************************************************************)
EXTENDS Naturals, Sequences, FiniteSets, SequencesExt

CONSTANTS
    Calls,     \* HTTP requests that steer
    Requests,  \* their durable request identities; a retry repeats one
    Of,        \* the identity each call carries
    None,
    MaxErrors  \* bound: failed replies the engine retries by itself

ASSUME CallsAssumption ==
    /\ Of \in [Calls -> Requests] /\ MaxErrors \in Nat
    /\ None \notin Calls /\ "initial" \notin Requests

VARIABLES
    rpc,     \* the registry: is there an entry, and who holds a clone of its sender
    pipe,    \* commands on their way to the engine
    pi,      \* the engine: its state, the steers it will consume, its failed replies
    out,     \* events on their way from the engine
    pending, \* steers whose answer keeps the turn open
    turn,    \* the thread of the turn
    stats,   \* ContextStats
    status,  \* per request: its durable status
    call,    \* per HTTP request: how far it is
    mutex,   \* the call that holds the Run's mutex while it sends
    eaten    \* history: how often the engine consumed each request

vars == <<rpc, pipe, pi, out, pending, turn, stats, status, call, mutex, eaten>>

Prompt == [cmd |-> "prompt", id |-> None]
Stats == [cmd |-> "stats", id |-> None]
Steer(r) == [cmd |-> "steer", id |-> r]
Event(t, id, v) == [type |-> t, id |-> id, value |-> v]

Init ==
    /\ rpc = [entry |-> TRUE, clones |-> {}]
    /\ pipe = <<Prompt, Stats>>
    /\ pi = [at |-> "idle", queue |-> <<>>, errors |-> 0]
    /\ out = <<>>
    /\ pending = {}
    /\ \E slow \in BOOLEAN :  \* the engine may answer a steer after its ten seconds
          turn = [pc |-> "loop", ended |-> "no", error |-> FALSE, text |-> FALSE,
                  late |-> FALSE, result |-> None, slow |-> slow]
    /\ stats = [on |-> TRUE, waiting |-> TRUE, dirty |-> FALSE]
    /\ status = [r \in Requests |-> "none"]
    /\ call = [c \in Calls |-> "new"]
    /\ mutex = None
    /\ eaten = [r \in Requests |-> 0]

Up == pi.at \in {"idle", "busy"}
Open == turn.pc \in {"loop", "closing"} \/ rpc.clones # {}

----------------------------------------------------------------------------
(* The engine.                                                             *)
Says(es) == out' = out \o es
Takes == pipe' = Tail(pipe)
Next_(cmd) == Up /\ pipe # <<>> /\ Head(pipe).cmd = cmd

PiPrompt(ok) ==
    /\ Next_("prompt") /\ Takes
    /\ IF ok THEN /\ pi' = [pi EXCEPT !.at = "busy"]
                  /\ Says(<<Event("start", None, TRUE)>>)
       ELSE Says(<<Event("answer", "initial", "failed")>>) /\ UNCHANGED pi
    /\ UNCHANGED <<rpc, pending, turn, stats, status, call, mutex, eaten>>

\* A steer is queued behind the reply in progress, accepted, handled as a
\* command that makes no user turn, or refused.
PiSteer(disposition) ==
    /\ Next_("steer") /\ Takes
    /\ disposition = "queued" => pi.at = "busy"
    /\ disposition = "accepted" => pi.at = "idle"
    /\ LET r == Head(pipe).id IN
       /\ Says(<<Event("answer", r, disposition)>>)
       /\ pi' = IF disposition \in {"queued", "accepted"}
                THEN [pi EXCEPT !.queue = Append(@, r)] ELSE pi
    /\ UNCHANGED <<rpc, pending, turn, stats, status, call, mutex, eaten>>

PiStats(ok) ==
    /\ Next_("stats") /\ Takes
    /\ Says(<<Event("stats", None, ok)>>)
    /\ UNCHANGED <<rpc, pi, pending, turn, stats, status, call, mutex, eaten>>

\* An engine without statistics says nothing.
PiIgnoresStats ==
    /\ Next_("stats") /\ Takes
    /\ UNCHANGED <<rpc, pi, out, pending, turn, stats, status, call, mutex, eaten>>

\* The next accepted message becomes a user turn.
PiConsume ==
    /\ Up /\ pi.queue # <<>>
    /\ LET r == Head(pi.queue) IN
       /\ Says((IF pi.at = "idle" THEN <<Event("start", None, TRUE)>> ELSE <<>>)
               \o <<Event("user", r, TRUE)>>)
       /\ eaten' = [eaten EXCEPT ![r] = @ + 1]
    /\ pi' = [pi EXCEPT !.queue = Tail(@), !.at = "busy"]
    /\ UNCHANGED <<rpc, pipe, pending, turn, stats, status, call, mutex>>

\* A reply ends, with the text of the turn or with an error; after an error
\* the engine may try again by itself.
PiReply(ok, settles) ==
    /\ pi.at = "busy" /\ pi.queue = <<>>
    /\ settles \/ (~ok /\ pi.errors < MaxErrors)
    /\ Says(<<Event("message", None, ok)>>
            \o (IF settles THEN <<Event("settled", None, TRUE)>> ELSE <<>>))
    /\ pi' = [pi EXCEPT !.at = IF settles THEN "idle" ELSE @,
                        !.errors = IF settles THEN @ ELSE @ + 1]
    /\ UNCHANGED <<rpc, pipe, pending, turn, stats, status, call, mutex, eaten>>

\* It ends when its input is closed and it has nothing to do, or dies.
PiExit ==
    /\ pi.at = "idle" /\ ~Open /\ pipe = <<>>
    /\ pi' = [pi EXCEPT !.at = "exited"]
    /\ UNCHANGED <<rpc, pipe, out, pending, turn, stats, status, call, mutex, eaten>>

PiDies ==
    /\ Up
    /\ pi' = [pi EXCEPT !.at = "died"]
    /\ UNCHANGED <<rpc, pipe, out, pending, turn, stats, status, call, mutex, eaten>>

----------------------------------------------------------------------------
(* The thread of the turn.                                                 *)

\* ContextStats::changed: one request at a time, and one more when something
\* changed meanwhile.
Advanced(s) == IF ~s.on THEN s
               ELSE IF s.waiting THEN [s EXCEPT !.dirty = TRUE]
               ELSE [s EXCEPT !.waiting = TRUE]
Asks(s) == s.on /\ ~s.waiting

\* ContextStats::response
Answered(ok) == IF ok THEN [stats EXCEPT !.waiting = stats.dirty, !.dirty = FALSE]
                ELSE [on |-> FALSE, waiting |-> FALSE, dirty |-> FALSE]

\* observe_planner_steer_line: what the line proves, unless the status is final
Final == {"consumed", "handled", "failed"}
Observed(r, next) ==
    IF status[r] = "none" \/ (status[r] \in Final /\ next # "consumed") THEN status
    ELSE [status EXCEPT ![r] = next]

Reads == turn.pc = "loop" /\ out # <<>>
Consumes == out' = Tail(out)

ReadStart ==
    /\ Reads /\ Head(out).type = "start" /\ Consumes
    /\ turn' = [turn EXCEPT !.ended = "no"]
    /\ UNCHANGED <<rpc, pipe, pi, pending, stats, status, call, mutex, eaten>>

ReadMessage_KeepsError ==
    /\ Reads /\ Head(out).type = "message" /\ Consumes
    /\ turn' = [turn EXCEPT !.text = Head(out).value, !.error = @ \/ ~Head(out).value]
    /\ stats' = Advanced(stats)
    /\ pipe' = IF Asks(stats) THEN Append(pipe, Stats) ELSE pipe
    /\ UNCHANGED <<rpc, pi, pending, status, call, mutex, eaten>>

ReadMessage ==
    /\ Reads /\ Head(out).type = "message" /\ Consumes
    /\ turn' = [turn EXCEPT !.text = Head(out).value, !.error = ~Head(out).value]
    /\ stats' = Advanced(stats)
    /\ pipe' = IF Asks(stats) THEN Append(pipe, Stats) ELSE pipe
    /\ UNCHANGED <<rpc, pi, pending, status, call, mutex, eaten>>

ReadSettled ==
    /\ Reads /\ Head(out).type = "settled" /\ Consumes
    /\ turn' = [turn EXCEPT !.ended = "recent"]
    /\ stats' = Advanced(stats)
    /\ pipe' = IF Asks(stats) THEN Append(pipe, Stats) ELSE pipe
    /\ UNCHANGED <<rpc, pi, pending, status, call, mutex, eaten>>

ReadStats ==
    /\ Reads /\ Head(out).type = "stats" /\ Consumes
    /\ stats' = IF stats.waiting THEN Answered(Head(out).value) ELSE stats
    /\ pipe' = IF stats.waiting /\ Head(out).value /\ stats.dirty THEN Append(pipe, Stats) ELSE pipe
    /\ UNCHANGED <<rpc, pi, pending, turn, status, call, mutex, eaten>>

ReadRejected ==
    /\ Reads /\ Head(out).type = "answer" /\ Head(out).id = "initial" /\ Consumes
    /\ turn' = [turn EXCEPT !.error = TRUE, !.ended = "recent"]
    /\ UNCHANGED <<rpc, pipe, pi, pending, stats, status, call, mutex, eaten>>

\* An accepted steer reopens a turn that had settled, when its sender still
\* waits for the answer.
ReadAnswer_Closes ==
    /\ Reads /\ Head(out).type = "answer" /\ Head(out).id # "initial" /\ mutex = None /\ Consumes
    /\ pending' = pending \ {Head(out).id}
    /\ status' = Observed(Head(out).id, Head(out).value)
    /\ UNCHANGED <<rpc, pipe, pi, turn, stats, call, mutex, eaten>>

ReadAnswer ==
    /\ Reads /\ Head(out).type = "answer" /\ Head(out).id # "initial" /\ mutex = None /\ Consumes
    /\ pending' = pending \ {Head(out).id}
    /\ turn' = IF Head(out).id \in pending /\ Head(out).value \in {"queued", "accepted"}
               THEN [turn EXCEPT !.ended = "no"] ELSE turn
    /\ status' = Observed(Head(out).id, Head(out).value)
    /\ UNCHANGED <<rpc, pipe, pi, stats, call, mutex, eaten>>

ReadUser ==
    /\ Reads /\ Head(out).type = "user" /\ mutex = None /\ Consumes
    /\ status' = Observed(Head(out).id, "consumed")
    /\ UNCHANGED <<rpc, pipe, pi, pending, turn, stats, call, mutex, eaten>>

\* The handoff window, and the second that the last statistics get.
Tick ==
    /\ turn.pc = "loop" /\ turn.ended \in {"recent", "due"}
    /\ turn' = [turn EXCEPT !.ended = IF @ = "recent" THEN "due" ELSE "overdue"]
    /\ UNCHANGED <<rpc, pipe, pi, out, pending, stats, status, call, mutex, eaten>>

Close_WaitsForStats ==
    /\ turn.pc = "loop"
    /\ turn.ended \in {"due", "overdue"} /\ pending = {} /\ ~stats.waiting
    /\ turn' = [turn EXCEPT !.pc = "closing"]
    /\ UNCHANGED <<rpc, pipe, pi, out, pending, stats, status, call, mutex, eaten>>

Close ==
    /\ turn.pc = "loop"
    /\ turn.ended \in {"due", "overdue"} /\ pending = {}
    /\ ~stats.waiting \/ turn.ended = "overdue"
    /\ turn' = [turn EXCEPT !.pc = "closing"]
    /\ UNCHANGED <<rpc, pipe, pi, out, pending, stats, status, call, mutex, eaten>>

\* The engine is gone and everything it wrote is read.
Eof ==
    /\ turn.pc = "loop" /\ ~Up /\ out = <<>>
    /\ turn' = [turn EXCEPT !.pc = "closing"]
    /\ UNCHANGED <<rpc, pipe, pi, out, pending, stats, status, call, mutex, eaten>>

\* The deadline of the turn: the engine is killed.
Timeout ==
    /\ turn.pc = "loop"
    /\ turn' = [turn EXCEPT !.pc = "closing", !.late = TRUE]
    /\ pi' = [pi EXCEPT !.at = IF Up THEN "died" ELSE @]
    /\ UNCHANGED <<rpc, pipe, out, pending, stats, status, call, mutex, eaten>>

\* finish_turn: the registry entry goes first, then the input.
Unregister ==
    /\ turn.pc = "closing"
    /\ rpc' = [rpc EXCEPT !.entry = FALSE]
    /\ turn' = [turn EXCEPT !.pc = "reaping"]
    /\ UNCHANGED <<pipe, pi, out, pending, stats, status, call, mutex, eaten>>

\* A settled reply counts although its process ends badly; otherwise the
\* process must have ended well.
Reap ==
    /\ turn.pc = "reaping" /\ ~Up
    /\ turn' = [turn EXCEPT !.pc = "done",
                            !.result = IF /\ ~turn.late /\ ~turn.error /\ turn.text
                                          /\ turn.ended # "no" \/ pi.at = "exited"
                                       THEN "ok" ELSE "failed"]
    /\ UNCHANGED <<rpc, pipe, pi, out, pending, stats, status, call, mutex, eaten>>

----------------------------------------------------------------------------
(* The HTTP requests.                                                      *)

\* A retry of a request that is recorded changes nothing.
Arrive(c) ==
    /\ call[c] = "new"
    /\ call' = [call EXCEPT ![c] = IF status[Of[c]] # "none" \/ turn.pc = "done"
                                   THEN "answered" ELSE "waiting"]
    /\ UNCHANGED <<rpc, pipe, pi, out, pending, turn, stats, status, mutex, eaten>>

\* Recorded as submitted, under the Run's mutex, and the registry is looked
\* up; when the engine is gone the failure is recorded.
Submit(c) ==
    /\ call[c] = "waiting" /\ mutex = None
    /\ IF status[Of[c]] # "none" \/ ~rpc.entry
       THEN call' = [call EXCEPT ![c] = "answered"] /\ UNCHANGED <<rpc, status, mutex>>
       ELSE /\ status' = [status EXCEPT ![Of[c]] = "submitted"]
            /\ rpc' = [rpc EXCEPT !.clones = @ \cup {c}]
            /\ call' = [call EXCEPT ![c] = "sending"] /\ mutex' = c
    /\ UNCHANGED <<pipe, pi, out, pending, turn, stats, eaten>>

\* The entry went away between the look at it and the submission.
SubmitLate(c) ==
    /\ call[c] = "waiting" /\ mutex = None
    /\ status[Of[c]] = "none" /\ ~rpc.entry /\ turn.pc # "done"
    /\ status' = [status EXCEPT ![Of[c]] = "failed"]
    /\ call' = [call EXCEPT ![c] = "answered"]
    /\ UNCHANGED <<rpc, pipe, pi, out, pending, turn, stats, mutex, eaten>>

\* The answer is waited for before the command is sent.
Send(c) ==
    /\ call[c] = "sending" /\ mutex = c
    /\ IF ~Up /\ turn.pc = "done"
       THEN status' = [status EXCEPT ![Of[c]] = "failed"] /\ UNCHANGED <<pipe, pending>>
       ELSE /\ pending' = pending \cup {Of[c]}
            /\ pipe' = Append(pipe, Steer(Of[c])) /\ UNCHANGED status
    /\ rpc' = [rpc EXCEPT !.clones = @ \ {c}]
    /\ call' = [call EXCEPT ![c] = "answered"] /\ mutex' = None
    /\ UNCHANGED <<pi, out, turn, stats, eaten>>

\* Ten seconds later: the turn is no longer kept open for the answer ...
Unanswered(r) == \/ \E i \in 1 .. Len(pipe) : pipe[i] = Steer(r)
                 \/ \E i \in 1 .. Len(out) : out[i].type = "answer" /\ out[i].id = r
Abandon(r) ==
    /\ r \in pending
    /\ turn.slow \/ ~Up \/ turn.pc # "loop" \/ ~Unanswered(r)
    /\ pending' = pending \ {r}
    /\ UNCHANGED <<rpc, pipe, pi, out, turn, stats, status, call, mutex, eaten>>

\* ... and a status that is still "submitted" becomes unknown.
Expire(r) ==
    /\ status[r] = "submitted" /\ mutex = None
    /\ status' = [status EXCEPT ![r] = "unknown"]
    /\ UNCHANGED <<rpc, pipe, pi, out, pending, turn, stats, call, mutex, eaten>>

----------------------------------------------------------------------------
Pi == \/ \E ok \in BOOLEAN : PiPrompt(ok) \/ PiStats(ok)
      \/ \E d \in {"queued", "accepted", "handled", "failed"} : PiSteer(d)
      \/ PiIgnoresStats \/ PiConsume \/ PiExit
      \/ \E ok, s \in BOOLEAN : PiReply(ok, s)

Turn == \/ ReadStart \/ ReadMessage \/ ReadSettled \/ ReadStats \/ ReadRejected
        \/ ReadAnswer \/ ReadUser \/ Tick \/ Close \/ Eof \/ Unregister \/ Reap

Http == \/ \E c \in Calls : Arrive(c) \/ Submit(c) \/ SubmitLate(c) \/ Send(c)
        \/ \E r \in Requests : Abandon(r) \/ Expire(r)

Next == Pi \/ PiDies \/ Turn \/ Timeout \/ Http

Spec == Init /\ [][Next]_vars

(* The engine works, the thread of the turn runs, its timers pass, and so  *)
(* do the ten seconds of a steer.  Nothing makes the engine die.           *)
Fairness ==
    /\ WF_vars(Pi) /\ WF_vars(Turn)
    /\ \A c \in Calls : WF_vars(Submit(c) \/ SubmitLate(c)) /\ WF_vars(Send(c))
    /\ \A r \in Requests : WF_vars(Abandon(r)) /\ WF_vars(Expire(r))

FairSpec == Spec /\ Fairness

----------------------------------------------------------------------------
(* Properties.                                                             *)
Statuses == {"none", "submitted", "accepted", "queued", "handled", "failed", "consumed", "unknown"}

\* Every variable holds a value the code can give it, and the mutex is held
\* by the call that sends.
TypeOK ==
    /\ pending \subseteq Requests /\ rpc.clones \subseteq Calls
    /\ turn.pc \in {"loop", "closing", "reaping", "done"}
    /\ turn.ended \in {"no", "recent", "due", "overdue"}
    /\ status \in [Requests -> Statuses]
    /\ call \in [Calls -> {"new", "waiting", "sending", "answered"}]
    /\ mutex \in Calls \cup {None}
    /\ \A c \in Calls : call[c] = "sending" <=> mutex = c

\* A message reaches the engine at most once, however often its HTTP request
\* is repeated (server.rs 4059).
SteerOnce == \A r \in Requests : eaten[r] <= 1

\* What the record says of a message is true: consumed only when the engine
\* read it, failed or handled only when it never will.
StatusTrue ==
    \A r \in Requests :
        /\ status[r] = "consumed" => eaten[r] = 1
        /\ status[r] \in {"failed", "handled"} =>
              eaten[r] = 0 /\ ~Contains(pi.queue, r) /\ ~Contains(pipe, Steer(r))

\* A turn that ends because the engine settled does not cut off a message the
\* engine had accepted (engine.rs 1606), as long as the engine answers within
\* the ten seconds that its answer is waited for.
AcceptedIsConsumed ==
    (turn.pc = "closing" /\ Up /\ ~turn.slow) =>
        \A r \in Requests : status[r] \in {"accepted", "queued"} => eaten[r] = 1

\* A turn that settled in time succeeds exactly when its last reply did: an
\* error the engine retried does not fail it, and neither does a process that
\* ends badly afterwards; no turn succeeds without a reply.
ResultIsLastReply ==
    turn.result # None =>
        /\ turn.result = "ok" => turn.text
        /\ (turn.ended # "no" /\ ~turn.late) => (turn.result = "ok") = turn.text

\* Once the engine has settled and is sent nothing more the turn ends, with
\* or without the statistics it asked for.
TurnEnds == <>(turn.pc = "done")

\* Whoever sent a message is told something other than "submitted".
SenderTold == \A r \in Requests : status[r] = "submitted" ~> status[r] # "submitted"

\* A message steered into a turn reaches the engine once, is reported
\* truthfully and is not cut off by the end of the turn.
SteersTold == TypeOK /\ SteerOnce /\ StatusTrue /\ AcceptedIsConsumed

\* The turn ends, and whoever sent it a message is told.
TurnProgress == TurnEnds /\ SenderTold
============================================================================
