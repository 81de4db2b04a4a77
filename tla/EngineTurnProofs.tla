-------------------------- MODULE EngineTurnProofs --------------------------
(***************************************************************************)
(* Proofs about module EngineTurn, for any number of calls and requests,   *)
(* any order of answers and any number of failed replies: SteersTold (a    *)
(* message reaches the engine once, its record is true, and a turn that    *)
(* settles does not cut it off) and ResultIsLastReply.                     *)
(*                                                                         *)
(* The inductive invariant follows a request through the places it can be: *)
(* with its call, in the pipe, in the engine's queue, consumed; with the   *)
(* events about it that the turn has not read yet (Placed), and with the   *)
(* order of these events against those that end the turn (Kept).           *)
(***************************************************************************)
EXTENDS EngineTurn, SequenceTheorems, TLAPS

----------------------------------------------------------------------------
(* Sequences that are read at their head and written at their end.         *)
Has(s, X) == \E i \in 1 .. Len(s) : s[i] \in X
Once(s, X) == \A i, j \in 1 .. Len(s) : s[i] \in X /\ s[j] \in X => i = j
\* Whatever is in Y comes before whatever is in X.
Before(s, Y, X) == \A i, j \in 1 .. Len(s) : s[i] \in X /\ s[j] \in Y => j < i

\* Reading the head of a sequence.
LEMMA TailReads ==
    ASSUME NEW S, NEW s \in Seq(S), s # <<>>, NEW X
    PROVE  /\ Head(s) \in S /\ Tail(s) \in Seq(S)
           /\ Head(s) \in X => Has(s, X)
           /\ Has(Tail(s), X) => Has(s, X)
           /\ Has(s, X) => Head(s) \in X \/ Has(Tail(s), X)
           /\ Once(s, X) => Once(Tail(s), X)
           /\ Once(s, X) /\ Head(s) \in X => ~Has(Tail(s), X)
<1>1. /\ Len(s) \in Nat \ {0} /\ Head(s) = s[1] /\ Head(s) \in S
      /\ Tail(s) \in Seq(S) /\ Len(Tail(s)) = Len(s) - 1
      /\ \A i \in 1 .. Len(Tail(s)) : Tail(s)[i] = s[i + 1]
  BY HeadTailProperties, EmptySeq, LenProperties
<1>2. Has(s, X) => Head(s) \in X \/ Has(Tail(s), X)
  <2>1. SUFFICES ASSUME NEW i \in 1 .. Len(s), s[i] \in X, i # 1
                 PROVE  Has(Tail(s), X)
    BY <1>1 DEF Has
  <2>2. i - 1 \in 1 .. Len(Tail(s)) /\ Tail(s)[i - 1] = s[(i - 1) + 1] /\ (i - 1) + 1 = i
    BY <1>1, <2>1
  <2> QED BY <2>1, <2>2 DEF Has
<1>3. \A i \in 1 .. Len(Tail(s)) : i + 1 \in 1 .. Len(s)
  BY <1>1
<1>4. Has(Tail(s), X) => Has(s, X)
  BY <1>1, <1>3 DEF Has
<1>5. Once(s, X) => Once(Tail(s), X)
  <2>1. SUFFICES ASSUME Once(s, X), NEW i \in 1 .. Len(Tail(s)), NEW j \in 1 .. Len(Tail(s)),
                        Tail(s)[i] \in X, Tail(s)[j] \in X
                 PROVE  i = j
    BY DEF Once
  <2>2. i + 1 = j + 1
    BY <1>1, <1>3, <2>1 DEF Once
  <2> QED BY <1>1, <2>2
<1>6. Once(s, X) /\ Head(s) \in X => ~Has(Tail(s), X)
  <2>1. SUFFICES ASSUME Once(s, X), s[1] \in X, NEW i \in 1 .. Len(Tail(s)), Tail(s)[i] \in X
                 PROVE  FALSE
    BY <1>1 DEF Has
  <2>2. 1 = i + 1
    BY <1>1, <1>3, <2>1 DEF Once
  <2> QED BY <1>1, <2>2
<1>9. Head(s) \in X => Has(s, X)
  BY <1>1 DEF Has
<1> QED BY <1>1, <1>2, <1>4, <1>5, <1>6, <1>9

\* Reading the head keeps the order of the rest.
LEMMA TailOrder ==
    ASSUME NEW S, NEW s \in Seq(S), s # <<>>, NEW X, NEW Y, Before(s, Y, X)
    PROVE  Before(Tail(s), Y, X) /\ (Head(s) \in X => ~Has(Tail(s), Y))
<1>1. /\ Len(s) \in Nat \ {0} /\ Head(s) = s[1]
      /\ Tail(s) \in Seq(S) /\ Len(Tail(s)) = Len(s) - 1
      /\ \A i \in 1 .. Len(Tail(s)) : Tail(s)[i] = s[i + 1]
  BY HeadTailProperties, EmptySeq, LenProperties
<1>3. \A i \in 1 .. Len(Tail(s)) : i + 1 \in 1 .. Len(s)
  BY <1>1
<1>7. Before(s, Y, X) => Before(Tail(s), Y, X)
  <2>1. SUFFICES ASSUME Before(s, Y, X), NEW i \in 1 .. Len(Tail(s)), NEW j \in 1 .. Len(Tail(s)),
                        Tail(s)[i] \in X, Tail(s)[j] \in Y
                 PROVE  j < i
    BY DEF Before
  <2>2. j + 1 < i + 1
    BY <1>1, <1>3, <2>1 DEF Before
  <2> QED BY <1>1, <2>2
<1>8. Before(s, Y, X) /\ Head(s) \in X => ~Has(Tail(s), Y)
  <2>1. SUFFICES ASSUME Before(s, Y, X), s[1] \in X, NEW i \in 1 .. Len(Tail(s)), Tail(s)[i] \in Y
                 PROVE  FALSE
    BY <1>1 DEF Has
  <2>2. i + 1 < 1
    BY <1>1, <1>3, <2>1 DEF Before
  <2> QED BY <1>1, <2>2
<1> QED BY <1>7, <1>8

\* Writing at the end of a sequence.
LEMMA AppendWrites ==
    ASSUME NEW S, NEW s \in Seq(S), NEW e \in S, NEW X
    PROVE  /\ Append(s, e) \in Seq(S)
           /\ Has(s, X) => Has(Append(s, e), X)
           /\ Has(Append(s, e), X) => e \in X \/ Has(s, X)
           /\ e \in X => Has(Append(s, e), X)
           /\ Once(s, X) /\ (e \in X => ~Has(s, X)) => Once(Append(s, e), X)
<1>1. /\ Append(s, e) \in Seq(S) /\ Len(s) \in Nat /\ Len(Append(s, e)) = Len(s) + 1
      /\ \A i \in 1 .. Len(s) : Append(s, e)[i] = s[i]
      /\ Append(s, e)[Len(s) + 1] = e
  BY AppendProperties, LenProperties
<1>2. \A i \in 1 .. Len(Append(s, e)) : i \in 1 .. Len(s) \/ i = Len(s) + 1
  BY <1>1
<1>3. \A i \in 1 .. Len(s) : i \in 1 .. Len(Append(s, e)) /\ i < Len(s) + 1
  BY <1>1
<1>4. Len(s) + 1 \in 1 .. Len(Append(s, e))
  BY <1>1
<1>5. Has(s, X) => Has(Append(s, e), X)
  BY <1>1, <1>3 DEF Has
<1>6. Has(Append(s, e), X) => e \in X \/ Has(s, X)
  BY <1>1, <1>2 DEF Has
<1>7. e \in X => Has(Append(s, e), X)
  BY <1>1, <1>4 DEF Has
<1>8. Once(s, X) /\ (e \in X => ~Has(s, X)) => Once(Append(s, e), X)
  <2>1. SUFFICES ASSUME Once(s, X), e \in X => ~Has(s, X),
                        NEW i \in 1 .. Len(Append(s, e)), NEW j \in 1 .. Len(Append(s, e)),
                        Append(s, e)[i] \in X, Append(s, e)[j] \in X
                 PROVE  i = j
    BY DEF Once
  <2>2. CASE i \in 1 .. Len(s) /\ j \in 1 .. Len(s)
    BY <1>1, <2>1, <2>2 DEF Once
  <2>3. CASE i = Len(s) + 1 /\ j \in 1 .. Len(s)
    BY <1>1, <2>1, <2>3 DEF Has
  <2>4. CASE j = Len(s) + 1 /\ i \in 1 .. Len(s)
    BY <1>1, <2>1, <2>4 DEF Has
  <2> QED BY <1>2, <2>1, <2>2, <2>3, <2>4
<1> QED BY <1>1, <1>5, <1>6, <1>7, <1>8

\* Writing keeps the order, when what is written need not come first.
LEMMA AppendOrder ==
    ASSUME NEW S, NEW s \in Seq(S), NEW e \in S, NEW X, NEW Y, e \notin Y,
           Before(s, Y, X) \/ ~Has(s, X)
    PROVE  Before(Append(s, e), Y, X)
<1>1. /\ Append(s, e) \in Seq(S) /\ Len(s) \in Nat /\ Len(Append(s, e)) = Len(s) + 1
      /\ \A i \in 1 .. Len(s) : Append(s, e)[i] = s[i]
      /\ Append(s, e)[Len(s) + 1] = e
  BY AppendProperties, LenProperties
<1>2. \A i \in 1 .. Len(Append(s, e)) : i \in 1 .. Len(s) \/ i = Len(s) + 1
  BY <1>1
<1>3. \A i \in 1 .. Len(s) : i \in 1 .. Len(Append(s, e)) /\ i < Len(s) + 1
  BY <1>1
<1>9. Before(s, Y, X) /\ e \notin Y => Before(Append(s, e), Y, X)
  <2>1. SUFFICES ASSUME Before(s, Y, X), e \notin Y,
                        NEW i \in 1 .. Len(Append(s, e)), NEW j \in 1 .. Len(Append(s, e)),
                        Append(s, e)[i] \in X, Append(s, e)[j] \in Y
                 PROVE  j < i
    BY DEF Before
  <2>2. j \in 1 .. Len(s)
    BY <1>1, <1>2, <2>1
  <2>3. CASE i \in 1 .. Len(s)
    BY <1>1, <2>1, <2>2, <2>3 DEF Before
  <2>4. CASE i = Len(s) + 1
    BY <1>3, <2>2, <2>4
  <2> QED BY <1>2, <2>1, <2>3, <2>4
<1>10. ~Has(s, X) => Before(s, Y, X)
  BY DEF Has, Before
<1> QED BY <1>9, <1>10

\* One or two events are written.
LEMMA ConcatWrites ==
    ASSUME NEW S, NEW s \in Seq(S), NEW e \in S, NEW f \in S
    PROVE  /\ s \o <<>> = s
           /\ s \o <<e>> = Append(s, e)
           /\ s \o <<e, f>> = Append(Append(s, e), f)
           /\ <<>> \o <<e>> = <<e>> /\ <<e>> \o <<f>> = <<e, f>> /\ <<e>> \o <<>> = <<e>>
<1>1. s \o <<e>> = Append(s, e) /\ s \o <<>> = s
  BY AppendIsConcat, ConcatEmptySeq
<1>3. <<e>> \in Seq(S) /\ <<f>> \in Seq(S) /\ <<e, f>> \in Seq(S) /\ s \o <<e>> \in Seq(S)
  BY ConcatProperties
<1>2. <<e>> \o <<f>> = <<e, f>> /\ <<>> \o <<e>> = <<e>> /\ <<e>> \o <<>> = <<e>>
  <2>1. <<>> \o <<e>> = <<e>> /\ <<e>> \o <<>> = <<e>>
    BY <1>3, ConcatEmptySeq
  <2>2. /\ Len(<<e>>) = 1 /\ Len(<<f>>) = 1 /\ Len(<<e, f>>) = 2
        /\ <<e>>[1] = e /\ <<f>>[1] = f /\ <<e, f>>[1] = e /\ <<e, f>>[2] = f
    OBVIOUS
  <2>3. /\ <<e>> \o <<f>> \in Seq(S) /\ Len(<<e>> \o <<f>>) = 2
        /\ (<<e>> \o <<f>>)[1] = e /\ (<<e>> \o <<f>>)[2] = f
    BY <1>3, <2>2, ConcatProperties
  <2>4. \A i \in 1 .. 2 : (<<e>> \o <<f>>)[i] = <<e, f>>[i]
    BY <2>2, <2>3
  <2>5. <<e>> \o <<f>> = <<e, f>>
    BY <1>3, <2>2, <2>3, <2>4, SeqEqual
  <2> QED BY <2>1, <2>5
<1>4. s \o (<<e>> \o <<f>>) = (s \o <<e>>) \o <<f>>
  BY <1>3, ConcatAssociative
<1>5. (s \o <<e>>) \o <<f>> = Append(s \o <<e>>, f)
  BY <1>3, AppendIsConcat
<1> QED BY <1>1, <1>2, <1>4, <1>5

----------------------------------------------------------------------------
(* The inductive invariant.                                                *)
Dispositions == {"queued", "accepted", "handled", "failed"}
Commands == {Prompt, Stats} \cup {Steer(r) : r \in Requests}
Events == [type : {"start", "settled"}, id : {None}, value : {TRUE}]
          \cup [type : {"message", "stats"}, id : {None}, value : BOOLEAN]
          \cup [type : {"user"}, id : Requests, value : {TRUE}]
          \cup [type : {"answer"}, id : Requests \cup {"initial"}, value : Dispositions]

Steers(r) == {Steer(r)}
AnswersTo(r) == {e \in Events : e.type = "answer" /\ e.id = r}
Refusals(r) == {e \in AnswersTo(r) : e.value \in {"handled", "failed"}}
Accepts(r) == {e \in AnswersTo(r) : e.value \in {"queued", "accepted"}}
Users(r) == {e \in Events : e.type = "user" /\ e.id = r}
Replies == {e \in Events : e.type = "message"}
Settles == {e \in Events : e.type = "settled"}
Rejections == AnswersTo("initial")
Closers == Settles \cup Rejections

\* Every variable has its type.
Types ==
    /\ rpc \in [entry : BOOLEAN, clones : SUBSET Calls]
    /\ pipe \in Seq(Commands) /\ out \in Seq(Events) /\ pending \in SUBSET Requests
    /\ pi \in [at : {"idle", "busy", "exited", "died"}, queue : Seq(Requests), errors : Nat]
    /\ turn \in [pc : {"loop", "closing", "reaping", "done"},
                 ended : {"no", "recent", "due", "overdue"},
                 error : BOOLEAN, text : BOOLEAN, late : BOOLEAN, slow : BOOLEAN,
                 result : {None, "ok", "failed"}]
    /\ stats \in [on : BOOLEAN, waiting : BOOLEAN, dirty : BOOLEAN]
    /\ status \in [Requests -> Statuses]
    /\ call \in [Calls -> {"new", "waiting", "sending", "answered"}]
    /\ mutex \in Calls \cup {None} /\ \A c \in Calls : call[c] = "sending" <=> mutex = c
    /\ eaten \in [Requests -> {0, 1}]

\* The prompt is the first command, and nothing happens before it is read.
Prompted ==
    /\ Once(pipe, {Prompt})
    /\ Has(pipe, {Prompt}) =>
          /\ Head(pipe) = Prompt
          /\ out = <<>> /\ pi.queue = <<>> /\ pi.at # "busy" /\ ~turn.text

\* Nothing was sent of a request, or said about it.
Nowhere(r) ==
    /\ ~Has(pipe, Steers(r)) /\ ~Has(pi.queue, {r}) /\ eaten[r] = 0
    /\ ~Has(out, AnswersTo(r)) /\ ~Has(out, Users(r))

\* A request is in one place, and what is said about it fits that place.
Placed(r) ==
    /\ Once(pipe, Steers(r)) /\ Once(pi.queue, {r}) /\ Once(out, AnswersTo(r))
    /\ status[r] = "none" => Nowhere(r)
    /\ \A c \in Calls : call[c] = "sending" /\ Of[c] = r => status[r] = "submitted" /\ Nowhere(r)
    /\ Has(pipe, Steers(r)) => ~Has(pi.queue, {r}) /\ eaten[r] = 0 /\ ~Has(out, AnswersTo(r))
    /\ Has(pi.queue, {r}) => eaten[r] = 0
    /\ Has(out, Users(r)) => eaten[r] = 1
    /\ Has(out, Refusals(r)) => eaten[r] = 0 /\ ~Has(pi.queue, {r})
    /\ Has(out, Accepts(r)) => Has(pi.queue, {r}) \/ eaten[r] = 1
    /\ status[r] = "consumed" => eaten[r] = 1
    /\ status[r] \in {"failed", "handled"} =>
          eaten[r] = 0 /\ ~Has(pi.queue, {r}) /\ ~Has(pipe, Steers(r))
    /\ status[r] \in {"accepted", "queued"} => Has(pi.queue, {r}) \/ eaten[r] = 1

\* While the engine answers in time, a request that is not consumed keeps the
\* turn open: its answer is awaited until it is read, whatever ended the turn
\* came before that answer, and the answer reopens the turn.
KeepsOpen(r) ==
    /\ Has(pipe, Steers(r)) => r \in pending
    /\ Has(pi.queue, {r}) =>
          /\ Has(out, AnswersTo(r)) => r \in pending /\ Before(out, Closers, AnswersTo(r))
          /\ ~Has(out, AnswersTo(r)) => ~Has(out, Closers) /\ turn.ended = "no"
Kept ==
    (~turn.slow /\ Up /\ turn.pc = "loop") => \A r \in Requests : KeepsOpen(r)

\* Each X has a Y before it.
Preceded(s, X, Y) == \A i \in 1 .. Len(s) : s[i] \in X => \E j \in 1 .. Len(s) : j < i /\ s[j] \in Y

\* A turn has ended only after a reply or the refusal of its prompt, and then
\* its error says what its text says.
Agree == turn.error = ~turn.text
Replied ==
    /\ Once(out, Rejections)
    /\ Has(out, Rejections) => Head(out) \in Rejections /\ ~turn.text
    /\ Agree \/ Preceded(out, Settles, Replies)
    /\ turn.ended # "no" => Agree
    /\ turn.pc # "done" => turn.result = None
    /\ ResultIsLastReply

IInv ==
    /\ Types /\ Prompted /\ (\A r \in Requests : Placed(r))
    /\ Kept /\ AcceptedIsConsumed /\ Replied

----------------------------------------------------------------------------
(* Events and commands.                                                    *)

\* What an event can be.
LEMMA EventSorts ==
    ASSUME NEW e \in Events
    PROVE  /\ e.type \in {"start", "settled", "message", "stats", "user", "answer"}
           /\ e.type \in {"message", "stats"} => e.value \in BOOLEAN
           /\ e.type = "user" => e.id \in Requests
           /\ e.type = "answer" => e.id \in Requests \cup {"initial"} /\ e.value \in Dispositions
  BY DEF Events

\* The events the engine writes.
LEMMA EventTypes ==
    ASSUME NEW ok \in BOOLEAN, NEW r \in Requests, NEW d \in Dispositions
    PROVE  /\ Event("start", None, TRUE) \in Events /\ Event("settled", None, TRUE) \in Events
           /\ Event("message", None, ok) \in Events /\ Event("stats", None, ok) \in Events
           /\ Event("user", r, TRUE) \in Events
           /\ Event("answer", r, d) \in Events /\ Event("answer", "initial", d) \in Events
<1>1. /\ Event("start", None, TRUE) \in Events /\ Event("settled", None, TRUE) \in Events
      /\ Event("user", r, TRUE) \in Events
  BY DEF Event, Events
<1>2. Event("message", None, ok) \in Events /\ Event("stats", None, ok) \in Events
  BY DEF Event, Events
<1>3. Event("answer", r, d) \in Events /\ Event("answer", "initial", d) \in Events
  BY DEF Event, Events
<1> QED BY <1>1, <1>2, <1>3

\* The fields of an event.
LEMMA EventFields ==
    ASSUME NEW t, NEW id, NEW v
    PROVE  /\ Event(t, id, v).type = t /\ Event(t, id, v).id = id /\ Event(t, id, v).value = v
  BY DEF Event

\* The commands, and that they differ.
LEMMA CommandSorts ==
    /\ Prompt \in Commands /\ Stats \in Commands /\ Prompt # Stats
    /\ Prompt.cmd = "prompt" /\ Stats.cmd = "stats"
    /\ \A r \in Requests : /\ Steer(r) \in Commands /\ Steer(r) # Prompt /\ Steer(r) # Stats
                           /\ Steer(r).cmd = "steer" /\ Steer(r).id = r
    /\ \A x \in Commands : \/ x = Prompt \/ x = Stats
                           \/ x.id \in Requests /\ x = Steer(x.id) /\ x.cmd = "steer"
    /\ \A q, r \in Requests : Steer(q) = Steer(r) => q = r
<1>1. /\ Prompt \in Commands /\ Stats \in Commands
      /\ \A r \in Requests : Steer(r) \in Commands
      /\ \A x \in Commands : x = Prompt \/ x = Stats \/ \E r \in Requests : x = Steer(r)
  BY DEF Commands
<1>2. Prompt.cmd = "prompt" /\ Stats.cmd = "stats"
  BY DEF Prompt, Stats
<1>3. \A r \in Requests : Steer(r).cmd = "steer" /\ Steer(r).id = r
  BY DEF Steer
<1>4. Prompt # Stats /\ \A r \in Requests : Steer(r) # Prompt /\ Steer(r) # Stats
  BY <1>2, <1>3
<1>5. \A q, r \in Requests : Steer(q) = Steer(r) => q = r
  BY <1>3
<1> QED BY <1>1, <1>2, <1>3, <1>4, <1>5

----------------------------------------------------------------------------
(* Types.                                                                  *)

\* What the engine writes is an event.
LEMMA SaysTypes ==
    ASSUME Types, NEW e \in Events, NEW f \in Events
    PROVE  out \o <<e>> \in Seq(Events) /\ out \o <<e, f>> \in Seq(Events)
<1>1. out \in Seq(Events)
  BY DEF Types
<1>2. out \o <<e>> = Append(out, e) /\ out \o <<e, f>> = Append(Append(out, e), f)
  BY <1>1, ConcatWrites
<1>3. Append(out, e) \in Seq(Events)
  BY <1>1, AppendProperties
<1> QED BY <1>2, <1>3, AppendProperties

\* Reading a command leaves the rest of them.
LEMMA TakesTypes ==
    ASSUME Types, NEW cmd, Next_(cmd), Takes
    PROVE  pipe' \in Seq(Commands) /\ Head(pipe) \in Commands /\ pipe # <<>> /\ Up
           /\ Head(pipe).cmd = cmd
  BY HeadTailProperties DEF Types, Next_, Takes

\* Reading an event leaves the rest of them.
LEMMA ReadsTypes ==
    ASSUME Types, Reads, Consumes
    PROVE  out' \in Seq(Events) /\ Head(out) \in Events /\ out # <<>> /\ turn.pc = "loop"
  BY HeadTailProperties DEF Types, Reads, Consumes

\* A call that is not sending does not hold the mutex.
LEMMA MutexStays ==
    ASSUME Types, UNCHANGED <<call, mutex>>
    PROVE  /\ call' \in [Calls -> {"new", "waiting", "sending", "answered"}]
           /\ mutex' \in Calls \cup {None} /\ \A c \in Calls : call'[c] = "sending" <=> mutex' = c
  BY DEF Types

\* The steps of the engine keep the types.
LEMMA PiTypes ==
    ASSUME Types, \A r \in Requests : Placed(r), Pi \/ PiDies
    PROVE  Types'
<1>1. ASSUME NEW ok \in BOOLEAN, PiPrompt(ok) PROVE Types'
  <2>1. Next_("prompt") /\ Takes
    BY <1>1 DEF PiPrompt
  <2>2. pipe' \in Seq(Commands)
    BY <2>1, TakesTypes
  <2>3. Event("start", None, TRUE) \in Events /\ Event("answer", "initial", "failed") \in Events
    BY DEF Event, Events, Dispositions
  <2>4. out' \in Seq(Events)
    BY <1>1, <2>3, SaysTypes DEF PiPrompt, Says
  <2>5. pi' \in [at : {"idle", "busy", "exited", "died"}, queue : Seq(Requests), errors : Nat]
    BY <1>1 DEF PiPrompt, Types
  <2> QED BY <1>1, <2>2, <2>4, <2>5, MutexStays DEF PiPrompt, Types
<1>2. ASSUME NEW ok \in BOOLEAN, PiStats(ok) PROVE Types'
  <2>1. Next_("stats") /\ Takes
    BY <1>2 DEF PiStats
  <2>2. pipe' \in Seq(Commands)
    BY <2>1, TakesTypes
  <2>3. Event("stats", None, ok) \in Events
    BY <1>2 DEF Event, Events
  <2>4. out' \in Seq(Events)
    BY <1>2, <2>3, SaysTypes DEF PiStats, Says
  <2> QED BY <1>2, <2>2, <2>4, MutexStays DEF PiStats, Types
<1>3. ASSUME NEW d \in Dispositions, PiSteer(d) PROVE Types'
  <2>1. Next_("steer") /\ Takes
    BY <1>3 DEF PiSteer
  <2>2. pipe' \in Seq(Commands) /\ Head(pipe).id \in Requests
    BY <2>1, TakesTypes, CommandSorts
  <2>3. Event("answer", Head(pipe).id, d) \in Events
    BY <1>3, <2>2, EventTypes
  <2>4. out' \in Seq(Events)
    BY <1>3, <2>3, SaysTypes DEF PiSteer, Says
  <2>5. Append(pi.queue, Head(pipe).id) \in Seq(Requests)
    BY <2>2, AppendProperties DEF Types
  <2>6. pi' \in [at : {"idle", "busy", "exited", "died"}, queue : Seq(Requests), errors : Nat]
    BY <1>3, <2>5 DEF PiSteer, Types
  <2> QED BY <1>3, <2>2, <2>4, <2>6, MutexStays DEF PiSteer, Types
<1>4. ASSUME PiIgnoresStats PROVE Types'
  <2>1. Next_("stats") /\ Takes
    BY <1>4 DEF PiIgnoresStats
  <2>2. pipe' \in Seq(Commands)
    BY <2>1, TakesTypes
  <2> QED BY <1>4, <2>2, MutexStays DEF PiIgnoresStats, Types
<1>5. ASSUME PiConsume PROVE Types'
  <2> DEFINE r == Head(pi.queue)
  <2>1. pi.queue \in Seq(Requests) /\ pi.queue # <<>>
    BY <1>5 DEF PiConsume, Types
  <2>2. r \in Requests /\ Tail(pi.queue) \in Seq(Requests) /\ Has(pi.queue, {r})
    BY <2>1, TailReads
  <2>3. eaten[r] = 0
    BY <2>2 DEF Placed
  <2>4. eaten' \in [Requests -> {0, 1}]
    BY <1>5, <2>2, <2>3 DEF PiConsume, Types
  <2>5. Event("start", None, TRUE) \in Events /\ Event("user", r, TRUE) \in Events
    BY <2>2, EventTypes DEF Dispositions
  <2>6. /\ <<>> \o <<Event("user", r, TRUE)>> = <<Event("user", r, TRUE)>>
        /\ <<Event("start", None, TRUE)>> \o <<Event("user", r, TRUE)>>
              = <<Event("start", None, TRUE), Event("user", r, TRUE)>>
    BY <2>5, EmptySeq, ConcatWrites
  <2>7. \/ out' = out \o <<Event("user", r, TRUE)>>
        \/ out' = out \o <<Event("start", None, TRUE), Event("user", r, TRUE)>>
    BY <1>5, <2>6 DEF PiConsume, Says
  <2>8. out' \in Seq(Events)
    BY <2>5, <2>7, SaysTypes
  <2>9. pi' \in [at : {"idle", "busy", "exited", "died"}, queue : Seq(Requests), errors : Nat]
    BY <1>5, <2>2 DEF PiConsume, Types
  <2> QED BY <1>5, <2>4, <2>8, <2>9, MutexStays DEF PiConsume, Types
<1>6. ASSUME NEW ok \in BOOLEAN, NEW s \in BOOLEAN, PiReply(ok, s) PROVE Types'
  <2>1. Event("message", None, ok) \in Events /\ Event("settled", None, TRUE) \in Events
    BY <1>6 DEF Event, Events
  <2>2. /\ <<Event("message", None, ok)>> \o <<Event("settled", None, TRUE)>>
              = <<Event("message", None, ok), Event("settled", None, TRUE)>>
        /\ <<Event("message", None, ok)>> \o <<>> = <<Event("message", None, ok)>>
    BY <2>1, EmptySeq, ConcatWrites
  <2>3. \/ out' = out \o <<Event("message", None, ok)>>
        \/ out' = out \o <<Event("message", None, ok), Event("settled", None, TRUE)>>
    BY <1>6, <2>2 DEF PiReply, Says
  <2>4. out' \in Seq(Events)
    BY <2>1, <2>3, SaysTypes
  <2>5. pi' \in [at : {"idle", "busy", "exited", "died"}, queue : Seq(Requests), errors : Nat]
    <3>1. pi.errors \in Nat /\ pi.errors + 1 \in Nat
      BY DEF Types
    <3>2. CASE s
      <4>1. pi' = [pi EXCEPT !.at = "idle", !.errors = pi.errors]
        BY <1>6, <3>2 DEF PiReply
      <4> QED BY <3>1, <4>1 DEF Types
    <3>3. CASE ~s
      <4>1. pi' = [pi EXCEPT !.at = pi.at, !.errors = pi.errors + 1]
        BY <1>6, <3>3 DEF PiReply
      <4> QED BY <3>1, <4>1 DEF Types
    <3> QED BY <1>6, <3>2, <3>3
  <2> QED BY <1>6, <2>4, <2>5, MutexStays DEF PiReply, Types
<1>7. ASSUME PiExit \/ PiDies PROVE Types'
  <2>1. pi' \in [at : {"idle", "busy", "exited", "died"}, queue : Seq(Requests), errors : Nat]
    BY <1>7 DEF PiExit, PiDies, Types
  <2> QED BY <1>7, <2>1, MutexStays DEF PiExit, PiDies, Types
<1> QED BY <1>1, <1>2, <1>3, <1>4, <1>5, <1>6, <1>7 DEF Pi, Dispositions

\* What the line about a request proves is a status.
LEMMA ObservedTypes ==
    ASSUME Types, NEW r \in Requests, NEW v \in Dispositions \cup {"consumed"}
    PROVE  Observed(r, v) \in [Requests -> Statuses]
  BY DEF Types, Observed, Statuses, Dispositions

\* The steps of the turn keep the types.
LEMMA TurnTypes ==
    ASSUME Types, Turn \/ Timeout
    PROVE  Types'
<1> USE DEF Asks
<1>1. ASSUME ReadStart PROVE Types'
  <2>1. out' \in Seq(Events)
    BY <1>1, ReadsTypes DEF ReadStart
  <2> QED BY <1>1, <2>1, MutexStays DEF ReadStart, Types
<1>2. ASSUME Types PROVE Append(pipe, Stats) \in Seq(Commands)
                         /\ Advanced(stats) \in [on : BOOLEAN, waiting : BOOLEAN, dirty : BOOLEAN]
  <2>1. Append(pipe, Stats) \in Seq(Commands)
    BY CommandSorts, AppendProperties DEF Types
  <2>2. Advanced(stats) \in [on : BOOLEAN, waiting : BOOLEAN, dirty : BOOLEAN]
    BY DEF Types, Advanced
  <2> QED BY <2>1, <2>2
<1>3. ASSUME ReadMessage PROVE Types'
  <2>1. out' \in Seq(Events) /\ Head(out) \in Events /\ Head(out).type = "message"
    BY <1>3, ReadsTypes DEF ReadMessage
  <2>2. Head(out).value \in BOOLEAN /\ (~Head(out).value) \in BOOLEAN
    BY <2>1, EventSorts
  <2>3. turn' \in [pc : {"loop", "closing", "reaping", "done"},
                   ended : {"no", "recent", "due", "overdue"},
                   error : BOOLEAN, text : BOOLEAN, late : BOOLEAN, slow : BOOLEAN,
                   result : {None, "ok", "failed"}]
    BY <1>3, <2>2 DEF ReadMessage, Types
  <2>4. pipe' \in Seq(Commands)
    BY <1>2, <1>3 DEF ReadMessage, Types
  <2>5. stats' \in [on : BOOLEAN, waiting : BOOLEAN, dirty : BOOLEAN]
    BY <1>2, <1>3 DEF ReadMessage
  <2> QED BY <1>3, <2>1, <2>3, <2>4, <2>5, MutexStays DEF ReadMessage, Types
<1>4. ASSUME ReadSettled PROVE Types'
  <2>1. out' \in Seq(Events)
    BY <1>4, ReadsTypes DEF ReadSettled
  <2>2. turn' \in [pc : {"loop", "closing", "reaping", "done"},
                   ended : {"no", "recent", "due", "overdue"},
                   error : BOOLEAN, text : BOOLEAN, late : BOOLEAN, slow : BOOLEAN,
                   result : {None, "ok", "failed"}]
    BY <1>4 DEF ReadSettled, Types
  <2>4. pipe' \in Seq(Commands)
    BY <1>2, <1>4 DEF ReadSettled, Types
  <2>5. stats' \in [on : BOOLEAN, waiting : BOOLEAN, dirty : BOOLEAN]
    BY <1>2, <1>4 DEF ReadSettled
  <2> QED BY <1>4, <2>1, <2>2, <2>4, <2>5, MutexStays DEF ReadSettled, Types
<1>5. ASSUME ReadStats PROVE Types'
  <2>1. out' \in Seq(Events)
    BY <1>5, ReadsTypes DEF ReadStats
  <2>4. pipe' \in Seq(Commands)
    BY <1>2, <1>5 DEF ReadStats, Types
  <2>5. \A ok : Answered(ok) \in [on : BOOLEAN, waiting : BOOLEAN, dirty : BOOLEAN]
    BY DEF Types, Answered
  <2>6. stats' \in [on : BOOLEAN, waiting : BOOLEAN, dirty : BOOLEAN]
    BY <1>5, <2>5 DEF ReadStats, Types
  <2> QED BY <1>5, <2>1, <2>4, <2>6, MutexStays DEF ReadStats, Types
<1>6. ASSUME ReadRejected PROVE Types'
  <2>1. out' \in Seq(Events)
    BY <1>6, ReadsTypes DEF ReadRejected
  <2>2. turn' \in [pc : {"loop", "closing", "reaping", "done"},
                   ended : {"no", "recent", "due", "overdue"},
                   error : BOOLEAN, text : BOOLEAN, late : BOOLEAN, slow : BOOLEAN,
                   result : {None, "ok", "failed"}]
    BY <1>6 DEF ReadRejected, Types
  <2> QED BY <1>6, <2>1, <2>2, MutexStays DEF ReadRejected, Types
<1>7. ASSUME ReadAnswer PROVE Types'
  <2>1. /\ out' \in Seq(Events) /\ Head(out) \in Events /\ Head(out).type = "answer"
        /\ Head(out).id # "initial"
    BY <1>7, ReadsTypes DEF ReadAnswer
  <2>2. Head(out).id \in Requests /\ Head(out).value \in Dispositions
    BY <2>1, EventSorts
  <2>3. status' \in [Requests -> Statuses]
    BY <1>7, <2>2, ObservedTypes DEF ReadAnswer
  <2>4. turn' \in [pc : {"loop", "closing", "reaping", "done"},
                   ended : {"no", "recent", "due", "overdue"},
                   error : BOOLEAN, text : BOOLEAN, late : BOOLEAN, slow : BOOLEAN,
                   result : {None, "ok", "failed"}]
    BY <1>7 DEF ReadAnswer, Types
  <2> QED BY <1>7, <2>1, <2>3, <2>4, MutexStays DEF ReadAnswer, Types
<1>8. ASSUME ReadUser PROVE Types'
  <2>1. /\ out' \in Seq(Events) /\ Head(out) \in Events /\ Head(out).type = "user"
    BY <1>8, ReadsTypes DEF ReadUser
  <2>2. Head(out).id \in Requests
    BY <2>1, EventSorts
  <2>3. status' \in [Requests -> Statuses]
    BY <1>8, <2>2, ObservedTypes DEF ReadUser
  <2> QED BY <1>8, <2>1, <2>3, MutexStays DEF ReadUser, Types
<1>9. ASSUME Tick \/ Close \/ Eof PROVE Types'
  <2>1. turn' \in [pc : {"loop", "closing", "reaping", "done"},
                   ended : {"no", "recent", "due", "overdue"},
                   error : BOOLEAN, text : BOOLEAN, late : BOOLEAN, slow : BOOLEAN,
                   result : {None, "ok", "failed"}]
    <3>1. CASE Tick BY <3>1 DEF Tick, Types
    <3>2. CASE Close BY <3>2 DEF Close, Types
    <3>3. CASE Eof BY <3>3 DEF Eof, Types
    <3> QED BY <1>9, <3>1, <3>2, <3>3
  <2>2. UNCHANGED <<rpc, pipe, pi, out, pending, stats, status, call, mutex, eaten>>
    BY <1>9 DEF Tick, Close, Eof
  <2> QED BY <2>1, <2>2, MutexStays DEF Types
<1>10. ASSUME Unregister \/ Reap PROVE Types'
  <2>1. turn' \in [pc : {"loop", "closing", "reaping", "done"},
                   ended : {"no", "recent", "due", "overdue"},
                   error : BOOLEAN, text : BOOLEAN, late : BOOLEAN, slow : BOOLEAN,
                   result : {None, "ok", "failed"}]
    <3>1. CASE Unregister BY <3>1 DEF Unregister, Types
    <3>2. CASE Reap BY <3>2 DEF Reap, Types
    <3> QED BY <1>10, <3>1, <3>2
  <2>2. rpc' \in [entry : BOOLEAN, clones : SUBSET Calls]
    <3>1. CASE Unregister BY <3>1 DEF Unregister, Types
    <3>2. CASE Reap BY <3>2 DEF Reap, Types
    <3> QED BY <1>10, <3>1, <3>2
  <2> QED BY <1>10, <2>1, <2>2, MutexStays DEF Unregister, Reap, Types
<1>11. ASSUME Timeout PROVE Types'
  <2>1. turn' \in [pc : {"loop", "closing", "reaping", "done"},
                   ended : {"no", "recent", "due", "overdue"},
                   error : BOOLEAN, text : BOOLEAN, late : BOOLEAN, slow : BOOLEAN,
                   result : {None, "ok", "failed"}]
    BY <1>11 DEF Timeout, Types
  <2>2. pi' \in [at : {"idle", "busy", "exited", "died"}, queue : Seq(Requests), errors : Nat]
    BY <1>11 DEF Timeout, Types
  <2> QED BY <1>11, <2>1, <2>2, MutexStays DEF Timeout, Types
<1> QED BY <1>1, <1>3, <1>4, <1>5, <1>6, <1>7, <1>8, <1>9, <1>10, <1>11 DEF Turn

\* The steps of the HTTP requests keep the types.
LEMMA HttpTypes ==
    ASSUME Types, Http
    PROVE  Types'
<1>1. ASSUME NEW c \in Calls, Arrive(c) PROVE Types'
  <2>1. mutex # c
    BY <1>1 DEF Arrive, Types
  <2> QED BY <1>1, <2>1 DEF Arrive, Types
<1>2. ASSUME NEW c \in Calls, Submit(c) PROVE Types'
  <2>1. Of[c] \in Requests /\ None \notin Calls
    BY CallsAssumption
  <2>2. mutex = None /\ \A d \in Calls : call[d] # "sending"
    BY <1>2, <2>1 DEF Submit, Types
  <2>3. CASE status[Of[c]] # "none" \/ ~rpc.entry
    <3>1. /\ call' = [call EXCEPT ![c] = "answered"]
          /\ UNCHANGED <<rpc, status, mutex, pipe, pi, out, pending, turn, stats, eaten>>
      BY <1>2, <2>3 DEF Submit
    <3>2. /\ call' \in [Calls -> {"new", "waiting", "sending", "answered"}]
          /\ \A d \in Calls : call'[d] # "sending"
      BY <2>2, <3>1 DEF Types
    <3> QED BY <2>1, <2>2, <3>1, <3>2 DEF Types
  <2>4. CASE ~(status[Of[c]] # "none" \/ ~rpc.entry)
    <3>1. /\ status' = [status EXCEPT ![Of[c]] = "submitted"]
          /\ rpc' = [rpc EXCEPT !.clones = @ \cup {c}]
          /\ call' = [call EXCEPT ![c] = "sending"] /\ mutex' = c
          /\ UNCHANGED <<pipe, pi, out, pending, turn, stats, eaten>>
      BY <1>2, <2>4 DEF Submit
    <3>2. status' \in [Requests -> Statuses] /\ rpc' \in [entry : BOOLEAN, clones : SUBSET Calls]
      <4>1. status \in [Requests -> Statuses] /\ "submitted" \in Statuses
        BY DEF Types, Statuses
      <4>2. status' \in [Requests -> Statuses]
        BY <3>1, <4>1
      <4>3. rpc' \in [entry : BOOLEAN, clones : SUBSET Calls]
        BY <3>1 DEF Types
      <4> QED BY <4>2, <4>3
    <3>3. /\ call' \in [Calls -> {"new", "waiting", "sending", "answered"}]
          /\ \A d \in Calls : call'[d] = "sending" <=> mutex' = d
      BY <2>2, <3>1 DEF Types
    <3> QED BY <3>1, <3>2, <3>3 DEF Types
  <2> QED BY <2>3, <2>4
<1>3. ASSUME NEW c \in Calls, SubmitLate(c) PROVE Types'
  <2>1. Of[c] \in Requests /\ None \notin Calls
    BY CallsAssumption
  <2>2. mutex # c
    BY <1>3, <2>1 DEF SubmitLate
  <2> QED BY <1>3, <2>1, <2>2 DEF SubmitLate, Types, Statuses
<1>4. ASSUME NEW c \in Calls, Send(c) PROVE Types'
  <2>1. Of[c] \in Requests /\ None \notin Calls
    BY CallsAssumption
  <2>2. /\ mutex = c /\ \A d \in Calls : call[d] = "sending" => d = c
        /\ UNCHANGED <<pi, out, turn, stats, eaten>>
    BY <1>4 DEF Send, Types
  <2>3. Append(pipe, Steer(Of[c])) \in Seq(Commands)
    BY <2>1, CommandSorts, AppendProperties DEF Types
  <2>4. pipe' \in Seq(Commands) /\ pending' \in SUBSET Requests /\ status' \in [Requests -> Statuses]
    <3>1. \/ status' = [status EXCEPT ![Of[c]] = "failed"] /\ UNCHANGED <<pipe, pending>>
          \/ pending' = pending \cup {Of[c]} /\ pipe' = Append(pipe, Steer(Of[c])) /\ UNCHANGED status
      BY <1>4 DEF Send
    <3>2. [status EXCEPT ![Of[c]] = "failed"] \in [Requests -> Statuses]
      BY <2>1 DEF Types, Statuses
    <3>3. pending \cup {Of[c]} \in SUBSET Requests
      BY <2>1 DEF Types
    <3> QED BY <2>3, <3>1, <3>2, <3>3 DEF Types
  <2>5. rpc' \in [entry : BOOLEAN, clones : SUBSET Calls]
    BY <1>4 DEF Send, Types
  <2>6. /\ call' \in [Calls -> {"new", "waiting", "sending", "answered"}]
        /\ mutex' = None /\ \A d \in Calls : call'[d] # "sending"
    BY <1>4, <2>2 DEF Send, Types
  <2> QED BY <2>1, <2>2, <2>4, <2>5, <2>6 DEF Types
<1>5. ASSUME NEW r \in Requests, Abandon(r) \/ Expire(r) PROVE Types'
  <2>1. status' \in [Requests -> Statuses] /\ pending' \in SUBSET Requests
    BY <1>5 DEF Abandon, Expire, Types, Statuses
  <2>2. UNCHANGED <<rpc, pipe, pi, out, turn, stats, call, mutex, eaten>>
    BY <1>5 DEF Abandon, Expire
  <2> QED BY <2>1, <2>2 DEF Types
<1> QED BY <1>1, <1>2, <1>3, <1>4, <1>5 DEF Http

\* Every step keeps the types.
LEMMA TypesStep ==
    ASSUME Types, \A r \in Requests : Placed(r), [Next]_vars
    PROVE  Types'
<1>1. CASE UNCHANGED vars
  BY <1>1 DEF vars, Types
<1> QED BY <1>1, PiTypes, TurnTypes, HttpTypes DEF Next

----------------------------------------------------------------------------
(* Where a request is.                                                     *)
About(r) == AnswersTo(r) \cup Users(r)

\* The events t say of the request what the events s say.
Alike(s, t, r) ==
    /\ Has(t, AnswersTo(r)) <=> Has(s, AnswersTo(r))
    /\ Has(t, Refusals(r)) <=> Has(s, Refusals(r))
    /\ Has(t, Accepts(r)) <=> Has(s, Accepts(r))
    /\ Has(t, Users(r)) <=> Has(s, Users(r))
    /\ Once(s, AnswersTo(r)) => Once(t, AnswersTo(r))

\* Writing events that are not about the request changes nothing of it.
LEMMA AlikeWrites ==
    ASSUME NEW r, NEW s \in Seq(Events), NEW e \in Events, e \notin About(r)
    PROVE  Append(s, e) \in Seq(Events) /\ Alike(s, Append(s, e), r)
<1>1. e \notin AnswersTo(r) /\ e \notin Refusals(r) /\ e \notin Accepts(r) /\ e \notin Users(r)
  BY DEF About, Refusals, Accepts
<1>2. /\ Has(Append(s, e), AnswersTo(r)) <=> Has(s, AnswersTo(r))
      /\ Once(s, AnswersTo(r)) => Once(Append(s, e), AnswersTo(r))
      /\ Append(s, e) \in Seq(Events)
  BY <1>1, AppendWrites
<1>3. Has(Append(s, e), Refusals(r)) <=> Has(s, Refusals(r))
  BY <1>1, AppendWrites
<1>4. Has(Append(s, e), Accepts(r)) <=> Has(s, Accepts(r))
  BY <1>1, AppendWrites
<1>5. Has(Append(s, e), Users(r)) <=> Has(s, Users(r))
  BY <1>1, AppendWrites
<1> QED BY <1>2, <1>3, <1>4, <1>5 DEF Alike

\* Neither does reading one of them.
LEMMA AlikeReads ==
    ASSUME NEW r, NEW s \in Seq(Events), s # <<>>, Head(s) \notin About(r)
    PROVE  Tail(s) \in Seq(Events) /\ Alike(s, Tail(s), r)
<1>1. /\ Head(s) \notin AnswersTo(r) /\ Head(s) \notin Refusals(r)
      /\ Head(s) \notin Accepts(r) /\ Head(s) \notin Users(r)
  BY DEF About, Refusals, Accepts
<1>2. /\ Has(Tail(s), AnswersTo(r)) <=> Has(s, AnswersTo(r))
      /\ Once(s, AnswersTo(r)) => Once(Tail(s), AnswersTo(r))
      /\ Tail(s) \in Seq(Events)
  BY <1>1, TailReads
<1>3. Has(Tail(s), Refusals(r)) <=> Has(s, Refusals(r))
  BY <1>1, TailReads
<1>4. Has(Tail(s), Accepts(r)) <=> Has(s, Accepts(r))
  BY <1>1, TailReads
<1>5. Has(Tail(s), Users(r)) <=> Has(s, Users(r))
  BY <1>1, TailReads
<1> QED BY <1>2, <1>3, <1>4, <1>5 DEF Alike

\* Two such steps are like one.
LEMMA AlikeTwice ==
    ASSUME NEW r, NEW s, NEW t, NEW u, Alike(s, t, r), Alike(t, u, r)
    PROVE  Alike(s, u, r)
  BY DEF Alike

\* The pipe holds the request as before.
PipeAlike(r) == /\ Has(pipe', Steers(r)) <=> Has(pipe, Steers(r))
                /\ Once(pipe, Steers(r)) => Once(pipe', Steers(r))

\* A command that is not the request's is read.
LEMMA PipeTakes ==
    ASSUME Types, NEW r \in Requests, pipe # <<>>, pipe' = Tail(pipe), Head(pipe) # Steer(r)
    PROVE  PipeAlike(r)
<1>1. pipe \in Seq(Commands) /\ Head(pipe) \notin Steers(r)
  BY DEF Types, Steers
<1> QED BY <1>1, TailReads DEF PipeAlike

\* A request for statistics leaves the steers in the pipe as they are.
LEMMA PipeAsks ==
    ASSUME Types, NEW r \in Requests, pipe' = Append(pipe, Stats) \/ pipe' = pipe
    PROVE  PipeAlike(r)
<1>1. pipe \in Seq(Commands) /\ Stats \in Commands /\ Stats \notin Steers(r)
  BY CommandSorts DEF Types, Steers
<1>2. CASE pipe' = Append(pipe, Stats)
  BY <1>1, <1>2, AppendWrites DEF PipeAlike
<1>3. CASE pipe' = pipe
  BY <1>3 DEF PipeAlike
<1> QED BY <1>2, <1>3

\* The engine's queue holds the request as before.
QueueAlike(r) == /\ Has(pi'.queue, {r}) <=> Has(pi.queue, {r})
                 /\ Once(pi.queue, {r}) => Once(pi'.queue, {r})

\* A step that is not about the request leaves it in its place.
LEMMA PlacedStays ==
    ASSUME NEW r \in Requests, Placed(r), PipeAlike(r), Alike(out, out', r),
           QueueAlike(r), eaten'[r] = eaten[r], status'[r] = status[r],
           \A c \in Calls : call'[c] = "sending" /\ Of[c] = r => call[c] = "sending"
    PROVE  Placed(r)'
<1>1. Once(pipe', Steers(r)) /\ Once(pi'.queue, {r}) /\ Once(out', AnswersTo(r))
  BY DEF Placed, PipeAlike, QueueAlike, Alike
<1>2. Nowhere(r) => Nowhere(r)'
  BY DEF Nowhere, PipeAlike, QueueAlike, Alike
<1>3. \A c \in Calls : call'[c] = "sending" /\ Of[c] = r => status'[r] = "submitted" /\ Nowhere(r)'
  BY <1>2 DEF Placed
<1>4. status'[r] = "none" => Nowhere(r)'
  BY <1>2 DEF Placed
<1>5. /\ Has(pipe', Steers(r)) => ~Has(pi'.queue, {r}) /\ eaten'[r] = 0 /\ ~Has(out', AnswersTo(r))
      /\ Has(pi'.queue, {r}) => eaten'[r] = 0
      /\ Has(out', Users(r)) => eaten'[r] = 1
      /\ Has(out', Refusals(r)) => eaten'[r] = 0 /\ ~Has(pi'.queue, {r})
      /\ Has(out', Accepts(r)) => Has(pi'.queue, {r}) \/ eaten'[r] = 1
  BY DEF Placed, PipeAlike, QueueAlike, Alike
<1>6. /\ status'[r] = "consumed" => eaten'[r] = 1
      /\ status'[r] \in {"failed", "handled"} =>
            eaten'[r] = 0 /\ ~Has(pi'.queue, {r}) /\ ~Has(pipe', Steers(r))
      /\ status'[r] \in {"accepted", "queued"} => Has(pi'.queue, {r}) \/ eaten'[r] = 1
  BY DEF Placed, PipeAlike, QueueAlike
<1> QED BY <1>1, <1>3, <1>4, <1>5, <1>6 DEF Placed

\* What the engine writes in the steps that are about no request.
LEMMA NotAbout ==
    ASSUME NEW r \in Requests, NEW ok
    PROVE  /\ Event("start", None, TRUE) \notin About(r)
           /\ Event("settled", None, TRUE) \notin About(r)
           /\ Event("message", None, ok) \notin About(r)
           /\ Event("stats", None, ok) \notin About(r)
           /\ Event("answer", "initial", ok) \notin About(r)
           /\ \A q \in Requests : q # r => /\ Event("user", q, TRUE) \notin About(r)
                                           /\ Event("answer", q, ok) \notin About(r)
<1> DEFINE T(e) == e.type \notin {"answer", "user"} \/ e.id # r
<1>1. \A e : T(e) => e \notin About(r)
  BY DEF About, AnswersTo, Users
<1>2. /\ T(Event("start", None, TRUE)) /\ T(Event("settled", None, TRUE))
      /\ T(Event("message", None, ok)) /\ T(Event("stats", None, ok))
      /\ T(Event("answer", "initial", ok))
      /\ \A q \in Requests : q # r => T(Event("user", q, TRUE)) /\ T(Event("answer", q, ok))
  BY CallsAssumption DEF Event
<1> HIDE DEF T
<1> QED BY <1>1, <1>2

\* What the engine writes about a request.
LEMMA SaidAbout ==
    ASSUME NEW r \in Requests, NEW d \in Dispositions
    PROVE  /\ Event("user", r, TRUE) \in Users(r) /\ Event("user", r, TRUE) \notin AnswersTo(r)
           /\ Event("answer", r, d) \in AnswersTo(r) /\ Event("answer", r, d) \notin Users(r)
           /\ Event("answer", r, d) \in Refusals(r) <=> d \in {"handled", "failed"}
           /\ Event("answer", r, d) \in Accepts(r) <=> d \in {"queued", "accepted"}
<1> DEFINE u == Event("user", r, TRUE)
           a == Event("answer", r, d)
<1>1. /\ u.type = "user" /\ u.id = r /\ u \in Events
      /\ a.type = "answer" /\ a.id = r /\ a.value = d /\ a \in Events
  <2>1. u \in Events /\ a \in Events
    BY DEF Event, Events
  <2> QED BY <2>1 DEF Event
<1> HIDE DEF u, a
<1>2. u \in Users(r) /\ u \notin AnswersTo(r) /\ a \in AnswersTo(r) /\ a \notin Users(r)
  BY <1>1 DEF AnswersTo, Users
<1>3. a \in Refusals(r) <=> d \in {"handled", "failed"}
  BY <1>1, <1>2 DEF Refusals
<1>4. a \in Accepts(r) <=> d \in {"queued", "accepted"}
  BY <1>1, <1>2 DEF Accepts
<1> QED BY <1>2, <1>3, <1>4 DEF u, a

\* Steps of the engine that are about no request.
LEMMA PiPlaced ==
    ASSUME Types, NEW r \in Requests, Placed(r),
           \/ \E ok \in BOOLEAN : PiPrompt(ok) \/ PiStats(ok)
           \/ PiIgnoresStats \/ PiExit \/ PiDies \/ Timeout
           \/ \E ok, s \in BOOLEAN : PiReply(ok, s)
    PROVE  Placed(r)'
<1>0. out \in Seq(Events) /\ pipe \in Seq(Commands)
  BY DEF Types
<1>1. Alike(out, out, r)
  BY DEF Alike
<1>2. ASSUME NEW ok \in BOOLEAN, PiPrompt(ok) PROVE Placed(r)'
  <2>1. Next_("prompt") /\ Takes
    BY <1>2 DEF PiPrompt
  <2>2. PipeAlike(r)
    BY <2>1, TakesTypes, CommandSorts, PipeTakes DEF Takes
  <2>3. \E e \in Events : e \notin About(r) /\ out' = out \o <<e>>
    <3>1. Event("start", None, TRUE) \in Events /\ Event("answer", "initial", "failed") \in Events
      BY DEF Event, Events, Dispositions
    <3>2. Event("start", None, TRUE) \notin About(r) /\ Event("answer", "initial", "failed") \notin About(r)
      BY NotAbout
    <3> QED BY <1>2, <3>1, <3>2 DEF PiPrompt, Says
  <2>4. Alike(out, out', r)
    <3>1. PICK e \in Events : e \notin About(r) /\ out' = out \o <<e>>
      BY <2>3
    <3>2. out' = Append(out, e)
      BY <1>0, <3>1, AppendIsConcat
    <3> QED BY <1>0, <3>1, <3>2, AlikeWrites
  <2>5. pi'.queue = pi.queue /\ UNCHANGED <<status, call, eaten>>
    BY <1>2 DEF PiPrompt, Types
  <2> QED BY <2>2, <2>4, <2>5, PlacedStays DEF QueueAlike
<1>3. ASSUME NEW ok \in BOOLEAN, PiStats(ok) PROVE Placed(r)'
  <2>1. Next_("stats") /\ Takes
    BY <1>3 DEF PiStats
  <2>2. PipeAlike(r)
    BY <2>1, TakesTypes, CommandSorts, PipeTakes DEF Takes
  <2>3. Event("stats", None, ok) \in Events /\ Event("stats", None, ok) \notin About(r)
    BY <1>3, NotAbout DEF Event, Events
  <2>4. out' = Append(out, Event("stats", None, ok))
    BY <1>0, <1>3, <2>3, ConcatWrites DEF PiStats, Says
  <2>5. Alike(out, out', r)
    BY <1>0, <2>3, <2>4, AlikeWrites
  <2>6. UNCHANGED <<pi, status, call, eaten>>
    BY <1>3 DEF PiStats
  <2> QED BY <2>2, <2>5, <2>6, PlacedStays DEF QueueAlike
<1>4. ASSUME PiIgnoresStats PROVE Placed(r)'
  <2>1. Next_("stats") /\ Takes
    BY <1>4 DEF PiIgnoresStats
  <2>2. PipeAlike(r)
    BY <2>1, TakesTypes, CommandSorts, PipeTakes DEF Takes
  <2>6. UNCHANGED <<pi, out, status, call, eaten>>
    BY <1>4 DEF PiIgnoresStats
  <2> QED BY <1>1, <2>2, <2>6, PlacedStays DEF QueueAlike
<1>5. ASSUME PiExit \/ PiDies \/ Timeout PROVE Placed(r)'
  <2>1. pi'.queue = pi.queue /\ UNCHANGED <<pipe, out, status, call, eaten>>
    BY <1>5 DEF PiExit, PiDies, Timeout, Types
  <2> QED BY <1>1, <2>1, PlacedStays DEF QueueAlike, PipeAlike
<1>6. ASSUME NEW ok \in BOOLEAN, NEW s \in BOOLEAN, PiReply(ok, s) PROVE Placed(r)'
  <2> DEFINE m == Event("message", None, ok)
             f == Event("settled", None, TRUE)
  <2>1. m \in Events /\ f \in Events /\ m \notin About(r) /\ f \notin About(r)
    BY <1>6, NotAbout DEF Event, Events
  <2>2. out' = out \o (<<m>> \o (IF s THEN <<f>> ELSE <<>>))
    BY <1>6 DEF PiReply, Says
  <2> HIDE DEF m, f
  <2>3. out' = Append(out, m) \/ out' = Append(Append(out, m), f)
    BY <1>0, <2>1, <2>2, EmptySeq, ConcatWrites
  <2>4. Append(out, m) \in Seq(Events) /\ Alike(out, Append(out, m), r)
    BY <1>0, <2>1, AlikeWrites
  <2>5. Alike(Append(out, m), Append(Append(out, m), f), r)
    BY <2>1, <2>4, AlikeWrites
  <2>6. Alike(out, out', r)
    BY <2>3, <2>4, <2>5, AlikeTwice
  <2>7. pi'.queue = pi.queue /\ UNCHANGED <<pipe, status, call, eaten>>
    BY <1>6 DEF PiReply, Types
  <2> QED BY <2>6, <2>7, PlacedStays DEF QueueAlike, PipeAlike
<1> QED BY <1>2, <1>3, <1>4, <1>5, <1>6

\* The engine answers a steer.
LEMMA PiSteerPlaced ==
    ASSUME Types, NEW r \in Requests, Placed(r), NEW d \in Dispositions, PiSteer(d)
    PROVE  Placed(r)'
<1> DEFINE q == Head(pipe).id
           e == Event("answer", q, d)
<1>0. out \in Seq(Events) /\ pipe \in Seq(Commands) /\ pi.queue \in Seq(Requests)
  BY DEF Types
<1>1. /\ Next_("steer") /\ Takes /\ pipe' = Tail(pipe) /\ out' = out \o <<e>>
      /\ pi' = IF d \in {"queued", "accepted"}
               THEN [pi EXCEPT !.queue = Append(pi.queue, q)] ELSE pi
      /\ UNCHANGED <<status, call, eaten>>
  BY DEF PiSteer, Says, Takes
<1>2. pipe # <<>> /\ q \in Requests /\ Head(pipe) = Steer(q)
  BY <1>1, TakesTypes, CommandSorts
<1>3. e \in Events
  BY <1>2, EventTypes
<1> HIDE DEF q, e
<1>4. out' = Append(out, e)
  BY <1>0, <1>1, <1>3, ConcatWrites
<1>5. /\ d \in {"queued", "accepted"} => pi'.queue = Append(pi.queue, q)
      /\ d \notin {"queued", "accepted"} => pi'.queue = pi.queue
  BY <1>1 DEF Types
<1>6. CASE q # r
  <2>1. e \notin About(r)
    BY <1>2, <1>6, NotAbout DEF e
  <2>2. Alike(out, out', r)
    BY <1>0, <1>3, <1>4, <2>1, AlikeWrites
  <2>3. PipeAlike(r)
    BY <1>1, <1>2, <1>6, CommandSorts, PipeTakes
  <2>4. Has(Append(pi.queue, q), {r}) <=> Has(pi.queue, {r})
    BY <1>0, <1>2, <1>6, AppendWrites
  <2>5. Once(pi.queue, {r}) => Once(Append(pi.queue, q), {r})
    BY <1>0, <1>2, <1>6, AppendWrites
  <2>6. QueueAlike(r)
    BY <1>5, <2>4, <2>5 DEF QueueAlike
  <2> QED BY <1>1, <2>2, <2>3, <2>6, PlacedStays
<1>7. CASE q = r
  <2>1. Has(pipe, Steers(r)) /\ Once(pipe', Steers(r)) /\ ~Has(pipe', Steers(r))
    BY <1>0, <1>1, <1>2, <1>7, TailReads DEF Steers, Placed
  <2>2. ~Has(pi.queue, {r}) /\ eaten[r] = 0 /\ ~Has(out, AnswersTo(r)) /\ ~Has(out, Users(r))
    BY <2>1 DEF Placed
  <2>3. status[r] \notin {"none", "consumed", "failed", "handled", "accepted", "queued"}
    BY <2>1, <2>2 DEF Placed, Nowhere
  <2>4. \A c \in Calls : ~(call[c] = "sending" /\ Of[c] = r)
    BY <2>1 DEF Placed, Nowhere
  <2>5. ~Has(out, Refusals(r)) /\ ~Has(out, Accepts(r))
    BY <2>2 DEF Has, Refusals, Accepts
  <2>6. /\ e \in AnswersTo(r) /\ e \notin Users(r)
        /\ e \in Refusals(r) <=> d \in {"handled", "failed"}
        /\ e \in Accepts(r) <=> d \in {"queued", "accepted"}
    BY <1>7, SaidAbout DEF e
  <2>7. Once(out', AnswersTo(r)) /\ ~Has(out', Users(r))
    BY <1>0, <1>3, <1>4, <2>2, <2>6, AppendWrites DEF Placed
  <2>8. Has(out', Refusals(r)) => d \in {"handled", "failed"}
    BY <1>0, <1>3, <1>4, <2>5, <2>6, AppendWrites
  <2>9. Has(out', Accepts(r)) => d \in {"queued", "accepted"}
    BY <1>0, <1>3, <1>4, <2>5, <2>6, AppendWrites
  <2>10. d \in {"queued", "accepted"} => Once(pi'.queue, {r}) /\ Has(pi'.queue, {r})
    <3>1. Once(pi.queue, {r}) /\ r \in {r}
      BY DEF Placed
    <3>2. Once(Append(pi.queue, r), {r}) /\ Has(Append(pi.queue, r), {r})
      BY <1>0, <2>2, <3>1, AppendWrites
    <3> QED BY <1>5, <1>7, <3>2
  <2>11. d \notin {"queued", "accepted"} => Once(pi'.queue, {r}) /\ ~Has(pi'.queue, {r})
    BY <1>5, <2>2 DEF Placed
  <2>12. eaten'[r] = 0 /\ status'[r] = status[r] /\ call' = call
    BY <1>1, <2>2
  <2> QED BY <2>1, <2>3, <2>4, <2>7, <2>8, <2>9, <2>10, <2>11, <2>12 DEF Placed, Dispositions
<1> QED BY <1>6, <1>7

\* The engine consumes a request.
LEMMA PiConsumePlaced ==
    ASSUME Types, NEW r \in Requests, Placed(r), PiConsume
    PROVE  Placed(r)'
<1> DEFINE q == Head(pi.queue)
           b == Event("start", None, TRUE)
           u == Event("user", q, TRUE)
<1>0. out \in Seq(Events) /\ pi.queue \in Seq(Requests) /\ pi.queue # <<>>
  BY DEF Types, PiConsume
<1>1. q \in Requests
  BY <1>0, TailReads
<1>2. /\ out' = out \o ((IF pi.at = "idle" THEN <<b>> ELSE <<>>) \o <<u>>)
      /\ eaten' = [eaten EXCEPT ![q] = @ + 1]
      /\ pi'.queue = Tail(pi.queue)
      /\ UNCHANGED <<pipe, status, call>>
  BY DEF PiConsume, Says, Types
<1>3. b \in Events /\ u \in Events /\ b \notin About(r)
  BY <1>1, EventTypes, NotAbout DEF Dispositions
<1>4. Append(out, b) \in Seq(Events) /\ Alike(out, Append(out, b), r) /\ Alike(out, out, r)
  BY <1>0, <1>3, AlikeWrites DEF Alike
<1> HIDE DEF q, b, u
<1>5. \E s \in Seq(Events) : Alike(out, s, r) /\ out' = Append(s, u)
  <2>1. <<b>> \o <<u>> = <<b, u>> /\ <<>> \o <<u>> = <<u>>
    BY <1>3, EmptySeq, ConcatWrites
  <2>2. out' = out \o <<b, u>> \/ out' = out \o <<u>>
    BY <1>2, <2>1
  <2>3. out' = Append(Append(out, b), u) \/ out' = Append(out, u)
    BY <1>0, <1>3, <2>2, ConcatWrites
  <2> QED BY <1>0, <1>4, <2>3
<1>6. PICK s \in Seq(Events) : Alike(out, s, r) /\ out' = Append(s, u)
  BY <1>5
<1>7. PipeAlike(r)
  BY <1>2 DEF PipeAlike
<1>8. CASE q # r
  <2>1. u \notin About(r)
    BY <1>1, <1>8, NotAbout DEF u
  <2>2. Alike(out, out', r)
    BY <1>3, <1>6, <2>1, AlikeWrites, AlikeTwice
  <2>3. QueueAlike(r)
    BY <1>0, <1>2, <1>8, TailReads DEF QueueAlike, q
  <2>4. eaten'[r] = eaten[r] /\ status'[r] = status[r] /\ call' = call
    BY <1>2, <1>8 DEF Types
  <2> QED BY <1>7, <2>2, <2>3, <2>4, PlacedStays
<1>9. CASE q = r
  <2>1. Has(pi.queue, {r}) /\ Once(pi'.queue, {r}) /\ ~Has(pi'.queue, {r})
    BY <1>0, <1>2, <1>9, TailReads DEF Placed, q
  <2>2. eaten[r] = 0 /\ eaten'[r] = 1
    BY <1>2, <1>9, <2>1 DEF Placed, Types
  <2>3. ~Has(pipe, Steers(r)) /\ ~Has(out, Refusals(r))
    BY <2>1 DEF Placed
  <2>4. status[r] \notin {"none", "failed", "handled"}
    BY <2>1 DEF Placed, Nowhere
  <2>5. \A c \in Calls : ~(call[c] = "sending" /\ Of[c] = r)
    BY <2>1 DEF Placed, Nowhere
  <2>6. u \in Users(r) /\ u \notin AnswersTo(r) /\ u \notin Refusals(r)
    BY <1>9, SaidAbout DEF Dispositions, Refusals, u
  <2>7. Once(out', AnswersTo(r))
    BY <1>3, <1>6, <2>6, AppendWrites DEF Alike, Placed
  <2>8. ~Has(out', Refusals(r))
    BY <1>3, <1>6, <2>3, <2>6, AppendWrites DEF Alike
  <2>9. Once(pipe', Steers(r)) /\ ~Has(pipe', Steers(r))
    BY <1>2, <2>3 DEF Placed
  <2>10. status' = status /\ call' = call
    BY <1>2
  <2> QED BY <2>1, <2>2, <2>4, <2>5, <2>7, <2>8, <2>9, <2>10 DEF Placed
<1> QED BY <1>8, <1>9

\* Steps of the turn that read no event about a request.
LEMMA TurnPlaced ==
    ASSUME Types, NEW r \in Requests, Placed(r),
           \/ ReadStart \/ ReadMessage \/ ReadSettled \/ ReadStats \/ ReadRejected
           \/ Tick \/ Close \/ Eof \/ Unregister \/ Reap
    PROVE  Placed(r)'
<1>1. CASE ReadStart \/ ReadMessage \/ ReadSettled \/ ReadStats \/ ReadRejected
  <2>1. Reads /\ Consumes
    BY <1>1 DEF ReadStart, ReadMessage, ReadSettled, ReadStats, ReadRejected
  <2>2. out \in Seq(Events) /\ out # <<>> /\ out' = Tail(out)
    BY <2>1, ReadsTypes DEF Consumes, Types
  <2>3. Head(out).type \notin {"answer", "user"} \/ Head(out).id = "initial"
    BY <1>1 DEF ReadStart, ReadMessage, ReadSettled, ReadStats, ReadRejected
  <2>4. Head(out).type = "user" => Head(out).id # "initial"
    BY <2>1, ReadsTypes, EventSorts, CallsAssumption
  <2>5. Head(out) \notin About(r)
    BY <2>3, <2>4, CallsAssumption DEF About, AnswersTo, Users
  <2>6. Alike(out, out', r)
    BY <2>2, <2>5, AlikeReads
  <2>7. pipe' = Append(pipe, Stats) \/ pipe' = pipe
    BY <1>1 DEF ReadStart, ReadMessage, ReadSettled, ReadStats, ReadRejected
  <2>8. UNCHANGED <<pi, status, call, eaten>>
    BY <1>1 DEF ReadStart, ReadMessage, ReadSettled, ReadStats, ReadRejected
  <2> QED BY <2>6, <2>7, <2>8, PipeAsks, PlacedStays DEF QueueAlike
<1>2. CASE Tick \/ Close \/ Eof \/ Unregister \/ Reap
  <2>1. UNCHANGED <<pipe, pi, out, status, call, eaten>>
    BY <1>2 DEF Tick, Close, Eof, Unregister, Reap
  <2> QED BY <2>1, PlacedStays DEF QueueAlike, PipeAlike, Alike
<1> QED BY <1>1, <1>2

\* The turn reads the answer to a steer.
LEMMA ReadAnswerPlaced ==
    ASSUME Types, NEW r \in Requests, Placed(r), ReadAnswer
    PROVE  Placed(r)'
<1>1. /\ Reads /\ Consumes /\ Head(out).type = "answer" /\ Head(out).id # "initial"
      /\ status' = Observed(Head(out).id, Head(out).value)
      /\ UNCHANGED <<pipe, pi, call, eaten>>
  BY DEF ReadAnswer
<1>2. out \in Seq(Events) /\ out # <<>> /\ out' = Tail(out) /\ Head(out) \in Events
  BY <1>1, ReadsTypes DEF Consumes, Types
<1>3. PICK q, v : q = Head(out).id /\ v = Head(out).value
  OBVIOUS
<1>4. q \in Requests /\ v \in Dispositions
  BY <1>1, <1>2, <1>3, EventSorts
<1>5. status' = status \/ status' = [status EXCEPT ![q] = v]
  BY <1>1, <1>3 DEF Observed
<1>6. CASE q # r
  <2>1. Head(out) \notin About(r)
    BY <1>1, <1>3, <1>6 DEF About, AnswersTo, Users
  <2>2. Alike(out, out', r)
    BY <1>2, <2>1, AlikeReads
  <2>3. status'[r] = status[r]
    BY <1>5, <1>6 DEF Types
  <2> QED BY <1>1, <2>2, <2>3, PlacedStays DEF QueueAlike, PipeAlike
<1>7. CASE q = r
  <2>1. Head(out) \in AnswersTo(r) /\ Head(out) \notin Users(r)
    BY <1>1, <1>2, <1>3, <1>7 DEF AnswersTo, Users
  <2>2. Has(out, AnswersTo(r)) /\ ~Has(out', AnswersTo(r)) /\ Once(out', AnswersTo(r))
    BY <1>2, <2>1, TailReads DEF Placed
  <2>3. ~Has(out', Refusals(r)) /\ ~Has(out', Accepts(r))
    BY <2>2 DEF Has, Refusals, Accepts
  <2>4. Has(out', Users(r)) => Has(out, Users(r))
    BY <1>2, TailReads
  <2>5. ~Has(pipe, Steers(r)) /\ status[r] # "none"
    BY <2>2 DEF Placed, Nowhere
  <2>6. \A c \in Calls : ~(call[c] = "sending" /\ Of[c] = r)
    BY <2>2 DEF Placed, Nowhere
  <2>7. v \in {"handled", "failed"} => Has(out, Refusals(r))
    BY <1>2, <1>3, <2>1, TailReads DEF Refusals
  <2>8. v \in {"queued", "accepted"} => Has(out, Accepts(r))
    BY <1>2, <1>3, <2>1, TailReads DEF Accepts
  <2>9. status'[r] = status[r] \/ status'[r] = v
    BY <1>5, <1>7 DEF Types
  <2>10. /\ Once(pipe', Steers(r)) /\ Once(pi'.queue, {r}) /\ status'[r] # "none"
         /\ Has(out', Users(r)) => eaten'[r] = 1
         /\ Has(pi'.queue, {r}) => eaten'[r] = 0
    BY <1>1, <1>4, <2>4, <2>5, <2>9 DEF Placed, Dispositions
  <2>11. /\ status'[r] = "consumed" => eaten'[r] = 1
         /\ status'[r] \in {"failed", "handled"} =>
               eaten'[r] = 0 /\ ~Has(pi'.queue, {r}) /\ ~Has(pipe', Steers(r))
         /\ status'[r] \in {"accepted", "queued"} => Has(pi'.queue, {r}) \/ eaten'[r] = 1
    BY <1>1, <1>4, <2>5, <2>7, <2>8, <2>9 DEF Placed, Dispositions
  <2> QED BY <1>1, <2>2, <2>3, <2>5, <2>6, <2>10, <2>11 DEF Placed
<1> QED BY <1>6, <1>7

\* The turn reads that the engine consumed a request.
LEMMA ReadUserPlaced ==
    ASSUME Types, NEW r \in Requests, Placed(r), ReadUser
    PROVE  Placed(r)'
<1>1. /\ Reads /\ Consumes /\ Head(out).type = "user"
      /\ status' = Observed(Head(out).id, "consumed")
      /\ UNCHANGED <<pipe, pi, call, eaten>>
  BY DEF ReadUser
<1>2. out \in Seq(Events) /\ out # <<>> /\ out' = Tail(out) /\ Head(out) \in Events
  BY <1>1, ReadsTypes DEF Consumes, Types
<1>3. PICK q : q = Head(out).id
  OBVIOUS
<1>4. q \in Requests
  BY <1>1, <1>2, <1>3, EventSorts
<1>5. /\ status' = status \/ status' = [status EXCEPT ![q] = "consumed"]
      /\ status[q] # "none" => status' = [status EXCEPT ![q] = "consumed"]
  BY <1>1, <1>3 DEF Observed
<1>6. CASE q # r
  <2>1. Head(out) \notin About(r)
    BY <1>1, <1>3, <1>6 DEF About, AnswersTo, Users
  <2>2. Alike(out, out', r)
    BY <1>2, <2>1, AlikeReads
  <2>3. status'[r] = status[r]
    BY <1>5, <1>6 DEF Types
  <2> QED BY <1>1, <2>2, <2>3, PlacedStays DEF QueueAlike, PipeAlike
<1>7. CASE q = r
  <2>1. Head(out) \in Users(r) /\ Head(out) \notin AnswersTo(r)
    BY <1>1, <1>2, <1>3, <1>7 DEF AnswersTo, Users
  <2>2. Has(out, Users(r))
    BY <1>2, <2>1, TailReads
  <2>3. eaten[r] = 1 /\ status[r] # "none"
    BY <2>2 DEF Placed, Nowhere
  <2>4. \A c \in Calls : ~(call[c] = "sending" /\ Of[c] = r)
    BY <2>2 DEF Placed, Nowhere
  <2>5. status'[r] = "consumed"
    BY <1>5, <1>7, <2>3 DEF Types
  <2>6. Once(out', AnswersTo(r)) /\ (Has(out', AnswersTo(r)) => Has(out, AnswersTo(r)))
    BY <1>2, TailReads DEF Placed
  <2>7. ~Has(out', Refusals(r))
    BY <1>2, <2>3, TailReads DEF Placed
  <2>8. /\ ~Has(pipe', Steers(r)) /\ ~Has(pi'.queue, {r}) /\ eaten'[r] = 1
        /\ Once(pipe', Steers(r)) /\ Once(pi'.queue, {r})
    BY <1>1, <2>3 DEF Placed
  <2> QED BY <1>1, <2>4, <2>5, <2>6, <2>7, <2>8 DEF Placed
<1> QED BY <1>6, <1>7

\* The steps of the HTTP requests.
LEMMA HttpPlaced ==
    ASSUME Types, NEW r \in Requests, Placed(r), Http
    PROVE  Placed(r)'
<1>0. Alike(out, out, r) /\ None \notin Calls /\ Of \in [Calls -> Requests]
  BY CallsAssumption DEF Alike
<1>1. ASSUME NEW c \in Calls, Arrive(c) PROVE Placed(r)'
  <2>1. UNCHANGED <<pipe, pi, out, status, eaten>>
    BY <1>1 DEF Arrive
  <2>2. \A d \in Calls : call'[d] = "sending" => call[d] = "sending"
    BY <1>1 DEF Arrive, Types
  <2> QED BY <1>0, <2>1, <2>2, PlacedStays DEF QueueAlike, PipeAlike
<1>2. ASSUME NEW c \in Calls, Submit(c) PROVE Placed(r)'
  <2>0. /\ UNCHANGED <<pipe, pi, out, eaten>> /\ Of[c] \in Requests
        /\ \A d \in Calls : call[d] # "sending"
    BY <1>0, <1>2 DEF Submit, Types
  <2>1. CASE status[Of[c]] # "none" \/ ~rpc.entry
    <3>1. UNCHANGED status /\ call' = [call EXCEPT ![c] = "answered"]
      BY <1>2, <2>1 DEF Submit
    <3>2. \A d \in Calls : call'[d] = "sending" => call[d] = "sending"
      BY <3>1 DEF Types
    <3> QED BY <1>0, <2>0, <3>1, <3>2, PlacedStays DEF QueueAlike, PipeAlike
  <2>2. CASE ~(status[Of[c]] # "none" \/ ~rpc.entry)
    <3>1. /\ status' = [status EXCEPT ![Of[c]] = "submitted"]
          /\ call' = [call EXCEPT ![c] = "sending"]
      BY <1>2, <2>2 DEF Submit
    <3>2. \A d \in Calls : call'[d] = "sending" => d = c
      BY <2>0, <3>1 DEF Types
    <3>3. CASE Of[c] # r
      <4>1. status'[r] = status[r]
        BY <3>1, <3>3 DEF Types
      <4> QED BY <1>0, <2>0, <3>2, <3>3, <4>1, PlacedStays DEF QueueAlike, PipeAlike
    <3>4. CASE Of[c] = r
      <4>1. status[r] = "none" /\ status'[r] = "submitted"
        BY <2>2, <3>1, <3>4 DEF Types
      <4>2. Nowhere(r) /\ Nowhere(r)'
        BY <2>0, <4>1 DEF Placed, Nowhere
      <4> QED BY <2>0, <4>1, <4>2 DEF Placed
    <3> QED BY <3>3, <3>4
  <2> QED BY <2>1, <2>2
<1>3. ASSUME NEW c \in Calls, SubmitLate(c) PROVE Placed(r)'
  <2>1. /\ UNCHANGED <<pipe, pi, out, eaten>> /\ Of[c] \in Requests
        /\ status[Of[c]] = "none" /\ status' = [status EXCEPT ![Of[c]] = "failed"]
        /\ call' = [call EXCEPT ![c] = "answered"]
    BY <1>0, <1>3 DEF SubmitLate
  <2>2. \A d \in Calls : call'[d] = "sending" => call[d] = "sending"
    BY <2>1 DEF Types
  <2>3. CASE Of[c] # r
    <3>1. status'[r] = status[r]
      BY <2>1, <2>3 DEF Types
    <3> QED BY <1>0, <2>1, <2>2, <3>1, PlacedStays DEF QueueAlike, PipeAlike
  <2>4. CASE Of[c] = r
    <3>1. status'[r] = "failed" /\ Nowhere(r)
      BY <2>1, <2>4 DEF Types, Placed
    <3>2. \A d \in Calls : ~(call'[d] = "sending" /\ Of[d] = r)
      BY <2>1, <2>2, <2>4 DEF Placed
    <3> QED BY <2>1, <3>1, <3>2 DEF Placed, Nowhere
  <2> QED BY <2>3, <2>4
<1>4. ASSUME NEW c \in Calls, Send(c) PROVE Placed(r)'
  <2>1. /\ UNCHANGED <<pi, out, eaten>> /\ Of[c] \in Requests
        /\ call[c] = "sending" /\ call' = [call EXCEPT ![c] = "answered"]
        /\ \/ status' = [status EXCEPT ![Of[c]] = "failed"] /\ UNCHANGED pipe
           \/ pipe' = Append(pipe, Steer(Of[c])) /\ UNCHANGED status
    BY <1>0, <1>4 DEF Send
  <2>2. \A d \in Calls : call'[d] # "sending"
    BY <1>4, <2>1 DEF Send, Types
  <2>3. pipe \in Seq(Commands) /\ Steer(Of[c]) \in Commands
    BY <2>1, CommandSorts DEF Types
  <2>4. CASE Of[c] # r
    <3>1. status'[r] = status[r]
      BY <2>1, <2>4 DEF Types
    <3>2. Steer(Of[c]) \notin Steers(r)
      BY <2>1, <2>4, CommandSorts DEF Steers
    <3>3. PipeAlike(r)
      <4>1. /\ Has(Append(pipe, Steer(Of[c])), Steers(r)) <=> Has(pipe, Steers(r))
            /\ Once(pipe, Steers(r)) => Once(Append(pipe, Steer(Of[c])), Steers(r))
        BY <2>3, <3>2, AppendWrites
      <4> QED BY <2>1, <4>1 DEF PipeAlike
    <3> QED BY <1>0, <2>1, <2>2, <3>1, <3>3, PlacedStays DEF QueueAlike
  <2>5. CASE Of[c] = r
    <3>1. status[r] = "submitted" /\ Nowhere(r)
      BY <2>1, <2>5 DEF Placed
    <3>2. ~Has(out', Refusals(r)) /\ ~Has(out', Accepts(r))
      BY <2>1, <3>1 DEF Has, Nowhere, Refusals, Accepts
    <3>3. CASE status' = [status EXCEPT ![Of[c]] = "failed"] /\ UNCHANGED pipe
      <4>1. status'[r] = "failed"
        BY <2>5, <3>3 DEF Types
      <4> QED BY <2>1, <2>2, <3>1, <3>2, <3>3, <4>1 DEF Placed, Nowhere
    <3>4. CASE pipe' = Append(pipe, Steer(Of[c])) /\ UNCHANGED status
      <4>1. Once(pipe', Steers(r))
        BY <2>3, <3>1, <3>4, AppendWrites DEF Placed, Nowhere
      <4> QED BY <2>1, <2>2, <3>1, <3>2, <3>4, <4>1 DEF Placed, Nowhere
    <3> QED BY <2>1, <3>3, <3>4
  <2> QED BY <2>4, <2>5
<1>5. ASSUME NEW q \in Requests, Abandon(q) PROVE Placed(r)'
  <2>1. UNCHANGED <<pipe, pi, out, status, call, eaten>>
    BY <1>5 DEF Abandon
  <2> QED BY <1>0, <2>1, PlacedStays DEF QueueAlike, PipeAlike
<1>6. ASSUME NEW q \in Requests, Expire(q) PROVE Placed(r)'
  <2>1. /\ UNCHANGED <<pipe, pi, out, call, eaten>> /\ status[q] = "submitted"
        /\ status' = [status EXCEPT ![q] = "unknown"]
        /\ \A d \in Calls : call[d] # "sending"
    BY <1>0, <1>6 DEF Expire, Types
  <2>2. CASE q # r
    <3>1. status'[r] = status[r]
      BY <2>1, <2>2 DEF Types
    <3> QED BY <1>0, <2>1, <3>1, PlacedStays DEF QueueAlike, PipeAlike
  <2>3. CASE q = r
    <3>1. status'[r] = "unknown"
      BY <2>1, <2>3 DEF Types
    <3> QED BY <2>1, <3>1 DEF Placed
  <2> QED BY <2>2, <2>3
<1> QED BY <1>1, <1>2, <1>3, <1>4, <1>5, <1>6 DEF Http

\* Every step keeps every request in its place.
LEMMA PlacedStep ==
    ASSUME Types, NEW r \in Requests, Placed(r), [Next]_vars
    PROVE  Placed(r)'
<1>1. CASE UNCHANGED vars
  <2>1. UNCHANGED <<pipe, pi, out, status, call, eaten>>
    BY <1>1 DEF vars
  <2> QED BY <2>1, PlacedStays DEF QueueAlike, PipeAlike, Alike
<1>2. CASE Pi \/ PiDies \/ Timeout
  BY <1>2, PiPlaced, PiSteerPlaced, PiConsumePlaced DEF Pi, Dispositions
<1>3. CASE Turn
  BY <1>3, TurnPlaced, ReadAnswerPlaced, ReadUserPlaced DEF Turn
<1> QED BY <1>1, <1>2, <1>3, HttpPlaced DEF Next

----------------------------------------------------------------------------
(* The prompt.                                                             *)

\* The prompt stays the first command while it is not read.
LEMMA PromptWrites ==
    ASSUME Types, NEW x \in Commands, x # Prompt, pipe' = Append(pipe, x), Prompted
    PROVE  /\ Once(pipe', {Prompt})
           /\ Has(pipe', {Prompt}) => Has(pipe, {Prompt}) /\ Head(pipe') = Prompt
<1>1. pipe \in Seq(Commands) /\ x \notin {Prompt}
  BY DEF Types
<1>2. Once(pipe', {Prompt}) /\ (Has(pipe', {Prompt}) => Has(pipe, {Prompt}))
  BY <1>1, AppendWrites DEF Prompted
<1>3. Has(pipe, {Prompt}) => pipe # <<>>
  BY <1>1, EmptySeq DEF Has
<1>4. pipe # <<>> => Head(pipe') = Head(pipe)
  BY <1>1, HeadTailAppend
<1> QED BY <1>2, <1>3, <1>4 DEF Prompted

\* Once a command is read the prompt is no longer there.
LEMMA PromptTaken ==
    ASSUME Types, NEW cmd, Next_(cmd), Takes, Prompted
    PROVE  ~Has(pipe', {Prompt}) /\ Once(pipe', {Prompt})
<1>1. pipe \in Seq(Commands) /\ pipe # <<>> /\ pipe' = Tail(pipe)
  BY TakesTypes DEF Types, Takes
<1> QED BY <1>1, TailReads DEF Prompted

\* Every step keeps the prompt first.
LEMMA PromptedStep ==
    ASSUME Types, Prompted, [Next]_vars
    PROVE  Prompted'
<1>0. out \in Seq(Events) /\ pi.queue \in Seq(Requests)
  BY DEF Types
<1>1. CASE UNCHANGED vars
  BY <1>1 DEF vars, Prompted
<1>2. ASSUME \/ \E ok \in BOOLEAN : PiPrompt(ok) \/ PiStats(ok)
             \/ \E d \in Dispositions : PiSteer(d)
             \/ PiIgnoresStats
      PROVE  Prompted'
  <2>1. \E cmd : Next_(cmd) /\ Takes
    BY <1>2 DEF PiPrompt, PiStats, PiSteer, PiIgnoresStats
  <2> QED BY <2>1, PromptTaken DEF Prompted
<1>3. ASSUME PiConsume \/ \E ok, s \in BOOLEAN : PiReply(ok, s)
      PROVE  Prompted'
  <2>1. pi.queue # <<>> \/ pi.at = "busy"
    BY <1>3 DEF PiConsume, PiReply
  <2>2. UNCHANGED pipe
    BY <1>3 DEF PiConsume, PiReply
  <2> QED BY <2>1, <2>2 DEF Prompted
<1>4. ASSUME PiExit \/ PiDies \/ Timeout PROVE Prompted'
  <2>1. /\ UNCHANGED <<pipe, out>> /\ pi'.queue = pi.queue /\ turn'.text = turn.text
        /\ pi'.at = pi.at \/ pi'.at # "busy"
    BY <1>4 DEF PiExit, PiDies, Timeout, Types
  <2> QED BY <2>1 DEF Prompted
<1>5. ASSUME ReadStart \/ ReadMessage \/ ReadSettled \/ ReadStats \/ ReadRejected
             \/ ReadAnswer \/ ReadUser
      PROVE  Prompted'
  <2>1. out # <<>>
    BY <1>5 DEF ReadStart, ReadMessage, ReadSettled, ReadStats, ReadRejected, ReadAnswer,
                ReadUser, Reads
  <2>2. ~Has(pipe, {Prompt})
    BY <2>1 DEF Prompted
  <2>3. pipe' = pipe \/ pipe' = Append(pipe, Stats)
    BY <1>5 DEF ReadStart, ReadMessage, ReadSettled, ReadStats, ReadRejected, ReadAnswer, ReadUser
  <2>4. Stats \in Commands /\ Stats # Prompt
    BY CommandSorts
  <2>5. Once(pipe', {Prompt}) /\ ~Has(pipe', {Prompt})
    BY <2>2, <2>3, <2>4, PromptWrites DEF Prompted
  <2> QED BY <2>5 DEF Prompted
<1>6. ASSUME Tick \/ Close \/ Eof \/ Unregister \/ Reap PROVE Prompted'
  <2>1. UNCHANGED <<pipe, out, pi>> /\ turn'.text = turn.text
    BY <1>6 DEF Tick, Close, Eof, Unregister, Reap, Types
  <2> QED BY <2>1 DEF Prompted
<1>7. ASSUME NEW c \in Calls, Send(c) PROVE Prompted'
  <2>1. Of[c] \in Requests
    BY CallsAssumption
  <2>2. Steer(Of[c]) \in Commands /\ Steer(Of[c]) # Prompt
    BY <2>1, CommandSorts
  <2>3. UNCHANGED <<pi, out, turn>> /\ (pipe' = pipe \/ pipe' = Append(pipe, Steer(Of[c])))
    BY <1>7 DEF Send
  <2>4. CASE pipe' = pipe
    BY <2>3, <2>4 DEF Prompted
  <2>5. CASE pipe' = Append(pipe, Steer(Of[c]))
    BY <2>2, <2>3, <2>5, PromptWrites DEF Prompted
  <2> QED BY <2>3, <2>4, <2>5
<1>8. ASSUME \/ \E c \in Calls : Arrive(c) \/ Submit(c) \/ SubmitLate(c)
             \/ \E r \in Requests : Abandon(r) \/ Expire(r)
      PROVE  Prompted'
  <2>1. UNCHANGED <<pipe, pi, out, turn>>
    BY <1>8 DEF Arrive, Submit, SubmitLate, Abandon, Expire
  <2> QED BY <2>1 DEF Prompted
<1> QED BY <1>1, <1>2, <1>3, <1>4, <1>5, <1>6, <1>7, <1>8 DEF Next, Pi, Turn, Http, Dispositions

----------------------------------------------------------------------------
(* What keeps a turn open.                                                 *)
Live == ~turn.slow /\ Up /\ turn.pc = "loop"

\* A turn that is over does not come back, and neither does an engine.
LEMMA LiveBefore ==
    ASSUME Types, [Next]_vars, Live'
    PROVE  Live
<1> USE DEF Live, Up
<1>1. CASE UNCHANGED vars
  BY <1>1 DEF vars
<1>2. CASE Pi \/ PiDies
  <2>1. UNCHANGED turn
    BY <1>2 DEF Pi, PiDies, PiPrompt, PiStats, PiSteer, PiIgnoresStats, PiConsume, PiExit, PiReply
  <2>2. CASE PiDies \/ PiExit
    BY <2>2 DEF PiDies, PiExit, Types
  <2>3. CASE ~(PiDies \/ PiExit)
    BY <1>2, <2>1, <2>3 DEF Pi, PiPrompt, PiStats, PiSteer, PiIgnoresStats, PiConsume, PiReply, Next_, Types
  <2> QED BY <2>2, <2>3
<1>3. CASE Turn
  <2>1. UNCHANGED pi
    BY <1>3 DEF Turn, ReadStart, ReadMessage, ReadSettled, ReadStats, ReadRejected, ReadAnswer,
                ReadUser, Tick, Close, Eof, Unregister, Reap
  <2>2. turn'.slow = turn.slow /\ (turn'.pc = "loop" => turn.pc = "loop")
    <3>1. CASE ReadStart \/ ReadMessage \/ ReadSettled \/ ReadStats
      BY <3>1 DEF ReadStart, ReadMessage, ReadSettled, ReadStats, Types
    <3>2. CASE ReadRejected
      BY <3>2 DEF ReadRejected, Types
    <3>3. CASE ReadAnswer
      BY <3>3 DEF ReadAnswer, Types
    <3>4. CASE ReadUser \/ Tick
      BY <3>4 DEF ReadUser, Tick, Types
    <3>5. CASE Close \/ Eof \/ Unregister \/ Reap
      BY <3>5 DEF Close, Eof, Unregister, Reap, Types
    <3> QED BY <1>3, <3>1, <3>2, <3>3, <3>4, <3>5 DEF Turn
  <2> QED BY <2>1, <2>2
<1>4. CASE Timeout
  BY <1>4 DEF Timeout, Types
<1>5. CASE Http
  BY <1>5 DEF Http, Arrive, Submit, SubmitLate, Send, Abandon, Expire
<1> QED BY <1>1, <1>2, <1>3, <1>4, <1>5 DEF Next

\* What is said of the end of the turn stands to the request as before.
OrderAlike(r) ==
    /\ Has(out', AnswersTo(r)) <=> Has(out, AnswersTo(r))
    /\ Before(out, Closers, AnswersTo(r)) => Before(out', Closers, AnswersTo(r))
    /\ ~Has(out, Closers) => ~Has(out', Closers)

\* Writing an event that neither answers the request nor ends the turn.
LEMMA OrderWrites ==
    ASSUME Types, NEW r \in Requests, NEW e \in Events, out' = Append(out, e),
           e \notin AnswersTo(r), e \notin Closers
    PROVE  OrderAlike(r)
<1>1. out \in Seq(Events)
  BY DEF Types
<1>2. Has(out', AnswersTo(r)) <=> Has(out, AnswersTo(r))
  BY <1>1, AppendWrites
<1>3. ~Has(out, Closers) => ~Has(out', Closers)
  BY <1>1, AppendWrites
<1>4. Before(out, Closers, AnswersTo(r)) => Before(out', Closers, AnswersTo(r))
  BY <1>1, AppendOrder
<1> QED BY <1>2, <1>3, <1>4 DEF OrderAlike

\* Reading an event that does not answer the request.
LEMMA OrderReads ==
    ASSUME Types, NEW r \in Requests, out # <<>>, out' = Tail(out), Head(out) \notin AnswersTo(r)
    PROVE  OrderAlike(r)
<1>1. out \in Seq(Events)
  BY DEF Types
<1>2. Has(out', AnswersTo(r)) <=> Has(out, AnswersTo(r))
  BY <1>1, TailReads
<1>3. ~Has(out, Closers) => ~Has(out', Closers)
  BY <1>1, TailReads
<1>4. Before(out, Closers, AnswersTo(r)) => Before(out', Closers, AnswersTo(r))
  BY <1>1, TailOrder
<1> QED BY <1>2, <1>3, <1>4 DEF OrderAlike

\* A step that changes none of this leaves the turn open for the request.
LEMMA KeepsStays ==
    ASSUME NEW r \in Requests, KeepsOpen(r), PipeAlike(r), QueueAlike(r), OrderAlike(r),
           r \in pending => r \in pending', turn.ended = "no" => turn'.ended = "no"
    PROVE  KeepsOpen(r)'
<1>1. Has(pipe', Steers(r)) => r \in pending'
  BY DEF KeepsOpen, PipeAlike
<1>2. ASSUME Has(pi'.queue, {r}), Has(out', AnswersTo(r))
      PROVE  r \in pending' /\ Before(out', Closers, AnswersTo(r))
  BY <1>2 DEF KeepsOpen, QueueAlike, OrderAlike
<1>3. ASSUME Has(pi'.queue, {r}), ~Has(out', AnswersTo(r))
      PROVE  ~Has(out', Closers) /\ turn'.ended = "no"
  BY <1>3 DEF KeepsOpen, QueueAlike, OrderAlike
<1> QED BY <1>1, <1>2, <1>3 DEF KeepsOpen

\* Which events end a turn.
LEMMA CloserSorts ==
    ASSUME NEW ok \in BOOLEAN, NEW d \in Dispositions, NEW r \in Requests
    PROVE  /\ Event("start", None, TRUE) \notin Closers /\ Event("user", r, TRUE) \notin Closers
           /\ Event("stats", None, ok) \notin Closers /\ Event("message", None, ok) \notin Closers
           /\ Event("answer", r, d) \notin Closers
<1> DEFINE T(e) == e.type # "settled" /\ ~(e.type = "answer" /\ e.id = "initial")
<1>1. \A e : T(e) => e \notin Closers
  BY DEF Closers, Settles, Rejections, AnswersTo
<1>2. /\ T(Event("start", None, TRUE)) /\ T(Event("user", r, TRUE))
      /\ T(Event("stats", None, ok)) /\ T(Event("message", None, ok)) /\ T(Event("answer", r, d))
  BY CallsAssumption DEF Event
<1> HIDE DEF T
<1> QED BY <1>1, <1>2

\* The engine's steps keep the turn open for a request.
LEMMA PiKeeps ==
    ASSUME Types, Prompted, NEW r \in Requests, Placed(r), KeepsOpen(r), Pi, Live'
    PROVE  KeepsOpen(r)'
<1>0. /\ out \in Seq(Events) /\ pipe \in Seq(Commands) /\ pi.queue \in Seq(Requests)
      /\ UNCHANGED <<pending, turn>>
  BY DEF Types, Pi, PiPrompt, PiStats, PiSteer, PiIgnoresStats, PiConsume, PiExit, PiReply
<1>1. ASSUME NEW ok \in BOOLEAN, PiPrompt(ok) PROVE KeepsOpen(r)'
  <2>1. Next_("prompt") /\ Takes /\ pi'.queue = pi.queue
    BY <1>1 DEF PiPrompt, Types
  <2>2. Head(pipe) = Prompt /\ Has(pipe, {Prompt}) /\ PipeAlike(r)
    <3>1. pipe # <<>> /\ Head(pipe) = Prompt /\ pipe' = Tail(pipe)
      BY <2>1, TakesTypes, CommandSorts DEF Takes
    <3>2. Head(pipe) \in {Prompt} /\ Head(pipe) # Steer(r)
      BY <3>1, CommandSorts
    <3>3. Has(pipe, {Prompt})
      BY <1>0, <3>1, <3>2, TailReads
    <3>4. PipeAlike(r)
      BY <3>1, <3>2, PipeTakes
    <3> QED BY <3>1, <3>3, <3>4
  <2>3. ~Has(pi'.queue, {r})
    BY <2>1, <2>2, EmptySeq DEF Prompted, Has
  <2> QED BY <1>0, <2>2, <2>3 DEF KeepsOpen, PipeAlike
<1>2. ASSUME NEW ok \in BOOLEAN, PiStats(ok) PROVE KeepsOpen(r)'
  <2>1. Next_("stats") /\ Takes /\ out' = out \o <<Event("stats", None, ok)>> /\ UNCHANGED pi
    BY <1>2 DEF PiStats, Says
  <2>2. PipeAlike(r)
    BY <2>1, TakesTypes, CommandSorts, PipeTakes DEF Takes
  <2>3. PICK e : e = Event("stats", None, ok)
    OBVIOUS
  <2>4. e \in Events /\ e \notin AnswersTo(r) /\ e \notin Closers
    <3>1. e \in Events
      BY <1>2, <2>3 DEF Event, Events
    <3>2. e \notin AnswersTo(r)
      BY <2>3, NotAbout DEF About
    <3> QED BY <1>2, <2>3, <3>1, <3>2, CloserSorts DEF Dispositions
  <2>5. out' = Append(out, e)
    BY <1>0, <2>1, <2>3, <2>4, AppendIsConcat
  <2> QED BY <1>0, <2>1, <2>2, <2>4, <2>5, OrderWrites, KeepsStays DEF QueueAlike
<1>3. ASSUME PiIgnoresStats PROVE KeepsOpen(r)'
  <2>1. Next_("stats") /\ Takes /\ UNCHANGED <<pi, out>>
    BY <1>3 DEF PiIgnoresStats
  <2>2. PipeAlike(r)
    BY <2>1, TakesTypes, CommandSorts, PipeTakes DEF Takes
  <2> QED BY <1>0, <2>1, <2>2, KeepsStays DEF QueueAlike, OrderAlike
<1>4. ASSUME NEW d \in Dispositions, PiSteer(d) PROVE KeepsOpen(r)'
  <2>1. PICK q, e : q = Head(pipe).id /\ e = Event("answer", q, d)
    OBVIOUS
  <2>2. /\ Next_("steer") /\ Takes /\ pipe' = Tail(pipe) /\ out' = out \o <<e>>
        /\ pi' = IF d \in {"queued", "accepted"}
                 THEN [pi EXCEPT !.queue = Append(pi.queue, q)] ELSE pi
    BY <1>4, <2>1 DEF PiSteer, Says, Takes
  <2>3. pipe # <<>> /\ q \in Requests /\ Head(pipe) = Steer(q)
    BY <2>1, <2>2, TakesTypes, CommandSorts
  <2>4. e \in Events /\ e \notin Closers
    <3>1. e \in Events
      BY <1>4, <2>1, <2>3, EventTypes
    <3> QED BY <1>4, <2>1, <2>3, <3>1, CloserSorts
  <2>5. out' = Append(out, e)
    BY <1>0, <2>2, <2>4, AppendIsConcat
  <2>6. /\ d \in {"queued", "accepted"} => pi'.queue = Append(pi.queue, q)
        /\ d \notin {"queued", "accepted"} => pi'.queue = pi.queue
    BY <2>2 DEF Types
  <2>7. CASE q # r
    <3>1. e \notin AnswersTo(r)
      BY <2>1, <2>3, <2>7, NotAbout DEF About
    <3>2. PipeAlike(r)
      BY <2>2, <2>3, <2>7, CommandSorts, PipeTakes
    <3>3. /\ Has(Append(pi.queue, q), {r}) <=> Has(pi.queue, {r})
          /\ Once(pi.queue, {r}) => Once(Append(pi.queue, q), {r})
      BY <1>0, <2>3, <2>7, AppendWrites
    <3>4. QueueAlike(r)
      BY <2>6, <3>3 DEF QueueAlike
    <3> QED BY <1>0, <2>4, <2>5, <3>1, <3>2, <3>4, OrderWrites, KeepsStays
  <2>8. CASE q = r
    <3>1. Head(pipe) \in Steers(r)
      BY <2>3, <2>8 DEF Steers
    <3>2. Has(pipe, Steers(r)) /\ ~Has(pipe', Steers(r))
      BY <1>0, <2>2, <2>3, <3>1, TailReads DEF Placed
    <3>3. r \in pending' /\ ~Has(out, AnswersTo(r)) /\ ~Has(pi.queue, {r})
      BY <1>0, <3>2 DEF KeepsOpen, Placed
    <3>4. e \in AnswersTo(r)
      BY <1>4, <2>1, <2>8, SaidAbout
    <3>5. Has(out', AnswersTo(r))
      BY <1>0, <2>4, <2>5, <3>4, AppendWrites
    <3>6. Before(out', Closers, AnswersTo(r))
      BY <1>0, <2>4, <2>5, <3>3, AppendOrder
    <3> QED BY <3>2, <3>3, <3>5, <3>6 DEF KeepsOpen
  <2> QED BY <2>7, <2>8
<1>5. ASSUME PiConsume PROVE KeepsOpen(r)'
  <2>1. PICK q, b, u : /\ q = Head(pi.queue) /\ b = Event("start", None, TRUE)
                       /\ u = Event("user", q, TRUE)
    OBVIOUS
  <2>2. /\ pi.queue # <<>> /\ pi'.queue = Tail(pi.queue) /\ UNCHANGED pipe
        /\ out' = out \o ((IF pi.at = "idle" THEN <<b>> ELSE <<>>) \o <<u>>)
    BY <1>5, <2>1 DEF PiConsume, Says, Types
  <2>3. q \in Requests
    BY <1>0, <2>1, <2>2, TailReads
  <2>4. CASE q # r
    <3>1. b \in Events /\ u \in Events
      BY <2>1, <2>3, EventTypes DEF Dispositions
    <3>2. b \notin AnswersTo(r) /\ u \notin AnswersTo(r)
      BY <2>1, <2>3, <2>4, NotAbout DEF About
    <3>3. b \notin Closers /\ u \notin Closers
      BY <2>1, <2>3, CloserSorts DEF Dispositions
    <3>4. out' = Append(out, u) \/ out' = Append(Append(out, b), u)
      <4>1. <<b>> \o <<u>> = <<b, u>> /\ <<>> \o <<u>> = <<u>>
        BY <3>1, EmptySeq, ConcatWrites
      <4>2. out' = out \o <<b, u>> \/ out' = out \o <<u>>
        BY <2>2, <4>1
      <4> QED BY <1>0, <3>1, <4>2, ConcatWrites
    <3>5. OrderAlike(r)
      <4>1. CASE out' = Append(out, u)
        BY <3>1, <3>2, <3>3, <4>1, OrderWrites
      <4>2. CASE out' = Append(Append(out, b), u)
        <5>1. /\ Append(out, b) \in Seq(Events)
              /\ Has(Append(out, b), AnswersTo(r)) <=> Has(out, AnswersTo(r))
          BY <1>0, <3>1, <3>2, AppendWrites
        <5>2. Has(Append(out, b), Closers) => Has(out, Closers)
          BY <1>0, <3>1, <3>3, AppendWrites
        <5>3. Before(out, Closers, AnswersTo(r)) => Before(Append(out, b), Closers, AnswersTo(r))
          BY <1>0, <3>1, <3>3, AppendOrder
        <5>4. Has(out', AnswersTo(r)) <=> Has(Append(out, b), AnswersTo(r))
          BY <3>1, <3>2, <4>2, <5>1, AppendWrites
        <5>5. Has(out', Closers) => Has(Append(out, b), Closers)
          BY <3>1, <3>3, <4>2, <5>1, AppendWrites
        <5>6. Before(Append(out, b), Closers, AnswersTo(r)) => Before(out', Closers, AnswersTo(r))
          BY <3>1, <3>3, <4>2, <5>1, AppendOrder
        <5> QED BY <5>1, <5>2, <5>3, <5>4, <5>5, <5>6 DEF OrderAlike
      <4> QED BY <3>4, <4>1, <4>2
    <3>6. QueueAlike(r)
      BY <1>0, <2>1, <2>2, <2>4, TailReads DEF QueueAlike
    <3> QED BY <1>0, <2>2, <3>5, <3>6, KeepsStays DEF PipeAlike
  <2>5. CASE q = r
    <3>1. Has(pi.queue, {r}) /\ ~Has(pi'.queue, {r})
      BY <1>0, <2>1, <2>2, <2>5, TailReads DEF Placed
    <3>2. ~Has(pipe', Steers(r))
      BY <2>2, <3>1 DEF Placed
    <3> QED BY <3>1, <3>2 DEF KeepsOpen
  <2> QED BY <2>4, <2>5
<1>6. ASSUME NEW ok \in BOOLEAN, NEW s \in BOOLEAN, PiReply(ok, s) PROVE KeepsOpen(r)'
  <2>1. pi'.queue = <<>> /\ UNCHANGED pipe
    BY <1>6 DEF PiReply, Types
  <2>2. ~Has(pi'.queue, {r})
    BY <2>1, EmptySeq DEF Has
  <2> QED BY <1>0, <2>1, <2>2 DEF KeepsOpen
<1>7. ASSUME PiExit PROVE KeepsOpen(r)'
  BY <1>7 DEF PiExit, Live, Up, Types
<1> QED BY <1>1, <1>2, <1>3, <1>4, <1>5, <1>6, <1>7 DEF Pi, Dispositions

\* The steps of the turn keep it open for a request.
LEMMA TurnKeeps ==
    ASSUME Types, NEW r \in Requests, Placed(r), KeepsOpen(r), Turn, Live'
    PROVE  KeepsOpen(r)'
<1>0. out \in Seq(Events) /\ pi.queue \in Seq(Requests)
  BY DEF Types
<1>1. ASSUME ReadStart \/ ReadMessage \/ ReadStats \/ ReadUser PROVE KeepsOpen(r)'
  <2>1. /\ out # <<>> /\ out' = Tail(out) /\ Head(out).type # "answer"
        /\ UNCHANGED <<pi, pending>>
    BY <1>1 DEF ReadStart, ReadMessage, ReadStats, ReadUser, Reads, Consumes
  <2>2. pipe' = Append(pipe, Stats) \/ pipe' = pipe
    BY <1>1 DEF ReadStart, ReadMessage, ReadStats, ReadUser
  <2>3. turn.ended = "no" => turn'.ended = "no"
    BY <1>1 DEF ReadStart, ReadMessage, ReadStats, ReadUser, Types
  <2>4. Head(out) \notin AnswersTo(r)
    BY <2>1 DEF AnswersTo
  <2>5. PipeAlike(r)
    BY <2>2, PipeAsks
  <2>6. OrderAlike(r)
    BY <2>1, <2>4, OrderReads
  <2> QED BY <2>1, <2>3, <2>5, <2>6, KeepsStays DEF QueueAlike
<1>2. ASSUME ReadSettled \/ ReadRejected PROVE KeepsOpen(r)'
  <2>1. /\ out # <<>> /\ out' = Tail(out) /\ UNCHANGED <<pi, pending>>
        /\ \/ Head(out).type = "settled"
           \/ Head(out).type = "answer" /\ Head(out).id = "initial"
    BY <1>2 DEF ReadSettled, ReadRejected, Reads, Consumes
  <2>2. pipe' = Append(pipe, Stats) \/ pipe' = pipe
    BY <1>2 DEF ReadSettled, ReadRejected
  <2>3. Head(out) \in Events
    BY <1>0, <2>1, TailReads
  <2>4. Head(out) \in Closers /\ Head(out) \notin AnswersTo(r)
    BY <2>1, <2>3, CallsAssumption DEF Closers, Settles, Rejections, AnswersTo
  <2>5. Has(out, Closers)
    BY <1>0, <2>1, <2>4, TailReads
  <2>6. PipeAlike(r)
    BY <2>2, PipeAsks
  <2>7. OrderAlike(r)
    BY <2>1, <2>4, OrderReads
  <2>8. Has(pi.queue, {r}) => Has(out, AnswersTo(r))
    BY <2>5 DEF KeepsOpen
  <2>9. Has(pi'.queue, {r}) => Has(out', AnswersTo(r)) /\ r \in pending'
                               /\ Before(out', Closers, AnswersTo(r))
    BY <2>1, <2>7, <2>8 DEF KeepsOpen, OrderAlike
  <2> QED BY <2>1, <2>6, <2>9 DEF KeepsOpen, PipeAlike
<1>3. ASSUME ReadAnswer PROVE KeepsOpen(r)'
  <2>1. PICK h : h = Head(out)
    OBVIOUS
  <2>2. /\ out # <<>> /\ out' = Tail(out) /\ UNCHANGED <<pi, pipe>> /\ h.type = "answer"
        /\ h.id # "initial" /\ pending' = pending \ {h.id}
        /\ turn' = IF h.id \in pending /\ h.value \in {"queued", "accepted"}
                   THEN [turn EXCEPT !.ended = "no"] ELSE turn
    BY <1>3, <2>1 DEF ReadAnswer, Reads, Consumes
  <2>3. h \in Events
    BY <1>0, <2>1, <2>2, TailReads
  <2>4. /\ turn.ended = "no" => turn'.ended = "no"
        /\ h.id \in pending /\ h.value \in {"queued", "accepted"} => turn'.ended = "no"
    BY <2>2 DEF Types
  <2>5. CASE h.id # r
    <3>1. h \notin AnswersTo(r)
      BY <2>5 DEF AnswersTo
    <3>2. OrderAlike(r)
      BY <2>1, <2>2, <3>1, OrderReads
    <3>3. r \in pending => r \in pending'
      BY <2>2, <2>5
    <3> QED BY <2>2, <2>4, <3>2, <3>3, KeepsStays DEF PipeAlike, QueueAlike
  <2>6. CASE h.id = r
    <3>1. h \in AnswersTo(r) /\ h.value \in Dispositions
      BY <2>2, <2>3, <2>6, EventSorts DEF AnswersTo
    <3>2. Has(out, AnswersTo(r)) /\ ~Has(out', AnswersTo(r))
      BY <1>0, <2>1, <2>2, <3>1, TailReads DEF Placed
    <3>3. ~Has(pipe', Steers(r))
      BY <2>2, <3>2 DEF Placed
    <3>4. ASSUME Has(pi'.queue, {r}) PROVE ~Has(out', Closers) /\ turn'.ended = "no"
      <4>1. r \in pending /\ Before(out, Closers, AnswersTo(r)) /\ ~Has(out, Refusals(r))
        BY <2>2, <3>2, <3>4 DEF KeepsOpen, Placed
      <4>2. h \notin Refusals(r)
        BY <1>0, <2>1, <2>2, <4>1, TailReads
      <4>3. h.value \in {"queued", "accepted"}
        BY <3>1, <4>2 DEF Refusals, Dispositions
      <4>4. ~Has(out', Closers)
        BY <1>0, <2>1, <2>2, <3>1, <4>1, TailOrder
      <4> QED BY <2>4, <2>6, <4>1, <4>3, <4>4
    <3> QED BY <3>2, <3>3, <3>4 DEF KeepsOpen
  <2> QED BY <2>5, <2>6
<1>4. ASSUME Tick PROVE KeepsOpen(r)'
  <2>1. turn.ended # "no" /\ UNCHANGED <<pipe, pi, out, pending>>
    BY <1>4 DEF Tick
  <2> QED BY <2>1 DEF KeepsOpen
<1>5. ASSUME Close \/ Eof \/ Unregister \/ Reap PROVE FALSE
  BY <1>5 DEF Close, Eof, Unregister, Reap, Live, Types
<1> QED BY <1>1, <1>2, <1>3, <1>4, <1>5 DEF Turn

\* A steer whose answer is not awaited is not on its way and is not answered.
LEMMA AbandonedIsOver ==
    ASSUME Types, NEW r \in Requests, Live, Abandon(r)
    PROVE  ~Has(pipe, Steers(r)) /\ ~Has(out, AnswersTo(r))
<1>1. ~Unanswered(r)
  BY DEF Abandon, Live
<1>2. ~Has(pipe, Steers(r))
  BY <1>1 DEF Unanswered, Has, Steers
<1>3. ~Has(out, AnswersTo(r))
  BY <1>1 DEF Unanswered, Has, AnswersTo
<1> QED BY <1>2, <1>3

\* The steps of the HTTP requests keep the turn open for a request.
LEMMA HttpKeeps ==
    ASSUME Types, NEW r \in Requests, Placed(r), KeepsOpen(r), Http, Live
    PROVE  KeepsOpen(r)'
<1>0. UNCHANGED <<pi, out, turn>> /\ pipe \in Seq(Commands)
  BY DEF Types, Http, Arrive, Submit, SubmitLate, Send, Abandon, Expire
<1>1. ASSUME \/ \E c \in Calls : Arrive(c) \/ Submit(c) \/ SubmitLate(c)
             \/ \E q \in Requests : Expire(q)
      PROVE  KeepsOpen(r)'
  <2>1. UNCHANGED <<pipe, pending>>
    BY <1>1 DEF Arrive, Submit, SubmitLate, Expire
  <2> QED BY <1>0, <2>1 DEF KeepsOpen
<1>2. ASSUME NEW c \in Calls, Send(c) PROVE KeepsOpen(r)'
  <2>1. PICK q : q = Of[c]
    OBVIOUS
  <2>2. q \in Requests
    BY <2>1, CallsAssumption
  <2>3. Steer(q) \in Commands /\ (q # r => Steer(q) \notin Steers(r))
    BY <2>2, CommandSorts DEF Steers
  <2>4. pending' = pending \cup {q} /\ pipe' = Append(pipe, Steer(q))
    BY <1>2, <2>1 DEF Send, Live
  <2>5. Has(pipe', Steers(r)) => r \in pending'
    BY <1>0, <2>3, <2>4, AppendWrites DEF KeepsOpen
  <2>6. r \in pending => r \in pending'
    BY <2>4
  <2> QED BY <1>0, <2>5, <2>6 DEF KeepsOpen
<1>3. ASSUME NEW q \in Requests, Abandon(q) PROVE KeepsOpen(r)'
  <2>1. UNCHANGED pipe /\ pending' = pending \ {q}
    BY <1>3 DEF Abandon
  <2>2. CASE q # r
    BY <1>0, <2>1, <2>2 DEF KeepsOpen
  <2>3. CASE q = r
    <3>1. ~Has(pipe, Steers(r)) /\ ~Has(out, AnswersTo(r))
      BY <1>3, <2>3, AbandonedIsOver
    <3> QED BY <1>0, <2>1, <3>1 DEF KeepsOpen
  <2> QED BY <2>2, <2>3
<1> QED BY <1>1, <1>2, <1>3 DEF Http

\* Every step keeps the turn open for the requests that need it.
LEMMA KeptStep ==
    ASSUME Types, Prompted, \A r \in Requests : Placed(r), Kept, [Next]_vars
    PROVE  Kept'
<1>1. SUFFICES ASSUME Live', NEW r \in Requests PROVE KeepsOpen(r)'
  BY DEF Kept, Live
<1>2. Live
  BY <1>1, LiveBefore
<1>3. KeepsOpen(r) /\ Placed(r)
  BY <1>2 DEF Kept, Live
<1>4. CASE UNCHANGED vars
  BY <1>3, <1>4 DEF vars, KeepsOpen
<1>5. CASE PiDies \/ Timeout
  BY <1>1, <1>5 DEF PiDies, Timeout, Live, Up, Types
<1> QED BY <1>1, <1>2, <1>3, <1>4, <1>5, PiKeeps, TurnKeeps, HttpKeeps DEF Next

\* What the engine consumed stays consumed.
LEMMA EatenGrows ==
    ASSUME Types, \A q \in Requests : Placed(q), [Next]_vars, NEW r \in Requests, eaten[r] = 1
    PROVE  eaten'[r] = 1
<1>1. CASE PiConsume
  <2>1. PICK q : q = Head(pi.queue)
    OBVIOUS
  <2>2. pi.queue # <<>> /\ pi.queue \in Seq(Requests) /\ eaten' = [eaten EXCEPT ![q] = @ + 1]
    BY <1>1, <2>1 DEF PiConsume, Types
  <2>3. q \in Requests /\ Has(pi.queue, {q})
    BY <2>1, <2>2, TailReads
  <2>4. eaten[q] = 0
    BY <2>3 DEF Placed
  <2> QED BY <2>2, <2>4 DEF Types
<1>2. CASE ~PiConsume
  <2>1. UNCHANGED eaten
    BY <1>2 DEF Next, vars, Pi, PiDies, Turn, Timeout, Http, PiPrompt, PiStats, PiSteer,
                PiIgnoresStats, PiExit, PiReply, ReadStart, ReadMessage, ReadSettled, ReadStats,
                ReadRejected, ReadAnswer, ReadUser, Tick, Close, Eof, Unregister, Reap,
                Arrive, Submit, SubmitLate, Send, Abandon, Expire
  <2> QED BY <2>1
<1> QED BY <1>1, <1>2

\* A turn that closes cuts off nothing that the engine accepted.
LEMMA AcceptedStep ==
    ASSUME Types, \A r \in Requests : Placed(r), Kept, AcceptedIsConsumed, [Next]_vars
    PROVE  AcceptedIsConsumed'
<1>0. SUFFICES ASSUME turn'.pc = "closing", Up', ~turn'.slow, NEW r \in Requests,
                      status'[r] \in {"accepted", "queued"}
               PROVE  eaten[r] = 1
  BY EatenGrows DEF AcceptedIsConsumed
<1>1. CASE UNCHANGED vars
  BY <1>0, <1>1 DEF vars, AcceptedIsConsumed, Up
<1>2. CASE Pi \/ PiDies
  <2>1. UNCHANGED <<turn, status>>
    BY <1>2 DEF Pi, PiDies, PiPrompt, PiStats, PiSteer, PiIgnoresStats, PiConsume, PiExit, PiReply
  <2>2. Up
    BY <1>0, <1>2 DEF Pi, PiDies, PiPrompt, PiStats, PiSteer, PiIgnoresStats, PiConsume, PiExit,
                      PiReply, Next_, Up, Types
  <2> QED BY <1>0, <2>1, <2>2 DEF AcceptedIsConsumed
<1>3. CASE Close
  <2>1. /\ turn.pc = "loop" /\ pending = {} /\ turn.ended # "no" /\ turn'.slow = turn.slow
        /\ UNCHANGED <<pi, status>>
    BY <1>3 DEF Close, Types
  <2>2. KeepsOpen(r) /\ Placed(r)
    BY <1>0, <2>1 DEF Kept, Up
  <2>3. ~Has(pi.queue, {r})
    BY <2>1, <2>2 DEF KeepsOpen
  <2> QED BY <1>0, <2>1, <2>2, <2>3 DEF Placed
<1>4. CASE Turn /\ ~Close
  <2>1. CASE Eof
    BY <1>0, <2>1 DEF Eof, Up
  <2>2. CASE Unregister \/ Reap
    BY <1>0, <2>2 DEF Unregister, Reap, Types
  <2>3. CASE ReadStart \/ ReadMessage \/ ReadSettled \/ ReadStats
    BY <1>0, <2>3 DEF ReadStart, ReadMessage, ReadSettled, ReadStats, Reads, Types
  <2>4. CASE ReadRejected
    BY <1>0, <2>4 DEF ReadRejected, Reads, Types
  <2>5. CASE ReadAnswer
    BY <1>0, <2>5 DEF ReadAnswer, Reads, Types
  <2>6. CASE ReadUser \/ Tick
    BY <1>0, <2>6 DEF ReadUser, Tick, Reads, Types
  <2> QED BY <1>4, <2>1, <2>2, <2>3, <2>4, <2>5, <2>6 DEF Turn
<1>5. CASE Timeout
  BY <1>0, <1>5 DEF Timeout, Up, Types
<1>6. CASE Http
  <2>1. UNCHANGED <<turn, pi, eaten>>
    BY <1>6 DEF Http, Arrive, Submit, SubmitLate, Send, Abandon, Expire
  <2>2. status'[r] = status[r]
    <3>1. \/ UNCHANGED status
          \/ \E q \in Requests, v \in {"submitted", "failed", "unknown"} :
                status' = [status EXCEPT ![q] = v]
      <4>1. \A c \in Calls : Of[c] \in Requests
        BY CallsAssumption
      <4> QED BY <1>6, <4>1 DEF Http, Arrive, Submit, SubmitLate, Send, Abandon, Expire
    <3> QED BY <1>0, <3>1 DEF Types
  <2> QED BY <1>0, <2>1, <2>2 DEF AcceptedIsConsumed, Up
<1> QED BY <1>1, <1>2, <1>3, <1>4, <1>5, <1>6 DEF Next

----------------------------------------------------------------------------
(* What a turn reports.                                                    *)

\* Writing a sequence in which each X has a Y before it.
LEMMA PrecededWrites ==
    ASSUME NEW S, NEW s \in Seq(S), NEW e \in S, NEW X, NEW Y, Preceded(s, X, Y),
           e \notin X \/ Has(s, Y)
    PROVE  Preceded(Append(s, e), X, Y)
<1>1. /\ Len(s) \in Nat /\ Len(Append(s, e)) = Len(s) + 1
      /\ \A i \in 1 .. Len(s) : Append(s, e)[i] = s[i]
      /\ Append(s, e)[Len(s) + 1] = e
  BY AppendProperties, LenProperties
<1>2. \A i \in 1 .. Len(Append(s, e)) : i \in 1 .. Len(s) \/ i = Len(s) + 1
  BY <1>1
<1>3. \A i \in 1 .. Len(s) : i \in 1 .. Len(Append(s, e)) /\ i < Len(s) + 1
  BY <1>1
<1>4. SUFFICES ASSUME NEW i \in 1 .. Len(Append(s, e)), Append(s, e)[i] \in X
               PROVE  \E j \in 1 .. Len(Append(s, e)) : j < i /\ Append(s, e)[j] \in Y
  BY DEF Preceded
<1>5. CASE i \in 1 .. Len(s)
  <2>1. PICK j \in 1 .. Len(s) : j < i /\ s[j] \in Y
    BY <1>1, <1>4, <1>5 DEF Preceded
  <2> QED BY <1>1, <1>3, <2>1
<1>6. CASE i = Len(s) + 1
  <2>1. PICK j \in 1 .. Len(s) : s[j] \in Y
    BY <1>1, <1>4, <1>6 DEF Has
  <2> QED BY <1>1, <1>3, <1>6, <2>1
<1> QED BY <1>2, <1>4, <1>5, <1>6

\* Reading such a sequence.
LEMMA PrecededReads ==
    ASSUME NEW S, NEW s \in Seq(S), s # <<>>, NEW X, NEW Y, Preceded(s, X, Y)
    PROVE  /\ Head(s) \notin X
           /\ Head(s) \notin Y => Preceded(Tail(s), X, Y)
<1>1. /\ Len(s) \in Nat \ {0} /\ Head(s) = s[1] /\ Len(Tail(s)) = Len(s) - 1
      /\ \A i \in 1 .. Len(Tail(s)) : Tail(s)[i] = s[i + 1]
  BY HeadTailProperties, EmptySeq, LenProperties
<1>2. \A i \in 1 .. Len(Tail(s)) : i + 1 \in 1 .. Len(s)
  BY <1>1
<1>3. Head(s) \notin X
  <2>1. 1 \in 1 .. Len(s) /\ \A j \in 1 .. Len(s) : ~(j < 1)
    BY <1>1
  <2> QED BY <1>1, <2>1 DEF Preceded
<1>4. ASSUME s[1] \notin Y, NEW i \in 1 .. Len(Tail(s)), Tail(s)[i] \in X
      PROVE  \E j \in 1 .. Len(Tail(s)) : j < i /\ Tail(s)[j] \in Y
  <2>1. PICK j \in 1 .. Len(s) : j < i + 1 /\ s[j] \in Y
    BY <1>1, <1>2, <1>4 DEF Preceded
  <2>2. j # 1
    BY <1>4, <2>1
  <2>3. j - 1 \in 1 .. Len(Tail(s)) /\ j - 1 < i /\ (j - 1) + 1 = j
    BY <1>1, <2>1, <2>2
  <2>4. Tail(s)[j - 1] \in Y
    BY <1>1, <2>1, <2>3
  <2> QED BY <2>3, <2>4
<1> QED BY <1>1, <1>3, <1>4 DEF Preceded

\* The refusal of the prompt is the first event.
RejectedFirst(s) == Once(s, Rejections) /\ (Has(s, Rejections) => Head(s) \in Rejections)

\* Writing another event behind it.
LEMMA RejectedWrites ==
    ASSUME NEW s \in Seq(Events), NEW e \in Events, RejectedFirst(s), e \notin Rejections
    PROVE  /\ RejectedFirst(Append(s, e)) /\ Append(s, e) \in Seq(Events)
           /\ Has(Append(s, e), Rejections) => Has(s, Rejections)
<1>1. /\ Append(s, e) \in Seq(Events) /\ Once(Append(s, e), Rejections)
      /\ Has(Append(s, e), Rejections) => Has(s, Rejections)
  BY AppendWrites DEF RejectedFirst
<1>2. ASSUME Has(s, Rejections) PROVE Head(Append(s, e)) = Head(s)
  <2>1. s # <<>>
    BY <1>2, EmptySeq DEF Has
  <2>2. Len(s) \in Nat \ {0} /\ Head(s) = s[1] /\ Append(s, e)[1] = s[1]
    BY <2>1, HeadTailProperties, EmptySeq, LenProperties, AppendProperties
  <2>3. Append(s, e) # <<>> /\ Head(Append(s, e)) = Append(s, e)[1]
    BY <1>1, <2>2, AppendProperties, EmptySeq, HeadTailProperties
  <2> QED BY <2>2, <2>3
<1> QED BY <1>1, <1>2 DEF RejectedFirst

\* Once something is read, no refusal of the prompt is left.
LEMMA RejectedReads ==
    ASSUME NEW s \in Seq(Events), s # <<>>, RejectedFirst(s)
    PROVE  ~Has(Tail(s), Rejections)
  BY TailReads DEF RejectedFirst

\* The engine writes an event that leaves the turn as it is.
LEMMA RepliedWrites ==
    ASSUME NEW s \in Seq(Events), NEW e \in Events, RejectedFirst(s), e \notin Rejections,
           e \notin Settles \/ Has(s, Replies)
    PROVE  /\ RejectedFirst(Append(s, e)) /\ Append(s, e) \in Seq(Events)
           /\ Has(Append(s, e), Rejections) => Has(s, Rejections)
           /\ Preceded(s, Settles, Replies) => Preceded(Append(s, e), Settles, Replies)
<1>1. Preceded(s, Settles, Replies) => Preceded(Append(s, e), Settles, Replies)
  BY PrecededWrites
<1> QED BY <1>1, RejectedWrites

\* A step that leaves the turn as it is and writes in this order.
LEMMA RepliedSays ==
    ASSUME Replied, UNCHANGED turn, RejectedFirst(out'),
           Has(out', Rejections) => Has(out, Rejections) \/ ~turn.text,
           Preceded(out, Settles, Replies) => Preceded(out', Settles, Replies)
    PROVE  Replied'
  BY DEF Replied, RejectedFirst, Agree, ResultIsLastReply

\* Which events are refusals of the prompt, settle or reply.
LEMMA ReplySorts ==
    ASSUME NEW e \in Events
    PROVE  /\ e \in Rejections <=> e.type = "answer" /\ e.id = "initial"
           /\ e \in Settles <=> e.type = "settled"
           /\ e \in Replies <=> e.type = "message"
  BY DEF Rejections, AnswersTo, Settles, Replies

\* The engine's steps keep what a turn reports.
LEMMA PiReplied ==
    ASSUME Types, Prompted, Replied, Pi
    PROVE  Replied'
<1>0. /\ out \in Seq(Events) /\ pipe \in Seq(Commands) /\ UNCHANGED turn /\ RejectedFirst(out)
  BY DEF Types, Pi, PiPrompt, PiStats, PiSteer, PiIgnoresStats, PiConsume, PiExit, PiReply,
         Replied, RejectedFirst
<1>1. ASSUME NEW e \in Events, out' = out \o <<e>>, e.type # "settled",
             ~(e.type = "answer" /\ e.id = "initial")
      PROVE  Replied'
  <2>1. out' = Append(out, e)
    BY <1>0, <1>1, AppendIsConcat
  <2>2. e \notin Rejections /\ e \notin Settles
    BY <1>1, ReplySorts
  <2> QED BY <1>0, <2>1, <2>2, RepliedWrites, RepliedSays
<1>2. ASSUME NEW e \in Events, NEW f \in Events, out' = out \o <<e, f>>,
             e.type # "settled", f.type = "settled" => e.type = "message",
             e.type # "answer", f.type # "answer"
      PROVE  Replied'
  <2>1. out' = Append(Append(out, e), f)
    BY <1>0, <1>2, ConcatWrites
  <2>2. /\ e \notin Rejections /\ e \notin Settles /\ f \notin Rejections
        /\ f \in Settles => e \in Replies
    BY <1>2, ReplySorts
  <2>3. PICK t : t = Append(out, e)
    OBVIOUS
  <2>4. /\ RejectedFirst(t) /\ t \in Seq(Events) /\ (Has(t, Rejections) => Has(out, Rejections))
        /\ Preceded(out, Settles, Replies) => Preceded(t, Settles, Replies)
    BY <1>0, <2>2, <2>3, RepliedWrites
  <2>5. f \notin Settles \/ Has(t, Replies)
    BY <1>0, <2>2, <2>3, AppendWrites
  <2>6. /\ RejectedFirst(out') /\ (Has(out', Rejections) => Has(t, Rejections))
        /\ Preceded(t, Settles, Replies) => Preceded(out', Settles, Replies)
    BY <2>1, <2>2, <2>3, <2>4, <2>5, RepliedWrites
  <2> QED BY <1>0, <2>4, <2>6, RepliedSays
<1>3. ASSUME NEW ok \in BOOLEAN, PiPrompt(ok) PROVE Replied'
  <2>1. CASE ok
    <3>1. PICK e : e = Event("start", None, TRUE)
      OBVIOUS
    <3>2. out' = out \o <<e>>
      BY <1>3, <2>1, <3>1 DEF PiPrompt, Says
    <3>3. e \in Events /\ e.type = "start"
      BY <3>1 DEF Event, Events
    <3> QED BY <1>1, <3>2, <3>3
  <2>2. CASE ~ok
    <3>1. PICK e : e = Event("answer", "initial", "failed")
      OBVIOUS
    <3>2. out' = out \o <<e>> /\ Next_("prompt") /\ Takes
      BY <1>3, <2>2, <3>1 DEF PiPrompt, Says
    <3>3. e \in Events /\ e.type = "answer" /\ e.id = "initial"
      BY <3>1 DEF Event, Events, Dispositions
    <3>4. pipe # <<>> /\ Head(pipe) \in {Prompt}
      BY <3>2, TakesTypes, CommandSorts
    <3>5. out = <<>> /\ ~turn.text
      BY <1>0, <3>4, TailReads DEF Prompted
    <3>6. out' = Append(out, e)
      BY <1>0, <3>2, <3>3, AppendIsConcat
    <3>7. /\ ~Has(out, Rejections) /\ Once(out, Rejections) /\ Preceded(out, Settles, Replies)
      BY <3>5, EmptySeq DEF Has, Once, Preceded
    <3>8. e \in Rejections /\ e \notin Settles
      BY <3>3, ReplySorts
    <3>9. Once(out', Rejections)
      BY <1>0, <3>3, <3>6, <3>7, AppendWrites
    <3>10. Head(out') = e
      BY <3>3, <3>5, <3>6
    <3>11. Preceded(out', Settles, Replies)
      BY <1>0, <3>3, <3>6, <3>7, <3>8, PrecededWrites
    <3> QED BY <1>0, <3>5, <3>8, <3>9, <3>10, <3>11, RepliedSays DEF RejectedFirst
  <2> QED BY <1>3, <2>1, <2>2
<1>4. ASSUME NEW ok \in BOOLEAN, PiStats(ok) PROVE Replied'
  <2>1. PICK e : e = Event("stats", None, ok)
    OBVIOUS
  <2>2. out' = out \o <<e>>
    BY <1>4, <2>1 DEF PiStats, Says
  <2>3. e \in Events /\ e.type = "stats"
    BY <1>4, <2>1 DEF Event, Events
  <2> QED BY <1>1, <2>2, <2>3
<1>5. ASSUME NEW d \in Dispositions, PiSteer(d) PROVE Replied'
  <2>1. PICK q, e : q = Head(pipe).id /\ e = Event("answer", q, d)
    OBVIOUS
  <2>2. out' = out \o <<e>> /\ Next_("steer") /\ Takes
    BY <1>5, <2>1 DEF PiSteer, Says
  <2>3. q \in Requests
    BY <2>1, <2>2, TakesTypes, CommandSorts
  <2>4. e \in Events /\ e.type = "answer" /\ e.id = q
    <3>1. e \in Events
      BY <1>5, <2>1, <2>3, EventTypes
    <3> QED BY <2>1, <3>1 DEF Event
  <2>5. e.id # "initial" /\ e.type # "settled"
    BY <2>3, <2>4, CallsAssumption
  <2> QED BY <1>1, <2>2, <2>4, <2>5
<1>6. ASSUME PiConsume PROVE Replied'
  <2>1. PICK q, b, u : /\ q = Head(pi.queue) /\ b = Event("start", None, TRUE)
                       /\ u = Event("user", q, TRUE)
    OBVIOUS
  <2>2. /\ pi.queue # <<>> /\ pi.queue \in Seq(Requests)
        /\ out' = out \o ((IF pi.at = "idle" THEN <<b>> ELSE <<>>) \o <<u>>)
    BY <1>6, <2>1 DEF PiConsume, Says, Types
  <2>3. q \in Requests
    BY <2>1, <2>2, TailReads
  <2>4. b \in Events /\ u \in Events /\ b.type = "start" /\ u.type = "user"
    <3>1. b \in Events /\ u \in Events
      BY <2>1, <2>3, EventTypes DEF Dispositions
    <3> QED BY <2>1, <3>1 DEF Event
  <2>5. <<b>> \o <<u>> = <<b, u>> /\ <<>> \o <<u>> = <<u>>
    BY <2>4, EmptySeq, ConcatWrites
  <2>6. out' = out \o <<b, u>> \/ out' = out \o <<u>>
    BY <2>2, <2>5
  <2> QED BY <1>1, <1>2, <2>4, <2>6
<1>7. ASSUME NEW ok \in BOOLEAN, NEW s \in BOOLEAN, PiReply(ok, s) PROVE Replied'
  <2>1. PICK m, f : m = Event("message", None, ok) /\ f = Event("settled", None, TRUE)
    OBVIOUS
  <2>2. out' = out \o (<<m>> \o (IF s THEN <<f>> ELSE <<>>))
    BY <1>7, <2>1 DEF PiReply, Says
  <2>4. m \in Events /\ f \in Events /\ m.type = "message" /\ f.type = "settled"
    BY <1>7, <2>1, EventFields DEF Event, Events
  <2>5. <<m>> \o <<f>> = <<m, f>> /\ <<m>> \o <<>> = <<m>>
    BY <2>4, EmptySeq, ConcatWrites
  <2>6. out' = out \o <<m, f>> \/ out' = out \o <<m>>
    BY <2>2, <2>5
  <2> QED BY <1>1, <1>2, <2>4, <2>6
<1>8. ASSUME PiIgnoresStats \/ PiExit PROVE Replied'
  <2>1. UNCHANGED out
    BY <1>8 DEF PiIgnoresStats, PiExit
  <2> QED BY <1>0, <2>1, RepliedSays
<1> QED BY <1>3, <1>4, <1>5, <1>6, <1>7, <1>8 DEF Pi, Dispositions

\* The steps of the turn that read keep what it reports.
LEMMA ReadsReplied ==
    ASSUME Types, Replied,
           ReadStart \/ ReadMessage \/ ReadSettled \/ ReadStats \/ ReadRejected \/ ReadAnswer \/ ReadUser
    PROVE  Replied'
<1>0. PICK h : h = Head(out)
  OBVIOUS
<1>1. /\ out # <<>> /\ out' = Tail(out) /\ turn.pc = "loop" /\ out \in Seq(Events)
      /\ turn.error \in BOOLEAN /\ turn.text \in BOOLEAN
  BY DEF Types, ReadStart, ReadMessage, ReadSettled, ReadStats, ReadRejected, ReadAnswer, ReadUser,
         Reads, Consumes
<1>2. h \in Events /\ RejectedFirst(out)
  BY <1>0, <1>1, TailReads DEF Replied, RejectedFirst
<1>3. Once(out', Rejections) /\ ~Has(out', Rejections)
  BY <1>1, <1>2, RejectedReads, TailReads DEF RejectedFirst
<1>4. h \notin Replies => (Preceded(out, Settles, Replies) => Preceded(out', Settles, Replies))
  BY <1>0, <1>1, PrecededReads
<1>5. turn'.pc = "loop" /\ turn'.result = turn.result
  <2>1. CASE ReadStart \/ ReadMessage \/ ReadSettled \/ ReadStats
    BY <1>1, <2>1 DEF ReadStart, ReadMessage, ReadSettled, ReadStats, Types
  <2>2. CASE ReadRejected
    BY <1>1, <2>2 DEF ReadRejected, Types
  <2>3. CASE ReadAnswer
    BY <1>1, <2>3 DEF ReadAnswer, Types
  <2>4. CASE ReadUser
    BY <1>1, <2>4 DEF ReadUser
  <2> QED BY <2>1, <2>2, <2>3, <2>4
<1>6. turn'.result = None /\ ResultIsLastReply'
  BY <1>1, <1>5 DEF Replied, ResultIsLastReply
<1>7. SUFFICES (Agree' \/ Preceded(out', Settles, Replies)) /\ (turn'.ended # "no" => Agree')
  BY <1>3, <1>5, <1>6 DEF Replied
<1>8. CASE ReadMessage
  <2>1. h.value \in BOOLEAN
    BY <1>0, <1>2, <1>8, EventSorts DEF ReadMessage
  <2>2. turn'.text = h.value /\ turn'.error = ~h.value
    BY <1>0, <1>8, <2>1 DEF ReadMessage, Types
  <2> QED BY <2>1, <2>2 DEF Agree
<1>9. CASE ReadRejected
  <2>1. h \in Rejections
    BY <1>0, <1>2, <1>9, ReplySorts DEF ReadRejected
  <2>2. ~turn.text
    BY <1>0, <1>1, <2>1, TailReads DEF Replied
  <2>3. turn'.error = TRUE /\ turn'.text = turn.text
    BY <1>9 DEF ReadRejected, Types
  <2> QED BY <1>1, <2>2, <2>3 DEF Agree
<1>10. CASE ReadSettled
  <2>1. h \in Settles
    BY <1>0, <1>2, <1>10, ReplySorts DEF ReadSettled
  <2>2. Agree
    BY <1>0, <1>1, <2>1, PrecededReads DEF Replied
  <2>3. turn'.error = turn.error /\ turn'.text = turn.text
    BY <1>10 DEF ReadSettled, Types
  <2> QED BY <2>2, <2>3 DEF Agree
<1>11. CASE ReadStart \/ ReadStats \/ ReadAnswer \/ ReadUser
  <2>1. h \notin Replies
    BY <1>0, <1>2, <1>11, ReplySorts DEF ReadStart, ReadStats, ReadAnswer, ReadUser
  <2>2. /\ turn'.error = turn.error /\ turn'.text = turn.text
        /\ turn'.ended = turn.ended \/ turn'.ended = "no"
    BY <1>11 DEF ReadStart, ReadStats, ReadAnswer, ReadUser, Types
  <2>3. Agree' <=> Agree
    BY <2>2 DEF Agree
  <2> QED BY <1>4, <2>1, <2>2, <2>3 DEF Replied
<1> QED BY <1>8, <1>9, <1>10, <1>11

\* The turn ends with the result of its last reply.
LEMMA ReapReplied ==
    ASSUME Types, Replied, Reap
    PROVE  Replied'
<1>1. /\ UNCHANGED out /\ turn'.pc = "done" /\ turn'.error = turn.error /\ turn'.text = turn.text
      /\ turn'.ended = turn.ended /\ turn'.late = turn.late
      /\ turn.error \in BOOLEAN /\ turn.text \in BOOLEAN /\ turn.late \in BOOLEAN
  BY DEF Reap, Types
<1>2. turn'.result = IF /\ ~turn.late /\ ~turn.error /\ turn.text
                        /\ turn.ended # "no" \/ pi.at = "exited"
                     THEN "ok" ELSE "failed"
  BY DEF Reap, Types
<1>3. Agree' <=> Agree
  BY <1>1 DEF Agree
<1>4. turn'.result = "ok" => turn'.text
  BY <1>1, <1>2
<1>5. ASSUME turn'.ended # "no", ~turn'.late PROVE (turn'.result = "ok") = turn'.text
  <2>1. turn.error = ~turn.text
    BY <1>1, <1>5 DEF Replied, Agree
  <2>2. CASE turn.text
    BY <1>1, <1>2, <1>5, <2>1, <2>2
  <2>3. CASE ~turn.text
    BY <1>1, <1>2, <2>3
  <2> QED BY <2>2, <2>3
<1> QED BY <1>1, <1>3, <1>4, <1>5 DEF Replied, ResultIsLastReply

\* Every step keeps what a turn reports.
LEMMA RepliedStep ==
    ASSUME Types, Prompted, Replied, [Next]_vars
    PROVE  Replied'
<1>1. CASE UNCHANGED vars \/ PiDies \/ Http
  <2>1. UNCHANGED <<out, turn>>
    BY <1>1 DEF vars, PiDies, Http, Arrive, Submit, SubmitLate, Send, Abandon, Expire
  <2> QED BY <2>1, RepliedSays DEF Replied, RejectedFirst
<1>2. CASE Tick \/ Close \/ Eof \/ Unregister \/ Timeout
  <2>1. /\ UNCHANGED out /\ turn'.error = turn.error /\ turn'.text = turn.text
        /\ turn'.result = turn.result /\ turn.pc # "done" /\ turn'.pc # "done"
        /\ turn'.ended # "no" => turn.ended # "no"
    <3>1. CASE Tick BY <3>1 DEF Tick, Types
    <3>2. CASE Close BY <3>2 DEF Close, Types
    <3>3. CASE Eof BY <3>3 DEF Eof, Types
    <3>4. CASE Unregister BY <3>4 DEF Unregister, Types
    <3>5. CASE Timeout BY <3>5 DEF Timeout, Types
    <3> QED BY <1>2, <3>1, <3>2, <3>3, <3>4, <3>5
  <2>2. Agree' <=> Agree
    BY <2>1 DEF Agree
  <2> QED BY <2>1, <2>2 DEF Replied, ResultIsLastReply
<1> QED BY <1>1, <1>2, PiReplied, ReadsReplied, ReapReplied DEF Next, Turn

----------------------------------------------------------------------------
(* The theorems.                                                           *)

\* The invariant holds when the turn begins.
LEMMA InitInv == Init => IInv
<1> SUFFICES ASSUME Init PROVE IInv
  OBVIOUS
<1>1. pipe = <<Prompt, Stats>> /\ out = <<>> /\ pi.queue = <<>> /\ pi.at = "idle"
  BY DEF Init
<1>2. /\ Prompt \in Commands /\ Stats \in Commands /\ Prompt # Stats
      /\ \A r \in Requests : Steer(r) # Prompt /\ Steer(r) # Stats
  BY CommandSorts
<1>3. /\ pipe \in Seq(Commands) /\ Len(pipe) = 2 /\ pipe[1] = Prompt /\ pipe[2] = Stats
      /\ Head(pipe) = Prompt
  BY <1>1, <1>2
<1>4. \A i \in 1 .. Len(pipe) : i = 1 \/ i = 2
  BY <1>3
<1>5. \A X : ~Has(out, X) /\ ~Has(pi.queue, X) /\ Once(out, X) /\ Once(pi.queue, X)
  BY <1>1, EmptySeq DEF Has, Once
<1>6. Types
  <2>1. out \in Seq(Events) /\ pi.queue \in Seq(Requests)
    BY <1>1
  <2>2. pi \in [at : {"idle", "busy", "exited", "died"}, queue : Seq(Requests), errors : Nat]
    BY DEF Init
  <2>3. turn \in [pc : {"loop", "closing", "reaping", "done"},
                  ended : {"no", "recent", "due", "overdue"},
                  error : BOOLEAN, text : BOOLEAN, late : BOOLEAN, slow : BOOLEAN,
                  result : {None, "ok", "failed"}]
    BY DEF Init
  <2>4. /\ rpc \in [entry : BOOLEAN, clones : SUBSET Calls]
        /\ stats \in [on : BOOLEAN, waiting : BOOLEAN, dirty : BOOLEAN]
    BY DEF Init
  <2>5. /\ status \in [Requests -> Statuses] /\ eaten \in [Requests -> {0, 1}]
        /\ call \in [Calls -> {"new", "waiting", "sending", "answered"}]
    BY DEF Init, Statuses
  <2>6. mutex = None /\ \A c \in Calls : call[c] # "sending" /\ mutex # c
    BY CallsAssumption DEF Init
  <2>7. pending \in SUBSET Requests
    BY DEF Init
  <2> QED BY <1>3, <2>1, <2>2, <2>3, <2>4, <2>5, <2>6, <2>7 DEF Types
<1>7. Prompted
  <2>1. Once(pipe, {Prompt})
    BY <1>2, <1>3, <1>4 DEF Once
  <2>2. ~turn.text
    BY DEF Init
  <2> QED BY <1>1, <1>3, <2>1, <2>2 DEF Prompted
<1>8. ASSUME NEW r \in Requests PROVE Placed(r) /\ ~Has(pipe, Steers(r))
  <2>1. ~Has(pipe, Steers(r)) /\ Once(pipe, Steers(r))
    BY <1>2, <1>3, <1>4 DEF Has, Once, Steers
  <2>2. eaten[r] = 0 /\ status[r] = "none" /\ \A c \in Calls : call[c] # "sending"
    BY DEF Init
  <2>3. Nowhere(r)
    BY <1>5, <2>1, <2>2 DEF Nowhere
  <2> QED BY <1>5, <2>1, <2>2, <2>3 DEF Placed
<1>9. Kept
  BY <1>5, <1>8 DEF Kept, KeepsOpen
<1>10. AcceptedIsConsumed
  BY DEF Init, AcceptedIsConsumed
<1>11. Replied
  <2>1. turn.ended = "no" /\ turn.result = None
    BY DEF Init
  <2>2. Preceded(out, Settles, Replies)
    BY <1>1, EmptySeq DEF Preceded
  <2> QED BY <1>5, <2>1, <2>2 DEF Replied, ResultIsLastReply
<1> QED BY <1>6, <1>7, <1>8, <1>9, <1>10, <1>11 DEF IInv

\* Every step keeps the invariant.
LEMMA StepInv == IInv /\ [Next]_vars => IInv'
<1> SUFFICES ASSUME IInv, [Next]_vars PROVE IInv'
  OBVIOUS
<1>1. Types' /\ Prompted' /\ Kept'
  BY TypesStep, PromptedStep, KeptStep DEF IInv
<1>2. \A r \in Requests : Placed(r)'
  BY PlacedStep DEF IInv
<1>3. AcceptedIsConsumed' /\ Replied'
  BY AcceptedStep, RepliedStep DEF IInv
<1> QED BY <1>1, <1>2, <1>3 DEF IInv

\* What the invariant says of the messages.
LEMMA InvSteers == IInv => SteersTold
<1> SUFFICES ASSUME IInv PROVE SteersTold
  OBVIOUS
<1>1. TypeOK
  BY DEF IInv, Types, TypeOK
<1>2. SteerOnce
  <2>1. eaten \in [Requests -> {0, 1}]
    BY DEF IInv, Types
  <2> QED BY <2>1 DEF SteerOnce
<1>3. StatusTrue
  <2>1. SUFFICES ASSUME NEW r \in Requests
                 PROVE  /\ status[r] = "consumed" => eaten[r] = 1
                        /\ status[r] \in {"failed", "handled"} =>
                              eaten[r] = 0 /\ ~Contains(pi.queue, r) /\ ~Contains(pipe, Steer(r))
    BY DEF StatusTrue
  <2>2. Placed(r)
    BY DEF IInv
  <2>3. Contains(pi.queue, r) <=> Has(pi.queue, {r})
    BY DEF Contains, Has
  <2>4. Contains(pipe, Steer(r)) <=> Has(pipe, Steers(r))
    BY DEF Contains, Has, Steers
  <2> QED BY <2>2, <2>3, <2>4 DEF Placed
<1> QED BY <1>1, <1>2, <1>3 DEF IInv, SteersTold

\* SteersTold (send_steer, observe_planner_steer_line, finish_turn): however
\* the calls, their retries, the answers and the end of the turn interleave, a
\* message reaches the engine at most once, its record is true, and a turn that
\* settles cuts off no message the engine accepted.
THEOREM SteersAreTold == Spec => []SteersTold
  BY InitInv, StepInv, InvSteers, PTL DEF Spec

\* ResultIsLastReply (run_turn, finish_turn): a turn that settled in time
\* succeeds exactly when its last reply did.
THEOREM ResultFollowsReply == Spec => []ResultIsLastReply
<1>1. IInv => ResultIsLastReply
  BY DEF IInv, Replied
<1> QED BY <1>1, InitInv, StepInv, PTL DEF Spec
============================================================================
