------------------------------- MODULE Store -------------------------------
(* The event store of store.rs and store/logs.rs: one SQLite database with *)
(* the business events of every Run, a checkpoint of its projection, and   *)
(* the transcript of its executions in blocks.  Every write happens under  *)
(* one process-wide lock; a Run that is open also has its projection and   *)
(* its log cursor in memory.  The model gives a Run one execution: the     *)
(* executions of a Run share nothing in these tables.  A text is a         *)
(* sequence of bytes <<character, position in the character>>.             *)
EXTENDS Integers, Sequences, FiniteSets, SequencesExt

CONSTANTS Runs, None,
    ChunkBytes,       \* size of a transcript block (CHUNK_BYTES)
    Interval,         \* appends between two checkpoints (CHECKPOINT_INTERVAL)
    Widths,           \* the texts a writer appends, as the widths of their characters
    Histories,        \* the databases the process starts with, older versions' too
    MaxAppends, MaxBytes, StoreCrashes

ASSUME StoreAssumption ==
    /\ ChunkBytes \in Nat /\ \A w \in Widths : \A i \in DOMAIN w : w[i] \in 1 .. ChunkBytes
    /\ Interval \in Nat \ {0}

VARIABLES
    rows,      \* the events table: [seq, run, kind, bytes, text]
    ckpt,      \* the checkpoint of each Run, or None
    logs,      \* execution_logs: the text of each block, by its offset
    tombs,     \* deleted_runs
    mem,       \* the projection of each open Run, or None
    cursor,    \* execution_offsets: where the next output goes, or None
    since,     \* appended_since_checkpoint
    job,       \* the events each open Run is appending
    holder,    \* the Run that holds the write lock across two commits
    catalog,   \* the sidebar cache: what it lists, whether it is filed under the present
               \* data_version, and whether a reader's version is still the present one
    said,      \* what each execution was committed to have said (history variable)
    world      \* sequence and character counters, appends and crashes left, and the
               \* executions whose transcript was replaced without its event

storeVars == <<rows, ckpt, logs, tombs, mem, cursor, since, job, holder, catalog, said, world>>

-----------------------------------------------------------------------------
(* Text and blocks.                                                        *)
MaxOf(a, b) == IF a > b THEN a ELSE b
MinOf(a, b) == IF a < b THEN a ELSE b

Boundary(text, p) == p = Len(text) \/ (p < Len(text) /\ text[p + 1][2] = 1)

floor_boundary(text, p) ==
    CHOOSE q \in 0 .. MinOf(p, Len(text)) :
        Boundary(text, q) /\ \A z \in (q + 1) .. MinOf(p, Len(text)) : ~Boundary(text, z)

RECURSIVE insert_chunks(_, _)
insert_chunks(start, text) ==
    IF text = <<>> THEN [o \in {} |-> <<>>]
    ELSE LET end == floor_boundary(text, ChunkBytes)
         IN [o \in {start} |-> SubSeq(text, 1, end)]
            @@ insert_chunks(start + end, SubSeq(text, end + 1, Len(text)))

LastOffset(log) == CHOOSE o \in DOMAIN log : \A z \in DOMAIN log : z <= o
log_bytes(log) == IF DOMAIN log = {} THEN 0 ELSE LastOffset(log) + Len(log[LastOffset(log)])

append_chunks(log, start, text) ==
    LET last  == LastOffset(log)
        fills == /\ DOMAIN log # {} /\ Len(log[last]) < ChunkBytes
                 /\ last + Len(log[last]) = start
        end   == IF fills THEN floor_boundary(text, ChunkBytes - Len(log[last])) ELSE 0
        grown == IF fills THEN [log EXCEPT ![last] = @ \o SubSeq(text, 1, end)] ELSE log
    IN grown @@ insert_chunks(start + end, SubSeq(text, end + 1, Len(text)))

\* The loop both page readers share: whole blocks from the first one on, up to
\* the character that fits before end; None is "Corrupt execution log".
RECURSIVE Walk(_, _, _, _)
Walk(log, next, end, content) ==
    LET block == {o \in DOMAIN log : o <= next /\ next < o + Len(log[o])}
    IN IF next >= end \/ block = {} THEN [next |-> next, content |-> content]
       ELSE LET o  == CHOOSE x \in block : TRUE
                to == floor_boundary(log[o], end - o)
                all == content \o SubSeq(log[o], next - o + 1, to)
            IN IF to < Len(log[o]) THEN [next |-> o + to, content |-> all]
               ELSE Walk(log, o + to, end, all)

execution_log_page(log, offset, limit) ==
    LET w == Walk(log, offset, MinOf(offset + limit, log_bytes(log)), <<>>)
    IN [start |-> offset, next |-> w.next, content |-> w.content]

execution_log_tail_page(log, before, limit) ==
    LET end   == MinOf(before, log_bytes(log))
        at    == MaxOf(end - limit, 0)
        chunk == Max({o \in DOMAIN log : o <= at})
        prior == {o \in DOMAIN log : o < chunk}
        start == IF prior = {} THEN chunk ELSE Max(prior)
        w     == Walk(log, start, end, <<>>)
    IN [start |-> start, next |-> w.next, content |-> w.content]

\* What an older version stored of a transcript, in the events themselves.
legacy_transcript(r) ==
    LET Add(t, row) ==
            CASE row.run # r -> t
              [] row.kind = "start" /\ ~t.final -> [t EXCEPT !.text = row.text]
              [] row.kind = "output" /\ ~t.final -> [t EXCEPT !.text = @ \o row.text]
              [] row.kind = "finish" /\ row.text # <<>> -> [text |-> row.text, final |-> TRUE]
              [] OTHER -> t
    IN FoldLeft(Add, [text |-> <<>>, final |-> FALSE], rows).text

-----------------------------------------------------------------------------
(* The projection.                                                         *)
Blank == [status |-> "none", bytes |-> 0, seqs |-> <<>>]

apply(p, row) ==
    LET q == [p EXCEPT !.seqs = Append(@, row.seq)]
    IN CASE row.kind = "start"  -> [q EXCEPT !.status = "running", !.bytes = row.bytes]
         [] row.kind = "finish" -> [q EXCEPT !.status = "completed",
                                             !.bytes = MaxOf(row.bytes, Len(row.text))]
         [] row.kind \in {"fail", "recover"} ->
                [q EXCEPT !.status = "failed", !.bytes = MaxOf(row.bytes, @)]
         [] OTHER -> q

EventsOf(r) == SelectSeq(rows, LAMBDA x : x.run = r /\ x.kind # "output")

Measured(r, p) ==
    [p EXCEPT !.bytes = IF p.status = "none" THEN @ ELSE MaxOf(@, log_bytes(logs[r]))]

Replay(r) == Measured(r, FoldLeft(apply, Blank, EventsOf(r)))

\* A checkpoint counts when it has today's format and its event still exists.
Usable(r) ==
    /\ ckpt[r] # None /\ ckpt[r].current
    /\ \E i \in DOMAIN rows : rows[i].run = r /\ rows[i].seq = ckpt[r].seq

load(r) ==
    IF ~Usable(r) THEN Replay(r)
    ELSE LET old == SelectSeq(EventsOf(r), LAMBDA x : x.seq <= ckpt[r].seq)
             new == SelectSeq(EventsOf(r), LAMBDA x : x.seq > ckpt[r].seq)
             base == [ckpt[r].state EXCEPT !.seqs = [i \in DOMAIN old |-> old[i].seq]]
         IN Measured(r, FoldLeft(apply, base, new))

-----------------------------------------------------------------------------
(* Opening a Run, and what its Runtime hands to the store.                 *)
Unread == [current |-> FALSE, runs |-> {}, reading |-> "no"]

StoreInit ==
    /\ \E h \in Histories :
          /\ rows = h.rows /\ ckpt = h.ckpt
          /\ world = [seq |-> Len(h.rows), chars |-> 0, appends |-> MaxAppends,
                      crashes |-> StoreCrashes, spoiled |-> {}]
    /\ logs = [r \in Runs |-> [o \in {} |-> <<>>]] /\ tombs = {}
    /\ mem = [r \in Runs |-> None]
    /\ cursor = [r \in Runs |-> None] /\ since = [r \in Runs |-> 0]
    /\ job = [r \in Runs |-> <<>>] /\ holder = None
    /\ catalog = Unread
    /\ said = [r \in Runs |-> legacy_transcript(r)]

\* Every commit changes the data_version.
Commit == catalog' = [catalog EXCEPT !.current = FALSE,
                                      !.reading = IF @ = "no" THEN "no" ELSE "past"]
Free == holder = None

Item(kind, text) == [kind |-> kind, text |-> text, ready |-> kind \notin {"fail", "recover"}]

\* A new text, made of characters nobody has written yet.
Fresh(w) ==
    FoldLeft(LAMBDA t, i : t \o [k \in 1 .. w[i] |-> <<world.chars + i, k>>], <<>>, [i \in DOMAIN w |-> i])

\* Recovery fails what was running when the process went away, before
\* anything else is appended to the Run.
Open(r) ==
    /\ mem[r] = None /\ Free /\ EventsOf(r) # <<>>
    /\ mem' = [mem EXCEPT ![r] = load(r)]
    /\ job' = [job EXCEPT ![r] = IF load(r).status = "running" THEN <<Item("recover", <<>>)>> ELSE <<>>]
    /\ UNCHANGED <<rows, ckpt, logs, tombs, cursor, since, holder, catalog, said, world>>

\* An execution whose start was not recorded is not started again: the next
\* one has an id of its own.
Unstarted(r) == mem[r].status = "none" /\ DOMAIN logs[r] = {}

Submit(r, items, n) ==
    /\ mem[r] # None /\ job[r] = <<>> /\ world.appends > 0
    /\ job' = [job EXCEPT ![r] = items]
    /\ world' = [world EXCEPT !.chars = @ + n, !.appends = @ - 1]
    /\ UNCHANGED <<rows, ckpt, logs, tombs, mem, cursor, since, holder, catalog, said>>

\* emit and emit_outputs: a worker starts with or without a text, writes,
\* ends with its final transcript or with an error; two business events go
\* together, or an output and an event.
emit(r) ==
    \E w \in Widths :
        LET text == Fresh(w) IN
        /\ Len(said[r]) + Len(text) <= MaxBytes
        /\ \/ mem[r] # None /\ Unstarted(r) /\ Submit(r, <<Item("start", text)>>, Len(w))
           \/ mem[r] # None /\ mem[r].status = "running" /\ Submit(r, <<Item("out", text)>>, Len(w))
           \/ mem[r] # None /\ mem[r].status = "running" /\ Submit(r, <<Item("finish", text)>>, Len(w))

emit_outputs(r) ==
    /\ mem[r] # None
    /\ \/ Unstarted(r) /\ Submit(r, <<Item("start", <<>>)>>, 0)
       \/ mem[r].status = "running" /\ Submit(r, <<Item("finish", <<>>)>>, 0)
       \/ mem[r].status = "running" /\ Submit(r, <<Item("fail", <<>>)>>, 0)
       \/ Submit(r, <<Item("pair", <<>>), Item("pair", <<>>)>>, 0)
       \/ /\ mem[r].status = "running" /\ Len(said[r]) < MaxBytes
          /\ Submit(r, <<Item("out", Fresh(<<1>>)), Item("note", <<>>)>>, 1)

-----------------------------------------------------------------------------
(* append, append_batch, append_logs.                                      *)
Head1(r) == job[r] # <<>>
AllOut(r) == \A i \in DOMAIN job[r] : job[r][i].kind = "out"
OneByOne(r) == \E i \in DOMAIN job[r] :
                  job[r][i].kind \in {"out", "start"} \/ (job[r][i].kind = "finish" /\ job[r][i].text # <<>>)

Row(r, k, item, bytes) ==
    [seq |-> world.seq + k, run |-> r, kind |-> item.kind, bytes |-> bytes, text |-> <<>>]

Terminal(kind) == kind \in {"finish", "fail", "recover"}

\* A checkpoint is written at the end of an execution and after so many
\* appends; a write that fails goes unnoticed.
save_checkpoint_BeforeApply(r, p) ==
    [seq |-> p.seqs[Len(p.seqs)], current |-> TRUE, state |-> mem[r]]

save_checkpoint(r, p) ==
    [seq |-> p.seqs[Len(p.seqs)], current |-> TRUE, state |-> p]

note_appended(r, p, count, terminal) ==
    LET due == since[r] + count >= Interval
    IN /\ since' = [since EXCEPT ![r] = IF due THEN 0 ELSE since[r] + count]
       /\ \E saved \in BOOLEAN :
             ckpt' = IF (due \/ terminal) /\ saved
                     THEN [ckpt EXCEPT ![r] = save_checkpoint(r, p)] ELSE ckpt

\* The text lands in the blocks in one transaction; cursor and projection
\* follow the commit.
append_logs(r) ==
    LET items == IF AllOut(r) THEN job[r] ELSE <<Head(job[r])>>
        text  == FoldLeft(LAMBDA t, x : t \o x.text, <<>>, items)
        at    == IF cursor[r] = None THEN log_bytes(logs[r]) ELSE cursor[r]
        p     == [mem[r] EXCEPT !.bytes = at + Len(text)]
    IN /\ Head1(r) /\ Free /\ r \notin tombs /\ Head(job[r]).kind = "out"
       /\ logs' = [logs EXCEPT ![r] = append_chunks(@, at, text)]
       /\ cursor' = [cursor EXCEPT ![r] = at + Len(text)]
       /\ mem' = [mem EXCEPT ![r] = p]
       /\ said' = [said EXCEPT ![r] = @ \o text]
       /\ job' = [job EXCEPT ![r] = IF AllOut(r) THEN <<>> ELSE Tail(@)]
       /\ note_appended(r, p, Len(items), FALSE) /\ Commit
       /\ UNCHANGED <<rows, tombs, holder, world>>

\* A text that comes with an event replaces the transcript, in a transaction
\* of its own.
replace_logs_KeepsCursor(r) ==
    /\ Head1(r) /\ Free /\ r \notin tombs
    /\ Head(job[r]).kind \in {"start", "finish"} /\ Head(job[r]).text # <<>>
    /\ holder' = r
    /\ logs' = [logs EXCEPT ![r] = insert_chunks(0, Head(job[r]).text)]
    /\ said' = [said EXCEPT ![r] = Head(job[r]).text] /\ Commit
    /\ UNCHANGED <<rows, ckpt, tombs, mem, cursor, since, job, world>>

replace_logs(r) ==
    /\ Head1(r) /\ Free /\ r \notin tombs
    /\ Head(job[r]).kind \in {"start", "finish"} /\ Head(job[r]).text # <<>>
    /\ holder' = r
    /\ logs' = [logs EXCEPT ![r] = insert_chunks(0, Head(job[r]).text)]
    /\ cursor' = [cursor EXCEPT ![r] = Len(Head(job[r]).text)]
    /\ said' = [said EXCEPT ![r] = Head(job[r]).text] /\ Commit
    /\ UNCHANGED <<rows, ckpt, tombs, mem, since, job, world>>

\* emit looks for the transcript of an execution that fails first; an older
\* version's is copied into the blocks.
Legacy(r) == IF DOMAIN logs[r] = {} THEN insert_chunks(0, legacy_transcript(r)) ELSE logs[r]

ensure_legacy_logs(r) ==
    /\ Free /\ logs' = [logs EXCEPT ![r] = Legacy(r)] /\ Commit
    /\ \/ Head1(r) /\ ~Head(job[r]).ready /\ job' = [job EXCEPT ![r][1].ready = TRUE]
       \/ logs' # logs /\ UNCHANGED job
    /\ UNCHANGED <<rows, ckpt, tombs, mem, cursor, since, holder, said, world>>

EventBytes(r, item) ==
    CASE item.text # <<>> -> Len(item.text)
      [] item.kind \in {"fail", "recover"} -> MaxOf(log_bytes(logs[r]), mem[r].bytes)
      [] item.kind = "finish" -> mem[r].bytes
      [] OTHER -> 0

\* One event: inserted, then applied.
append(r) ==
    LET item == Head(job[r])
        row  == Row(r, 1, item, EventBytes(r, item))
        p    == apply(mem[r], row)
    IN /\ Head1(r) /\ item.ready /\ item.kind # "out" /\ (OneByOne(r) \/ Len(job[r]) = 1)
       /\ \/ holder = r
          \/ Free /\ r \notin tombs /\ (item.kind \in {"start", "finish"} => item.text = <<>>)
       /\ rows' = Append(rows, row)
       /\ world' = [world EXCEPT !.seq = @ + 1]
       /\ mem' = [mem EXCEPT ![r] = p]
       /\ job' = [job EXCEPT ![r] = Tail(@)] /\ holder' = None
       /\ cursor' = [cursor EXCEPT ![r] = IF Terminal(item.kind) THEN None ELSE @]
       /\ note_appended(r, p, 1, Terminal(item.kind)) /\ Commit
       /\ UNCHANGED <<logs, tombs, said>>

\* Several business events: one transaction, then all of them are applied.
append_batch(r) ==
    LET new == [i \in DOMAIN job[r] |-> Row(r, i, job[r][i], 0)]
        p   == FoldLeft(apply, mem[r], new)
    IN /\ Len(job[r]) > 1 /\ ~OneByOne(r) /\ Free /\ r \notin tombs
       /\ rows' = rows \o new
       /\ world' = [world EXCEPT !.seq = @ + Len(new)]
       /\ mem' = [mem EXCEPT ![r] = p] /\ job' = [job EXCEPT ![r] = <<>>]
       /\ note_appended(r, p, Len(new), FALSE) /\ Commit
       /\ UNCHANGED <<logs, tombs, cursor, holder, said>>

\* The Run was deleted, or the database refuses the write: the caller gets the
\* error and the projection stays as it was.  A Run whose recovery fails is
\* not opened.
append_fails(r) ==
    /\ Head1(r) /\ (Free \/ holder = r)
    /\ mem' = [mem EXCEPT ![r] = IF Head(job[r]).kind = "recover" THEN None ELSE @]
    /\ job' = [job EXCEPT ![r] = <<>>] /\ holder' = None
    /\ world' = [world EXCEPT !.spoiled = IF holder = r THEN @ \cup {r} ELSE @]
    /\ UNCHANGED <<rows, ckpt, logs, tombs, cursor, since, catalog, said>>

-----------------------------------------------------------------------------
(* Deletion, the maintenance command, the sidebar, and crashes.            *)
delete_runs(r) ==
    /\ Free /\ r \notin tombs
    /\ tombs' = tombs \cup {r}
    /\ rows' = SelectSeq(rows, LAMBDA x : x.run # r)
    /\ ckpt' = [ckpt EXCEPT ![r] = None]
    /\ logs' = [logs EXCEPT ![r] = [o \in {} |-> <<>>]]
    /\ cursor' = [cursor EXCEPT ![r] = None]
    /\ said' = [said EXCEPT ![r] = <<>>] /\ Commit
    /\ UNCHANGED <<mem, since, job, holder, world>>

\* --compact needs the data directory to itself.  One execution at a time: its
\* text is copied into the blocks, read back, and only then taken out of the
\* events; the checkpoint goes too.
Unmigrated(r) == \E i \in DOMAIN rows :
                    rows[i].run = r /\ (rows[i].kind = "output" \/ rows[i].text # <<>>)

migrate_legacy_logs(r) ==
    LET text  == legacy_transcript(r)
        saved == insert_chunks(0, text)
        kept  == [o \in DOMAIN logs[r] \cup DOMAIN saved |->
                     IF o \in DOMAIN logs[r] THEN logs[r][o] ELSE saved[o]]
        Rewritten(row) ==
            IF row.run = r /\ row.kind \in {"start", "finish", "fail", "recover"}
            THEN [row EXCEPT !.text = <<>>, !.bytes = IF row.kind = "start" THEN @ ELSE Len(text)]
            ELSE row
        business == SelectSeq(rows, LAMBDA x : ~(x.run = r /\ x.kind = "output"))
    IN /\ \A x \in Runs : mem[x] = None
       /\ Free /\ Unmigrated(r)
       /\ execution_log_page(kept, 0, MaxBytes).content = text
       /\ logs' = [logs EXCEPT ![r] = kept]
       /\ rows' = [i \in DOMAIN business |-> Rewritten(business[i])]
       /\ ckpt' = [ckpt EXCEPT ![r] = None] /\ Commit
       /\ UNCHANGED <<tombs, mem, cursor, since, job, holder, said, world>>

\* The sidebar reads the version, then everything; what it read is filed under
\* the version of before.
Summary(r) == <<r, FoldLeft(apply, Blank, EventsOf(r)).status>>
read_summaries == {Summary(r) : r \in {x \in Runs \ tombs : EventsOf(x) # <<>>}}

catalog_version ==
    /\ catalog.reading = "no" /\ ~catalog.current
    /\ catalog' = [catalog EXCEPT !.reading = "now"]
    /\ UNCHANGED <<rows, ckpt, logs, tombs, mem, cursor, since, job, holder, said, world>>

conversation_summaries ==
    /\ catalog.reading # "no"
    /\ catalog' = [current |-> catalog.reading = "now", runs |-> read_summaries, reading |-> "no"]
    /\ UNCHANGED <<rows, ckpt, logs, tombs, mem, cursor, since, job, holder, said, world>>

StoreCrash ==
    /\ world.crashes > 0 /\ world' = [world EXCEPT !.crashes = @ - 1, !.spoiled = @ \cup ({holder} \ {None})]
    /\ mem' = [r \in Runs |-> None] /\ cursor' = [r \in Runs |-> None]
    /\ since' = [r \in Runs |-> 0] /\ job' = [r \in Runs |-> <<>>] /\ holder' = None
    /\ catalog' = Unread
    /\ UNCHANGED <<rows, ckpt, logs, tombs, said>>

StoreNext ==
    \/ \E r \in Runs :
          \/ Open(r) \/ emit(r) \/ emit_outputs(r) \/ append_logs(r) \/ replace_logs(r)
          \/ ensure_legacy_logs(r) \/ append(r) \/ append_batch(r) \/ append_fails(r)
          \/ delete_runs(r) \/ migrate_legacy_logs(r)
    \/ catalog_version \/ conversation_summaries \/ StoreCrash

-----------------------------------------------------------------------------
(* Properties.                                                             *)

\* A Run that is opened again is the Run that was open: the checkpoint with the
\* events after it gives what all the events give, and that is what the open
\* Run has in memory.  Only the byte count may differ, of an execution whose
\* final transcript was saved without its event, or whose transcript an older
\* version left in the events.
Uncounted(r) == r \in world.spoiled \/ \E i \in DOMAIN rows : rows[i].run = r /\ rows[i].kind = "output"
Same(r, p, q) == p.status = q.status /\ p.seqs = q.seqs /\ (Uncounted(r) \/ p.bytes = q.bytes)
LoadExact ==
    \A r \in Runs \ tombs : holder # r =>
        /\ Same(r, load(r), Replay(r))
        /\ mem[r] # None => Same(r, mem[r], load(r))

\* Nothing brings a deleted Run back, whoever still holds its projection.
StaysDeleted ==
    \A r \in tombs : EventsOf(r) = <<>> /\ ckpt[r] = None /\ DOMAIN logs[r] = {}

\* Business events that belong together are in the log together.
PairsWhole ==
    \A r \in Runs : Cardinality({i \in DOMAIN rows : rows[i].run = r /\ rows[i].kind = "pair"}) % 2 = 0

\* A sidebar that is filed under the present version shows the present.
CatalogFresh == catalog.current => catalog.runs = read_summaries

\* The transcript of an execution is what it said, wherever an upgrade, a
\* migration or a crash has left it, and its blocks follow each other without
\* gap or overlap; the cursor of an open Run is at its end.
Joined(log) == Walk(log, 0, log_bytes(log), <<>>).content
TranscriptKept ==
    \A r \in Runs \ tombs :
        /\ (IF DOMAIN logs[r] = {} THEN legacy_transcript(r) ELSE Joined(logs[r])) = said[r]
        /\ \A o, z \in DOMAIN logs[r] : o < z => o + Len(logs[r][o]) <= z
        /\ cursor[r] # None => cursor[r] = log_bytes(logs[r])

\* Whoever pages through a transcript, forwards or backwards from its end,
\* sees every byte once and makes progress with every page.
PagesLossless ==
    \A r \in Runs : LET t == Joined(logs[r]) IN
        \A p \in 0 .. Len(t) : Boundary(t, p) =>
            \A limit \in ChunkBytes .. ChunkBytes + 1 :
                /\ LET g == execution_log_page(logs[r], p, limit) IN
                      /\ g.content = SubSeq(t, p + 1, g.next) /\ Boundary(t, g.next)
                      /\ p < Len(t) => g.next > p
                /\ p > 0 => LET g == execution_log_tail_page(logs[r], p, limit) IN
                      /\ g.content = SubSeq(t, g.start + 1, p) /\ g.next = p
                      /\ Boundary(t, g.start) /\ g.start < p

\* The store keeps its word to whoever reopens, deletes or lists a Run.
StoreSafe == LoadExact /\ StaysDeleted /\ PairsWhole /\ CatalogFresh

\* No transcript is lost or repeated, in the blocks or in a page.
LogsLossless == TranscriptKept /\ PagesLossless
=============================================================================
