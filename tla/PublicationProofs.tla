------------------------- MODULE PublicationProofs --------------------------
(***************************************************************************)
(* Proofs about the publication of a Run's results: for any project, any   *)
(* results and any number of edits, crashes and retries, the publication   *)
(* implements Delivery, keeps its result until it is delivered, and        *)
(* finishes the checkout it began.                                         *)
(***************************************************************************)
EXTENDS Publication, SequenceTheorems, TLAPS

Below(s, t) == \A f \in Files : s[f] \subseteq t[f]

(* The places between the check of the project and the recorded delivery.  *)
Leased == {"lease", "refresh", "apply", "checkout", "writing", "confirm", "install"}
Recording == {"record", "unpin", "unlock"}

(* The project only grows, so a later input holds every earlier one.       *)
InputsGrow ==
    \A k \in 1 .. Latest : journal[k].input # None =>
        /\ Below(journal[k].input, source)
        /\ journal[Latest].input # None => Below(journal[k].input, journal[Latest].input)
        /\ pub.pc \in {"recheck", "input"} => Below(journal[k].input, pub.live)

LiveSeen == pub.pc \in {"recheck", "input"} \cup Leased => Below(pub.live, source)

(* What the journal says of each attempt.  A result is the attempt's input *)
(* with the changes of the Run; only the last attempt writes.              *)
Evidence ==
    \A k \in 1 .. Latest :
        /\ journal[k].result # None =>
              /\ journal[k].input # None
              /\ \A f \in Files : journal[k].result[f] = journal[k].input[f] \cup Given[f]
        /\ journal[k].applying \/ journal[k].installed => journal[k].result # None
        /\ k # Latest => ~journal[k].applying /\ ~journal[k].installed

(* Where the thread is agrees with the attempt it works on.                *)
InStep ==
    /\ pub.pc \notin {"idle", "select"} => pub.a = Latest
    /\ pub.pc \in {"capture", "snapshot", "recheck", "input"} => journal[Latest].input = None
    /\ pub.pc \in {"compose", "prepared"} =>
          journal[Latest].input # None /\ journal[Latest].result = None
    /\ pub.pc = "prepared" =>
          \A f \in Files : pub.live[f] = journal[Latest].input[f] \cup Given[f]
    /\ pub.pc \in {"deliver"} \cup Leased \cup Recording => journal[Latest].result # None
    /\ pub.pc \in Leased => ~journal[Latest].installed
    /\ pub.pc \in Recording => journal[Latest].installed

(* Every file is as the attempt found it or as it will leave it; a file    *)
(* that Git still has to write is as the attempt found it.                 *)
Writes ==
    /\ pub.pc \in Leased => \A f \in Files :
          pub.live[f] \in {journal[Latest].input[f], journal[Latest].result[f]}
    /\ pub.pc = "writing" => \A f \in pub.todo :
          source[f] = pub.live[f] /\ pub.live[f] # journal[Latest].result[f]
    /\ pub.pc = "install" => Below(Given, source)

(* The workspace holds what was merged into it, and nothing else.          *)
MergedTree ==
    /\ ws.pending # None => ws.made
    /\ ws.made => \A f \in Files, e \in Tags :
                     e \in ws.tree[f] <=> \E x \in ws.merged : e \in TreeOf(x)[f]

(* A result is pinned until it is published.                               *)
Kept ==
    /\ \A k \in 1 .. Latest : journal[k].result # None =>
          journal[k].result \in refs.db /\ journal[k].result \in refs.pins \cup {refs.published}
    /\ pub.pc = "prepared" => pub.live \in refs.db /\ pub.live \in refs.pins
    /\ refs.published # None =>
          /\ journal[Latest].installed /\ refs.published = journal[Latest].result
          /\ refs.published \in refs.db
    /\ pub.pc \in {"unpin", "unlock"} => refs.published = journal[Latest].result

IInv ==
    /\ TypeOK /\ InputsGrow /\ LiveSeen /\ Evidence /\ InStep /\ Writes /\ MergedTree /\ Kept

-----------------------------------------------------------------------------
(* The data.                                                               *)

\* The changes of the Run are a tree.
LEMMA GivenIsTree == Given \in Trees
  BY ChangeAssumption DEF Given, Trees, Tags, HeadTags

\* No changes are a tree.
LEMMA EmptyIsTree == Empty \in Trees
  BY DEF Empty, Trees

(* An attempt's record is replaced, and the others stay.                   *)
LEMMA JournalUpdate ==
  ASSUME NEW r \in Journals, NEW a \in 1 .. Len(journal), journal \in Seq(Journals),
         journal' = [journal EXCEPT ![a] = r]
  PROVE  /\ journal' \in Seq(Journals) /\ Len(journal') = Len(journal) /\ journal'[a] = r
         /\ \A k \in 1 .. Len(journal) : k # a => journal'[k] = journal[k]
  OBVIOUS

\* A record is added, and the others stay.
LEMMA JournalAppend ==
  ASSUME NEW r \in Journals, journal \in Seq(Journals), journal' = Append(journal, r)
  PROVE  /\ journal' \in Seq(Journals) /\ Len(journal') = Len(journal) + 1
         /\ journal'[Len(journal) + 1] = r
         /\ \A k \in 1 .. Len(journal) : journal'[k] = journal[k]
  OBVIOUS

\* The record of a new attempt has its type.
LEMMA FreshRecord == Fresh \in Journals
  BY DEF Fresh, Journals

\* A thread that rests, and one that begins.
LEMMA IdleThread ==
  /\ Idle \in Threads /\ Idle.pc = "idle" /\ Idle.a = 0
  /\ [Idle EXCEPT !.pc = "select"] \in Threads /\ [Idle EXCEPT !.pc = "select"].pc = "select"
  /\ [Idle EXCEPT !.pc = "select"].a = 0
  BY EmptyIsTree DEF Idle, Threads

(* The composition of all operands is the last input with the changes of   *)
(* the Run.                                                                *)
LEMMA OperandsMakeResult ==
  ASSUME IInv, journal[Latest].input # None, NEW f \in Files, NEW e \in Tags
  PROVE  (\E x \in Operands : e \in TreeOf(x)[f]) <=> e \in journal[Latest].input[f] \cup Given[f]
<1>1. Latest \in 1 .. Latest BY DEF IInv, TypeOK
<1>2. ASSUME NEW x \in Operands, e \in TreeOf(x)[f] PROVE e \in journal[Latest].input[f] \cup Given[f]
  <2>1. CASE x \in {"head"} \X Heads
    <3>1. PICK h \in Heads : x = <<"head", h>> BY <2>1
    <3>2. e \in Change[h][f] BY <1>2, <3>1 DEF TreeOf
    <3>. QED BY <3>2 DEF Given
  <2>2. CASE x \in {"input"} \X Inputs
    <3>1. PICK j \in 1 .. Latest : x = <<"input", j>> /\ journal[j].input # None BY <2>2 DEF Inputs
    <3>2. e \in journal[j].input[f] BY <1>2, <3>1 DEF TreeOf
    <3>. QED BY <3>1, <3>2 DEF IInv, InputsGrow, Below
  <2>. QED BY <1>2, <2>1, <2>2 DEF Operands
<1>3. ASSUME e \in journal[Latest].input[f] PROVE \E x \in Operands : e \in TreeOf(x)[f]
  <2>1. <<"input", Latest>> \in Operands BY <1>1 DEF Operands, Inputs
  <2>2. TreeOf(<<"input", Latest>>) = journal[Latest].input BY DEF TreeOf
  <2>. QED BY <1>3, <2>1, <2>2
<1>4. ASSUME e \in Given[f] PROVE \E x \in Operands : e \in TreeOf(x)[f]
  <2>1. PICK h \in Heads : e \in Change[h][f] BY <1>4 DEF Given
  <2>2. <<"head", h>> \in Operands BY DEF Operands
  <2>3. TreeOf(<<"head", h>>) = Change[h] BY DEF TreeOf
  <2>. QED BY <2>1, <2>2, <2>3
<1>. QED BY <1>2, <1>3, <1>4

(* An operand that exists is what it was: its tree is never recorded again.*)
LEMMA OperandsStay ==
  ASSUME TypeOK, Latest <= Len(journal'), Latest \in Nat, Len(journal') \in Nat,
         \A k \in 1 .. Latest : journal[k].input # None => journal'[k].input = journal[k].input
  PROVE  /\ Operands \subseteq Operands' /\ \A x \in Operands : TreeOf(x)' = TreeOf(x)
<1>1. Inputs \subseteq Inputs' BY DEF Inputs, Latest
<1>2. ASSUME NEW x \in Operands PROVE TreeOf(x)' = TreeOf(x)
  <2>1. CASE x \in {"head"} \X Heads BY <2>1 DEF TreeOf
  <2>2. CASE x \in {"input"} \X Inputs
    <3>1. PICK j \in Inputs : x = <<"input", j>> BY <2>2
    <3>2. j \in 1 .. Latest /\ journal[j].input # None BY <3>1 DEF Inputs
    <3>. QED BY <3>1, <3>2 DEF TreeOf
  <2>. QED BY <2>1, <2>2 DEF Operands
<1>. QED BY <1>1, <1>2 DEF Operands

\* What is merged is a head or the input of an attempt.
LEMMA OperandsBounded ==
  ASSUME TypeOK, NEW x \in Operands
  PROVE  x \in ({"head"} \X Heads) \cup ({"input"} \X (1 .. MaxAttempts))
<1>1. CASE x \in {"head"} \X Heads BY <1>1
<1>2. CASE x \in {"input"} \X Inputs
  <2>1. PICK j \in Inputs : x = <<"input", j>> BY <1>2
  <2>2. Latest \in 1 .. MaxAttempts BY DEF TypeOK
  <2>3. MaxAttempts \in Nat BY NoneAssumption
  <2>4. j \in 1 .. Latest BY DEF Inputs
  <2>5. j \in 1 .. MaxAttempts BY <2>2, <2>3, <2>4
  <2>. QED BY <2>1, <2>5
<1>. QED BY <1>1, <1>2 DEF Operands

\* Every operand is a tree.
LEMMA TreesOf ==
  ASSUME TypeOK, NEW x \in Operands
  PROVE  TreeOf(x) \in Trees
<1>1. CASE x \in {"head"} \X Heads
  <2>1. PICK h \in Heads : x = <<"head", h>> BY <1>1
  <2>2. Change[h] \in Trees BY ChangeAssumption DEF Trees, Tags, HeadTags
  <2>. QED BY <2>1, <2>2 DEF TreeOf
<1>2. CASE x \in {"input"} \X Inputs
  <2>1. PICK j \in Inputs : x = <<"input", j>> BY <1>2
  <2>2. j \in 1 .. Len(journal) /\ journal[j].input # None BY <2>1 DEF Inputs, Latest
  <2>3. journal[j] \in Journals BY <2>2 DEF TypeOK
  <2>4. journal[j].input \in Trees BY <2>2, <2>3 DEF Journals
  <2>. QED BY <2>1, <2>4 DEF TreeOf
<1>. QED BY <1>1, <1>2 DEF Operands

-----------------------------------------------------------------------------
(* The kinds of steps.                                                     *)

(* The thread moves: nothing it keeps on disk changes.                     *)
LEMMA MoveInv ==
  ASSUME IInv, TypeOK', UNCHANGED <<source, journal, ws, refs>>, LiveSeen', InStep', Writes',
         pub'.pc = "recheck" => Below(source, pub'.live),
         pub'.pc # "input",
         pub'.pc # "prepared",
         pub'.pc \in {"unpin", "unlock"} => refs.published = journal[Latest].result
  PROVE  IInv'
<1>1. InputsGrow' BY DEF IInv, InputsGrow, Below, Latest
<1>2. Evidence' BY DEF IInv, Evidence, Latest
<1>3. MergedTree' BY DEF IInv, MergedTree, TreeOf
<1>4. Kept' BY DEF IInv, Kept, Latest
<1>. QED BY <1>1, <1>2, <1>3, <1>4 DEF IInv

(* The thread ends, or stays where it is while others act.                 *)
LEMMA RestInv ==
  ASSUME IInv, TypeOK', UNCHANGED <<source, journal, ws, refs>>,
         pub'.pc \in {"idle", "select"} \/ UNCHANGED pub
  PROVE  IInv'
<1>1. CASE pub'.pc \in {"idle", "select"}
  <2>1. LiveSeen' /\ InStep' /\ Writes' BY <1>1 DEF LiveSeen, InStep, Writes, Leased, Recording
  <2>. QED BY <1>1, <2>1, MoveInv
<1>2. CASE UNCHANGED pub
  <2>1. LiveSeen' /\ InStep' /\ Writes'
    BY <1>2 DEF IInv, LiveSeen, InStep, Writes, Below, Latest
  <2>2. InputsGrow' /\ Evidence' BY <1>2 DEF IInv, InputsGrow, Evidence, Below, Latest
  <2>3. MergedTree' /\ Kept' BY <1>2 DEF IInv, MergedTree, TreeOf, Kept, Latest
  <2>. QED BY <2>1, <2>2, <2>3 DEF IInv
<1>. QED BY <1>1, <1>2

\* Steps that touch no file, record, workspace or reference.
LEMMA TypeKeep ==
  ASSUME TypeOK, UNCHANGED <<source, journal, ws, refs>>, git' \in Nat,
         lock' \in (1 .. Latest) \cup {None, Foreign}, pub' \in Threads, pub'.a \in 0 .. Latest,
         phase' \in {"publishing", "publication_failed", "completed"},
         UNCHANGED env
  PROVE  TypeOK'
  BY DEF TypeOK, Latest, Operands, Inputs

(* The thread goes on to another place.                                    *)
LEMMA GotoEffect ==
  ASSUME TypeOK, NEW pc, Goto(pc), pc \in {"compose", "input", "deliver", "refresh", "apply", "checkout", "confirm", "install", "record", "unpin", "unlock"}
  PROVE  /\ pub' \in Threads /\ pub'.pc = pc /\ pub'.a = pub.a /\ pub'.live = pub.live
         /\ pub'.todo = pub.todo
  BY DEF TypeOK, Goto, Threads

\* An attempt fails, and gives back a lease that it owns.
LEMMA FailInv ==
  ASSUME IInv, NEW u \in BOOLEAN, Fail(u)
  PROVE  IInv'
<1>1. lock' \in (1 .. Latest) \cup {None, Foreign} BY DEF Fail, Own, IInv, TypeOK
<1>2. pub' = Idle /\ phase' = "publication_failed" /\ UNCHANGED <<source, git, journal, ws, refs, env>>
  BY DEF Fail
<1>3. Latest \in Nat BY DEF IInv, TypeOK
<1>4. TypeOK' BY <1>1, <1>2, <1>3, IdleThread, TypeKeep DEF IInv, TypeOK
<1>. QED BY <1>2, <1>4, IdleThread, RestInv

(* Every failure of the thread, its crash, its restart, and what others do *)
(* that touches neither a file nor the private database.                   *)
LEMMA OutsideInv ==
  ASSUME IInv,
         \/ CaptureFails \/ ResolveFails \/ LeaseFails \/ RefreshFails \/ CheckoutFails \/ ConfirmFails
         \/ Unlock \/ Crash \/ Recover \/ Retry \/ UserGit \/ ForeignLock \/ ForeignUnlock
         \/ UNCHANGED vars
  PROVE  IInv'
<1>0. TypeOK /\ Latest \in Nat BY DEF IInv, TypeOK
<1>1. CASE \/ CaptureFails \/ ResolveFails \/ LeaseFails \/ RefreshFails \/ CheckoutFails \/ ConfirmFails
  BY <1>1, FailInv DEF CaptureFails, ResolveFails, LeaseFails, RefreshFails, CheckoutFails, ConfirmFails
<1>2. CASE Unlock
  <2>1. lock' \in (1 .. Latest) \cup {None, Foreign} BY <1>0, <1>2 DEF Unlock, Own, TypeOK
  <2>2. pub' = Idle /\ phase' = "completed" /\ UNCHANGED <<source, git, journal, ws, refs, env>>
    BY <1>2 DEF Unlock
  <2>3. TypeOK' BY <1>0, <2>1, <2>2, IdleThread, TypeKeep DEF TypeOK
  <2>. QED BY <2>2, <2>3, IdleThread, RestInv
<1>3. CASE Crash
  <2>1. pub' = Idle /\ UNCHANGED <<source, git, lock, journal, ws, refs, phase>> BY <1>3 DEF Crash
  <2>2. /\ env' \in [until : {"before", "always"}, edits : Nat, gits : Nat, crashes : Nat,
                     gcs : Nat, foreign : Nat]
        /\ env'.edits = env.edits
    <3>1. env.crashes > 0 /\ env' = [env EXCEPT !.crashes = env.crashes - 1] BY <1>3 DEF Crash
    <3>2. env \in [until : {"before", "always"}, edits : Nat, gits : Nat, crashes : Nat,
                      gcs : Nat, foreign : Nat]
      BY <1>0 DEF TypeOK
    <3>. QED BY <3>1, <3>2
  <2>3. TypeOK' BY <1>0, <2>1, <2>2, IdleThread DEF TypeOK, Latest, Operands, Inputs
  <2>. QED BY <2>1, <2>3, IdleThread, RestInv
<1>4. CASE Recover \/ Retry
  <2>1. UNCHANGED <<source, git, lock, journal, ws, refs, env>> BY <1>4 DEF Recover, Retry
  <2>2. /\ phase' \in {"publication_failed", "publishing"}
        /\ UNCHANGED pub \/ pub' = [Idle EXCEPT !.pc = "select"]
    BY <1>4 DEF Recover, Retry
  <2>3. pub' \in Threads /\ pub'.a \in 0 .. Latest
    <3>1. CASE UNCHANGED pub BY <1>0, <3>1 DEF TypeOK
    <3>2. CASE pub' = [Idle EXCEPT !.pc = "select"] BY <1>0, <3>2, IdleThread
    <3>. QED BY <2>2, <3>1, <3>2
  <2>4. TypeOK' BY <1>0, <2>1, <2>2, <2>3, TypeKeep DEF TypeOK
  <2>. QED BY <2>1, <2>2, <2>4, IdleThread, RestInv
<1>5. CASE UserGit \/ ForeignLock
  <2>1. UNCHANGED <<source, journal, ws, refs, pub, phase>> BY <1>5 DEF UserGit, ForeignLock
  <2>2. /\ env' \in [until : {"before", "always"}, edits : Nat, gits : Nat, crashes : Nat,
                     gcs : Nat, foreign : Nat]
        /\ env'.edits = env.edits
    <3>1. \/ env.gits > 0 /\ env' = [env EXCEPT !.gits = env.gits - 1]
          \/ env.foreign > 0 /\ env' = [env EXCEPT !.foreign = env.foreign - 1]
      BY <1>5 DEF UserGit, ForeignLock
    <3>2. env \in [until : {"before", "always"}, edits : Nat, gits : Nat, crashes : Nat,
                      gcs : Nat, foreign : Nat]
      BY <1>0 DEF TypeOK
    <3>3. CASE env.gits > 0 /\ env' = [env EXCEPT !.gits = env.gits - 1] BY <3>2, <3>3
    <3>4. CASE env.foreign > 0 /\ env' = [env EXCEPT !.foreign = env.foreign - 1] BY <3>2, <3>4
    <3>. QED BY <3>1, <3>3, <3>4
  <2>3. git' \in Nat /\ lock' \in (1 .. Latest) \cup {None, Foreign}
    BY <1>0, <1>5 DEF UserGit, ForeignLock, TypeOK
  <2>4. TypeOK' BY <1>0, <2>1, <2>2, <2>3 DEF TypeOK, Latest, Operands, Inputs
  <2>. QED BY <2>1, <2>4, RestInv
<1>6. CASE ForeignUnlock \/ UNCHANGED vars
  <2>1. UNCHANGED <<source, git, journal, ws, refs, pub, phase, env>>
    BY <1>6 DEF ForeignUnlock, vars
  <2>2. lock' \in (1 .. Latest) \cup {None, Foreign} BY <1>0, <1>6 DEF ForeignUnlock, vars, TypeOK
  <2>3. TypeOK' BY <1>0, <2>1, <2>2, TypeKeep DEF TypeOK
  <2>. QED BY <2>1, <2>3, RestInv
<1>. QED BY <1>1, <1>2, <1>3, <1>4, <1>5, <1>6

(* The thread goes on, and what it relies on next holds.                   *)
LEMMA ForwardInv ==
  ASSUME IInv, CaptureGit \/ CaptureFiles \/ Verify \/ Lease \/ Refresh \/ Checkout \/ Confirm
  PROVE  IInv'
<1>0. TypeOK /\ Latest \in 1 .. Latest /\ Latest \in Nat BY DEF IInv, TypeOK
<1>. DEFINE last == journal[Latest]
<1>1. CASE CaptureGit
  <2>1. /\ pub.pc = "capture" /\ pub' = [pub EXCEPT !.git = git, !.pc = "snapshot"]
        /\ UNCHANGED <<source, git, lock, journal, ws, refs, phase, env>>
    BY <1>1 DEF CaptureGit, At
  <2>2. pub' \in Threads /\ pub'.pc = "snapshot" /\ pub'.a = pub.a
    BY <1>0, <2>1 DEF TypeOK, Threads
  <2>3. TypeOK' BY <1>0, <2>1, <2>2, TypeKeep DEF TypeOK
  <2>4. LiveSeen' /\ Writes' BY <2>2 DEF LiveSeen, Writes, Leased
  <2>5. InStep' BY <2>1, <2>2 DEF IInv, InStep, Leased, Recording, Latest
  <2>. QED BY <2>1, <2>2, <2>3, <2>4, <2>5, MoveInv
<1>2. CASE CaptureFiles
  <2>1. /\ pub.pc = "snapshot" /\ pub' = [pub EXCEPT !.live = source, !.pc = "recheck"]
        /\ UNCHANGED <<source, git, lock, journal, ws, refs, phase, env>>
    BY <1>2 DEF CaptureFiles, At
  <2>2. pub' \in Threads /\ pub'.pc = "recheck" /\ pub'.a = pub.a /\ pub'.live = source
    BY <1>0, <2>1 DEF TypeOK, Threads
  <2>3. TypeOK' BY <1>0, <2>1, <2>2, TypeKeep DEF TypeOK
  <2>4. LiveSeen' /\ Writes' /\ Below(source, pub'.live)
    BY <2>1, <2>2 DEF LiveSeen, Writes, Leased, Below
  <2>5. InStep' BY <2>1, <2>2 DEF IInv, InStep, Leased, Recording, Latest
  <2>. QED BY <2>1, <2>2, <2>3, <2>4, <2>5, MoveInv
<1>3. CASE Verify
  <2>1. /\ pub.pc = "deliver" /\ pub.a = Latest /\ last.result # None
        /\ UNCHANGED <<source, git, journal, ws, refs, env>>
    BY <1>3 DEF Verify, At, IInv, InStep
  <2>2. CASE last.installed
    <3>1. lock' \in (1 .. Latest) \cup {None, Foreign} /\ Goto("record") /\ UNCHANGED phase
      BY <1>0, <1>3, <2>1, <2>2 DEF Verify, Attempt, Own, TypeOK
    <3>2. pub' \in Threads /\ pub'.pc = "record" /\ pub'.a = pub.a BY <1>0, <3>1, GotoEffect
    <3>3. TypeOK' BY <1>0, <2>1, <3>1, <3>2, TypeKeep DEF TypeOK
    <3>4. LiveSeen' /\ Writes' BY <3>2 DEF LiveSeen, Writes, Leased
    <3>5. InStep' BY <2>1, <2>2, <3>2 DEF InStep, Leased, Recording, Latest
    <3>. QED BY <2>1, <3>2, <3>3, <3>4, <3>5, MoveInv
  <2>3. CASE /\ ~last.installed /\ pub' = [pub EXCEPT !.live = source, !.pc = "lease"]
             /\ source = last.input \/ Partial(source)
             /\ UNCHANGED <<lock, phase>>
    <3>1. pub' \in Threads /\ pub'.pc = "lease" /\ pub'.a = pub.a /\ pub'.live = source
      BY <1>0, <2>3 DEF TypeOK, Threads
    <3>2. TypeOK' BY <1>0, <2>1, <2>3, <3>1, TypeKeep DEF TypeOK
    <3>3. LiveSeen' BY <2>1, <3>1 DEF LiveSeen, Below
    <3>4. Writes' BY <2>1, <2>3, <3>1 DEF Writes, Partial, Attempt, Latest
    <3>5. InStep' BY <2>1, <2>3, <3>1 DEF InStep, Leased, Recording, Latest
    <3>. QED BY <2>1, <3>1, <3>2, <3>3, <3>4, <3>5, MoveInv
  <2>4. CASE pub' = Idle /\ phase' = "publication_failed" /\ UNCHANGED lock
    <3>1. TypeOK' BY <1>0, <2>1, <2>4, IdleThread, TypeKeep DEF TypeOK
    <3>. QED BY <2>1, <2>4, <3>1, IdleThread, RestInv
  <2>. QED BY <1>3, <2>1, <2>2, <2>3, <2>4 DEF Verify, Attempt
<1>4. CASE Lease
  <2>1. /\ pub.pc = "lease" /\ lock' = pub.a /\ Goto("refresh") /\ pub.a = Latest
        /\ UNCHANGED <<source, git, journal, ws, refs, phase, env>>
    BY <1>4 DEF Lease, At, IInv, InStep
  <2>2. pub' \in Threads /\ pub'.pc = "refresh" /\ pub'.a = pub.a /\ pub'.live = pub.live
    BY <1>0, <2>1, GotoEffect
  <2>3. TypeOK' BY <1>0, <2>1, <2>2, TypeKeep DEF TypeOK
  <2>4. LiveSeen' /\ Writes' BY <2>1, <2>2 DEF IInv, LiveSeen, Writes, Leased, Latest, Below
  <2>5. InStep' BY <2>1, <2>2 DEF IInv, InStep, Leased, Recording, Latest
  <2>. QED BY <2>1, <2>2, <2>3, <2>4, <2>5, MoveInv
<1>5. CASE Refresh
  <2>1. /\ pub.pc = "refresh" /\ Goto(IF Written THEN "apply" ELSE "confirm")
        /\ UNCHANGED <<source, git, lock, journal, ws, refs, phase, env>>
    BY <1>5 DEF Refresh, At
  <2>2. /\ pub' \in Threads /\ pub'.pc \in {"apply", "confirm"} /\ pub'.a = pub.a
        /\ pub'.live = pub.live
    BY <1>0, <2>1, GotoEffect
  <2>3. TypeOK' BY <1>0, <2>1, <2>2, TypeKeep DEF TypeOK
  <2>4. LiveSeen' /\ Writes' BY <2>1, <2>2 DEF IInv, LiveSeen, Writes, Leased, Latest, Below
  <2>5. InStep' BY <2>1, <2>2 DEF IInv, InStep, Leased, Recording, Latest
  <2>. QED BY <2>1, <2>2, <2>3, <2>4, <2>5, MoveInv
<1>6. CASE Checkout
  <2>1. /\ pub.pc = "checkout" /\ \A f \in Touched : source[f] = pub.live[f]
        /\ pub' = [pub EXCEPT !.todo = Touched, !.pc = "writing"] /\ pub.a = Latest
        /\ UNCHANGED <<source, git, lock, journal, ws, refs, phase, env>>
    BY <1>6 DEF Checkout, At, IInv, InStep
  <2>2. /\ pub' \in Threads /\ pub'.pc = "writing" /\ pub'.a = pub.a /\ pub'.live = pub.live
        /\ pub'.todo = Touched
    BY <1>0, <2>1 DEF TypeOK, Threads, Touched
  <2>3. TypeOK' BY <1>0, <2>1, <2>2, TypeKeep DEF TypeOK
  <2>4. LiveSeen' BY <2>1, <2>2 DEF IInv, LiveSeen, Leased, Below
  <2>5. \A f \in Touched : f \in Files /\ pub.live[f] # last.result[f] BY <2>1 DEF Touched, Attempt
  <2>6. Writes' BY <2>1, <2>2, <2>5 DEF IInv, Writes, Leased, Latest
  <2>7. InStep' BY <2>1, <2>2 DEF IInv, InStep, Leased, Recording, Latest
  <2>. QED BY <2>1, <2>2, <2>3, <2>4, <2>6, <2>7, MoveInv
<1>7. CASE Confirm
  <2>1. /\ pub.pc = "confirm" /\ Goto("install") /\ (Written => source = last.result)
        /\ pub.a = Latest /\ last.result # None
        /\ UNCHANGED <<source, git, lock, journal, ws, refs, phase, env>>
    BY <1>7 DEF Confirm, At, Attempt, IInv, InStep, Leased
  <2>2. pub' \in Threads /\ pub'.pc = "install" /\ pub'.a = pub.a /\ pub'.live = pub.live
    BY <1>0, <2>1, GotoEffect
  <2>3. TypeOK' BY <1>0, <2>1, <2>2, TypeKeep DEF TypeOK
  <2>4. LiveSeen' /\ Below(pub.live, source) BY <2>1, <2>2 DEF IInv, LiveSeen, Leased, Below
  <2>5. \A f \in Files : last.result[f] = last.input[f] \cup Given[f]
    BY <1>0, <2>1 DEF IInv, Evidence
  <2>6. Below(Given, source)
    <3>1. CASE Written BY <2>1, <2>5, <3>1 DEF Below
    <3>2. CASE ~Written BY <2>1, <2>4, <2>5, <3>2 DEF Written, Attempt, Below
    <3>. QED BY <3>1, <3>2
  <2>7. Writes' BY <2>1, <2>2, <2>6 DEF IInv, Writes, Leased, Latest, Below, Given
  <2>8. InStep' BY <2>1, <2>2 DEF IInv, InStep, Leased, Recording, Latest
  <2>. QED BY <2>1, <2>2, <2>3, <2>4, <2>7, <2>8, MoveInv
<1>. QED BY <1>1, <1>2, <1>3, <1>4, <1>5, <1>6, <1>7

(* An attempt is taken up again, or superseded by a new one.               *)
LEMMA SelectInv == ASSUME IInv, Select PROVE IInv'
<1>0. TypeOK /\ Latest \in 1 .. Latest /\ Latest \in Nat BY DEF IInv, TypeOK
<1>. DEFINE last == journal[Latest]
<1>1. last \in Journals BY <1>0 DEF TypeOK, Latest
<1>2. pub.pc = "select" /\ UNCHANGED <<source, git, lock, ws, refs, phase, env>> BY DEF Select, At
<1>3. CASE ~Stale(last)
  <2>1. PICK pc \in {"capture", "compose", "deliver"} :
           /\ UNCHANGED journal /\ pub' = [pub EXCEPT !.a = Latest, !.pc = pc]
           /\ pc = "capture" => last.input = None
           /\ pc = "compose" => last.input # None /\ last.result = None
           /\ pc = "deliver" => last.result # None
    BY <1>3 DEF Select
  <2>2. pub' \in Threads /\ pub'.pc = pc /\ pub'.a = Latest
    BY <1>0, <2>1 DEF TypeOK, Threads
  <2>3. TypeOK' BY <1>0, <1>2, <2>1, <2>2, TypeKeep DEF TypeOK
  <2>4. LiveSeen' /\ Writes' BY <2>2 DEF LiveSeen, Writes, Leased
  <2>5. InStep' BY <2>1, <2>2 DEF InStep, Leased, Recording, Latest
  <2>. QED BY <1>2, <2>1, <2>2, <2>3, <2>4, <2>5, MoveInv
<1>4. CASE Stale(last)
  <2>1. /\ journal' = Append(journal, Fresh) /\ Latest + 1 <= MaxAttempts
        /\ pub' = [pub EXCEPT !.a = Latest + 1, !.pc = "capture"]
    BY <1>4 DEF Select
  <2>2. pub' \in Threads /\ pub'.pc = "capture" /\ pub'.a = Latest + 1
    <3>1. Latest + 1 \in Nat BY <1>0
    <3>2. pub \in Threads BY <1>0 DEF TypeOK
    <3>. QED BY <2>1, <3>1, <3>2 DEF Threads
  <2>3. /\ journal' \in Seq(Journals) /\ Latest' = Latest + 1 /\ journal'[Latest'] = Fresh
        /\ \A k \in 1 .. Latest : journal'[k] = journal[k]
    BY <1>0, <2>1, FreshRecord, JournalAppend DEF TypeOK, Latest
  <2>4. Fresh.input = None /\ Fresh.result = None /\ Fresh.applying = FALSE /\ Fresh.installed = FALSE
    BY DEF Fresh
  <2>5. Operands \subseteq Operands' /\ \A x \in Operands : TreeOf(x)' = TreeOf(x)
    BY <1>0, <2>3, OperandsStay DEF Latest
  <2>6. ~last.applying /\ ~last.installed
    BY <1>0, <1>4 DEF Stale, IInv, Evidence
  <2>7. Latest' \in 1 .. MaxAttempts BY <1>0, <2>1, <2>3 DEF NoneAssumption
  <2>8. \A k \in 1 .. Latest' : k # Latest' => k \in 1 .. Latest BY <1>0, <2>3
  <2>9. TypeOK'
    BY <1>0, <1>2, <2>2, <2>3, <2>5, <2>7, NoneAssumption DEF TypeOK
  <2>10. InputsGrow'
    BY <1>2, <2>2, <2>3, <2>4, <2>8 DEF IInv, InputsGrow, Below
  <2>11. LiveSeen' /\ Writes' BY <2>2 DEF LiveSeen, Writes, Leased
  <2>12. Evidence' BY <2>3, <2>4, <2>6, <2>8 DEF IInv, Evidence
  <2>13. InStep' BY <2>2, <2>3, <2>4 DEF InStep, Leased, Recording
  <2>14. MergedTree'
    BY <1>0, <1>2, <2>5 DEF IInv, MergedTree, TypeOK
  <2>15. Kept' BY <1>2, <2>2, <2>3, <2>4, <2>6, <2>8 DEF IInv, Kept
  <2>. QED BY <2>9, <2>10, <2>11, <2>12, <2>13, <2>14, <2>15 DEF IInv
<1>. QED BY <1>3, <1>4

(* Something is recorded of the last attempt.                              *)
LEMMA RecordInv ==
  ASSUME IInv, SaveEvidence \/ SaveInput \/ SavePrepared \/ SaveApplying \/ Install
  PROVE  IInv'
<1>0. TypeOK /\ Latest \in 1 .. Latest /\ Latest \in Nat BY DEF IInv, TypeOK
<1>. DEFINE last == journal[Latest]
<1>1. last \in Journals /\ pub \in Threads BY <1>0 DEF TypeOK, Latest
<1>2. ASSUME NEW r \in Journals, journal' = [journal EXCEPT ![Latest] = r],
             last.input # None => r.input = last.input
      PROVE  /\ journal' \in Seq(Journals) /\ Latest' = Latest /\ journal'[Latest'] = r
             /\ \A k \in 1 .. Latest : k # Latest => journal'[k] = journal[k]
             /\ Operands \subseteq Operands' /\ \A x \in Operands : TreeOf(x)' = TreeOf(x)
  <2>1. /\ journal' \in Seq(Journals) /\ Latest' = Latest /\ journal'[Latest'] = r
        /\ \A k \in 1 .. Latest : k # Latest => journal'[k] = journal[k]
    BY <1>0, <1>2, JournalUpdate DEF TypeOK, Latest
  <2>2. \A k \in 1 .. Latest : journal[k].input # None => journal'[k].input = journal[k].input
    BY <1>2, <2>1
  <2>. QED BY <1>0, <2>1, <2>2, OperandsStay DEF Latest
<1>3. CASE SaveEvidence
  <2>1. /\ pub.pc = "recheck" /\ pub.a = Latest /\ last.input = None /\ Goto("input")
        /\ UNCHANGED <<source, git, lock, ws, refs, phase, env>>
    BY <1>3 DEF SaveEvidence, At, IInv, InStep
  <2>2. PICK r \in Journals :
          /\ journal' = [journal EXCEPT ![Latest] = r] /\ r.input = last.input
          /\ r.result = last.result /\ r.applying = last.applying /\ r.installed = last.installed
    <3>. DEFINE r == [last EXCEPT !.evidence = TRUE, !.git = pub.git]
    <3>1. pub.git \in Nat BY <1>1 DEF Threads
    <3>2. r \in Journals /\ r.input = last.input /\ r.result = last.result
          /\ r.applying = last.applying /\ r.installed = last.installed
      BY <1>1, <3>1 DEF Journals
    <3>3. journal' = [journal EXCEPT ![Latest] = r]
      BY <1>0, <1>3, <2>1 DEF SaveEvidence, TypeOK, Latest
    <3>. HIDE DEF r
    <3>. QED BY <3>2, <3>3
  <2>3. /\ journal' \in Seq(Journals) /\ Latest' = Latest /\ journal'[Latest'] = r
        /\ \A k \in 1 .. Latest : k # Latest => journal'[k] = journal[k]
        /\ Operands \subseteq Operands' /\ \A x \in Operands : TreeOf(x)' = TreeOf(x)
    BY <1>2, <2>2
  <2>4. pub' \in Threads /\ pub'.pc = "input" /\ pub'.a = pub.a /\ pub'.live = pub.live
    BY <1>0, <2>1, GotoEffect
  <2>5. TypeOK' BY <1>0, <2>1, <2>3, <2>4 DEF TypeOK
  <2>6. InputsGrow' BY <2>1, <2>2, <2>3, <2>4 DEF IInv, InputsGrow, Below
  <2>7. LiveSeen' BY <2>1, <2>4 DEF IInv, LiveSeen, Below
  <2>8. Evidence' BY <2>2, <2>3 DEF IInv, Evidence
  <2>9. InStep' BY <2>1, <2>2, <2>3, <2>4 DEF InStep, Leased, Recording
  <2>10. Writes' BY <2>4 DEF Writes, Leased
  <2>11. MergedTree' BY <1>0, <2>1, <2>3 DEF IInv, MergedTree, TypeOK
  <2>12. Kept' BY <2>1, <2>2, <2>3, <2>4 DEF IInv, Kept
  <2>. QED BY <2>5, <2>6, <2>7, <2>8, <2>9, <2>10, <2>11, <2>12 DEF IInv
<1>4. CASE SaveInput
  <2>1. /\ pub.pc = "input" /\ pub.a = Latest /\ last.input = None /\ Goto("compose")
        /\ UNCHANGED <<source, git, lock, ws, refs, phase, env>>
    BY <1>4 DEF SaveInput, At, IInv, InStep
  <2>2. pub.live \in Trees BY <1>1 DEF Threads
  <2>3. PICK r \in Journals :
          /\ journal' = [journal EXCEPT ![Latest] = r] /\ r.input = pub.live
          /\ r.result = last.result /\ r.applying = last.applying /\ r.installed = last.installed
    <3>. DEFINE r == [last EXCEPT !.input = pub.live]
    <3>1. r \in Journals /\ r.input = pub.live /\ r.result = last.result
          /\ r.applying = last.applying /\ r.installed = last.installed
      BY <1>1, <2>2 DEF Journals
    <3>2. journal' = [journal EXCEPT ![Latest] = r]
      BY <1>0, <1>4, <2>1 DEF SaveInput, TypeOK, Latest
    <3>. HIDE DEF r
    <3>. QED BY <3>1, <3>2
  <2>4. /\ journal' \in Seq(Journals) /\ Latest' = Latest /\ journal'[Latest'] = r
        /\ \A k \in 1 .. Latest : k # Latest => journal'[k] = journal[k]
        /\ Operands \subseteq Operands' /\ \A x \in Operands : TreeOf(x)' = TreeOf(x)
    BY <1>2, <2>1, <2>3
  <2>5. pub' \in Threads /\ pub'.pc = "compose" /\ pub'.a = pub.a /\ pub'.live = pub.live
    BY <1>0, <2>1, GotoEffect
  <2>6. TypeOK' BY <1>0, <2>1, <2>4, <2>5 DEF TypeOK
  <2>7. last.result = None BY <1>0, <2>1 DEF IInv, Evidence
  <2>8. InputsGrow'
    <3>1. Below(pub.live, source) BY <2>1 DEF IInv, LiveSeen
    <3>2. \A k \in 1 .. Latest : journal[k].input # None => Below(journal[k].input, pub.live)
      BY <2>1 DEF IInv, InputsGrow
    <3>. QED BY <2>1, <2>3, <2>4, <2>5, <3>1, <3>2 DEF IInv, InputsGrow, Below
  <2>9. LiveSeen' BY <2>5 DEF LiveSeen, Leased
  <2>10. Evidence' BY <2>3, <2>4, <2>7 DEF IInv, Evidence
  <2>11. pub.live # None BY <2>2, NoneAssumption
  <2>12. InStep' BY <2>1, <2>3, <2>4, <2>5, <2>7, <2>11 DEF InStep, Leased, Recording
  <2>13. Writes' BY <2>5 DEF Writes, Leased
  <2>14. MergedTree' BY <1>0, <2>1, <2>4 DEF IInv, MergedTree, TypeOK
  <2>15. Kept' BY <2>1, <2>3, <2>4, <2>5 DEF IInv, Kept
  <2>. QED BY <2>6, <2>8, <2>9, <2>10, <2>12, <2>13, <2>14, <2>15 DEF IInv
<1>5. CASE SavePrepared
  <2>1. /\ pub.pc = "prepared" /\ pub.a = Latest /\ last.input # None /\ last.result = None
        /\ Goto("deliver") /\ UNCHANGED <<source, git, lock, ws, refs, phase, env>>
        /\ \A f \in Files : pub.live[f] = last.input[f] \cup Given[f]
    BY <1>5 DEF SavePrepared, At, IInv, InStep
  <2>2. pub.live \in Trees BY <1>1 DEF Threads
  <2>3. PICK r \in Journals :
          /\ journal' = [journal EXCEPT ![Latest] = r] /\ r.input = last.input
          /\ r.result = pub.live /\ r.applying = last.applying /\ r.installed = last.installed
    <3>. DEFINE r == [last EXCEPT !.result = pub.live]
    <3>1. r \in Journals /\ r.input = last.input /\ r.result = pub.live
          /\ r.applying = last.applying /\ r.installed = last.installed
      BY <1>1, <2>2 DEF Journals
    <3>2. journal' = [journal EXCEPT ![Latest] = r]
      BY <1>0, <1>5, <2>1 DEF SavePrepared, TypeOK, Latest
    <3>. HIDE DEF r
    <3>. QED BY <3>1, <3>2
  <2>4. /\ journal' \in Seq(Journals) /\ Latest' = Latest /\ journal'[Latest'] = r
        /\ \A k \in 1 .. Latest : k # Latest => journal'[k] = journal[k]
        /\ Operands \subseteq Operands' /\ \A x \in Operands : TreeOf(x)' = TreeOf(x)
    BY <1>2, <2>3
  <2>5. pub' \in Threads /\ pub'.pc = "deliver" /\ pub'.a = pub.a /\ pub'.live = pub.live
    BY <1>0, <2>1, GotoEffect
  <2>6. TypeOK' BY <1>0, <2>1, <2>4, <2>5 DEF TypeOK
  <2>7. InputsGrow' BY <2>1, <2>3, <2>4, <2>5 DEF IInv, InputsGrow, Below
  <2>8. LiveSeen' BY <2>5 DEF LiveSeen, Leased
  <2>9. Evidence' BY <1>0, <2>1, <2>3, <2>4 DEF IInv, Evidence, Given
  <2>10. pub.live # None BY <2>2, NoneAssumption
  <2>11. InStep' BY <2>1, <2>3, <2>4, <2>5, <2>10 DEF InStep, Leased, Recording
  <2>12. Writes' BY <2>5 DEF Writes, Leased
  <2>13. MergedTree' BY <1>0, <2>1, <2>4 DEF IInv, MergedTree, TypeOK
  <2>14. ~last.installed BY <1>0, <2>1 DEF IInv, Evidence
  <2>15. Kept' BY <2>1, <2>3, <2>4, <2>5, <2>14 DEF IInv, Kept
  <2>. QED BY <2>6, <2>7, <2>8, <2>9, <2>11, <2>12, <2>13, <2>15 DEF IInv
<1>6. CASE SaveApplying
  <2>1. /\ pub.pc = "apply" /\ pub.a = Latest /\ last.result # None /\ ~last.installed
        /\ Goto("checkout") /\ UNCHANGED <<source, git, lock, ws, refs, phase, env>>
    BY <1>6 DEF SaveApplying, At, IInv, InStep, Leased
  <2>2. PICK r \in Journals :
          /\ journal' = [journal EXCEPT ![Latest] = r] /\ r.input = last.input
          /\ r.result = last.result /\ r.installed = last.installed
    <3>. DEFINE r == [last EXCEPT !.applying = TRUE]
    <3>1. r \in Journals /\ r.input = last.input /\ r.result = last.result
          /\ r.installed = last.installed
      BY <1>1 DEF Journals
    <3>2. journal' = [journal EXCEPT ![Latest] = r]
      BY <1>0, <1>6, <2>1 DEF SaveApplying, TypeOK, Latest
    <3>. HIDE DEF r
    <3>. QED BY <3>1, <3>2
  <2>3. /\ journal' \in Seq(Journals) /\ Latest' = Latest /\ journal'[Latest'] = r
        /\ \A k \in 1 .. Latest : k # Latest => journal'[k] = journal[k]
        /\ Operands \subseteq Operands' /\ \A x \in Operands : TreeOf(x)' = TreeOf(x)
    BY <1>2, <2>2
  <2>4. pub' \in Threads /\ pub'.pc = "checkout" /\ pub'.a = pub.a /\ pub'.live = pub.live
    BY <1>0, <2>1, GotoEffect
  <2>5. TypeOK' BY <1>0, <2>1, <2>3, <2>4 DEF TypeOK
  <2>6. InputsGrow' BY <2>1, <2>2, <2>3, <2>4 DEF IInv, InputsGrow, Below
  <2>7. LiveSeen' BY <2>1, <2>4 DEF IInv, LiveSeen, Below, Leased
  <2>8. Evidence' BY <2>1, <2>2, <2>3 DEF IInv, Evidence
  <2>9. InStep' BY <2>1, <2>2, <2>3, <2>4 DEF InStep, Leased, Recording
  <2>10. Writes' BY <2>1, <2>2, <2>3, <2>4 DEF IInv, Writes, Leased
  <2>11. MergedTree' BY <1>0, <2>1, <2>3 DEF IInv, MergedTree, TypeOK
  <2>12. Kept' BY <2>1, <2>2, <2>3, <2>4 DEF IInv, Kept
  <2>. QED BY <2>5, <2>6, <2>7, <2>8, <2>9, <2>10, <2>11, <2>12 DEF IInv
<1>7. CASE Install
  <2>1. /\ pub.pc = "install" /\ pub.a = Latest /\ last.result # None /\ ~last.installed
        /\ Goto("record") /\ UNCHANGED <<source, git, lock, ws, refs, phase, env>>
    BY <1>7 DEF Install, At, IInv, InStep, Leased
  <2>2. PICK r \in Journals :
          /\ journal' = [journal EXCEPT ![Latest] = r] /\ r.input = last.input
          /\ r.result = last.result /\ r.installed = TRUE
    <3>. DEFINE r == [last EXCEPT !.installed = TRUE]
    <3>1. r \in Journals /\ r.input = last.input /\ r.result = last.result /\ r.installed = TRUE
      BY <1>1 DEF Journals
    <3>2. journal' = [journal EXCEPT ![Latest] = r]
      BY <1>0, <1>7, <2>1 DEF Install, TypeOK, Latest
    <3>. HIDE DEF r
    <3>. QED BY <3>1, <3>2
  <2>3. /\ journal' \in Seq(Journals) /\ Latest' = Latest /\ journal'[Latest'] = r
        /\ \A k \in 1 .. Latest : k # Latest => journal'[k] = journal[k]
        /\ Operands \subseteq Operands' /\ \A x \in Operands : TreeOf(x)' = TreeOf(x)
    BY <1>2, <2>2
  <2>4. pub' \in Threads /\ pub'.pc = "record" /\ pub'.a = pub.a /\ pub'.live = pub.live
    BY <1>0, <2>1, GotoEffect
  <2>5. TypeOK' BY <1>0, <2>1, <2>3, <2>4 DEF TypeOK
  <2>6. InputsGrow' BY <2>1, <2>2, <2>3, <2>4 DEF IInv, InputsGrow, Below
  <2>7. LiveSeen' BY <2>4 DEF LiveSeen, Leased
  <2>8. Evidence' BY <2>1, <2>2, <2>3 DEF IInv, Evidence
  <2>9. InStep' BY <2>1, <2>2, <2>3, <2>4 DEF InStep, Leased, Recording
  <2>10. Writes' BY <2>4 DEF Writes, Leased
  <2>11. MergedTree' BY <1>0, <2>1, <2>3 DEF IInv, MergedTree, TypeOK
  <2>12. Kept' BY <2>1, <2>2, <2>3, <2>4 DEF IInv, Kept
  <2>. QED BY <2>5, <2>6, <2>7, <2>8, <2>9, <2>10, <2>11, <2>12 DEF IInv
<1>. QED BY <1>3, <1>4, <1>5, <1>6, <1>7

(* The workspace is made, and an operand is merged into it.                *)
LEMMA ComposeInv ==
  ASSUME IInv, Materialize \/ Resolve \/ \E x \in Operands : Merge(x)
  PROVE  IInv'
<1>0. TypeOK /\ Latest \in 1 .. Latest /\ Latest \in Nat BY DEF IInv, TypeOK
<1>1. ws \in Workspaces /\ pub.pc = "compose" /\ pub.a = Latest /\ journal[Latest].input # None
      /\ UNCHANGED <<source, git, lock, journal, refs, pub, phase, env>>
  BY <1>0 DEF TypeOK, Materialize, Resolve, Merge, At, IInv, InStep
<1>2. Operands' = Operands /\ Latest' = Latest /\ \A x \in Operands : TreeOf(x)' = TreeOf(x)
  BY <1>1 DEF Operands, Inputs, Latest, TreeOf
<1>3. ASSUME ws' \in Workspaces, ws'.merged \subseteq Operands,
             ws'.pending # None => ws'.pending \in Operands \ ws'.merged, MergedTree'
      PROVE  IInv'
  <2>1. TypeOK' BY <1>0, <1>1, <1>2, <1>3 DEF TypeOK
  <2>2. InputsGrow' /\ LiveSeen' BY <1>1, <1>2 DEF IInv, InputsGrow, LiveSeen, Below
  <2>3. Evidence' BY <1>1, <1>2 DEF IInv, Evidence
  <2>4. InStep' /\ Writes' BY <1>1, <1>2 DEF IInv, InStep, Writes, Leased, Recording
  <2>5. Kept' BY <1>1, <1>2 DEF IInv, Kept
  <2>. QED BY <1>3, <2>1, <2>2, <2>3, <2>4, <2>5 DEF IInv
<1>4. ASSUME NEW x \in Operands, x \notin ws.merged, ws.made,
             ws' = [ws EXCEPT !.tree = Join(@, TreeOf(x)), !.merged = @ \cup {x}, !.pending = None]
      PROVE  IInv'
  <2>1. TreeOf(x) \in Trees /\ ws.tree \in Trees BY <1>0, <1>1, TreesOf DEF Workspaces
  <2>2. Join(ws.tree, TreeOf(x)) \in Trees
        /\ \A f \in Files : Join(ws.tree, TreeOf(x))[f] = ws.tree[f] \cup TreeOf(x)[f]
    BY <2>1 DEF Join, Trees
  <2>3. x \in ({"head"} \X Heads) \cup ({"input"} \X (1 .. MaxAttempts))
    BY <1>0, OperandsBounded
  <2>4. /\ ws' \in Workspaces /\ ws'.tree = Join(ws.tree, TreeOf(x)) /\ ws'.made
        /\ ws'.merged = ws.merged \cup {x} /\ ws'.pending = None
    BY <1>1, <1>4, <2>2, <2>3 DEF Workspaces
  <2>5. MergedTree'
    BY <1>0, <1>2, <1>4, <2>2, <2>4 DEF IInv, MergedTree, TypeOK
  <2>. QED BY <1>0, <1>3, <2>4, <2>5 DEF TypeOK
<1>5. CASE Materialize
  <2>1. /\ <<"input", Latest>> \in Operands /\ TreeOf(<<"input", Latest>>) = journal[Latest].input
        /\ <<"input", Latest>> \in {"input"} \X (1 .. MaxAttempts)
    BY <1>0, <1>1 DEF Operands, Inputs, TreeOf, TypeOK
  <2>2. journal[Latest].input \in Trees BY <1>0, <1>1, <2>1, TreesOf
  <2>3. ws' = [made |-> TRUE, tree |-> journal[Latest].input, merged |-> {<<"input", Latest>>},
               pending |-> None]
    BY <1>1, <1>5 DEF Materialize, Attempt
  <2>4. ws' \in Workspaces BY <2>1, <2>2, <2>3 DEF Workspaces
  <2>5. MergedTree' BY <1>1, <1>2, <2>1, <2>3 DEF MergedTree
  <2>. QED BY <1>3, <2>1, <2>3, <2>4, <2>5
<1>6. ASSUME NEW x \in Operands, Merge(x) PROVE IInv'
  <2>1. ws.made /\ ws.pending = None /\ x \notin ws.merged BY <1>6 DEF Merge
  <2>2. CASE ws' = [ws EXCEPT !.pending = x]
    <3>1. x \in ({"head"} \X Heads) \cup ({"input"} \X (1 .. MaxAttempts))
      BY <1>0, OperandsBounded
    <3>2. /\ ws' \in Workspaces /\ ws'.pending = x /\ ws'.merged = ws.merged
          /\ ws'.tree = ws.tree /\ ws'.made = ws.made
      BY <1>1, <2>2, <3>1 DEF Workspaces
    <3>3. MergedTree' BY <1>0, <1>2, <2>1, <3>2 DEF IInv, MergedTree, TypeOK
    <3>. QED BY <1>0, <1>3, <2>1, <3>2, <3>3 DEF TypeOK
  <2>3. CASE ws' = [ws EXCEPT !.tree = Join(@, TreeOf(x)), !.merged = @ \cup {x}]
    <3>1. ws' = [ws EXCEPT !.tree = Join(@, TreeOf(x)), !.merged = @ \cup {x}, !.pending = None]
      BY <1>1, <2>1, <2>3 DEF Workspaces
    <3>. QED BY <1>4, <2>1, <3>1
  <2>. QED BY <1>6, <2>2, <2>3 DEF Merge
<1>7. CASE Resolve
  <2>1. ws.pending # None /\ ws.pending \in Operands \ ws.merged BY <1>0, <1>7 DEF Resolve, TypeOK
  <2>2. ws.made BY <1>7, <2>1 DEF Resolve, IInv, MergedTree
  <2>. QED BY <1>4, <1>7, <2>1, <2>2 DEF Resolve
<1>. QED BY <1>5, <1>6, <1>7

(* A composed result is pinned before it is recorded.                      *)
LEMMA ResultInv ==
  ASSUME IInv, ComposeVirtual \/ Import
  PROVE  IInv'
<1>0. TypeOK /\ Latest \in 1 .. Latest /\ Latest \in Nat BY DEF IInv, TypeOK
<1>1. /\ pub.pc = "compose" /\ pub.a = Latest
      /\ journal[Latest].input # None /\ journal[Latest].result = None
      /\ UNCHANGED <<source, git, lock, journal, ws, phase, env>>
  BY DEF ComposeVirtual, Import, At, IInv, InStep
<1>2. journal[Latest].input \in Trees
  <2>1. journal[Latest] \in Journals BY <1>0 DEF TypeOK, Latest
  <2>. QED BY <1>1, <2>1 DEF Journals
<1>3. PICK result \in Trees :
        /\ \A f \in Files : result[f] = journal[Latest].input[f] \cup Given[f]
        /\ refs' = [refs EXCEPT !.db = @ \cup {result}, !.pins = @ \cup {result}]
        /\ pub' = [pub EXCEPT !.live = result, !.pc = "prepared"]
  <2>1. ASSUME NEW result \in Trees,
               \A f \in Files : \A e \in Tags : e \in result[f] <=> \E x \in Operands : e \in TreeOf(x)[f]
        PROVE  \A f \in Files : result[f] = journal[Latest].input[f] \cup Given[f]
    <3>1. TAKE f \in Files
    <3>2. result[f] \subseteq Tags /\ journal[Latest].input[f] \cup Given[f] \subseteq Tags
      BY <1>2, GivenIsTree DEF Trees
    <3>3. \A e \in Tags : e \in result[f] <=> e \in journal[Latest].input[f] \cup Given[f]
      BY <1>1, <2>1, OperandsMakeResult
    <3>. QED BY <3>2, <3>3
  <2>2. CASE ComposeVirtual
    <3>. DEFINE result == [f \in Files |-> UNION {TreeOf(x)[f] : x \in Operands}]
    <3>1. \A f \in Files : \A e : e \in result[f] <=> \E x \in Operands : e \in TreeOf(x)[f]
      OBVIOUS
    <3>2. result \in Trees
      <4>1. \A x \in Operands : TreeOf(x) \in Trees BY <1>0, TreesOf
      <4>. QED BY <4>1 DEF Trees
    <3>3. /\ refs' = [refs EXCEPT !.db = @ \cup {result}, !.pins = @ \cup {result}]
          /\ pub' = [pub EXCEPT !.live = result, !.pc = "prepared"]
      BY <2>2 DEF ComposeVirtual
    <3>. HIDE DEF result
    <3>. QED BY <2>1, <3>1, <3>2, <3>3
  <2>3. CASE Import
    <3>1. /\ ws.made /\ Operands \subseteq ws.merged
          /\ refs' = [refs EXCEPT !.db = @ \cup {ws.tree}, !.pins = @ \cup {ws.tree}]
          /\ pub' = [pub EXCEPT !.live = ws.tree, !.pc = "prepared"]
      BY <2>3 DEF Import
    <3>2. ws.tree \in Trees /\ ws.merged = Operands BY <1>0, <3>1 DEF TypeOK, Workspaces
    <3>3. \A f \in Files : \A e \in Tags : e \in ws.tree[f] <=> \E x \in Operands : e \in TreeOf(x)[f]
      BY <3>1, <3>2 DEF IInv, MergedTree
    <3>. QED BY <2>1, <3>1, <3>2, <3>3
  <2>. QED BY <2>2, <2>3
<1>4. pub' \in Threads /\ pub'.pc = "prepared" /\ pub'.a = pub.a /\ pub'.live = result
  BY <1>0, <1>3 DEF TypeOK, Threads
<1>5. /\ refs' \in [db : SUBSET Trees, pins : SUBSET Trees, published : Trees \cup {None}]
      /\ refs'.db = refs.db \cup {result} /\ refs'.pins = refs.pins \cup {result}
      /\ refs'.published = refs.published
  BY <1>0, <1>3 DEF TypeOK
<1>6. Latest' = Latest /\ Operands' = Operands /\ \A x \in Operands : TreeOf(x)' = TreeOf(x)
  BY <1>1 DEF Latest, Operands, Inputs, TreeOf
<1>7. TypeOK' BY <1>0, <1>1, <1>4, <1>5, <1>6 DEF TypeOK
<1>8. InputsGrow' /\ LiveSeen' BY <1>1, <1>4, <1>6 DEF IInv, InputsGrow, LiveSeen, Below, Leased
<1>9. Evidence' BY <1>1, <1>6 DEF IInv, Evidence
<1>10. InStep' /\ Writes'
  BY <1>1, <1>3, <1>4, <1>6 DEF InStep, Writes, Leased, Recording, Given
<1>11. MergedTree' BY <1>0, <1>1, <1>6 DEF IInv, MergedTree, TypeOK
<1>12. Kept' BY <1>1, <1>4, <1>5, <1>6 DEF IInv, Kept
<1>. QED BY <1>7, <1>8, <1>9, <1>10, <1>11, <1>12 DEF IInv

(* The references of the private database, and its pruning.                *)
LEMMA RefsInv ==
  ASSUME IInv, Record \/ Unpin \/ Prune
  PROVE  IInv'
<1>0. TypeOK /\ Latest \in 1 .. Latest /\ Latest \in Nat BY DEF IInv, TypeOK
<1>1. UNCHANGED <<source, git, lock, journal, ws, phase>> BY DEF Record, Unpin, Prune
<1>2. Latest' = Latest /\ Operands' = Operands /\ \A x \in Operands : TreeOf(x)' = TreeOf(x)
  BY <1>1 DEF Latest, Operands, Inputs, TreeOf
<1>3. journal[Latest] \in Journals BY <1>0 DEF TypeOK, Latest
<1>4. Evidence' BY <1>1, <1>2 DEF IInv, Evidence
<1>5. MergedTree' BY <1>0, <1>1, <1>2 DEF IInv, MergedTree, TypeOK
<1>6. CASE Record \/ Unpin
  <2>1. /\ pub.pc \in {"record", "unpin"} /\ pub.a = Latest /\ journal[Latest].installed
        /\ journal[Latest].result # None /\ UNCHANGED env
    BY <1>6 DEF Record, Unpin, At, IInv, InStep, Recording
  <2>2. journal[Latest].result \in Trees BY <1>3, <2>1 DEF Journals
  <2>3. pub' \in Threads /\ pub'.a = pub.a
        /\ (pub'.pc = IF pub.pc = "record" THEN "unpin" ELSE "unlock")
    BY <1>0, <1>6, GotoEffect DEF Record, Unpin, At
  <2>4. InputsGrow' /\ LiveSeen'
    BY <1>1, <1>2, <2>3 DEF IInv, InputsGrow, LiveSeen, Below, Leased
  <2>5. InStep' /\ Writes' BY <1>1, <1>2, <2>1, <2>3 DEF InStep, Writes, Leased, Recording
  <2>6. /\ refs' \in [db : SUBSET Trees, pins : SUBSET Trees, published : Trees \cup {None}]
        /\ refs'.db = refs.db /\ refs'.published = journal[Latest].result
        /\ refs'.pins = refs.pins \/ refs'.pins = refs.pins \ {journal[Latest].result}
    <3>1. CASE Record
      BY <1>0, <2>1, <2>2, <3>1 DEF Record, Attempt, TypeOK
    <3>2. CASE Unpin
      <4>1. refs.published = journal[Latest].result BY <3>2 DEF Unpin, At, IInv, Kept
      <4>. QED BY <1>0, <2>1, <3>2, <4>1 DEF Unpin, Attempt, TypeOK
    <3>. QED BY <1>6, <3>1, <3>2
  <2>7. TypeOK' BY <1>0, <1>1, <1>2, <2>1, <2>3, <2>6 DEF TypeOK
  <2>8. refs.published # None => refs.published = journal[Latest].result BY DEF IInv, Kept
  <2>9. ASSUME NEW k \in 1 .. Latest, journal[k].result # None
        PROVE  journal[k].result \in refs'.db /\ journal[k].result \in refs'.pins \cup {refs'.published}
    <3>1. journal[k].result \in refs.db /\ journal[k].result \in refs.pins \cup {refs.published}
      BY <2>9 DEF IInv, Kept
    <3>. QED BY <2>6, <2>8, <2>9, <3>1
  <2>10. Kept' BY <1>0, <1>1, <1>2, <2>1, <2>3, <2>6, <2>9 DEF Kept
  <2>. QED BY <1>4, <1>5, <2>4, <2>5, <2>7, <2>10 DEF IInv
<1>7. CASE Prune
  <2>1. UNCHANGED pub BY <1>7 DEF Prune
  <2>2. /\ env' \in [until : {"before", "always"}, edits : Nat, gits : Nat, crashes : Nat,
                     gcs : Nat, foreign : Nat]
        /\ env'.edits = env.edits
    <3>1. env.gcs - 1 \in Nat /\ env' = [env EXCEPT !.gcs = env.gcs - 1]
      BY <1>0, <1>7 DEF Prune, TypeOK
    <3>. QED BY <1>0, <3>1 DEF TypeOK
  <2>3. /\ refs' \in [db : SUBSET Trees, pins : SUBSET Trees, published : Trees \cup {None}]
        /\ refs'.db = refs.db \cap (refs.pins \cup {refs.published})
        /\ refs'.pins = refs.pins /\ refs'.published = refs.published
    BY <1>0, <1>7 DEF Prune, TypeOK
  <2>4. TypeOK' BY <1>0, <1>1, <1>2, <2>1, <2>2, <2>3 DEF TypeOK
  <2>5. InputsGrow' /\ LiveSeen' BY <1>1, <1>2, <2>1 DEF IInv, InputsGrow, LiveSeen, Below
  <2>6. InStep' /\ Writes' BY <1>1, <1>2, <2>1 DEF IInv, InStep, Writes, Below
  <2>7. Kept' BY <1>1, <1>2, <2>1, <2>3 DEF IInv, Kept
  <2>. QED BY <1>4, <1>5, <2>4, <2>5, <2>6, <2>7 DEF IInv
<1>. QED BY <1>6, <1>7

(* A file gains changes.                                                   *)
LEMMA GrowInv ==
  ASSUME IInv, TypeOK', UNCHANGED <<journal, ws, refs>>, Below(source, source'),
         pub'.live = pub.live, pub'.a = pub.a, Writes',
         UNCHANGED pub \/ (pub.pc = "writing" /\ pub'.pc \in {"writing", "confirm"})
  PROVE  IInv'
<1>1. Latest' = Latest /\ Operands' = Operands /\ \A x \in Operands : TreeOf(x)' = TreeOf(x)
  BY DEF Latest, Operands, Inputs, TreeOf
<1>2. InputsGrow' BY <1>1 DEF IInv, InputsGrow, Below
<1>3. LiveSeen' BY DEF IInv, LiveSeen, Below, Leased
<1>4. Evidence' BY <1>1 DEF IInv, Evidence
<1>5. InStep' BY <1>1 DEF IInv, InStep, Leased, Recording
<1>6. MergedTree'
  <2>1. ws.merged \subseteq Operands /\ MergedTree BY DEF IInv, TypeOK
  <2>. QED BY <1>1, <2>1 DEF MergedTree
<1>7. Kept' BY <1>1 DEF IInv, Kept
<1>. QED BY <1>2, <1>3, <1>4, <1>5, <1>6, <1>7 DEF IInv

(* A write of the checkout adds the changes of the Run to a file.          *)
LEMMA WriteAdds ==
  ASSUME IInv, NEW f \in Files, Write(f)
  PROVE  /\ source' = [source EXCEPT ![f] = @ \cup Given[f]]
         /\ journal[Latest].result \in Trees /\ ~journal[Latest].installed
<1>0. TypeOK /\ Latest \in 1 .. Latest BY DEF IInv, TypeOK
<1>1. /\ pub.pc = "writing" /\ f \in pub.todo /\ pub.a = Latest
      /\ journal[Latest].result # None /\ ~journal[Latest].installed
  BY DEF Write, At, IInv, InStep, Leased
<1>2. journal[Latest] \in Journals BY <1>0 DEF TypeOK, Latest
<1>3. journal[Latest].result \in Trees BY <1>1, <1>2 DEF Journals
<1>4. source[f] = journal[Latest].input[f] BY <1>1 DEF IInv, Writes, Leased
<1>5. journal[Latest].result[f] = source[f] \cup Given[f] BY <1>0, <1>1, <1>4 DEF IInv, Evidence
<1>. QED BY <1>1, <1>3, <1>5 DEF Write, Attempt

\* Git writes one file.
LEMMA WriteInv ==
  ASSUME IInv, NEW f \in Files, Write(f)
  PROVE  IInv'
<1>0. TypeOK /\ Latest \in 1 .. Latest BY DEF IInv, TypeOK
<1>1. /\ pub.pc = "writing" /\ UNCHANGED <<git, lock, journal, ws, refs, phase, env>>
  BY DEF Write, At
<1>2. /\ pub' \in Threads /\ pub'.a = pub.a /\ pub'.live = pub.live /\ pub'.todo = pub.todo \ {f}
      /\ pub'.pc \in {"writing", "confirm"}
  BY <1>0, <1>1 DEF Write, TypeOK, Threads
<1>3. /\ source' \in Trees /\ Below(source, source')
      /\ \A g \in Files : g # f => source'[g] = source[g]
  <2>1. source \in [Files -> SUBSET Tags] /\ Given[f] \in SUBSET Tags
    BY <1>0, GivenIsTree DEF TypeOK, Trees
  <2>2. source' = [source EXCEPT ![f] = source[f] \cup Given[f]] BY WriteAdds
  <2>3. source' \in Trees BY <2>1, <2>2 DEF Trees
  <2>4. \A g \in Files : g # f => source'[g] = source[g] BY <2>1, <2>2
  <2>5. source'[f] = source[f] \cup Given[f] BY <2>1, <2>2
  <2>. QED BY <2>3, <2>4, <2>5 DEF Below
<1>4. Latest' = Latest /\ Operands' = Operands BY <1>1 DEF Latest, Operands, Inputs
<1>5. TypeOK' BY <1>0, <1>1, <1>2, <1>3, <1>4 DEF TypeOK
<1>6. pub.todo \subseteq Files BY <1>0 DEF TypeOK, Threads
<1>7. Writes' BY <1>1, <1>2, <1>3, <1>4, <1>6 DEF IInv, Writes, Leased
<1>. QED BY <1>1, <1>2, <1>3, <1>5, <1>7, GrowInv

\* The owner edits a file.
LEMMA EditInv ==
  ASSUME IInv, NEW f \in Files, Edit(f)
  PROVE  IInv'
<1>0. TypeOK BY DEF IInv
<1>1. /\ env.edits > 0 /\ pub.pc # "writing" /\ source' = [source EXCEPT ![f] = @ \cup {<<"edit", env.edits>>}]
      /\ env' = [env EXCEPT !.edits = env.edits - 1]
      /\ UNCHANGED <<git, lock, journal, ws, refs, pub, phase>>
  BY DEF Edit
<1>2. env.edits \in Nat /\ <<"edit", env.edits>> \in EditTags BY <1>0, <1>1 DEF TypeOK
<1>3. /\ source' \in Trees /\ Below(source, source')
  BY <1>0, <1>1, <1>2 DEF TypeOK, Trees, Tags, Below
<1>4. Latest' = Latest /\ Operands' = Operands BY <1>1 DEF Latest, Operands, Inputs
<1>5. /\ env' \in [until : {"before", "always"}, edits : Nat, gits : Nat, crashes : Nat,
                   gcs : Nat, foreign : Nat]
      /\ env'.edits = env.edits - 1
  <2>1. env.edits - 1 \in Nat BY <1>1, <1>2
  <2>. QED BY <1>0, <1>1, <2>1 DEF TypeOK
<1>6. env'.edits > 0 => <<"edit", env'.edits>> \in EditTags
  <2>1. SUFFICES ASSUME env.edits - 1 > 0 PROVE <<"edit", env.edits - 1>> \in EditTags
    BY <1>5
  <2>2. PICK s \in Scenarios : env.edits \in 1 .. s.edits
    <3>1. PICK n \in UNION {1 .. s.edits : s \in Scenarios} : <<"edit", env.edits>> = <<"edit", n>>
      BY <1>2 DEF EditTags
    <3>2. env.edits = n BY <3>1
    <3>. QED BY <3>2
  <2>3. s.edits \in Nat BY ScenarioAssumption
  <2>4. env.edits - 1 \in 1 .. s.edits BY <1>2, <2>1, <2>2, <2>3
  <2>5. env.edits - 1 \in UNION {1 .. q.edits : q \in Scenarios} BY <2>4
  <2>. QED BY <2>5 DEF EditTags
<1>7. TypeOK' BY <1>0, <1>1, <1>3, <1>4, <1>5, <1>6 DEF TypeOK
<1>8. Writes' BY <1>1, <1>3, <1>4 DEF IInv, Writes, Below
<1>. QED BY <1>1, <1>3, <1>7, <1>8, GrowInv

-----------------------------------------------------------------------------
(* The invariant.                                                          *)

\* A publication that begins satisfies the invariant.
LEMMA InitInv == Init => IInv
<1>. SUFFICES ASSUME Init PROVE IInv OBVIOUS
<1>1. /\ source = Empty /\ git = 0 /\ lock = None /\ journal = <<Fresh>>
      /\ ws = [made |-> FALSE, tree |-> Empty, merged |-> {}, pending |-> None]
      /\ refs = [db |-> {}, pins |-> {}, published |-> None]
      /\ pub = [Idle EXCEPT !.pc = "select"] /\ phase = "publishing" /\ env \in Scenarios
  BY DEF Init
<1>2. journal \in Seq(Journals) /\ Latest = 1 /\ journal[1] = Fresh /\ Latest \in 1 .. MaxAttempts
  BY <1>1, FreshRecord, NoneAssumption DEF Latest
<1>3. ws \in Workspaces BY <1>1, EmptyIsTree DEF Workspaces
<1>4. /\ env \in [until : {"before", "always"}, edits : Nat, gits : Nat, crashes : Nat,
                  gcs : Nat, foreign : Nat]
      /\ env.edits > 0 => <<"edit", env.edits>> \in EditTags
  <2>1. env \in [until : {"before", "always"}, edits : Nat, gits : Nat, crashes : Nat,
                 gcs : Nat, foreign : Nat]
    BY <1>1, ScenarioAssumption
  <2>2. ASSUME env.edits > 0 PROVE <<"edit", env.edits>> \in EditTags
    <3>1. env.edits \in 1 .. env.edits BY <2>1, <2>2
    <3>2. env.edits \in UNION {1 .. s.edits : s \in Scenarios} BY <1>1, <3>1
    <3>. QED BY <3>2 DEF EditTags
  <2>. QED BY <2>1, <2>2
<1>5. pub \in Threads /\ pub.pc = "select" /\ pub.a = 0 BY <1>1, IdleThread
<1>6. TypeOK BY <1>1, <1>2, <1>3, <1>4, <1>5, EmptyIsTree DEF TypeOK
<1>7. \A k \in 1 .. Latest : journal[k] = Fresh BY <1>2
<1>8. InputsGrow /\ Evidence BY <1>7 DEF InputsGrow, Evidence, Fresh
<1>9. LiveSeen /\ InStep /\ Writes BY <1>5 DEF LiveSeen, InStep, Writes, Leased, Recording
<1>10. MergedTree BY <1>1 DEF MergedTree
<1>11. Kept
  <2>1. refs.published = None /\ Fresh.result = None BY <1>1 DEF Fresh
  <2>. QED BY <1>5, <1>7, <2>1 DEF Kept
<1>. QED BY <1>6, <1>8, <1>9, <1>10, <1>11 DEF IInv

\* Every step keeps the invariant.
LEMMA Invariance == IInv /\ [Next]_vars => IInv'
<1>. SUFFICES ASSUME IInv, [Next]_vars PROVE IInv' OBVIOUS
<1>1. CASE Publish
  <2>1. CASE \E f \in Files : Write(f) BY <2>1, WriteInv
  <2>2. CASE \E x \in Operands : Merge(x) BY <2>2, ComposeInv
  <2>3. CASE Select BY <2>3, SelectInv
  <2>4. CASE CaptureGit \/ CaptureFiles \/ Verify \/ Lease \/ Refresh \/ Checkout \/ Confirm
    BY <2>4, ForwardInv
  <2>5. CASE SaveEvidence \/ SaveInput \/ SavePrepared \/ SaveApplying \/ Install BY <2>5, RecordInv
  <2>6. CASE Materialize \/ Resolve BY <2>6, ComposeInv
  <2>7. CASE ComposeVirtual \/ Import BY <2>7, ResultInv
  <2>8. CASE Record \/ Unpin BY <2>8, RefsInv
  <2>. QED BY <1>1, <2>1, <2>2, <2>3, <2>4, <2>5, <2>6, <2>7, <2>8, OutsideInv DEF Publish
<1>2. CASE World BY <1>2, EditInv, OutsideInv, RefsInv DEF World
<1>. QED BY <1>1, <1>2, OutsideInv DEF Next

\* Journal, workspace, references and project agree at every step of every
\* attempt, through crashes and retries.
THEOREM InvHolds == Spec => []IInv
  BY InitInv, Invariance, PTL DEF Spec

(* A publication keeps its shape, and the result of an attempt that is not *)
(* recorded as delivered is in the private database whatever is pruned.    *)
THEOREM PublicationIsSafe == Spec => []PublicationSafe
<1>1. IInv => PublicationSafe BY DEF IInv, Kept, PublicationSafe, ResultKept
<1>. QED BY <1>1, InvHolds, PTL

-----------------------------------------------------------------------------
(* The refinement.                                                         *)

(* Only the last attempt can be installed, so the publication is done when *)
(* that one is.                                                            *)
LEMMA DoneIsLast ==
  ASSUME IInv PROVE (\E k \in 1 .. Latest : journal[k].installed) <=> journal[Latest].installed
<1>1. Latest \in 1 .. Latest BY DEF IInv, TypeOK
<1>. QED BY <1>1 DEF IInv, Evidence

(* How a step changes the journal: it records something of the last        *)
(* attempt, or it supersedes an attempt that never began to write.         *)
LEMMA JournalSteps ==
  ASSUME IInv, [Next]_vars, ~UNCHANGED journal
  PROVE  /\ UNCHANGED source
         /\ \/ /\ Select /\ journal' = Append(journal, Fresh)
               /\ ~journal[Latest].applying /\ ~journal[Latest].installed
            \/ /\ SaveEvidence \/ SavePrepared \/ SaveApplying
               /\ Len(journal') = Latest /\ journal'[Latest].installed = journal[Latest].installed
               /\ \A k \in 1 .. Latest : journal'[k].input = journal[k].input
            \/ /\ SaveInput /\ Len(journal') = Latest
               /\ journal[Latest].input = None
               /\ journal'[Latest].installed = journal[Latest].installed
            \/ /\ Install /\ Len(journal') = Latest
               /\ \A k \in 1 .. Latest : journal'[k].input = journal[k].input
               /\ journal'[Latest].installed = TRUE
<1>0. TypeOK /\ Latest \in 1 .. Latest /\ Latest \in Nat /\ Len(journal) = Latest
  BY DEF IInv, TypeOK, Latest
<1>1. journal[Latest] \in Journals BY <1>0 DEF TypeOK, Latest
<1>2. Select \/ SaveEvidence \/ SavePrepared \/ SaveApplying \/ SaveInput \/ Install
  <2>1. CASE \E f \in Files : Write(f) \/ Edit(f) BY <2>1 DEF Write, Edit
  <2>2. CASE \E x \in Operands : Merge(x) BY <2>2 DEF Merge
  <2>3. CASE CaptureGit \/ CaptureFiles \/ Verify \/ Lease \/ Refresh \/ Checkout \/ Confirm
    BY <2>3 DEF CaptureGit, CaptureFiles, Verify, Lease, Refresh, Checkout, Confirm
  <2>4. CASE \/ CaptureFails \/ ResolveFails \/ LeaseFails \/ RefreshFails \/ CheckoutFails
             \/ ConfirmFails
    BY <2>4 DEF CaptureFails, ResolveFails, LeaseFails, RefreshFails, CheckoutFails, ConfirmFails, Fail
  <2>5. CASE Materialize \/ Resolve \/ ComposeVirtual \/ Import
    BY <2>5 DEF Materialize, Resolve, ComposeVirtual, Import
  <2>6. CASE Record \/ Unpin \/ Unlock \/ Prune BY <2>6 DEF Record, Unpin, Unlock, Prune
  <2>7. CASE Crash \/ Recover \/ Retry \/ UserGit \/ ForeignLock \/ ForeignUnlock \/ UNCHANGED vars
    BY <2>7 DEF Crash, Recover, Retry, UserGit, ForeignLock, ForeignUnlock, vars
  <2>. QED BY <2>1, <2>2, <2>3, <2>4, <2>5, <2>6, <2>7 DEF Next, Publish, World
<1>3. CASE Select
  <2>1. Stale(journal[Latest]) /\ journal' = Append(journal, Fresh) /\ UNCHANGED source
    BY <1>3 DEF Select
  <2>2. journal[Latest].applying \/ journal[Latest].installed => journal[Latest].input # None
    BY <1>0 DEF IInv, Evidence
  <2>3. ~journal[Latest].applying /\ ~journal[Latest].installed BY <2>1, <2>2 DEF Stale
  <2>. QED BY <1>3, <2>1, <2>3
<1>4. CASE SaveEvidence
  <2>1. pub.a = Latest /\ UNCHANGED source BY <1>4 DEF SaveEvidence, At, IInv, InStep
  <2>2. journal' = [journal EXCEPT ![Latest] = [@ EXCEPT !.evidence = TRUE, !.git = pub.git]]
    BY <1>0, <1>4, <2>1 DEF SaveEvidence, TypeOK, Latest
  <2>3. Len(journal') = Latest /\ journal'[Latest].installed = journal[Latest].installed
        /\ \A k \in 1 .. Latest : journal'[k].input = journal[k].input
    BY <1>0, <1>1, <2>2 DEF TypeOK, Journals
  <2>. QED BY <1>4, <2>1, <2>3
<1>5. CASE SavePrepared
  <2>1. pub.a = Latest /\ UNCHANGED source BY <1>5 DEF SavePrepared, At, IInv, InStep
  <2>2. journal' = [journal EXCEPT ![Latest] = [@ EXCEPT !.result = pub.live]]
    BY <1>0, <1>5, <2>1 DEF SavePrepared, TypeOK, Latest
  <2>3. Len(journal') = Latest /\ journal'[Latest].installed = journal[Latest].installed
        /\ \A k \in 1 .. Latest : journal'[k].input = journal[k].input
    BY <1>0, <1>1, <2>2 DEF TypeOK, Journals
  <2>. QED BY <1>5, <2>1, <2>3
<1>6. CASE SaveApplying
  <2>1. pub.a = Latest /\ UNCHANGED source BY <1>6 DEF SaveApplying, At, IInv, InStep, Leased
  <2>2. journal' = [journal EXCEPT ![Latest] = [@ EXCEPT !.applying = TRUE]]
    BY <1>0, <1>6, <2>1 DEF SaveApplying, TypeOK, Latest
  <2>3. Len(journal') = Latest /\ journal'[Latest].installed = journal[Latest].installed
        /\ \A k \in 1 .. Latest : journal'[k].input = journal[k].input
    BY <1>0, <1>1, <2>2 DEF TypeOK, Journals
  <2>. QED BY <1>6, <2>1, <2>3
<1>7. CASE SaveInput
  <2>1. pub.a = Latest /\ journal[Latest].input = None /\ UNCHANGED source
    BY <1>7 DEF SaveInput, At, IInv, InStep
  <2>2. journal' = [journal EXCEPT ![Latest] = [@ EXCEPT !.input = pub.live]]
    BY <1>0, <1>7, <2>1 DEF SaveInput, TypeOK, Latest
  <2>3. Len(journal') = Latest /\ journal'[Latest].installed = journal[Latest].installed
    BY <1>0, <1>1, <2>2 DEF TypeOK, Journals
  <2>. QED BY <1>7, <2>1, <2>3
<1>8. CASE Install
  <2>1. pub.a = Latest /\ UNCHANGED source BY <1>8 DEF Install, At, IInv, InStep, Leased
  <2>2. journal' = [journal EXCEPT ![Latest] = [@ EXCEPT !.installed = TRUE]]
    BY <1>0, <1>8, <2>1 DEF Install, TypeOK, Latest
  <2>3. Len(journal') = Latest /\ journal'[Latest].installed = TRUE
        /\ \A k \in 1 .. Latest : journal'[k].input = journal[k].input
    BY <1>0, <1>1, <2>2 DEF TypeOK, Journals
  <2>. QED BY <1>8, <2>1, <2>3
<1>. QED BY <1>2, <1>3, <1>4, <1>5, <1>6, <1>7, <1>8

(* Every step delivers a file, is an edit of the owner, finishes, or is    *)
(* not seen by the owner.                                                  *)
LEMMA StepDelivers ==
  ASSUME IInv, IInv', [Next]_vars
  PROVE  [D!Next]_(D!vars)
<1>. DEFINE done == \E k \in 1 .. Latest : journal[k].installed
<1>1. (done <=> journal[Latest].installed) /\ (done' <=> (journal[Latest].installed)')
  <2>1. done <=> journal[Latest].installed BY DoneIsLast
  <2>2. Latest' \in 1 .. Latest' BY DEF IInv, TypeOK
  <2>3. done' <=> (journal[Latest].installed)' BY <2>2 DEF IInv, Evidence
  <2>. QED BY <2>1, <2>3
<1>2. ASSUME UNCHANGED source, done' <=> done PROVE [D!Next]_(D!vars)
  BY <1>2 DEF D!vars
<1>3. CASE \E f \in Files : Write(f)
  <2>1. PICK f \in Files : Write(f) BY <1>3
  <2>2. source' = [source EXCEPT ![f] = @ \cup Given[f]] /\ ~journal[Latest].installed
    BY <2>1, WriteAdds
  <2>3. UNCHANGED journal BY <2>1 DEF Write
  <2>4. done' <=> done BY <2>3 DEF Latest
  <2>5. D!Deliver(f) BY <1>1, <2>2, <2>4 DEF D!Deliver
  <2>. QED BY <2>5 DEF D!Next
<1>4. CASE \E f \in Files : Edit(f)
  <2>1. PICK f \in Files : Edit(f) BY <1>4
  <2>2. /\ source' = [source EXCEPT ![f] = @ \cup {<<"edit", env.edits>>}] /\ env.edits > 0
        /\ UNCHANGED journal
    BY <2>1 DEF Edit
  <2>3. <<"edit", env.edits>> \in EditTags BY <2>2 DEF IInv, TypeOK
  <2>4. done' <=> done BY <2>2 DEF Latest
  <2>5. D!Edit(f, <<"edit", env.edits>>) BY <2>2, <2>4 DEF D!Edit
  <2>. QED BY <2>3, <2>5 DEF D!Next
<1>5. CASE UNCHANGED journal /\ ~(\E f \in Files : Write(f) \/ Edit(f))
  <2>1. UNCHANGED source
    <3>1. CASE Select \/ SaveEvidence \/ SavePrepared \/ SaveApplying \/ SaveInput \/ Install
      BY <3>1 DEF Select, SaveEvidence, SavePrepared, SaveApplying, SaveInput, Install
    <3>2. CASE \E x \in Operands : Merge(x) BY <3>2 DEF Merge
    <3>3. CASE CaptureGit \/ CaptureFiles \/ Verify \/ Lease \/ Refresh \/ Checkout \/ Confirm
      BY <3>3 DEF CaptureGit, CaptureFiles, Verify, Lease, Refresh, Checkout, Confirm
    <3>4. CASE \/ CaptureFails \/ ResolveFails \/ LeaseFails \/ RefreshFails \/ CheckoutFails
               \/ ConfirmFails
      BY <3>4 DEF CaptureFails, ResolveFails, LeaseFails, RefreshFails, CheckoutFails, ConfirmFails, Fail
    <3>5. CASE Materialize \/ Resolve \/ ComposeVirtual \/ Import
      BY <3>5 DEF Materialize, Resolve, ComposeVirtual, Import
    <3>6. CASE Record \/ Unpin \/ Unlock \/ Prune BY <3>6 DEF Record, Unpin, Unlock, Prune
    <3>7. CASE Crash \/ Recover \/ Retry \/ UserGit \/ ForeignLock \/ ForeignUnlock \/ UNCHANGED vars
      BY <3>7 DEF Crash, Recover, Retry, UserGit, ForeignLock, ForeignUnlock, vars
    <3>. QED BY <1>5, <3>1, <3>2, <3>3, <3>4, <3>5, <3>6, <3>7 DEF Next, Publish, World
  <2>2. done' <=> done BY <1>5 DEF Latest
  <2>. QED BY <1>2, <2>1, <2>2
<1>6. CASE ~UNCHANGED journal
  <2>1. UNCHANGED source BY <1>6, JournalSteps
  <2>2. CASE Select /\ journal' = Append(journal, Fresh) /\ ~journal[Latest].installed
    <3>1. Latest' = Latest + 1 /\ journal'[Latest + 1] = Fresh
      BY <2>2, FreshRecord, JournalAppend DEF IInv, TypeOK, Latest
    <3>2. ~(journal[Latest].installed)' BY <3>1 DEF Fresh
    <3>. QED BY <1>1, <1>2, <2>1, <2>2, <3>2
  <2>3. CASE Len(journal') = Latest /\ journal'[Latest].installed = journal[Latest].installed
    <3>1. (journal[Latest].installed)' = journal[Latest].installed BY <2>3 DEF Latest
    <3>. QED BY <1>1, <1>2, <2>1, <3>1
  <2>4. CASE Install /\ Len(journal') = Latest /\ journal'[Latest].installed = TRUE
    <3>1. (journal[Latest].installed)' = TRUE BY <2>4 DEF Latest
    <3>2. Below(Given, source) BY <2>4 DEF Install, At, IInv, Writes
    <3>3. D!Finish BY <1>1, <2>1, <3>1, <3>2 DEF D!Finish, Below
    <3>. QED BY <3>3 DEF D!Next
  <2>. QED BY <1>6, <2>2, <2>3, <2>4, JournalSteps
<1>. QED BY <1>3, <1>4, <1>5, <1>6

(* Publication implements Delivery: the project's files only gain the      *)
(* changes of their owner and of the Run, none is lost, and the Run is     *)
(* recorded as delivered only when every file has all of its changes.      *)
THEOREM PublicationDelivers == Spec => ImplementsDelivery
<1>1. Init => D!Init
  <2>. SUFFICES ASSUME Init PROVE D!Init OBVIOUS
  <2>1. journal = <<Fresh>> /\ source = Empty BY DEF Init
  <2>2. Latest = 1 /\ journal[1] = Fresh BY <2>1 DEF Latest
  <2>3. ~(\E k \in 1 .. Latest : journal[k].installed) BY <2>2 DEF Fresh
  <2>. QED BY <2>1, <2>3 DEF D!Init, Empty
<1>2. IInv /\ IInv' /\ [Next]_vars => [D!Next]_(D!vars) BY StepDelivers
<1>. QED BY <1>1, <1>2, InvHolds, PTL DEF Spec, ImplementsDelivery, D!Spec

-----------------------------------------------------------------------------
(* A checkout that began is finished by the attempt that began it: it is   *)
(* neither superseded nor is its input recorded again.                     *)
THEOREM FinishesWhatItBegan == Spec => FinishesOriginal
<1>. DEFINE Same == /\ Len(journal') = Len(journal)
                    /\ \A k \in 1 .. Latest : journal'[k].input = journal[k].input
<1>1. ASSUME IInv, [Next]_vars PROVE [Begun => Same]_vars
  <2>. SUFFICES ASSUME Begun PROVE Same OBVIOUS
  <2>1. journal[Latest].applying /\ journal[Latest].input # None
    BY <1>1 DEF Begun, IInv, Evidence
  <2>2. CASE UNCHANGED journal BY <2>2
  <2>3. CASE ~UNCHANGED journal BY <1>1, <2>1, <2>3, JournalSteps DEF Latest
  <2>. QED BY <2>2, <2>3
<1>2. IInv /\ [Next]_vars => [Begun => Same]_vars BY <1>1
<1>. QED BY <1>2, InvHolds, PTL DEF Spec, FinishesOriginal
=============================================================================
