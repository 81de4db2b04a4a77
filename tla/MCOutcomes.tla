------------------------------ MODULE MCOutcomes ------------------------------
(***************************************************************************)
(* What comes out of a Run's attempts, checked part by part: the launch of *)
(* published results (Results), the directories the attempts work in       *)
(* (Slots), the conversations the user edits (HistoryEdit) and the graph   *)
(* that is revised under them (Revision).  The parts share no state, so a  *)
(* behaviour exercises one of them and the others stay as they start.      *)
(***************************************************************************)
EXTENDS Results, Slots, HistoryEdit, Revision

VARIABLE part

vars == <<part, resultVars, slotVars, historyVars, revisionVars>>

(* Results: entries, device use, launches per Run, faults and races.       *)
Story(entries, device, x, y, can) ==
    [entries |-> entries, device |-> device, launches |-> ("ra" :> x @@ "rb" :> y), can |-> can]
One == <<"app">>
Two == <<"app", "job">>
MCStories ==
    {Story(One, FALSE, 2, 0, {"cancel", "fail", "edit"}),
     Story(One, FALSE, 3, 0, {"cancel", "remove"}),
     Story(One, FALSE, 2, 0, {"cancel", "crash", "pause"}),
     Story(Two, FALSE, 2, 0, {"cancel", "remove"}),
     Story(Two, FALSE, 2, 0, {"edit", "crash"}),
     Story(One, FALSE, 2, 0, {"upgrade", "remove"}),
     Story(One, FALSE, 2, 0, {"remove", "edit"}),
     Story(One, TRUE, 1, 1, {"cancel"}),
     Story(One, TRUE, 1, 1, {"crash"})}

(* Slots: graph, attempts, managed or not, failures, messages, Planner     *)
(* turns, faults and races.                                                *)
Tale(edges, size, managed, fails, msgs, plans, can) ==
    [edges |-> edges, execs |-> size, managed |-> managed, fails |-> fails, msgs |-> msgs,
     turns |-> plans, can |-> can]
Line == {<<"a", "b">>, <<"b", "c">>}
Fork == {<<"a", "b">>, <<"a", "c">>}
Join == {<<"a", "c">>, <<"b", "c">>}
MCTales ==
    {Tale(Join, 4, TRUE, 1, 1, 0, {"conflict", "resolve"}),
     Tale(Join, 5, FALSE, 1, 0, 0, {"conflict", "resolve"}),
     Tale(Line, 5, TRUE, 1, 2, 0, {}),
     Tale(Line, 4, TRUE, 1, 0, 1, {"move"}),
     Tale(Line, 4, TRUE, 0, 1, 1, {"crash"}),
     Tale(Fork, 4, TRUE, 0, 0, 1, {"move"}),
     Tale(Fork, 4, FALSE, 1, 1, 0, {}),
     Tale(Fork, 4, TRUE, 1, 0, 0, {"commit"}),
     Tale(Line, 3, TRUE, 0, 0, 1, {"commit"})}

(* HistoryEdit: whose conversation, what is written, how rows are stamped, *)
(* bounds on attempts, steers, messages and edits, faults and races.       *)
Play(role, words, stamps, starts, steers, msgs, edits, can) ==
    [role |-> role, words |-> words, stamps |-> stamps, starts |-> starts, steers |-> steers,
     msgs |-> msgs, edits |-> edits, can |-> can]
MCEpisodes ==
    {Play("node", {"m1"}, "none", 3, 1, 1, 2, {}),
     Play("node", {"m1"}, "same", 3, 2, 0, 2, {}),
     Play("node", {"m2"}, "exact", 4, 0, 1, 2, {"startup"}),
     Play("node", {"m2"}, "exact", 3, 1, 0, 2, {"tear"}),
     Play("node", {"m2"}, "exact", 3, 1, 1, 1, {"crash"}),
     Play("node", {"m2"}, "exact", 3, 1, 0, 2, {"emit"}),
     Play("node", {"m2"}, "exact", 4, 0, 1, 2, {"move"}),
     Play("node", {"m2"}, "exact", 3, 0, 1, 2, {"publish"}),
     Play("node", {"m2"}, "exact", 3, 0, 1, 1, {"publish", "startup"}),
     Play("node", {"m2"}, "exact", 3, 1, 0, 2, {"restart"}),
     Play("node", {"m1"}, "exact", 3, 1, 0, 2, {"version"}),
     Play("node", {"m2"}, "exact", 3, 0, 1, 1, {"model", "fail"}),
     Play("planner", {"m1", "m2"}, "exact", 4, 0, 0, 3, {"emit", "crash"}),
     Play("planner", {"m1", "m2"}, "exact", 4, 0, 0, 3, {"version"})}

(* Revision: the first graph, those a draft or a revision may bring, the   *)
(* names a form may add, bounds on attempts, Planner turns, forms and      *)
(* failures, and what else may happen.                                     *)
Net(task, deps, reviews) == [task |-> task, deps |-> deps, reviews |-> reviews]
Pair == "a" :> "a" @@ "b" :> "b"
Triple == Pair @@ "c" :> "c"
Ab == Net(Pair, {<<"a", "b">>}, {})
AbNewTask == Net([Pair EXCEPT !["a"] = "a2"], {<<"a", "b">>}, {})
AbReviewed == Net(Pair, {<<"a", "b">>}, {<<"b", "a">>})
OnlyB == Net("b" :> "b", {}, {})
AbcLine == Net(Triple, Line, {})
AbcFork == Net(Triple, Fork, {})
Occasion(first, drafts, added, starts, plans, forms, fails, can) ==
    [graph |-> first, drafts |-> drafts, added |-> added, starts |-> starts, turns |-> plans,
     forms |-> forms, fails |-> fails, can |-> can]
MCOccasions ==
    {Occasion(Ab, {AbNewTask, OnlyB}, {}, 4, 2, 0, 1, {"pause"}),
     Occasion(Ab, {AbNewTask, AbReviewed, AbcLine}, {}, 4, 2, 0, 0, {"review", "auto"}),
     Occasion(AbcLine, {AbcFork, OnlyB}, {}, 4, 1, 0, 1, {"auto", "stop"}),
     Occasion(Ab, {}, {"d"}, 4, 0, 1, 1, {"pause", "spoil"}),
     Occasion(AbcLine, {AbNewTask}, {"d"}, 5, 1, 1, 0, {}),
     Occasion(Ab, {AbNewTask}, {"d"}, 3, 1, 1, 0, {"save", "reject"}),
     Occasion(AbcFork, {AbcLine, AbNewTask}, {}, 5, 2, 0, 1, {"auto", "pause"}),
     Occasion(Ab, {AbcLine}, {"d"}, 4, 2, 1, 0, {"review", "spoil"})}

Init ==
    /\ part \in {"results", "slots", "history", "revision"}
    /\ story \in IF part = "results" THEN Stories ELSE {CHOOSE s \in Stories : TRUE}
    /\ tale \in IF part = "slots" THEN Tales ELSE {CHOOSE t \in Tales : TRUE}
    /\ episode \in IF part = "history" THEN Episodes ELSE {CHOOSE e \in Episodes : TRUE}
    /\ occasion \in IF part = "revision" THEN Occasions ELSE {CHOOSE o \in Occasions : TRUE}
    /\ ResultsInit /\ SlotsInit /\ HistoryInit /\ RevisionInit

Next ==
    /\ \/ part = "results" /\ ResultsNext /\ UNCHANGED <<slotVars, historyVars, revisionVars>>
       \/ part = "slots" /\ SlotsNext /\ UNCHANGED <<resultVars, historyVars, revisionVars>>
       \/ part = "history" /\ HistoryNext /\ UNCHANGED <<resultVars, slotVars, revisionVars>>
       \/ part = "revision" /\ RevisionNext /\ UNCHANGED <<resultVars, slotVars, historyVars>>
    /\ UNCHANGED part

(* The thread that performs a result execution runs on, and a cancel       *)
(* request that set its flag goes on to the kill.                          *)
Performing(A) == part = "results" /\ A /\ UNCHANGED <<part, slotVars, historyVars, revisionVars>>
Spec ==
    /\ Init /\ [][Next]_vars
    /\ \A r \in Runs : WF_vars(Performing(WriterStep(r))) /\ WF_vars(Performing(terminate_owner(r)))
=============================================================================
