--------------------------- MODULE MCPublication ----------------------------
(* Two results that change a file each, and so conflict only with edits;    *)
(* an owner who never stops, and one who waits for deliveries.              *)
EXTENDS Publication

TwoResults == [h \in Heads |-> [f \in Files |->
                  IF f = "f1" <=> h = 1 THEN {<<"head", h>>} ELSE {}]]

MCScenarios ==
    {[until |-> "always", edits |-> 2, gits |-> 0, crashes |-> 2, gcs |-> 1, foreign |-> 0],
     [until |-> "before", edits |-> 1, gits |-> 1, crashes |-> 2, gcs |-> 0, foreign |-> 1]}
============================================================================
