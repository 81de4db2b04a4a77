---------------------------- MODULE MCEngineTurn ----------------------------
(* Bounds of the runs of module EngineTurn: two calls with one identity and *)
(* one with another, see the .cfg files.                                    *)
EXTENDS EngineTurn

MCOf == [c \in Calls |-> IF c = "c3" THEN "r2" ELSE "r1"]
============================================================================
