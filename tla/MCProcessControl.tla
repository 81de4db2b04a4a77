-------------------------- MODULE MCProcessControl --------------------------
(* The scenarios of the process control run: a Graph Run with two nodes,   *)
(* and a Serial Run with its one conversation.                             *)
EXTENDS ProcessControl

MCScenarios ==
    {[nodes |-> {"left", "right"}, serial |-> FALSE, can |-> {"stop", "run"}, left |-> 2],
     [nodes |-> {"left"}, serial |-> TRUE, can |-> {"stop", "edit", "run"}, left |-> 2]}
=============================================================================
