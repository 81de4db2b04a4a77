------------------------------ MODULE MCDriver ------------------------------
(* The scenarios of the driver run: requests and Planner turns, every      *)
(* request with failing threads, workers and publications, and a store     *)
(* that refuses writes.                                                    *)
EXTENDS Driver

CONSTANTS a, b, d1, d2, u1, u2

MCScenarios ==
    {[left |-> 2, can |-> {"intervene", "pause", "resume", "turn", "review"}],
     [left |-> 2, can |-> {"intervene", "resume", "retry_publication",
                           "thread", "worker", "publication"}],
     [left |-> 2, can |-> {"pause", "resume", "storage"}]}
=============================================================================
