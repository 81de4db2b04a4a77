------------------------------ MODULE Delivery ------------------------------
(***************************************************************************)
(* What the publication of a Run promises to the owner of the project,     *)
(* without the private repository, the journal and the retries that        *)
(* implement it (module Publication).  The project's files change in two   *)
(* ways only: their owner edits one, or the publication adds to one the    *)
(* changes of the Run and keeps everything that is in it.  A publication   *)
(* is done only when every file has the Run's changes.                     *)
(*                                                                         *)
(* The content of a file is the set of the changes made to it.             *)
(***************************************************************************)
CONSTANTS
    Files,  \* the paths of the project
    Edits,  \* the edits the owner may make
    Given   \* per file, the changes the Run delivers

VARIABLES
    source, \* per file, the changes it holds
    done    \* is the publication recorded as installed

vars == <<source, done>>

Init == source = [f \in Files |-> {}] /\ done = FALSE

Edit(f, e) ==
    /\ source' = [source EXCEPT ![f] = @ \cup {e}]
    /\ UNCHANGED done

Deliver(f) ==
    /\ ~done
    /\ source' = [source EXCEPT ![f] = @ \cup Given[f]]
    /\ UNCHANGED done

Finish ==
    /\ \A f \in Files : Given[f] \subseteq source[f]
    /\ done' = TRUE
    /\ UNCHANGED source

Next == \/ \E f \in Files, e \in Edits : Edit(f, e)
        \/ \E f \in Files : Deliver(f)
        \/ Finish

Spec == Init /\ [][Next]_vars
============================================================================
