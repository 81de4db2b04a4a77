----------------------------- MODULE MCPrewarm -----------------------------
(* Instances of the pool of prestarted processes: two selections, and two *)
(* contents of the session file, so that a conversation's worker may be   *)
(* ready under another key than the one it was requested with.             *)
EXTENDS Prewarm

Contents == {0, 1}
============================================================================
