----------------------------- MODULE MCRuntime -----------------------------
(* Small graphs for the Runtime runs.                                      *)
EXTENDS Runtime

CONSTANTS a, b, r, s, t

(* A worker a, its reviewer r with a consumer t, and another consumer b of *)
(* a that may still run when the verdict of r arrives.                     *)
ReviewNodes == {a, b, r, t}
ReviewDeps == {<<a, r>>, <<a, b>>, <<r, t>>}
ReviewFeedback == {<<r, a>>}

(* Two reviewers of the same worker: their verdicts form a batch.          *)
BatchNodes == {a, r, s, t}
BatchDeps == {<<a, r>>, <<a, s>>, <<r, t>>, <<s, t>>}
BatchFeedback == {<<r, a>>, <<s, a>>}

(* A composition t of two roots.                                           *)
JoinNodes == {a, b, t}
JoinDeps == {<<a, t>>, <<b, t>>}

(* A chain from a over b to t.  Each of a and b has another consumer, so   *)
(* no workspace is handed down the chain.                                  *)
RerunNodes == {a, b, r, s, t}
RerunDeps == {<<a, b>>, <<a, s>>, <<b, t>>, <<b, r>>}
=============================================================================
