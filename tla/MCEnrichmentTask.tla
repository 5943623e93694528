--------------------------- MODULE MCEnrichmentTask ---------------------------
(* Two roots, enriched by two tasks: a user seeds up to two subtasks while   *)
(* another cancels; three subtasks in all, so that a seed can have a child.  *)
EXTENDS EnrichmentTask

CONSTANTS r1, r2, u1, u2, w1

MCRoots == {r1, r2}
MCTasks == 1..2
MCSubtasks == 1..3
MCUsers == {u1, u2}
MCWaiters == {w1}
=============================================================================
