---------------------------- MODULE MCScheduler ----------------------------
(* Model-checking instance of Scheduler. *)
EXTENDS Scheduler

CONSTANTS a1, a2, b, c, d, e

\* a1 and a2 are two requests with one admission ID.
IdOf == [r \in {a1, a2, b, c, d, e} |-> IF r = a2 THEN a1 ELSE r]

\* b and the recovered run e share a workspace, and so do c and d.
ScopeOf ==
    [r \in {a1, a2, b, c, d, e} |->
        [key \in ScopeKeys |-> IF key # "workspace" \/ r = e THEN b ELSE IF r = d THEN c ELSE r]]

\* Two permits, one for each workspace; with and without pressure hooks, a
\* queue of three, a queue of one, and no waiting at all.
PolicySet ==
    [limit: {[key \in ScopeKeys |-> IF key = "workspace" THEN 1 ELSE 2]},
     maxQueued: {0, 1, 3}, overload: {"queue", "reject"}, hooks: BOOLEAN]
=============================================================================
