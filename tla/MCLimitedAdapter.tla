-------------------------- MODULE MCLimitedAdapter --------------------------
(* Model-checking instance of LimitedAdapter. *)
EXTENDS LimitedAdapter

\* The keys of a scope, one policy limit for each.
Keys == {"global", "host", "project", "agent", "workspace"}

\* All keys share every scope, the workspace included.
ScopeOf == [k \in Requests |-> [key \in Keys |-> "shared"]]

\* One permit for the workspace, two in all; with and without pressure hooks.
PolicySet ==
    [limit: {[key \in Keys |-> IF key = "workspace" THEN 1 ELSE 2]},
     maxQueued: {2}, overload: {"queue"}, hooks: BOOLEAN]
=============================================================================
