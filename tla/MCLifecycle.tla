---------------------------- MODULE MCLifecycle ----------------------------
(* Model-checking instances of Lifecycle. *)
EXTENDS Lifecycle, TLC

CONSTANTS v1, v2, c1, c2

\* Two calls of one server.
OneServer == [c \in {c1, c2} |-> v1]

\* Two servers with one call each.
TwoServers == [c \in {c1, c2} |-> IF c = c1 THEN v1 ELSE v2]

\* The calls of one server are interchangeable.
CallSymmetry == Permutations(Calls)
=============================================================================
