------------------------------ MODULE MCLaunch ------------------------------
(* Model-checking instances of Launch. *)
EXTENDS Launch, TLC

\* Sessions are interchangeable, and so are servers.
Symmetry == Permutations(Sessions) \cup Permutations(Servers)
=============================================================================
