--------------------------- MODULE MCLocalAdapter ---------------------------
(* Model-checking instances of LocalAdapter. *)
EXTENDS LocalAdapter

CONSTANTS c1, c2, c3, k1, k2, p1, p2

\* c1 and c2 launch one key in two processes, c3 another key.
KeyOf == [c \in {c1, c2, c3} |-> IF c = c3 THEN k2 ELSE k1]
ProcessOf == [c \in {c1, c2, c3} |-> IF c = c2 THEN p2 ELSE p1]
=============================================================================
