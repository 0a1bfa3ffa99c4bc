------------------------ MODULE MCLaunchCoordinator ------------------------
(* Model-checking instance of LaunchCoordinator. *)
EXTENDS LaunchCoordinator

CONSTANTS c1, c2, c3, c4, k1, k2, v1, v2

\* Three calls for one key, in two servers, of which c3 is a different request,
\* and a call for another key.
KeyOf == [c \in {c1, c2, c3, c4} |-> IF c = c4 THEN k2 ELSE k1]
RequestOf == [c \in {c1, c2, c3, c4} |-> IF c = c2 THEN c1 ELSE c]
ServerOf == [c \in {c1, c2, c3, c4} |-> IF c \in {c1, c4} THEN v1 ELSE v2]
=============================================================================
