---------------------------- MODULE SingleWriter ----------------------------
(***************************************************************************)
(* What the lease registry promises for one workspace, whatever locks,     *)
(* crashes and clocks do: one writer at a time, retired only when its      *)
(* process is gone, and a generation that only grows.                      *)
(***************************************************************************)
EXTENDS Naturals

CONSTANTS Leases, NoLease

VARIABLES writer,      \* the lease that has the workspace, or NoLease
          generation,  \* the highest generation ever given out
          running      \* the recorded writers whose process runs

vars == <<writer, generation, running>>

Init == writer = NoLease /\ generation = 0 /\ running = {}

Admit(l) ==
    /\ writer = NoLease
    /\ writer' = l /\ generation' = generation + 1
    /\ UNCHANGED running

Start ==
    /\ writer # NoLease
    /\ running' = running \cup {writer}
    /\ UNCHANGED <<writer, generation>>

Exit(l) == running' = running \ {l} /\ UNCHANGED <<writer, generation>>

Retire ==
    /\ writer \notin running
    /\ writer' = NoLease
    /\ UNCHANGED <<generation, running>>

\* A rollback to a schema without leases forgets them, never the generation.
Forget == writer' = NoLease /\ running' = {} /\ UNCHANGED generation

Next == (\E l \in Leases : Admit(l) \/ Exit(l)) \/ Start \/ Retire \/ Forget

Spec == Init /\ [][Next]_vars
=============================================================================
