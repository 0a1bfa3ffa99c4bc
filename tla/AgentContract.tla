--------------------------- MODULE AgentContract ---------------------------
(***************************************************************************)
(* What AgentAdapter (src/src/agent-adapter.ts) promises of launch:             *)
(* "Atomically returns the existing run or creates one".  A key has at most*)
(* one run, whichever call, process or retry started it, and a call that   *)
(* returns a run returns that one.  Calls may fail, before or after a run  *)
(* was started.                                                            *)
(***************************************************************************)
CONSTANTS Calls,  \* launch calls
          Keys,   \* idempotency keys
          Key,    \* the key of each call
          NoRun

VARIABLES runs,    \* the runs that were started, each named after its call
          answer   \* what each call returned

Init == runs = {} /\ answer = [c \in Calls |-> NoRun]

\* The backend starts the run of a key.
Start(c) ==
    /\ \A d \in runs : Key[d] # Key[c]
    /\ runs' = runs \cup {c}
    /\ UNCHANGED answer

\* A call returns the run of its key.
Return(c, r) ==
    /\ answer[c] = NoRun /\ r \in runs /\ Key[r] = Key[c]
    /\ answer' = [answer EXCEPT ![c] = r]
    /\ UNCHANGED runs

Next == \E c \in Calls : Start(c) \/ \E r \in Calls : Return(c, r)

Spec == Init /\ [][Next]_<<runs, answer>>
=============================================================================
