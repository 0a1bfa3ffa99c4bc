-------------------------- MODULE SessionContract --------------------------
(***************************************************************************)
(* What the orchestrator promises of a durable session, whatever the order *)
(* of the calls that reach the store: a session is open, may be stopping   *)
(* (and may return to open when the provider rejects the stop), and ends   *)
(* once, with an outcome that never changes afterwards; it is bound to at  *)
(* most one provider run, possibly after it has ended.                     *)
(***************************************************************************)
CONSTANTS Sessions, Runs, NoRun, Outcomes, NoOutcome

VARIABLE session

Phases == {"open", "stopping", "ended"}
SessionState == [phase: Phases, outcome: Outcomes \cup {NoOutcome}, run: Runs \cup {NoRun}]

\* Binding an unbound session to a run.
Bind(a, b) == a.run = NoRun /\ b.run \in Runs /\ b.phase = a.phase /\ b.outcome = a.outcome

\* A stop is requested, or withdrawn.
Stop(a, b) ==
    /\ {a.phase, b.phase} = {"open", "stopping"}
    /\ b.run = a.run /\ b.outcome = a.outcome

\* The session ends, once.
End(a, b) ==
    /\ a.phase # "ended" /\ b.phase = "ended"
    /\ b.outcome \in Outcomes /\ b.run = a.run

Init == session = [s \in Sessions |-> [phase |-> "open", outcome |-> NoOutcome, run |-> NoRun]]

\* One store operation may advance several sessions (startup recovery does).
Next ==
    /\ session' \in [Sessions -> SessionState]
    /\ \A s \in Sessions :
          LET a == session[s]
              b == session'[s]
          IN  a = b \/ Bind(a, b) \/ Stop(a, b) \/ End(a, b)

Spec == Init /\ [][Next]_session
=============================================================================
