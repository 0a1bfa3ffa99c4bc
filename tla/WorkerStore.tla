---------------------------- MODULE WorkerStore ----------------------------
(***************************************************************************)
(* DurableStore's session API as a state machine: every method that changes*)
(* a session record, called by anyone in any order.  The services above    *)
(* the store (lifecycle, launch, result capture) are clients of this API;  *)
(* what holds here holds whatever they do and however they interleave.     *)
(***************************************************************************)
EXTENDS WorkerRecord

CONSTANTS Sessions,
          MaxTime      \* bound on the clock

ASSUME TimeAssumption == MaxTime \in Nat

VARIABLES worker,      \* the durable session records
          launch,      \* status of each session's assignment; None for a session of createBatch
          captured,    \* the claim stored by captureResult
          clock        \* wall clock

vars == <<worker, launch, captured, clock>>

TypeOK ==
    /\ worker \in [Sessions -> Worker]
    /\ launch \in [Sessions -> AssignmentStatuses]
    /\ captured \in [Sessions -> Claims \cup {None}]
    /\ clock \in 0..MaxTime

Init ==
    /\ worker = [s \in Sessions |-> NewWorker]
    /\ launch \in [Sessions -> {None, "accepted"}]
    /\ captured = [s \in Sessions |-> None]
    /\ clock \in 0..MaxTime

\* persist writes a record only if it passes the schema check; otherwise the
\* call throws and the file keeps the old record.
Persist(s, w) == Storable(w) /\ worker' = [worker EXCEPT ![s] = w]

-----------------------------------------------------------------------------
Tick == clock < MaxTime /\ clock' = clock + 1 /\ UNCHANGED <<worker, launch, captured>>

BindRun(s, run, evidence) ==
    /\ canBindWorkerRun(worker[s], run)
    /\ Persist(s, bindWorkerRun(worker[s], run, evidence))
    /\ UNCHANGED <<launch, captured, clock>>

SetDeadline(s, instant) ==
    /\ ~isTerminal(worker[s])
    /\ Persist(s, setWorkerDeadline(worker[s], instant))
    /\ UNCHANGED <<launch, captured, clock>>

RequestCancellation(s, reason) ==
    /\ Persist(s, requestWorkerCancellation(worker[s], reason, launch[s]))
    /\ UNCHANGED <<launch, captured, clock>>

ClaimCancellation(s) ==
    /\ canClaimCancellationDelivery(worker[s])
    /\ Persist(s, claimCancellationDelivery(worker[s]))
    /\ UNCHANGED <<launch, captured, clock>>

ClaimStop(s) ==
    /\ canClaimProviderStop(worker[s])
    /\ Persist(s, claimProviderStop(worker[s]))
    /\ UNCHANGED <<launch, captured, clock>>

\* The answers of the provider, and the release of a claim.
Deliver(s) ==
    /\ \/ Persist(s, releaseCancellationDelivery(worker[s]))
       \/ Persist(s, markCancellationDelivered(worker[s]))
       \/ Persist(s, handleUnsupportedCancellation(worker[s]))
       \/ Persist(s, clearWorkerCancellation(worker[s]))
       \/ Persist(s, releaseProviderStop(worker[s]))
       \/ Persist(s, markProviderStopDelivered(worker[s]))
       \/ Persist(s, markProviderStopUnsupported(worker[s]))
    /\ UNCHANGED <<launch, captured, clock>>

\* The two methods that end a session on an observation: the options are
\* independent of each other, and validateStopReason has accepted the reason.
Settle(s, status) ==
    /\ \E reason \in StopReasonsByStatus(status) \cup {None}, result \in {None, "full", "partial"},
          keep \in BOOLEAN :
          Persist(s, settleWorkerCancellation(worker[s], status, reason, result, keep))
    /\ UNCHANGED <<launch, captured, clock>>

RecordTerminal(s, status) ==
    /\ \/ \E reason \in StopReasonsByStatus(status) \cup {None}, result \in {None, "full"} :
             Persist(s, recordWorkerTerminal(worker[s], status, reason, result))
       \/ status \in {"succeeded", "failed"} /\ Persist(s, recordWorkerResult(worker[s], status))
    /\ UNCHANGED <<launch, captured, clock>>

\* expireWorker may set a deadline in the same transaction, and sets it even
\* on a session that has ended.
Expire(s) ==
    /\ \E instant \in {worker[s].deadline} \cup 1..MaxTime :
          Persist(s, expireWorker(setWorkerDeadline(worker[s], instant), clock, launch[s]))
    /\ UNCHANGED <<launch, captured, clock>>

\* The first result of an attempt is kept: a repeated delivery changes nothing
\* and a different one is refused.
Capture(s, claim) ==
    /\ launch[s] = "launched" /\ captured[s] = None
    /\ Persist(s, captureResult(worker[s], claim))
    /\ captured' = [captured EXCEPT ![s] = claim]
    /\ UNCHANGED <<launch, clock>>

\* recordLaunchEvent: a session that ended before dispatch never launches.
RecordLaunching(s) ==
    /\ \/ isTerminal(worker[s]) /\ launch[s] # None /\ launch' = [launch EXCEPT ![s] = "failed"]
       \/ ~isTerminal(worker[s]) /\ launch[s] = "accepted" /\ launch' = [launch EXCEPT ![s] = "launching"]
    /\ UNCHANGED <<worker, captured, clock>>

RecordLaunched(s, run) ==
    /\ launch[s] = "launching" /\ worker[s].runId \in {NoRun, run}
    /\ Persist(s, recordLaunched(worker[s], run))
    /\ launch' = [launch EXCEPT ![s] = "launched"]
    /\ UNCHANGED <<captured, clock>>

RecordLaunchFailed(s) ==
    /\ launch[s] \in {"accepted", "launching"}
    /\ Persist(s, recordLaunchFailed(worker[s]))
    /\ launch' = [launch EXCEPT ![s] = "failed"]
    /\ UNCHANGED <<captured, clock>>

\* Startup and the periodic reconcile visit every record in one transaction.
RecoverClaims ==
    /\ worker' = [s \in Sessions |-> recoverLifecycleDeliveryClaims(worker[s])]
    /\ \A s \in Sessions : Storable(worker'[s])
    /\ UNCHANGED <<launch, captured, clock>>

Reconcile(alive) ==
    /\ worker' = [s \in Sessions |-> reconcile(worker[s], s \in alive)]
    /\ \A s \in Sessions : Storable(worker'[s])
    /\ UNCHANGED <<launch, captured, clock>>

SessionNext(s) ==
    \/ \E run \in Runs, evidence \in BOOLEAN : BindRun(s, run, evidence)
    \/ \E instant \in 1..MaxTime : SetDeadline(s, instant)
    \/ \E reason \in CancelReasons : RequestCancellation(s, reason)
    \/ ClaimCancellation(s)
    \/ ClaimStop(s)
    \/ Deliver(s)
    \/ \E status \in TerminalWorkerStatuses : Settle(s, status) \/ RecordTerminal(s, status)
    \/ Expire(s)
    \/ \E claim \in Claims : Capture(s, claim)
    \/ RecordLaunching(s)
    \/ \E run \in Runs : RecordLaunched(s, run)
    \/ RecordLaunchFailed(s)

Next ==
    \/ Tick
    \/ \E s \in Sessions : SessionNext(s)
    \/ RecoverClaims
    \/ \E alive \in SUBSET Sessions : Reconcile(alive)

Spec == Init /\ [][Next]_vars

-----------------------------------------------------------------------------
(* Properties.                                                             *)

\* The session each record stands for.
NoOutcome == [status |-> None, reason |-> None]
Outcomes == [status: TerminalStatuses, reason: AllReasons \cup {None}]

sessionOf(w) ==
    [phase   |-> IF isTerminal(w) THEN "ended"
                 ELSE IF w.status = "canceling" THEN "stopping" ELSE "open",
     outcome |-> IF isTerminal(w) THEN [status |-> w.status, reason |-> w.stopReason] ELSE NoOutcome,
     run     |-> w.runId]

Contract == INSTANCE SessionContract WITH
    session <- [s \in Sessions |-> sessionOf(worker[s])]

\* Whatever the order of the store's methods, a session ends once, keeps its
\* status and stop reason, and is never attributed to two runs
\* (docs/session-state-machine.md, invariants 4 and 5).
ImplementsContract == Contract!Spec

\* The intent to cancel is withdrawn or settled as a whole: a record carries a
\* pre-cancel status exactly while it is canceling, then also has the reason of
\* the request, and a delivery is pending only for such a record; a session that
\* is requested or running again has no stop reason left (an unknown outcome may
\* have been recorded with one, recordWorkerTerminal).
wholeCancellation(w) ==
    /\ w.status = "canceling" <=> w.preCancel # None
    /\ w.status = "canceling" => w.stopReason \in CancelReasons
    /\ "cancelPending" \in w.flags => w.status = "canceling"
    /\ w.stopReason # None => w.status \notin {"requested", "running"}
CancellationIsWhole == \A s \in Sessions : wholeCancellation(worker[s])

\* Withdrawing a cancellation never restores a status that the schema refuses
\* or a terminal one: the restored status is open, and running only with a pid.
restorableStatus(w) ==
    w.preCancel # None =>
        /\ w.preCancel \in {"requested", "running", "unknown_outcome"}
        /\ w.preCancel = "running" => "pid" \in w.flags
RestorableStatus == \A s \in Sessions : restorableStatus(worker[s])

\* A claim outlives neither the withdrawal of its request nor a lost process:
\* a claimed delivery belongs to a session that is canceling or has ended, so
\* startup recovery never invents a cancellation for an open session.
claimIsRequested(w) ==
    "cancelClaimed" \in w.flags => w.status \in TerminalStatuses \cup {"canceling"}
ClaimIsRequested == \A s \in Sessions : claimIsRequested(worker[s])
=============================================================================
