---------------------------- MODULE WorkerRecord ----------------------------
(***************************************************************************)
(* The durable session record: `Worker` of src/src/store.ts, and one       *)
(* operator for each DurableStore method that changes it.                  *)
(*                                                                         *)
(* Every such method runs under `withLock` (a process queue and a lock     *)
(* file): it loads the state file, mutates one record and persists it, so  *)
(* it is one atomic step, a function from the old record to the new one.   *)
(*                                                                         *)
(* `flags` is the set of the record's optional fields that are present:    *)
(* `x = true` adds a name and `delete x` removes it.  Time stamps, detail  *)
(* texts, attribution and the capped list of late observations carry no    *)
(* control and are left out; a result is abstracted to how it was obtained.*)
(***************************************************************************)
EXTENDS Naturals

CONSTANTS Runs,           \* provider run identities
          NoRun,          \* the record has no runId
          CancelReasons   \* the cancellation reasons callers use

ASSUME RunsAssumption == NoRun \notin Runs
ASSUME ReasonsAssumption ==
    /\ "user_requested" \in CancelReasons
    /\ CancelReasons \subseteq
         {"user_requested", "orchestrator_shutdown", "superseded", "policy_revoked"}

None == "none"            \* an absent string field
NoDeadline == 0           \* an absent deadlineAt; instants are counted from 1

TerminalStatuses == {"succeeded", "failed", "canceled"}
\* What recordWorkerTerminal and settleWorkerCancellation may be told (the type
\* TerminalWorkerStatus): an unknown outcome leaves the session open.
TerminalWorkerStatuses == TerminalStatuses \cup {"unknown_outcome"}
Statuses == TerminalStatuses \cup {"requested", "running", "canceling", "unknown_outcome"}

\* The failure reasons that the code writes.
FailureReasons == {"launch_error", "execution_error", "deadline_exceeded", "artifact_error"}
SuccessReasons == {"succeeded", "succeeded_before_cancellation"}

\* Stop reasons the record schema and validateStopReason admit with each status.
StopReasonsByStatus(status) ==
    CASE status = "succeeded" -> SuccessReasons
      [] status = "failed"    -> FailureReasons
      [] status = "canceled"  -> CancelReasons
      [] OTHER                -> SuccessReasons \cup FailureReasons \cup CancelReasons

AllReasons == SuccessReasons \cup FailureReasons \cup CancelReasons

Flags == {"pid",                  \* pid and processStartedAt
          "reconcilePending",     \* lifecycleReconcilePending
          "cancelPending",        \* cancellationDeliveryPending
          "cancelClaimed",        \* cancellationDeliveryClaimed
          "cancelDelivered",      \* cancellationDelivered
          "stopPending",          \* providerStopPending
          "stopClaimed",          \* providerStopClaimed
          "stopUnsupported"}      \* providerStopUnsupported

\* How the stored result was obtained: "full" is the provider's own result,
\* "partial" a claim that the result was missing or malformed, "captured" a
\* result of ResultCaptureService, "launch_error" the one of a failed launch,
\* "recorded" one written by recordWorkerResult.
Results == {None, "full", "partial", "captured", "launch_error", "recorded"}

\* Claim statuses a delivery is normalised to (result-capture.ts).
Claims == {"succeeded", "failed", "cancelled", "malformed", "stopped_without_result"}

AssignmentStatuses == {None, "accepted", "launching", "launched", "failed"}

Worker == [status: Statuses, runId: Runs \cup {NoRun}, stopReason: AllReasons \cup {None},
           preCancel: Statuses \cup {None}, deadline: Nat, result: Results, flags: SUBSET Flags]

NewWorker == [status |-> "requested", runId |-> NoRun, stopReason |-> None, preCancel |-> None,
              deadline |-> NoDeadline, result |-> None, flags |-> {}]

isTerminal(w) == w.status \in TerminalStatuses
isBound(w) == w.runId # NoRun
isExpired(w) == w.status = "failed" /\ w.stopReason = "deadline_exceeded"

\* What the schema check of `persist` demands of a record.
Storable(w) ==
    /\ w.status = "running" => "pid" \in w.flags
    /\ isTerminal(w) /\ w.stopReason # None => w.stopReason \in StopReasonsByStatus(w.status)

-----------------------------------------------------------------------------
(* Binding, deadlines, and the request to cancel.                          *)

canBindWorkerRun(w, run) == ~isTerminal(w) /\ w.runId \in {NoRun, run}

\* Process evidence promotes a requested worker to running.
bindWorkerRun(w, run, evidence) ==
    IF evidence /\ w.status \in {"requested", "running"}
    THEN [w EXCEPT !.runId = run, !.status = "running", !.flags = @ \cup {"pid"}]
    ELSE [w EXCEPT !.runId = run]

setWorkerDeadline(w, instant) == [w EXCEPT !.deadline = instant]

\* Mutant: every unbound session is cancelled locally, even mid-launch.
LocalCancelMidLaunch(w, reason, launch) ==
    IF isTerminal(w) \/ w.status = "canceling" THEN w
    ELSE IF ~isBound(w) THEN [w EXCEPT !.status = "canceled", !.stopReason = reason]
    ELSE [w EXCEPT !.preCancel = w.status, !.status = "canceling", !.stopReason = reason,
                   !.flags = @ \cup {"cancelPending"}]

\* Mutant: a delivery is recorded only if there is a run to deliver it to.
CancelWithoutRun(w, reason, launch) ==
    IF isTerminal(w) \/ w.status = "canceling" THEN w
    ELSE IF ~isBound(w) /\ launch # "launching"
    THEN [w EXCEPT !.status = "canceled", !.stopReason = reason]
    ELSE [w EXCEPT !.preCancel = w.status, !.status = "canceling", !.stopReason = reason,
                   !.flags = @ \cup (IF isBound(w) THEN {"cancelPending"} ELSE {})]

\* A session that is neither bound nor being launched is cancelled locally.
requestWorkerCancellation(w, reason, launch) ==
    IF isTerminal(w) \/ w.status = "canceling" THEN w
    ELSE IF ~isBound(w) /\ launch # "launching"
    THEN [w EXCEPT !.status = "canceled", !.stopReason = reason]
    ELSE [w EXCEPT !.preCancel = w.status, !.status = "canceling", !.stopReason = reason,
                   !.flags = @ \cup {"cancelPending"}]

-----------------------------------------------------------------------------
(* Claims on the delivery of a cancellation and of a provider stop.        *)

canClaimCancellationDelivery(w) == "cancelPending" \in w.flags /\ "cancelClaimed" \notin w.flags

claimCancellationDelivery(w) ==
    [w EXCEPT !.flags = (@ \ {"cancelPending"}) \cup {"cancelClaimed"}]

\* Mutant: a released claim of a session that expired meanwhile leaves nothing behind.
ReleaseForgetsExpiry(w) ==
    [w EXCEPT !.flags = (@ \ {"cancelClaimed"})
        \cup (IF w.status = "canceling" THEN {"cancelPending"} ELSE {})]

\* Mutant: a failed delivery is not tried again.
ReleaseDropsIntent(w) ==
    [w EXCEPT !.flags = (@ \ {"cancelClaimed"})
        \cup (IF isExpired(w) /\ isBound(w) THEN {"stopPending"} ELSE {})]

releaseCancellationDelivery(w) ==
    [w EXCEPT !.flags = (@ \ {"cancelClaimed"})
        \cup (IF w.status = "canceling" THEN {"cancelPending"}
              ELSE IF isExpired(w) /\ isBound(w) THEN {"stopPending"} ELSE {})]

markCancellationDelivered(w) ==
    [w EXCEPT !.flags = (@ \ {"cancelPending", "cancelClaimed", "stopPending", "stopClaimed"})
        \cup {"cancelDelivered"}]

canClaimProviderStop(w) == "stopPending" \in w.flags /\ "stopClaimed" \notin w.flags

claimProviderStop(w) == [w EXCEPT !.flags = (@ \ {"stopPending"}) \cup {"stopClaimed"}]

releaseProviderStop(w) ==
    [w EXCEPT !.flags = (@ \ {"stopClaimed"}) \cup (IF isBound(w) THEN {"stopPending"} ELSE {})]

markProviderStopDelivered(w) ==
    [w EXCEPT !.flags = @ \ {"stopPending", "stopClaimed", "stopUnsupported"}]

markProviderStopUnsupported(w) ==
    [w EXCEPT !.flags = (@ \ {"stopPending", "stopClaimed"}) \cup {"stopUnsupported"}]

\* Mutant: the withdrawn request leaves its pre-cancel status behind.
WithdrawKeepsPreCancel(w) ==
    [w EXCEPT !.status = IF w.preCancel = None THEN "requested" ELSE w.preCancel,
              !.stopReason = None]

\* The provider rejected the command: the intent is withdrawn and the session
\* returns to the status it had before the request.
withdrawCancellation(w) ==
    [w EXCEPT !.status = IF w.preCancel = None THEN "requested" ELSE w.preCancel,
              !.preCancel = None, !.stopReason = None]

handleUnsupportedCancellation(w) ==
    LET u == [w EXCEPT !.flags = @ \ {"cancelPending", "cancelClaimed"}]
    IN  IF isExpired(w)
        THEN [u EXCEPT !.flags = (@ \ {"stopPending", "stopClaimed"}) \cup {"stopUnsupported"}]
        ELSE IF w.status # "canceling" THEN u
        ELSE withdrawCancellation(u)

clearWorkerCancellation(w) ==
    IF w.status # "canceling" THEN w
    ELSE withdrawCancellation(
           [w EXCEPT !.flags = @ \ {"cancelPending", "cancelClaimed", "cancelDelivered"}])

\* Startup: a claim left by a dead process becomes a pending delivery again.
recoverCancellationClaim(w) ==
    LET status == IF w.status = "unknown_outcome" THEN "canceling" ELSE w.status
        owed   == IF ~isBound(w) THEN {}
                  ELSE IF status \notin TerminalStatuses THEN {"cancelPending"}
                  ELSE IF isExpired(w) THEN {"stopPending"} ELSE {}
    IN  IF "cancelClaimed" \notin w.flags THEN w
        ELSE [w EXCEPT !.status = status, !.flags = (@ \ {"cancelClaimed"}) \cup owed]

recoverStopClaim(w) == IF "stopClaimed" \notin w.flags THEN w ELSE releaseProviderStop(w)

recoverLifecycleDeliveryClaims(w) == recoverStopClaim(recoverCancellationClaim(w))

-----------------------------------------------------------------------------
(* Terminal outcomes.                                                      *)

\* Mutant: a reason recorded earlier wins over the observed failure.
ReasonOfRequest(w, status, success) ==
    CASE status = "succeeded" -> success
      [] OTHER -> IF w.stopReason # None THEN w.stopReason
                  ELSE IF status = "canceled" THEN "user_requested" ELSE "execution_error"

\* The stop reason stored with a provider observation when none is given.
defaultStopReason(w, status, success) ==
    CASE status = "succeeded" -> success
      [] status = "canceled"  -> IF w.stopReason = None THEN "user_requested" ELSE w.stopReason
      [] status = "failed"    -> "execution_error"
      [] OTHER                -> None

\* The first terminal outcome of a record; flags are those it leaves pending.
finish(w, status, reason, result, flags) ==
    [w EXCEPT !.status = status, !.stopReason = reason, !.result = result,
              !.preCancel = None, !.flags = flags]

\* The caller may give a stop reason and a result, or None.
recordWorkerTerminal(w, status, given, result) ==
    LET cleared == w.flags \ {"reconcilePending", "cancelPending", "cancelClaimed"}
        success == IF w.status = "canceling" THEN "succeeded_before_cancellation" ELSE "succeeded"
        reason  == IF given # None THEN given ELSE defaultStopReason(w, status, success)
    IN  IF isTerminal(w)
        THEN [w EXCEPT !.result = IF @ = None THEN result ELSE @,
                       !.flags = @ \ {"reconcilePending"}]
        ELSE finish(w, status, reason, IF result = None THEN w.result ELSE result, cleared)

\* Mutant: a late observation replaces the outcome that already won.
SettleAgain(w, status, given, result, keep) ==
    LET default == defaultStopReason(w, status, "succeeded_before_cancellation")
    IN  IF w.status \notin TerminalStatuses \cup {"canceling"} THEN w
        ELSE finish(w, status, IF given # None THEN given ELSE default, result,
                    w.flags \ {"reconcilePending", "cancelPending", "cancelClaimed"})

\* Mutant: a late observation overwrites a result that is already complete.
SettleOverwritesResult(w, status, given, result, keep) ==
    LET pending == IF keep THEN {"reconcilePending"} ELSE {}
        cleared == w.flags \ {"reconcilePending", "cancelPending", "cancelClaimed"}
        stored  == IF result = None THEN w.result ELSE result
        default == defaultStopReason(w, status, "succeeded_before_cancellation")
    IN  IF isTerminal(w)
        THEN [w EXCEPT !.result = stored, !.flags = cleared \cup (pending \cap w.flags)]
        ELSE IF w.status # "canceling" THEN w
        ELSE finish(w, status, IF given # None THEN given ELSE default, stored, cleared \cup pending)

\* A provider observation settles a pending cancellation; on a terminal record
\* it only completes a missing or still pending result.  The caller may give a
\* stop reason and a result, and may keep the reconciliation pending.
settleWorkerCancellation(w, status, given, result, keep) ==
    LET pending == IF keep THEN {"reconcilePending"} ELSE {}
        cleared == w.flags \ {"reconcilePending", "cancelPending", "cancelClaimed"}
        stored  == IF result = None THEN w.result ELSE result
        default == defaultStopReason(w, status, "succeeded_before_cancellation")
    IN  IF isTerminal(w)
        THEN [w EXCEPT !.result = IF @ = None \/ "reconcilePending" \in w.flags THEN stored ELSE @,
                       !.flags = cleared \cup (pending \cap w.flags)]
        ELSE IF w.status # "canceling" THEN w
        ELSE finish(w, status, IF given # None THEN given ELSE default, stored, cleared \cup pending)

isOverdue(w, at) == ~isTerminal(w) /\ w.deadline # NoDeadline /\ w.deadline <= at

\* An overdue session fails; a run that exists or may come to exist is still
\* to be stopped, unless its cancellation is claimed or delivered.
expireWorker(w, at, launch) ==
    LET stop == IF {"cancelClaimed", "cancelDelivered"} \cap w.flags = {} THEN {"stopPending"} ELSE {}
        owed == IF isBound(w) \/ launch = "launching" THEN {"reconcilePending"} \cup stop ELSE {}
    IN  IF ~isOverdue(w, at) THEN w
        ELSE finish(w, "failed", "deadline_exceeded", w.result, (w.flags \ {"cancelPending"}) \cup owed)

\* recordWorkerResult stores no stop reason and clears nothing; a terminal
\* record refuses a different result.
recordWorkerResult(w, status) ==
    IF isTerminal(w) THEN w ELSE [w EXCEPT !.status = status, !.result = "recorded"]

\* Mutant: the claim's spelling of a cancellation is stored as it is.
CaptureStatusVerbatim(claim) == IF claim \in {"succeeded", "cancelled"} THEN claim ELSE "failed"

captureStatus(claim) ==
    CASE claim = "succeeded" -> "succeeded" [] claim = "cancelled" -> "canceled" [] OTHER -> "failed"

captureStopReason(claim) ==
    CASE claim = "succeeded" -> "succeeded"
      [] claim = "cancelled" -> "user_requested"
      [] claim = "malformed" -> "artifact_error"
      [] OTHER               -> "execution_error"

\* The record's part of captureResult: a captured result ends an open session.
captureResult(w, claim) ==
    IF isTerminal(w) THEN w
    ELSE finish(w, captureStatus(claim), captureStopReason(claim), "captured",
                w.flags \ {"reconcilePending", "cancelPending"})

-----------------------------------------------------------------------------
(* The record's part of recordLaunchEvent, and of the periodic reconcile.  *)

\* A run bound after the session ended is to be stopped and reconciled.
recordLaunched(w, run) ==
    [w EXCEPT !.runId = run,
              !.flags = @ \cup (IF isTerminal(w) THEN {"reconcilePending", "stopPending"} ELSE {})]

recordLaunchFailed(w) ==
    LET cleared == w.flags \ {"cancelPending", "cancelClaimed", "reconcilePending",
                              "stopPending", "stopClaimed"}
    IN  IF isTerminal(w) THEN [w EXCEPT !.preCancel = None, !.flags = cleared]
        ELSE finish(w, "failed", "launch_error", "launch_error", cleared)

reconcile(w, alive) ==
    IF w.status = "running" /\ ("pid" \notin w.flags \/ ~alive)
    THEN [w EXCEPT !.status = "unknown_outcome"]
    ELSE w
=============================================================================
