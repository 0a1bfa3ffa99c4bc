------------------------- MODULE WorkerStoreProofs -------------------------
(***************************************************************************)
(* Proofs about WorkerStore, for every set of sessions, runs and           *)
(* cancellation reasons and every bound on the clock.                      *)
(*                                                                         *)
(* Each store method is a function of one record, so the argument is made  *)
(* record by record: one lemma for each method says that it keeps a good   *)
(* record good and advances the session as the contract allows.  The       *)
(* theorems then only distribute these lemmas over the sessions.           *)
(***************************************************************************)
EXTENDS WorkerStore, TLAPS

\* The inductive invariant of one record.
good(w) ==
    /\ w \in Worker
    /\ Storable(w)
    /\ wholeCancellation(w)
    /\ restorableStatus(w)
    /\ claimIsRequested(w)

\* The step of the contract that a change of one record is.
advances(w, u) ==
    LET a == sessionOf(w)
        b == sessionOf(u)
    IN  a = b \/ Contract!Bind(a, b) \/ Contract!Stop(a, b) \/ Contract!End(a, b)

\* What a store method makes of a good record.
keeps(w, u) == good(u) /\ advances(w, u)

\* What the record's definitions have in common.
USE DEF Worker, Statuses, TerminalStatuses, Flags, Results, None, isTerminal, isBound

-----------------------------------------------------------------------------
(* Which changes of a record advance its session.                          *)

\* Changes of flags, deadline, result or open status do not show.
LEMMA SameSession ==
  ASSUME NEW w, NEW u, u.runId = w.runId,
         \/ u.status = w.status /\ u.stopReason = w.stopReason
         \/ ~isTerminal(w) /\ ~isTerminal(u) /\ (u.status = "canceling" <=> w.status = "canceling")
  PROVE  advances(w, u)
  BY DEF advances, sessionOf

\* Binding an unbound record shows as the contract's Bind.
LEMMA BindsSession ==
  ASSUME NEW w, NEW u, w.runId = NoRun, u.runId \in Runs,
         \/ u.status = w.status /\ u.stopReason = w.stopReason
         \/ ~isTerminal(w) /\ ~isTerminal(u) /\ (u.status = "canceling" <=> w.status = "canceling")
  PROVE  advances(w, u)
  BY DEF advances, sessionOf, Contract!Bind

\* Entering or leaving canceling shows as the contract's Stop.
LEMMA StopsSession ==
  ASSUME NEW w, NEW u, u.runId = w.runId, ~isTerminal(w), ~isTerminal(u),
         (u.status = "canceling") # (w.status = "canceling")
  PROVE  advances(w, u)
  BY DEF advances, sessionOf, Contract!Stop

\* A first terminal status shows as the contract's End.
LEMMA EndsSession ==
  ASSUME NEW w, NEW u, u.runId = w.runId, ~isTerminal(w), u \in Worker, isTerminal(u)
  PROVE  advances(w, u)
  BY DEF advances, sessionOf, Contract!End, Outcomes

\* A method that returns the record it got keeps everything.
LEMMA NoChange ==
  ASSUME NEW w, good(w)
  PROVE  keeps(w, w)
  BY SameSession DEF keeps

\* The reasons the schema admits with a status are stop reasons.
LEMMA ReasonsAreReasons ==
  ASSUME NEW status \in TerminalStatuses
  PROVE  StopReasonsByStatus(status) \subseteq AllReasons
  BY DEF StopReasonsByStatus, AllReasons

\* The first terminal outcome ends the session, whatever it leaves pending.
LEMMA FinishKeeps ==
  ASSUME NEW w, good(w), ~isTerminal(w),
         NEW status \in TerminalStatuses, NEW reason \in StopReasonsByStatus(status),
         NEW result \in Results, NEW flags \in SUBSET Flags, "cancelPending" \notin flags
  PROVE  keeps(w, finish(w, status, reason, result, flags))
<1> DEFINE u == finish(w, status, reason, result, flags)
<1>1. u \in Worker /\ u.runId = w.runId /\ isTerminal(u)
  <2>1. reason \in AllReasons
    BY ReasonsAreReasons
  <2>2. u \in Worker
    BY <2>1 DEF good, finish
  <2> QED  BY <2>2 DEF good, finish
<1>2. u.status = status /\ u.stopReason = reason /\ u.preCancel = None /\ u.flags = flags
  BY DEF good, finish
<1> HIDE DEF u
<1>3. good(u)
  BY <1>1, <1>2 DEF good, Storable, wholeCancellation, restorableStatus, claimIsRequested
<1> QED  BY <1>1, <1>3, EndsSession DEF keeps, u

\* An unknown outcome leaves the session open, with any reason or none.
LEMMA UnknownKeeps ==
  ASSUME NEW w, good(w), ~isTerminal(w), NEW reason \in AllReasons \cup {None},
         NEW result \in Results, NEW flags \in SUBSET Flags,
         "cancelPending" \notin flags, "cancelClaimed" \notin flags
  PROVE  keeps(w, finish(w, "unknown_outcome", reason, result, flags))
<1> DEFINE u == finish(w, "unknown_outcome", reason, result, flags)
<1>1. u \in Worker /\ u.runId = w.runId /\ ~isTerminal(u)
  <2>1. u \in Worker
    BY DEF good, finish
  <2> QED  BY <2>1 DEF good, finish
<1>2. u.status = "unknown_outcome" /\ u.stopReason = reason /\ u.preCancel = None /\ u.flags = flags
  BY DEF good, finish
<1> HIDE DEF u
<1>3. good(u)
  BY <1>1, <1>2 DEF good, Storable, wholeCancellation, restorableStatus, claimIsRequested
<1>4. CASE w.status = "canceling"
  BY <1>1, <1>2, <1>3, <1>4, StopsSession DEF keeps, u
<1>5. CASE w.status # "canceling"
  BY <1>1, <1>2, <1>3, <1>5, SameSession DEF keeps, u
<1> QED  BY <1>4, <1>5

\* An observation given a reason that its status admits, or none for an unknown
\* outcome, ends the session or leaves it open.
LEMMA ObservationKeeps ==
  ASSUME NEW w, good(w), ~isTerminal(w),
         NEW status \in TerminalWorkerStatuses, NEW reason,
         \/ reason \in StopReasonsByStatus(status)
         \/ status = "unknown_outcome" /\ reason = None,
         NEW result \in Results, NEW flags \in SUBSET Flags,
         "cancelPending" \notin flags, "cancelClaimed" \notin flags
  PROVE  keeps(w, finish(w, status, reason, result, flags))
<1>1. CASE status = "unknown_outcome"
  <2>1. reason \in AllReasons \cup {None}
    BY <1>1 DEF StopReasonsByStatus, AllReasons
  <2> QED  BY <1>1, <2>1, UnknownKeeps
<1>2. CASE status \in TerminalStatuses
  BY <1>2, FinishKeeps
<1> QED  BY <1>1, <1>2 DEF TerminalWorkerStatuses

\* An ended session may still get its result and lose pending work.
LEMMA EndedKeeps ==
  ASSUME NEW w, good(w), isTerminal(w),
         NEW result \in Results, NEW flags \in SUBSET Flags, "cancelPending" \notin flags
  PROVE  keeps(w, [w EXCEPT !.result = result, !.flags = flags])
<1> DEFINE u == [w EXCEPT !.result = result, !.flags = flags]
<1>1. u.runId = w.runId /\ u.status = w.status /\ u.stopReason = w.stopReason
  BY DEF good
<1>2. good(u)
  BY DEF good, Storable, wholeCancellation, restorableStatus, claimIsRequested
<1> QED  BY <1>1, <1>2, SameSession DEF keeps

-----------------------------------------------------------------------------
(* One lemma for each store method.                                        *)

\* bindWorkerRun binds an unbound session, or repeats a binding.
LEMMA BindKeeps ==
  ASSUME NEW w, good(w), NEW run \in Runs, NEW evidence \in BOOLEAN, canBindWorkerRun(w, run)
  PROVE  keeps(w, bindWorkerRun(w, run, evidence))
<1> DEFINE u == bindWorkerRun(w, run, evidence)
<1>1. good(u)
  BY DEF good, Storable, wholeCancellation, restorableStatus, claimIsRequested, bindWorkerRun,
     canBindWorkerRun
<1>2. /\ u.runId = run /\ ~isTerminal(w) /\ ~isTerminal(u)
      /\ u.status = "canceling" <=> w.status = "canceling"
  BY DEF good, bindWorkerRun, canBindWorkerRun
<1>3. CASE w.runId = NoRun
  BY <1>1, <1>2, <1>3, BindsSession DEF keeps
<1>4. CASE w.runId = run
  BY <1>1, <1>2, <1>4, SameSession DEF keeps
<1> QED  BY <1>3, <1>4 DEF canBindWorkerRun

\* setWorkerDeadline changes nothing else.
LEMMA DeadlineKeeps ==
  ASSUME NEW w, good(w), NEW instant \in Nat
  PROVE  keeps(w, setWorkerDeadline(w, instant))
<1> DEFINE u == setWorkerDeadline(w, instant)
<1>1. good(u)
  BY DEF good, Storable, wholeCancellation, restorableStatus, claimIsRequested, setWorkerDeadline
<1>2. u.runId = w.runId /\ u.status = w.status /\ u.stopReason = w.stopReason
  BY DEF good, setWorkerDeadline
<1> QED  BY <1>1, <1>2, SameSession DEF keeps

\* requestWorkerCancellation does nothing, ends the session, or stops it.
LEMMA RequestKeeps ==
  ASSUME NEW w, good(w), NEW reason \in CancelReasons, NEW status
  PROVE  keeps(w, requestWorkerCancellation(w, reason, status))
<1> DEFINE u == requestWorkerCancellation(w, reason, status)
<1>1. CASE isTerminal(w) \/ w.status = "canceling"
  BY <1>1, NoChange DEF requestWorkerCancellation
<1>2. CASE ~isTerminal(w) /\ w.status # "canceling" /\ ~isBound(w) /\ status # "launching"
  <2>1. u = [w EXCEPT !.status = "canceled", !.stopReason = reason]
    BY <1>2 DEF requestWorkerCancellation
  <2>2. u \in Worker /\ u.runId = w.runId /\ isTerminal(u)
    BY <2>1, ReasonsAssumption DEF good, AllReasons, StopReasonsByStatus
  <2>3. good(u)
    BY <1>2, <2>1, <2>2, ReasonsAssumption DEF good, Storable, wholeCancellation, restorableStatus,
       claimIsRequested, StopReasonsByStatus
  <2> QED  BY <1>2, <2>2, <2>3, EndsSession DEF keeps
<1>3. CASE ~isTerminal(w) /\ w.status # "canceling" /\ (isBound(w) \/ status = "launching")
  <2>1. u = [w EXCEPT !.preCancel = w.status, !.status = "canceling", !.stopReason = reason,
                      !.flags = @ \cup {"cancelPending"}]
    BY <1>3 DEF requestWorkerCancellation
  <2>2. /\ u.runId = w.runId /\ u.status = "canceling" /\ u.stopReason = reason
        /\ u.preCancel = w.status /\ u.flags = w.flags \cup {"cancelPending"}
    BY <2>1 DEF good
  <2>3. reason \in AllReasons
    BY ReasonsAssumption DEF AllReasons, StopReasonsByStatus
  <2>4. u \in Worker
    BY <2>1, <2>3 DEF good
  <2> HIDE DEF u
  <2>5. Storable(u) /\ claimIsRequested(u) /\ restorableStatus(u)
    BY <1>3, <2>2 DEF good, Storable, restorableStatus, claimIsRequested
  <2>6. wholeCancellation(u)
    BY <1>3, <2>2 DEF good, wholeCancellation
  <2> QED  BY <1>3, <2>2, <2>4, <2>5, <2>6, StopsSession DEF keeps, good, u
<1> QED  BY <1>1, <1>2, <1>3

\* claimCancellationDelivery moves a pending delivery to its claimant.
LEMMA ClaimKeeps ==
  ASSUME NEW w, good(w), canClaimCancellationDelivery(w)
  PROVE  keeps(w, claimCancellationDelivery(w))
<1> DEFINE u == claimCancellationDelivery(w)
<1>1. good(u)
  BY DEF good, Storable, wholeCancellation, restorableStatus, claimIsRequested, claimCancellationDelivery, canClaimCancellationDelivery
<1>2. u.runId = w.runId /\ u.status = w.status /\ u.stopReason = w.stopReason
  BY DEF good, claimCancellationDelivery, canClaimCancellationDelivery
<1> QED  BY <1>1, <1>2, SameSession DEF keeps

\* A released delivery is pending again, as a cancellation or as a stop.
LEMMA ReleaseKeeps ==
  ASSUME NEW w, good(w)
  PROVE  keeps(w, releaseCancellationDelivery(w))
<1> DEFINE u == releaseCancellationDelivery(w)
<1>1. good(u)
  BY DEF good, Storable, wholeCancellation, restorableStatus, claimIsRequested, releaseCancellationDelivery, isExpired
<1>2. u.runId = w.runId /\ u.status = w.status /\ u.stopReason = w.stopReason
  BY DEF good, releaseCancellationDelivery, isExpired
<1> QED  BY <1>1, <1>2, SameSession DEF keeps

\* A delivered cancellation has nothing left to claim.
LEMMA DeliveredKeeps ==
  ASSUME NEW w, good(w)
  PROVE  keeps(w, markCancellationDelivered(w))
<1> DEFINE u == markCancellationDelivered(w)
<1>1. good(u)
  BY DEF good, Storable, wholeCancellation, restorableStatus, claimIsRequested, markCancellationDelivered
<1>2. u.runId = w.runId /\ u.status = w.status /\ u.stopReason = w.stopReason
  BY DEF good, markCancellationDelivered
<1> QED  BY <1>1, <1>2, SameSession DEF keeps

\* claimProviderStop moves a pending stop to its claimant.
LEMMA ClaimStopKeeps ==
  ASSUME NEW w, good(w)
  PROVE  keeps(w, claimProviderStop(w))
<1> DEFINE u == claimProviderStop(w)
<1>1. good(u)
  BY DEF good, Storable, wholeCancellation, restorableStatus, claimIsRequested, claimProviderStop
<1>2. u.runId = w.runId /\ u.status = w.status /\ u.stopReason = w.stopReason
  BY DEF good, claimProviderStop
<1> QED  BY <1>1, <1>2, SameSession DEF keeps

\* releaseProviderStop makes the stop of a bound run pending again.
LEMMA ReleaseStopKeeps ==
  ASSUME NEW w, good(w)
  PROVE  keeps(w, releaseProviderStop(w))
<1> DEFINE u == releaseProviderStop(w)
<1>1. good(u)
  BY DEF good, Storable, wholeCancellation, restorableStatus, claimIsRequested, releaseProviderStop
<1>2. u.runId = w.runId /\ u.status = w.status /\ u.stopReason = w.stopReason
  BY DEF good, releaseProviderStop
<1> QED  BY <1>1, <1>2, SameSession DEF keeps

\* markProviderStopDelivered clears every trace of the stop.
LEMMA StopDeliveredKeeps ==
  ASSUME NEW w, good(w)
  PROVE  keeps(w, markProviderStopDelivered(w))
<1> DEFINE u == markProviderStopDelivered(w)
<1>1. good(u)
  BY DEF good, Storable, wholeCancellation, restorableStatus, claimIsRequested, markProviderStopDelivered
<1>2. u.runId = w.runId /\ u.status = w.status /\ u.stopReason = w.stopReason
  BY DEF good, markProviderStopDelivered
<1> QED  BY <1>1, <1>2, SameSession DEF keeps

\* markProviderStopUnsupported leaves the session as it is.
LEMMA StopUnsupportedKeeps ==
  ASSUME NEW w, good(w)
  PROVE  keeps(w, markProviderStopUnsupported(w))
<1> DEFINE u == markProviderStopUnsupported(w)
<1>1. good(u)
  BY DEF good, Storable, wholeCancellation, restorableStatus, claimIsRequested, markProviderStopUnsupported
<1>2. u.runId = w.runId /\ u.status = w.status /\ u.stopReason = w.stopReason
  BY DEF good, markProviderStopUnsupported
<1> QED  BY <1>1, <1>2, SameSession DEF keeps

\* A withdrawn cancellation reopens the session.
LEMMA WithdrawKeeps ==
  ASSUME NEW w, good(w), w.status = "canceling", NEW flags \in SUBSET Flags,
         "cancelPending" \notin flags, "cancelClaimed" \notin flags,
         "pid" \in w.flags => "pid" \in flags
  PROVE  keeps(w, withdrawCancellation([w EXCEPT !.flags = flags]))
<1> DEFINE u == withdrawCancellation([w EXCEPT !.flags = flags])
<1>1. w.preCancel \in {"requested", "running", "unknown_outcome"}
  BY DEF good, wholeCancellation, restorableStatus
<1>2. u \in Worker
  BY <1>1 DEF good, withdrawCancellation
<1>3. /\ u.runId = w.runId /\ u.status = w.preCancel /\ u.stopReason = None
      /\ u.preCancel = None /\ u.flags = flags
  BY <1>1 DEF good, withdrawCancellation
<1> HIDE DEF u
<1>4. good(u)
  BY <1>1, <1>2, <1>3 DEF good, Storable, wholeCancellation, restorableStatus, claimIsRequested
<1> QED  BY <1>1, <1>3, <1>4, StopsSession DEF keeps, u

\* handleUnsupportedCancellation reopens a canceling session.
LEMMA UnsupportedKeeps ==
  ASSUME NEW w, good(w)
  PROVE  keeps(w, handleUnsupportedCancellation(w))
<1> DEFINE u == handleUnsupportedCancellation(w)
           flags == w.flags \ {"cancelPending", "cancelClaimed"}
<1>1. CASE w.status # "canceling"
  <2>1. /\ u.runId = w.runId /\ u.status = w.status /\ u.stopReason = w.stopReason
        /\ u.preCancel = w.preCancel /\ u \in Worker
    BY <1>1 DEF good, handleUnsupportedCancellation
  <2>2. /\ "cancelPending" \notin u.flags /\ "cancelClaimed" \notin u.flags
        /\ "pid" \in w.flags => "pid" \in u.flags
    BY <1>1 DEF good, handleUnsupportedCancellation
  <2> HIDE DEF u
  <2>3. good(u)
    BY <1>1, <2>1, <2>2 DEF good, Storable, wholeCancellation, restorableStatus, claimIsRequested
  <2> QED  BY <2>1, <2>3, SameSession DEF keeps, u
<1>2. CASE w.status = "canceling"
  <2>1. u = withdrawCancellation([w EXCEPT !.flags = flags])
    BY <1>2 DEF handleUnsupportedCancellation, isExpired
  <2> QED  BY <1>2, <2>1, WithdrawKeeps DEF good
<1> QED  BY <1>1, <1>2

\* clearWorkerCancellation reopens a canceling session.
LEMMA ClearKeeps ==
  ASSUME NEW w, good(w)
  PROVE  keeps(w, clearWorkerCancellation(w))
<1> DEFINE flags == w.flags \ {"cancelPending", "cancelClaimed", "cancelDelivered"}
<1>1. CASE w.status # "canceling"
  BY <1>1, NoChange DEF clearWorkerCancellation
<1>2. CASE w.status = "canceling"
  <2>1. clearWorkerCancellation(w) = withdrawCancellation([w EXCEPT !.flags = flags])
    BY <1>2 DEF clearWorkerCancellation
  <2> QED  BY <1>2, <2>1, WithdrawKeeps DEF good
<1> QED  BY <1>1, <1>2

\* Startup recovery only moves claims back: claimIsRequested excludes its
\* promotion of an unknown outcome to canceling.
LEMMA RecoverKeeps ==
  ASSUME NEW w, good(w)
  PROVE  keeps(w, recoverLifecycleDeliveryClaims(w))
<1> DEFINE u == recoverCancellationClaim(w)
           x == recoverStopClaim(u)
<1>1. good(u)
  <2>1. CASE "cancelClaimed" \notin w.flags
    BY <2>1 DEF recoverCancellationClaim
  <2>2. CASE "cancelClaimed" \in w.flags
    <3> DEFINE owed == IF ~isBound(w) THEN {}
                       ELSE IF ~isTerminal(w) THEN {"cancelPending"}
                       ELSE IF isExpired(w) THEN {"stopPending"} ELSE {}
               flags == (w.flags \ {"cancelClaimed"}) \cup owed
    <3>1. w.status \in TerminalStatuses \cup {"canceling"}
      BY <2>2 DEF good, claimIsRequested
    <3>2. u = [w EXCEPT !.status = w.status, !.flags = flags]
      BY <2>2, <3>1 DEF recoverCancellationClaim
    <3>3. flags \in SUBSET Flags /\ ("pid" \in w.flags => "pid" \in flags)
          /\ ("cancelPending" \in flags => w.status = "canceling")
      BY <3>1 DEF good, wholeCancellation
    <3> HIDE DEF flags
    <3> QED  BY <3>1, <3>2, <3>3
             DEF good, Storable, wholeCancellation, restorableStatus, claimIsRequested
  <2> QED  BY <2>1, <2>2
<1>2. u.runId = w.runId /\ u.status = w.status /\ u.stopReason = w.stopReason
  BY DEF good, claimIsRequested, recoverCancellationClaim
<1>3. good(x)
  BY <1>1, ReleaseStopKeeps DEF recoverStopClaim, keeps
<1>4. x.runId = u.runId /\ x.status = u.status /\ x.stopReason = u.stopReason
  BY <1>1 DEF good, recoverStopClaim, releaseProviderStop
<1> HIDE DEF u, x
<1>5. keeps(w, x)
  BY <1>2, <1>3, <1>4, SameSession DEF keeps
<1> QED  BY <1>5 DEF recoverLifecycleDeliveryClaims, u, x

\* The periodic reconcile only turns running into unknown_outcome.
LEMMA ReconcileKeeps ==
  ASSUME NEW w, good(w), NEW alive \in BOOLEAN
  PROVE  keeps(w, reconcile(w, alive))
<1> DEFINE u == reconcile(w, alive)
<1>1. good(u)
  BY DEF good, Storable, wholeCancellation, restorableStatus, claimIsRequested, reconcile
<1>2. CASE w.status # "running"
  BY <1>2, NoChange DEF reconcile
<1>3. CASE w.status = "running"
  <2>1. u.runId = w.runId /\ u.status \in {"running", "unknown_outcome"}
    BY <1>3 DEF good, reconcile
  <2> QED  BY <1>1, <1>3, <2>1, SameSession DEF keeps
<1> QED  BY <1>2, <1>3

\* The default reason of a canceling session fits the observed status.
LEMMA DefaultReasonFits ==
  ASSUME NEW w, good(w), ~isTerminal(w), NEW status \in TerminalWorkerStatuses,
         NEW success \in SuccessReasons,
         status = "canceled" => w.stopReason \in CancelReasons \cup {None}
  PROVE  \/ defaultStopReason(w, status, success) \in StopReasonsByStatus(status)
         \/ status = "unknown_outcome" /\ defaultStopReason(w, status, success) = None
  BY ReasonsAssumption DEF defaultStopReason, StopReasonsByStatus, FailureReasons, TerminalWorkerStatuses

\* recordWorkerTerminal ends an open session and keeps an ended one's outcome.
\* The schema check refuses the default of a cancellation when the record is an
\* unknown outcome with another reason.
LEMMA TerminalKeeps ==
  ASSUME NEW w, good(w), NEW status \in TerminalWorkerStatuses,
         NEW given \in StopReasonsByStatus(status) \cup {None}, NEW result \in {None, "full"},
         Storable(recordWorkerTerminal(w, status, given, result))
  PROVE  keeps(w, recordWorkerTerminal(w, status, given, result))
<1> DEFINE cleared == w.flags \ {"reconcilePending", "cancelPending", "cancelClaimed"}
           success == IF w.status = "canceling" THEN "succeeded_before_cancellation" ELSE "succeeded"
           reason == IF given # None THEN given ELSE defaultStopReason(w, status, success)
<1>1. CASE isTerminal(w)
  <2> DEFINE kept == IF w.result = None THEN result ELSE w.result
             flags == w.flags \ {"reconcilePending"}
  <2>1. kept \in Results /\ flags \in SUBSET Flags /\ "cancelPending" \notin flags
    BY <1>1 DEF good, wholeCancellation
  <2>2. keeps(w, [w EXCEPT !.result = kept, !.flags = flags])
    BY <1>1, <2>1, EndedKeeps
  <2>3. recordWorkerTerminal(w, status, given, result) = [w EXCEPT !.result = kept, !.flags = flags]
    BY <1>1 DEF recordWorkerTerminal
  <2> QED  BY <2>2, <2>3
<1>2. CASE ~isTerminal(w)
  <2> DEFINE stored == IF result = None THEN w.result ELSE result
             u == finish(w, status, reason, stored, cleared)
  <2>1. success \in SuccessReasons
    BY DEF SuccessReasons
  <2>2. recordWorkerTerminal(w, status, given, result) = u
    BY <1>2 DEF recordWorkerTerminal
  <2>3. \/ reason \in StopReasonsByStatus(status)
        \/ status = "unknown_outcome" /\ reason = None
    <3>1. CASE given # None
      BY <3>1
    <3>2. CASE given = None /\ status = "canceled"
      <4>1. u.status = status /\ u.stopReason = reason
        BY DEF good, finish
      <4>2. reason # None
        BY <3>2, ReasonsAssumption DEF defaultStopReason
      <4> QED  BY <2>2, <3>2, <4>1, <4>2 DEF Storable
    <3>3. CASE given = None /\ status # "canceled"
      BY <1>2, <2>1, <3>3, DefaultReasonFits
    <3> QED  BY <3>1, <3>2, <3>3
  <2>4. /\ cleared \in SUBSET Flags /\ stored \in Results
        /\ "cancelPending" \notin cleared /\ "cancelClaimed" \notin cleared
    BY DEF good
  <2>5. keeps(w, u)
    BY <1>2, <2>3, <2>4, ObservationKeeps
  <2> QED  BY <2>2, <2>5
<1> QED  BY <1>1, <1>2

\* settleWorkerCancellation ends a canceling session, and no other open one.
LEMMA SettleKeeps ==
  ASSUME NEW w, good(w), NEW status \in TerminalWorkerStatuses,
         NEW given \in StopReasonsByStatus(status) \cup {None},
         NEW result \in {None, "full", "partial"}, NEW keep \in BOOLEAN
  PROVE  keeps(w, settleWorkerCancellation(w, status, given, result, keep))
<1> DEFINE pending == IF keep THEN {"reconcilePending"} ELSE {}
           cleared == w.flags \ {"reconcilePending", "cancelPending", "cancelClaimed"}
           stored == IF result = None THEN w.result ELSE result
<1>1. CASE isTerminal(w)
  <2> DEFINE kept == IF w.result = None \/ "reconcilePending" \in w.flags THEN stored ELSE w.result
             flags == cleared \cup (pending \cap w.flags)
  <2>1. kept \in Results /\ flags \in SUBSET Flags /\ "cancelPending" \notin flags
    BY DEF good
  <2>2. keeps(w, [w EXCEPT !.result = kept, !.flags = flags])
    BY <1>1, <2>1, EndedKeeps
  <2>3. settleWorkerCancellation(w, status, given, result, keep) = [w EXCEPT !.result = kept, !.flags = flags]
    BY <1>1 DEF settleWorkerCancellation
  <2> QED  BY <2>2, <2>3
<1>2. CASE ~isTerminal(w) /\ w.status # "canceling"
  BY <1>2, NoChange DEF settleWorkerCancellation
<1>3. CASE w.status = "canceling"
  <2> DEFINE reason == IF given # None THEN given
                       ELSE defaultStopReason(w, status, "succeeded_before_cancellation")
             flags == cleared \cup pending
  <2>1. w.stopReason \in CancelReasons
    BY <1>3 DEF good, wholeCancellation
  <2>2. \/ reason \in StopReasonsByStatus(status)
        \/ status = "unknown_outcome" /\ reason = None
    BY <1>3, <2>1, DefaultReasonFits DEF SuccessReasons
  <2>3. /\ flags \in SUBSET Flags /\ stored \in Results
        /\ "cancelPending" \notin flags /\ "cancelClaimed" \notin flags
    BY DEF good
  <2>4. keeps(w, finish(w, status, reason, stored, flags))
    BY <1>3, <2>2, <2>3, ObservationKeeps
  <2> QED  BY <1>3, <2>4 DEF settleWorkerCancellation
<1> QED  BY <1>1, <1>2, <1>3

\* expireWorker fails an overdue session.
LEMMA ExpireKeeps ==
  ASSUME NEW w, good(w), NEW at, NEW status
  PROVE  keeps(w, expireWorker(w, at, status))
<1> DEFINE stop == IF {"cancelClaimed", "cancelDelivered"} \cap w.flags = {} THEN {"stopPending"} ELSE {}
           owed == IF isBound(w) \/ status = "launching" THEN {"reconcilePending"} \cup stop ELSE {}
           flags == (w.flags \ {"cancelPending"}) \cup owed
<1>1. CASE ~isOverdue(w, at)
  BY <1>1, NoChange DEF expireWorker
<1>2. CASE isOverdue(w, at)
  <2>1. flags \in SUBSET Flags /\ "cancelPending" \notin flags /\ w.result \in Results
    BY DEF good
  <2>2. "failed" \in TerminalStatuses /\ "deadline_exceeded" \in StopReasonsByStatus("failed")
    BY DEF StopReasonsByStatus, FailureReasons
  <2>3. keeps(w, finish(w, "failed", "deadline_exceeded", w.result, flags))
    BY <1>2, <2>1, <2>2, FinishKeeps DEF isOverdue
  <2> QED  BY <1>2, <2>3 DEF expireWorker
<1> QED  BY <1>1, <1>2

\* So it does when it sets the deadline first.
LEMMA ExpireAtKeeps ==
  ASSUME NEW w, good(w), NEW instant \in Nat, NEW at, NEW status
  PROVE  keeps(w, expireWorker(setWorkerDeadline(w, instant), at, status))
<1> DEFINE v == setWorkerDeadline(w, instant)
<1>1. good(v)
  BY DeadlineKeeps DEF keeps
<1>2. keeps(v, expireWorker(v, at, status))
  BY <1>1, ExpireKeeps
<1>3. sessionOf(v) = sessionOf(w)
  BY DEF sessionOf, good, setWorkerDeadline
<1> QED  BY <1>2, <1>3 DEF keeps, advances

\* captureResult ends an open session with the outcome of the claim.
LEMMA CaptureKeeps ==
  ASSUME NEW w, good(w), NEW claim \in Claims
  PROVE  keeps(w, captureResult(w, claim))
<1> DEFINE flags == w.flags \ {"reconcilePending", "cancelPending"}
<1>1. CASE isTerminal(w)
  BY <1>1, NoChange DEF captureResult
<1>2. CASE ~isTerminal(w)
  <2>1. captureStatus(claim) \in TerminalStatuses
    BY DEF captureStatus
  <2>2. captureStopReason(claim) \in StopReasonsByStatus(captureStatus(claim))
    BY ReasonsAssumption
       DEF Claims, captureStatus, captureStopReason, StopReasonsByStatus, SuccessReasons, FailureReasons
  <2>3. flags \in SUBSET Flags /\ "cancelPending" \notin flags /\ "captured" \in Results
    BY DEF good
  <2>4. keeps(w, finish(w, captureStatus(claim), captureStopReason(claim), "captured", flags))
    BY <1>2, <2>1, <2>2, <2>3, FinishKeeps
  <2> QED  BY <1>2, <2>4 DEF captureResult
<1> QED  BY <1>1, <1>2

\* recordLaunched binds a session, ended or not.
LEMMA LaunchedKeeps ==
  ASSUME NEW w, good(w), NEW run \in Runs, w.runId \in {NoRun, run}
  PROVE  keeps(w, recordLaunched(w, run))
<1> DEFINE u == recordLaunched(w, run)
<1>1. /\ u.runId = run /\ u.status = w.status /\ u.stopReason = w.stopReason
      /\ u.preCancel = w.preCancel /\ u \in Worker
  BY DEF good, recordLaunched
<1>2. \A f \in {"pid", "cancelPending", "cancelClaimed"} : f \in u.flags <=> f \in w.flags
  BY DEF good, recordLaunched
<1> HIDE DEF u
<1>3. good(u)
  BY <1>1, <1>2 DEF good, Storable, wholeCancellation, restorableStatus, claimIsRequested
<1>4. CASE w.runId = NoRun
  BY <1>1, <1>3, <1>4, BindsSession DEF keeps, u
<1>5. CASE w.runId = run
  BY <1>1, <1>3, <1>5, SameSession DEF keeps, u
<1> QED  BY <1>4, <1>5

\* recordLaunchFailed ends an open session and clears what an ended one owes.
LEMMA LaunchFailedKeeps ==
  ASSUME NEW w, good(w)
  PROVE  keeps(w, recordLaunchFailed(w))
<1> DEFINE cleared == w.flags \ {"cancelPending", "cancelClaimed", "reconcilePending",
                                "stopPending", "stopClaimed"}
           u == recordLaunchFailed(w)
<1>1. CASE isTerminal(w)
  <2>1. u.runId = w.runId /\ u.status = w.status /\ u.stopReason = w.stopReason
    BY <1>1 DEF good, recordLaunchFailed
  <2>2. good(u)
    BY <1>1 DEF good, Storable, wholeCancellation, restorableStatus, claimIsRequested,
       recordLaunchFailed
  <2> QED  BY <2>1, <2>2, SameSession DEF keeps
<1>2. CASE ~isTerminal(w)
  <2>1. cleared \in SUBSET Flags /\ "cancelPending" \notin cleared /\ "launch_error" \in Results
    BY DEF good
  <2>2. "failed" \in TerminalStatuses /\ "launch_error" \in StopReasonsByStatus("failed")
    BY DEF StopReasonsByStatus, FailureReasons
  <2>3. keeps(w, finish(w, "failed", "launch_error", "launch_error", cleared))
    BY <1>2, <2>1, <2>2, FinishKeeps
  <2> QED  BY <1>2, <2>3 DEF recordLaunchFailed
<1> QED  BY <1>1, <1>2

\* The schema check can refuse recordWorkerResult: it keeps the reason of a
\* pending cancellation, which the status does not admit.
LEMMA ResultKeeps ==
  ASSUME NEW w, good(w), NEW status \in {"succeeded", "failed"},
         Storable(recordWorkerResult(w, status))
  PROVE  keeps(w, recordWorkerResult(w, status))
<1> DEFINE u == recordWorkerResult(w, status)
<1>1. CASE isTerminal(w)
  BY <1>1, NoChange DEF recordWorkerResult
<1>2. CASE ~isTerminal(w)
  <2>1. u.runId = w.runId /\ u \in Worker /\ isTerminal(u)
    BY <1>2 DEF good, recordWorkerResult
  <2>2. good(u)
    BY <1>2, ReasonsAssumption DEF good, Storable, wholeCancellation, restorableStatus, claimIsRequested,
       recordWorkerResult, StopReasonsByStatus, SuccessReasons, FailureReasons
  <2> QED  BY <1>2, <2>1, <2>2, EndsSession DEF keeps
<1> QED  BY <1>1, <1>2

-----------------------------------------------------------------------------
(* The store.                                                              *)

StoreInv == TypeOK /\ \A s \in Sessions : good(worker[s])

\* Every record stays good and every session advances as the contract allows.
AllKeep == \A s \in Sessions : keeps(worker[s], worker'[s])

\* A method that keeps its record, persisted, keeps every record.
LEMMA PersistKeeps ==
  ASSUME StoreInv, NEW s \in Sessions, NEW w, Persist(s, w), Storable(w) => keeps(worker[s], w)
  PROVE  AllKeep /\ worker' \in [Sessions -> Worker]
<1>1. good(w) /\ worker' = [worker EXCEPT ![s] = w] /\ keeps(worker[s], w)
  BY DEF Persist, keeps
<1>2. worker \in [Sessions -> Worker]
  BY DEF StoreInv, TypeOK
<1>3. worker' \in [Sessions -> Worker]
  BY <1>1, <1>2 DEF good
<1>4. ASSUME NEW x \in Sessions
      PROVE  keeps(worker[x], worker'[x])
  <2>1. CASE x = s
    BY <1>1, <1>2, <2>1
  <2>2. CASE x # s
    BY <1>1, <1>2, <2>2, NoChange DEF StoreInv
  <2> QED  BY <2>1, <2>2
<1> QED  BY <1>3, <1>4 DEF AllKeep

\* A step that leaves the records alone keeps them.
LEMMA NothingKeeps ==
  ASSUME StoreInv, UNCHANGED worker
  PROVE  AllKeep
  BY NoChange DEF StoreInv, AllKeep

\* Every step of one session.
LEMMA SessionStepKeeps ==
  ASSUME StoreInv, NEW s \in Sessions, SessionNext(s)
  PROVE  AllKeep /\ TypeOK'
<1> USE DEF StoreInv
<1> DEFINE w == worker[s]
<1>0. good(w) /\ launch \in [Sessions -> AssignmentStatuses]
      /\ captured \in [Sessions -> Claims \cup {None}] /\ clock \in 0..MaxTime
  BY DEF TypeOK
<1>1. ASSUME NEW run \in Runs, NEW evidence \in BOOLEAN, BindRun(s, run, evidence)
      PROVE  AllKeep /\ TypeOK'
  BY <1>0, <1>1, BindKeeps, PersistKeeps DEF BindRun, TypeOK
<1>2. ASSUME NEW instant \in 1..MaxTime, SetDeadline(s, instant)
      PROVE  AllKeep /\ TypeOK'
  <2>1. instant \in Nat
    BY TimeAssumption
  <2> QED  BY <1>0, <1>2, <2>1, DeadlineKeeps, PersistKeeps DEF SetDeadline, TypeOK
<1>3. ASSUME NEW reason \in CancelReasons, RequestCancellation(s, reason)
      PROVE  AllKeep /\ TypeOK'
  BY <1>0, <1>3, RequestKeeps, PersistKeeps DEF RequestCancellation, TypeOK
<1>4. CASE ClaimCancellation(s)
  BY <1>0, <1>4, ClaimKeeps, PersistKeeps DEF ClaimCancellation, TypeOK
<1>5. CASE ClaimStop(s)
  BY <1>0, <1>5, ClaimStopKeeps, PersistKeeps DEF ClaimStop, TypeOK
<1>6. CASE Deliver(s)
  <2>1. PICK u : Persist(s, u) /\ keeps(w, u)
    BY <1>0, <1>6, ReleaseKeeps, DeliveredKeeps, UnsupportedKeeps, ClearKeeps, ReleaseStopKeeps,
       StopDeliveredKeeps, StopUnsupportedKeeps DEF Deliver
  <2> QED  BY <1>0, <1>6, <2>1, PersistKeeps DEF Deliver, TypeOK
<1>7. ASSUME NEW status \in TerminalWorkerStatuses, Settle(s, status)
      PROVE  AllKeep /\ TypeOK'
  <2>1. PICK u : Persist(s, u) /\ keeps(w, u)
    BY <1>0, <1>7, SettleKeeps DEF Settle
  <2> QED  BY <1>0, <1>7, <2>1, PersistKeeps DEF Settle, TypeOK
<1>8. ASSUME NEW status \in TerminalWorkerStatuses, RecordTerminal(s, status)
      PROVE  AllKeep /\ TypeOK'
  <2>1. ASSUME NEW reason \in StopReasonsByStatus(status) \cup {None}, NEW result \in {None, "full"},
               Persist(s, recordWorkerTerminal(w, status, reason, result))
        PROVE  AllKeep /\ TypeOK'
    BY <1>0, <1>8, <2>1, TerminalKeeps, PersistKeeps DEF RecordTerminal, TypeOK
  <2>2. CASE status \in {"succeeded", "failed"} /\ Persist(s, recordWorkerResult(w, status))
    BY <1>0, <1>8, <2>2, ResultKeeps, PersistKeeps DEF RecordTerminal, TypeOK
  <2> QED  BY <1>8, <2>1, <2>2 DEF RecordTerminal
<1>9. CASE Expire(s)
  <2>1. PICK instant \in {w.deadline} \cup 1..MaxTime :
          Persist(s, expireWorker(setWorkerDeadline(w, instant), clock, launch[s]))
    BY <1>9 DEF Expire
  <2>2. instant \in Nat
    BY <1>0, <2>1, TimeAssumption DEF good
  <2>3. keeps(w, expireWorker(setWorkerDeadline(w, instant), clock, launch[s]))
    BY <1>0, <2>2, ExpireAtKeeps
  <2> QED  BY <1>0, <1>9, <2>1, <2>3, PersistKeeps DEF Expire, TypeOK
<1>10. ASSUME NEW claim \in Claims, Capture(s, claim)
       PROVE  AllKeep /\ TypeOK'
  <2>1. captured' \in [Sessions -> Claims \cup {None}]
    BY <1>0, <1>10 DEF Capture
  <2> QED  BY <1>0, <1>10, <2>1, CaptureKeeps, PersistKeeps DEF Capture, TypeOK
<1>11. CASE RecordLaunching(s)
  <2>1. launch' \in [Sessions -> AssignmentStatuses] /\ UNCHANGED <<worker, captured, clock>>
    BY <1>0, <1>11 DEF RecordLaunching, AssignmentStatuses
  <2> QED  BY <1>0, <2>1, NothingKeeps DEF TypeOK
<1>12. ASSUME NEW run \in Runs, RecordLaunched(s, run)
       PROVE  AllKeep /\ TypeOK'
  <2>1. launch' \in [Sessions -> AssignmentStatuses]
    BY <1>0, <1>12 DEF RecordLaunched, AssignmentStatuses
  <2> QED  BY <1>0, <1>12, <2>1, LaunchedKeeps, PersistKeeps DEF RecordLaunched, TypeOK
<1>13. CASE RecordLaunchFailed(s)
  <2>1. launch' \in [Sessions -> AssignmentStatuses]
    BY <1>0, <1>13 DEF RecordLaunchFailed, AssignmentStatuses
  <2> QED  BY <1>0, <1>13, <2>1, LaunchFailedKeeps, PersistKeeps DEF RecordLaunchFailed, TypeOK
<1> QED
  BY <1>1, <1>2, <1>3, <1>4, <1>5, <1>6, <1>7, <1>8, <1>9, <1>10, <1>11, <1>12, <1>13 DEF SessionNext

\* Every step of the store.
LEMMA StepKeeps ==
  ASSUME StoreInv, [Next]_vars
  PROVE  AllKeep /\ TypeOK'
<1>1. CASE Tick
  <2>1. clock' \in 0..MaxTime
    BY <1>1, TimeAssumption DEF Tick, StoreInv, TypeOK
  <2> QED  BY <1>1, <2>1, NothingKeeps DEF Tick, StoreInv, TypeOK
<1>2. ASSUME NEW s \in Sessions, SessionNext(s)
      PROVE  AllKeep /\ TypeOK'
  BY <1>2, SessionStepKeeps
<1>3. CASE RecoverClaims
  <2>1. \A s \in Sessions : keeps(worker[s], worker'[s])
    BY <1>3, RecoverKeeps DEF RecoverClaims, StoreInv
  <2>2. worker' \in [Sessions -> Worker]
    <3>1. \A s \in Sessions : worker'[s] \in Worker
      BY <2>1 DEF keeps, good
    <3> QED  BY <1>3, <3>1 DEF RecoverClaims
  <2> QED  BY <1>3, <2>1, <2>2 DEF RecoverClaims, AllKeep, StoreInv, TypeOK
<1>4. ASSUME NEW alive \in SUBSET Sessions, Reconcile(alive)
      PROVE  AllKeep /\ TypeOK'
  <2>1. \A s \in Sessions : (s \in alive) \in BOOLEAN /\ worker'[s] = reconcile(worker[s], s \in alive)
    BY <1>4 DEF Reconcile
  <2>2. \A s \in Sessions : keeps(worker[s], worker'[s])
    BY <2>1, ReconcileKeeps DEF StoreInv
  <2>3. worker' \in [Sessions -> Worker]
    <3>1. \A s \in Sessions : worker'[s] \in Worker
      BY <2>2 DEF keeps, good
    <3> QED  BY <1>4, <3>1 DEF Reconcile
  <2> QED  BY <1>4, <2>2, <2>3 DEF Reconcile, AllKeep, StoreInv, TypeOK
<1>5. CASE UNCHANGED vars
  BY <1>5, NothingKeeps DEF vars, StoreInv, TypeOK
<1> QED  BY <1>1, <1>2, <1>3, <1>4, <1>5 DEF Next

\* The initial state satisfies the inductive invariant.
LEMMA InitIsGood == Init => StoreInv
<1>1. good(NewWorker)
  BY RunsAssumption DEF good, NewWorker, Storable, wholeCancellation, restorableStatus,
     claimIsRequested, NoDeadline
<1>2. Init => TypeOK
  BY <1>1 DEF Init, TypeOK, good, AssignmentStatuses
<1> QED  BY <1>1, <1>2 DEF Init, StoreInv

\* Every step of the store preserves the inductive invariant.
LEMMA StepIsGood == StoreInv /\ [Next]_vars => StoreInv'
  BY StepKeeps DEF StoreInv, AllKeep, keeps

-----------------------------------------------------------------------------
(* Theorems.                                                               *)

\* The inductive invariant: types, and every record is good.
LEMMA StoreInvariant == Spec => []StoreInv
  BY InitIsGood, StepIsGood, PTL DEF Spec

\* The durable state keeps its types, whatever methods are called.
THEOREM TypeCorrect == Spec => []TypeOK
<1>1. StoreInv => TypeOK
  BY DEF StoreInv
<1> QED  BY <1>1, StoreInvariant, PTL

\* Cancellations are requested, withdrawn and settled as a whole.
THEOREM CancellationsAreWhole == Spec => [](CancellationIsWhole /\ RestorableStatus /\ ClaimIsRequested)
<1>1. StoreInv => CancellationIsWhole /\ RestorableStatus /\ ClaimIsRequested
  BY DEF StoreInv, good, CancellationIsWhole, RestorableStatus, ClaimIsRequested
<1> QED  BY <1>1, StoreInvariant, PTL

\* The store implements the session contract: a session ends once, keeps its
\* outcome, and is bound to at most one run.
THEOREM StoreImplementsContract == Spec => ImplementsContract
<1>1. Init => Contract!Init
  <2> SUFFICES ASSUME Init PROVE Contract!Init
    OBVIOUS
  <2>1. \A s \in Sessions : worker[s] = NewWorker
    BY DEF Init
  <2>2. sessionOf(NewWorker) = [phase |-> "open", outcome |-> NoOutcome, run |-> NoRun]
    BY DEF sessionOf, NewWorker
  <2> QED  BY <2>1, <2>2 DEF Contract!Init
<1>2. ASSUME NEW u, good(u) PROVE sessionOf(u) \in Contract!SessionState
  <2>1. CASE isTerminal(u)
    BY <1>2, <2>1 DEF good, sessionOf, Contract!SessionState, Contract!Phases, Outcomes
  <2>2. CASE ~isTerminal(u)
    BY <1>2, <2>2 DEF good, sessionOf, Contract!SessionState, Contract!Phases
  <2> QED  BY <2>1, <2>2
<1>3. StoreInv /\ [Next]_vars => [Contract!Next]_[s \in Sessions |-> sessionOf(worker[s])]
  <2> SUFFICES ASSUME StoreInv, [Next]_vars
               PROVE  Contract!Next
    OBVIOUS
  <2>1. \A s \in Sessions : good(worker'[s]) /\ advances(worker[s], worker'[s])
    BY StepKeeps DEF AllKeep, keeps
  <2>2. [s \in Sessions |-> sessionOf(worker'[s])] \in [Sessions -> Contract!SessionState]
    BY <1>2, <2>1
  <2> QED  BY <2>1, <2>2 DEF Contract!Next, advances
<1> QED  BY <1>1, <1>3, StoreInvariant, PTL DEF Spec, ImplementsContract, Contract!Spec
=============================================================================
