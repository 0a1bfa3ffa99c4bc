-------------------------- MODULE LifecycleProofs --------------------------
(***************************************************************************)
(* Proofs about Lifecycle, for any sets of sessions, servers and calls, and*)
(* any bounds on the clock and on the crashes.  What each method of the    *)
(* store makes of a record is taken from the lemmas of WorkerStoreProofs.  *)
(*                                                                         *)
(* A record is sound on its own: every method keeps it so, provided that   *)
(* the call that uses the method is right about the run and about the      *)
(* record.  Both only move forward (a bound record stays bound, an ended   *)
(* one ended, a run that ended keeps its outcome, a stop that was received *)
(* stays received), so what a call saw before an await is still so after   *)
(* it.                                                                     *)
(***************************************************************************)
EXTENDS Lifecycle, TLAPS

P == INSTANCE WorkerStoreProofs

\* Results that no later observation replaces.
Kept == {"full", "captured", "launch_error"}

\* A stop that is still to be made of the run of an ended session.
Stopping == {"stopPending", "stopClaimed", "cancelClaimed", "stopUnsupported"}

\* A record w of session s, whose assignment has status l and whose run is in state r; a
\* says whether the provider has received a stop.
sound(s, w, l, r, a) ==
    /\ P!good(w)
    /\ w.runId \in {NoRun, s}
    /\ isBound(w) => l \in {None, "launched"} /\ r # "none"
    /\ l = "launched" => isBound(w)
    /\ ~isBound(w) /\ w.status \in {"canceled", "succeeded"} => l # "launching"
    /\ {"stopPending", "stopClaimed", "stopUnsupported", "reconcilePending"} \cap w.flags # {} => isTerminal(w)
    /\ "cancelClaimed" \in w.flags => isBound(w)
    /\ w.status = "canceling" => {"cancelPending", "cancelClaimed"} \cap w.flags # {} \/ a
    /\ "cancelDelivered" \in w.flags => a
    /\ isExpired(w) /\ isBound(w) /\ r = "live" => Stopping \cap w.flags # {} \/ a
    /\ isBound(w) /\ w.status = "canceled" => r = "cancelled"
    /\ isBound(w) /\ w.status = "succeeded" => r = "succeeded"
    /\ ~isTerminal(w) => w.result = None
    /\ w.result \in Kept => "reconcilePending" \notin w.flags /\ l # "launching"

\* The record of session s is sound; its dispatcher has reserved the assignment.
SessionSound(s) ==
    /\ sound(s, worker[s], launch[s], run[s], s \in asked)
    /\ dispatcher[s] # NoServer => launch[s] = "launching"

\* What a call in progress has seen is still so.
CallSound(c) ==
    LET k == call[c]
        s == call[c].session
    IN  /\ k.at <= clock
        /\ IF k.pc = "idle" THEN k = Idle ELSE s \in Sessions
        /\ k.pc \notin {"idle", "request", "expire"} => isBound(worker[s])
        /\ k.pc \in {"claim", "stop", "answer"} => k.kind \in Kinds \ {"capture"}
        /\ k.kind = "timedOut" \/ (k.kind = "expire" /\ k.pc # "expire") => isTerminal(worker[s])
        /\ k.kind = "capture" => launch[s] = "launched"
        /\ k.pc = "answer" /\ k.note = "accepted" => s \in asked
        /\ k.seen # None => run[s] = k.seen
        /\ k.pc \in {"result", "settle"} => k.seen # None
        /\ k.pc = "settle" => k.note \in {"full", "partial"}
        /\ k.pc = "capture" => k.kind = "capture" /\ k.note \in Claims /\ (k.note \in RunEnded => run[s] = k.note)

\* So it is with a stop request that outlived its call.
LateSound(z) ==
    isBound(worker[z.session]) /\ (z.claim = "stopClaimed" => isTerminal(worker[z.session]))

\* The inductive invariant.
LifecycleInv ==
    /\ TypeOK
    /\ \A s \in Sessions : SessionSound(s)
    /\ \A c \in Calls : CallSound(c)
    /\ \A z \in late : LateSound(z)

-----------------------------------------------------------------------------
(* The store of WorkerStoreProofs and that of Lifecycle.                   *)

\* What the record's definitions have in common.
USE DEF Worker, Statuses, TerminalStatuses, Flags, Results, None, isTerminal, isBound

\* The constants are as the store assumes them to be.
LEMMA StoreConstants ==
  /\ NoRun \notin Runs /\ "user_requested" \in CancelReasons
  /\ CancelReasons \subseteq {"user_requested", "orchestrator_shutdown", "superseded", "policy_revoked"}
  /\ MaxTime \in Nat
  BY RunsAssumption, ReasonsAssumption, BoundsAssumption

\* A good record, in the terms of this module.
LEMMA GoodMeans ==
  ASSUME NEW w
  PROVE  P!good(w) <=>
           /\ w \in Worker /\ Storable(w)
           /\ w.status = "canceling" <=> w.preCancel # None
           /\ w.status = "canceling" => w.stopReason \in CancelReasons
           /\ "cancelPending" \in w.flags => w.status = "canceling"
           /\ w.stopReason # None => w.status \notin {"requested", "running"}
           /\ w.preCancel # None => /\ w.preCancel \in {"requested", "running", "unknown_outcome"}
                                    /\ w.preCancel = "running" => "pid" \in w.flags
           /\ "cancelClaimed" \in w.flags => w.status \in TerminalStatuses \cup {"canceling"}
<1>1. P!Worker = Worker
  BY DEF P!Worker, P!Statuses, P!TerminalStatuses, P!Flags, P!Results, P!None, P!AllReasons, P!SuccessReasons,
     P!FailureReasons, AllReasons, SuccessReasons, FailureReasons
<1>2. P!Storable(w) <=> Storable(w)
  BY DEF P!Storable, Storable, P!isTerminal, P!TerminalStatuses, P!None, P!StopReasonsByStatus, P!SuccessReasons,
     P!FailureReasons, StopReasonsByStatus, SuccessReasons, FailureReasons
<1>3. P!wholeCancellation(w) <=>
           /\ w.status = "canceling" <=> w.preCancel # None
           /\ w.status = "canceling" => w.stopReason \in CancelReasons
           /\ "cancelPending" \in w.flags => w.status = "canceling"
           /\ w.stopReason # None => w.status \notin {"requested", "running"}
  BY DEF P!wholeCancellation, P!TerminalStatuses, P!None
<1>4. P!restorableStatus(w) <=>
           (w.preCancel # None => /\ w.preCancel \in {"requested", "running", "unknown_outcome"}
                                  /\ w.preCancel = "running" => "pid" \in w.flags)
  BY DEF P!restorableStatus, P!None
<1>5. P!claimIsRequested(w) <=> ("cancelClaimed" \in w.flags => w.status \in TerminalStatuses \cup {"canceling"})
  BY DEF P!claimIsRequested, P!TerminalStatuses
<1> HIDE DEF Worker, Statuses, TerminalStatuses, Flags, Results, None, isTerminal, isBound
<1> QED  BY <1>1, <1>2, <1>3, <1>4, <1>5, Zenon DEF P!good

\* The methods of the store, in the two of them.
LEMMA SameClaims ==
  ASSUME NEW w
  PROVE  /\ P!releaseCancellationDelivery(w) = releaseCancellationDelivery(w)
         /\ P!markCancellationDelivered(w) = markCancellationDelivered(w)
         /\ P!handleUnsupportedCancellation(w) = handleUnsupportedCancellation(w)
         /\ P!recoverLifecycleDeliveryClaims(w) = recoverLifecycleDeliveryClaims(w)
         /\ P!claimCancellationDelivery(w) = claimCancellationDelivery(w)
         /\ P!canClaimCancellationDelivery(w) <=> canClaimCancellationDelivery(w)
<1> USE DEF P!isTerminal, P!TerminalStatuses, P!isBound, P!isExpired, isExpired, P!None
<1>1. P!releaseCancellationDelivery(w) = releaseCancellationDelivery(w)
  BY DEF P!releaseCancellationDelivery, releaseCancellationDelivery
<1>2. P!markCancellationDelivered(w) = markCancellationDelivered(w)
  BY DEF P!markCancellationDelivered, markCancellationDelivered
<1>3. P!handleUnsupportedCancellation(w) = handleUnsupportedCancellation(w)
  BY DEF P!handleUnsupportedCancellation, handleUnsupportedCancellation, P!withdrawCancellation, withdrawCancellation
<1>4. P!recoverLifecycleDeliveryClaims(w) = recoverLifecycleDeliveryClaims(w)
  BY DEF P!recoverLifecycleDeliveryClaims, recoverLifecycleDeliveryClaims, P!recoverStopClaim, recoverStopClaim,
     P!recoverCancellationClaim, recoverCancellationClaim, P!releaseProviderStop, releaseProviderStop
<1>5. P!claimCancellationDelivery(w) = claimCancellationDelivery(w)
  BY DEF P!claimCancellationDelivery, claimCancellationDelivery
<1>6. P!canClaimCancellationDelivery(w) <=> canClaimCancellationDelivery(w)
  BY DEF P!canClaimCancellationDelivery, canClaimCancellationDelivery
<1> QED  BY <1>1, <1>2, <1>3, <1>4, <1>5, <1>6

\* The same of the provider stop.
LEMMA SameStops ==
  ASSUME NEW w
  PROVE  /\ P!claimProviderStop(w) = claimProviderStop(w)
         /\ P!releaseProviderStop(w) = releaseProviderStop(w)
         /\ P!markProviderStopDelivered(w) = markProviderStopDelivered(w)
         /\ P!markProviderStopUnsupported(w) = markProviderStopUnsupported(w)
<1>1. P!claimProviderStop(w) = claimProviderStop(w)
  BY DEF P!claimProviderStop, claimProviderStop
<1>2. P!releaseProviderStop(w) = releaseProviderStop(w)
  BY DEF P!releaseProviderStop, releaseProviderStop, P!isBound
<1>3. P!markProviderStopDelivered(w) = markProviderStopDelivered(w)
  BY DEF P!markProviderStopDelivered, markProviderStopDelivered
<1>4. P!markProviderStopUnsupported(w) = markProviderStopUnsupported(w)
  BY DEF P!markProviderStopUnsupported, markProviderStopUnsupported
<1> QED  BY <1>1, <1>2, <1>3, <1>4

\* And of everything else.
LEMMA SameOutcomes ==
  ASSUME NEW w
  PROVE  /\ \A reason, l : P!requestWorkerCancellation(w, reason, l) = requestWorkerCancellation(w, reason, l)
         /\ \A at, l : P!expireWorker(w, at, l) = expireWorker(w, at, l)
         /\ \A status, given, result, keep : P!settleWorkerCancellation(w, status, given, result, keep)
                                               = settleWorkerCancellation(w, status, given, result, keep)
         /\ \A claim : P!captureResult(w, claim) = captureResult(w, claim)
         /\ \A i : P!recordLaunched(w, i) = recordLaunched(w, i)
         /\ P!recordLaunchFailed(w) = recordLaunchFailed(w)
         /\ \A i, evidence : P!bindWorkerRun(w, i, evidence) = bindWorkerRun(w, i, evidence)
         /\ \A i : P!canBindWorkerRun(w, i) <=> canBindWorkerRun(w, i)
         /\ \A i : P!setWorkerDeadline(w, i) = setWorkerDeadline(w, i)
         /\ \A alive : P!reconcile(w, alive) = reconcile(w, alive)
<1> USE DEF P!isTerminal, P!TerminalStatuses, P!isBound, P!None, P!finish, finish
<1>1. \A reason, l : P!requestWorkerCancellation(w, reason, l) = requestWorkerCancellation(w, reason, l)
  BY DEF P!requestWorkerCancellation, requestWorkerCancellation
<1>2. \A at, l : P!expireWorker(w, at, l) = expireWorker(w, at, l)
  BY DEF P!expireWorker, expireWorker, P!isOverdue, isOverdue, P!NoDeadline, NoDeadline
<1>3. \A status, given, result, keep : P!settleWorkerCancellation(w, status, given, result, keep)
                                            = settleWorkerCancellation(w, status, given, result, keep)
  BY DEF P!settleWorkerCancellation, settleWorkerCancellation, P!defaultStopReason, defaultStopReason
<1>4. \A claim : P!captureResult(w, claim) = captureResult(w, claim)
  BY DEF P!captureResult, captureResult, P!captureStatus, captureStatus, P!captureStopReason, captureStopReason
<1>5. \A i : P!recordLaunched(w, i) = recordLaunched(w, i)
  BY DEF P!recordLaunched, recordLaunched
<1>6. P!recordLaunchFailed(w) = recordLaunchFailed(w)
  BY DEF P!recordLaunchFailed, recordLaunchFailed
<1>7. \A i, evidence : P!bindWorkerRun(w, i, evidence) = bindWorkerRun(w, i, evidence)
  BY DEF P!bindWorkerRun, bindWorkerRun
<1>8. \A i : P!canBindWorkerRun(w, i) <=> canBindWorkerRun(w, i)
  BY DEF P!canBindWorkerRun, canBindWorkerRun
<1>9. \A i : P!setWorkerDeadline(w, i) = setWorkerDeadline(w, i)
  BY DEF P!setWorkerDeadline, setWorkerDeadline
<1>10. \A alive : P!reconcile(w, alive) = reconcile(w, alive)
  BY DEF P!reconcile, reconcile
<1> QED  BY <1>1, <1>2, <1>3, <1>4, <1>5, <1>6, <1>7, <1>8, <1>9, <1>10

-----------------------------------------------------------------------------
(* What the methods make of a sound record.                                *)

\* An ended record stays ended, a bound one bound, and a kept result as it is.
follows(w, u) ==
    /\ isTerminal(w) => isTerminal(u)
    /\ isBound(w) => isBound(u)
    /\ w.result \in Kept => u.result = w.result

\* A record w of session s becomes u, which is sound and follows w.
moves(s, w, u, l, r, a) == sound(s, u, l, r, a) /\ follows(w, u)

\* Flags that a sound record may change to.
fits(w, flags, r, a) ==
    /\ flags \subseteq Flags
    /\ {"stopPending", "stopClaimed", "stopUnsupported", "reconcilePending"} \cap flags # {} => isTerminal(w)
    /\ "cancelClaimed" \in flags => isBound(w)
    /\ "cancelDelivered" \in flags => a
    /\ "reconcilePending" \in flags => "reconcilePending" \in w.flags
    /\ w.status = "canceling" => {"cancelPending", "cancelClaimed"} \cap flags # {} \/ a
    /\ isExpired(w) /\ isBound(w) /\ r = "live" => Stopping \cap flags # {} \/ a

\* A method that changes only flags, to fitting ones.
LEMMA FlagsMove ==
  ASSUME NEW s, NEW w, NEW l, NEW r, NEW a \in BOOLEAN, sound(s, w, l, r, a),
         NEW flags, fits(w, flags, r, a), NEW u, u = [w EXCEPT !.flags = flags], P!good(u)
  PROVE  moves(s, w, u, l, r, a)
<1>1. w \in Worker
  BY GoodMeans DEF sound
<1>2. /\ u.flags = flags /\ u.status = w.status /\ u.runId = w.runId /\ u.stopReason = w.stopReason
      /\ u.result = w.result
  BY <1>1
<1> QED  BY <1>2 DEF moves, sound, fits, follows, isExpired

\* The claim on a delivery is taken.
LEMMA ClaimIsSound ==
  ASSUME NEW s, NEW w, NEW l, NEW r, NEW a \in BOOLEAN, sound(s, w, l, r, a), isBound(w),
         canClaimCancellationDelivery(w)
  PROVE  moves(s, w, claimCancellationDelivery(w), l, r, a)
<1> DEFINE u == claimCancellationDelivery(w)
           flags == (w.flags \ {"cancelPending"}) \cup {"cancelClaimed"}
<1>1. P!good(u)
  BY StoreConstants, SameClaims, P!ClaimKeeps DEF P!keeps, sound
<1>2. w \in Worker /\ w.flags \in SUBSET Flags
  BY GoodMeans DEF sound
<1>3. u = [w EXCEPT !.flags = flags]
  BY <1>2 DEF claimCancellationDelivery
<1>4. fits(w, flags, r, a)
  BY <1>2 DEF sound, fits, Stopping, isExpired
<1> HIDE DEF u, flags
<1>5. moves(s, w, u, l, r, a)
  BY <1>1, <1>3, <1>4, FlagsMove
<1> QED  BY <1>5 DEF u

\* It is given back.
LEMMA ReleaseIsSound ==
  ASSUME NEW s, NEW w, NEW l, NEW r, NEW a \in BOOLEAN, sound(s, w, l, r, a)
  PROVE  moves(s, w, releaseCancellationDelivery(w), l, r, a)
<1> DEFINE u == releaseCancellationDelivery(w)
           flags == (w.flags \ {"cancelClaimed"})
                      \cup (IF w.status = "canceling" THEN {"cancelPending"}
                            ELSE IF isExpired(w) /\ isBound(w) THEN {"stopPending"} ELSE {})
<1>1. P!good(u)
  BY StoreConstants, SameClaims, P!ReleaseKeeps DEF P!keeps, sound
<1>2. w \in Worker /\ w.flags \in SUBSET Flags
  BY GoodMeans DEF sound
<1>3. u = [w EXCEPT !.flags = flags]
  BY <1>2 DEF releaseCancellationDelivery
<1>4. fits(w, flags, r, a)
  BY <1>2 DEF sound, fits, Stopping, isExpired
<1> HIDE DEF u, flags
<1>5. moves(s, w, u, l, r, a)
  BY <1>1, <1>3, <1>4, FlagsMove
<1> QED  BY <1>5 DEF u

\* The cancellation was delivered: the provider has received a stop.
LEMMA DeliveredIsSound ==
  ASSUME NEW s, NEW w, NEW l, NEW r, NEW a \in BOOLEAN, sound(s, w, l, r, a), a
  PROVE  moves(s, w, markCancellationDelivered(w), l, r, a)
<1> DEFINE u == markCancellationDelivered(w)
           flags == (w.flags \ {"cancelPending", "cancelClaimed", "stopPending", "stopClaimed"})
                      \cup {"cancelDelivered"}
<1>1. P!good(u)
  BY StoreConstants, SameClaims, P!DeliveredKeeps DEF P!keeps, sound
<1>2. w \in Worker /\ w.flags \in SUBSET Flags
  BY GoodMeans DEF sound
<1>3. u = [w EXCEPT !.flags = flags]
  BY <1>2 DEF markCancellationDelivered
<1>4. fits(w, flags, r, a)
  BY <1>2 DEF sound, fits, isExpired
<1> HIDE DEF u, flags
<1>5. moves(s, w, u, l, r, a)
  BY <1>1, <1>3, <1>4, FlagsMove
<1> QED  BY <1>5 DEF u

\* A stop is claimed.
LEMMA ClaimStopIsSound ==
  ASSUME NEW s, NEW w, NEW l, NEW r, NEW a \in BOOLEAN, sound(s, w, l, r, a), canClaimProviderStop(w)
  PROVE  moves(s, w, claimProviderStop(w), l, r, a)
<1> DEFINE u == claimProviderStop(w)
           flags == (w.flags \ {"stopPending"}) \cup {"stopClaimed"}
<1>1. P!good(u)
  BY StoreConstants, SameStops, P!ClaimStopKeeps DEF P!keeps, sound
<1>2. w \in Worker /\ w.flags \in SUBSET Flags
  BY GoodMeans DEF sound
<1>3. u = [w EXCEPT !.flags = flags]
  BY <1>2 DEF claimProviderStop
<1>4. fits(w, flags, r, a)
  BY <1>2 DEF sound, fits, Stopping, isExpired, canClaimProviderStop
<1> HIDE DEF u, flags
<1>5. moves(s, w, u, l, r, a)
  BY <1>1, <1>3, <1>4, FlagsMove
<1> QED  BY <1>5 DEF u

\* It is given back, for a session that has ended.
LEMMA ReleaseStopIsSound ==
  ASSUME NEW s, NEW w, NEW l, NEW r, NEW a \in BOOLEAN, sound(s, w, l, r, a), isTerminal(w)
  PROVE  moves(s, w, releaseProviderStop(w), l, r, a)
<1> DEFINE u == releaseProviderStop(w)
           flags == (w.flags \ {"stopClaimed"}) \cup (IF isBound(w) THEN {"stopPending"} ELSE {})
<1>1. P!good(u)
  BY StoreConstants, SameStops, P!ReleaseStopKeeps DEF P!keeps, sound
<1>2. w \in Worker /\ w.flags \in SUBSET Flags
  BY GoodMeans DEF sound
<1>3. u = [w EXCEPT !.flags = flags]
  BY <1>2 DEF releaseProviderStop
<1>4. fits(w, flags, r, a)
  BY <1>2 DEF sound, fits, Stopping, isExpired
<1> HIDE DEF u, flags
<1>5. moves(s, w, u, l, r, a)
  BY <1>1, <1>3, <1>4, FlagsMove
<1> QED  BY <1>5 DEF u

\* It was delivered.
LEMMA StopDeliveredIsSound ==
  ASSUME NEW s, NEW w, NEW l, NEW r, NEW a \in BOOLEAN, sound(s, w, l, r, a), a
  PROVE  moves(s, w, markProviderStopDelivered(w), l, r, a)
<1> DEFINE u == markProviderStopDelivered(w)
           flags == w.flags \ {"stopPending", "stopClaimed", "stopUnsupported"}
<1>1. P!good(u)
  BY StoreConstants, SameStops, P!StopDeliveredKeeps DEF P!keeps, sound
<1>2. w \in Worker /\ w.flags \in SUBSET Flags
  BY GoodMeans DEF sound
<1>3. u = [w EXCEPT !.flags = flags]
  BY <1>2 DEF markProviderStopDelivered
<1>4. fits(w, flags, r, a)
  BY <1>2 DEF sound, fits, isExpired
<1> HIDE DEF u, flags
<1>5. moves(s, w, u, l, r, a)
  BY <1>1, <1>3, <1>4, FlagsMove
<1> QED  BY <1>5 DEF u

\* The provider cannot stop.
LEMMA StopUnsupportedIsSound ==
  ASSUME NEW s, NEW w, NEW l, NEW r, NEW a \in BOOLEAN, sound(s, w, l, r, a), isTerminal(w)
  PROVE  moves(s, w, markProviderStopUnsupported(w), l, r, a)
<1> DEFINE u == markProviderStopUnsupported(w)
           flags == (w.flags \ {"stopPending", "stopClaimed"}) \cup {"stopUnsupported"}
<1>1. P!good(u)
  BY StoreConstants, SameStops, P!StopUnsupportedKeeps DEF P!keeps, sound
<1>2. w \in Worker /\ w.flags \in SUBSET Flags
  BY GoodMeans DEF sound
<1>3. u = [w EXCEPT !.flags = flags]
  BY <1>2 DEF markProviderStopUnsupported
<1>4. fits(w, flags, r, a)
  BY <1>2 DEF sound, fits, Stopping, isExpired
<1> HIDE DEF u, flags
<1>5. moves(s, w, u, l, r, a)
  BY <1>1, <1>3, <1>4, FlagsMove
<1> QED  BY <1>5 DEF u

\* A record that does not change.
LEMMA RestIsSound ==
  ASSUME NEW s, NEW w, NEW l, NEW r, NEW a \in BOOLEAN, sound(s, w, l, r, a)
  PROVE  moves(s, w, w, l, r, a)
  BY DEF moves, follows

\* The provider rejected the cancellation: it is withdrawn, unless the session has ended.
LEMMA UnsupportedIsSound ==
  ASSUME NEW s, NEW w, NEW l, NEW r, NEW a \in BOOLEAN, sound(s, w, l, r, a)
  PROVE  moves(s, w, handleUnsupportedCancellation(w), l, r, a)
<1> DEFINE u == handleUnsupportedCancellation(w)
           cleared == w.flags \ {"cancelPending", "cancelClaimed"}
           flags == (cleared \ {"stopPending", "stopClaimed"}) \cup {"stopUnsupported"}
<1>1. P!good(u)
  BY StoreConstants, SameClaims, P!UnsupportedKeeps DEF P!keeps, sound
<1>2. w \in Worker /\ w.flags \in SUBSET Flags
  BY GoodMeans DEF sound
<1>3. CASE isExpired(w)
  <2>1. u = [w EXCEPT !.flags = flags]
    BY <1>2, <1>3 DEF handleUnsupportedCancellation
  <2>2. fits(w, flags, r, a)
    BY <1>2, <1>3 DEF sound, fits, Stopping, isExpired
  <2> HIDE DEF u, flags
  <2>3. moves(s, w, u, l, r, a)
    BY <1>1, <2>1, <2>2, FlagsMove
  <2> QED  BY <2>3 DEF u
<1>4. CASE ~isExpired(w) /\ w.status # "canceling"
  <2>1. u = [w EXCEPT !.flags = cleared]
    BY <1>2, <1>4 DEF handleUnsupportedCancellation
  <2>2. fits(w, cleared, r, a)
    BY <1>2, <1>4 DEF sound, fits
  <2> HIDE DEF u, cleared
  <2>3. moves(s, w, u, l, r, a)
    BY <1>1, <2>1, <2>2, FlagsMove
  <2> QED  BY <2>3 DEF u
<1>5. CASE w.status = "canceling"
  <2>1. w.preCancel \in {"requested", "running", "unknown_outcome"}
    BY <1>5, GoodMeans DEF sound
  <2>2. /\ u.status = w.preCancel /\ u.flags = cleared /\ u.runId = w.runId /\ u.result = w.result
    BY <1>2, <1>5, <2>1 DEF handleUnsupportedCancellation, withdrawCancellation, isExpired
  <2> HIDE DEF u
  <2>3. moves(s, w, u, l, r, a)
    BY <1>1, <1>5, <2>1, <2>2 DEF moves, follows, sound, isExpired
  <2> QED  BY <2>3 DEF u
<1> QED  BY <1>3, <1>4, <1>5

\* Startup gives the claims of the last process back.
LEMMA RecoverIsSound ==
  ASSUME NEW s, NEW w, NEW l, NEW r, NEW a \in BOOLEAN, sound(s, w, l, r, a)
  PROVE  moves(s, w, recoverLifecycleDeliveryClaims(w), l, r, a)
<1> DEFINE u == recoverLifecycleDeliveryClaims(w)
           x == recoverCancellationClaim(w)
           owed == IF ~isBound(w) THEN {} ELSE IF ~isTerminal(w) THEN {"cancelPending"}
                   ELSE IF isExpired(w) THEN {"stopPending"} ELSE {}
           once == IF "cancelClaimed" \in w.flags THEN (w.flags \ {"cancelClaimed"}) \cup owed ELSE w.flags
           flags == IF "stopClaimed" \in once
                    THEN (once \ {"stopClaimed"}) \cup (IF isBound(w) THEN {"stopPending"} ELSE {}) ELSE once
<1>1. P!good(u)
  BY StoreConstants, SameClaims, P!RecoverKeeps DEF P!keeps, sound
<1>2. w \in Worker /\ w.flags \in SUBSET Flags /\ ("cancelClaimed" \in w.flags => w.status # "unknown_outcome")
  BY GoodMeans DEF sound
<1>3. x = [w EXCEPT !.flags = once]
  BY <1>2 DEF recoverCancellationClaim, isExpired
<1>4. x \in Worker /\ x.flags = once /\ x.runId = w.runId
  <2>1. once \in SUBSET Flags
    BY <1>2
  <2> HIDE DEF once
  <2> QED  BY <1>2, <1>3, <2>1
<1>5. u = [w EXCEPT !.flags = flags]
  <2>1. u = recoverStopClaim(x)
    BY DEF recoverLifecycleDeliveryClaims
  <2> HIDE DEF x, u, once
  <2> QED  BY <1>2, <1>3, <1>4, <2>1 DEF recoverStopClaim, releaseProviderStop
<1>6. fits(w, flags, r, a)
  BY <1>2 DEF sound, fits, Stopping, isExpired
<1> HIDE DEF u, flags
<1>7. moves(s, w, u, l, r, a)
  BY <1>1, <1>5, <1>6, FlagsMove
<1> QED  BY <1>7 DEF u

\* A deadline is set.
LEMMA DeadlineIsSound ==
  ASSUME NEW s, NEW w, NEW l, NEW r, NEW a \in BOOLEAN, sound(s, w, l, r, a), NEW instant \in Nat
  PROVE  moves(s, w, setWorkerDeadline(w, instant), l, r, a)
<1> DEFINE u == setWorkerDeadline(w, instant)
<1>1. P!good(u)
  <2>1. P!setWorkerDeadline(w, instant) = u /\ P!good(w)
    BY SameOutcomes DEF sound
  <2> HIDE DEF u
  <2>2. P!keeps(w, P!setWorkerDeadline(w, instant))
    BY <2>1, StoreConstants, P!DeadlineKeeps
  <2> QED  BY <2>1, <2>2 DEF P!keeps
<1>2. w \in Worker
  BY GoodMeans DEF sound
<1>3. /\ u.status = w.status /\ u.flags = w.flags /\ u.runId = w.runId /\ u.result = w.result
      /\ u.stopReason = w.stopReason
  BY <1>2 DEF setWorkerDeadline
<1> HIDE DEF u
<1>4. sound(s, u, l, r, a)
  BY <1>1, <1>3 DEF sound, isExpired
<1>5. follows(w, u)
  BY <1>3 DEF follows
<1> QED  BY <1>4, <1>5 DEF u, moves

\* The periodic reconcile.
LEMMA ReconcileIsSound ==
  ASSUME NEW s, NEW w, NEW l, NEW r, NEW a \in BOOLEAN, sound(s, w, l, r, a), NEW alive \in BOOLEAN
  PROVE  moves(s, w, reconcile(w, alive), l, r, a)
<1> DEFINE u == reconcile(w, alive)
<1>1. P!good(u)
  <2>1. P!reconcile(w, alive) = u /\ P!good(w)
    BY SameOutcomes DEF sound
  <2> HIDE DEF u
  <2>2. P!keeps(w, P!reconcile(w, alive))
    BY <2>1, StoreConstants, P!ReconcileKeeps
  <2> QED  BY <2>1, <2>2 DEF P!keeps
<1>2. w \in Worker
  BY GoodMeans DEF sound
<1>3. /\ u.flags = w.flags /\ u.runId = w.runId /\ u.result = w.result /\ u.stopReason = w.stopReason
      /\ u.status = w.status \/ (w.status = "running" /\ u.status = "unknown_outcome")
  BY <1>2 DEF reconcile
<1> HIDE DEF u
<1>4. sound(s, u, l, r, a)
  BY <1>1, <1>3 DEF sound, isExpired
<1>5. follows(w, u)
  BY <1>3 DEF follows
<1> QED  BY <1>4, <1>5 DEF u, moves

\* The embedding program binds the run it has started.
LEMMA BindIsSound ==
  ASSUME NEW s \in Runs, NEW w, NEW r, NEW a \in BOOLEAN, sound(s, w, None, r, a), NEW evidence \in BOOLEAN,
         canBindWorkerRun(w, s)
  PROVE  moves(s, w, bindWorkerRun(w, s, evidence), None, "live", a)
<1> DEFINE u == bindWorkerRun(w, s, evidence)
<1>1. P!good(u)
  <2>1. P!bindWorkerRun(w, s, evidence) = u /\ P!good(w) /\ P!canBindWorkerRun(w, s)
    BY SameOutcomes DEF sound
  <2> HIDE DEF u
  <2>2. P!keeps(w, P!bindWorkerRun(w, s, evidence))
    BY <2>1, StoreConstants, P!BindKeeps
  <2> QED  BY <2>1, <2>2 DEF P!keeps
<1>2. w \in Worker /\ ~isTerminal(w)
  BY GoodMeans DEF sound, canBindWorkerRun
<1>3. /\ u.runId = s /\ u.result = w.result
      /\ u.status = w.status \/ (w.status = "requested" /\ u.status = "running")
      /\ u.flags = w.flags \/ u.flags = w.flags \cup {"pid"}
  BY <1>2 DEF bindWorkerRun
<1> HIDE DEF u
<1>4. sound(s, u, None, "live", a)
  BY <1>1, <1>2, <1>3, RunsAssumption DEF sound, isExpired
<1>5. follows(w, u)
  BY <1>2, <1>3, RunsAssumption DEF follows
<1> QED  BY <1>4, <1>5 DEF u, moves

\* A cancellation is requested; a session mid-launch keeps it for the run to come.
LEMMA RequestIsSound ==
  ASSUME NEW s, NEW w, NEW l, NEW r, NEW a \in BOOLEAN, sound(s, w, l, r, a), NEW reason \in CancelReasons
  PROVE  moves(s, w, requestWorkerCancellation(w, reason, l), l, r, a)
<1> DEFINE u == requestWorkerCancellation(w, reason, l)
<1>1. P!good(u)
  <2>1. P!requestWorkerCancellation(w, reason, l) = u /\ P!good(w)
    BY SameOutcomes DEF sound
  <2> HIDE DEF u
  <2>2. P!keeps(w, P!requestWorkerCancellation(w, reason, l))
    BY <2>1, StoreConstants, P!RequestKeeps
  <2> QED  BY <2>1, <2>2 DEF P!keeps
<1>2. w \in Worker
  BY GoodMeans DEF sound
<1>3. CASE isTerminal(w) \/ w.status = "canceling"
  BY <1>3, RestIsSound DEF requestWorkerCancellation
<1>4. CASE ~isTerminal(w) /\ w.status # "canceling" /\ ~isBound(w) /\ l # "launching"
  <2>1. u.status = "canceled" /\ u.flags = w.flags /\ u.runId = w.runId /\ u.result = w.result
    BY <1>2, <1>4 DEF requestWorkerCancellation
  <2> HIDE DEF u
  <2>2. sound(s, u, l, r, a)
    BY <1>1, <1>4, <2>1 DEF sound, isExpired
  <2>3. follows(w, u)
    BY <1>4, <2>1 DEF follows
  <2> QED  BY <2>2, <2>3 DEF u, moves
<1>5. CASE ~isTerminal(w) /\ w.status # "canceling" /\ ~(~isBound(w) /\ l # "launching")
  <2>1. /\ u.status = "canceling" /\ u.flags = w.flags \cup {"cancelPending"} /\ u.runId = w.runId
        /\ u.result = w.result
    BY <1>2, <1>5 DEF requestWorkerCancellation
  <2> HIDE DEF u
  <2>2. sound(s, u, l, r, a)
    BY <1>1, <1>5, <2>1 DEF sound, isExpired
  <2>3. follows(w, u)
    BY <1>5, <2>1 DEF follows
  <2> QED  BY <2>2, <2>3 DEF u, moves
<1> QED  BY <1>3, <1>4, <1>5

\* A session expires.
LEMMA ExpiryIsSound ==
  ASSUME NEW s, NEW w, NEW l, NEW r, NEW a \in BOOLEAN, sound(s, w, l, r, a), NEW at
  PROVE  moves(s, w, expireWorker(w, at, l), l, r, a)
<1> DEFINE u == expireWorker(w, at, l)
           stop == IF {"cancelClaimed", "cancelDelivered"} \cap w.flags = {} THEN {"stopPending"} ELSE {}
           owed == IF isBound(w) \/ l = "launching" THEN {"reconcilePending"} \cup stop ELSE {}
           flags == (w.flags \ {"cancelPending"}) \cup owed
<1>1. P!good(u)
  <2>1. P!expireWorker(w, at, l) = u /\ P!good(w)
    BY SameOutcomes DEF sound
  <2> HIDE DEF u
  <2>2. P!keeps(w, P!expireWorker(w, at, l))
    BY <2>1, StoreConstants, P!ExpireKeeps
  <2> QED  BY <2>1, <2>2 DEF P!keeps
<1>2. w \in Worker
  BY GoodMeans DEF sound
<1>3. CASE ~isOverdue(w, at)
  BY <1>3, RestIsSound DEF expireWorker
<1>4. CASE isOverdue(w, at)
  <2>1. ~isTerminal(w)
    BY <1>4 DEF isOverdue
  <2>2. u.status = "failed" /\ u.flags = flags /\ u.runId = w.runId /\ u.result = w.result
    BY <1>2, <1>4 DEF expireWorker, finish
  <2> HIDE DEF u
  <2>3. sound(s, u, l, r, a)
    BY <1>1, <2>1, <2>2 DEF sound, isExpired, Kept, Stopping
  <2>4. follows(w, u)
    BY <2>1, <2>2 DEF follows
  <2> QED  BY <2>3, <2>4 DEF u, moves
<1> QED  BY <1>3, <1>4

\* A provider observation settles the record of a run that has ended so.
LEMMA SettleIsSound ==
  ASSUME NEW s, NEW w, NEW l, NEW r \in RunEnded, NEW a \in BOOLEAN, sound(s, w, l, r, a), isBound(w),
         NEW result \in {"full", "partial"}
  PROVE  moves(s, w, settleFromProvider(w, r, result), l, r, a)
<1>0. PICK status \in TerminalStatuses : status = terminalStatusFor(r)
  BY DEF terminalStatusFor, RunEnded
<1>k. PICK keep \in BOOLEAN : keep = (result = "partial")
  OBVIOUS
<1> DEFINE u == settleWorkerCancellation(w, status, None, result, keep)
           pending == IF keep THEN {"reconcilePending"} ELSE {}
           cleared == w.flags \ {"reconcilePending", "cancelPending", "cancelClaimed"}
<1>u. u = settleFromProvider(w, r, result)
  BY <1>0, <1>k DEF settleFromProvider
<1>1. P!good(u)
  <2>1. /\ P!settleWorkerCancellation(w, status, None, result, keep) = u /\ P!good(w)
        /\ status \in P!TerminalWorkerStatuses
        /\ None \in P!StopReasonsByStatus(status) \cup {P!None} /\ result \in {P!None, "full", "partial"}
    BY SameOutcomes DEF sound, P!TerminalStatuses, P!TerminalWorkerStatuses, P!None
  <2> HIDE DEF u
  <2>2. P!keeps(w, P!settleWorkerCancellation(w, status, None, result, keep))
    BY <2>1, StoreConstants, P!SettleKeeps
  <2> QED  BY <2>1, <2>2 DEF P!keeps
<1>2. w \in Worker
  BY GoodMeans DEF sound
<1>3. (status = "canceled" => r = "cancelled") /\ (status = "succeeded" => r = "succeeded") /\ r # "live"
  BY <1>0 DEF terminalStatusFor, RunEnded
<1>4. CASE isTerminal(w)
  <2>1. /\ u.status = w.status /\ u.flags = cleared \cup (pending \cap w.flags) /\ u.runId = w.runId
        /\ u.stopReason = w.stopReason
        /\ u.result = IF w.result = None \/ "reconcilePending" \in w.flags THEN result ELSE w.result
    BY <1>2, <1>4 DEF settleWorkerCancellation
  <2> HIDE DEF u
  <2>2. sound(s, u, l, r, a)
    BY <1>1, <1>3, <1>4, <1>k, <2>1 DEF sound, isExpired, Kept
  <2>3. follows(w, u)
    BY <1>4, <2>1 DEF follows, sound, Kept
  <2> QED  BY <1>u, <2>2, <2>3 DEF moves
<1>5. CASE ~isTerminal(w) /\ w.status # "canceling"
  <2>1. u = w
    BY <1>5 DEF settleWorkerCancellation
  <2> HIDE DEF u
  <2> QED  BY <1>u, <2>1, RestIsSound
<1>6. CASE w.status = "canceling"
  <2>1. u.status = status /\ u.flags = cleared \cup pending /\ u.runId = w.runId /\ u.result = result
    BY <1>2, <1>6 DEF settleWorkerCancellation, finish
  <2> HIDE DEF u
  <2>2. sound(s, u, l, r, a)
    BY <1>1, <1>3, <1>6, <1>k, <2>1 DEF sound, isExpired, Kept
  <2>3. follows(w, u)
    BY <1>6, <2>1 DEF follows, sound, Kept
  <2> QED  BY <1>u, <2>2, <2>3 DEF moves
<1> QED  BY <1>4, <1>5, <1>6

\* A captured result ends an open session.
LEMMA CaptureIsSound ==
  ASSUME NEW s, NEW w, NEW r, NEW a \in BOOLEAN, sound(s, w, "launched", r, a), NEW claim \in Claims,
         claim \in RunEnded => r = claim
  PROVE  moves(s, w, captureResult(w, claim), "launched", r, a)
<1> DEFINE u == captureResult(w, claim)
           flags == w.flags \ {"reconcilePending", "cancelPending"}
<1>1. P!good(u)
  <2>1. P!captureResult(w, claim) = u /\ P!good(w) /\ claim \in P!Claims
    BY SameOutcomes DEF sound, P!Claims, Claims
  <2> HIDE DEF u
  <2>2. P!keeps(w, P!captureResult(w, claim))
    BY <2>1, StoreConstants, P!CaptureKeeps
  <2> QED  BY <2>1, <2>2 DEF P!keeps
<1>2. w \in Worker /\ isBound(w)
  BY GoodMeans DEF sound
<1>3. CASE isTerminal(w)
  BY <1>3, RestIsSound DEF captureResult
<1>4. CASE ~isTerminal(w)
  <2>1. /\ u.status = captureStatus(claim) /\ u.flags = flags /\ u.runId = w.runId /\ u.result = "captured"
        /\ u.stopReason = captureStopReason(claim)
    BY <1>2, <1>4 DEF captureResult, finish
  <2>2. /\ u.status \in TerminalStatuses /\ u.stopReason # "deadline_exceeded"
        /\ u.status = "canceled" => r = "cancelled"
        /\ u.status = "succeeded" => r = "succeeded"
    BY <2>1 DEF captureStatus, captureStopReason, RunEnded
  <2> HIDE DEF u
  <2>3. sound(s, u, "launched", r, a)
    BY <1>1, <1>2, <1>4, <2>1, <2>2 DEF sound, isExpired
  <2>4. follows(w, u)
    BY <1>4, <2>1, <2>2 DEF follows, sound, Kept
  <2> QED  BY <2>3, <2>4 DEF u, moves
<1> QED  BY <1>3, <1>4

\* A run is bound by the dispatcher.
LEMMA LaunchedIsSound ==
  ASSUME NEW s \in Runs, NEW w, NEW r, NEW a \in BOOLEAN, sound(s, w, "launching", r, a), r # "none"
  PROVE  moves(s, w, recordLaunched(w, s), "launched", r, a)
<1> DEFINE u == recordLaunched(w, s)
           flags == w.flags \cup (IF isTerminal(w) THEN {"reconcilePending", "stopPending"} ELSE {})
<1>1. w \in Worker /\ ~isBound(w)
  BY GoodMeans DEF sound
<1>2. P!good(u)
  <2>1. P!recordLaunched(w, s) = u /\ P!good(w) /\ w.runId \in {NoRun, s}
    BY SameOutcomes DEF sound
  <2> HIDE DEF u
  <2>2. P!keeps(w, P!recordLaunched(w, s))
    BY <2>1, StoreConstants, P!LaunchedKeeps
  <2> QED  BY <2>1, <2>2 DEF P!keeps
<1>3. u.status = w.status /\ u.flags = flags /\ u.runId = s /\ u.result = w.result /\ u.stopReason = w.stopReason
  BY <1>1 DEF recordLaunched
<1> HIDE DEF u
<1>4. sound(s, u, "launched", r, a)
  BY <1>1, <1>2, <1>3, RunsAssumption DEF sound, isExpired, Stopping
<1>5. follows(w, u)
  BY <1>1, <1>3, RunsAssumption DEF follows
<1> QED  BY <1>4, <1>5 DEF u, moves

\* The launch failed.
LEMMA LaunchFailedIsSound ==
  ASSUME NEW s, NEW w, NEW r, NEW a \in BOOLEAN, sound(s, w, "launching", r, a)
  PROVE  moves(s, w, recordLaunchFailed(w), "failed", r, a)
<1> DEFINE u == recordLaunchFailed(w)
           flags == w.flags \ {"cancelPending", "cancelClaimed", "reconcilePending", "stopPending", "stopClaimed"}
<1>1. w \in Worker /\ ~isBound(w)
  BY GoodMeans DEF sound
<1>2. P!good(u)
  <2>1. P!recordLaunchFailed(w) = u /\ P!good(w)
    BY SameOutcomes DEF sound
  <2> HIDE DEF u
  <2>2. P!keeps(w, P!recordLaunchFailed(w))
    BY <2>1, StoreConstants, P!LaunchFailedKeeps
  <2> QED  BY <2>1, <2>2 DEF P!keeps
<1>3. /\ u.flags = flags /\ u.runId = w.runId /\ isTerminal(u)
      /\ isTerminal(w) => u.result = w.result
  BY <1>1 DEF recordLaunchFailed, finish
<1> HIDE DEF u
<1>4. sound(s, u, "failed", r, a)
  BY <1>1, <1>2, <1>3 DEF sound
<1>5. follows(w, u)
  BY <1>1, <1>3 DEF follows, sound, Kept
<1> QED  BY <1>4, <1>5 DEF u, moves

-----------------------------------------------------------------------------
(* Everything moves forward.                                               *)

\* The types of the variables.
LEMMA Types ==
  ASSUME LifecycleInv
  PROVE  /\ worker \in [Sessions -> Worker] /\ launch \in [Sessions -> AssignmentStatuses]
         /\ captured \in [Sessions -> Claims \cup {None}] /\ clock \in 0..MaxTime /\ clock \in Nat
         /\ run \in [Sessions -> RunStates] /\ asked \subseteq Sessions
         /\ call \in [Calls -> CallRecord] /\ late \subseteq LateStop
         /\ dispatcher \in [Sessions -> Servers \cup {NoServer}]
         /\ up \in [Servers -> {"down", "recovered", "up"}] /\ crashes \in 0..MaxCrashes /\ usurped \subseteq Sessions
  BY BoundsAssumption DEF LifecycleInv, TypeOK

\* What a step may do to what the calls have seen.
Forward ==
    /\ clock' \in Nat /\ clock <= clock'
    /\ \A s \in Sessions :
          /\ follows(worker[s], worker'[s])
          /\ launch[s] = "launched" => launch'[s] = "launched"
          /\ s \in asked => s \in asked'
          /\ run[s] \in RunEnded => run'[s] = run[s]

\* An idle call is sound.
LEMMA IdleIsSound ==
  ASSUME NEW c, call'[c] = Idle, clock' \in Nat
  PROVE  CallSound(c)'
<1>1. /\ Idle.pc = "idle" /\ Idle.kind = None /\ Idle.seen = None /\ Idle.at = 0
  BY DEF Idle
<1> QED  BY <1>1 DEF CallSound

\* A call that does not move stays sound.
LEMMA CallKeeps ==
  ASSUME LifecycleInv, Forward, NEW c \in Calls, call'[c] = call[c]
  PROVE  CallSound(c)'
<1>1. CallSound(c) /\ call[c] \in CallRecord
  BY Types DEF LifecycleInv
<1>2. call[c].at \in Nat /\ call[c].seen \in RunEnded \cup {None}
  BY <1>1, BoundsAssumption DEF CallRecord
<1>3. CASE call[c].pc = "idle"
  BY <1>1, <1>3, IdleIsSound DEF CallSound, Forward
<1>4. CASE call[c].pc # "idle"
  <2>1. call[c].session \in Sessions
    BY <1>1, <1>4 DEF CallSound
  <2>2. call[c].at <= clock'
    BY <1>1, <1>2, Types DEF CallSound, Forward
  <2>3. PICK s \in Sessions : s = call[c].session
    BY <2>1
  <2>4. /\ isBound(worker[s]) => isBound(worker'[s])
        /\ isTerminal(worker[s]) => isTerminal(worker'[s])
        /\ launch[s] = "launched" => launch'[s] = "launched"
        /\ s \in asked => s \in asked'
        /\ run[s] \in RunEnded => run'[s] = run[s]
    BY DEF Forward, follows
  <2>5. call[c].seen # None => call[c].seen \in RunEnded
    BY <1>2
  <2> QED  BY <1>1, <1>4, <2>1, <2>2, <2>3, <2>4, <2>5 DEF CallSound
<1> QED  BY <1>3, <1>4

\* So does a stop request that outlived its call.
LEMMA LateKeeps ==
  ASSUME LifecycleInv, Forward, NEW z \in late
  PROVE  LateSound(z)'
<1>1. LateSound(z) /\ z.session \in Sessions
  BY Types DEF LifecycleInv, LateStop
<1> QED  BY <1>1 DEF LateSound, Forward, follows

\* A step keeps the invariant and moves forward.
Advances == LifecycleInv' /\ Forward

\* The invariant, from what a step changes.
LEMMA InvStep ==
  ASSUME LifecycleInv, TypeOK', Forward, \A s \in Sessions : SessionSound(s)',
         \A c \in Calls : call'[c] = call[c] \/ CallSound(c)',
         \A z \in late' : z \in late \/ LateSound(z)'
  PROVE  Advances
<1>1. \A c \in Calls : CallSound(c)'
  BY CallKeeps
<1>2. \A z \in late' : LateSound(z)'
  BY LateKeeps
<1> QED  BY <1>1, <1>2 DEF LifecycleInv, Advances

\* A sound record has its type.
LEMMA SoundIsWorker ==
  ASSUME NEW s, NEW w, NEW l, NEW r, NEW a, sound(s, w, l, r, a)
  PROVE  w \in Worker
  BY GoodMeans DEF sound

\* A session that nothing touches.
LEMMA SessionKeeps ==
  ASSUME LifecycleInv, NEW s \in Sessions, worker'[s] = worker[s], launch'[s] = launch[s], run'[s] = run[s],
         s \in asked' <=> s \in asked, dispatcher'[s] = dispatcher[s]
  PROVE  SessionSound(s)' /\ follows(worker[s], worker'[s])
<1>1. SessionSound(s)
  BY DEF LifecycleInv
<1>2. sound(s, worker'[s], launch'[s], run'[s], s \in asked')
  BY <1>1 DEF SessionSound
<1> QED  BY <1>1, <1>2 DEF SessionSound, follows

\* The record of session s moves.
LEMMA OneRecord ==
  ASSUME LifecycleInv, NEW s \in Sessions, NEW u, Store(s, u),
         moves(s, worker[s], u, launch'[s], run'[s], s \in asked'),
         dispatcher'[s] # NoServer => launch'[s] = "launching",
         \A x \in Sessions \ {s} : /\ launch'[x] = launch[x] /\ run'[x] = run[x] /\ dispatcher'[x] = dispatcher[x]
                                   /\ x \in asked' <=> x \in asked
  PROVE  /\ worker' \in [Sessions -> Worker]
         /\ \A x \in Sessions : SessionSound(x)' /\ follows(worker[x], worker'[x])
<1>1. u \in Worker
  BY SoundIsWorker DEF moves
<1>2. worker' \in [Sessions -> Worker] /\ worker'[s] = u /\ \A x \in Sessions \ {s} : worker'[x] = worker[x]
  BY <1>1, Types DEF Store
<1>3. SessionSound(s)' /\ follows(worker[s], worker'[s])
  BY <1>2 DEF moves, SessionSound
<1>4. ASSUME NEW x \in Sessions \ {s} PROVE SessionSound(x)' /\ follows(worker[x], worker'[x])
  BY <1>2, SessionKeeps
<1> QED  BY <1>2, <1>3, <1>4

-----------------------------------------------------------------------------
(* Steps of a call.                                                        *)

\* Call c moves, and the record of session s with it.
LEMMA CallMoves ==
  ASSUME LifecycleInv, NEW c \in Calls, NEW s \in Sessions, NEW u, Store(s, u),
         moves(s, worker[s], u, launch[s], run[s], s \in asked),
         UNCHANGED <<launch, clock, run, asked, dispatcher, up, crashes, usurped>>,
         captured' \in [Sessions -> Claims \cup {None}],
         call' \in [Calls -> CallRecord], \A d \in Calls \ {c} : call'[d] = call[d], CallSound(c)',
         late' \subseteq LateStop, \A z \in late' : z \in late \/ LateSound(z)'
  PROVE  Advances
<1>1. SessionSound(s)
  BY DEF LifecycleInv
<1>2. moves(s, worker[s], u, launch'[s], run'[s], s \in asked')
  OBVIOUS
<1>3. dispatcher'[s] # NoServer => launch'[s] = "launching"
  BY <1>1 DEF SessionSound
<1>4. worker' \in [Sessions -> Worker] /\ \A x \in Sessions : SessionSound(x)' /\ follows(worker[x], worker'[x])
  BY <1>2, <1>3, OneRecord
<1>5. TypeOK'
  BY <1>4, Types DEF TypeOK
<1>6. Forward
  BY <1>4, Types DEF Forward
<1> QED  BY <1>4, <1>5, <1>6, InvStep

\* Only call c moves.
LEMMA OnlyCallMoves ==
  ASSUME LifecycleInv, NEW c \in Calls, NEW s \in Sessions,
         UNCHANGED <<worker, launch, captured, clock, run, asked, dispatcher, up, crashes, usurped>>,
         call' \in [Calls -> CallRecord], \A d \in Calls \ {c} : call'[d] = call[d], CallSound(c)',
         late' \subseteq LateStop, \A z \in late' : z \in late \/ LateSound(z)'
  PROVE  Advances
<1>1. worker' = [worker EXCEPT ![s] = worker[s]]
  BY Types
<1>2. moves(s, worker[s], worker[s], launch[s], run[s], s \in asked)
  <2>1. (s \in asked) \in BOOLEAN
    OBVIOUS
  <2> QED  BY <2>1, RestIsSound DEF LifecycleInv, SessionSound
<1> QED  BY <1>1, <1>2, CallMoves, Types DEF Store

\* The places of a call.
Places == {"idle", "request", "expire", "claim", "stop", "answer", "status", "result", "settle", "capture"}
Notes == {None, "accepted", "unsupported", "failed", "full", "partial"} \cup Claims

\* A call returns.
LEMMA ReturnMoves ==
  ASSUME LifecycleInv, NEW c \in Calls, Return(c), clock' = clock
  PROVE  /\ call' \in [Calls -> CallRecord] /\ \A d \in Calls \ {c} : call'[d] = call[d]
         /\ call'[c] = Idle /\ CallSound(c)'
<1>1. Idle \in CallRecord
  BY BoundsAssumption DEF Idle, CallRecord
<1>2. call' \in [Calls -> CallRecord] /\ call'[c] = Idle /\ \A d \in Calls \ {c} : call'[d] = call[d]
  BY <1>1, Types DEF Return
<1> QED  BY <1>2, IdleIsSound, Types

\* A call goes on.
LEMMA GoMoves ==
  ASSUME LifecycleInv, NEW c \in Calls, NEW pc \in Places, NEW note \in Notes, Go(c, pc, note)
  PROVE  /\ call' \in [Calls -> CallRecord] /\ \A d \in Calls \ {c} : call'[d] = call[d]
         /\ call'[c].pc = pc /\ call'[c].note = note /\ call'[c].kind = call[c].kind
         /\ call'[c].session = call[c].session /\ call'[c].seen = call[c].seen /\ call'[c].at = call[c].at
<1> DEFINE k == [call[c] EXCEPT !.pc = pc, !.note = note]
<1>1. call[c] \in CallRecord
  BY Types
<1>2. /\ k.pc = pc /\ k.note = note /\ k.kind = call[c].kind /\ k.session = call[c].session
      /\ k.seen = call[c].seen /\ k.at = call[c].at
  BY <1>1 DEF CallRecord
<1>4. k \in CallRecord
  <2> HIDE DEF None
  <2> QED  BY <1>1 DEF CallRecord, Places, Notes
<1>3. call' = [call EXCEPT ![c] = k]
  BY DEF Go
<1> HIDE DEF k
<1> QED  BY <1>2, <1>3, <1>4, Types

\* Where a call that has been begun for a bound session may go on.
LEMMA GoIsSound ==
  ASSUME LifecycleInv, NEW c \in Calls, call[c].pc # "idle", NEW pc \in Places, NEW note \in Notes, Go(c, pc, note),
         UNCHANGED <<launch, clock, run, asked>>,
         NEW s \in Sessions, s = call[c].session, isBound(worker'[s]),
         isTerminal(worker[s]) => isTerminal(worker'[s]),
         call[c].pc = "expire" => isTerminal(worker'[s]),
         pc \notin {"idle", "request", "expire"},
         pc \in {"claim", "stop", "answer"} => call[c].kind \in Kinds \ {"capture"},
         pc = "answer" /\ note = "accepted" => s \in asked,
         pc \in {"result", "settle"} => call[c].seen # None,
         pc = "settle" => note \in {"full", "partial"},
         pc = "capture" => call[c].kind = "capture" /\ note \in Claims /\ (note \in RunEnded => run[s] = note)
  PROVE  CallSound(c)'
<1>1. CallSound(c)
  BY DEF LifecycleInv
<1>2. /\ call'[c].pc = pc /\ call'[c].note = note /\ call'[c].kind = call[c].kind
      /\ call'[c].session = call[c].session /\ call'[c].seen = call[c].seen /\ call'[c].at = call[c].at
  BY GoMoves
<1>3. /\ call'[c].at <= clock'
      /\ call'[c].kind = "timedOut" \/ (call'[c].kind = "expire" /\ call'[c].pc # "expire") => isTerminal(worker'[s])
      /\ call'[c].kind = "capture" => launch'[s] = "launched"
      /\ call'[c].seen # None => run'[s] = call'[c].seen
  BY <1>1, <1>2 DEF CallSound
<1> QED  BY <1>2, <1>3 DEF CallSound

\* What is known of a call in progress.
LEMMA InProgress ==
  ASSUME LifecycleInv, NEW c \in Calls, call[c].pc # "idle"
  PROVE  /\ call[c].session \in Sessions /\ CallSound(c) /\ call[c] \in CallRecord
         /\ sound(call[c].session, worker[call[c].session], launch[call[c].session], run[call[c].session],
                  call[c].session \in asked)
  BY Types DEF LifecycleInv, CallSound, SessionSound


\* What a step of a call leaves alone.
CallFrame == UNCHANGED <<launch, clock, run, asked, dispatcher, up, crashes, usurped>>

\* A call writes the record of its session and returns.
LEMMA ReturnStep ==
  ASSUME LifecycleInv, NEW c \in Calls, NEW s \in Sessions, NEW u, Store(s, u),
         moves(s, worker[s], u, launch[s], run[s], s \in asked), CallFrame, Return(c),
         captured' \in [Sessions -> Claims \cup {None}],
         late' \subseteq LateStop, \A z \in late' : z \in late \/ LateSound(z)'
  PROVE  Advances
<1>1. clock' = clock
  BY DEF CallFrame
<1>2. /\ call' \in [Calls -> CallRecord] /\ \A d \in Calls \ {c} : call'[d] = call[d]
      /\ CallSound(c)'
  BY <1>1, ReturnMoves
<1> QED  BY <1>2, CallMoves DEF CallFrame

\* A call writes the record of its session, which is bound, and goes on.
LEMMA GoStep ==
  ASSUME LifecycleInv, NEW c \in Calls, call[c].pc # "idle", NEW pc \in Places, NEW note \in Notes, Go(c, pc, note),
         NEW s \in Sessions, s = call[c].session, NEW u, Store(s, u),
         moves(s, worker[s], u, launch[s], run[s], s \in asked), CallFrame,
         captured' \in [Sessions -> Claims \cup {None}],
         late' \subseteq LateStop, \A z \in late' : z \in late \/ LateSound(z)',
         isBound(u), call[c].pc = "expire" => isTerminal(u),
         pc \notin {"idle", "request", "expire"},
         pc \in {"claim", "stop", "answer"} => call[c].kind \in Kinds \ {"capture"},
         pc = "answer" /\ note = "accepted" => s \in asked,
         pc \in {"result", "settle"} => call[c].seen # None,
         pc = "settle" => note \in {"full", "partial"},
         pc = "capture" => call[c].kind = "capture" /\ note \in Claims /\ (note \in RunEnded => run[s] = note)
  PROVE  Advances
<1>1. worker'[s] = u
  BY Types DEF Store
<1>2. /\ isBound(worker'[s])
      /\ isTerminal(worker[s]) => isTerminal(worker'[s])
      /\ call[c].pc = "expire" => isTerminal(worker'[s])
  BY <1>1 DEF moves, follows
<1>3. UNCHANGED <<launch, clock, run, asked>>
  BY DEF CallFrame
<1>4. CallSound(c)'
  BY <1>2, <1>3, GoIsSound
<1>5. call' \in [Calls -> CallRecord] /\ \A d \in Calls \ {c} : call'[d] = call[d]
  BY GoMoves
<1> QED  BY <1>4, <1>5, CallMoves DEF CallFrame

\* A call that does not touch the record leaves it sound.
LEMMA SameRecord ==
  ASSUME LifecycleInv, NEW s \in Sessions, worker' = worker
  PROVE  Store(s, worker[s]) /\ moves(s, worker[s], worker[s], launch[s], run[s], s \in asked)
<1>1. worker' = [worker EXCEPT ![s] = worker[s]]
  BY Types
<1>2. (s \in asked) \in BOOLEAN
  OBVIOUS
<1>3. sound(s, worker[s], launch[s], run[s], s \in asked)
  BY DEF LifecycleInv, SessionSound
<1> QED  BY <1>1, <1>2, <1>3, RestIsSound DEF Store

\* cancelSession requests the cancellation.
LEMMA RequestSound ==
  ASSUME LifecycleInv, NEW c \in Calls, NEW reason \in CancelReasons, Request(c, reason)
  PROVE  Advances
<1>1. call[c].pc = "request" /\ call[c].kind = "cancel"
  BY DEF Request, At
<1>2. PICK s \in Sessions : s = call[c].session /\ sound(s, worker[s], launch[s], run[s], s \in asked)
  BY <1>1, InProgress
<1>3. PICK u : u = requestWorkerCancellation(worker[s], reason, launch[s])
  OBVIOUS
<1>4. (s \in asked) \in BOOLEAN
  OBVIOUS
<1>5. moves(s, worker[s], u, launch[s], run[s], s \in asked)
  BY <1>2, <1>3, <1>4, RequestIsSound
<1>6. Store(s, u) /\ CallFrame /\ captured' = captured /\ late' = late
  BY <1>2, <1>3 DEF Request, KeepProvider, KeepServers, CallFrame
<1>7. captured' \in [Sessions -> Claims \cup {None}] /\ late' \subseteq LateStop
  BY <1>6, Types
<1>8. \/ isBound(u) /\ Go(c, "claim", None)
      \/ Return(c)
  BY <1>2, <1>3 DEF Request
<1>9. CASE Return(c)
  BY <1>5, <1>6, <1>7, <1>9, ReturnStep
<1>10. CASE isBound(u) /\ Go(c, "claim", None)
  <2>1. "claim" \in Places /\ None \in Notes /\ call[c].kind \in Kinds \ {"capture"}
    BY <1>1 DEF Places, Notes, Kinds
  <2> QED  BY <1>1, <1>2, <1>5, <1>6, <1>7, <1>10, <2>1, GoStep
<1> QED  BY <1>8, <1>9, <1>10

\* enforceDeadlines expires the session, or finds that it need not.
LEMMA ExpireSound ==
  ASSUME LifecycleInv, NEW c \in Calls, Expire(c)
  PROVE  Advances
<1>1. call[c].pc = "expire" /\ call[c].kind = "expire"
  BY DEF Expire, At
<1>2. PICK s \in Sessions : s = call[c].session /\ sound(s, worker[s], launch[s], run[s], s \in asked)
  BY <1>1, InProgress
<1>3. PICK u : u = expireWorker(worker[s], call[c].at, launch[s])
  OBVIOUS
<1>4. (s \in asked) \in BOOLEAN
  OBVIOUS
<1>5. moves(s, worker[s], u, launch[s], run[s], s \in asked)
  BY <1>2, <1>3, <1>4, ExpiryIsSound
<1>6. Store(s, u) /\ CallFrame /\ captured' = captured /\ late' = late
  BY <1>2, <1>3 DEF Expire, KeepProvider, KeepServers, CallFrame
<1>7. captured' \in [Sessions -> Claims \cup {None}] /\ late' \subseteq LateStop
  BY <1>6, Types
<1>8. \/ u # worker[s] /\ isBound(u) /\ Go(c, "claim", None)
      \/ Return(c)
  BY <1>2, <1>3 DEF Expire
<1>9. CASE Return(c)
  BY <1>5, <1>6, <1>7, <1>9, ReturnStep
<1>10. CASE u # worker[s] /\ isBound(u) /\ Go(c, "claim", None)
  <2>1. "claim" \in Places /\ None \in Notes /\ call[c].kind \in Kinds \ {"capture"}
    BY <1>1 DEF Places, Notes, Kinds
  <2>2. isTerminal(u)
    <3>1. worker[s] \in Worker
      BY Types
    <3> QED  BY <1>3, <1>10, <3>1 DEF expireWorker, finish
  <2> QED  BY <1>1, <1>2, <1>5, <1>6, <1>7, <1>10, <2>1, <2>2, GoStep
<1> QED  BY <1>8, <1>9, <1>10


\* A call for a run: the session is bound.
LEMMA OfBoundSession ==
  ASSUME LifecycleInv, NEW c \in Calls, call[c].pc \notin {"idle", "request", "expire"}
  PROVE  \E s \in Sessions : /\ s = call[c].session /\ sound(s, worker[s], launch[s], run[s], s \in asked)
                             /\ isBound(worker[s]) /\ (s \in asked) \in BOOLEAN
<1>1. call[c].session \in Sessions /\ isBound(worker[call[c].session])
  BY InProgress DEF CallSound
<1> QED  BY <1>1, InProgress

\* The claim on the delivery is taken, or somebody else holds it.
LEMMA ClaimDeliverySound ==
  ASSUME LifecycleInv, NEW c \in Calls, ClaimDelivery(c)
  PROVE  Advances
<1>1. call[c].pc = "claim" /\ call[c].kind \in {"cancel", "reconcile"}
  BY DEF ClaimDelivery, At
<1>2. PICK s \in Sessions : /\ s = call[c].session /\ sound(s, worker[s], launch[s], run[s], s \in asked)
                            /\ isBound(worker[s]) /\ (s \in asked) \in BOOLEAN
  BY <1>1, OfBoundSession
<1>3. CallFrame /\ captured' = captured /\ late' = late
  BY DEF ClaimDelivery, KeepProvider, KeepServers, CallFrame
<1>4. captured' \in [Sessions -> Claims \cup {None}] /\ late' \subseteq LateStop
  BY <1>3, Types
<1>5. CASE canClaimCancellationDelivery(worker[s])
  <2>1. PICK u : u = claimCancellationDelivery(worker[s])
    OBVIOUS
  <2>2. Store(s, u) /\ Go(c, "stop", None)
    BY <1>2, <1>5, <2>1 DEF ClaimDelivery
  <2>3. moves(s, worker[s], u, launch[s], run[s], s \in asked)
    BY <1>2, <1>5, <2>1, ClaimIsSound
  <2>4. "stop" \in Places /\ None \in Notes /\ call[c].kind \in Kinds \ {"capture"}
    BY <1>1 DEF Places, Notes, Kinds
  <2>5. isBound(u)
    BY <1>2, <2>3 DEF moves, follows
  <2> QED  BY <1>1, <1>2, <1>3, <1>4, <2>2, <2>3, <2>4, <2>5, GoStep
<1>6. CASE ~canClaimCancellationDelivery(worker[s])
  <2>1. worker' = worker /\ Return(c)
    BY <1>2, <1>6 DEF ClaimDelivery
  <2>2. Store(s, worker[s]) /\ moves(s, worker[s], worker[s], launch[s], run[s], s \in asked)
    BY <2>1, SameRecord
  <2> QED  BY <1>3, <1>4, <2>1, <2>2, ReturnStep
<1> QED  BY <1>5, <1>6

\* The claim on the provider stop is taken, or the call only looks at the run.
LEMMA ClaimStopSound ==
  ASSUME LifecycleInv, NEW c \in Calls, ClaimStop(c)
  PROVE  Advances
<1>1. call[c].pc = "claim" /\ call[c].kind \in {"expire", "timedOut"}
  BY DEF ClaimStop, At
<1>2. PICK s \in Sessions : /\ s = call[c].session /\ sound(s, worker[s], launch[s], run[s], s \in asked)
                            /\ isBound(worker[s]) /\ (s \in asked) \in BOOLEAN
  BY <1>1, OfBoundSession
<1>3. CallFrame /\ captured' = captured /\ late' = late
  BY DEF ClaimStop, KeepProvider, KeepServers, CallFrame
<1>4. captured' \in [Sessions -> Claims \cup {None}] /\ late' \subseteq LateStop
  BY <1>3, Types
<1>5. {"stop", "status"} \subseteq Places /\ None \in Notes /\ call[c].kind \in Kinds \ {"capture"}
  BY <1>1 DEF Places, Notes, Kinds
<1>6. CASE canClaimProviderStop(worker[s])
  <2>1. PICK u : u = claimProviderStop(worker[s])
    OBVIOUS
  <2>2. Store(s, u) /\ Go(c, "stop", None)
    BY <1>2, <1>6, <2>1 DEF ClaimStop
  <2>3. moves(s, worker[s], u, launch[s], run[s], s \in asked)
    BY <1>2, <1>6, <2>1, ClaimStopIsSound
  <2>4. isBound(u)
    BY <1>2, <2>3 DEF moves, follows
  <2> QED  BY <1>1, <1>2, <1>3, <1>4, <1>5, <2>2, <2>3, <2>4, GoStep
<1>7. CASE ~canClaimProviderStop(worker[s])
  <2>1. worker' = worker /\ Go(c, "status", None)
    BY <1>2, <1>7 DEF ClaimStop
  <2>2. Store(s, worker[s]) /\ moves(s, worker[s], worker[s], launch[s], run[s], s \in asked)
    BY <2>1, SameRecord
  <2> QED  BY <1>1, <1>2, <1>3, <1>4, <1>5, <2>1, <2>2, GoStep
<1> QED  BY <1>6, <1>7

\* The provider answers.
LEMMA AnswerSound ==
  ASSUME LifecycleInv, NEW c \in Calls, NEW answer \in {"accepted", "unsupported", "failed"}, Answer(c, answer)
  PROVE  Advances
<1>1. call[c].pc = "stop" /\ Go(c, "answer", answer)
  BY DEF Answer
<1>2. PICK s \in Sessions : /\ s = call[c].session /\ sound(s, worker[s], launch[s], run[s], s \in asked)
                            /\ isBound(worker[s]) /\ (s \in asked) \in BOOLEAN
  BY <1>1, OfBoundSession
<1>3. CallFrame /\ captured' = captured /\ late' = late /\ worker' = worker
  BY DEF Answer, KeepProvider, KeepServers, CallFrame, storeVars
<1>4. captured' \in [Sessions -> Claims \cup {None}] /\ late' \subseteq LateStop
  BY <1>3, Types
<1>5. "answer" \in Places /\ answer \in Notes
  BY DEF Places, Notes
<1>6. call[c].kind \in Kinds \ {"capture"}
  BY <1>1, InProgress DEF CallSound
<1>7. answer = "accepted" => s \in asked
  BY <1>2 DEF Answer
<1>8. Store(s, worker[s]) /\ moves(s, worker[s], worker[s], launch[s], run[s], s \in asked)
  BY <1>3, SameRecord
<1> QED  BY <1>1, <1>2, <1>3, <1>4, <1>5, <1>6, <1>7, <1>8, GoStep

\* The provider does not answer in time.
LEMMA TimeoutSound ==
  ASSUME LifecycleInv, NEW c \in Calls, Timeout(c)
  PROVE  Advances
<1>1. call[c].pc = "stop"
  BY DEF Timeout
<1>2. PICK s \in Sessions : /\ s = call[c].session /\ sound(s, worker[s], launch[s], run[s], s \in asked)
                            /\ isBound(worker[s]) /\ (s \in asked) \in BOOLEAN
  BY <1>1, OfBoundSession
<1>3. CallFrame /\ captured' = captured /\ worker' = worker
  BY DEF Timeout, KeepProvider, KeepServers, CallFrame, storeVars
<1>4. PICK z : /\ z = [server |-> Owner[c], session |-> s, claim |-> ClaimOf(call[c].kind)]
               /\ late' = late \cup {z}
  BY <1>2 DEF Timeout
<1>5. call[c].kind \in Kinds \ {"capture"} /\ (call[c].kind \in {"timedOut", "expire"} => isTerminal(worker[s]))
  BY <1>1, <1>2, InProgress DEF CallSound
<1>6. /\ z.session = s /\ z.claim = ClaimOf(call[c].kind)
      /\ z \in LateStop
  BY <1>4, ServersAssumption DEF LateStop, ClaimOf
<1>7. LateSound(z)'
  BY <1>2, <1>3, <1>5, <1>6 DEF LateSound, ClaimOf, Kinds
<1>8. late' \subseteq LateStop /\ \A y \in late' : y \in late \/ LateSound(y)'
  BY <1>4, <1>6, <1>7, Types
<1>9. Store(s, worker[s]) /\ moves(s, worker[s], worker[s], launch[s], run[s], s \in asked)
  BY <1>3, SameRecord
<1>10. captured' \in [Sessions -> Claims \cup {None}]
  BY <1>3, Types
<1>11. CASE Return(c)
  BY <1>3, <1>8, <1>9, <1>10, <1>11, ReturnStep
<1>12. CASE Go(c, "status", None)
  <2>1. "status" \in Places /\ None \in Notes
    BY DEF Places, Notes
  <2> QED  BY <1>1, <1>2, <1>3, <1>8, <1>9, <1>10, <1>12, <2>1, GoStep
<1> QED  BY <1>11, <1>12 DEF Timeout


\* What a step that also leaves the late requests and the captured results alone has to show.
LEMMA PlainFrame ==
  ASSUME LifecycleInv, captured' = captured, late' = late
  PROVE  captured' \in [Sessions -> Claims \cup {None}] /\ late' \subseteq LateStop
  BY Types

\* The answer to a cancellation is recorded.
LEMMA ApplyDeliverySound ==
  ASSUME LifecycleInv, NEW c \in Calls, ApplyDelivery(c)
  PROVE  Advances
<1>1. call[c].pc = "answer" /\ CallSound(c)
  BY InProgress DEF ApplyDelivery, At
<1>2. PICK s \in Sessions : /\ s = call[c].session /\ sound(s, worker[s], launch[s], run[s], s \in asked)
                            /\ isBound(worker[s]) /\ (s \in asked) \in BOOLEAN
  BY <1>1, OfBoundSession
<1>3. CallFrame /\ captured' = captured /\ late' = late
  BY DEF ApplyDelivery, KeepProvider, KeepServers, CallFrame
<1>4. captured' \in [Sessions -> Claims \cup {None}] /\ late' \subseteq LateStop
  BY <1>3, PlainFrame
<1>5. PICK u : /\ Store(s, u)
               /\ \/ u = markCancellationDelivered(worker[s]) /\ s \in asked
                  \/ u = handleUnsupportedCancellation(worker[s])
                  \/ u = releaseCancellationDelivery(worker[s])
               /\ Go(c, "status", None) \/ Return(c)
  BY <1>1, <1>2 DEF ApplyDelivery, CallSound
<1>6. moves(s, worker[s], u, launch[s], run[s], s \in asked)
  BY <1>2, <1>5, DeliveredIsSound, UnsupportedIsSound, ReleaseIsSound
<1>7. CASE Return(c)
  BY <1>3, <1>4, <1>5, <1>6, <1>7, ReturnStep
<1>8. CASE Go(c, "status", None)
  <2>1. "status" \in Places /\ None \in Notes
    BY DEF Places, Notes
  <2>2. isBound(u)
    BY <1>2, <1>6 DEF moves, follows
  <2> QED  BY <1>1, <1>2, <1>3, <1>4, <1>5, <1>6, <1>8, <2>1, <2>2, GoStep
<1> QED  BY <1>5, <1>7, <1>8

\* The answer to a provider stop is recorded.
LEMMA ApplyStopSound ==
  ASSUME LifecycleInv, NEW c \in Calls, ApplyStop(c)
  PROVE  Advances
<1>1. call[c].pc = "answer" /\ CallSound(c)
  BY InProgress DEF ApplyStop, At
<1>2. PICK s \in Sessions : /\ s = call[c].session /\ sound(s, worker[s], launch[s], run[s], s \in asked)
                            /\ isBound(worker[s]) /\ (s \in asked) \in BOOLEAN
  BY <1>1, OfBoundSession
<1>3. CallFrame /\ captured' = captured /\ late' = late
  BY DEF ApplyStop, KeepProvider, KeepServers, CallFrame
<1>4. captured' \in [Sessions -> Claims \cup {None}] /\ late' \subseteq LateStop
  BY <1>3, PlainFrame
<1>5. isTerminal(worker[s])
  BY <1>1, <1>2 DEF ApplyStop, At, CallSound
<1>6. PICK u : /\ Store(s, u)
               /\ \/ u = markProviderStopDelivered(worker[s]) /\ s \in asked
                  \/ u = markProviderStopUnsupported(worker[s])
                  \/ u = releaseProviderStop(worker[s])
               /\ Go(c, "status", None) \/ Return(c)
  BY <1>1, <1>2 DEF ApplyStop, CallSound
<1>7. moves(s, worker[s], u, launch[s], run[s], s \in asked)
  BY <1>2, <1>5, <1>6, StopDeliveredIsSound, StopUnsupportedIsSound, ReleaseStopIsSound
<1>8. CASE Return(c)
  BY <1>3, <1>4, <1>6, <1>7, <1>8, ReturnStep
<1>9. CASE Go(c, "status", None)
  <2>1. "status" \in Places /\ None \in Notes
    BY DEF Places, Notes
  <2>2. isBound(u)
    BY <1>2, <1>7 DEF moves, follows
  <2> QED  BY <1>1, <1>2, <1>3, <1>4, <1>6, <1>7, <1>9, <2>1, <2>2, GoStep
<1> QED  BY <1>6, <1>8, <1>9

\* A late request settles.
LEMMA LateReleaseSound ==
  ASSUME LifecycleInv, NEW z \in late, LateRelease(z)
  PROVE  Advances
<1>1. PICK s \in Sessions : s = z.session /\ SessionSound(s) /\ LateSound(z) /\ (s \in asked) \in BOOLEAN
  BY Types DEF LifecycleInv, LateStop
<1>2. z.claim \in {"cancelClaimed", "stopClaimed"}
  BY Types DEF LateStop
<1>3. PICK u : /\ Store(s, u)
               /\ \/ u = releaseCancellationDelivery(worker[s])
                  \/ u = releaseProviderStop(worker[s]) /\ isTerminal(worker[s])
  BY <1>1, <1>2 DEF LateRelease, LateSound
<1>4. moves(s, worker[s], u, launch[s], run[s], s \in asked)
  BY <1>1, <1>3, ReleaseIsSound, ReleaseStopIsSound DEF SessionSound
<1>5. /\ launch' = launch /\ clock' = clock /\ run' = run /\ asked' = asked /\ dispatcher' = dispatcher
      /\ up' = up /\ crashes' = crashes /\ usurped' = usurped /\ captured' = captured /\ call' = call /\ late' \subseteq late
  BY DEF LateRelease, KeepProvider, KeepServers
<1>6. worker' \in [Sessions -> Worker] /\ \A x \in Sessions : SessionSound(x)' /\ follows(worker[x], worker'[x])
  BY <1>1, <1>3, <1>4, <1>5, OneRecord DEF SessionSound
<1>7. TypeOK'
  BY <1>5, <1>6, Types DEF TypeOK
<1>8. Forward
  BY <1>5, <1>6, Types DEF Forward
<1> QED  BY <1>5, <1>6, <1>7, <1>8, InvStep

-----------------------------------------------------------------------------
(* Queries of the run, and what is made of their answers.                  *)

\* The run has ended.
LEMMA StatusEndedSound ==
  ASSUME LifecycleInv, NEW c \in Calls, StatusEnded(c)
  PROVE  Advances
<1>1. call[c].pc = "status" /\ CallSound(c) /\ call[c] \in CallRecord
  BY InProgress DEF StatusEnded
<1>2. PICK s \in Sessions : /\ s = call[c].session /\ sound(s, worker[s], launch[s], run[s], s \in asked)
                            /\ isBound(worker[s]) /\ (s \in asked) \in BOOLEAN
  BY <1>1, OfBoundSession
<1>3. PICK k : k = [call[c] EXCEPT !.pc = "result", !.seen = run[s]]
  OBVIOUS
<1>4. run[s] \in RunEnded /\ call' = [call EXCEPT ![c] = k]
  BY <1>2, <1>3 DEF StatusEnded
<1>5. /\ k.pc = "result" /\ k.seen = run[s] /\ k.kind = call[c].kind /\ k.session = s /\ k.at = call[c].at
      /\ k.note = call[c].note
  BY <1>1, <1>2, <1>3 DEF CallRecord
<1>6. k \in CallRecord
  <2> HIDE DEF None
  <2> QED  BY <1>1, <1>3, <1>4 DEF CallRecord
<1>7. call' \in [Calls -> CallRecord] /\ call'[c] = k /\ \A d \in Calls \ {c} : call'[d] = call[d]
  BY <1>4, <1>6, Types
<1>8. /\ worker' = worker /\ launch' = launch /\ captured' = captured /\ clock' = clock /\ run' = run /\ asked' = asked
      /\ dispatcher' = dispatcher /\ up' = up /\ crashes' = crashes /\ usurped' = usurped /\ late' = late
  BY DEF StatusEnded, KeepProvider, KeepServers, storeVars
<1>9. k.seen # None
  BY <1>4, <1>5 DEF RunEnded
<1>10. CallSound(c)'
  BY <1>1, <1>2, <1>5, <1>7, <1>8, <1>9 DEF CallSound
<1>11. UNCHANGED <<worker, launch, captured, clock, run, asked, dispatcher, up, crashes, usurped>> /\ late' \subseteq LateStop
  BY <1>8, Types
<1> QED  BY <1>7, <1>8, <1>10, <1>11, OnlyCallMoves

\* A call gives up.
LEMMA GivesUpSound ==
  ASSUME LifecycleInv, NEW c \in Calls, StatusOpen(c) \/ CaptureGivesUp(c)
  PROVE  Advances
<1>1. call[c].pc \notin {"idle", "request", "expire"} /\ Return(c)
  BY DEF StatusOpen, CaptureGivesUp, At
<1>2. PICK s \in Sessions : s = call[c].session
  BY <1>1, OfBoundSession
<1>3. CallFrame /\ captured' = captured /\ late' = late /\ worker' = worker
  BY DEF StatusOpen, CaptureGivesUp, KeepProvider, KeepServers, CallFrame, storeVars
<1>4. captured' \in [Sessions -> Claims \cup {None}] /\ late' \subseteq LateStop
  BY <1>3, PlainFrame
<1>5. Store(s, worker[s]) /\ moves(s, worker[s], worker[s], launch[s], run[s], s \in asked)
  BY <1>3, SameRecord
<1> QED  BY <1>1, <1>3, <1>4, <1>5, ReturnStep

\* A call keeps what it was told.
LEMMA ToldSound ==
  ASSUME LifecycleInv, NEW c \in Calls, NEW claim \in Claims, NEW result \in {"full", "partial"},
         StatusMalformed(c) \/ Result(c, result) \/ CaptureClaim(c, claim)
  PROVE  Advances
<1>1. /\ call[c].pc \in {"status", "result"}
      /\ \/ Go(c, "capture", "malformed") /\ call[c].kind = "capture"
         \/ Go(c, "settle", result) /\ call[c].pc = "result"
         \/ /\ Go(c, "capture", claim) /\ call[c].pc = "result" /\ call[c].kind = "capture"
            /\ claim \in {call[c].seen, "malformed", "stopped_without_result"}
  BY DEF StatusMalformed, Result, CaptureClaim, At
<1>2. PICK s \in Sessions : /\ s = call[c].session /\ sound(s, worker[s], launch[s], run[s], s \in asked)
                            /\ isBound(worker[s]) /\ (s \in asked) \in BOOLEAN
  BY <1>1, OfBoundSession
<1>3. CallFrame /\ captured' = captured /\ late' = late /\ worker' = worker
  BY DEF StatusMalformed, Result, CaptureClaim, KeepProvider, KeepServers, CallFrame, storeVars
<1>4. captured' \in [Sessions -> Claims \cup {None}] /\ late' \subseteq LateStop
  BY <1>3, PlainFrame
<1>5. Store(s, worker[s]) /\ moves(s, worker[s], worker[s], launch[s], run[s], s \in asked)
  BY <1>3, SameRecord
<1>6. CallSound(c)
  BY <1>1, InProgress
<1>7. {"capture", "settle"} \subseteq Places /\ {"malformed", result, claim} \subseteq Notes
  BY DEF Places, Notes, Claims
<1>8. CASE Go(c, "capture", "malformed") /\ call[c].kind = "capture"
  <2>1. "malformed" \in Claims /\ "malformed" \notin RunEnded
    BY DEF Claims, RunEnded
  <2> QED  BY <1>1, <1>2, <1>3, <1>4, <1>5, <1>7, <1>8, <2>1, GoStep
<1>9. CASE Go(c, "settle", result) /\ call[c].pc = "result"
  <2>1. call[c].seen # None
    BY <1>6, <1>9 DEF CallSound
  <2> QED  BY <1>1, <1>2, <1>3, <1>4, <1>5, <1>7, <1>9, <2>1, GoStep
<1>10. CASE /\ Go(c, "capture", claim) /\ call[c].pc = "result" /\ call[c].kind = "capture"
            /\ claim \in {call[c].seen, "malformed", "stopped_without_result"}
  <2>1. claim \in RunEnded => run[s] = claim
    BY <1>2, <1>6, <1>10 DEF CallSound, RunEnded
  <2> QED  BY <1>1, <1>2, <1>3, <1>4, <1>5, <1>7, <1>10, <2>1, GoStep
<1> QED  BY <1>1, <1>8, <1>9, <1>10

\* A settled outcome is recorded.
LEMMA SettleSound ==
  ASSUME LifecycleInv, NEW c \in Calls, Settle(c)
  PROVE  Advances
<1>1. call[c].pc = "settle" /\ CallSound(c) /\ call[c] \in CallRecord
  BY InProgress DEF Settle
<1>2. PICK s \in Sessions : /\ s = call[c].session /\ sound(s, worker[s], launch[s], run[s], s \in asked)
                            /\ isBound(worker[s]) /\ (s \in asked) \in BOOLEAN
  BY <1>1, OfBoundSession
<1>3. CallFrame /\ captured' = captured /\ late' = late /\ Return(c)
  BY DEF Settle, KeepProvider, KeepServers, CallFrame
<1>4. captured' \in [Sessions -> Claims \cup {None}] /\ late' \subseteq LateStop
  BY <1>3, PlainFrame
<1>5. run[s] = call[c].seen /\ run[s] \in RunEnded /\ call[c].note \in {"full", "partial"}
  BY <1>1, <1>2 DEF CallSound, CallRecord
<1>6. PICK u : u = settleFromProvider(worker[s], run[s], call[c].note)
  OBVIOUS
<1>7. Store(s, u)
  BY <1>2, <1>5, <1>6 DEF Settle
<1>8. moves(s, worker[s], u, launch[s], run[s], s \in asked)
  BY <1>2, <1>5, <1>6, SettleIsSound
<1> QED  BY <1>3, <1>4, <1>7, <1>8, ReturnStep

\* A captured result is recorded, unless there is one.
LEMMA CaptureSound ==
  ASSUME LifecycleInv, NEW c \in Calls, Capture(c)
  PROVE  Advances
<1>1. call[c].pc = "capture" /\ CallSound(c)
  BY InProgress DEF Capture
<1>2. PICK s \in Sessions : /\ s = call[c].session /\ sound(s, worker[s], launch[s], run[s], s \in asked)
                            /\ isBound(worker[s]) /\ (s \in asked) \in BOOLEAN
  BY <1>1, OfBoundSession
<1>3. CallFrame /\ late' = late /\ Return(c) /\ late' \subseteq LateStop
  BY Types DEF Capture, KeepProvider, KeepServers, CallFrame
<1>4. CASE captured[s] # None
  <2>1. worker' = worker /\ captured' = captured
    BY <1>2, <1>4 DEF Capture
  <2>2. Store(s, worker[s]) /\ moves(s, worker[s], worker[s], launch[s], run[s], s \in asked)
    BY <2>1, SameRecord
  <2>3. captured' \in [Sessions -> Claims \cup {None}]
    BY <2>1, Types
  <2> QED  BY <1>3, <2>2, <2>3, ReturnStep
<1>5. CASE captured[s] = None
  <2>1. PICK claim : claim = call[c].note
    OBVIOUS
  <2>2. claim \in Claims /\ (claim \in RunEnded => run[s] = claim)
    BY <1>1, <1>2, <2>1 DEF CallSound
  <2>3. PICK u : u = captureResult(worker[s], claim)
    OBVIOUS
  <2>4. Store(s, u) /\ captured' = [captured EXCEPT ![s] = claim]
    BY <1>2, <1>5, <2>1, <2>3 DEF Capture
  <2>5. captured' \in [Sessions -> Claims \cup {None}]
    BY <2>2, <2>4, Types
  <2>6. launch[s] = "launched"
    BY <1>1, <1>2 DEF CallSound
  <2>7. moves(s, worker[s], u, launch[s], run[s], s \in asked)
    BY <1>2, <2>2, <2>3, <2>6, CaptureIsSound
  <2> QED  BY <1>3, <2>4, <2>5, <2>7, ReturnStep
<1> QED  BY <1>4, <1>5


-----------------------------------------------------------------------------
(* The start of a call.                                                    *)

\* A call begins.
LEMMA BeginMoves ==
  ASSUME LifecycleInv, NEW c \in Calls, NEW kind \in Kinds, NEW s \in Sessions, NEW pc \in Places, pc # "idle",
         Begin(c, kind, s, pc)
  PROVE  /\ call' \in [Calls -> CallRecord] /\ \A d \in Calls \ {c} : call'[d] = call[d]
         /\ call'[c].pc = pc /\ call'[c].kind = kind /\ call'[c].session = s /\ call'[c].seen = None
         /\ call'[c].note = None /\ call'[c].at \in {0, clock}
<1> DEFINE at == IF kind = "expire" THEN clock ELSE 0
           k == [Idle EXCEPT !.kind = kind, !.session = s, !.pc = pc, !.at = at]
<1>1. at \in {0, clock} /\ at \in 0..MaxTime
  BY Types, BoundsAssumption
<1>2. call' = [call EXCEPT ![c] = k]
  BY DEF Begin
<1> HIDE DEF at
<1>3. Idle \in CallRecord /\ Idle.seen = None /\ Idle.note = None
  BY BoundsAssumption DEF Idle, CallRecord
<1>4. /\ k.pc = pc /\ k.kind = kind /\ k.session = s /\ k.seen = None /\ k.note = None /\ k.at = at
  BY <1>3 DEF CallRecord
<1>5. k \in CallRecord
  <2> HIDE DEF None
  <2> QED  BY <1>1, <1>3 DEF CallRecord, Places
<1> HIDE DEF k
<1> QED  BY <1>1, <1>2, <1>4, <1>5, Types

\* A call that begins is sound.
LEMMA BeginSound ==
  ASSUME LifecycleInv, NEW c \in Calls, NEW kind \in Kinds, NEW s \in Sessions,
         NEW pc \in {"request", "expire", "claim", "status"},
         Begin(c, kind, s, pc), UNCHANGED <<storeVars, late>>, KeepProvider, KeepServers,
         pc \notin {"request", "expire"} => isBound(worker[s]),
         pc = "claim" => kind # "capture",
         kind = "timedOut" => isTerminal(worker[s]),
         kind = "expire" => pc = "expire",
         kind = "capture" => launch[s] = "launched"
  PROVE  Advances
<1>1. pc \in Places /\ pc # "idle"
  BY DEF Places
<1>2. /\ call' \in [Calls -> CallRecord] /\ \A d \in Calls \ {c} : call'[d] = call[d]
      /\ call'[c].pc = pc /\ call'[c].kind = kind /\ call'[c].session = s /\ call'[c].seen = None
      /\ call'[c].note = None /\ call'[c].at \in {0, clock}
  BY <1>1, BeginMoves
<1>3. /\ worker' = worker /\ launch' = launch /\ captured' = captured /\ clock' = clock /\ run' = run /\ asked' = asked
      /\ dispatcher' = dispatcher /\ up' = up /\ crashes' = crashes /\ usurped' = usurped /\ late' = late
  BY DEF KeepProvider, KeepServers, storeVars
<1>4. call'[c].at <= clock'
  BY <1>2, <1>3, Types
<1>5. CallSound(c)'
  BY <1>1, <1>2, <1>3, <1>4 DEF CallSound
<1>6. UNCHANGED <<worker, launch, captured, clock, run, asked, dispatcher, up, crashes, usurped>> /\ late' \subseteq LateStop
  BY <1>3, Types
<1> QED  BY <1>2, <1>3, <1>5, <1>6, OnlyCallMoves

\* Every kind of call.
LEMMA StartSound ==
  ASSUME LifecycleInv, NEW c \in Calls, NEW s \in Sessions, StartCall(c, s)
  PROVE  Advances
<1> USE DEF Kinds
<1>1. CASE StartCancel(c, s)
  BY <1>1, BeginSound DEF StartCancel
<1>2. CASE StartExpire(c, s)
  BY <1>2, BeginSound DEF StartExpire
<1>3. CASE StartReconcile(c, s)
  <2>1. PICK pc \in {"claim", "status"} : Begin(c, "reconcile", s, pc)
    BY <1>3 DEF StartReconcile
  <2> QED  BY <1>3, <2>1, BeginSound DEF StartReconcile
<1>4. CASE StartTimedOut(c, s)
  <2>1. PICK pc \in {"claim", "status"} : Begin(c, "timedOut", s, pc)
    BY <1>4 DEF StartTimedOut
  <2>2. sound(s, worker[s], launch[s], run[s], s \in asked)
    BY DEF LifecycleInv, SessionSound
  <2>3. isTerminal(worker[s]) /\ isBound(worker[s])
    BY <1>4, <2>2 DEF StartTimedOut, pendsReconciliation, sound
  <2> QED  BY <1>4, <2>1, <2>3, BeginSound DEF StartTimedOut
<1>5. CASE StartCapture(c, s)
  BY <1>5, BeginSound DEF StartCapture
<1> QED  BY <1>1, <1>2, <1>3, <1>4, <1>5 DEF StartCall

-----------------------------------------------------------------------------
(* Launching, the provider and the servers.                                *)

\* A step of the dispatch of session s, or of its run.
LEMMA OneSession ==
  ASSUME LifecycleInv, NEW s \in Sessions, NEW u, Store(s, u),
         moves(s, worker[s], u, launch'[s], run'[s], s \in asked'),
         dispatcher'[s] # NoServer => launch'[s] = "launching",
         \A x \in Sessions \ {s} : /\ launch'[x] = launch[x] /\ run'[x] = run[x] /\ dispatcher'[x] = dispatcher[x]
                                   /\ x \in asked' <=> x \in asked,
         launch[s] = "launched" => launch'[s] = "launched", s \in asked => s \in asked',
         run[s] \in RunEnded => run'[s] = run[s],
         launch' \in [Sessions -> AssignmentStatuses], run' \in [Sessions -> RunStates], asked' \subseteq Sessions,
         dispatcher' \in [Sessions -> Servers \cup {NoServer}],
         clock' = clock, captured' = captured, call' = call, late' = late, up' = up, crashes' = crashes, usurped' = usurped
  PROVE  Advances
<1>1. worker' \in [Sessions -> Worker] /\ \A x \in Sessions : SessionSound(x)' /\ follows(worker[x], worker'[x])
  BY OneRecord
<1>2. TypeOK'
  BY <1>1, Types DEF TypeOK
<1>3. clock' \in Nat /\ clock <= clock'
  BY Types
<1>4. \A x \in Sessions :
          /\ launch[x] = "launched" => launch'[x] = "launched"
          /\ x \in asked => x \in asked'
          /\ run[x] \in RunEnded => run'[x] = run[x]
  <2> TAKE x \in Sessions
  <2> QED  BY x = s \/ x # s
<1>5. Forward
  BY <1>1, <1>3, <1>4 DEF Forward
<1> QED  BY <1>1, <1>2, <1>5, InvStep

\* Dispatch reserves the assignment of an open session.
LEMMA DispatchSound ==
  ASSUME LifecycleInv, NEW v \in Servers, NEW s \in Sessions, Dispatch(v, s) \/ DispatchEnded(v, s)
  PROVE  Advances
<1>1. /\ worker' = worker /\ captured' = captured /\ clock' = clock /\ run' = run /\ asked' = asked
      /\ call' = call /\ late' = late /\ up' = up /\ crashes' = crashes /\ usurped' = usurped
  BY DEF Dispatch, DispatchEnded, KeepProvider, KeepServers
<1>2. SessionSound(s) /\ (s \in asked) \in BOOLEAN
  BY DEF LifecycleInv
<1>3. Store(s, worker[s])
  BY <1>1, SameRecord
<1>4. CASE Dispatch(v, s)
  <2>1. /\ launch' = [launch EXCEPT ![s] = "launching"] /\ dispatcher' = [dispatcher EXCEPT ![s] = v]
        /\ launch[s] \in {"accepted", "launching"} /\ ~isTerminal(worker[s])
    BY <1>4 DEF Dispatch, pendingAssignment
  <2>2. /\ launch' \in [Sessions -> AssignmentStatuses] /\ launch'[s] = "launching"
        /\ dispatcher' \in [Sessions -> Servers \cup {NoServer}]
        /\ \A x \in Sessions \ {s} : launch'[x] = launch[x] /\ dispatcher'[x] = dispatcher[x]
    BY <2>1, Types DEF AssignmentStatuses
  <2>3. sound(s, worker[s], "launching", run[s], s \in asked)
    BY <1>2, <2>1 DEF SessionSound, sound, Kept
  <2>4. moves(s, worker[s], worker[s], "launching", run[s], s \in asked)
    BY <1>2, <2>3, RestIsSound
  <2> QED  BY <1>1, <1>3, <2>1, <2>2, <2>4, Types, OneSession
<1>5. CASE DispatchEnded(v, s)
  <2>1. /\ launch' = [launch EXCEPT ![s] = "failed"] /\ dispatcher' = dispatcher /\ dispatcher[s] = NoServer
        /\ launch[s] = "accepted" /\ isTerminal(worker[s])
    BY <1>5 DEF DispatchEnded, KeepServers
  <2>2. /\ launch' \in [Sessions -> AssignmentStatuses] /\ launch'[s] = "failed"
        /\ \A x \in Sessions \ {s} : launch'[x] = launch[x]
    BY <2>1, Types DEF AssignmentStatuses
  <2>3. sound(s, worker[s], "failed", run[s], s \in asked)
    BY <1>2, <2>1 DEF SessionSound, sound
  <2>4. moves(s, worker[s], worker[s], "failed", run[s], s \in asked)
    BY <1>2, <2>3, RestIsSound
  <2> QED  BY <1>1, <1>3, <2>1, <2>2, <2>4, Types, OneSession
<1> QED  BY <1>4, <1>5

\* The dispatch ends, with a run or without one.
LEMMA DispatchEndsSound ==
  ASSUME LifecycleInv, NEW s \in Sessions, RecordLaunched(s) \/ RecordLaunchFailed(s) \/ DispatchGivesUp(s)
  PROVE  Advances
<1>1. /\ captured' = captured /\ clock' = clock /\ run' = run /\ asked' = asked
      /\ call' = call /\ late' = late /\ up' = up /\ crashes' = crashes /\ usurped' = usurped
      /\ dispatcher' = [dispatcher EXCEPT ![s] = NoServer] /\ dispatcher[s] # NoServer
  BY DEF RecordLaunched, RecordLaunchFailed, DispatchGivesUp, KeepProvider, storeVars
<1>2. SessionSound(s) /\ (s \in asked) \in BOOLEAN
  BY DEF LifecycleInv
<1>3. launch[s] = "launching" /\ sound(s, worker[s], "launching", run[s], s \in asked)
  BY <1>1, <1>2 DEF SessionSound
<1>4. /\ dispatcher' \in [Sessions -> Servers \cup {NoServer}] /\ dispatcher'[s] = NoServer
      /\ \A x \in Sessions \ {s} : dispatcher'[x] = dispatcher[x]
  BY <1>1, Types
<1>5. CASE RecordLaunched(s)
  <2>1. PICK u : u = recordLaunched(worker[s], s)
    OBVIOUS
  <2>2. Store(s, u) /\ launch' = [launch EXCEPT ![s] = "launched"] /\ run[s] # "none"
    BY <1>5, <2>1 DEF RecordLaunched
  <2>3. /\ launch' \in [Sessions -> AssignmentStatuses] /\ launch'[s] = "launched"
        /\ \A x \in Sessions \ {s} : launch'[x] = launch[x]
    BY <2>2, Types DEF AssignmentStatuses
  <2>4. moves(s, worker[s], u, "launched", run[s], s \in asked)
    BY <1>2, <1>3, <2>1, <2>2, SessionsAssumption, LaunchedIsSound
  <2> QED  BY <1>1, <1>4, <2>2, <2>3, <2>4, Types, OneSession
<1>6. CASE RecordLaunchFailed(s)
  <2>1. PICK u : u = recordLaunchFailed(worker[s])
    OBVIOUS
  <2>2. Store(s, u) /\ launch' = [launch EXCEPT ![s] = "failed"]
    BY <1>6, <2>1 DEF RecordLaunchFailed
  <2>3. /\ launch' \in [Sessions -> AssignmentStatuses] /\ launch'[s] = "failed"
        /\ \A x \in Sessions \ {s} : launch'[x] = launch[x]
    BY <2>2, Types DEF AssignmentStatuses
  <2>4. moves(s, worker[s], u, "failed", run[s], s \in asked)
    BY <1>2, <1>3, <2>1, LaunchFailedIsSound
  <2> QED  BY <1>1, <1>3, <1>4, <2>2, <2>3, <2>4, Types, OneSession
<1>7. CASE DispatchGivesUp(s)
  <2>1. worker' = worker /\ launch' = launch
    BY <1>7 DEF DispatchGivesUp, storeVars
  <2>2. Store(s, worker[s]) /\ moves(s, worker[s], worker[s], launch[s], run[s], s \in asked)
    BY <2>1, SameRecord
  <2> QED  BY <1>1, <1>3, <1>4, <2>1, <2>2, Types, OneSession
<1> QED  BY <1>5, <1>6, <1>7


\* A program binds the run of a session without assignment.
LEMMA BindRunSound ==
  ASSUME LifecycleInv, NEW s \in Sessions, NEW evidence \in BOOLEAN, BindRun(s, evidence)
  PROVE  Advances
<1>1. PICK u : u = bindWorkerRun(worker[s], s, evidence)
  OBVIOUS
<1>2. /\ Store(s, u) /\ run' = [run EXCEPT ![s] = "live"] /\ launch[s] = None /\ run[s] = "none"
      /\ canBindWorkerRun(worker[s], s)
      /\ launch' = launch /\ captured' = captured /\ clock' = clock /\ asked' = asked /\ dispatcher' = dispatcher
      /\ call' = call /\ late' = late /\ up' = up /\ crashes' = crashes /\ usurped' = usurped
  BY <1>1 DEF BindRun, KeepServers
<1>3. SessionSound(s) /\ (s \in asked) \in BOOLEAN
  BY DEF LifecycleInv
<1>4. moves(s, worker[s], u, None, "live", s \in asked)
  BY <1>1, <1>2, <1>3, SessionsAssumption, BindIsSound DEF SessionSound
<1>5. run' \in [Sessions -> RunStates] /\ run'[s] = "live" /\ \A x \in Sessions \ {s} : run'[x] = run[x]
  BY <1>2, Types DEF RunStates
<1>6. dispatcher'[s] # NoServer => launch'[s] = "launching"
  BY <1>2, <1>3 DEF SessionSound
<1>7. moves(s, worker[s], u, launch'[s], run'[s], s \in asked')
  BY <1>2, <1>4, <1>5
<1>8. run[s] \notin RunEnded
  BY <1>2 DEF RunEnded
<1> QED  BY <1>2, <1>5, <1>6, <1>7, <1>8, Types, OneSession

\* A deadline is set.
LEMMA SetDeadlineSound ==
  ASSUME LifecycleInv, NEW s \in Sessions, NEW instant \in 1..MaxTime, SetDeadline(s, instant)
  PROVE  Advances
<1>1. PICK u : u = setWorkerDeadline(worker[s], instant)
  OBVIOUS
<1>2. /\ Store(s, u) /\ run' = run
      /\ launch' = launch /\ captured' = captured /\ clock' = clock /\ asked' = asked /\ dispatcher' = dispatcher
      /\ call' = call /\ late' = late /\ up' = up /\ crashes' = crashes /\ usurped' = usurped
  BY <1>1 DEF SetDeadline, KeepServers, KeepProvider
<1>3. SessionSound(s) /\ (s \in asked) \in BOOLEAN /\ instant \in Nat
  BY BoundsAssumption DEF LifecycleInv
<1>4. moves(s, worker[s], u, launch[s], run[s], s \in asked)
  BY <1>1, <1>2, <1>3, DeadlineIsSound DEF SessionSound
<1>5. dispatcher'[s] # NoServer => launch'[s] = "launching"
  BY <1>2, <1>3 DEF SessionSound
<1> QED  BY <1>2, <1>4, <1>5, Types, OneSession

\* The run of session s, or the request to stop it, moves on.
LEMMA ProviderSound ==
  ASSUME LifecycleInv, NEW s \in Sessions, ProviderStep(s)
  PROVE  Advances
<1>1. /\ worker' = worker /\ launch' = launch /\ captured' = captured /\ clock' = clock /\ dispatcher' = dispatcher
      /\ call' = call /\ late' = late /\ up' = up /\ crashes' = crashes /\ usurped' = usurped
  BY DEF ProviderStep, ProviderLaunches, StopReceived, RunStops, RunEnds, KeepServers, storeVars
<1>2. SessionSound(s) /\ Store(s, worker[s])
  BY <1>1, SameRecord DEF LifecycleInv
<1>3. \/ run' = run /\ asked' = asked \cup {s}
      \/ /\ asked' = asked
         /\ \/ dispatcher[s] # NoServer /\ run[s] = "none" /\ run' = [run EXCEPT ![s] = "live"]
            \/ \E outcome \in RunEnded : run[s] = "live" /\ run' = [run EXCEPT ![s] = outcome]
  BY DEF ProviderStep, ProviderLaunches, StopReceived, RunStops, RunEnds, RunEnded
<1>4. dispatcher'[s] # NoServer => launch'[s] = "launching"
  BY <1>1, <1>2 DEF SessionSound
<1>5. CASE run' = run /\ asked' = asked \cup {s}
  <2>1. PICK a \in BOOLEAN : a = (s \in asked') /\ a
    BY <1>5
  <2>2. sound(s, worker[s], launch[s], run[s], a)
    BY <1>2, <2>1 DEF SessionSound, sound
  <2>3. moves(s, worker[s], worker[s], launch[s], run[s], a)
    BY <2>2, RestIsSound
  <2>4. moves(s, worker[s], worker[s], launch'[s], run'[s], s \in asked')
    BY <1>1, <1>5, <2>1, <2>3
  <2> QED  BY <1>1, <1>2, <1>4, <1>5, <2>4, Types, OneSession
<1>6. CASE asked' = asked /\ dispatcher[s] # NoServer /\ run[s] = "none" /\ run' = [run EXCEPT ![s] = "live"]
  <2>1. run' \in [Sessions -> RunStates] /\ run'[s] = "live" /\ \A x \in Sessions \ {s} : run'[x] = run[x]
    BY <1>6, Types DEF RunStates
  <2>2. ~isBound(worker[s])
    BY <1>2, <1>6 DEF SessionSound, sound
  <2>3. sound(s, worker[s], launch[s], "live", s \in asked)
    BY <1>2, <1>6, <2>2 DEF SessionSound, sound
  <2>4. moves(s, worker[s], worker[s], launch[s], "live", s \in asked)
    <3>1. (s \in asked) \in BOOLEAN
      OBVIOUS
    <3> QED  BY <2>3, <3>1, RestIsSound
  <2>5. run[s] \notin RunEnded
    BY <1>6 DEF RunEnded
  <2> QED  BY <1>1, <1>2, <1>4, <1>6, <2>1, <2>4, <2>5, Types, OneSession
<1>7. ASSUME NEW outcome \in RunEnded, asked' = asked, run[s] = "live", run' = [run EXCEPT ![s] = outcome]
      PROVE  Advances
  <2>1. run' \in [Sessions -> RunStates] /\ run'[s] = outcome /\ \A x \in Sessions \ {s} : run'[x] = run[x]
    BY <1>7, Types DEF RunStates
  <2>2. outcome \notin {"none", "live"} /\ run[s] \notin RunEnded
    BY <1>7 DEF RunEnded
  <2>3. sound(s, worker[s], launch[s], outcome, s \in asked)
    BY <1>2, <1>7, <2>2 DEF SessionSound, sound
  <2>4. moves(s, worker[s], worker[s], launch[s], outcome, s \in asked)
    <3>1. (s \in asked) \in BOOLEAN
      OBVIOUS
    <3> QED  BY <2>3, <3>1, RestIsSound
  <2> QED  BY <1>1, <1>2, <1>4, <1>7, <2>1, <2>2, <2>4, Types, OneSession
<1> QED  BY <1>3, <1>5, <1>6, <1>7

\* Time passes.
LEMMA TickSound ==
  ASSUME LifecycleInv, Tick
  PROVE  Advances
<1>1. /\ worker' = worker /\ launch' = launch /\ captured' = captured /\ run' = run /\ asked' = asked
      /\ dispatcher' = dispatcher /\ call' = call /\ late' = late /\ up' = up /\ crashes' = crashes /\ usurped' = usurped
      /\ clock < MaxTime /\ clock' = clock + 1
  BY DEF Tick, KeepProvider, KeepServers
<1>2. TypeOK'
  BY <1>1, Types, BoundsAssumption DEF TypeOK
<1>3. \A s \in Sessions : SessionSound(s)' /\ follows(worker[s], worker'[s])
  BY <1>1, SessionKeeps
<1>4. Forward
  BY <1>1, <1>3, Types DEF Forward
<1> QED  BY <1>1, <1>2, <1>3, <1>4, InvStep

\* A server crashes, with its calls and its dispatches.
LEMMA CrashSound ==
  ASSUME LifecycleInv, NEW v \in Servers, Crash(v)
  PROVE  Advances
<1>1. /\ worker' = worker /\ launch' = launch /\ captured' = captured /\ clock' = clock /\ run' = run /\ asked' = asked
      /\ up' = [up EXCEPT ![v] = "down"] /\ crashes < MaxCrashes /\ crashes' = crashes + 1
      /\ call' = [c \in Calls |-> IF Owner[c] = v THEN Idle ELSE call[c]]
      /\ late' = {z \in late : z.server # v} \cup Orphans(v) /\ usurped' = usurped
      /\ dispatcher' = [s \in Sessions |-> IF dispatcher[s] = v THEN NoServer ELSE dispatcher[s]]
  BY DEF Crash, KeepProvider, storeVars
<1>2. Idle \in CallRecord
  BY BoundsAssumption DEF Idle, CallRecord
<1>s. ASSUME NEW y \in late', y \notin late
      PROVE  /\ y \in LateStop /\ isBound(worker[y.session])
             /\ y.claim = "stopClaimed" => isTerminal(worker[y.session])
  <2>1. y \in Orphans(v)
    BY <1>1, <1>s
  <2>2. ASSUME NEW c \in Calls, call[c].pc = "stop",
               y = [server |-> NoServer, session |-> call[c].session, claim |-> ClaimOf(call[c].kind)]
        PROVE  /\ y \in LateStop /\ isBound(worker[y.session])
               /\ y.claim = "stopClaimed" => isTerminal(worker[y.session])
    <3>1. PICK s \in Sessions : s = call[c].session /\ isBound(worker[s])
      BY <2>2, OfBoundSession
    <3>2. call[c].kind \in Kinds \ {"capture"} /\ (call[c].kind \in {"timedOut", "expire"} => isTerminal(worker[s]))
      BY <2>2, <3>1, InProgress DEF CallSound
    <3>3. y.session = s /\ y.claim = ClaimOf(call[c].kind) /\ y \in LateStop
      BY <2>2, <3>1 DEF LateStop, ClaimOf
    <3> QED  BY <3>1, <3>2, <3>3 DEF ClaimOf, Kinds
  <2>3. ASSUME NEW z \in late, y = [z EXCEPT !.server = NoServer]
        PROVE  /\ y \in LateStop /\ isBound(worker[y.session])
               /\ y.claim = "stopClaimed" => isTerminal(worker[y.session])
    <3>1. z \in LateStop /\ LateSound(z)
      BY Types DEF LifecycleInv
    <3>2. y.session = z.session /\ y.claim = z.claim /\ y \in LateStop
      BY <2>3, <3>1 DEF LateStop
    <3> QED  BY <3>1, <3>2 DEF LateSound
  <2> QED  BY <2>1, <2>2, <2>3 DEF Orphans
<1>l. late' \subseteq LateStop
  <2>1. late \subseteq LateStop
    BY Types
  <2> QED  BY <1>s, <2>1
<1>o. \A y \in late' : y \in late \/ LateSound(y)'
  BY <1>1, <1>s DEF LateSound
<1>3. TypeOK'
  <2>1. call' \in [Calls -> CallRecord]
    BY <1>1, <1>2, Types
  <2>2. dispatcher' \in [Sessions -> Servers \cup {NoServer}]
    BY <1>1, Types
  <2>3. up' \in [Servers -> {"down", "recovered", "up"}] /\ crashes' \in 0..MaxCrashes
    BY <1>1, Types, BoundsAssumption
  <2> QED  BY <1>1, <1>l, <2>1, <2>2, <2>3, Types DEF TypeOK
<1>4. ASSUME NEW s \in Sessions PROVE SessionSound(s)' /\ follows(worker[s], worker'[s])
  <2>1. SessionSound(s)
    BY DEF LifecycleInv
  <2>2. dispatcher'[s] # NoServer => launch'[s] = "launching"
    BY <1>1, <2>1 DEF SessionSound
  <2> QED  BY <1>1, <2>1, <2>2 DEF SessionSound, follows
<1>5. Forward
  BY <1>1, <1>4, Types DEF Forward
<1>6. \A c \in Calls : call'[c] = call[c] \/ CallSound(c)'
  <2> TAKE c \in Calls
  <2>1. call'[c] = call[c] \/ call'[c] = Idle
    BY <1>1
  <2>2. clock' \in Nat
    BY <1>1, Types
  <2> QED  BY <2>1, <2>2, IdleIsSound
<1> QED  BY <1>3, <1>4, <1>5, <1>6, <1>o, InvStep

\* The request of a crashed server ends.
LEMMA OrphanSound ==
  ASSUME LifecycleInv, NEW z \in late, OrphanEnds(z)
  PROVE  Advances
<1>1. /\ worker' = worker /\ launch' = launch /\ captured' = captured /\ clock' = clock /\ run' = run /\ asked' = asked
      /\ dispatcher' = dispatcher /\ call' = call /\ up' = up /\ crashes' = crashes /\ usurped' = usurped
      /\ late' \subseteq late
  BY DEF OrphanEnds, KeepProvider, KeepServers, storeVars
<1>2. TypeOK'
  BY <1>1, Types DEF TypeOK
<1>3. \A s \in Sessions : SessionSound(s)' /\ follows(worker[s], worker'[s])
  BY <1>1, SessionKeeps
<1>4. Forward
  BY <1>1, <1>3, Types DEF Forward
<1> QED  BY <1>1, <1>2, <1>3, <1>4, InvStep

\* A server starts, or reconciles: every record is visited.
LEMMA SweepSound ==
  ASSUME LifecycleInv, NEW v \in Servers, NEW alive \in SUBSET Sessions, RecoverClaims(v) \/ Reconcile(v, alive)
  PROVE  Advances
<1>1. /\ launch' = launch /\ captured' = captured /\ clock' = clock /\ run' = run /\ asked' = asked
      /\ dispatcher' = dispatcher /\ call' = call /\ late' = late /\ crashes' = crashes /\ usurped' \subseteq Sessions
      /\ \/ up' = [up EXCEPT ![v] = "recovered"]
         \/ up' = [up EXCEPT ![v] = "up"]
      /\ \/ worker' = [s \in Sessions |-> recoverLifecycleDeliveryClaims(worker[s])]
         \/ worker' = [s \in Sessions |-> reconcile(worker[s], s \in alive)]
  BY Types DEF RecoverClaims, Reconcile, KeepProvider
<1>2. ASSUME NEW s \in Sessions PROVE moves(s, worker[s], worker'[s], launch[s], run[s], s \in asked)
  <2>1. sound(s, worker[s], launch[s], run[s], s \in asked) /\ (s \in asked) \in BOOLEAN /\ (s \in alive) \in BOOLEAN
    BY DEF LifecycleInv, SessionSound
  <2>2. PICK u : u = worker'[s]
    OBVIOUS
  <2>3. u = recoverLifecycleDeliveryClaims(worker[s]) \/ u = reconcile(worker[s], s \in alive)
    BY <1>1, <2>2
  <2> QED  BY <2>1, <2>2, <2>3, RecoverIsSound, ReconcileIsSound
<1>3. worker' \in [Sessions -> Worker]
  <2>1. \A s \in Sessions : worker'[s] \in Worker
    BY <1>2, SoundIsWorker DEF moves
  <2>2. worker' = [s \in Sessions |-> worker'[s]]
    BY <1>1
  <2> HIDE DEF Worker
  <2> QED  BY <2>1, <2>2
<1>4. \A s \in Sessions : SessionSound(s)' /\ follows(worker[s], worker'[s])
  BY <1>1, <1>2 DEF LifecycleInv, SessionSound, moves
<1>5. TypeOK'
  BY <1>1, <1>3, Types DEF TypeOK
<1>6. Forward
  BY <1>1, <1>4, Types DEF Forward
<1> QED  BY <1>1, <1>4, <1>5, <1>6, InvStep

-----------------------------------------------------------------------------
(* The invariant.                                                          *)

\* At first nothing has happened.
LEMMA InitIsSound == Init => LifecycleInv
<1> SUFFICES ASSUME Init PROVE LifecycleInv
  OBVIOUS
<1>1. Idle \in CallRecord /\ NewWorker \in Worker /\ 0 \in 0..MaxTime /\ 0 \in 0..MaxCrashes
  BY BoundsAssumption DEF Idle, CallRecord, NewWorker, NoDeadline
<1>2. TypeOK
  BY <1>1 DEF Init, TypeOK, AssignmentStatuses, RunStates
<1>3. ASSUME NEW s \in Sessions PROVE SessionSound(s)
  <2>1. worker[s] = NewWorker /\ launch[s] \in {None, "accepted"} /\ dispatcher[s] = NoServer
    BY DEF Init
  <2>2. /\ NewWorker.status = "requested" /\ NewWorker.runId = NoRun /\ NewWorker.flags = {} /\ NewWorker.result = None
        /\ NewWorker.stopReason = None /\ NewWorker.preCancel = None
    BY DEF NewWorker
  <2>3. P!good(NewWorker)
    BY <1>1, <2>2, GoodMeans DEF Storable
  <2> QED  BY <2>1, <2>2, <2>3 DEF SessionSound, sound, isExpired, Kept
<1>4. ASSUME NEW c \in Calls PROVE CallSound(c)
  <2>1. call[c] = Idle /\ clock = 0
    BY DEF Init
  <2>2. Idle.pc = "idle" /\ Idle.kind = None /\ Idle.seen = None /\ Idle.at = 0
    BY DEF Idle
  <2> QED  BY <2>1, <2>2 DEF CallSound
<1>5. late = {}
  BY DEF Init
<1> QED  BY <1>2, <1>3, <1>4, <1>5 DEF LifecycleInv

\* Nothing changes.
LEMMA StutterIsSound ==
  ASSUME LifecycleInv, UNCHANGED vars
  PROVE  Advances
<1>1. /\ worker' = worker /\ launch' = launch /\ captured' = captured /\ clock' = clock /\ run' = run /\ asked' = asked
      /\ dispatcher' = dispatcher /\ call' = call /\ late' = late /\ up' = up /\ crashes' = crashes /\ usurped' = usurped
  BY DEF vars, storeVars
<1>2. TypeOK'
  BY <1>1, Types DEF TypeOK
<1>3. \A s \in Sessions : SessionSound(s)' /\ follows(worker[s], worker'[s])
  BY <1>1, SessionKeeps
<1>4. Forward
  BY <1>1, <1>3, Types DEF Forward
<1> QED  BY <1>1, <1>2, <1>3, <1>4, InvStep

\* Every step keeps the invariant and moves forward.
LEMMA StepAdvances == LifecycleInv /\ [Next]_vars => Advances
<1> SUFFICES ASSUME LifecycleInv, [Next]_vars PROVE Advances
  OBVIOUS
<1>1. ASSUME NEW c \in Calls, CallStep(c) PROVE Advances
  <2>1. "malformed" \in Claims
    BY DEF Claims
  <2> QED
    BY <1>1, <2>1, RequestSound, ExpireSound, ClaimDeliverySound, ClaimStopSound, AnswerSound, TimeoutSound,
       ApplyDeliverySound, ApplyStopSound, StatusEndedSound, GivesUpSound, ToldSound, SettleSound, CaptureSound
       DEF CallStep
<1>2. ASSUME NEW s \in Sessions, LaunchStep(s) PROVE Advances
  BY <1>2, DispatchSound, DispatchEndsSound, BindRunSound, SetDeadlineSound DEF LaunchStep
<1>3. ASSUME NEW v \in Servers, ServerStep(v) PROVE Advances
  BY <1>3, CrashSound, SweepSound DEF ServerStep
<1>4. CASE UNCHANGED vars
  BY <1>4, StutterIsSound
<1> QED  BY <1>1, <1>2, <1>3, <1>4, StartSound, LateReleaseSound, OrphanSound, ProviderSound, TickSound DEF Next

\* What a call saw before an await still holds when it goes on, whatever the other calls, the servers and the provider
\* did meanwhile, and every record is sound.
THEOREM LifecycleInvariant == Spec => []LifecycleInv
<1>1. LifecycleInv /\ [Next]_vars => LifecycleInv'
  BY StepAdvances DEF Advances
<1> QED  BY <1>1, InitIsSound, PTL DEF Spec


\* The variables always have their types, and no write is refused by the schema check of `persist`.
THEOREM StoreAlwaysAccepts == Spec => [](TypeOK /\ StoreAccepts)
<1>1. LifecycleInv => TypeOK /\ StoreAccepts
  BY GoodMeans DEF LifecycleInv, SessionSound, sound, StoreAccepts
<1> QED  BY <1>1, LifecycleInvariant, PTL

\* A cancellation of a bound run is never parked with nothing left to do.
THEOREM CancellationIsAlwaysOwed == Spec => []CancellationIsOwed
<1>1. LifecycleInv => CancellationIsOwed
  BY DEF LifecycleInv, SessionSound, sound, CancellationIsOwed
<1> QED  BY <1>1, LifecycleInvariant, PTL

\* The live run of an expired session is to be stopped, is known not to be stoppable, or has been asked to stop.
THEOREM ExpiredRunIsAlwaysStopped == Spec => []ExpiredRunIsStopped
<1>1. LifecycleInv => ExpiredRunIsStopped
  BY DEF LifecycleInv, SessionSound, sound, ExpiredRunIsStopped, Stopping
<1> QED  BY <1>1, LifecycleInvariant, PTL

\* A bound session is canceled or succeeded only if its run is.
THEOREM OutcomeIsAlwaysObserved == Spec => []OutcomeIsObserved
<1>1. LifecycleInv => OutcomeIsObserved
  BY DEF LifecycleInv, SessionSound, sound, OutcomeIsObserved
<1> QED  BY <1>1, LifecycleInvariant, PTL


\* A complete or captured result is never replaced.
THEOREM ResultIsAlwaysKept == Spec => ResultIsKept
<1>1. LifecycleInv /\ [Next]_vars =>
        [\A s \in Sessions : worker[s].result \in {"full", "captured", "launch_error"}
                                 => worker'[s].result = worker[s].result]_worker
  BY StepAdvances DEF Advances, Forward, follows, Kept
<1> QED  BY <1>1, LifecycleInvariant, PTL DEF Spec, ResultIsKept


-----------------------------------------------------------------------------
(* Records change only through the store's methods.                        *)

\* The store that the module is mapped to has the record operators used here.
LEMMA ApiOperators ==
  ASSUME NEW w
  PROVE  /\ StoreAPI!releaseCancellationDelivery(w) = releaseCancellationDelivery(w)
         /\ StoreAPI!markCancellationDelivered(w) = markCancellationDelivered(w)
         /\ StoreAPI!handleUnsupportedCancellation(w) = handleUnsupportedCancellation(w)
         /\ StoreAPI!claimCancellationDelivery(w) = claimCancellationDelivery(w)
         /\ StoreAPI!canClaimCancellationDelivery(w) <=> canClaimCancellationDelivery(w)
         /\ StoreAPI!canClaimProviderStop(w) <=> canClaimProviderStop(w)
         /\ StoreAPI!claimProviderStop(w) = claimProviderStop(w)
         /\ StoreAPI!releaseProviderStop(w) = releaseProviderStop(w)
         /\ StoreAPI!markProviderStopDelivered(w) = markProviderStopDelivered(w)
         /\ StoreAPI!markProviderStopUnsupported(w) = markProviderStopUnsupported(w)
<1> USE DEF StoreAPI!isTerminal, StoreAPI!TerminalStatuses, StoreAPI!isBound, StoreAPI!isExpired, isExpired,
            StoreAPI!None
<1>1. StoreAPI!releaseCancellationDelivery(w) = releaseCancellationDelivery(w)
  BY DEF StoreAPI!releaseCancellationDelivery, releaseCancellationDelivery
<1>2. StoreAPI!markCancellationDelivered(w) = markCancellationDelivered(w)
  BY DEF StoreAPI!markCancellationDelivered, markCancellationDelivered
<1>3. StoreAPI!handleUnsupportedCancellation(w) = handleUnsupportedCancellation(w)
  BY DEF StoreAPI!handleUnsupportedCancellation, handleUnsupportedCancellation, StoreAPI!withdrawCancellation,
     withdrawCancellation
<1>4. StoreAPI!claimCancellationDelivery(w) = claimCancellationDelivery(w)
  BY DEF StoreAPI!claimCancellationDelivery, claimCancellationDelivery
<1>5. StoreAPI!canClaimCancellationDelivery(w) <=> canClaimCancellationDelivery(w)
  BY DEF StoreAPI!canClaimCancellationDelivery, canClaimCancellationDelivery
<1>6. StoreAPI!canClaimProviderStop(w) <=> canClaimProviderStop(w)
  BY DEF StoreAPI!canClaimProviderStop, canClaimProviderStop
<1>7. StoreAPI!claimProviderStop(w) = claimProviderStop(w)
  BY DEF StoreAPI!claimProviderStop, claimProviderStop
<1>8. StoreAPI!releaseProviderStop(w) = releaseProviderStop(w)
  BY DEF StoreAPI!releaseProviderStop, releaseProviderStop
<1>9. StoreAPI!markProviderStopDelivered(w) = markProviderStopDelivered(w)
  BY DEF StoreAPI!markProviderStopDelivered, markProviderStopDelivered
<1>10. StoreAPI!markProviderStopUnsupported(w) = markProviderStopUnsupported(w)
  BY DEF StoreAPI!markProviderStopUnsupported, markProviderStopUnsupported
<1> QED  BY <1>1, <1>2, <1>3, <1>4, <1>5, <1>6, <1>7, <1>8, <1>9, <1>10

\* So it has the ones that start, end and recover.
LEMMA ApiOutcomes ==
  ASSUME NEW w
  PROVE  /\ \A reason, l : StoreAPI!requestWorkerCancellation(w, reason, l) = requestWorkerCancellation(w, reason, l)
         /\ \A at, l : StoreAPI!expireWorker(w, at, l) = expireWorker(w, at, l)
         /\ \A status, given, result, keep : StoreAPI!settleWorkerCancellation(w, status, given, result, keep)
                                               = settleWorkerCancellation(w, status, given, result, keep)
         /\ \A claim : StoreAPI!captureResult(w, claim) = captureResult(w, claim)
         /\ \A i : StoreAPI!recordLaunched(w, i) = recordLaunched(w, i)
         /\ StoreAPI!recordLaunchFailed(w) = recordLaunchFailed(w)
         /\ \A i, evidence : StoreAPI!bindWorkerRun(w, i, evidence) = bindWorkerRun(w, i, evidence)
         /\ \A i : StoreAPI!canBindWorkerRun(w, i) <=> canBindWorkerRun(w, i)
         /\ \A i : StoreAPI!setWorkerDeadline(w, i) = setWorkerDeadline(w, i)
         /\ \A alive : StoreAPI!reconcile(w, alive) = reconcile(w, alive)
         /\ StoreAPI!recoverLifecycleDeliveryClaims(w) = recoverLifecycleDeliveryClaims(w)
<1> USE DEF StoreAPI!isTerminal, StoreAPI!TerminalStatuses, StoreAPI!isBound, StoreAPI!None, StoreAPI!finish, finish
<1>1. \A reason, l : StoreAPI!requestWorkerCancellation(w, reason, l) = requestWorkerCancellation(w, reason, l)
  BY DEF StoreAPI!requestWorkerCancellation, requestWorkerCancellation
<1>2. \A at, l : StoreAPI!expireWorker(w, at, l) = expireWorker(w, at, l)
  BY DEF StoreAPI!expireWorker, expireWorker, StoreAPI!isOverdue, isOverdue, StoreAPI!NoDeadline, NoDeadline
<1>3. \A status, given, result, keep : StoreAPI!settleWorkerCancellation(w, status, given, result, keep)
                                            = settleWorkerCancellation(w, status, given, result, keep)
  BY DEF StoreAPI!settleWorkerCancellation, settleWorkerCancellation, StoreAPI!defaultStopReason, defaultStopReason
<1>4. \A claim : StoreAPI!captureResult(w, claim) = captureResult(w, claim)
  BY DEF StoreAPI!captureResult, captureResult, StoreAPI!captureStatus, captureStatus, StoreAPI!captureStopReason,
     captureStopReason
<1>5. \A i : StoreAPI!recordLaunched(w, i) = recordLaunched(w, i)
  BY DEF StoreAPI!recordLaunched, recordLaunched
<1>6. StoreAPI!recordLaunchFailed(w) = recordLaunchFailed(w)
  BY DEF StoreAPI!recordLaunchFailed, recordLaunchFailed
<1>7. \A i, evidence : StoreAPI!bindWorkerRun(w, i, evidence) = bindWorkerRun(w, i, evidence)
  BY DEF StoreAPI!bindWorkerRun, bindWorkerRun
<1>8. \A i : StoreAPI!canBindWorkerRun(w, i) <=> canBindWorkerRun(w, i)
  BY DEF StoreAPI!canBindWorkerRun, canBindWorkerRun
<1>9. \A i : StoreAPI!setWorkerDeadline(w, i) = setWorkerDeadline(w, i)
  BY DEF StoreAPI!setWorkerDeadline, setWorkerDeadline
<1>10. \A alive : StoreAPI!reconcile(w, alive) = reconcile(w, alive)
  BY DEF StoreAPI!reconcile, reconcile
<1>11. StoreAPI!recoverLifecycleDeliveryClaims(w) = recoverLifecycleDeliveryClaims(w)
  BY DEF StoreAPI!recoverLifecycleDeliveryClaims, recoverLifecycleDeliveryClaims, StoreAPI!recoverStopClaim,
     recoverStopClaim, StoreAPI!recoverCancellationClaim, recoverCancellationClaim, StoreAPI!releaseProviderStop,
     releaseProviderStop, StoreAPI!isExpired, isExpired
<1> QED  BY <1>1, <1>2, <1>3, <1>4, <1>5, <1>6, <1>7, <1>8, <1>9, <1>10, <1>11

\* A good record passes the schema check of the store.
LEMMA GoodPersists ==
  ASSUME NEW w, P!good(w)
  PROVE  StoreAPI!Storable(w)
<1>1. Storable(w)
  BY GoodMeans
<1> QED
  BY <1>1 DEF Storable, StoreAPI!Storable, StoreAPI!isTerminal, StoreAPI!TerminalStatuses, StoreAPI!None,
     StoreAPI!StopReasonsByStatus, StopReasonsByStatus, StoreAPI!SuccessReasons, SuccessReasons,
     StoreAPI!FailureReasons, FailureReasons

\* So does a record that a step writes.
LEMMA RecordPersists ==
  ASSUME LifecycleInv, LifecycleInv', NEW s \in Sessions, NEW w, Store(s, w)
  PROVE  StoreAPI!Persist(s, w)
<1>1. worker' = [worker EXCEPT ![s] = w] /\ worker'[s] = w
  BY Types DEF Store
<1>2. SessionSound(s)'
  BY DEF LifecycleInv
<1>3. StoreAPI!Storable(w)
  BY <1>1, <1>2, GoodPersists DEF SessionSound, sound
<1> QED  BY <1>1, <1>3 DEF StoreAPI!Persist

\* What the store does not see.
StoreFrame == UNCHANGED <<launch, captured, clock>>

\* The methods that the answers of the provider call.
LEMMA DeliverIsStored ==
  ASSUME LifecycleInv, LifecycleInv', NEW s \in Sessions, NEW u, Store(s, u), StoreFrame,
         \/ u = releaseCancellationDelivery(worker[s])
         \/ u = markCancellationDelivered(worker[s])
         \/ u = handleUnsupportedCancellation(worker[s])
         \/ u = releaseProviderStop(worker[s])
         \/ u = markProviderStopDelivered(worker[s])
         \/ u = markProviderStopUnsupported(worker[s])
  PROVE  StoreAPI!Next
<1>1. StoreAPI!Persist(s, u)
  BY RecordPersists
<1>2. StoreAPI!Deliver(s)
  BY <1>1, ApiOperators DEF StoreAPI!Deliver, StoreFrame
<1> QED  BY <1>2 DEF StoreAPI!Next, StoreAPI!SessionNext

\* The claims.
LEMMA ClaimIsStored ==
  ASSUME LifecycleInv, LifecycleInv', NEW s \in Sessions, NEW u, Store(s, u), StoreFrame,
         \/ canClaimCancellationDelivery(worker[s]) /\ u = claimCancellationDelivery(worker[s])
         \/ canClaimProviderStop(worker[s]) /\ u = claimProviderStop(worker[s])
  PROVE  StoreAPI!Next
<1>1. StoreAPI!Persist(s, u)
  BY RecordPersists
<1>2. StoreAPI!ClaimCancellation(s) \/ StoreAPI!ClaimStop(s)
  BY <1>1, ApiOperators DEF StoreAPI!ClaimCancellation, StoreAPI!ClaimStop, StoreFrame
<1> QED  BY <1>2 DEF StoreAPI!Next, StoreAPI!SessionNext

\* The request to cancel.
LEMMA RequestIsStored ==
  ASSUME LifecycleInv, LifecycleInv', NEW s \in Sessions, NEW u, Store(s, u), StoreFrame,
         NEW reason \in CancelReasons, u = requestWorkerCancellation(worker[s], reason, launch[s])
  PROVE  StoreAPI!Next
<1>1. StoreAPI!Persist(s, u)
  BY RecordPersists
<1>2. StoreAPI!RequestCancellation(s, reason)
  BY <1>1, ApiOutcomes DEF StoreAPI!RequestCancellation, StoreFrame
<1> QED  BY <1>2 DEF StoreAPI!Next, StoreAPI!SessionNext

\* The settlement of an outcome.
LEMMA SettleIsStored ==
  ASSUME LifecycleInv, LifecycleInv', NEW s \in Sessions, NEW u, Store(s, u), StoreFrame,
         NEW seen \in RunEnded, NEW result \in {"full", "partial"},
         u = settleFromProvider(worker[s], seen, result)
  PROVE  StoreAPI!Next
<1>1. StoreAPI!Persist(s, u)
  BY RecordPersists
<1>2. PICK status \in StoreAPI!TerminalWorkerStatuses : status = terminalStatusFor(seen)
  BY DEF StoreAPI!TerminalStatuses, StoreAPI!TerminalWorkerStatuses, terminalStatusFor, RunEnded
<1>3. PICK keep \in BOOLEAN : keep = (result = "partial")
  OBVIOUS
<1>4. /\ u = StoreAPI!settleWorkerCancellation(worker[s], status, None, result, keep)
      /\ None \in StoreAPI!StopReasonsByStatus(status) \cup {StoreAPI!None}
      /\ result \in {StoreAPI!None, "full", "partial"}
  BY <1>2, <1>3, ApiOutcomes DEF settleFromProvider, StoreAPI!None
<1>5. StoreAPI!Settle(s, status)
  BY <1>1, <1>2, <1>4 DEF StoreAPI!Settle, StoreFrame
<1> QED  BY <1>5 DEF StoreAPI!Next, StoreAPI!SessionNext

\* A deadline that was found to have passed before the record was locked has passed now; the record may have ended or got
\* a later deadline meanwhile, and then nothing is written.
LEMMA ExpiryIsStored ==
  ASSUME LifecycleInv, LifecycleInv', NEW s \in Sessions, NEW u, Store(s, u), StoreFrame,
         NEW at \in Nat, at <= clock, u = expireWorker(worker[s], at, launch[s])
  PROVE  StoreAPI!Next \/ worker' = worker
<1>1. worker[s] \in Worker /\ worker[s].deadline \in Nat /\ clock \in Nat
  BY Types
<1>2. CASE ~isOverdue(worker[s], at)
  <2>1. u = worker[s]
    BY <1>2 DEF expireWorker
  <2> QED  BY <2>1, Types DEF Store
<1>3. CASE isOverdue(worker[s], at)
  <2>1. isOverdue(worker[s], clock)
    BY <1>1, <1>3 DEF isOverdue
  <2>2. u = expireWorker(worker[s], clock, launch[s])
    BY <1>3, <2>1 DEF expireWorker
  <2>3. setWorkerDeadline(worker[s], worker[s].deadline) = worker[s]
    BY <1>1 DEF setWorkerDeadline
  <2>4. StoreAPI!Persist(s, u)
    BY RecordPersists
  <2>5. u = StoreAPI!expireWorker(StoreAPI!setWorkerDeadline(worker[s], worker[s].deadline), clock, launch[s])
    BY <2>2, <2>3, ApiOutcomes
  <2>6. StoreAPI!Expire(s)
    BY <2>4, <2>5 DEF StoreAPI!Expire, StoreFrame
  <2> QED  BY <2>6 DEF StoreAPI!Next, StoreAPI!SessionNext
<1> QED  BY <1>2, <1>3


\* A step of a call is a call of a method of the store, or none.
LEMMA CallIsStored ==
  ASSUME LifecycleInv, LifecycleInv', NEW c \in Calls, CallStep(c)
  PROVE  [StoreAPI!Next]_(StoreAPI!vars)
<1> USE DEF StoreAPI!vars
<1>0. ASSUME call[c].pc # "idle"
      PROVE  \E s \in Sessions : s = call[c].session /\ CallSound(c) /\ call[c] \in CallRecord
  BY <1>0, InProgress
<1>1. ASSUME NEW reason \in CancelReasons, Request(c, reason) PROVE [StoreAPI!Next]_(StoreAPI!vars)
  <2>1. PICK s \in Sessions : s = call[c].session
    BY <1>0, <1>1 DEF Request, At
  <2>2. PICK u : u = requestWorkerCancellation(worker[s], reason, launch[s])
    OBVIOUS
  <2>3. Store(s, u) /\ StoreFrame
    BY <1>1, <2>1, <2>2 DEF Request, StoreFrame
  <2> QED  BY <2>2, <2>3, RequestIsStored
<1>2. CASE Expire(c)
  <2>1. PICK s \in Sessions : s = call[c].session /\ CallSound(c) /\ call[c] \in CallRecord
    BY <1>0, <1>2 DEF Expire, At
  <2>2. PICK at : at = call[c].at
    OBVIOUS
  <2>3. at \in Nat /\ at <= clock
    BY <2>1, <2>2, BoundsAssumption DEF CallSound, CallRecord
  <2>4. PICK u : u = expireWorker(worker[s], at, launch[s])
    OBVIOUS
  <2>5. Store(s, u) /\ StoreFrame
    BY <1>2, <2>1, <2>2, <2>4 DEF Expire, StoreFrame
  <2>6. StoreAPI!Next \/ worker' = worker
    BY <2>3, <2>4, <2>5, ExpiryIsStored
  <2> QED  BY <2>5, <2>6 DEF StoreFrame
<1>3. CASE ClaimDelivery(c) \/ ClaimStop(c)
  <2>1. PICK s \in Sessions : s = call[c].session
    BY <1>0, <1>3 DEF ClaimDelivery, ClaimStop, At
  <2>2. StoreFrame
    BY <1>3 DEF ClaimDelivery, ClaimStop, StoreFrame
  <2>3. \/ worker' = worker
        \/ \E u : /\ Store(s, u)
                  /\ \/ canClaimCancellationDelivery(worker[s]) /\ u = claimCancellationDelivery(worker[s])
                     \/ canClaimProviderStop(worker[s]) /\ u = claimProviderStop(worker[s])
    BY <1>3, <2>1 DEF ClaimDelivery, ClaimStop
  <2> QED  BY <2>2, <2>3, ClaimIsStored DEF StoreFrame
<1>4. CASE ApplyDelivery(c) \/ ApplyStop(c)
  <2>1. PICK s \in Sessions : s = call[c].session
    BY <1>0, <1>4 DEF ApplyDelivery, ApplyStop, At
  <2>2. StoreFrame
    BY <1>4 DEF ApplyDelivery, ApplyStop, StoreFrame
  <2>3. PICK u : /\ Store(s, u)
                 /\ \/ u = releaseCancellationDelivery(worker[s])
                    \/ u = markCancellationDelivered(worker[s])
                    \/ u = handleUnsupportedCancellation(worker[s])
                    \/ u = releaseProviderStop(worker[s])
                    \/ u = markProviderStopDelivered(worker[s])
                    \/ u = markProviderStopUnsupported(worker[s])
    BY <1>4, <2>1 DEF ApplyDelivery, ApplyStop
  <2> QED  BY <2>2, <2>3, DeliverIsStored
<1>5. CASE Settle(c)
  <2>1. PICK s \in Sessions : s = call[c].session /\ CallSound(c) /\ call[c] \in CallRecord
    BY <1>0, <1>5 DEF Settle
  <2>2. PICK seen \in RunEnded, result \in {"full", "partial"} : seen = call[c].seen /\ result = call[c].note
    BY <1>5, <2>1 DEF Settle, CallSound, CallRecord
  <2>3. PICK u : u = settleFromProvider(worker[s], seen, result)
    OBVIOUS
  <2>4. Store(s, u) /\ StoreFrame
    BY <1>5, <2>1, <2>2, <2>3 DEF Settle, StoreFrame
  <2> QED  BY <2>3, <2>4, SettleIsStored
<1>6. CASE Capture(c)
  <2>1. PICK s \in Sessions : s = call[c].session /\ CallSound(c)
    BY <1>0, <1>6 DEF Capture
  <2>2. launch' = launch /\ clock' = clock
    BY <1>6 DEF Capture
  <2>3. CASE captured[s] # None
    BY <1>6, <2>1, <2>2, <2>3 DEF Capture
  <2>4. CASE captured[s] = None
    <3>1. PICK claim \in StoreAPI!Claims : claim = call[c].note
      BY <1>6, <2>1 DEF Capture, CallSound, StoreAPI!Claims, Claims
    <3>2. PICK u : u = captureResult(worker[s], claim)
      OBVIOUS
    <3>3. Store(s, u) /\ captured' = [captured EXCEPT ![s] = claim]
      BY <1>6, <2>1, <2>4, <3>1, <3>2 DEF Capture
    <3>4. StoreAPI!Persist(s, u) /\ u = StoreAPI!captureResult(worker[s], claim)
      BY <3>2, <3>3, RecordPersists, ApiOutcomes
    <3>5. launch[s] = "launched"
      BY <1>6, <2>1 DEF Capture, CallSound
    <3>6. StoreAPI!Capture(s, claim)
      BY <2>2, <2>4, <3>3, <3>4, <3>5 DEF StoreAPI!Capture, StoreAPI!None
    <3> QED  BY <3>6 DEF StoreAPI!Next, StoreAPI!SessionNext
  <2> QED  BY <2>3, <2>4
<1>7. CASE UNCHANGED storeVars
  BY <1>7 DEF storeVars
<1> HIDE DEF StoreAPI!vars
<1> QED
  BY <1>1, <1>2, <1>3, <1>4, <1>5, <1>6, <1>7
     DEF CallStep, Answer, Timeout, StatusEnded, StatusOpen, StatusMalformed, Result, CaptureClaim, CaptureGivesUp

\* So is a step of the launch of a session.
LEMMA LaunchIsStored ==
  ASSUME LifecycleInv, LifecycleInv', NEW s \in Sessions, LaunchStep(s)
  PROVE  [StoreAPI!Next]_(StoreAPI!vars)
<1>0. SessionSound(s) /\ launch \in [Sessions -> AssignmentStatuses]
  BY Types DEF LifecycleInv
<1>1. ASSUME NEW v \in Servers, Dispatch(v, s) PROVE [StoreAPI!Next]_(StoreAPI!vars)
  <2>1. /\ worker' = worker /\ captured' = captured /\ clock' = clock
        /\ launch[s] \in {"accepted", "launching"} /\ ~isTerminal(worker[s])
        /\ launch' = [launch EXCEPT ![s] = "launching"]
    BY <1>1 DEF Dispatch, pendingAssignment
  <2>2. CASE launch[s] = "launching"
    BY <1>0, <2>1, <2>2 DEF StoreAPI!vars
  <2>3. CASE launch[s] = "accepted"
    <3>1. StoreAPI!RecordLaunching(s)
      BY <2>1, <2>3 DEF StoreAPI!RecordLaunching, StoreAPI!isTerminal, StoreAPI!TerminalStatuses
    <3> QED  BY <3>1 DEF StoreAPI!Next, StoreAPI!SessionNext
  <2> QED  BY <2>1, <2>2, <2>3
<1>2. ASSUME NEW v \in Servers, DispatchEnded(v, s) PROVE [StoreAPI!Next]_(StoreAPI!vars)
  <2>1. StoreAPI!RecordLaunching(s)
    BY <1>2 DEF DispatchEnded, StoreAPI!RecordLaunching, StoreAPI!isTerminal, StoreAPI!TerminalStatuses, StoreAPI!None
  <2> QED  BY <2>1 DEF StoreAPI!Next, StoreAPI!SessionNext
<1>3. CASE RecordLaunched(s)
  <2>1. PICK u : u = recordLaunched(worker[s], s)
    OBVIOUS
  <2>2. /\ Store(s, u) /\ launch' = [launch EXCEPT ![s] = "launched"] /\ captured' = captured /\ clock' = clock
        /\ dispatcher[s] # NoServer
    BY <1>3, <2>1 DEF RecordLaunched
  <2>3. StoreAPI!Persist(s, u) /\ u = StoreAPI!recordLaunched(worker[s], s)
    BY <2>1, <2>2, RecordPersists, ApiOutcomes
  <2>4. launch[s] = "launching" /\ worker[s].runId \in {NoRun, s}
    BY <1>0, <2>2 DEF SessionSound, sound
  <2>5. StoreAPI!RecordLaunched(s, s)
    BY <2>2, <2>3, <2>4 DEF StoreAPI!RecordLaunched
  <2> QED  BY <2>5, SessionsAssumption DEF StoreAPI!Next, StoreAPI!SessionNext
<1>4. CASE RecordLaunchFailed(s)
  <2>1. PICK u : u = recordLaunchFailed(worker[s])
    OBVIOUS
  <2>2. /\ Store(s, u) /\ launch' = [launch EXCEPT ![s] = "failed"] /\ captured' = captured /\ clock' = clock
        /\ dispatcher[s] # NoServer
    BY <1>4, <2>1 DEF RecordLaunchFailed
  <2>3. StoreAPI!Persist(s, u) /\ u = StoreAPI!recordLaunchFailed(worker[s])
    BY <2>1, <2>2, RecordPersists, ApiOutcomes
  <2>4. launch[s] = "launching"
    BY <1>0, <2>2 DEF SessionSound
  <2>5. StoreAPI!RecordLaunchFailed(s)
    BY <2>2, <2>3, <2>4 DEF StoreAPI!RecordLaunchFailed
  <2> QED  BY <2>5 DEF StoreAPI!Next, StoreAPI!SessionNext
<1>5. CASE DispatchGivesUp(s)
  BY <1>5 DEF DispatchGivesUp, StoreAPI!vars, storeVars
<1>6. ASSUME NEW evidence \in BOOLEAN, BindRun(s, evidence) PROVE [StoreAPI!Next]_(StoreAPI!vars)
  <2>1. PICK u : u = bindWorkerRun(worker[s], s, evidence)
    OBVIOUS
  <2>2. Store(s, u) /\ launch' = launch /\ captured' = captured /\ clock' = clock /\ canBindWorkerRun(worker[s], s)
    BY <1>6, <2>1 DEF BindRun
  <2>3. /\ StoreAPI!Persist(s, u) /\ u = StoreAPI!bindWorkerRun(worker[s], s, evidence)
        /\ StoreAPI!canBindWorkerRun(worker[s], s)
    BY <2>1, <2>2, RecordPersists, ApiOutcomes
  <2>4. StoreAPI!BindRun(s, s, evidence)
    BY <2>2, <2>3 DEF StoreAPI!BindRun
  <2> QED  BY <2>4, SessionsAssumption DEF StoreAPI!Next, StoreAPI!SessionNext
<1>7. ASSUME NEW instant \in 1..MaxTime, SetDeadline(s, instant) PROVE [StoreAPI!Next]_(StoreAPI!vars)
  <2>1. PICK u : u = setWorkerDeadline(worker[s], instant)
    OBVIOUS
  <2>2. Store(s, u) /\ launch' = launch /\ captured' = captured /\ clock' = clock /\ ~isTerminal(worker[s])
    BY <1>7, <2>1 DEF SetDeadline
  <2>3. StoreAPI!Persist(s, u) /\ u = StoreAPI!setWorkerDeadline(worker[s], instant)
    BY <2>1, <2>2, RecordPersists, ApiOutcomes
  <2>4. StoreAPI!SetDeadline(s, instant)
    BY <2>2, <2>3 DEF StoreAPI!SetDeadline, StoreAPI!isTerminal, StoreAPI!TerminalStatuses
  <2> QED  BY <2>4 DEF StoreAPI!Next, StoreAPI!SessionNext
<1> QED  BY <1>1, <1>2, <1>3, <1>4, <1>5, <1>6, <1>7 DEF LaunchStep

\* The late release, and the sweeps of a server over all records.
LEMMA SweepIsStored ==
  ASSUME LifecycleInv, LifecycleInv',
         \/ \E z \in late : LateRelease(z)
         \/ \E v \in Servers : RecoverClaims(v) \/ \E alive \in SUBSET Sessions : Reconcile(v, alive)
  PROVE  StoreAPI!Next
<1>1. ASSUME NEW z \in late, LateRelease(z) PROVE StoreAPI!Next
  <2>1. PICK s \in Sessions : s = z.session
    BY Types DEF LateStop
  <2>2. PICK u : /\ Store(s, u)
                 /\ u = releaseCancellationDelivery(worker[s]) \/ u = releaseProviderStop(worker[s])
    BY <1>1, <2>1 DEF LateRelease
  <2>3. StoreFrame
    BY <1>1 DEF LateRelease, StoreFrame
  <2> QED  BY <2>2, <2>3, DeliverIsStored
<1>2. \A s \in Sessions : StoreAPI!Storable(worker'[s])
  <2> TAKE s \in Sessions
  <2>1. SessionSound(s)'
    BY DEF LifecycleInv
  <2> QED  BY <2>1, GoodPersists DEF SessionSound, sound
<1>3. ASSUME NEW v \in Servers, RecoverClaims(v) PROVE StoreAPI!Next
  <2>1. worker' = [s \in Sessions |-> StoreAPI!recoverLifecycleDeliveryClaims(worker[s])]
    BY <1>3, ApiOutcomes DEF RecoverClaims
  <2>2. StoreAPI!RecoverClaims
    BY <1>2, <1>3, <2>1 DEF RecoverClaims, StoreAPI!RecoverClaims
  <2> QED  BY <2>2 DEF StoreAPI!Next
<1>4. ASSUME NEW v \in Servers, NEW alive \in SUBSET Sessions, Reconcile(v, alive) PROVE StoreAPI!Next
  <2>1. worker' = [s \in Sessions |-> StoreAPI!reconcile(worker[s], s \in alive)]
    BY <1>4, ApiOutcomes DEF Reconcile
  <2>2. StoreAPI!Reconcile(alive)
    BY <1>2, <1>4, <2>1 DEF Reconcile, StoreAPI!Reconcile
  <2> QED  BY <2>2 DEF StoreAPI!Next
<1> QED  BY <1>1, <1>3, <1>4

\* Every step of the services, the dispatchers and the restarts is a call of one of the store's methods, or leaves the
\* store alone: the specification implements that of the store's API, and what is proved of the API holds here.
THEOREM LifecycleUsesStoreAPI == Spec => UsesStoreAPI
<1>1. Init => StoreAPI!Init
  <2> SUFFICES ASSUME Init PROVE StoreAPI!Init
    OBVIOUS
  <2>1. StoreAPI!NewWorker = NewWorker /\ StoreAPI!None = None
    BY DEF StoreAPI!NewWorker, NewWorker, StoreAPI!None, StoreAPI!NoDeadline, NoDeadline
  <2>2. 0 \in 0..MaxTime
    BY BoundsAssumption
  <2> QED  BY <2>1, <2>2 DEF Init, StoreAPI!Init
<1>2. LifecycleInv /\ LifecycleInv' /\ [Next]_vars => [StoreAPI!Next]_(StoreAPI!vars)
  <2> SUFFICES ASSUME LifecycleInv, LifecycleInv', [Next]_vars PROVE [StoreAPI!Next]_(StoreAPI!vars)
    OBVIOUS
  <2>1. ASSUME UNCHANGED storeVars PROVE [StoreAPI!Next]_(StoreAPI!vars)
    BY <2>1 DEF storeVars, StoreAPI!vars
  <2>2. CASE Tick
    <3>1. StoreAPI!Tick
      BY <2>2 DEF Tick, StoreAPI!Tick
    <3> QED  BY <3>1 DEF StoreAPI!Next
  <2>3. ASSUME NEW c \in Calls, NEW s \in Sessions, StartCall(c, s) PROVE UNCHANGED storeVars
    BY <2>3 DEF StartCall, StartCancel, StartExpire, StartReconcile, StartTimedOut, StartCapture
  <2>4. ASSUME NEW s \in Sessions, ProviderStep(s) PROVE UNCHANGED storeVars
    BY <2>4 DEF ProviderStep, ProviderLaunches, StopReceived, RunStops, RunEnds
  <2>5. ASSUME NEW v \in Servers, Crash(v) PROVE UNCHANGED storeVars
    BY <2>5 DEF Crash
  <2>o. ASSUME NEW z \in late, OrphanEnds(z) PROVE UNCHANGED storeVars
    BY <2>o DEF OrphanEnds
  <2>6. CASE UNCHANGED vars
    BY <2>1, <2>6 DEF vars
  <2>7. CASE Next
    BY <2>1, <2>2, <2>3, <2>4, <2>5, <2>7, <2>o, CallIsStored, LaunchIsStored, SweepIsStored DEF Next, ServerStep
  <2> QED  BY <2>6, <2>7
<1> QED  BY <1>1, <1>2, LifecycleInvariant, PTL DEF Spec, UsesStoreAPI, StoreAPI!Spec

-----------------------------------------------------------------------------
(* What is proved of the store holds of the sessions of Lifecycle.         *)

\* The store that the module is mapped to and the one of WorkerStoreProofs also have
\* the same schema check, and the same methods for embedding programs.
LEMMA SameEmbedding ==
  ASSUME NEW w
  PROVE  /\ \A status, given, result : P!recordWorkerTerminal(w, status, given, result)
                                         = StoreAPI!recordWorkerTerminal(w, status, given, result)
         /\ \A status : P!recordWorkerResult(w, status) = StoreAPI!recordWorkerResult(w, status)
         /\ P!clearWorkerCancellation(w) = StoreAPI!clearWorkerCancellation(w)
         /\ P!canClaimProviderStop(w) <=> StoreAPI!canClaimProviderStop(w)
         /\ P!Storable(w) <=> StoreAPI!Storable(w)
<1> USE DEF P!isTerminal, StoreAPI!isTerminal, P!TerminalStatuses, StoreAPI!TerminalStatuses, P!None, StoreAPI!None
<1>1. \A status, given, result :
          P!recordWorkerTerminal(w, status, given, result) = StoreAPI!recordWorkerTerminal(w, status, given, result)
  BY DEF P!recordWorkerTerminal, StoreAPI!recordWorkerTerminal, P!finish, StoreAPI!finish, P!defaultStopReason,
     StoreAPI!defaultStopReason
<1>2. \A status : P!recordWorkerResult(w, status) = StoreAPI!recordWorkerResult(w, status)
  BY DEF P!recordWorkerResult, StoreAPI!recordWorkerResult
<1>3. P!clearWorkerCancellation(w) = StoreAPI!clearWorkerCancellation(w)
  BY DEF P!clearWorkerCancellation, StoreAPI!clearWorkerCancellation, P!withdrawCancellation,
     StoreAPI!withdrawCancellation
<1>4. P!canClaimProviderStop(w) <=> StoreAPI!canClaimProviderStop(w)
  BY DEF P!canClaimProviderStop, StoreAPI!canClaimProviderStop, P!isBound, StoreAPI!isBound
<1>5. P!Storable(w) <=> StoreAPI!Storable(w)
  BY DEF P!Storable, StoreAPI!Storable, P!StopReasonsByStatus, P!SuccessReasons, P!FailureReasons,
     StoreAPI!StopReasonsByStatus, StoreAPI!SuccessReasons, StoreAPI!FailureReasons
<1> QED  BY <1>1, <1>2, <1>3, <1>4, <1>5

\* A write of the one store is a write of the other.
LEMMA SamePersist ==
  ASSUME NEW s, NEW w
  PROVE  P!Persist(s, w) <=> StoreAPI!Persist(s, w)
  BY SameEmbedding DEF P!Persist, StoreAPI!Persist

\* A call of a method of the one store is a call of the other's.
LEMMA SameCalls ==
  ASSUME NEW s \in Sessions, StoreAPI!SessionNext(s)
  PROVE  P!SessionNext(s)
<1> USE SamePersist
<1> HIDE DEF Worker, Statuses, TerminalStatuses, Flags, Results, None, isTerminal, isBound
<1>1. ASSUME NEW i \in Runs, NEW evidence \in BOOLEAN, StoreAPI!BindRun(s, i, evidence) PROVE P!BindRun(s, i, evidence)
  BY <1>1, SameOutcomes, ApiOutcomes DEF P!BindRun, StoreAPI!BindRun
<1>2. ASSUME NEW instant \in 1..MaxTime, StoreAPI!SetDeadline(s, instant) PROVE P!SetDeadline(s, instant)
  BY <1>2, SameOutcomes, ApiOutcomes DEF P!SetDeadline, StoreAPI!SetDeadline, P!isTerminal, StoreAPI!isTerminal,
     P!TerminalStatuses, StoreAPI!TerminalStatuses
<1>3. ASSUME NEW reason \in CancelReasons, StoreAPI!RequestCancellation(s, reason) PROVE P!RequestCancellation(s, reason)
  BY <1>3, SameOutcomes, ApiOutcomes DEF P!RequestCancellation, StoreAPI!RequestCancellation
<1>4. StoreAPI!ClaimCancellation(s) => P!ClaimCancellation(s)
  BY SameClaims, ApiOperators DEF P!ClaimCancellation, StoreAPI!ClaimCancellation
<1>5. StoreAPI!ClaimStop(s) => P!ClaimStop(s)
  BY SameStops, SameEmbedding, ApiOperators DEF P!ClaimStop, StoreAPI!ClaimStop
<1>6. StoreAPI!Deliver(s) => P!Deliver(s)
  BY SameClaims, SameStops, SameEmbedding, ApiOperators DEF P!Deliver, StoreAPI!Deliver
<1>r. \A status : P!StopReasonsByStatus(status) = StoreAPI!StopReasonsByStatus(status) /\ P!None = StoreAPI!None
  BY DEF P!StopReasonsByStatus, P!SuccessReasons, P!FailureReasons, StoreAPI!StopReasonsByStatus,
     StoreAPI!SuccessReasons, StoreAPI!FailureReasons, P!None, StoreAPI!None
<1>7. ASSUME NEW status, StoreAPI!Settle(s, status) PROVE P!Settle(s, status)
  BY <1>7, <1>r, SameOutcomes, ApiOutcomes DEF P!Settle, StoreAPI!Settle
<1>8. ASSUME NEW status, StoreAPI!RecordTerminal(s, status) PROVE P!RecordTerminal(s, status)
  BY <1>8, <1>r, SameEmbedding DEF P!RecordTerminal, StoreAPI!RecordTerminal
<1>9. StoreAPI!Expire(s) => P!Expire(s)
  <2> SUFFICES ASSUME StoreAPI!Expire(s) PROVE P!Expire(s)
    OBVIOUS
  <2>1. PICK instant \in {worker[s].deadline} \cup 1..MaxTime :
            StoreAPI!Persist(s, StoreAPI!expireWorker(StoreAPI!setWorkerDeadline(worker[s], instant), clock, launch[s]))
    BY DEF StoreAPI!Expire
  <2>2. P!expireWorker(P!setWorkerDeadline(worker[s], instant), clock, launch[s])
            = StoreAPI!expireWorker(StoreAPI!setWorkerDeadline(worker[s], instant), clock, launch[s])
    <3>1. P!setWorkerDeadline(worker[s], instant) = StoreAPI!setWorkerDeadline(worker[s], instant)
      BY SameOutcomes, ApiOutcomes
    <3> QED  BY <3>1, SameOutcomes, ApiOutcomes
  <2> QED  BY <2>1, <2>2 DEF P!Expire, StoreAPI!Expire
<1>10. ASSUME NEW claim, StoreAPI!Capture(s, claim) PROVE P!Capture(s, claim)
  BY <1>10, SameOutcomes, ApiOutcomes DEF P!Capture, StoreAPI!Capture, P!None, StoreAPI!None
<1>11. StoreAPI!RecordLaunching(s) => P!RecordLaunching(s)
  BY DEF P!RecordLaunching, StoreAPI!RecordLaunching, P!isTerminal, StoreAPI!isTerminal, P!TerminalStatuses,
     StoreAPI!TerminalStatuses, P!None, StoreAPI!None
<1>12. ASSUME NEW i, StoreAPI!RecordLaunched(s, i) PROVE P!RecordLaunched(s, i)
  BY <1>12, SameOutcomes, ApiOutcomes DEF P!RecordLaunched, StoreAPI!RecordLaunched
<1>13. StoreAPI!RecordLaunchFailed(s) => P!RecordLaunchFailed(s)
  BY SameOutcomes, ApiOutcomes DEF P!RecordLaunchFailed, StoreAPI!RecordLaunchFailed
<1>14. P!TerminalWorkerStatuses = StoreAPI!TerminalWorkerStatuses /\ P!Claims = StoreAPI!Claims
  BY DEF P!TerminalStatuses, StoreAPI!TerminalStatuses, P!TerminalWorkerStatuses, StoreAPI!TerminalWorkerStatuses,
     P!Claims, StoreAPI!Claims
<1> QED
  BY <1>1, <1>2, <1>3, <1>4, <1>5, <1>6, <1>7, <1>8, <1>9, <1>10, <1>11, <1>12, <1>13, <1>14
  DEF P!SessionNext, StoreAPI!SessionNext

\* Through concurrent calls, failed and late answers, crashes and restarts a session ends
\* once, keeps its outcome, is bound to at most one run, and its cancellation is whole:
\* the services use nothing but the store's API, and the API keeps the contract.
THEOREM SessionsKeepContract == Spec => P!ImplementsContract /\ []P!CancellationIsWhole
<1>1. StoreAPI!Init => P!Init
  BY DEF StoreAPI!Init, P!Init, StoreAPI!NewWorker, P!NewWorker, StoreAPI!None, P!None, StoreAPI!NoDeadline, P!NoDeadline
<1>2. [StoreAPI!Next]_(StoreAPI!vars) => [P!Next]_(P!vars)
  <2>1. StoreAPI!Tick => P!Tick
    BY DEF StoreAPI!Tick, P!Tick
  <2>2. StoreAPI!RecoverClaims => P!RecoverClaims
    BY SameClaims, SameEmbedding, ApiOutcomes DEF StoreAPI!RecoverClaims, P!RecoverClaims
  <2>3. ASSUME NEW alive, StoreAPI!Reconcile(alive) PROVE P!Reconcile(alive)
    BY <2>3, SameOutcomes, SameEmbedding, ApiOutcomes DEF StoreAPI!Reconcile, P!Reconcile
  <2> QED  BY <2>1, <2>2, <2>3, SameCalls DEF StoreAPI!Next, P!Next, StoreAPI!vars, P!vars
<1>3. P!Spec => P!ImplementsContract
  BY P!StoreImplementsContract, StoreConstants
<1>4. P!Spec => [](P!CancellationIsWhole /\ P!RestorableStatus /\ P!ClaimIsRequested)
  BY P!CancellationsAreWhole, StoreConstants
<1> QED  BY <1>1, <1>2, <1>3, <1>4, LifecycleUsesStoreAPI, PTL DEF UsesStoreAPI, StoreAPI!Spec, P!Spec

-----------------------------------------------------------------------------
(* One claimant at a time.  A server that starts takes back the claims of  *)
(* every record; the sessions with a stop request in flight at that moment *)
(* are usurped, and of the others nothing but their own steps touches the  *)
(* claims.                                                                 *)

\* A record under a claim: a stop request in flight holds its claim, or the session has ended; nothing else may be
\* claimed meanwhile.
holds(w, claim) ==
    IF claim = "cancelClaimed"
    THEN ("cancelClaimed" \in w.flags \/ isTerminal(w)) /\ w.flags \cap {"stopPending", "stopClaimed"} = {}
    ELSE isTerminal(w) /\ "stopClaimed" \in w.flags

\* No stop request for session s is in flight.
Quiet(s) == StoppingCalls(s) = {} /\ LateStops(s) = {}

\* Every stop request in flight holds its claim, unless its session is usurped.
ClaimsAreHeld ==
    /\ \A c \in Calls : call[c].pc \in {"stop", "answer"} /\ call[c].session \notin usurped
                           => holds(worker[call[c].session], ClaimOf(call[c].kind))
    /\ \A z \in late : z.session \notin usurped => holds(worker[z.session], z.claim)

\* The inductive invariant.
ClaimInv == LifecycleInv /\ OneClaimant /\ ClaimsAreHeld

\* A record u that is under a claim if w is.
keepsHold(w, u) == \A claim : holds(w, claim) => holds(u, claim)

\* What a session may meet while a stop request of it is in flight.
gentle(w, u, l) ==
    \/ \E reason : u = requestWorkerCancellation(w, reason, l)
    \/ \E at : u = expireWorker(w, at, l)
    \/ \E status \in TerminalStatuses, result \in {"full", "partial"}, keep \in BOOLEAN :
          u = settleWorkerCancellation(w, status, None, result, keep)
    \/ \E claim : u = captureResult(w, claim)
    \/ \E instant : u = setWorkerDeadline(w, instant)
    \/ \E alive : u = reconcile(w, alive)
    \/ u = w

\* It stays under its claim.
LEMMA HoldIsKept ==
  ASSUME NEW s, NEW w, NEW l, NEW r, NEW a, sound(s, w, l, r, a), NEW u, gentle(w, u, l)
  PROVE  keepsHold(w, u)
<1> SUFFICES ASSUME NEW x, holds(w, x) PROVE holds(u, x)
  BY DEF keepsHold
<1>1. w \in Worker /\ w.flags \in SUBSET Flags
  BY GoodMeans DEF sound
<1>2. "cancelClaimed" \in w.flags => w.status \in TerminalStatuses \cup {"canceling"}
  BY GoodMeans DEF sound
<1>3. isTerminal(w) \/ (w.status = "canceling" /\ "cancelClaimed" \in w.flags)
  BY <1>2 DEF holds
<1>4. ASSUME NEW reason, u = requestWorkerCancellation(w, reason, l) PROVE holds(u, x)
  BY <1>3, <1>4 DEF requestWorkerCancellation
<1>5. ASSUME NEW at, u = expireWorker(w, at, l) PROVE holds(u, x)
  <2>1. CASE u = w
    BY <2>1
  <2>2. CASE u # w
    <3>1. ~isTerminal(w)
      BY <1>5, <2>2 DEF expireWorker, isOverdue
    <3>2. /\ isTerminal(u)
          /\ u.flags \cap {"stopPending", "stopClaimed"} = w.flags \cap {"stopPending", "stopClaimed"}
      BY <1>1, <1>3, <1>5, <2>2, <3>1 DEF expireWorker, finish
    <3> QED  BY <3>1, <3>2 DEF holds
  <2> QED  BY <2>1, <2>2
<1>6. ASSUME NEW status \in TerminalStatuses, NEW result \in {"full", "partial"}, NEW keep \in BOOLEAN,
             u = settleWorkerCancellation(w, status, None, result, keep)
      PROVE  holds(u, x)
  <2>1. /\ isTerminal(u)
        /\ u.flags \cap {"stopPending", "stopClaimed"} = w.flags \cap {"stopPending", "stopClaimed"}
    BY <1>1, <1>3, <1>6 DEF settleWorkerCancellation, finish
  <2>2. "stopClaimed" \in w.flags => "stopClaimed" \in u.flags
    BY <2>1
  <2> QED  BY <2>1, <2>2 DEF holds
<1>7. ASSUME NEW claim, u = captureResult(w, claim) PROVE holds(u, x)
  <2>1. CASE u = w
    BY <2>1
  <2>2. CASE u # w
    <3>1. ~isTerminal(w)
      BY <1>7, <2>2 DEF captureResult
    <3>2. /\ isTerminal(u)
          /\ u.flags \cap {"stopPending", "stopClaimed"} = w.flags \cap {"stopPending", "stopClaimed"}
      BY <1>1, <1>7, <3>1 DEF captureResult, captureStatus, finish
    <3> QED  BY <3>1, <3>2 DEF holds
  <2> QED  BY <2>1, <2>2
<1>8. ASSUME NEW instant, u = setWorkerDeadline(w, instant) PROVE holds(u, x)
  <2>1. u.status = w.status /\ u.flags = w.flags
    BY <1>1, <1>8 DEF setWorkerDeadline
  <2> QED  BY <2>1 DEF holds
<1>9. ASSUME NEW alive, u = reconcile(w, alive) PROVE holds(u, x)
  BY <1>3, <1>9 DEF reconcile
<1> QED  BY <1>4, <1>5, <1>6, <1>7, <1>8, <1>9 DEF gentle

\* A session that may be claimed has no stop request in flight.
LEMMA ClaimantIsAlone ==
  ASSUME ClaimInv, NEW s \in Sessions, s \notin usurped,
         canClaimCancellationDelivery(worker[s]) \/ canClaimProviderStop(worker[s])
  PROVE  Quiet(s)
<1>1. sound(s, worker[s], launch[s], run[s], s \in asked)
  BY DEF ClaimInv, LifecycleInv, SessionSound
<1>2. "cancelPending" \in worker[s].flags => worker[s].status = "canceling"
  BY <1>1, GoodMeans DEF sound
<1>3. \A claim : ~holds(worker[s], claim)
  BY <1>1, <1>2 DEF holds, canClaimCancellationDelivery, canClaimProviderStop, sound
<1> QED  BY <1>3 DEF ClaimInv, ClaimsAreHeld, Quiet, StoppingCalls, LateStops

\* A step by which no request comes to be in flight.
LEMMA NoneEnters ==
  ASSUME ClaimInv, LifecycleInv', usurped \subseteq usurped',
         \A c \in Calls : call'[c].pc \in {"stop", "answer"} =>
             /\ call[c].pc \in {"stop", "answer"}
             /\ call'[c].session = call[c].session /\ call'[c].kind = call[c].kind,
         late' \subseteq late,
         \A s \in Sessions \ usurped' : keepsHold(worker[s], worker'[s]) \/ Quiet(s)'
  PROVE  ClaimInv'
<1>1. \A s \in Sessions : StoppingCalls(s)' \subseteq StoppingCalls(s) /\ LateStops(s)' \subseteq LateStops(s)
  BY DEF StoppingCalls, LateStops
<1>2. OneClaimant'
  BY <1>1 DEF ClaimInv, OneClaimant, OneStop
<1>3. ASSUME NEW c \in Calls, call'[c].pc \in {"stop", "answer"}, call'[c].session \notin usurped'
      PROVE  holds(worker'[call'[c].session], ClaimOf(call'[c].kind))
  <2>1. /\ holds(worker[call[c].session], ClaimOf(call[c].kind))
        /\ call'[c].session = call[c].session /\ call'[c].kind = call[c].kind
    BY <1>3 DEF ClaimInv, ClaimsAreHeld
  <2>2. PICK s \in Sessions : s = call[c].session
    BY <1>3, InProgress DEF ClaimInv
  <2>3. c \in StoppingCalls(s)'
    BY <1>3, <2>1, <2>2 DEF StoppingCalls
  <2>4. keepsHold(worker[s], worker'[s])
    BY <1>3, <2>1, <2>2, <2>3 DEF Quiet
  <2> QED  BY <2>1, <2>2, <2>4 DEF keepsHold
<1>4. ASSUME NEW z \in late', z.session \notin usurped' PROVE holds(worker'[z.session], z.claim)
  <2>1. PICK s \in Sessions : s = z.session /\ z \in late
    BY Types DEF ClaimInv, LateStop
  <2>2. holds(worker[s], z.claim)
    BY <1>4, <2>1 DEF ClaimInv, ClaimsAreHeld
  <2>3. z \in LateStops(s)'
    BY <2>1 DEF LateStops
  <2>4. keepsHold(worker[s], worker'[s])
    BY <1>4, <2>1, <2>3 DEF Quiet
  <2> QED  BY <2>1, <2>2, <2>4 DEF keepsHold
<1> QED  BY <1>2, <1>3, <1>4 DEF ClaimInv, ClaimsAreHeld


\* The record of session s meets such a method, and no other record changes.
LEMMA GentleStep ==
  ASSUME LifecycleInv, NEW s \in Sessions, NEW u, Store(s, u), gentle(worker[s], u, launch[s])
  PROVE  \A x \in Sessions : keepsHold(worker[x], worker'[x])
<1>1. sound(s, worker[s], launch[s], run[s], s \in asked)
  BY DEF LifecycleInv, SessionSound
<1>2. keepsHold(worker[s], u)
  BY <1>1, HoldIsKept
<1>3. worker'[s] = u /\ \A x \in Sessions \ {s} : worker'[x] = worker[x]
  BY Types DEF Store
<1> QED  BY <1>2, <1>3 DEF keepsHold

\* A call moves, and no request comes to be in flight.
LEMMA OneCall ==
  ASSUME ClaimInv, LifecycleInv', NEW c \in Calls,
         \A d \in Calls \ {c} : call'[d] = call[d],
         call'[c].pc \in {"stop", "answer"} =>
             /\ call[c].pc \in {"stop", "answer"}
             /\ call'[c].session = call[c].session /\ call'[c].kind = call[c].kind,
         usurped' = usurped, late' = late,
         \A s \in Sessions \ usurped : keepsHold(worker[s], worker'[s]) \/ Quiet(s)'
  PROVE  ClaimInv'
<1>2. \A d \in Calls : call'[d].pc \in {"stop", "answer"} =>
          /\ call[d].pc \in {"stop", "answer"}
          /\ call'[d].session = call[d].session /\ call'[d].kind = call[d].kind
  OBVIOUS
<1> QED  BY <1>2, NoneEnters

\* A call returns, or goes on where no request is in flight.
LEMMA CallLeaves ==
  ASSUME LifecycleInv, NEW c \in Calls, clock' = clock,
         \/ Return(c)
         \/ \E pc \in Places \ {"stop", "answer"}, note \in Notes : Go(c, pc, note)
  PROVE  call'[c].pc \notin {"stop", "answer"} /\ \A d \in Calls \ {c} : call'[d] = call[d]
<1>1. Idle.pc = "idle"
  BY DEF Idle
<1> QED  BY <1>1, ReturnMoves, GoMoves

\* A call that meets the record gently.
LEMMA GentleCall ==
  ASSUME ClaimInv, LifecycleInv', NEW c \in Calls, call[c].pc # "idle", clock' = clock, usurped' = usurped, late' = late,
         \/ Return(c)
         \/ \E pc \in Places \ {"stop", "answer"}, note \in Notes : Go(c, pc, note),
         \A s \in Sessions : keepsHold(worker[s], worker'[s])
  PROVE  ClaimInv'
<1>1. call'[c].pc \notin {"stop", "answer"} /\ \A d \in Calls \ {c} : call'[d] = call[d]
  BY CallLeaves DEF ClaimInv
<1> QED  BY <1>1, OneCall

\* The record does not change.
LEMMA RecordsRest ==
  ASSUME worker' = worker
  PROVE  \A s \in Sessions : keepsHold(worker[s], worker'[s])
  BY DEF keepsHold

\* The steps of a call in which it claims nothing and gives nothing back.
LEMMA GentleCalls ==
  ASSUME ClaimInv, LifecycleInv', NEW c \in Calls,
         \/ \E reason \in CancelReasons : Request(c, reason)
         \/ Expire(c) \/ Settle(c) \/ Capture(c)
  PROVE  ClaimInv'
<1>0. LifecycleInv /\ call[c].pc # "idle"
  BY DEF ClaimInv, Request, Expire, Settle, Capture, At
<1>1. PICK s \in Sessions : s = call[c].session /\ CallSound(c) /\ call[c] \in CallRecord
  BY <1>0, InProgress
<1>2. usurped' = usurped /\ late' = late /\ clock' = clock
  BY DEF Request, Expire, Settle, Capture, KeepServers
<1>3. "claim" \in Places \ {"stop", "answer"} /\ None \in Notes
  BY DEF Places, Notes
<1>4. Return(c) \/ Go(c, "claim", None)
  BY DEF Request, Expire, Settle, Capture
<1>5. \E u : Store(s, u) /\ gentle(worker[s], u, launch[s])
  <2>1. ASSUME NEW reason \in CancelReasons, Request(c, reason)
        PROVE  \E u : Store(s, u) /\ gentle(worker[s], u, launch[s])
    BY <1>1, <2>1 DEF Request, gentle
  <2>2. CASE Expire(c)
    BY <1>1, <2>2 DEF Expire, gentle
  <2>3. CASE Settle(c)
    <3>1. terminalStatusFor(call[c].seen) \in TerminalStatuses /\ call[c].note \in {"full", "partial"}
      BY <1>1, <2>3 DEF Settle, CallSound, CallRecord, terminalStatusFor, RunEnded
    <3>2. Store(s, settleFromProvider(worker[s], call[c].seen, call[c].note))
      BY <1>1, <2>3 DEF Settle
    <3>3. PICK keep \in BOOLEAN : keep = (call[c].note = "partial")
      OBVIOUS
    <3> QED  BY <3>1, <3>2, <3>3 DEF settleFromProvider, gentle
  <2>4. CASE Capture(c)
    <3>1. CASE captured[s] = None
      BY <1>1, <2>4, <3>1 DEF Capture, gentle
    <3>2. CASE captured[s] # None
      <4>1. Store(s, worker[s])
        BY <1>0, <1>1, <2>4, <3>2, SameRecord DEF Capture
      <4> QED  BY <4>1 DEF gentle
    <3> QED  BY <3>1, <3>2
  <2> QED  BY <2>1, <2>2, <2>3, <2>4
<1>6. \A x \in Sessions : keepsHold(worker[x], worker'[x])
  BY <1>0, <1>5, GentleStep
<1> QED  BY <1>0, <1>2, <1>3, <1>4, <1>6, GentleCall

\* The steps of a call that leave the record alone, and do not leave a request behind.
LEMMA RestingCalls ==
  ASSUME ClaimInv, LifecycleInv', NEW c \in Calls, NEW answer \in {"accepted", "unsupported", "failed"},
         NEW result \in {"full", "partial"}, NEW claim \in Claims,
         \/ Answer(c, answer) \/ StatusEnded(c) \/ StatusOpen(c) \/ StatusMalformed(c)
         \/ Result(c, result) \/ CaptureClaim(c, claim) \/ CaptureGivesUp(c)
  PROVE  ClaimInv'
<1>0. LifecycleInv /\ call[c].pc # "idle"
  BY DEF ClaimInv, Answer, StatusEnded, StatusOpen, StatusMalformed, Result, CaptureClaim, CaptureGivesUp, At
<1>1. usurped' = usurped /\ late' = late /\ clock' = clock /\ worker' = worker
  BY DEF Answer, StatusEnded, StatusOpen, StatusMalformed, Result, CaptureClaim, CaptureGivesUp, KeepServers, storeVars
<1>2. \A s \in Sessions : keepsHold(worker[s], worker'[s])
  BY <1>1, RecordsRest
<1>3. CASE Answer(c, answer)
  <2>1. "answer" \in Places /\ answer \in Notes /\ call[c].pc = "stop" /\ Go(c, "answer", answer)
    BY <1>3 DEF Places, Notes, Answer
  <2>2. /\ \A d \in Calls \ {c} : call'[d] = call[d]
        /\ call'[c].kind = call[c].kind /\ call'[c].session = call[c].session
    BY <1>0, <2>1, GoMoves
  <2> QED  BY <1>0, <1>1, <1>2, <2>1, <2>2, OneCall
<1>4. CASE StatusEnded(c)
  <2>1. call \in [Calls -> CallRecord] /\ call[c] \in CallRecord
    BY <1>0, Types
  <2>2. /\ call'[c].pc = "result" /\ \A d \in Calls \ {c} : call'[d] = call[d]
    BY <1>4, <2>1 DEF StatusEnded, CallRecord
  <2> QED  BY <1>0, <1>1, <1>2, <2>2, OneCall
<1>5. ASSUME ~Answer(c, answer), ~StatusEnded(c) PROVE ClaimInv'
  <2>1. /\ {"capture", "settle"} \subseteq Places \ {"stop", "answer"}
        /\ {"malformed", result, claim} \subseteq Notes
    BY DEF Places, Notes, Claims
  <2>2. Return(c) \/ Go(c, "capture", "malformed") \/ Go(c, "settle", result) \/ Go(c, "capture", claim)
    BY <1>5 DEF StatusOpen, StatusMalformed, Result, CaptureClaim, CaptureGivesUp
  <2> QED  BY <1>0, <1>1, <1>2, <2>1, <2>2, GentleCall
<1> QED  BY <1>3, <1>4, <1>5

\* The start of a call.
LEMMA StartingCalls ==
  ASSUME ClaimInv, LifecycleInv', NEW c \in Calls, NEW s \in Sessions, StartCall(c, s)
  PROVE  ClaimInv'
<1>1. usurped' = usurped /\ late' = late /\ worker' = worker
  BY DEF StartCall, StartCancel, StartExpire, StartReconcile, StartTimedOut, StartCapture, KeepServers, storeVars
<1>2. PICK kind \in Kinds, pc \in {"request", "expire", "claim", "status"} : Begin(c, kind, s, pc)
  BY DEF StartCall, StartCancel, StartExpire, StartReconcile, StartTimedOut, StartCapture, Kinds
<1>3. LifecycleInv /\ pc \in Places /\ pc # "idle"
  BY DEF ClaimInv, Places
<1>4. call'[c].pc = pc /\ \A d \in Calls \ {c} : call'[d] = call[d]
  BY <1>2, <1>3, BeginMoves
<1>5. \A x \in Sessions : keepsHold(worker[x], worker'[x])
  BY <1>1, RecordsRest
<1> QED  BY <1>1, <1>2, <1>4, <1>5, OneCall


\* A call takes a claim on session s, of which no request is in flight.
LEMMA ClaimEnters ==
  ASSUME ClaimInv, LifecycleInv', NEW c \in Calls, call[c].pc # "idle", NEW s \in Sessions, s = call[c].session,
         s \in usurped \/ Quiet(s), Go(c, "stop", None), usurped' = usurped, late' = late,
         NEW u, Store(s, u), holds(u, ClaimOf(call[c].kind))
  PROVE  ClaimInv'
<1>1. LifecycleInv /\ "stop" \in Places /\ None \in Notes
  BY DEF ClaimInv, Places, Notes
<1>2. /\ call'[c].pc = "stop" /\ call'[c].session = s /\ call'[c].kind = call[c].kind
      /\ \A d \in Calls \ {c} : call'[d] = call[d]
  BY <1>1, GoMoves
<1>3. worker'[s] = u /\ \A x \in Sessions \ {s} : worker'[x] = worker[x]
  BY <1>1, Types DEF Store
<1>4. s \notin usurped => StoppingCalls(s)' = {c} /\ LateStops(s)' = {}
  BY <1>2 DEF Quiet, StoppingCalls, LateStops
<1>5. \A x \in Sessions \ {s} : StoppingCalls(x)' = StoppingCalls(x) /\ LateStops(x)' = LateStops(x)
  BY <1>2 DEF StoppingCalls, LateStops
<1>6. OneClaimant'
  <2>1. ASSUME NEW x \in Sessions \ usurped PROVE OneStop(x)'
    <3>1. CASE x = s
      BY <1>4, <3>1 DEF OneStop
    <3>2. CASE x # s
      BY <1>5, <3>2 DEF ClaimInv, OneClaimant, OneStop
    <3> QED  BY <3>1, <3>2
  <2> QED  BY <2>1 DEF OneClaimant
<1>8. ClaimsAreHeld'
  <2>1. ASSUME NEW d \in Calls, call'[d].pc \in {"stop", "answer"}, call'[d].session \notin usurped
        PROVE  holds(worker'[call'[d].session], ClaimOf(call'[d].kind))
    <3>1. CASE d = c
      BY <1>2, <1>3, <3>1
    <3>2. CASE d # c
      <4>1. call'[d] = call[d] /\ call[d].session # s
        BY <1>2, <2>1, <3>2 DEF Quiet, StoppingCalls
      <4>2. call[d].session \in Sessions
        BY <1>1, <2>1, <4>1, InProgress
      <4> QED  BY <1>3, <2>1, <4>1, <4>2 DEF ClaimInv, ClaimsAreHeld
    <3> QED  BY <3>1, <3>2
  <2>2. ASSUME NEW z \in late', z.session \notin usurped PROVE holds(worker'[z.session], z.claim)
    <3>1. z \in late /\ z.session \in Sessions /\ z.session # s
      BY <1>1, <2>2, Types DEF Quiet, LateStops, LateStop
    <3> QED  BY <1>3, <2>2, <3>1 DEF ClaimInv, ClaimsAreHeld
  <2> QED  BY <2>1, <2>2 DEF ClaimsAreHeld
<1> QED  BY <1>6, <1>8 DEF ClaimInv

\* A claim is taken, or is not to be had.
LEMMA ClaimingCalls ==
  ASSUME ClaimInv, LifecycleInv', NEW c \in Calls, ClaimDelivery(c) \/ ClaimStop(c)
  PROVE  ClaimInv'
<1>0. LifecycleInv /\ call[c].pc = "claim"
  BY DEF ClaimInv, ClaimDelivery, ClaimStop, At
<1>1. PICK s \in Sessions : s = call[c].session /\ sound(s, worker[s], launch[s], run[s], s \in asked)
  BY <1>0, InProgress
<1>2. usurped' = usurped /\ late' = late /\ clock' = clock
  BY DEF ClaimDelivery, ClaimStop, KeepServers
<1>3. worker[s] \in Worker /\ worker[s].flags \in SUBSET Flags
  BY <1>1, GoodMeans DEF sound
<1>4. CASE ClaimDelivery(c) /\ canClaimCancellationDelivery(worker[s])
  <2>1. PICK u : u = claimCancellationDelivery(worker[s])
    OBVIOUS
  <2>2. Store(s, u) /\ Go(c, "stop", None) /\ ClaimOf(call[c].kind) = "cancelClaimed"
    BY <1>1, <1>4, <2>1 DEF ClaimDelivery, At, ClaimOf
  <2>3. "cancelPending" \in worker[s].flags => worker[s].status = "canceling"
    BY <1>1, GoodMeans DEF sound
  <2>4. u.flags = (worker[s].flags \ {"cancelPending"}) \cup {"cancelClaimed"}
    BY <1>3, <2>1 DEF claimCancellationDelivery
  <2>5. holds(u, "cancelClaimed")
    BY <1>1, <1>4, <2>3, <2>4 DEF holds, canClaimCancellationDelivery, sound
  <2>6. s \in usurped \/ Quiet(s)
    BY <1>4, ClaimantIsAlone
  <2> QED  BY <1>0, <1>1, <1>2, <2>2, <2>5, <2>6, ClaimEnters
<1>5. CASE ClaimStop(c) /\ canClaimProviderStop(worker[s])
  <2>1. PICK u : u = claimProviderStop(worker[s])
    OBVIOUS
  <2>2. Store(s, u) /\ Go(c, "stop", None) /\ ClaimOf(call[c].kind) = "stopClaimed"
    BY <1>1, <1>5, <2>1 DEF ClaimStop, At, ClaimOf
  <2>3. u.flags = (worker[s].flags \ {"stopPending"}) \cup {"stopClaimed"} /\ u.status = worker[s].status
    BY <1>3, <2>1 DEF claimProviderStop
  <2>4. holds(u, "stopClaimed")
    BY <1>1, <1>5, <2>3 DEF holds, canClaimProviderStop, sound
  <2>5. s \in usurped \/ Quiet(s)
    BY <1>5, ClaimantIsAlone
  <2> QED  BY <1>0, <1>1, <1>2, <2>2, <2>4, <2>5, ClaimEnters
<1>6. CASE /\ ~(ClaimDelivery(c) /\ canClaimCancellationDelivery(worker[s]))
           /\ ~(ClaimStop(c) /\ canClaimProviderStop(worker[s]))
  <2>1. worker' = worker /\ (Return(c) \/ Go(c, "status", None))
    BY <1>1, <1>6 DEF ClaimDelivery, ClaimStop
  <2>2. "status" \in Places \ {"stop", "answer"} /\ None \in Notes
    BY DEF Places, Notes
  <2> QED  BY <1>0, <1>2, <2>1, <2>2, RecordsRest, GentleCall
<1> QED  BY <1>4, <1>5, <1>6

\* A request outlives its call, with its claim.
LEMMA TimedOutCalls ==
  ASSUME ClaimInv, LifecycleInv', NEW c \in Calls, Timeout(c)
  PROVE  ClaimInv'
<1>0. LifecycleInv /\ call[c].pc = "stop"
  BY DEF ClaimInv, Timeout
<1>1. PICK s \in Sessions : s = call[c].session
  BY <1>0, InProgress
<1>2. usurped' = usurped /\ clock' = clock /\ worker' = worker
  BY DEF Timeout, KeepServers, storeVars
<1>3. PICK z : /\ z = [server |-> Owner[c], session |-> s, claim |-> ClaimOf(call[c].kind)]
               /\ late' = late \cup {z}
  BY <1>1 DEF Timeout
<1>4. z.server = Owner[c] /\ z.session = s /\ z.claim = ClaimOf(call[c].kind)
  BY <1>3
<1>5. Return(c) \/ Go(c, "status", None)
  BY DEF Timeout
<1>6. call'[c].pc \notin {"stop", "answer"} /\ \A d \in Calls \ {c} : call'[d] = call[d]
  <2>1. "status" \in Places \ {"stop", "answer"} /\ None \in Notes
    BY DEF Places, Notes
  <2> QED  BY <1>0, <1>2, <1>5, <2>1, CallLeaves
<1>7. s \notin usurped => StoppingCalls(s) = {c} /\ LateStops(s) = {}
  <2>1. c \in StoppingCalls(s)
    BY <1>0, <1>1 DEF StoppingCalls
  <2> QED  BY <2>1 DEF ClaimInv, OneClaimant, OneStop
<1>8. s \notin usurped => StoppingCalls(s)' = {} /\ LateStops(s)' = {z}
  BY <1>3, <1>4, <1>6, <1>7 DEF StoppingCalls, LateStops
<1>9. \A x \in Sessions \ {s} : StoppingCalls(x)' = StoppingCalls(x) /\ LateStops(x)' = LateStops(x)
  BY <1>1, <1>3, <1>4, <1>6 DEF StoppingCalls, LateStops
<1>10. OneClaimant'
  <2>1. ASSUME NEW x \in Sessions \ usurped PROVE OneStop(x)'
    <3>1. CASE x = s
      BY <1>8, <3>1 DEF OneStop
    <3>2. CASE x # s
      BY <1>9, <3>2 DEF ClaimInv, OneClaimant, OneStop
    <3> QED  BY <3>1, <3>2
  <2> QED  BY <1>2, <2>1 DEF OneClaimant
<1>12. ClaimsAreHeld'
  BY <1>0, <1>1, <1>2, <1>3, <1>4, <1>6 DEF ClaimInv, ClaimsAreHeld
<1> QED  BY <1>10, <1>12 DEF ClaimInv

\* An answer is recorded: the request of session s was the only one.
LEMMA AnsweredCalls ==
  ASSUME ClaimInv, LifecycleInv', NEW c \in Calls, ApplyDelivery(c) \/ ApplyStop(c)
  PROVE  ClaimInv'
<1>0. LifecycleInv /\ call[c].pc = "answer"
  BY DEF ClaimInv, ApplyDelivery, ApplyStop, At
<1>1. PICK s \in Sessions : s = call[c].session
  BY <1>0, InProgress
<1>2. usurped' = usurped /\ late' = late /\ clock' = clock
  BY DEF ApplyDelivery, ApplyStop, KeepServers
<1>3. PICK u : Store(s, u)
  BY <1>1 DEF ApplyDelivery, ApplyStop
<1>4. \A x \in Sessions \ {s} : worker'[x] = worker[x]
  BY <1>0, <1>3, Types DEF Store
<1>5. call'[c].pc \notin {"stop", "answer"} /\ \A d \in Calls \ {c} : call'[d] = call[d]
  <2>1. "status" \in Places \ {"stop", "answer"} /\ None \in Notes
    BY DEF Places, Notes
  <2>2. Return(c) \/ Go(c, "status", None)
    BY DEF ApplyDelivery, ApplyStop
  <2> QED  BY <1>0, <1>2, <2>1, <2>2, CallLeaves
<1>6. s \notin usurped => StoppingCalls(s) = {c} /\ LateStops(s) = {}
  <2>1. c \in StoppingCalls(s)
    BY <1>0, <1>1 DEF StoppingCalls
  <2> QED  BY <2>1 DEF ClaimInv, OneClaimant, OneStop
<1>7. s \notin usurped => Quiet(s)'
  BY <1>2, <1>5, <1>6 DEF Quiet, StoppingCalls, LateStops
<1>8. \A x \in Sessions \ usurped : keepsHold(worker[x], worker'[x]) \/ Quiet(x)'
  BY <1>4, <1>7 DEF keepsHold
<1> QED  BY <1>0, <1>2, <1>5, <1>8, OneCall

\* A late request settles: it was the only one of its session.
LEMMA LateSettles ==
  ASSUME ClaimInv, LifecycleInv', NEW z \in late, LateRelease(z)
  PROVE  ClaimInv'
<1>0. LifecycleInv /\ late' = late \ {z} /\ call' = call /\ usurped' = usurped
  BY DEF ClaimInv, LateRelease, KeepServers
<1>1. PICK s \in Sessions : s = z.session
  BY <1>0, Types DEF LateStop
<1>2. PICK u : Store(s, u)
  BY <1>1 DEF LateRelease
<1>3. \A x \in Sessions \ {s} : worker'[x] = worker[x]
  BY <1>0, <1>2, Types DEF Store
<1>4. s \notin usurped => LateStops(s) = {z} /\ StoppingCalls(s) = {}
  <2>1. z \in LateStops(s)
    BY <1>1 DEF LateStops
  <2> QED  BY <2>1 DEF ClaimInv, OneClaimant, OneStop
<1>5. s \notin usurped => Quiet(s)'
  BY <1>0, <1>4 DEF Quiet, StoppingCalls, LateStops
<1>6. \A x \in Sessions \ usurped : keepsHold(worker[x], worker'[x]) \/ Quiet(x)'
  BY <1>3, <1>5 DEF keepsHold
<1> QED  BY <1>0, <1>6, NoneEnters

\* The request of a crashed server ends, and leaves its claim to the next recovery.
LEMMA OrphansEnd ==
  ASSUME ClaimInv, LifecycleInv', NEW z \in late, OrphanEnds(z)
  PROVE  ClaimInv'
<1>1. worker' = worker /\ call' = call /\ late' \subseteq late /\ usurped' = usurped
  BY DEF OrphanEnds, KeepServers, storeVars
<1> QED  BY <1>1, RecordsRest, NoneEnters

\* Nobody's calls move.
LEMMA CallsRest ==
  ASSUME ClaimInv, LifecycleInv', call' = call, late' = late, usurped \subseteq usurped',
         \A s \in Sessions \ usurped' : keepsHold(worker[s], worker'[s]) \/ Quiet(s)'
  PROVE  ClaimInv'
<1>1. late' \subseteq late
  OBVIOUS
<1> QED  BY <1>1, NoneEnters

\* The launch of a session: one that has no run has no stop request in flight.
LEMMA LaunchingRests ==
  ASSUME ClaimInv, LifecycleInv', NEW s \in Sessions, LaunchStep(s)
  PROVE  ClaimInv'
<1>0. LifecycleInv /\ SessionSound(s)
  BY DEF ClaimInv, LifecycleInv
<1>1. call' = call /\ late' = late /\ usurped' = usurped
  BY DEF LaunchStep, Dispatch, DispatchEnded, RecordLaunched, RecordLaunchFailed, DispatchGivesUp, BindRun, SetDeadline,
     KeepServers
<1>3. CASE worker' = worker
  BY <1>1, <1>3, RecordsRest, CallsRest
<1>4. ASSUME NEW instant \in 1..MaxTime, SetDeadline(s, instant) PROVE ClaimInv'
  <2>1. PICK u : Store(s, u) /\ gentle(worker[s], u, launch[s])
    BY <1>4 DEF SetDeadline, gentle
  <2>2. \A x \in Sessions : keepsHold(worker[x], worker'[x])
    BY <1>0, <2>1, GentleStep
  <2> QED  BY <1>1, <2>2, CallsRest
<1>5. ASSUME NEW u, Store(s, u), ~isBound(worker[s]) PROVE ClaimInv'
  <2>1. Quiet(s)
    <3>1. ASSUME NEW c \in StoppingCalls(s) PROVE FALSE
      <4>1. c \in Calls /\ call[c].session = s /\ call[c].pc \in {"stop", "answer"}
        BY DEF StoppingCalls
      <4> QED  BY <1>0, <1>5, <4>1, InProgress DEF CallSound
    <3>2. ASSUME NEW z \in LateStops(s) PROVE FALSE
      BY <1>0, <1>5 DEF LateStops, LifecycleInv, LateSound
    <3> QED  BY <3>1, <3>2 DEF Quiet
  <2>2. Quiet(s)'
    BY <1>1, <2>1 DEF Quiet, StoppingCalls, LateStops
  <2>3. \A x \in Sessions \ {s} : worker'[x] = worker[x]
    BY <1>0, <1>5, Types DEF Store
  <2>4. \A x \in Sessions : keepsHold(worker[x], worker'[x]) \/ Quiet(x)'
    BY <2>2, <2>3 DEF keepsHold
  <2> QED  BY <1>1, <2>4, CallsRest
<1>6. CASE RecordLaunched(s) \/ RecordLaunchFailed(s)
  <2>1. ~isBound(worker[s]) /\ \E u : Store(s, u)
    BY <1>0, <1>6 DEF RecordLaunched, RecordLaunchFailed, SessionSound, sound
  <2> QED  BY <1>5, <2>1
<1>7. ASSUME NEW evidence \in BOOLEAN, BindRun(s, evidence) PROVE ClaimInv'
  <2>1. ~isBound(worker[s]) /\ \E u : Store(s, u)
    BY <1>0, <1>7 DEF BindRun, SessionSound, sound
  <2> QED  BY <1>5, <2>1
<1>8. CASE \/ \E v \in Servers : Dispatch(v, s) \/ DispatchEnded(v, s)
           \/ DispatchGivesUp(s)
  BY <1>3, <1>8 DEF Dispatch, DispatchEnded, DispatchGivesUp, storeVars
<1> QED  BY <1>4, <1>6, <1>7, <1>8 DEF LaunchStep

\* A server crashes: a request of its calls goes on without it, and stays the only one of its session.
LEMMA CrashLeaves ==
  ASSUME ClaimInv, LifecycleInv', NEW v \in Servers, Crash(v)
  PROVE  ClaimInv'
<1>0. LifecycleInv
  BY DEF ClaimInv
<1>1. /\ worker' = worker /\ usurped' = usurped
      /\ call' = [c \in Calls |-> IF Owner[c] = v THEN Idle ELSE call[c]]
      /\ late' = {z \in late : z.server # v} \cup Orphans(v)
  BY DEF Crash, storeVars
<1>2. Idle.pc = "idle"
  BY DEF Idle
<1>3. \A c \in Calls : call'[c].pc \in {"stop", "answer"} => call'[c] = call[c]
  BY <1>1, <1>2
<1>4. ASSUME NEW s \in Sessions PROVE StoppingCalls(s)' \subseteq StoppingCalls(s)
  BY <1>3 DEF StoppingCalls
\* What a request in flight after the crash was before it.
<1>5. ASSUME NEW y \in late'
      PROVE  \/ y \in late /\ y.server # v
             \/ \E c \in Calls : /\ Owner[c] = v /\ call[c].pc = "stop"
                                  /\ y = [server |-> NoServer, session |-> call[c].session, claim |-> ClaimOf(call[c].kind)]
             \/ \E z \in late : z.server = v /\ y = [z EXCEPT !.server = NoServer]
  BY <1>1 DEF Orphans
<1>6. ASSUME NEW s \in Sessions, OneStop(s) PROVE OneStop(s)'
  <2>1. ASSUME NEW y \in LateStops(s)'
        PROVE  \/ y \in LateStops(s) /\ y.server # v
               \/ \E c \in StoppingCalls(s) :
                      /\ c \notin StoppingCalls(s)'
                      /\ y = [server |-> NoServer, session |-> s, claim |-> ClaimOf(call[c].kind)]
               \/ \E z \in LateStops(s) : z.server = v /\ y = [z EXCEPT !.server = NoServer]
    <3>1. y \in late' /\ y.session = s
      BY DEF LateStops
    <3>2. CASE y \in late /\ y.server # v
      BY <3>1, <3>2 DEF LateStops
    <3>3. ASSUME NEW c \in Calls, Owner[c] = v, call[c].pc = "stop",
                 y = [server |-> NoServer, session |-> call[c].session, claim |-> ClaimOf(call[c].kind)]
          PROVE  /\ c \in StoppingCalls(s) /\ c \notin StoppingCalls(s)'
                 /\ y = [server |-> NoServer, session |-> s, claim |-> ClaimOf(call[c].kind)]
      <4>1. call[c].session = s
        BY <3>1, <3>3
      <4>2. call'[c].pc = "idle"
        BY <1>1, <1>2, <3>3
      <4> QED  BY <3>3, <4>1, <4>2 DEF StoppingCalls
    <3>4. ASSUME NEW z \in late, z.server = v, y = [z EXCEPT !.server = NoServer]
          PROVE  z \in LateStops(s)
      <4>1. z \in LateStop
        BY <1>0, Types
      <4>2. y.session = z.session
        BY <3>4, <4>1 DEF LateStop
      <4> QED  BY <3>1, <4>2 DEF LateStops
    <3> QED  BY <1>5, <3>1, <3>2, <3>3, <3>4
  <2>2. StoppingCalls(s)' \subseteq StoppingCalls(s)
    BY <1>4
  <2>3. \A c, d \in StoppingCalls(s)' : c = d
    BY <1>6, <2>2 DEF OneStop
  <2>4. \A y, z \in LateStops(s)' : y = z
    BY <1>6, <2>1 DEF OneStop
  <2>5. StoppingCalls(s)' = {} \/ LateStops(s)' = {}
    BY <1>6, <2>1, <2>2 DEF OneStop
  <2> QED  BY <2>3, <2>4, <2>5 DEF OneStop
<1>7. OneClaimant'
  BY <1>1, <1>6 DEF ClaimInv, OneClaimant
<1>8. ASSUME NEW y \in late', y.session \notin usurped PROVE holds(worker[y.session], y.claim)
  <2>1. CASE y \in late
    BY <1>8, <2>1 DEF ClaimInv, ClaimsAreHeld
  <2>2. ASSUME NEW c \in Calls, call[c].pc = "stop",
               y = [server |-> NoServer, session |-> call[c].session, claim |-> ClaimOf(call[c].kind)]
        PROVE  holds(worker[y.session], y.claim)
    <3>1. y.session = call[c].session /\ y.claim = ClaimOf(call[c].kind)
      BY <2>2
    <3> QED  BY <1>8, <2>2, <3>1 DEF ClaimInv, ClaimsAreHeld
  <2>3. ASSUME NEW z \in late, y = [z EXCEPT !.server = NoServer]
        PROVE  holds(worker[y.session], y.claim)
    <3>1. z \in LateStop
      BY <1>0, Types
    <3>2. y.session = z.session /\ y.claim = z.claim
      BY <2>3, <3>1 DEF LateStop
    <3> QED  BY <1>8, <3>2 DEF ClaimInv, ClaimsAreHeld
  <2> QED  BY <1>5, <2>1, <2>2, <2>3
<1>9. ClaimsAreHeld'
  BY <1>1, <1>3, <1>8 DEF ClaimInv, ClaimsAreHeld
<1> QED  BY <1>7, <1>9 DEF ClaimInv

\* A server that starts usurps the sessions with a request in flight; a reconciliation leaves the claims alone.
LEMMA ServersMove ==
  ASSUME ClaimInv, LifecycleInv', NEW v \in Servers, ServerStep(v)
  PROVE  ClaimInv'
<1>0. LifecycleInv
  BY DEF ClaimInv
<1>2. CASE RecoverClaims(v)
  <2>1. /\ call' = call /\ late' = late
        /\ usurped' = usurped \cup {s \in Sessions : StoppingCalls(s) \cup LateStops(s) # {}}
    BY <1>2 DEF RecoverClaims
  <2>2. \A s \in Sessions \ usurped' : Quiet(s)'
    BY <2>1 DEF Quiet, StoppingCalls, LateStops
  <2> QED  BY <2>1, <2>2, CallsRest
<1>3. ASSUME NEW alive \in SUBSET Sessions, Reconcile(v, alive) PROVE ClaimInv'
  <2>1. /\ call' = call /\ late' = late /\ usurped' = usurped
        /\ worker' = [s \in Sessions |-> reconcile(worker[s], s \in alive)]
    BY <1>3 DEF Reconcile
  <2>2. ASSUME NEW s \in Sessions PROVE keepsHold(worker[s], worker'[s])
    <3>1. PICK u : u = worker'[s]
      OBVIOUS
    <3>2. u = reconcile(worker[s], s \in alive)
      BY <2>1, <3>1
    <3>3. gentle(worker[s], u, launch[s])
      BY <3>2 DEF gentle
    <3>4. sound(s, worker[s], launch[s], run[s], s \in asked)
      BY <1>0 DEF LifecycleInv, SessionSound
    <3> QED  BY <3>1, <3>3, <3>4, HoldIsKept
  <2> QED  BY <2>1, <2>2, CallsRest
<1> QED  BY <1>2, <1>3, CrashLeaves DEF ServerStep

\* A step that touches neither records, calls, requests nor claims.
LEMMA OthersMove ==
  ASSUME ClaimInv, LifecycleInv', worker' = worker, call' = call, late' = late, usurped' = usurped
  PROVE  ClaimInv'
  BY RecordsRest, CallsRest

\* Every step of the servers and the provider keeps the claims apart.
LEMMA StepKeepsClaims == ClaimInv /\ [Next]_vars => ClaimInv'
<1> SUFFICES ASSUME ClaimInv, [Next]_vars PROVE ClaimInv'
  OBVIOUS
<1>1. LifecycleInv'
  BY StepAdvances DEF ClaimInv, Advances
<1>2. ASSUME NEW c \in Calls, CallStep(c) PROVE ClaimInv'
  <2>1. "malformed" \in Claims
    BY DEF Claims
  <2> QED
    BY <1>1, <1>2, <2>1, GentleCalls, RestingCalls, ClaimingCalls, TimedOutCalls, AnsweredCalls DEF CallStep
<1>3. ASSUME NEW s \in Sessions, ProviderStep(s) PROVE ClaimInv'
  <2>1. worker' = worker /\ call' = call /\ late' = late /\ usurped' = usurped
    BY <1>3 DEF ProviderStep, ProviderLaunches, StopReceived, RunStops, RunEnds, KeepServers, storeVars
  <2> QED  BY <1>1, <2>1, OthersMove
<1>4. CASE Tick
  <2>1. worker' = worker /\ call' = call /\ late' = late /\ usurped' = usurped
    BY <1>4 DEF Tick, KeepServers
  <2> QED  BY <1>1, <2>1, OthersMove
<1>5. CASE UNCHANGED vars
  <2>1. worker' = worker /\ call' = call /\ late' = late /\ usurped' = usurped
    BY <1>5 DEF vars, storeVars
  <2> QED  BY <1>1, <2>1, OthersMove
<1> QED
  BY <1>1, <1>2, <1>3, <1>4, <1>5, StartingCalls, LateSettles, OrphansEnd, LaunchingRests, ServersMove DEF Next

\* However the calls, timeouts, late answers, crashes and restarts of any number of servers interleave, a session has at
\* most one stop request in flight, the ones that outlived their call or their server included, unless a server started
\* while one was in flight.
THEOREM OneClaimantAtATime == Spec => []OneClaimant
<1>1. Init => ClaimInv
  <2> SUFFICES ASSUME Init PROVE ClaimInv
    OBVIOUS
  <2>1. LifecycleInv /\ late = {} /\ \A c \in Calls : call[c].pc = "idle"
    BY InitIsSound DEF Init, Idle
  <2>2. OneClaimant /\ ClaimsAreHeld
    BY <2>1 DEF OneClaimant, OneStop, ClaimsAreHeld, StoppingCalls, LateStops
  <2> QED  BY <2>1, <2>2 DEF ClaimInv
<1>2. ClaimInv => OneClaimant
  BY DEF ClaimInv
<1>3. ClaimInv /\ [Next]_vars => ClaimInv'
  BY StepKeepsClaims
<1> QED  BY <1>1, <1>2, <1>3, PTL DEF Spec
=============================================================================
