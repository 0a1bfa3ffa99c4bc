----------------------------- MODULE Lifecycle -----------------------------
(***************************************************************************)
(* Cancellation, deadlines and result reconciliation: LifecycleService     *)
(* (src/src/lifecycle-service.ts) and ResultCaptureService over the durable*)
(* store, the server's timers and restarts (src/src/server.ts), and the    *)
(* provider they talk to.                                                  *)
(*                                                                         *)
(* A call is one asynchronous method invocation for one session.  It is    *)
(* cut where the code awaits: each store method and each provider answer   *)
(* is a step of its own, and what a call read before an await it uses      *)
(* after it.  A provider stop that outlives its timeout keeps its claim    *)
(* until it settles (`late`).  A server may crash between any two steps;   *)
(* its stop requests are made by detached processes and outlive it.        *)
(***************************************************************************)
EXTENDS WorkerRecord

CONSTANTS Sessions, NoSession,
          Servers, NoServer,   \* orchestrator processes sharing the state file
          Calls, Owner,        \* call slots, and the server each belongs to
          CallKinds,           \* the kinds of call an instance makes
          Supported,           \* adapter.cancellation = "supported"
          MaxTime, MaxCrashes  \* bounds on the clock and on the crashes

ASSUME SessionsAssumption ==
    /\ Sessions \subseteq Runs     \* the run of a session is named after it
    /\ NoSession \notin Sessions
ASSUME ServersAssumption == NoServer \notin Servers /\ Owner \in [Calls -> Servers]
ASSUME BoundsAssumption == Supported \in BOOLEAN /\ MaxTime \in Nat /\ MaxCrashes \in Nat

VARIABLES worker, launch, captured, clock,  \* durable state, as in WorkerStore
          run,         \* the provider's state of each session's run
          asked,       \* runs whose provider has received a stop
          call,        \* the calls in progress
          late,        \* stop requests that outlived their call or their server
          dispatcher,  \* the server dispatching the session's launch
          up,          \* startup progress of each server
          crashes,
          usurped      \* history: the sessions that had a stop request in flight
                       \* when a starting server took back the claims

storeVars == <<worker, launch, captured, clock>>
vars == <<storeVars, run, asked, call, late, dispatcher, up, crashes, usurped>>

RunEnded == {"succeeded", "failed", "cancelled"}
RunStates == {"none", "live"} \cup RunEnded
Kinds == {"cancel", "expire", "reconcile", "timedOut", "capture"}
CallRecord == [kind: Kinds \cup {None}, session: Sessions \cup {NoSession},
               pc: {"idle", "request", "expire", "claim", "stop", "answer", "status", "result",
                    "settle", "capture"},
               at: 0..MaxTime,                       \* `now` of a deadline sweep
               seen: RunEnded \cup {None},           \* terminal status observed
               note: {None, "accepted", "unsupported", "failed", "full", "partial"} \cup Claims]
Idle == [kind |-> None, session |-> NoSession, pc |-> "idle", at |-> 0, seen |-> None, note |-> None]

\* The claim under which a call asks the provider to stop.  The server of a
\* request is NoServer once its server has crashed.
ClaimOf(kind) == IF kind \in {"cancel", "reconcile"} THEN "cancelClaimed" ELSE "stopClaimed"
LateStop == [server: Servers \cup {NoServer}, session: Sessions, claim: {"cancelClaimed", "stopClaimed"}]

TypeOK ==
    /\ worker \in [Sessions -> Worker]
    /\ launch \in [Sessions -> AssignmentStatuses]
    /\ captured \in [Sessions -> Claims \cup {None}]
    /\ clock \in 0..MaxTime
    /\ run \in [Sessions -> RunStates]
    /\ asked \subseteq Sessions
    /\ call \in [Calls -> CallRecord]
    /\ late \subseteq LateStop
    /\ dispatcher \in [Sessions -> Servers \cup {NoServer}]
    /\ up \in [Servers -> {"down", "recovered", "up"}]
    /\ crashes \in 0..MaxCrashes
    /\ usurped \subseteq Sessions

Init ==
    /\ worker = [s \in Sessions |-> NewWorker]
    /\ launch \in [Sessions -> {None, "accepted"}]
    /\ captured = [s \in Sessions |-> None]
    /\ clock = 0
    /\ run = [s \in Sessions |-> "none"]
    /\ asked = {}
    /\ call = [c \in Calls |-> Idle]
    /\ late = {}
    /\ dispatcher = [s \in Sessions |-> NoServer]
    /\ up = [v \in Servers |-> "down"]
    /\ crashes = 0
    /\ usurped = {}

-----------------------------------------------------------------------------
(* Abbreviations.                                                          *)

Store(s, w) == worker' = [worker EXCEPT ![s] = w]
Begin(c, kind, s, pc) ==
    call' = [call EXCEPT ![c] = [Idle EXCEPT !.kind = kind, !.session = s, !.pc = pc,
                                         !.at = IF kind = "expire" THEN clock ELSE 0]]
Go(c, pc, note) == call' = [call EXCEPT ![c] = [@ EXCEPT !.pc = pc, !.note = note]]
Return(c) == call' = [call EXCEPT ![c] = Idle]
Free(c, kind) == kind \in CallKinds /\ up[Owner[c]] = "up" /\ call[c].pc = "idle"
At(c, pc, kinds) == call[c].pc = pc /\ call[c].kind \in kinds
KeepProvider == UNCHANGED <<run, asked>>
KeepServers == UNCHANGED <<dispatcher, up, crashes, usurped>>

Serving == \E v \in Servers : up[v] = "up"

\* A sweep runs alone on its server, one method after the other and one call
\* per session (server.ts: lifecycleSweep).
SweepFree(c, kind, s) ==
    \A d \in Calls : Owner[d] = Owner[c] /\ call[d].kind \in {"reconcile", "timedOut"}
                         => call[d].kind = kind /\ call[d].session # s

-----------------------------------------------------------------------------
(* cancelSession.                                                          *)

StartCancel(c, s) ==
    /\ Free(c, "cancel") /\ Supported
    /\ ~isTerminal(worker[s]) /\ worker[s].status # "canceling"
    /\ Begin(c, "cancel", s, "request")
    /\ UNCHANGED <<storeVars, late>> /\ KeepProvider /\ KeepServers

\* The record may have changed since it was read; only the caller that makes
\* the transition goes on, and only to a run that is already bound.
Request(c, reason) ==
    LET s == call[c].session
        w == requestWorkerCancellation(worker[s], reason, launch[s])
    IN  /\ At(c, "request", {"cancel"})
        /\ Store(s, w)
        /\ IF w # worker[s] /\ w.status = "canceling" /\ isBound(w)
           THEN Go(c, "claim", None) ELSE Return(c)
        /\ UNCHANGED <<launch, captured, clock, late>> /\ KeepProvider /\ KeepServers

-----------------------------------------------------------------------------
(* enforceDeadlines, reconcileCancellations, reconcileTimedOutResults.     *)

\* Mutant: only sessions that have a run are expired.
StartExpireBound(c, s) ==
    /\ Free(c, "expire") /\ isOverdue(worker[s], clock) /\ isBound(worker[s])
    /\ Begin(c, "expire", s, "expire")
    /\ UNCHANGED <<storeVars, late>> /\ KeepProvider /\ KeepServers

StartExpire(c, s) ==
    /\ Free(c, "expire") /\ isOverdue(worker[s], clock)
    /\ Begin(c, "expire", s, "expire")
    /\ UNCHANGED <<storeVars, late>> /\ KeepProvider /\ KeepServers

Expire(c) ==
    LET s == call[c].session
        w == expireWorker(worker[s], call[c].at, launch[s])
    IN  /\ At(c, "expire", {"expire"})
        /\ Store(s, w)
        /\ IF w # worker[s] /\ Supported /\ isBound(w) THEN Go(c, "claim", None) ELSE Return(c)
        /\ UNCHANGED <<launch, captured, clock, late>> /\ KeepProvider /\ KeepServers

\* Mutant: the sweep forgets a cancellation once it has been delivered.
StartReconcilePending(c, s) ==
    /\ Free(c, "reconcile") /\ SweepFree(c, "reconcile", s)
    /\ worker[s].status = "canceling" /\ isBound(worker[s]) /\ "cancelPending" \in worker[s].flags
    /\ Begin(c, "reconcile", s, "claim")
    /\ UNCHANGED <<storeVars, late>> /\ KeepProvider /\ KeepServers

\* cancelingWorkers is a snapshot: whether a delivery is pending is decided here.
StartReconcile(c, s) ==
    /\ Free(c, "reconcile") /\ SweepFree(c, "reconcile", s)
    /\ worker[s].status = "canceling" /\ isBound(worker[s])
    /\ Begin(c, "reconcile", s, IF "cancelPending" \in worker[s].flags THEN "claim" ELSE "status")
    /\ UNCHANGED <<storeVars, late>> /\ KeepProvider /\ KeepServers

pendsReconciliation(w) == isBound(w) /\ {"reconcilePending", "stopPending"} \cap w.flags # {}

\* Mutant: a run whose stop was delivered is not visited for its result.
StartTimedOutUnstopped(c, s) ==
    /\ Free(c, "timedOut") /\ SweepFree(c, "timedOut", s)
    /\ isBound(worker[s]) /\ "stopPending" \in worker[s].flags
    /\ Begin(c, "timedOut", s, IF Supported THEN "claim" ELSE "status")
    /\ UNCHANGED <<storeVars, late>> /\ KeepProvider /\ KeepServers

StartTimedOut(c, s) ==
    /\ Free(c, "timedOut") /\ SweepFree(c, "timedOut", s)
    /\ pendsReconciliation(worker[s])
    /\ Begin(c, "timedOut", s,
             IF "stopPending" \in worker[s].flags /\ Supported THEN "claim" ELSE "status")
    /\ UNCHANGED <<storeVars, late>> /\ KeepProvider /\ KeepServers

-----------------------------------------------------------------------------
(* The provider stop, under a durable claim.                               *)

\* Mutant: the delivery claim is taken without looking at who holds it.
ClaimAlways(c) ==
    LET s == call[c].session
    IN  /\ At(c, "claim", {"cancel", "reconcile"})
        /\ Store(s, claimCancellationDelivery(worker[s])) /\ Go(c, "stop", None)
        /\ UNCHANGED <<launch, captured, clock, late>> /\ KeepProvider /\ KeepServers

ClaimDelivery(c) ==
    LET s == call[c].session
    IN  /\ At(c, "claim", {"cancel", "reconcile"})
        /\ IF canClaimCancellationDelivery(worker[s])
           THEN Store(s, claimCancellationDelivery(worker[s])) /\ Go(c, "stop", None)
           ELSE UNCHANGED worker /\ Return(c)
        /\ UNCHANGED <<launch, captured, clock, late>> /\ KeepProvider /\ KeepServers

ClaimStop(c) ==
    LET s == call[c].session
    IN  /\ At(c, "claim", {"expire", "timedOut"})
        /\ IF canClaimProviderStop(worker[s])
           THEN Store(s, claimProviderStop(worker[s])) /\ Go(c, "stop", None)
           ELSE UNCHANGED worker /\ Go(c, "status", None)
        /\ UNCHANGED <<launch, captured, clock, late>> /\ KeepProvider /\ KeepServers

\* The adapter answers in time.  A failure (an error, a malformed answer, a
\* queue timeout) says nothing about delivery.
Answer(c, answer) ==
    /\ call[c].pc = "stop"
    /\ answer = "accepted" => call[c].session \in asked
    /\ answer = "unsupported" => call[c].session \notin asked
    /\ Go(c, "answer", answer)
    /\ UNCHANGED <<storeVars, late>> /\ KeepProvider /\ KeepServers

\* Mutant: a timed-out stop gives its claim back while it is still in flight.
TimeoutReleases(c) ==
    LET s == call[c].session
    IN  /\ call[c].pc = "stop"
        /\ Store(s, IF ClaimOf(call[c].kind) = "cancelClaimed"
                    THEN releaseCancellationDelivery(worker[s]) ELSE releaseProviderStop(worker[s]))
        /\ late' = late \cup {[server |-> Owner[c], session |-> s, claim |-> ClaimOf(call[c].kind)]}
        /\ IF call[c].kind = "reconcile" THEN Go(c, "status", None) ELSE Return(c)
        /\ UNCHANGED <<launch, captured, clock>> /\ KeepProvider /\ KeepServers

\* The stop timed out and has not settled: its claim is kept until it does.
Timeout(c) ==
    LET s == call[c].session
    IN  /\ call[c].pc = "stop"
        /\ late' = late \cup {[server |-> Owner[c], session |-> s, claim |-> ClaimOf(call[c].kind)]}
        /\ IF call[c].kind = "reconcile" THEN Go(c, "status", None) ELSE Return(c)
        /\ UNCHANGED storeVars /\ KeepProvider /\ KeepServers

\* releaseProviderClaimEventually: the late request settled.
LateRelease(z) ==
    LET s == z.session
    IN  /\ z \in late /\ z.server # NoServer
        /\ late' = late \ {z}
        /\ Store(s, IF z.claim = "cancelClaimed"
                    THEN releaseCancellationDelivery(worker[s]) ELSE releaseProviderStop(worker[s]))
        /\ UNCHANGED <<launch, captured, clock, call>> /\ KeepProvider /\ KeepServers

\* The request of a crashed server ends, and nobody is told.
OrphanEnds(z) ==
    /\ z \in late /\ z.server = NoServer
    /\ late' = late \ {z}
    /\ UNCHANGED <<storeVars, call>> /\ KeepProvider /\ KeepServers

\* What the answer does to the record, and where the call goes on.
ApplyDelivery(c) ==
    LET s == call[c].session
        w == worker[s]
        reconciling == call[c].kind = "reconcile"
    IN  /\ At(c, "answer", {"cancel", "reconcile"})
        /\ \/ /\ call[c].note = "accepted"
              /\ Store(s, markCancellationDelivered(w)) /\ Go(c, "status", None)
           \/ /\ call[c].note = "unsupported"
              /\ Store(s, handleUnsupportedCancellation(w)) /\ Return(c)
           \/ /\ call[c].note = "failed"
              /\ Store(s, releaseCancellationDelivery(w))
              /\ IF reconciling THEN Go(c, "status", None) ELSE Return(c)
        /\ UNCHANGED <<launch, captured, clock, late>> /\ KeepProvider /\ KeepServers

ApplyStop(c) ==
    LET s == call[c].session
        w == worker[s]
    IN  /\ At(c, "answer", {"expire", "timedOut"})
        /\ \/ /\ call[c].note = "accepted"
              /\ Store(s, markProviderStopDelivered(w)) /\ Go(c, "status", None)
           \/ /\ call[c].note = "unsupported"
              /\ Store(s, markProviderStopUnsupported(w)) /\ Go(c, "status", None)
           \/ /\ call[c].note = "failed"
              /\ Store(s, releaseProviderStop(w)) /\ Return(c)
        /\ UNCHANGED <<launch, captured, clock, late>> /\ KeepProvider /\ KeepServers

-----------------------------------------------------------------------------
(* settleFromProvider and ResultCaptureService.collect.                    *)

StartCapture(c, s) ==
    /\ Free(c, "capture") /\ launch[s] = "launched" /\ isBound(worker[s])
    /\ Begin(c, "capture", s, "status")
    /\ UNCHANGED <<storeVars, late>> /\ KeepProvider /\ KeepServers

\* A terminal status was observed; it is used after the result is fetched.
StatusEnded(c) ==
    LET s == call[c].session
    IN  /\ call[c].pc = "status" /\ run[s] \in RunEnded
        /\ call' = [call EXCEPT ![c] = [@ EXCEPT !.pc = "result", !.seen = run[s]]]
        /\ UNCHANGED <<storeVars, late>> /\ KeepProvider /\ KeepServers

\* The run is still live, or the status call failed: nothing is recorded.
StatusOpen(c) ==
    /\ call[c].pc = "status" /\ Return(c)
    /\ UNCHANGED <<storeVars, late>> /\ KeepProvider /\ KeepServers

\* collect ingests a status answer it cannot parse as a malformed result.
StatusMalformed(c) ==
    /\ At(c, "status", {"capture"}) /\ Go(c, "capture", "malformed")
    /\ UNCHANGED <<storeVars, late>> /\ KeepProvider /\ KeepServers

\* A result that is missing, malformed or of another status is "partial".
Result(c, result) ==
    /\ At(c, "result", Kinds \ {"capture"}) /\ Go(c, "settle", result)
    /\ UNCHANGED <<storeVars, late>> /\ KeepProvider /\ KeepServers

CaptureClaim(c, claim) ==
    /\ At(c, "result", {"capture"})
    /\ claim \in {call[c].seen, "malformed", "stopped_without_result"}
    /\ Go(c, "capture", claim)
    /\ UNCHANGED <<storeVars, late>> /\ KeepProvider /\ KeepServers

CaptureGivesUp(c) ==   \* a transient provider error
    /\ At(c, "result", {"capture"}) /\ Return(c)
    /\ UNCHANGED <<storeVars, late>> /\ KeepProvider /\ KeepServers

terminalStatusFor(seen) == IF seen = "cancelled" THEN "canceled" ELSE seen

\* The service gives a stop reason only where it is the default, and keeps the
\* reconciliation pending when the result is not the provider's own.
settleFromProvider(w, seen, result) ==
    settleWorkerCancellation(w, terminalStatusFor(seen), None, result, result = "partial")

Settle(c) ==
    LET s == call[c].session
    IN  /\ call[c].pc = "settle"
        /\ Store(s, settleFromProvider(worker[s], call[c].seen, call[c].note))
        /\ Return(c)
        /\ UNCHANGED <<launch, captured, clock, late>> /\ KeepProvider /\ KeepServers

\* The first result of the attempt is stored; a duplicate or a conflicting one
\* leaves the state as it is.
Capture(c) ==
    LET s == call[c].session
    IN  /\ call[c].pc = "capture"
        /\ IF captured[s] = None
           THEN /\ Store(s, captureResult(worker[s], call[c].note))
                /\ captured' = [captured EXCEPT ![s] = call[c].note]
           ELSE UNCHANGED <<worker, captured>>
        /\ Return(c)
        /\ UNCHANGED <<launch, clock, late>> /\ KeepProvider /\ KeepServers
-----------------------------------------------------------------------------
(* Launching, as far as the session record sees it (see Launch).           *)

pendingAssignment(s) == launch[s] \in {"accepted", "launching"} /\ ~isTerminal(worker[s])

\* Dispatch reserves an accepted assignment, or resumes one left launching.
Dispatch(v, s) ==
    /\ up[v] = "up" /\ dispatcher[s] = NoServer /\ pendingAssignment(s)
    /\ launch' = [launch EXCEPT ![s] = "launching"]
    /\ dispatcher' = [dispatcher EXCEPT ![s] = v]
    /\ UNCHANGED <<worker, captured, clock, call, late, up, crashes, usurped>> /\ KeepProvider

\* recordLaunchEvent refuses to launch a session that ended after it was listed.
DispatchEnded(v, s) ==
    /\ up[v] = "up" /\ dispatcher[s] = NoServer /\ launch[s] = "accepted" /\ isTerminal(worker[s])
    /\ launch' = [launch EXCEPT ![s] = "failed"]
    /\ UNCHANGED <<worker, captured, clock, call, late>> /\ KeepProvider /\ KeepServers

RecordLaunched(s) ==
    /\ dispatcher[s] # NoServer /\ run[s] # "none"
    /\ Store(s, recordLaunched(worker[s], s))
    /\ launch' = [launch EXCEPT ![s] = "launched"]
    /\ dispatcher' = [dispatcher EXCEPT ![s] = NoServer]
    /\ UNCHANGED <<captured, clock, call, late, up, crashes, usurped>> /\ KeepProvider

\* A rejected launch; also a workspace that is no longer authorized or a
\* malformed handle, whatever the provider did with the request.
RecordLaunchFailed(s) ==
    /\ dispatcher[s] # NoServer
    /\ Store(s, recordLaunchFailed(worker[s]))
    /\ launch' = [launch EXCEPT ![s] = "failed"]
    /\ dispatcher' = [dispatcher EXCEPT ![s] = NoServer]
    /\ UNCHANGED <<captured, clock, call, late, up, crashes, usurped>> /\ KeepProvider

\* The provider was unavailable: the assignment stays launching.
DispatchGivesUp(s) ==
    /\ dispatcher[s] # NoServer
    /\ dispatcher' = [dispatcher EXCEPT ![s] = NoServer]
    /\ UNCHANGED <<storeVars, call, late, up, crashes, usurped>> /\ KeepProvider

\* An embedding program starts the run of a session without assignment itself.
BindRun(s, evidence) ==
    /\ Serving /\ launch[s] = None /\ run[s] = "none" /\ canBindWorkerRun(worker[s], s)
    /\ run' = [run EXCEPT ![s] = "live"]
    /\ Store(s, bindWorkerRun(worker[s], s, evidence))
    /\ UNCHANGED <<launch, captured, clock, asked, call, late>> /\ KeepServers

SetDeadline(s, instant) ==
    /\ Serving /\ ~isTerminal(worker[s]) /\ clock < instant
    /\ Store(s, setWorkerDeadline(worker[s], instant))
    /\ UNCHANGED <<launch, captured, clock, call, late>> /\ KeepProvider /\ KeepServers

-----------------------------------------------------------------------------
(* The provider (external), the clock, and the servers.                    *)

ProviderLaunches(s) ==
    /\ dispatcher[s] # NoServer /\ run[s] = "none"
    /\ run' = [run EXCEPT ![s] = "live"]
    /\ UNCHANGED <<storeVars, asked, call, late>> /\ KeepServers

RunEnds(s, outcome) ==
    /\ run[s] = "live" /\ outcome \in {"succeeded", "failed"}
    /\ run' = [run EXCEPT ![s] = outcome]
    /\ UNCHANGED <<storeVars, asked, call, late>> /\ KeepServers

\* A stop request in flight for session s: a call's, or one that outlived it.
\* The call or the server that waits for it is Served.
StoppingCalls(s) == {c \in Calls : call[c].session = s /\ call[c].pc \in {"stop", "answer"}}
LateStops(s) == {z \in late : z.session = s}
Served(s) == StoppingCalls(s) # {} \/ \E z \in LateStops(s) : z.server # NoServer

StopReceived(s) ==
    /\ s \notin asked
    /\ (\E c \in StoppingCalls(s) : call[c].pc = "stop") \/ LateStops(s) # {}
    /\ asked' = asked \cup {s}
    /\ UNCHANGED <<storeVars, run, call, late>> /\ KeepServers

RunStops(s) ==
    /\ s \in asked /\ run[s] = "live"
    /\ run' = [run EXCEPT ![s] = "cancelled"]
    /\ UNCHANGED <<storeVars, asked, call, late>> /\ KeepServers

Tick ==
    /\ clock < MaxTime /\ clock' = clock + 1
    /\ UNCHANGED <<worker, launch, captured, call, late>> /\ KeepProvider /\ KeepServers

\* The requests that a crash of v leaves to themselves.
Orphans(v) ==
    {[server |-> NoServer, session |-> call[c].session, claim |-> ClaimOf(call[c].kind)] :
         c \in {d \in Calls : Owner[d] = v /\ call[d].pc = "stop"}}
        \cup {[z EXCEPT !.server = NoServer] : z \in {y \in late : y.server = v}}

Crash(v) ==
    /\ up[v] # "down" /\ crashes < MaxCrashes
    /\ up' = [up EXCEPT ![v] = "down"]
    /\ crashes' = crashes + 1
    /\ call' = [c \in Calls |-> IF Owner[c] = v THEN Idle ELSE call[c]]
    /\ late' = {z \in late : z.server # v} \cup Orphans(v)
    /\ dispatcher' = [s \in Sessions |-> IF dispatcher[s] = v THEN NoServer ELSE dispatcher[s]]
    /\ UNCHANGED <<storeVars, usurped>> /\ KeepProvider

\* Startup, in the order of main(): claims first, then reconcile, then serve.
RecoverClaims(v) ==
    /\ up[v] = "down"
    /\ up' = [up EXCEPT ![v] = "recovered"]
    /\ worker' = [s \in Sessions |-> recoverLifecycleDeliveryClaims(worker[s])]
    /\ usurped' = usurped \cup {s \in Sessions : StoppingCalls(s) \cup LateStops(s) # {}}
    /\ UNCHANGED <<launch, captured, clock, call, late, dispatcher, crashes>> /\ KeepProvider

\* At startup and every 30 seconds; the processes that are alive are the
\* environment's.
Reconcile(v, alive) ==
    /\ up[v] # "down"
    /\ up' = [up EXCEPT ![v] = "up"]
    /\ worker' = [s \in Sessions |-> reconcile(worker[s], s \in alive)]
    /\ UNCHANGED <<launch, captured, clock, call, late, dispatcher, crashes, usurped>> /\ KeepProvider

-----------------------------------------------------------------------------
CallStep(c) ==
    \/ \E reason \in CancelReasons : Request(c, reason)
    \/ Expire(c) \/ ClaimDelivery(c) \/ ClaimStop(c)
    \/ \E answer \in {"accepted", "unsupported", "failed"} : Answer(c, answer)
    \/ Timeout(c) \/ ApplyDelivery(c) \/ ApplyStop(c)
    \/ StatusEnded(c) \/ StatusOpen(c) \/ StatusMalformed(c)
    \/ \E result \in {"full", "partial"} : Result(c, result)
    \/ \E claim \in Claims : CaptureClaim(c, claim)
    \/ CaptureGivesUp(c) \/ Settle(c) \/ Capture(c)

StartCall(c, s) ==
    \/ StartCancel(c, s) \/ StartExpire(c, s) \/ StartReconcile(c, s)
    \/ StartTimedOut(c, s) \/ StartCapture(c, s)

LaunchStep(s) ==
    \/ \E v \in Servers : Dispatch(v, s) \/ DispatchEnded(v, s)
    \/ RecordLaunched(s) \/ RecordLaunchFailed(s) \/ DispatchGivesUp(s)
    \/ \E evidence \in BOOLEAN : BindRun(s, evidence)
    \/ \E instant \in 1..MaxTime : SetDeadline(s, instant)

ProviderStep(s) ==
    \/ ProviderLaunches(s) \/ StopReceived(s) \/ RunStops(s)
    \/ \E outcome \in {"succeeded", "failed"} : RunEnds(s, outcome)

ServerStep(v) ==
    \/ Crash(v) \/ RecoverClaims(v) \/ \E alive \in SUBSET Sessions : Reconcile(v, alive)

Next ==
    \/ \E c \in Calls : CallStep(c)
    \/ \E c \in Calls, s \in Sessions : StartCall(c, s)
    \/ \E z \in late : LateRelease(z) \/ OrphanEnds(z)
    \/ \E s \in Sessions : LaunchStep(s) \/ ProviderStep(s)
    \/ \E v \in Servers : ServerStep(v)
    \/ Tick

Spec == Init /\ [][Next]_vars

-----------------------------------------------------------------------------
(* Safety.                                                                 *)

\* Every step of the services is a sequence of calls of the store's methods
\* and nothing else touches a record: the contract proved of the store holds
\* of the whole protocol.
StoreAPI == INSTANCE WorkerStore
UsesStoreAPI == StoreAPI!Spec

\* No write of the services is refused by the schema check of `persist`: a
\* refused write would make the call throw with its claim still recorded.
StoreAccepts == \A s \in Sessions : Storable(worker[s])

\* At most one stop request of session s is in flight, the ones that outlived
\* their timeout or their server included.
OneStop(s) ==
    /\ \A c, d \in StoppingCalls(s) : c = d
    /\ \A y, z \in LateStops(s) : y = z
    /\ StoppingCalls(s) = {} \/ LateStops(s) = {}

\* The claims keep the stop requests of a session apart, however calls, timeouts,
\* late answers and crashes of any number of servers interleave; only a server
\* that starts while a request is in flight, and takes back its claim
\* (recoverLifecycleDeliveryClaims), lets a second one begin.  That case is the
\* exception to "One active claimant performs each delivery attempt"
\* (docs/mcp-tool-contract.md:52).
OneClaimant == \A s \in Sessions \ usurped : OneStop(s)

\* A cancellation of a bound run is pending, claimed, or has reached the
\* provider: it is never parked in `canceling` with nothing left to do.
CancellationIsOwed ==
    \A s \in Sessions :
        worker[s].status = "canceling" /\ isBound(worker[s])
            => \/ {"cancelPending", "cancelClaimed"} \cap worker[s].flags # {}
               \/ s \in asked

\* The live run of an expired session is stopped: the stop is pending, claimed,
\* known to be unsupported, or has reached the provider.
ExpiredRunIsStopped ==
    \A s \in Sessions :
        isExpired(worker[s]) /\ isBound(worker[s]) /\ run[s] = "live"
            => \/ {"stopPending", "stopClaimed", "cancelClaimed", "stopUnsupported"}
                     \cap worker[s].flags # {}
               \/ s \in asked

\* "State is never optimistic": a bound session is canceled or succeeded only
\* if the provider's run is.
OutcomeIsObserved ==
    \A s \in Sessions : isBound(worker[s]) =>
        /\ worker[s].status = "canceled" => run[s] = "cancelled"
        /\ worker[s].status = "succeeded" => run[s] = "succeeded"

\* A complete or captured result is never replaced by a later observation,
\* however the answers of concurrent reconciliations are ordered.
ResultIsKept ==
    [][\A s \in Sessions : worker[s].result \in {"full", "captured", "launch_error"}
                               => worker'[s].result = worker[s].result]_worker

-----------------------------------------------------------------------------
(* Liveness.                                                               *)

CallsOf(kind, s) == {c \in Calls : call[c].kind = kind /\ call[c].session = s}

\* Every provider call is answered or times out, so a call of a live server
\* proceeds; a crashed server is restarted; the sweep timer keeps firing.  Of
\* the provider: a stop or a query repeated forever gets through, a stop
\* request that a server waits for settles eventually, and a run that was asked to stop ends.
Fairness ==
    /\ \A c \in Calls : WF_vars(CallStep(c))
    /\ \A v \in Servers : WF_vars(RecoverClaims(v))
                          /\ WF_vars(up[v] = "recovered" /\ Reconcile(v, Sessions))
    /\ \A s \in Sessions :
          /\ \A kind \in CallKinds \cap {"expire", "reconcile", "timedOut"} :
                SF_vars(\E c \in Calls : StartCall(c, s) /\ call'[c].kind = kind)
          /\ \A kind \in CallKinds \cap {"reconcile", "timedOut"} :
                /\ SF_vars(\E c \in CallsOf(kind, s) : StatusEnded(c))
                /\ SF_vars(\E c \in CallsOf(kind, s) : Result(c, "full"))
          /\ SF_vars(Served(s) /\ StopReceived(s)) /\ WF_vars(RunStops(s))
          /\ WF_vars(\E z \in LateStops(s) : LateRelease(z))

FairSpec == Spec /\ Fairness

\* In addition, a provider that is asked again and again to stop a run
\* eventually says that it accepts, or that it cannot.
StopsAreAnswered ==
    \A s \in Sessions :
        SF_vars(\E c \in CallsOf("timedOut", s) : Answer(c, "accepted") \/ Answer(c, "unsupported"))

FairStopSpec == FairSpec /\ StopsAreAnswered

\* A cancellation of a bound run does not stay pending: the provider's
\* outcome settles it, or the provider's rejection withdraws it, across a
\* crash and any number of failed, late or duplicated stops.
CancellationSettles ==
    \A s \in Sessions :
        worker[s].status = "canceling" /\ isBound(worker[s]) ~> worker[s].status # "canceling"

\* An overdue session is expired (or ends otherwise, or gets a new deadline).
DeadlineIsEnforced ==
    \A s \in Sessions : isOverdue(worker[s], clock) ~> ~isOverdue(worker[s], clock)

\* Once the run of an ended session has ended, its result is collected and no
\* stop remains pending.  This needs StopsAreAnswered: unlike
\* reconcileCancellations, reconcileTimedOutResults does not query the status
\* of a run whose stop failed.
LateResultIsCollected ==
    \A s \in Sessions :
        pendsReconciliation(worker[s]) /\ run[s] \in RunEnded ~> ~pendsReconciliation(worker[s])
=============================================================================
