------------------------------- MODULE Launch -------------------------------
(***************************************************************************)
(* Launching accepted assignments: LaunchService (src/src/launch-service.ts)*)
(* over the durable store, the server's startup (src/src/server.ts) and an *)
(* adapter that deduplicates by idempotency key.                           *)
(*                                                                         *)
(* A server runs at most one dispatch pass at a time (`dispatching`); the  *)
(* pass visits a snapshot of the pending assignments one by one, each      *)
(* under its dispatch lock, and is cut where dispatch awaits.  A launch    *)
(* request, once sent, may reach the provider at any later time, even      *)
(* after the answer was given up or the server crashed.                    *)
(***************************************************************************)
EXTENDS WorkerRecord, SequencesExt

CONSTANTS Sessions, NoSession,
          Servers,       \* orchestrator processes sharing the state file
          BatchKeys,     \* keys of batch requests; a key may also name an assignment
          Callers,       \* ways to submit: "launch" (the API), "tool" (the MCP tool)
          Cancels,       \* the sessions that may be cancelled
          Deadlines,     \* the sessions that are given a deadline
          MaxCrashes     \* bound on the crashes and stops

ASSUME LaunchAssumption ==
    /\ Sessions \subseteq Runs     \* the run of an assignment is named after it
    /\ NoSession \notin Sessions /\ IsFiniteSet(Sessions)
    /\ None \notin Sessions \cup BatchKeys
    /\ Cancels \subseteq Sessions /\ Deadlines \subseteq Sessions
    /\ Callers \subseteq {"launch", "tool"}
    /\ MaxCrashes \in Nat

VARIABLES worker,    \* the durable session records
          launch,    \* the durable assignment statuses; None before acceptance
          order,     \* accepted assignments, as the state file lists them
          batch,     \* the batch of each accepted assignment, named by its key
          up,        \* "starting" until the first dispatch pass has succeeded;
                     \* "stopping" once the service's stop or close was called
          pass,      \* the dispatch pass of each server
          timer,     \* servers whose dispatchTimer is set
          submit,    \* submissions accepted but not yet scheduled
          inflight,  \* launch requests sent and not yet processed
          runs,      \* keys for which the provider has a run
          crashes

accepted == <<order, batch>>
durable == <<worker, launch, accepted>>
provider == <<inflight, runs>>
vars == <<durable, up, pass, timer, submit, provider, crashes>>

\* The assignments of a batch request have different keys.
BatchRequests == UNION {SetToSeqs(b) : b \in SUBSET Sessions \ {{}}}

Errors == {"unavailable", "rejected", "malformed"}
Pass == [pc: {"off", "list", "next", "authorize", "reserve", "refuse", "find", "launch", "wait",
              "lookup", "bind", "fail"},
         todo: SUBSET Sessions,              \* the listed assignments not visited yet
         current: Sessions \cup {NoSession},
         recovering: BOOLEAN,                \* the assignment was found launching
         error: Errors \cup {None},          \* what the adapter threw
         failed: BOOLEAN,                    \* retryableFailure
         retry: BOOLEAN]                     \* a timer callback awaits this pass
Off == [pc |-> "off", todo |-> {}, current |-> NoSession, recovering |-> FALSE,
        error |-> None, failed |-> FALSE, retry |-> FALSE]

TypeOK ==
    /\ worker \in [Sessions -> Worker]
    /\ launch \in [Sessions -> AssignmentStatuses]
    /\ order \in Seq(Sessions)
    /\ batch \in [Sessions -> Sessions \cup BatchKeys \cup {None}]
    /\ up \in [Servers -> {"down", "starting", "up", "stopping"}]
    /\ pass \in [Servers -> Pass]
    /\ timer \subseteq Servers
    /\ submit \in [Servers -> SUBSET {"launch", "tool"}]
    /\ inflight \subseteq Sessions /\ runs \subseteq Sessions
    /\ crashes \in 0..MaxCrashes

Init ==
    /\ worker = [s \in Sessions |-> NewWorker]
    /\ launch = [s \in Sessions |-> None]
    /\ order = <<>>
    /\ batch = [s \in Sessions |-> None]
    /\ up = [v \in Servers |-> "down"]
    /\ pass = [v \in Servers |-> Off]
    /\ timer = {}
    /\ submit = [v \in Servers |-> {}]
    /\ inflight = {} /\ runs = {}
    /\ crashes = 0

Store(s, w) == worker' = [worker EXCEPT ![s] = w]
Mark(s, status) == launch' = [launch EXCEPT ![s] = status]
At(v, pc) == pass[v].pc = pc
Go(v, pc) == pass' = [pass EXCEPT ![v].pc = pc]
Threw(v, error) == pass' = [pass EXCEPT ![v].pc = "lookup", ![v].error = error]

\* The dispatch of the current assignment returns, or throws.
Leave(v, threw) ==
    pass' = [pass EXCEPT ![v].pc = "next", ![v].current = NoSession, ![v].recovering = FALSE,
                         ![v].error = None, ![v].failed = @ \/ threw]

-----------------------------------------------------------------------------
(* Acceptance, and what starts a dispatch pass.                            *)

\* The assignments of batch k.
members(k) == {s \in Sessions : batch[s] = k}

\* The state file gets the assignments q, new and in this order, as batch k.
\* persist refuses a state with two batches of one name.
WriteAccepted(k, q) ==
    /\ members(k) = {}
    /\ launch' = [s \in Sessions |-> IF s \in ToSet(q) THEN "accepted" ELSE launch[s]]
    /\ batch' = [s \in Sessions |-> IF s \in ToSet(q) THEN k ELSE batch[s]]
    /\ order' = order \o q

\* A replayed key returns the assignment it has; a new one is a batch of its own.
acceptLaunch(s) ==
    \/ launch[s] # None /\ UNCHANGED <<launch, accepted>>
    \/ launch[s] = None /\ WriteAccepted(s, <<s>>)

\* Mutant: a batch that was accepted in part is completed.
AcceptMissing(k, q) ==
    LET missing == SelectSeq(q, LAMBDA s : launch[s] = None)
    IN  /\ launch' = [s \in Sessions |-> IF s \in ToSet(missing) THEN "accepted" ELSE launch[s]]
        /\ batch' = [s \in Sessions |-> IF s \in ToSet(missing) THEN k ELSE batch[s]]
        /\ order' = order \o missing

\* A batch is replayed or new as a whole; anything in between is refused.
acceptLaunchBatch(k, q) ==
    \/ ToSet(q) \subseteq members(k) /\ UNCHANGED <<launch, accepted>>
    \/ (\A s \in ToSet(q) : launch[s] = None) /\ WriteAccepted(k, q)

\* A call begins before the service is stopped, and writes when its
\* workspaces have been authorized.
Submit(v, caller) ==
    /\ up[v] \in {"up", "stopping"} /\ caller \in Callers \ submit[v]
    /\ submit' = [submit EXCEPT ![v] = @ \cup {caller}]
    /\ UNCHANGED <<worker, up, pass, timer, provider, crashes>>

Accept(v, s) == Submit(v, "launch") /\ acceptLaunch(s)

AcceptBatch(v, caller, k, q) == Submit(v, caller) /\ acceptLaunchBatch(k, q)

\* launch and launchBatch: scheduleDispatch(0) does nothing while a pass is in
\* flight, nor once the service is stopped.
ScheduleDispatch(v) ==
    /\ "launch" \in submit[v]
    /\ submit' = [submit EXCEPT ![v] = @ \ {"launch"}]
    /\ timer' = IF At(v, "off") /\ up[v] # "stopping" THEN timer \cup {v} ELSE timer
    /\ UNCHANGED <<durable, up, pass, provider, crashes>>

\* The tool handler awaits dispatchPending, which joins a pass in flight.
ToolDispatches(v) ==
    /\ "tool" \in submit[v]
    /\ submit' = [submit EXCEPT ![v] = @ \ {"tool"}]
    /\ pass' = IF At(v, "off") THEN [pass EXCEPT ![v].pc = "list"] ELSE pass
    /\ UNCHANGED <<durable, up, timer, provider, crashes>>

TimerFires(v) ==
    /\ v \in timer
    /\ timer' = timer \ {v}
    /\ pass' = [pass EXCEPT ![v].pc = IF At(v, "off") THEN "list" ELSE @, ![v].retry = TRUE]
    /\ UNCHANGED <<durable, up, submit, provider, crashes>>

\* Mutant: only assignments that were never tried are pending.
pendingAccepted(s) == launch[s] = "accepted" /\ ~isTerminal(worker[s])

pendingAssignment(s) == launch[s] \in {"accepted", "launching"} /\ ~isTerminal(worker[s])

\* dispatchAllPending: the snapshot of pendingAssignments.
List(v) ==
    /\ At(v, "list")
    /\ pass' = [pass EXCEPT ![v].pc = "next", ![v].todo = {s \in Sessions : pendingAssignment(s)}]
    /\ UNCHANGED <<durable, up, timer, submit, provider, crashes>>

\* The pass is over: its failure ends a starting server, and is retried only
\* if a timer started or joined the pass and the service is not stopped.
PassEnds(v) ==
    /\ At(v, "next") /\ pass[v].todo = {}
    /\ pass' = [pass EXCEPT ![v] = Off]
    /\ up' = [up EXCEPT ![v] = IF @ # "starting" THEN @ ELSE IF pass[v].failed THEN "down" ELSE "up"]
    /\ timer' = IF pass[v].failed /\ pass[v].retry /\ up[v] # "stopping" THEN timer \cup {v} ELSE timer
    /\ UNCHANGED <<durable, submit, provider, crashes>>

-----------------------------------------------------------------------------
(* dispatch: one assignment under its dispatch lock.                       *)

\* Mutant: the dispatch lock excludes nobody.
NeverLocked(v, s) == FALSE

\* withLaunchDispatchLock: a server in dispatch holds the assignment's lock.
LockedByOther(v, s) == \E u \in Servers \ {v} : pass[u].current = s

\* A pass visits its snapshot in the order of the state file, which only grows.
isNext(v, s) ==
    \E i \in DOMAIN order : order[i] = s /\ \A j \in 1..(i - 1) : order[j] \notin pass[v].todo

\* The assignment is read again under the lock.
Dispatch(v) ==
    \E s \in pass[v].todo :
        LET pending == launch[s] \in {"accepted", "launching"}
        IN  /\ At(v, "next") /\ isNext(v, s) /\ ~LockedByOther(v, s)
            /\ pass' = [pass EXCEPT ![v].todo = @ \ {s},
                                    ![v].pc = IF pending THEN "authorize" ELSE @,
                                    ![v].current = IF pending THEN s ELSE @,
                                    ![v].recovering = launch[s] = "launching"]
            /\ UNCHANGED <<durable, up, timer, submit, provider, crashes>>

\* The attempts to take the lock are exhausted: a retryable failure.
LockFails(v) ==
    \E s \in pass[v].todo :
        /\ At(v, "next") /\ isNext(v, s) /\ LockedByOther(v, s)
        /\ pass' = [pass EXCEPT ![v].todo = @ \ {s}, ![v].failed = TRUE]
        /\ UNCHANGED <<durable, up, timer, submit, provider, crashes>>

\* Mutant: the request is sent before the intent is written.
AuthorizeSkipsReserve(v, verdict) ==
    /\ At(v, "authorize")
    /\ \/ verdict = "granted" /\ Go(v, IF pass[v].recovering THEN "find" ELSE "launch")
       \/ verdict = "retryable" /\ Leave(v, TRUE)
       \/ verdict = "refused" /\ Go(v, IF pass[v].recovering THEN "fail" ELSE "refuse")
    /\ UNCHANGED <<durable, up, timer, submit, provider, crashes>>

\* The workspace is authorized, cannot be checked now, or is refused for good.
Authorize(v, verdict) ==
    LET recovering == pass[v].recovering
    IN  /\ At(v, "authorize")
        /\ \/ verdict = "granted" /\ Go(v, IF recovering THEN "find" ELSE "reserve")
           \/ verdict = "retryable" /\ Leave(v, TRUE)
           \/ verdict = "refused" /\ Go(v, IF recovering THEN "fail" ELSE "refuse")
        /\ UNCHANGED <<durable, up, timer, submit, provider, crashes>>

\* Mutant: a session that ended after it was listed is launched all the same.
ReserveEnded(v) ==
    /\ pass[v].pc \in {"reserve", "refuse"}
    /\ Mark(pass[v].current, "launching") /\ Go(v, IF At(v, "reserve") THEN "launch" ELSE "fail")
    /\ UNCHANGED <<worker, accepted, up, timer, submit, provider, crashes>>

\* recordLaunchEvent("launching"): the write-ahead intent.  A session that
\* ended meanwhile fails its assignment instead.
Reserve(v) ==
    LET s == pass[v].current
    IN  /\ pass[v].pc \in {"reserve", "refuse"}
        /\ IF isTerminal(worker[s])
           THEN Mark(s, "failed") /\ Leave(v, FALSE)
           ELSE Mark(s, "launching") /\ Go(v, IF At(v, "reserve") THEN "launch" ELSE "fail")
        /\ UNCHANGED <<worker, accepted, up, timer, submit, provider, crashes>>

\* A recovering dispatch looks its key up first.
Find(v, answer) ==
    LET s == pass[v].current
    IN  /\ At(v, "find")
        /\ \/ answer = "found" /\ s \in runs /\ Go(v, "bind")
           \/ answer = "absent" /\ s \notin runs /\ Go(v, "launch")
           \/ answer \in Errors /\ Threw(v, answer)
        /\ UNCHANGED <<durable, up, timer, submit, provider, crashes>>

\* The adapter revalidates the workspace and sends the request.
Send(v) ==
    /\ At(v, "launch")
    /\ \/ Go(v, "wait") /\ inflight' = inflight \cup {pass[v].current}
       \/ Threw(v, "rejected") /\ UNCHANGED inflight
    /\ UNCHANGED <<durable, up, timer, submit, runs, crashes>>

\* A handle names the run of the key.  "unavailable" leaves the request in
\* flight; "rejected" says that there is no run and will be none; an "empty"
\* answer (no handle) fails the launch without a lookup.
Answer(v, answer) ==
    LET s == pass[v].current
    IN  /\ At(v, "wait")
        /\ \/ answer = "handle" /\ s \in runs /\ Go(v, "bind") /\ UNCHANGED inflight
           \/ answer = "unavailable" /\ Threw(v, answer) /\ UNCHANGED inflight
           \/ /\ answer = "rejected" /\ s \notin runs
              /\ Threw(v, answer) /\ inflight' = inflight \ {s}
           \/ answer = "malformed" /\ Threw(v, answer) /\ inflight' = inflight \ {s}
           \/ answer = "empty" /\ Go(v, "fail") /\ inflight' = inflight \ {s}
        /\ UNCHANGED <<durable, up, timer, submit, runs, crashes>>

\* After any error the key is looked up once more.
Lookup(v, answer) ==
    LET s == pass[v].current
    IN  /\ At(v, "lookup")
        /\ \/ answer = "found" /\ s \in runs /\ Go(v, "bind")
           \/ /\ answer = "absent" /\ s \notin runs
              /\ IF pass[v].error = "unavailable" THEN Leave(v, TRUE) ELSE Go(v, "fail")
           \/ answer = "malformed" /\ Go(v, "fail")
           \/ answer = "unavailable" /\ Leave(v, TRUE)
        /\ UNCHANGED <<durable, up, timer, submit, provider, crashes>>

\* recordLaunchEvent("launched") binds the run; recordLaunchEvent("failed").
Bind(v) ==
    LET s == pass[v].current
    IN  /\ At(v, "bind") /\ Leave(v, FALSE)
        /\ Mark(s, "launched") /\ Store(s, recordLaunched(worker[s], s))
        /\ UNCHANGED <<accepted, up, timer, submit, provider, crashes>>

\* Mutant: the assignment fails and its session stays open.
FailAlone(v) ==
    /\ At(v, "fail") /\ Leave(v, FALSE) /\ Mark(pass[v].current, "failed")
    /\ UNCHANGED <<worker, accepted, up, timer, submit, provider, crashes>>

Fail(v) ==
    LET s == pass[v].current
    IN  /\ At(v, "fail") /\ Leave(v, FALSE)
        /\ Mark(s, "failed") /\ Store(s, recordLaunchFailed(worker[s]))
        /\ UNCHANGED <<accepted, up, timer, submit, provider, crashes>>

-----------------------------------------------------------------------------
(* Everyone else: callers that end the session (see Lifecycle), the        *)
(* provider, crashes and restarts.                                         *)

Cancel(s) ==
    /\ s \in Cancels /\ launch[s] # None
    /\ ~isTerminal(worker[s]) /\ worker[s].status # "canceling"
    /\ Store(s, requestWorkerCancellation(worker[s], "user_requested", launch[s]))
    /\ UNCHANGED <<launch, accepted, up, pass, timer, submit, provider, crashes>>

\* A deadline is set; when the sweep expires the session it has passed.
SetDeadline(s) ==
    /\ s \in Deadlines /\ launch[s] # None /\ ~isTerminal(worker[s])
    /\ Store(s, setWorkerDeadline(worker[s], 1))
    /\ UNCHANGED <<launch, accepted, up, pass, timer, submit, provider, crashes>>

Expire(s) ==
    /\ isOverdue(worker[s], 1)
    /\ Store(s, expireWorker(worker[s], 1, launch[s]))
    /\ UNCHANGED <<launch, accepted, up, pass, timer, submit, provider, crashes>>

\* The provider processes a request; a key that has a run keeps it.
ProviderLaunches(s) ==
    /\ s \in inflight
    /\ inflight' = inflight \ {s} /\ runs' = runs \cup {s}
    /\ UNCHANGED <<durable, up, pass, timer, submit, crashes>>

Crash(v) ==
    /\ up[v] # "down" /\ crashes < MaxCrashes
    /\ up' = [up EXCEPT ![v] = "down"]
    /\ pass' = [pass EXCEPT ![v] = Off]
    /\ timer' = timer \ {v}
    /\ submit' = [submit EXCEPT ![v] = {}]
    /\ crashes' = crashes + 1
    /\ UNCHANGED <<durable, provider>>

\* stop and close: the timer is cleared and the pass in flight is awaited.
Stop(v) ==
    /\ up[v] = "up" /\ crashes < MaxCrashes
    /\ up' = [up EXCEPT ![v] = "stopping"]
    /\ timer' = timer \ {v}
    /\ crashes' = crashes + 1
    /\ UNCHANGED <<durable, pass, submit, provider>>

\* The program ends; the submissions it was handling go unanswered.
Exit(v) ==
    /\ up[v] = "stopping" /\ At(v, "off")
    /\ up' = [up EXCEPT ![v] = "down"]
    /\ submit' = [submit EXCEPT ![v] = {}]
    /\ UNCHANGED <<durable, pass, timer, provider, crashes>>

\* main awaits a dispatch pass before it registers any tool.
Start(v) ==
    /\ up[v] = "down"
    /\ up' = [up EXCEPT ![v] = "starting"] /\ Go(v, "list")
    /\ UNCHANGED <<durable, timer, submit, provider, crashes>>

-----------------------------------------------------------------------------
PassStep(v) ==
    \/ List(v) \/ PassEnds(v) \/ Dispatch(v) \/ LockFails(v)
    \/ \E verdict \in {"granted", "retryable", "refused"} : Authorize(v, verdict)
    \/ Reserve(v)
    \/ \E answer \in {"found", "absent"} \cup Errors : Find(v, answer)
    \/ Send(v)
    \/ \E answer \in {"handle", "empty"} \cup Errors : Answer(v, answer)
    \/ \E answer \in {"found", "absent", "malformed", "unavailable"} : Lookup(v, answer)
    \/ Bind(v) \/ Fail(v)

ServerStep(v) ==
    \/ \E s \in Sessions : Accept(v, s)
    \/ \E caller \in Callers, k \in BatchKeys, q \in BatchRequests : AcceptBatch(v, caller, k, q)
    \/ ScheduleDispatch(v) \/ ToolDispatches(v) \/ TimerFires(v)
    \/ PassStep(v)
    \/ Crash(v) \/ Stop(v) \/ Exit(v) \/ Start(v)

Next ==
    \/ \E v \in Servers : ServerStep(v)
    \/ \E s \in Sessions : Cancel(s) \/ SetDeadline(s) \/ Expire(s) \/ ProviderLaunches(s)

Spec == Init /\ [][Next]_vars

-----------------------------------------------------------------------------
(* Safety.                                                                 *)

\* The launch service, the callers that end sessions and the restarts change
\* session records only through the store's methods, so the contract of the
\* store holds of every launch.
StoreAPI == INSTANCE WorkerStore WITH
    launch <- [s \in Sessions |-> IF launch[s] = None THEN "accepted" ELSE launch[s]],
    captured <- [s \in Sessions |-> None],
    clock <- 1, MaxTime <- 1
UsesStoreAPI == StoreAPI!Spec

\* Launch intent is written ahead: a request or a run exists only for an
\* assignment that the state file shows reserved, or settled since then, so a
\* restart finds every key that may have a run.
WriteAhead ==
    \A s \in inflight \cup runs : launch[s] \in {"launching", "launched", "failed"}

\* A session that was cancelled before it had a run never gets one: the
\* decision to cancel it locally and the decision to launch it, made by
\* different actors from different reads, cannot both be taken.
CanceledNeverRuns ==
    \A s \in Sessions :
        worker[s].status = "canceled" /\ ~isBound(worker[s]) => s \notin inflight \cup runs

\* A run bound while its session is being cancelled or after it ended is bound
\* together with the intent to stop it, whichever of the two came first.
BoundRunIsStopped ==
    \A s \in Sessions : isBound(worker[s]) =>
        /\ worker[s].status = "canceling" => "cancelPending" \in worker[s].flags
        /\ isTerminal(worker[s]) => {"stopPending", "reconcilePending"} \subseteq worker[s].flags

\* An assignment is settled once: a pass that works from an old snapshot never
\* revises what another server, or the pass before a crash, recorded.
LaunchSettlesOnce ==
    [][\A s \in Sessions : launch[s] \in {"launched", "failed"} => launch'[s] = launch[s]]_launch

\* A batch is accepted at once and for good: no retried, overlapping or partial
\* submission, single or batched, adds to it or takes from it.
BatchIsWhole ==
    [][\A k \in Sessions \cup BatchKeys : members(k) # {} => members(k)' = members(k)]_batch

-----------------------------------------------------------------------------
(* Liveness.                                                               *)

\* A live server runs its passes, timers and handlers, and one that is down is
\* started again, as its client does.  Nothing is assumed of the workspaces or
\* of the provider: each may answer badly every time.
Fairness ==
    \A v \in Servers :
        /\ WF_vars(PassStep(v)) /\ WF_vars(Start(v)) /\ WF_vars(Exit(v)) /\ WF_vars(TimerFires(v))
        /\ WF_vars(ScheduleDispatch(v)) /\ WF_vars(ToolDispatches(v))

FairSpec == Spec /\ Fairness

\* The pass of v has visited s and will be rejected: its caller is told.
Reported(v, s) == At(v, "next") /\ s \notin pass[v].todo /\ pass[v].failed

\* An assignment that a pass reserves, or finds reserved, is not forgotten, across
\* crashes, stops and restarts: it is launched or failed, its session ends, or a
\* pass that tried it is rejected.  The tool and the startup do not repeat a
\* rejected pass, so that no more is promised while the provider is unavailable.
ReservedIsResolved ==
    \A s \in Sessions :
        launch[s] = "launching" /\ (\E v \in Servers : pass[v].current = s) ~>
            launch[s] # "launching" \/ isTerminal(worker[s]) \/ \E v \in Servers : Reported(v, s)
=============================================================================
