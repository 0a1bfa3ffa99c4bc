------------------------- MODULE LaunchCoordinator -------------------------
(***************************************************************************)
(* LaunchCoordinator (src/src/launch-coordinator.ts) over the launch       *)
(* intents of the store (reserveLaunch, updateLaunch in src/src/store.ts)  *)
(* and an adapter that keeps AgentContract, the process adapter            *)
(* (src/src/superset-process-adapter.ts) for one.                          *)
(*                                                                         *)
(* Every operation of the store is one step: it runs under the state       *)
(* file's lock, reloads the file and replaces it whole, and may report an  *)
(* error whether or not the file was replaced.                             *)
(***************************************************************************)
EXTENDS AgentCalls

CONSTANTS Request,          \* the semantic input of each call (requestHash)
          Servers, Server,  \* the process each call runs in
          Sweepers          \* the processes in which reconcile is called

ASSUME CoordinatorConstants ==
    /\ Key \in [Calls -> Keys] /\ Server \in [Calls -> Servers] /\ NoRun \notin Calls

VARIABLES runs, answer,  \* the backend's runs, the answers of its adapter
          intent,        \* the launch intents of the state file
          audited,       \* keys with an "allowed: launch_intent" audit event
          launch,        \* launch calls
          sent,          \* launches that the backend may still act on
          sweep,         \* reconcile, in each server
          late           \* history: calls whose reservation found the launch of
                         \* their key dispatched

coordinatorVars == <<runs, answer, intent, audited, launch, sent, sweep, late>>

Adapter == INSTANCE AgentContract

Runs == Calls \cup {NoRun}
Requests == {Request[c] : c \in Calls}
Statuses == {"none", "reserved", "dispatching", "unknown_outcome", "bound"}
Intent == [status: Statuses, request: Requests \cup {NoRun}, run: Runs]
Phases == {"idle", "authorized", "find", "recover", "revalidate", "dispatching", "launch",
           "waiting", "bind", "failed", "done", "dead"}

\* What a call keeps across its awaits: whether it made the reservation, the
\* status it saw then, and the run it found or started.
LaunchCall == [at: Phases, created: BOOLEAN, seen: Statuses, run: Runs]
FreshLaunch == [at |-> "idle", created |-> FALSE, seen |-> "none", run |-> NoRun]
\* What a sweep keeps: the intents that are left, and the one in hand whose run
\* it found.
Sweeps == [left: SUBSET Keys, key: Keys \cup {NoRun}, run: Runs]
Idle == [left |-> {}, key |-> NoRun, run |-> NoRun]

CoordinatorTypes ==
    /\ runs \subseteq Calls /\ answer \in [Calls -> Runs]
    /\ intent \in [Keys -> Intent] /\ audited \subseteq Keys
    /\ launch \in [Calls -> LaunchCall] /\ sent \subseteq Calls
    /\ sweep \in [Servers -> Sweeps] /\ late \subseteq Calls

CoordinatorInit ==
    /\ Adapter!Init
    /\ intent = [k \in Keys |-> [status |-> "none", request |-> NoRun, run |-> NoRun]]
    /\ audited = {} /\ sent = {}
    /\ launch = [c \in Calls |-> FreshLaunch]
    /\ sweep = [v \in Servers |-> Idle] /\ late = {}

LaunchAt(c, a) == launch[c].at = a
\* A call moves on and needs no more of what it kept.
LaunchGoto(c, a) == launch' = [launch EXCEPT ![c] = [FreshLaunch EXCEPT !.at = a]]
RunOf(k) == {r \in runs : Key[r] = k}
\* The statuses of an intent whose launch may have reached the backend.
Dispatched == {"dispatching", "unknown_outcome", "bound"}

\* The statuses that updateLaunch lets follow each status.
Transitions ==
    [none |-> {},
     reserved |-> {"reserved", "dispatching", "unknown_outcome"},
     dispatching |-> {"dispatching", "unknown_outcome", "bound"},
     unknown_outcome |-> {"unknown_outcome", "bound"},
     bound |-> {"bound"}]

\* Mutant: every status may follow.
AllowedAlways(k, status, r) == intent[k].status # "none"

\* updateLaunch with a status and a run, or NoRun for the one stored before.
Allowed(k, status, r) ==
    /\ status \in Transitions[intent[k].status]
    /\ intent[k].status = "bound" /\ r # NoRun => r = intent[k].run

\* The outcomes of updateLaunch: <<the intents of the file, success>>.
Updated(k, status, r) ==
    LET next == [intent EXCEPT ![k].status = status, ![k].run = IF r = NoRun THEN @ ELSE r] IN
    IF Allowed(k, status, r) THEN {<<next, TRUE>>, <<next, FALSE>>, <<intent, FALSE>>}
                             ELSE {<<intent, FALSE>>}

-----------------------------------------------------------------------------
(* launch.                                                                 *)

\* The request is valid and the workspace is authorized, or denied.
Authorize(c) ==
    /\ LaunchAt(c, "idle") /\ (LaunchGoto(c, "authorized") \/ LaunchGoto(c, "done"))
    /\ UNCHANGED <<runs, answer, intent, audited, sent, sweep, late>>

\* Mutant: the key alone identifies the request.
SameRequestByKey(c) == TRUE
SameRequest(c) == intent[Key[c]].request = Request[c]

\* reserveLaunch.
Reserve(c) ==
    /\ LaunchAt(c, "authorized")
    /\ LET k == Key[c]
           old == intent[k]
           reserved == [old EXCEPT !.status = "reserved", !.request = Request[c]] IN
        \/ /\ old.status = "none"
           /\ \/ intent' = [intent EXCEPT ![k] = reserved]
                 /\ \/ launch' = [launch EXCEPT ![c].at = "find", ![c].created = TRUE,
                                                ![c].seen = "reserved"]
                    \/ LaunchGoto(c, "done")
              \/ UNCHANGED intent /\ LaunchGoto(c, "done")
        \/ /\ old.status # "none" /\ (~SameRequest(c) \/ old.status = "bound")
           /\ LaunchGoto(c, "done") /\ UNCHANGED intent
        \/ /\ old.status \notin {"none", "bound"} /\ SameRequest(c)
           /\ launch' = [launch EXCEPT ![c].at = "find", ![c].seen = old.status]
           /\ UNCHANGED intent
    /\ late' = IF intent[Key[c]].status \in Dispatched THEN late \cup {c} ELSE late
    /\ UNCHANGED <<runs, answer, audited, sent, sweep>>

\* Mutant: a call that finds no run dispatches, whatever it saw.
FindRetries(c) ==
    /\ LaunchAt(c, "find")
    /\ \/ \E r \in RunOf(Key[c]) : launch' = [launch EXCEPT ![c].at = "recover", ![c].run = r]
       \/ LaunchGoto(c, "revalidate")
    /\ UNCHANGED <<runs, answer, intent, audited, sent, sweep, late>>

\* findByIdempotencyKey: a run that exists may not be visible yet; without one
\* only a reservation that nobody was seen to dispatch goes on.
Find(c) ==
    /\ LaunchAt(c, "find")
    /\ \/ \E r \in RunOf(Key[c]) : launch' = [launch EXCEPT ![c].at = "recover", ![c].run = r]
       \/ (launch[c].created \/ launch[c].seen = "reserved") /\ LaunchGoto(c, "revalidate")
       \/ LaunchGoto(c, "done")
    /\ UNCHANGED <<runs, answer, intent, audited, sent, sweep, late>>

\* A found run is bound once its workspace is authorized again.
Recover(c) ==
    /\ LaunchAt(c, "recover")
    /\ \/ LaunchGoto(c, "done") /\ UNCHANGED intent
       \/ /\ \E u \in Updated(Key[c], "bound", launch[c].run) : intent' = u[1]
          /\ LaunchGoto(c, "done")
    /\ UNCHANGED <<runs, answer, audited, sent, sweep, late>>

\* The grant still holds and the launch is audited, or the call is denied.
Revalidate(c) ==
    /\ LaunchAt(c, "revalidate")
    /\ \/ audited' = audited \cup {Key[c]} /\ (LaunchGoto(c, "dispatching") \/ LaunchGoto(c, "done"))
       \/ UNCHANGED audited /\ LaunchGoto(c, "done")
    /\ UNCHANGED <<runs, answer, intent, sent, sweep, late>>

\* Mutant: the adapter is called although the write failed.
DispatchingUnchecked(c) ==
    /\ LaunchAt(c, "dispatching")
    /\ \E u \in Updated(Key[c], "dispatching", NoRun) : intent' = u[1]
    /\ LaunchGoto(c, "launch")
    /\ UNCHANGED <<runs, answer, audited, sent, sweep, late>>

\* updateLaunch to dispatching, before the adapter is called.
Dispatching(c) ==
    /\ LaunchAt(c, "dispatching")
    /\ \E u \in Updated(Key[c], "dispatching", NoRun) :
        intent' = u[1] /\ LaunchGoto(c, IF u[2] THEN "launch" ELSE "done")
    /\ UNCHANGED <<runs, answer, audited, sent, sweep, late>>

\* The adapter validates the workspace, starts a provider process and hands it
\* the request.
Launch(c) ==
    /\ LaunchAt(c, "launch")
    /\ \/ LaunchGoto(c, "waiting") /\ sent' = sent \cup {c}
       \/ LaunchGoto(c, "failed") /\ UNCHANGED sent
    /\ UNCHANGED <<runs, answer, intent, audited, sweep, late>>

\* The backend (external) accepts a launch, also one that nobody waits for.
Accept(c) ==
    /\ c \in sent /\ Adapter!Start(c)
    /\ UNCHANGED <<intent, audited, launch, sent, sweep, late>>

\* The provider process exits with the run of the key.
Answer(c, r) ==
    /\ LaunchAt(c, "waiting") /\ Adapter!Return(c, r)
    /\ launch' = [launch EXCEPT ![c].at = "bind", ![c].run = r]
    /\ UNCHANGED <<intent, audited, sent, sweep, late>>

\* It times out, exits with an error, or answers out of shape.
Fail(c) ==
    /\ LaunchAt(c, "waiting") /\ LaunchGoto(c, "failed")
    /\ UNCHANGED <<runs, answer, intent, audited, sent, sweep, late>>

BindRun(c) ==
    /\ LaunchAt(c, "bind")
    /\ \E u \in Updated(Key[c], "bound", launch[c].run) :
        intent' = u[1] /\ LaunchGoto(c, IF u[2] THEN "done" ELSE "failed")
    /\ UNCHANGED <<runs, answer, audited, sent, sweep, late>>

\* Mutant: the failure is recorded without a look at the status.
FailedOverwrites(c) ==
    /\ LaunchAt(c, "failed")
    /\ intent' = [intent EXCEPT ![Key[c]].status = "unknown_outcome", ![Key[c]].run = NoRun]
    /\ LaunchGoto(c, "done")
    /\ UNCHANGED <<runs, answer, audited, sent, sweep, late>>

\* The catch clause: updateLaunch to unknown_outcome, which may fail too.
Failed(c) ==
    /\ LaunchAt(c, "failed")
    /\ \E u \in Updated(Key[c], "unknown_outcome", NoRun) : intent' = u[1]
    /\ LaunchGoto(c, "done")
    /\ UNCHANGED <<runs, answer, audited, sent, sweep, late>>

-----------------------------------------------------------------------------
(* reconcile, a crash.                                                     *)

\* reconcile starts, over the intents that are unbound in the server's memory,
\* which may be older than the file.
Reconcile(v) ==
    /\ v \in Sweepers /\ sweep[v] = Idle
    /\ \E left \in SUBSET {k \in Keys : intent[k].status # "none"} :
        sweep' = [sweep EXCEPT ![v].left = left]
    /\ UNCHANGED <<runs, answer, intent, audited, launch, sent, late>>

\* The next intent is looked up: a run of its key is found, ...
Found(v, k) ==
    /\ sweep[v].key = NoRun /\ k \in sweep[v].left
    /\ \E r \in RunOf(k) :
        sweep' = [sweep EXCEPT ![v] = [left |-> sweep[v].left \ {k}, key |-> k, run |-> r]]
    /\ UNCHANGED <<runs, answer, intent, audited, launch, sent, late>>

\* ... or none, or none yet.
NotFound(v, k) ==
    /\ sweep[v].key = NoRun /\ k \in sweep[v].left
    /\ sweep' = [sweep EXCEPT ![v].left = @ \ {k}]
    /\ UNCHANGED <<runs, answer, intent, audited, launch, sent, late>>

\* The sweep goes on with the next intent.
Continue(v) == sweep' = [sweep EXCEPT ![v].key = NoRun, ![v].run = NoRun]
Abort(v) == sweep' = [sweep EXCEPT ![v] = Idle]

\* The workspace is authorized and the run bound; a failed write throws.
SweepBinds(v) ==
    /\ sweep[v].key # NoRun
    /\ \E u \in Updated(sweep[v].key, "bound", sweep[v].run) :
        intent' = u[1] /\ IF u[2] THEN Continue(v) ELSE Abort(v)
    /\ UNCHANGED <<runs, answer, audited, launch, sent, late>>

\* The denial is audited and the sweep goes on.
SweepDenied(v) ==
    /\ sweep[v].key # NoRun /\ Continue(v)
    /\ UNCHANGED <<runs, answer, intent, audited, launch, sent, late>>

\* A lookup or the audit of a denial throws, which ends the sweep for the
\* intents that are left.
SweepThrows(v) ==
    /\ sweep[v] # Idle /\ Abort(v)
    /\ UNCHANGED <<runs, answer, intent, audited, launch, sent, late>>

\* The calls of a server end with it.
ServerCrash(v) ==
    /\ \E c \in Calls : Server[c] = v /\ launch[c].at \notin {"idle", "done", "dead"}
    /\ launch' = [c \in Calls |->
                    IF Server[c] = v /\ launch[c].at \notin {"idle", "done", "dead"}
                    THEN [FreshLaunch EXCEPT !.at = "dead"] ELSE launch[c]]
    /\ sweep' = [sweep EXCEPT ![v] = Idle]
    /\ UNCHANGED <<runs, answer, intent, audited, sent, late>>

LaunchStep(c) ==
    \/ Authorize(c) \/ Reserve(c) \/ Find(c) \/ Recover(c) \/ Revalidate(c)
    \/ Dispatching(c) \/ Launch(c) \/ Fail(c) \/ BindRun(c) \/ Failed(c)
    \/ \E r \in Calls : Answer(c, r)

CoordinatorNext ==
    \/ \E c \in Calls : LaunchStep(c) \/ Accept(c)
    \/ \E v \in Servers :
        \/ Reconcile(v) \/ SweepBinds(v) \/ SweepDenied(v) \/ SweepThrows(v) \/ ServerCrash(v)
        \/ \E k \in Keys : Found(v, k) \/ NotFound(v, k)

CoordinatorSpec == CoordinatorInit /\ [][CoordinatorNext]_coordinatorVars

-----------------------------------------------------------------------------
(* Properties.                                                             *)

\* Before a launch may reach the backend, the intent of its key is in the file,
\* past reserved and for this very request, and its audit event is written:
\* whoever raced for the key, and whichever write failed.
IntentComesFirst ==
    \A c \in sent :
        /\ intent[Key[c]].status \in Dispatched
        /\ intent[Key[c]].request = Request[c] /\ Key[c] \in audited

\* A binding names the run that the backend has for the key, started for the
\* request of the intent.
BindingIsTheRun ==
    \A k \in Keys : intent[k].run # NoRun =>
        /\ intent[k].status = "bound"
        /\ intent[k].run \in RunOf(k) /\ Request[intent[k].run] = intent[k].request

\* A binding lasts: no late failure of the call that lost the race, no retry and
\* no sweep from a stale memory changes it.
BindingLasts ==
    [][\A k \in Keys : intent[k].run # NoRun => intent'[k] = intent[k]]_coordinatorVars

\* A call that comes to a launch that was dispatched before starts nothing, as
\* long as the outcome is open and ever after: it binds the run it finds, or fails.
UnresolvedIsNotRetried == late \cap sent = {}

\* A run that the backend accepted can be bound at any time, by a retry or a
\* sweep: no racing call, failed write, aborted sweep or crash leaves an intent
\* behind from which updateLaunch refuses the run.
AcceptedCanBeBound ==
    \A k \in Keys : \A r \in RunOf(k) : Allowed(k, "bound", r)
=============================================================================
