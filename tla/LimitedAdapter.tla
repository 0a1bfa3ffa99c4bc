--------------------------- MODULE LimitedAdapter ---------------------------
(***************************************************************************)
(* ConcurrencyLimitedAgentAdapter                                          *)
(* (src/src/concurrency-limited-agent-adapter.ts) over the scheduler: the  *)
(* permit of a run is held from the launch, or from its recovery, until    *)
(* the run is known to have ended or not to exist.                         *)
(*                                                                         *)
(* A request of the scheduler is an idempotency key, and the run of a key  *)
(* is named after it: a provider that gives two keys one run breaks the    *)
(* adapter contract and is left out, and with it recoveringRuns and        *)
(* terminalRuns, which only such a provider makes any difference to.  A    *)
(* key in the scheduler's queue is a launch that waits for its permit.     *)
(***************************************************************************)
EXTENDS Naturals, Sequences, FiniteSets

CONSTANTS Requests, NoRequest, Scope, Policies

VARIABLES policy, queue, active, recovered, checking, delayed, timer,  \* of the scheduler
          calling,     \* launches that have their permit and await the provider
          unresolved,  \* unresolvedLaunches
          retained,    \* unresolvedRecoveries
          releases,    \* runs that hold a permit (releases, runIdsByIdempotencyKey)
          lookup,      \* the recovery in progress for each key
          run          \* the provider's run of each key

S == INSTANCE Scheduler WITH
        Id <- [k \in Requests |-> k], Abortable <- {}, Existing <- Requests

ASSUME AdapterConstants ==   \* what the scheduler assumes of its requests and policies
    /\ IsFiniteSet(Requests) /\ NoRequest \notin Requests
    /\ \A k, l \in Requests : Scope[k]["global"] = Scope[l]["global"]
    /\ Policies \subseteq [limit: [S!ScopeKeys -> Nat \ {0}], maxQueued: Nat,
                           overload: {"queue", "reject"}, hooks: BOOLEAN]

schedulerVars == <<policy, queue, active, recovered, checking, delayed, timer>>
holderVars == <<calling, unresolved, retained, releases>>
vars == <<schedulerVars, holderVars, lookup, run>>

\* What recover read before its await: whether the launch of the key was
\* unresolved, whether a permit was reserved by recovery, whether a run held one.
Lookup == [pc: {"idle", "find", "inspect"}, launch: BOOLEAN, recovery: BOOLEAN, held: BOOLEAN]
Idle == [pc |-> "idle", launch |-> FALSE, recovery |-> FALSE, held |-> FALSE]

TypeOK ==
    /\ S!TypeOK
    /\ calling \subseteq Requests /\ unresolved \subseteq Requests
    /\ retained \subseteq Requests /\ releases \subseteq Requests
    /\ lookup \in [Requests -> Lookup]
    /\ run \in [Requests -> {"none", "live", "ended"}]

\* Runs may exist from before a restart.
Init ==
    /\ S!Init
    /\ calling = {} /\ unresolved = {} /\ retained = {} /\ releases = {}
    /\ lookup = [k \in Requests |-> Idle]
    /\ run \in [Requests -> {"none", "live", "ended"}]

-----------------------------------------------------------------------------
\* Launches that a step of the scheduler admits go on to call the provider.
Admitted == active' \ (active \cup recovered')
Proceed(done) == calling' = (calling \ done) \cup Admitted
Return(k) == lookup' = [lookup EXCEPT ![k] = Idle]

\* Mutant: the run is forgotten, its permit is not given back.
ReleaseForgetsPermit(k) == releases' = releases \ {k} /\ UNCHANGED schedulerVars

\* The release of a held run's permit, which a second call does not repeat.
release(k) ==
    /\ releases' = releases \ {k}
    /\ IF k \in releases THEN S!Release(k) ELSE UNCHANGED schedulerVars

(* launch.                                                                 *)

Launch(k) ==
    /\ S!Acquire(k) /\ Proceed({})
    /\ UNCHANGED <<unresolved, retained, releases, lookup, run>>

LaunchReturns(k) ==
    /\ k \in calling /\ run[k] # "none"
    /\ calling' = calling \ {k} /\ releases' = releases \cup {k}
    /\ UNCHANGED <<schedulerVars, unresolved, retained, lookup, run>>

\* Mutant: a failed launch gives its permit back.
LaunchThrowsReleases(k) ==
    /\ k \in calling
    /\ S!Release(k) /\ Proceed({k})
    /\ UNCHANGED <<unresolved, retained, releases, lookup, run>>

\* The outcome is unknown: the permit is kept for a lookup to resolve.
LaunchThrows(k) ==
    /\ k \in calling
    /\ calling' = calling \ {k} /\ unresolved' = unresolved \cup {k}
    /\ UNCHANGED <<schedulerVars, retained, releases, lookup, run>>

(* findByIdempotencyKey; a second call joins the recovery in progress.     *)

\* A key without any permit reserves one first; if its launch has it, or waits
\* for it, the lookup throws.
Find(k) ==
    LET seen == [pc |-> "find", launch |-> k \in unresolved, held |-> k \in releases,
                 recovery |-> k \notin unresolved \cup releases]
    IN  /\ lookup[k].pc = "idle"
        /\ IF seen.recovery /\ k \notin retained THEN S!AcquireExisting(k) ELSE UNCHANGED schedulerVars
        /\ lookup' = [lookup EXCEPT ![k] = seen]
        /\ UNCHANGED <<holderVars, run>>

\* Mutant: a failed lookup forgets the permit it reserved.
FindThrowsForgets(k) ==
    /\ lookup[k].pc = "find" /\ Return(k)
    /\ UNCHANGED <<schedulerVars, holderVars, run>>

FindThrows(k) ==
    /\ lookup[k].pc = "find" /\ Return(k)
    /\ retained' = IF lookup[k].recovery THEN retained \cup {k} ELSE retained
    /\ UNCHANGED <<schedulerVars, calling, unresolved, releases, run>>

\* Absence is authoritative: whatever the key holds is given back.
FindAbsent(k) ==
    LET seen == lookup[k]
    IN  /\ seen.pc = "find" /\ run[k] = "none" /\ Return(k)
        /\ IF seen.launch \/ seen.recovery \/ k \in releases
           THEN S!Release(k) ELSE UNCHANGED schedulerVars
        /\ Proceed({})
        /\ unresolved' = unresolved \ {k} /\ retained' = retained \ {k}
        /\ releases' = releases \ {k}
        /\ UNCHANGED run

\* A run whose permit was held when the lookup began is not inspected, also if
\* its end was observed, and its permit released, meanwhile.
FindFound(k) ==
    LET seen == lookup[k]
    IN  /\ seen.pc = "find" /\ run[k] # "none"
        /\ IF seen.held THEN Return(k) /\ UNCHANGED <<unresolved, retained, releases>>
           ELSE /\ lookup' = [lookup EXCEPT ![k].pc = "inspect"]
                /\ unresolved' = unresolved \ {k} /\ retained' = retained \ {k}
                /\ releases' = releases \cup {k}
        /\ UNCHANGED <<schedulerVars, calling, run>>

\* inspectRecoveredRun: a terminal status releases the permit.
InspectEnded(k) ==
    /\ lookup[k].pc = "inspect" /\ run[k] = "ended"
    /\ Return(k) /\ release(k) /\ Proceed({})
    /\ UNCHANGED <<unresolved, retained, run>>

\* The run is live, or its status is not known.
InspectOpen(k) ==
    /\ lookup[k].pc = "inspect" /\ Return(k)
    /\ UNCHANGED <<schedulerVars, holderVars, run>>

(* status and result: the end of a run is observed.                        *)

EndObserved(k) ==
    /\ run[k] = "ended" /\ k \in releases
    /\ release(k) /\ Proceed({})
    /\ UNCHANGED <<unresolved, retained, lookup, run>>

(* The provider and the scheduler's own steps.                             *)

\* A request whose answer was lost may still be accepted.
ProviderLaunches(k) ==
    /\ k \in calling \cup unresolved /\ run[k] = "none"
    /\ run' = [run EXCEPT ![k] = "live"]
    /\ UNCHANGED <<schedulerVars, holderVars, lookup>>

RunEnds(k) ==
    /\ run[k] = "live" /\ run' = [run EXCEPT ![k] = "ended"]
    /\ UNCHANGED <<schedulerVars, holderVars, lookup>>

SchedulerStep ==
    /\ \/ \E ready \in BOOLEAN : S!Checked(ready)
       \/ S!TimerFires \/ \E k \in Requests : S!Elapse(k)
    /\ Proceed({})
    /\ UNCHANGED <<unresolved, retained, releases, lookup, run>>

-----------------------------------------------------------------------------
FindAnswers(k) ==
    FindThrows(k) \/ FindAbsent(k) \/ FindFound(k) \/ InspectEnded(k) \/ InspectOpen(k)

KeyStep(k) ==
    \/ Launch(k) \/ LaunchReturns(k) \/ LaunchThrows(k)
    \/ Find(k) \/ FindAnswers(k) \/ EndObserved(k)
    \/ ProviderLaunches(k) \/ RunEnds(k)

Next == SchedulerStep \/ \E k \in Requests : KeyStep(k)

Spec == Init /\ [][Next]_vars

-----------------------------------------------------------------------------
(* Safety.                                                                 *)

\* The permits a recovery has reserved, in progress or failed.
recovering == retained \cup {k \in Requests : lookup[k].pc = "find" /\ lookup[k].recovery}

\* Every permit is accounted for, once: a launch in progress, an unresolved
\* launch, a recovery or a run will give it back, and no two of them can.
PermitHasOneHolder ==
    /\ active = calling \cup unresolved \cup recovering \cup releases
    /\ calling \cap (unresolved \cup recovering \cup releases) = {}
    /\ unresolved \cap (recovering \cup releases) = {}
    /\ recovering \cap releases = {}

\* A permit is not given back while the run it was taken for is live, however
\* calls fail and overlap and however late a lost request was accepted.
PermitOutlivesRun == [][\A k \in active \ active' : run[k] # "live"]_vars

-----------------------------------------------------------------------------
(* Liveness.                                                               *)

\* Provider calls end; hooks are ready some time; an unresolved key is looked
\* up again and again, and some lookup gets an answer; the status of a run that
\* holds a permit is polled.  Lookups and polls are up to the callers of the
\* adapter, which server.ts does not construct: that they come is assumed of the
\* environment, nothing in the repository schedules them.
Fairness ==
    /\ WF_vars(SchedulerStep)
    /\ \A k \in Requests :
          /\ SF_vars(S!Checked(TRUE) /\ checking = k /\ SchedulerStep)
          /\ WF_vars(LaunchReturns(k) \/ LaunchThrows(k))
          /\ WF_vars(k \in unresolved \cup retained /\ Find(k))
          /\ WF_vars(FindAnswers(k))
          /\ SF_vars(FindAbsent(k) \/ FindFound(k))
          /\ WF_vars(EndObserved(k))

FairSpec == Spec /\ Fairness

\* The permit of a run that has ended, or never existed, comes back, if callers
\* keep looking it up and polling it.
PermitComesBack ==
    \A k \in Requests : k \in active /\ run[k] # "live" ~> k \notin active \/ run[k] = "live"
=============================================================================
