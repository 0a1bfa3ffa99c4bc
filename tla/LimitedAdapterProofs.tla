------------------------ MODULE LimitedAdapterProofs ------------------------
(***************************************************************************)
(* Proofs about LimitedAdapter, for every finite set of keys, any scopes   *)
(* and every policy.  What the scheduler does is taken from the lemmas of  *)
(* SchedulerProofs.                                                        *)
(*                                                                         *)
(* A permit has one holder because a lookup that saw an unresolved launch, *)
(* or reserved a permit, is the only one that can resolve it, and one that *)
(* saw a run hold the permit gives nothing back: the run exists, so its    *)
(* absence is not reported.                                                *)
(***************************************************************************)
EXTENDS LimitedAdapter, TLAPS

P == INSTANCE SchedulerProofs WITH
        Id <- [k \in Requests |-> k], Abortable <- {}, Existing <- Requests

\* The types of the adapter's own variables.
HolderTypes ==
    /\ calling \subseteq Requests /\ unresolved \subseteq Requests
    /\ retained \subseteq Requests /\ releases \subseteq Requests
    /\ lookup \in [Requests -> Lookup]
    /\ run \in [Requests -> {"none", "live", "ended"}]

\* What a lookup in progress has seen is still so; a run that holds a permit exists.
LookupSound(k) ==
    /\ k \in releases => run[k] # "none"
    /\ lookup[k].pc = "find" =>
        /\ lookup[k].launch => k \in unresolved
        /\ lookup[k].held => run[k] # "none"
        /\ lookup[k].recovery <=> ~lookup[k].launch /\ ~lookup[k].held

\* The inductive invariant.
AdapterInv ==
    /\ P!SchedulerInv /\ HolderTypes /\ PermitHasOneHolder
    /\ \A k \in Requests : LookupSound(k)

-----------------------------------------------------------------------------
(* The scheduler of LimitedAdapter is the one SchedulerProofs is about.    *)

\* The constants are as the scheduler assumes them to be.
LEMMA SchedulerConstants ==
  /\ P!IsFiniteSet(Requests) /\ NoRequest \notin Requests
  /\ {} \subseteq Requests /\ Requests \subseteq Requests
  /\ \A k, l \in Requests : Scope[k]["global"] = Scope[l]["global"]
  /\ Policies \subseteq [limit: [P!ScopeKeys -> Nat \ {0}], maxQueued: Nat,
                         overload: {"queue", "reject"}, hooks: BOOLEAN]
<1>1. P!ScopeKeys = S!ScopeKeys
  BY Zenon DEF P!ScopeKeys, S!ScopeKeys
<1>2. P!IsFiniteSet(Requests)
  BY AdapterConstants, Zenon DEF IsFiniteSet, P!IsFiniteSet
<1> QED  BY <1>1, <1>2, AdapterConstants

\* The helpers of the scheduler.
LEMMA SameLoop ==
  ASSUME NEW q, NEW A, NEW wait, NEW woken
  PROVE  S!DrainLoop(q, A, wait, woken) <=> P!DrainLoop(q, A, wait, woken)
<1>1. \A r, B : S!blockedBy(r, B) = P!blockedBy(r, B)
  BY Zenon DEF S!blockedBy, P!blockedBy, S!sharing, P!sharing, S!ScopeKeys, P!ScopeKeys,
     S!Cardinality, P!Cardinality, S!IsFiniteSet, P!IsFiniteSet
<1>2. S!Admissible(q, A) = P!Admissible(q, A)
  BY Zenon DEF S!Admissible, P!Admissible, S!blockedBy, P!blockedBy, S!sharing, P!sharing,
     S!ScopeKeys, P!ScopeKeys, S!Cardinality, P!Cardinality, S!IsFiniteSet, P!IsFiniteSet
<1> QED  BY <1>1, <1>2, Zenon DEF S!DrainLoop, P!DrainLoop

\* The steps of the scheduler.
LEMMA SameSteps ==
  /\ S!Init <=> P!Init
  /\ S!TypeOK <=> P!TypeOK
  /\ S!TimerFires <=> P!TimerFires
  /\ \A k \in Requests : /\ S!Acquire(k) <=> P!Acquire(k)
                         /\ S!AcquireExisting(k) <=> P!AcquireExisting(k)
                         /\ S!Release(k) <=> P!Release(k)
                         /\ S!Elapse(k) <=> P!Elapse(k)
  /\ \A ready \in BOOLEAN : S!Checked(ready) <=> P!Checked(ready)
<1>1. \A q, A, wait, woken : S!Drain(q, A, wait, woken) <=> P!Drain(q, A, wait, woken)
  BY SameLoop, Zenon DEF S!Drain, P!Drain
<1>2. \A r, B : S!blockedBy(r, B) = P!blockedBy(r, B)
  BY Zenon DEF S!blockedBy, P!blockedBy, S!sharing, P!sharing, S!ScopeKeys, P!ScopeKeys,
     S!Cardinality, P!Cardinality, S!IsFiniteSet, P!IsFiniteSet
<1>3. (S!Init <=> P!Init) /\ (S!TypeOK <=> P!TypeOK)
  BY Zenon DEF S!Init, P!Init, S!TypeOK, P!TypeOK, S!Queued, P!Queued
<1>4. S!TimerFires <=> P!TimerFires
  BY <1>1, Zenon DEF S!TimerFires, P!TimerFires
<1>5. ASSUME NEW k \in Requests PROVE S!Acquire(k) <=> P!Acquire(k)
  BY <1>1, <1>2, Zenon DEF S!Acquire, P!Acquire, S!Unused, P!Unused, S!Queued, P!Queued
<1>6. ASSUME NEW k \in Requests PROVE S!AcquireExisting(k) <=> P!AcquireExisting(k)
  BY Zenon DEF S!AcquireExisting, P!AcquireExisting, S!Unused, P!Unused, S!Queued, P!Queued
<1>7. ASSUME NEW k \in Requests PROVE (S!Release(k) <=> P!Release(k)) /\ (S!Elapse(k) <=> P!Elapse(k))
  BY <1>1, Zenon DEF S!Release, P!Release, S!Elapse, P!Elapse
<1>8. ASSUME NEW ready \in BOOLEAN PROVE S!Checked(ready) <=> P!Checked(ready)
  BY SameLoop, Zenon DEF S!Checked, P!Checked
<1> QED  BY <1>3, <1>4, <1>5, <1>6, <1>7, <1>8

\* What the steps of the scheduler do to the permits.
LEMMA SchedulerSteps ==
  ASSUME P!SchedulerInv
  PROVE  /\ S!TypeOK /\ recovered \subseteq active /\ active \subseteq Requests
         /\ (UNCHANGED schedulerVars => P!SchedulerInv')
         /\ \A k \in Requests :
              /\ S!Acquire(k) \/ S!Elapse(k) =>
                   P!SchedulerInv' /\ active \subseteq active' /\ recovered' \subseteq recovered
              /\ S!AcquireExisting(k) =>
                   /\ P!SchedulerInv' /\ k \notin active /\ active' = active \cup {k}
                   /\ recovered' = recovered \cup {k}
              /\ S!Release(k) =>
                   /\ P!SchedulerInv' /\ k \in active /\ k \notin active' /\ active \ {k} \subseteq active'
                   /\ recovered' \subseteq recovered
         /\ S!TimerFires \/ (\E ready \in BOOLEAN : S!Checked(ready)) =>
              P!SchedulerInv' /\ active \subseteq active' /\ recovered' \subseteq recovered
<1>1. P!TypeOK
  BY DEF P!SchedulerInv
<1>2. S!TypeOK /\ recovered \subseteq active /\ active \subseteq Requests
  BY <1>1, SameSteps DEF P!TypeOK
<1>3. ASSUME UNCHANGED schedulerVars PROVE P!SchedulerInv'
  BY <1>3, SchedulerConstants, P!StepIsSound DEF schedulerVars, P!vars
<1>4. ASSUME NEW k \in Requests, P!Acquire(k) \/ P!Elapse(k)
      PROVE  P!SchedulerInv' /\ active \subseteq active' /\ recovered' \subseteq recovered
  BY <1>4, SchedulerConstants, P!AcquireKeeps, P!WaitKeeps, P!PermitsKept
<1>5. ASSUME NEW k \in Requests, P!AcquireExisting(k)
      PROVE  /\ P!SchedulerInv' /\ k \notin active /\ active' = active \cup {k}
             /\ recovered' = recovered \cup {k}
  <2>1. k \notin active /\ active' = active \cup {k} /\ recovered' = recovered \cup {k}
    BY <1>5 DEF P!AcquireExisting, P!Unused
  <2> QED  BY <1>5, <2>1, SchedulerConstants, P!AcquireExistingKeeps
<1>6. ASSUME NEW k \in Requests, P!Release(k)
      PROVE  /\ P!SchedulerInv' /\ k \in active /\ k \notin active' /\ active \ {k} \subseteq active'
             /\ recovered' \subseteq recovered
  BY <1>6, SchedulerConstants, P!ReleaseKeeps, P!PermitReleased
<1>7. ASSUME P!TimerFires \/ \E ready \in BOOLEAN : P!Checked(ready)
      PROVE  P!SchedulerInv' /\ active \subseteq active' /\ recovered' \subseteq recovered
  BY <1>7, SchedulerConstants, P!WaitKeeps, P!CheckedKeeps, P!PermitsKept
<1> QED  BY <1>2, <1>3, <1>4, <1>5, <1>6, <1>7, SameSteps

-----------------------------------------------------------------------------
(* The holders of a permit.                                                *)

\* A lookup in progress has reserved the permit of its key.
Reserving(k) == lookup[k].pc = "find" /\ lookup[k].recovery

\* The permits reserved by recovery, key by key.
LEMMA RecoveringKeys ==
  ASSUME HolderTypes, NEW k \in Requests
  PROVE  k \in recovering <=> k \in retained \/ Reserving(k)
  BY DEF HolderTypes, recovering, Reserving

\* The holders of a permit, key by key: nobody, or exactly one.
OneHolder(k) ==
    /\ k \in active <=> k \in calling \/ k \in unresolved \/ k \in retained \/ Reserving(k) \/ k \in releases
    /\ k \in calling => k \notin unresolved /\ k \notin retained /\ ~Reserving(k) /\ k \notin releases
    /\ k \in unresolved => k \notin retained /\ ~Reserving(k) /\ k \notin releases
    /\ k \in releases => k \notin retained /\ ~Reserving(k)

\* The two ways to say that a permit has one holder.
LEMMA HoldersByKey ==
  ASSUME HolderTypes, active \subseteq Requests
  PROVE  PermitHasOneHolder <=> \A k \in Requests : OneHolder(k)
<1>1. recovering \subseteq Requests
  BY DEF HolderTypes, recovering
<1> HIDE DEF recovering
<1>2. /\ calling \subseteq Requests /\ unresolved \subseteq Requests /\ releases \subseteq Requests
      /\ retained \subseteq Requests
  BY DEF HolderTypes
<1>3. \A k \in Requests : k \in recovering <=> k \in retained \/ Reserving(k)
  BY RecoveringKeys
<1>4. ASSUME PermitHasOneHolder, NEW k \in Requests PROVE OneHolder(k)
  BY <1>3, <1>4 DEF PermitHasOneHolder, OneHolder
<1>5. ASSUME \A k \in Requests : OneHolder(k) PROVE PermitHasOneHolder
  BY <1>1, <1>2, <1>3, <1>5 DEF PermitHasOneHolder, OneHolder
<1> QED  BY <1>4, <1>5

\* What the invariant says, key by key.
KeySound(k) == OneHolder(k) /\ LookupSound(k)

\* Every key is sound.
KeysSound == \A k \in Requests : KeySound(k)

\* The invariant, key by key.
LEMMA InvByKey == P!SchedulerInv /\ HolderTypes => (AdapterInv <=> KeysSound)
  BY SchedulerSteps, HoldersByKey DEF AdapterInv, KeySound, KeysSound

\* The same after a step.
LEMMA InvByKeyNext == P!SchedulerInv' /\ HolderTypes' => (AdapterInv' <=> KeysSound')
  BY InvByKey, PTL

\* What the invariant gives to every step.
LEMMA InvFacts ==
  ASSUME AdapterInv
  PROVE  /\ P!SchedulerInv /\ HolderTypes /\ recovered \subseteq active /\ active \subseteq Requests
         /\ \A k \in Requests : OneHolder(k) /\ LookupSound(k)
  BY InvByKey, SchedulerSteps DEF AdapterInv, KeysSound, KeySound

\* The permits after a step of the scheduler are of known keys.
LEMMA NextPermits == P!SchedulerInv' => active' \subseteq Requests
  BY DEF P!SchedulerInv, P!TypeOK

-----------------------------------------------------------------------------
(* Every step keeps the invariant.                                         *)

\* The scheduler gives permits to waiting launches, and takes none.
LEMMA AdmissionKeeps ==
  ASSUME AdapterInv, P!SchedulerInv', active \subseteq active', recovered' \subseteq recovered, Proceed({}),
         UNCHANGED <<unresolved, retained, releases, lookup, run>>
  PROVE  AdapterInv'
<1>1. calling' = calling \cup (active' \ active)
  BY InvFacts DEF Proceed, Admitted
<1>2. HolderTypes'
  BY <1>1, InvFacts, NextPermits DEF HolderTypes
<1>3. ASSUME NEW l \in Requests PROVE KeySound(l)'
  <2>1. OneHolder(l)'
    BY <1>1, InvFacts DEF OneHolder, Reserving
  <2>2. LookupSound(l)'
    BY InvFacts DEF LookupSound
  <2> QED  BY <2>1, <2>2 DEF KeySound
<1> QED  BY <1>2, <1>3, InvByKeyNext DEF KeysSound

\* The permit of k is given back, its holder forgets it, and waiting launches may be
\* given theirs; a lookup of k that had reserved it has returned.
LEMMA GivingBackKeeps ==
  ASSUME AdapterInv, NEW k \in Requests, S!Release(k), Proceed({}), k \notin calling,
         unresolved' = unresolved \ {k}, retained' = retained \ {k}, releases' = releases \ {k},
         lookup' = [lookup EXCEPT ![k] = Idle] \/ (lookup' = lookup /\ k \in releases),
         run' = run
  PROVE  AdapterInv'
<1>1. /\ P!SchedulerInv' /\ k \in active /\ k \notin active' /\ active \ {k} \subseteq active'
      /\ recovered' \subseteq recovered
  BY InvFacts, SchedulerSteps
<1>2. calling' = calling \cup (active' \ active)
  BY <1>1, InvFacts DEF Proceed, Admitted
<1>3. Idle \in Lookup /\ Idle.pc = "idle"
  BY DEF Idle, Lookup
<1>4. HolderTypes'
  BY <1>1, <1>2, <1>3, InvFacts, NextPermits DEF HolderTypes
<1>5. /\ \A l \in Requests \ {k} : lookup'[l] = lookup[l]
      /\ lookup'[k].pc = "idle" \/ (lookup'[k] = lookup[k] /\ k \in releases)
  BY <1>3, InvFacts DEF HolderTypes
<1>6. ASSUME NEW l \in Requests PROVE KeySound(l)'
  <2>1. CASE l = k
    <3>1. OneHolder(l)'
      BY <1>1, <1>2, <1>5, <2>1, InvFacts DEF OneHolder, Reserving
    <3>2. LookupSound(l)'
      BY <1>5, <2>1, InvFacts DEF LookupSound, OneHolder
    <3> QED  BY <3>1, <3>2 DEF KeySound
  <2>2. CASE l # k
    <3>1. OneHolder(l)'
      BY <1>1, <1>2, <1>5, <2>2, InvFacts DEF OneHolder, Reserving
    <3>2. LookupSound(l)'
      BY <1>5, <2>2, InvFacts DEF LookupSound
    <3> QED  BY <3>1, <3>2 DEF KeySound
  <2> QED  BY <2>1, <2>2
<1> QED  BY <1>1, <1>4, <1>6, InvByKeyNext DEF KeysSound

\* A permit is passed from one holder of k to another, and the scheduler rests: the
\* other keys are not concerned.
LEMMA HandoverKeeps ==
  ASSUME AdapterInv, NEW k \in Requests, UNCHANGED schedulerVars, HolderTypes', KeySound(k)',
         \A l \in Requests \ {k} : /\ l \in calling' <=> l \in calling
                                   /\ l \in unresolved' <=> l \in unresolved
                                   /\ l \in retained' <=> l \in retained
                                   /\ l \in releases' <=> l \in releases
                                   /\ lookup'[l] = lookup[l] /\ run'[l] = run[l]
  PROVE  AdapterInv'
<1>1. P!SchedulerInv' /\ active' = active
  BY InvFacts, SchedulerSteps DEF schedulerVars
<1>2. ASSUME NEW l \in Requests \ {k} PROVE KeySound(l)'
  BY <1>1, InvFacts DEF KeySound, OneHolder, Reserving, LookupSound
<1> QED  BY <1>1, <1>2, InvByKeyNext DEF KeysSound

\* The provider answers a launch, or the call fails.
LEMMA LaunchEndsKeeps ==
  ASSUME AdapterInv, NEW k \in Requests, LaunchReturns(k) \/ LaunchThrows(k)
  PROVE  AdapterInv'
<1>1. HolderTypes'
  BY InvFacts DEF LaunchReturns, LaunchThrows, HolderTypes
<1>2. UNCHANGED schedulerVars /\ active' = active
  BY DEF LaunchReturns, LaunchThrows, schedulerVars
<1>3. KeySound(k)'
  <2>1. OneHolder(k)'
    BY <1>2, InvFacts DEF LaunchReturns, LaunchThrows, OneHolder, Reserving
  <2>2. LookupSound(k)'
    BY InvFacts DEF LaunchReturns, LaunchThrows, LookupSound
  <2> QED  BY <2>1, <2>2 DEF KeySound
<1>4. \A l \in Requests \ {k} : /\ l \in calling' <=> l \in calling
                                /\ l \in unresolved' <=> l \in unresolved
                                /\ l \in retained' <=> l \in retained
                                /\ l \in releases' <=> l \in releases
                                /\ lookup'[l] = lookup[l] /\ run'[l] = run[l]
  BY DEF LaunchReturns, LaunchThrows
<1> QED  BY <1>1, <1>2, <1>3, <1>4, HandoverKeeps

\* A lookup begins; it reserves a permit if the key has none.
LEMMA FindKeeps ==
  ASSUME AdapterInv, NEW k \in Requests, Find(k)
  PROVE  AdapterInv'
<1> DEFINE seen == [pc |-> "find", launch |-> k \in unresolved, held |-> k \in releases,
                    recovery |-> k \notin unresolved \cup releases]
<1>1. /\ lookup[k].pc = "idle" /\ lookup' = [lookup EXCEPT ![k] = seen]
      /\ UNCHANGED <<calling, unresolved, retained, releases, run>>
      /\ IF seen.recovery /\ k \notin retained THEN S!AcquireExisting(k) ELSE UNCHANGED schedulerVars
  BY Zenon DEF Find, holderVars
<1>2. /\ seen.pc = "find"
      /\ seen.launch <=> k \in unresolved
      /\ seen.held <=> k \in releases
      /\ seen.recovery <=> k \notin unresolved /\ k \notin releases
  OBVIOUS
<1>3. seen \in Lookup
  BY DEF Lookup
<1> HIDE DEF seen
<1>4. HolderTypes' /\ lookup'[k] = seen /\ \A l \in Requests \ {k} : lookup'[l] = lookup[l]
  BY <1>1, <1>3, InvFacts DEF HolderTypes
<1>5. ~Reserving(k) /\ (Reserving(k)' <=> seen.recovery)
  BY <1>1, <1>2, <1>4 DEF Reserving
<1>6. LookupSound(k)'
  BY <1>1, <1>2, <1>4, InvFacts DEF LookupSound, OneHolder
<1>7. CASE seen.recovery /\ k \notin retained
  <2>1. P!SchedulerInv' /\ k \notin active /\ active' = active \cup {k}
    BY <1>1, <1>7, InvFacts, SchedulerSteps
  <2>2. OneHolder(k)'
    BY <1>1, <1>2, <1>5, <1>7, <2>1, InvFacts DEF OneHolder
  <2>3. ASSUME NEW l \in Requests \ {k} PROVE KeySound(l)'
    BY <1>1, <1>4, <2>1, InvFacts DEF KeySound, OneHolder, LookupSound, Reserving
  <2> QED  BY <1>4, <1>6, <2>1, <2>2, <2>3, InvByKeyNext DEF KeysSound, KeySound
<1>8. CASE ~(seen.recovery /\ k \notin retained)
  <2>1. UNCHANGED schedulerVars /\ active' = active
    BY <1>1, <1>8 DEF schedulerVars
  <2>2. OneHolder(k)'
    BY <1>1, <1>2, <1>5, <1>8, <2>1, InvFacts DEF OneHolder
  <2> QED  BY <1>1, <1>4, <1>6, <2>1, <2>2, HandoverKeeps DEF KeySound
<1> QED  BY <1>7, <1>8

\* A lookup fails, or its run is found; a permit it reserved goes to retained or
\* to the run.
LEMMA FoundKeeps ==
  ASSUME AdapterInv, NEW k \in Requests, FindThrows(k) \/ FindFound(k) \/ InspectOpen(k)
  PROVE  AdapterInv'
<1>1. Idle \in Lookup /\ Idle.pc = "idle"
  BY DEF Idle, Lookup
<1>2. lookup[k] \in Lookup /\ [lookup[k] EXCEPT !.pc = "inspect"] \in Lookup
  BY InvFacts DEF HolderTypes, Lookup
<1>3. UNCHANGED <<schedulerVars, calling, run>> /\ active' = active
  BY Zenon DEF FindThrows, FindFound, InspectOpen, schedulerVars, holderVars
<1>4. \/ lookup' = [lookup EXCEPT ![k] = Idle]
      \/ lookup' = [lookup EXCEPT ![k] = [lookup[k] EXCEPT !.pc = "inspect"]]
  BY <1>2, InvFacts DEF FindThrows, FindFound, InspectOpen, Return, HolderTypes
<1>5. [lookup[k] EXCEPT !.pc = "inspect"].pc = "inspect"
  BY <1>2 DEF Lookup
<1>6. \A l \in Requests \ {k} : lookup'[l] = lookup[l]
  BY <1>4, InvFacts DEF HolderTypes
<1>7. lookup'[k].pc # "find" /\ ~Reserving(k)'
  BY <1>1, <1>4, <1>5, InvFacts DEF HolderTypes, Reserving
<1>8. lookup' \in [Requests -> Lookup]
  BY <1>1, <1>2, <1>4, InvFacts DEF HolderTypes
<1>9. HolderTypes'
  BY <1>3, <1>8, InvFacts DEF FindThrows, FindFound, InspectOpen, HolderTypes, holderVars
<1>10. KeySound(k)'
  <2>1. OneHolder(k)'
    BY <1>3, <1>7, InvFacts DEF FindThrows, FindFound, InspectOpen, holderVars, OneHolder, LookupSound, Reserving
  <2>2. LookupSound(k)'
    BY <1>3, <1>7, InvFacts DEF FindThrows, FindFound, InspectOpen, holderVars, LookupSound
  <2> QED  BY <2>1, <2>2 DEF KeySound
<1>11. \A l \in Requests \ {k} : /\ l \in calling' <=> l \in calling
                                 /\ l \in unresolved' <=> l \in unresolved
                                 /\ l \in retained' <=> l \in retained
                                 /\ l \in releases' <=> l \in releases
                                 /\ lookup'[l] = lookup[l] /\ run'[l] = run[l]
  BY <1>3, <1>6 DEF FindThrows, FindFound, InspectOpen, holderVars
<1> QED  BY <1>3, <1>9, <1>10, <1>11, HandoverKeeps

\* The run is known not to exist: the permit, which the lookup saw or took, goes back.
LEMMA FindAbsentKeeps ==
  ASSUME AdapterInv, NEW k \in Requests, FindAbsent(k)
  PROVE  AdapterInv'
<1>1. /\ lookup[k].pc = "find" /\ run[k] = "none" /\ lookup' = [lookup EXCEPT ![k] = Idle]
      /\ lookup[k].launch \/ lookup[k].recovery \/ k \in releases => S!Release(k)
      /\ Proceed({}) /\ unresolved' = unresolved \ {k} /\ retained' = retained \ {k}
      /\ releases' = releases \ {k} /\ run' = run
  BY Zenon DEF FindAbsent, Return
<1>2. lookup[k].launch \/ lookup[k].recovery
  BY <1>1, InvFacts DEF LookupSound
<1>3. k \notin calling
  BY <1>1, <1>2, InvFacts DEF LookupSound, OneHolder, Reserving
<1> QED  BY <1>1, <1>2, <1>3, GivingBackKeeps

\* The run is known to have ended: its permit goes back, unless it did before.
LEMMA EndKeeps ==
  ASSUME AdapterInv, NEW k \in Requests, InspectEnded(k) \/ EndObserved(k)
  PROVE  AdapterInv'
<1>1. /\ release(k) /\ Proceed({}) /\ UNCHANGED <<unresolved, retained, run>>
      /\ \/ lookup' = [lookup EXCEPT ![k] = Idle] /\ lookup[k].pc = "inspect"
         \/ lookup' = lookup /\ k \in releases
  BY Zenon DEF InspectEnded, EndObserved, Return
<1>2. CASE k \in releases
  <2>1. S!Release(k) /\ releases' = releases \ {k}
    BY <1>1, <1>2 DEF release
  <2>2. unresolved' = unresolved \ {k} /\ retained' = retained \ {k} /\ k \notin calling
    BY <1>1, <1>2, InvFacts DEF OneHolder
  <2>3. lookup' = [lookup EXCEPT ![k] = Idle] \/ (lookup' = lookup /\ k \in releases)
    BY <1>1
  <2> QED  BY <1>1, <2>1, <2>2, <2>3, GivingBackKeeps
<1>3. CASE k \notin releases
  <2>1. /\ UNCHANGED schedulerVars /\ active' = active /\ recovered' = recovered /\ releases' = releases
        /\ lookup' = [lookup EXCEPT ![k] = Idle] /\ lookup[k].pc = "inspect"
    BY <1>1, <1>3 DEF release, schedulerVars
  <2>2. calling' = calling
    BY <1>1, <2>1 DEF Proceed, Admitted
  <2>3. Idle \in Lookup /\ Idle.pc = "idle"
    BY DEF Idle, Lookup
  <2>4. HolderTypes' /\ lookup'[k].pc = "idle" /\ \A l \in Requests \ {k} : lookup'[l] = lookup[l]
    BY <1>1, <2>1, <2>2, <2>3, InvFacts DEF HolderTypes
  <2>5. KeySound(k)'
    BY <1>1, <2>1, <2>2, <2>4, InvFacts DEF KeySound, OneHolder, LookupSound, Reserving
  <2> QED  BY <1>1, <2>1, <2>2, <2>4, <2>5, HandoverKeeps
<1> QED  BY <1>2, <1>3

\* The provider starts a run late, or a run ends.
LEMMA ProviderKeeps ==
  ASSUME AdapterInv, NEW k \in Requests, ProviderLaunches(k) \/ RunEnds(k)
  PROVE  AdapterInv'
<1>1. UNCHANGED <<schedulerVars, calling, unresolved, retained, releases, lookup>> /\ active' = active
  BY DEF ProviderLaunches, RunEnds, schedulerVars, holderVars
<1>2. /\ run' \in [Requests -> {"none", "live", "ended"}] /\ run'[k] # "none"
      /\ \A l \in Requests \ {k} : run'[l] = run[l]
  BY InvFacts DEF ProviderLaunches, RunEnds, HolderTypes
<1>3. HolderTypes'
  BY <1>1, <1>2, InvFacts DEF HolderTypes
<1>4. KeySound(k)'
  BY <1>1, <1>2, InvFacts DEF KeySound, OneHolder, LookupSound, Reserving
<1> QED  BY <1>1, <1>2, <1>3, <1>4, HandoverKeeps

\* The adapter starts with no permit given, whatever runs exist.
LEMMA InitIsSound == Init => AdapterInv
<1> SUFFICES ASSUME Init PROVE AdapterInv
  OBVIOUS
<1>1. P!SchedulerInv /\ active = {}
  BY SameSteps, SchedulerConstants, P!InitIsSound DEF Init, S!Init
<1>2. Idle \in Lookup /\ Idle.pc = "idle"
  BY DEF Idle, Lookup
<1>3. HolderTypes
  BY <1>2 DEF Init, HolderTypes
<1>4. KeysSound
  BY <1>1, <1>2 DEF Init, KeysSound, KeySound, OneHolder, Reserving, LookupSound
<1> QED  BY <1>1, <1>3, <1>4, InvByKey

\* Every step keeps the invariant.
LEMMA StepIsSound == AdapterInv /\ [Next]_vars => AdapterInv'
<1> SUFFICES ASSUME AdapterInv, [Next]_vars PROVE AdapterInv'
  OBVIOUS
<1>1. CASE UNCHANGED vars
  <2>1. UNCHANGED schedulerVars /\ UNCHANGED <<calling, unresolved, retained, releases, lookup, run>>
    BY <1>1 DEF vars, holderVars
  <2>2. active' = active /\ P!SchedulerInv'
    BY <2>1, InvFacts, SchedulerSteps DEF schedulerVars
  <2>3. HolderTypes' /\ KeysSound'
    BY <2>1, <2>2, InvFacts DEF HolderTypes, KeysSound, KeySound, OneHolder, LookupSound, Reserving
  <2> QED  BY <2>2, <2>3, InvByKeyNext
<1>2. CASE SchedulerStep
  <2>1. P!SchedulerInv' /\ active \subseteq active' /\ recovered' \subseteq recovered
    BY <1>2, InvFacts, SchedulerSteps DEF SchedulerStep
  <2> QED  BY <1>2, <2>1, AdmissionKeeps DEF SchedulerStep
<1>3. ASSUME NEW k \in Requests, KeyStep(k) PROVE AdapterInv'
  <2>1. CASE Launch(k)
    <3>1. P!SchedulerInv' /\ active \subseteq active' /\ recovered' \subseteq recovered
      BY <2>1, InvFacts, SchedulerSteps DEF Launch
    <3> QED  BY <2>1, <3>1, AdmissionKeeps DEF Launch
  <2> QED
    BY <1>3, <2>1, LaunchEndsKeeps, FindKeeps, FoundKeeps, FindAbsentKeeps, EndKeeps, ProviderKeeps
    DEF KeyStep, FindAnswers
<1> QED  BY <1>1, <1>2, <1>3 DEF Next

\* The invariant holds in every state the adapter can reach.
LEMMA AdapterInvariant == Spec => []AdapterInv
  BY InitIsSound, StepIsSound, PTL DEF Spec

\* Every variable keeps its type, and every permit has one holder that can give it
\* back, however launches, lookups and observations of one key overlap or fail: for
\* every number of keys, any scopes and every policy.
THEOREM PermitsAreAccountedFor == Spec => [](TypeOK /\ PermitHasOneHolder)
<1>1. AdapterInv => TypeOK /\ PermitHasOneHolder
  BY SchedulerSteps DEF AdapterInv, TypeOK, HolderTypes
<1> QED  BY <1>1, AdapterInvariant, PTL

\* A permit is given back by a lookup that found no run or by the observed end of the
\* run, and by nothing else: never while the run is live.
THEOREM PermitAlwaysOutlivesRun == Spec => PermitOutlivesRun
<1>1. ASSUME AdapterInv, [Next]_vars, NEW l \in active \ active' PROVE run[l] # "live"
  <2>1. UNCHANGED schedulerVars => FALSE
    BY <1>1 DEF schedulerVars
  <2>2. CASE SchedulerStep
    BY <1>1, <2>2, InvFacts, SchedulerSteps DEF SchedulerStep
  <2>3. CASE \E k \in Requests : KeyStep(k)
    <3>1. PICK k \in Requests : KeyStep(k)
      BY <2>3
    <3>2. S!Release(k) => l = k
      BY <1>1, InvFacts, SchedulerSteps
    <3>3. CASE Launch(k)
      BY <1>1, <3>3, InvFacts, SchedulerSteps DEF Launch
    <3>4. CASE Find(k)
      BY <1>1, <2>1, <3>4, InvFacts, SchedulerSteps, Zenon DEF Find
    <3>5. CASE FindAbsent(k)
      BY <2>1, <3>2, <3>5 DEF FindAbsent
    <3>6. CASE InspectEnded(k) \/ EndObserved(k)
      BY <2>1, <3>2, <3>6 DEF InspectEnded, EndObserved, release
    <3> QED
      BY <2>1, <3>1, <3>3, <3>4, <3>5, <3>6 DEF KeyStep, FindAnswers, LaunchReturns, LaunchThrows,
         FindThrows, FindFound, InspectOpen, ProviderLaunches, RunEnds
  <2>4. CASE UNCHANGED vars
    BY <2>1, <2>4 DEF vars
  <2> QED  BY <1>1, <2>2, <2>3, <2>4 DEF Next
<1>2. AdapterInv /\ [Next]_vars => [\A k \in active \ active' : run[k] # "live"]_vars
  BY <1>1
<1> QED  BY <1>2, AdapterInvariant, PTL DEF Spec, PermitOutlivesRun
=============================================================================
