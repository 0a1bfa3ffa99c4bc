----------------------------- MODULE Scheduler -----------------------------
(***************************************************************************)
(* ConcurrencyScheduler (src/src/concurrency-scheduler.ts): admission of   *)
(* requests in FIFO order under five limits, with pressure hooks, aborts   *)
(* and a wake-up timer.                                                    *)
(*                                                                         *)
(* The scheduler is one JavaScript object: a method runs to its end or to  *)
(* an await.  The only await is the pressure check of the head of the      *)
(* queue (`checking`); everything else may run meanwhile, and a drain that *)
(* is asked for meanwhile is dropped.  A request is one acquisition; two   *)
(* of them may carry the same admission ID.                                *)
(***************************************************************************)
EXTENDS Naturals, FiniteSets, SequencesExt

CONSTANTS Requests, NoRequest,
          Id,          \* the admission ID of each request
          Scope,       \* [Requests -> [ScopeKeys -> the value of that key]]
          Policies,    \* the policies a scheduler may be constructed with
          Abortable,   \* the requests that carry a signal
          Existing     \* the requests that account for a run found by recovery

\* Every request has the same "global" scope.
ScopeKeys == {"global", "host", "project", "agent", "workspace"}

ASSUME RequestsAssumption ==
    /\ IsFiniteSet(Requests) /\ NoRequest \notin Requests
    /\ Abortable \subseteq Requests /\ Existing \subseteq Requests
    /\ \A r, q \in Requests : Scope[r]["global"] = Scope[q]["global"]
ASSUME PolicyAssumption ==   \* the constructor's checks
    Policies \subseteq [limit: [ScopeKeys -> Nat \ {0}], maxQueued: Nat,
                        overload: {"queue", "reject"}, hooks: BOOLEAN]

VARIABLES policy,     \* limits, maxQueued, overload, and whether there are pressure hooks
          queue,      \* the pending requests
          active,     \* the requests that hold a permit
          recovered,  \* the permits that acquireExisting gave since drain last
                      \* compared the limits (history)
          checking,   \* the request whose pressure check drain awaits
          delayed,    \* requests whose pressureReadyAt lies ahead
          timer       \* whether wakeTimer is set

vars == <<policy, queue, active, recovered, checking, delayed, timer>>

Queued == {queue[i] : i \in DOMAIN queue}

TypeOK ==
    /\ policy \in Policies
    /\ queue \in Seq(Requests)
    /\ active \subseteq Requests /\ recovered \subseteq active
    /\ checking \in Requests \cup {NoRequest}
    /\ delayed \subseteq Queued
    /\ timer \in BOOLEAN

Init ==
    /\ policy \in Policies
    /\ queue = <<>> /\ active = {} /\ recovered = {}
    /\ checking = NoRequest /\ delayed = {} /\ timer = FALSE

-----------------------------------------------------------------------------
sharing(r, key, holders) == {a \in holders : Scope[a][key] = Scope[r][key]}

\* Mutant: a scope is full only when its limit is exceeded.
BlockedPastLimit(r, holders) ==
    {key \in ScopeKeys : Cardinality(sharing(r, key, holders)) > policy.limit[key]}

blockedBy(r, holders) ==
    {key \in ScopeKeys : Cardinality(sharing(r, key, holders)) >= policy.limit[key]}

\* How many requests at the head of q are admitted without an await.
Admissible(q, holders) ==
    CHOOSE n \in 0..Len(q) :
        /\ \A i \in 1..n : blockedBy(q[i], holders \cup {q[j] : j \in 1..(i - 1)}) = {}
        /\ n = Len(q) \/ blockedBy(q[n + 1], holders \cup {q[j] : j \in 1..n}) # {}

\* The loop of drain, from a queue, permits, delays and timer to its next
\* await or its return.  Without hooks it admits as many as it can.
DrainLoop(q, holders, wait, woken) ==
    LET n    == IF policy.hooks THEN 0 ELSE Admissible(q, holders)
        rest == SubSeq(q, n + 1, Len(q))
        now  == holders \cup {q[i] : i \in 1..n}
        open == rest # <<>> /\ blockedBy(Head(rest), now) = {}
    IN  /\ queue' = rest
        /\ active' = now
        /\ delayed' = wait
        /\ checking' = IF open /\ Head(rest) \notin wait THEN Head(rest) ELSE NoRequest
        /\ timer' = (woken \/ (open /\ Head(rest) \in wait))
        /\ recovered' = {}

\* drain: a call while another one awaits returns at once.
Drain(q, holders, wait, woken) ==
    IF checking = NoRequest THEN DrainLoop(q, holders, wait, woken)
    ELSE /\ queue' = q /\ active' = holders /\ delayed' = wait /\ timer' = woken
         /\ recovered' = recovered \cap holders /\ UNCHANGED checking

\* Admission IDs are unique among the active and the queued requests.
Unused(r) == r # checking /\ \A a \in active \cup Queued : Id[a] # Id[r]

\* acquire; a rejected request leaves no trace.
Acquire(r) ==
    LET full == queue # <<>> \/ blockedBy(r, active) # {}
    IN  /\ Unused(r)
        /\ ~(policy.overload = "reject" /\ full)
        /\ ~(Len(queue) >= policy.maxQueued /\ full)
        /\ Drain(Append(queue, r), active, delayed, timer)
        /\ UNCHANGED policy

\* acquireExisting: the run exists already, whatever the limits say.
AcquireExisting(r) ==
    /\ Unused(r)
    /\ active' = active \cup {r} /\ recovered' = recovered \cup {r}
    /\ UNCHANGED <<policy, queue, checking, delayed, timer>>

Release(r) ==
    /\ r \in active
    /\ Drain(queue, active \ {r}, delayed, timer)
    /\ UNCHANGED policy

\* Mutant: an abort clears the timer and wakes nobody up.
AbortQuietly(r) ==
    /\ r \in Abortable
    /\ \E i \in DOMAIN queue : queue[i] = r /\ queue' = RemoveAt(queue, i)
    /\ delayed' = delayed \ {r} /\ timer' = FALSE
    /\ UNCHANGED <<policy, active, checking, recovered>>

\* The signal of a queued request: the listener goes when it is admitted.
Abort(r) ==
    /\ r \in Abortable
    /\ \E i \in DOMAIN queue :
        queue[i] = r /\ Drain(RemoveAt(queue, i), active, delayed \ {r}, FALSE)
    /\ UNCHANGED policy

\* Mutant: what was checked is admitted, whether it is still the head or not.
CheckedAdmitted(ready) ==
    /\ checking # NoRequest
    /\ IF ready /\ queue # <<>> THEN DrainLoop(Tail(queue), active \cup {checking}, delayed, timer)
       ELSE DrainLoop(queue, active, delayed, timer)
    /\ UNCHANGED policy

\* The pressure check ends: the hooks answered, threw, timed out, or were
\* interrupted by an abort.  The limits are not compared again.
Checked(ready) ==
    LET head == queue # <<>> /\ Head(queue) = checking
    IN  /\ checking # NoRequest
        /\ IF ~head THEN DrainLoop(queue, active, delayed, timer)
           ELSE IF ready THEN DrainLoop(Tail(queue), active \cup {checking}, delayed, timer)
           ELSE IF policy.overload = "reject" \/ policy.maxQueued = 0
           THEN DrainLoop(Tail(queue), active, delayed, timer)
           ELSE /\ delayed' = delayed \cup {checking} /\ timer' = TRUE
                /\ checking' = NoRequest /\ UNCHANGED <<queue, active, recovered>>
        /\ UNCHANGED policy

\* The instant pressureReadyAt is reached.
Elapse(r) ==
    /\ r \in delayed /\ delayed' = delayed \ {r}
    /\ UNCHANGED <<policy, queue, active, recovered, checking, timer>>

\* The wake timer; its delay is bounded, so it may be early.
TimerFires ==
    /\ timer
    /\ Drain(queue, active, delayed, FALSE)
    /\ UNCHANGED policy

Next ==
    \/ \E r \in Requests \ Existing : Acquire(r)
    \/ \E r \in Existing : AcquireExisting(r)
    \/ \E r \in Requests : Release(r) \/ Abort(r) \/ Elapse(r)
    \/ \E ready \in BOOLEAN : Checked(ready)
    \/ TimerFires

Spec == Init /\ [][Next]_vars

-----------------------------------------------------------------------------
(* Safety.                                                                 *)

\* The permits that the comparison before a permit did not see: the runs
\* recovered while drain awaited the pressure check.
Unseen == IF checking = NoRequest THEN {} ELSE recovered

\* A permit that drain gives is within every limit, although the limits are
\* compared before the pressure check and the permit is given after it.  All
\* active requests count, recovered runs too; the one exception are the runs
\* recovered during that check, beside which the limits are exceeded.
LimitsHold ==
    [][\A r \in active' \ (active \cup recovered'), key \in ScopeKeys :
          Cardinality(sharing(r, key, active' \ Unseen)) <= policy.limit[key]]_vars

\* Permits are given in queue order: nobody who was queued before is left
\* behind, and no aborted request is admitted, whatever changed during the
\* pressure check.
NobodyIsOvertaken ==
    [][\A r \in active' \ (active \cup recovered') :
          /\ r \in Queued \/ queue = <<>>
          /\ \A i \in DOMAIN queue : (\A j \in 1..i : queue[j] # r) => queue[i] \notin Queued']_vars

-----------------------------------------------------------------------------
(* Liveness.                                                               *)

\* Permits are released, timers fire, and a pressure check ends (it has a
\* timeout); hooks that are asked about a request again and again are ready
\* some time.
Fairness ==
    /\ \A r \in Requests : WF_vars(Release(r)) /\ WF_vars(Elapse(r))
    /\ WF_vars(TimerFires) /\ WF_vars(\E ready \in BOOLEAN : Checked(ready))
    /\ \A r \in Requests : SF_vars(checking = r /\ Checked(TRUE))

FairSpec == Spec /\ Fairness

\* Every queued request leaves the queue: the head is never forgotten and, as
\* the order is kept, everyone becomes the head.
QueuedIsServed == \A r \in Requests : r \in Queued ~> r \notin Queued
=============================================================================
