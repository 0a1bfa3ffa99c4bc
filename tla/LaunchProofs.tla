---------------------------- MODULE LaunchProofs ----------------------------
(***************************************************************************)
(* Proofs about Launch, for every finite set of sessions and any number of *)
(* servers, batch keys and crashes.                                        *)
(*                                                                         *)
(* The dispatch lock gives each assignment that is neither settled nor     *)
(* unaccepted at most one server that may advance it, and that server      *)
(* knows its durable status: `accepted` until the intent is written,       *)
(* `launching` from then on until it records the outcome.  A request is    *)
(* sent only in the second phase.                                          *)
(***************************************************************************)
EXTENDS Launch, FiniteSetTheorems, SequenceTheorems, TLAPS

\* The places of a pass that visits no assignment, has not written the intent of
\* the one it visits, and has written it.
Between == {"off", "list", "next"}
Early == {"authorize", "reserve", "refuse"}
Late == {"find", "launch", "wait", "lookup", "bind", "fail"}

\* What a pass knows of the assignment it visits.
PassSound(v) ==
    /\ pass[v].pc \in Between <=> pass[v].current = NoSession
    /\ pass[v].pc \in Early =>
         /\ pass[v].pc # "authorize" => ~pass[v].recovering
         /\ launch[pass[v].current] = IF pass[v].recovering THEN "launching" ELSE "accepted"
    /\ pass[v].pc \in Late => launch[pass[v].current] = "launching"

\* The dispatch lock: two servers visit different assignments.
LockSound ==
    \A u, v \in Servers : pass[u].current = pass[v].current /\ u # v => pass[u].current = NoSession

\* A server that is down has no pass, no timer and no calls; the timer is set, and
\* retries a pass, only while the server is up.
ServerSound(v) ==
    /\ up[v] = "down" => pass[v].pc = "off"
    /\ up[v] \in {"down", "starting"} => submit[v] = {} /\ ~pass[v].retry
    /\ pass[v].pc = "off" => ~pass[v].retry
    /\ up[v] # "up" => v \notin timer

\* A record and the status of its assignment.
RecordSound(s) ==
    /\ worker[s].status \in {"requested", "canceling", "canceled", "failed"}
    /\ isTerminal(worker[s]) => worker[s].stopReason \in StopReasonsByStatus(worker[s].status)
    /\ worker[s].runId = IF launch[s] = "launched" THEN s ELSE NoRun
    /\ launch[s] = "failed" => isTerminal(worker[s])
    /\ worker[s].status = "canceling" => "cancelPending" \in worker[s].flags
    /\ worker[s].flags \cap {"cancelClaimed", "cancelDelivered"} = {}
    /\ worker[s].status = "canceled" /\ launch[s] # "launched" => launch[s] # "launching"
    /\ batch[s] = None <=> launch[s] = None

\* The inductive invariant.
LaunchInv ==
    /\ TypeOK /\ WriteAhead /\ CanceledNeverRuns /\ BoundRunIsStopped
    /\ LockSound
    /\ \A v \in Servers : PassSound(v) /\ ServerSound(v)
    /\ \A s \in Sessions : RecordSound(s)

-----------------------------------------------------------------------------
(* The invariant, session by session and server by server.                 *)

\* Everything the invariant says of one session.
SessionSound(s) ==
    /\ RecordSound(s)
    /\ s \in inflight \cup runs => launch[s] \in {"launching", "launched", "failed"}
    /\ worker[s].status = "canceled" /\ ~isBound(worker[s]) => s \notin inflight \cup runs
    /\ isBound(worker[s]) =>
        /\ worker[s].status = "canceling" => "cancelPending" \in worker[s].flags
        /\ isTerminal(worker[s]) => {"stopPending", "reconcilePending"} \subseteq worker[s].flags

\* Everything it says of the passes, and of the sessions.
PassesSound == LockSound /\ \A v \in Servers : PassSound(v) /\ ServerSound(v)
SessionsSound == \A s \in Sessions : SessionSound(s)

\* The invariant in these parts.
LEMMA InvInParts == LaunchInv <=> TypeOK /\ PassesSound /\ SessionsSound
<1>1. TypeOK => inflight \subseteq Sessions /\ runs \subseteq Sessions
  BY DEF TypeOK
<1>2. ASSUME LaunchInv PROVE TypeOK /\ PassesSound /\ SessionsSound
  BY <1>1, <1>2 DEF LaunchInv, PassesSound, SessionsSound, SessionSound, WriteAhead, CanceledNeverRuns,
     BoundRunIsStopped
<1>3. ASSUME TypeOK, PassesSound, SessionsSound PROVE LaunchInv
  BY <1>1, <1>3 DEF LaunchInv, PassesSound, SessionsSound, SessionSound, WriteAhead, CanceledNeverRuns,
     BoundRunIsStopped
<1> QED  BY <1>2, <1>3

\* The same after a step.
LEMMA InvInPartsNext == LaunchInv' <=> TypeOK' /\ PassesSound' /\ SessionsSound'
  BY InvInParts, PTL

\* The types of the passes and of the records.
LEMMA Types ==
  ASSUME LaunchInv
  PROVE  /\ worker \in [Sessions -> Worker] /\ launch \in [Sessions -> AssignmentStatuses]
         /\ order \in Seq(Sessions) /\ batch \in [Sessions -> Sessions \cup BatchKeys \cup {None}]
         /\ up \in [Servers -> {"down", "starting", "up", "stopping"}] /\ pass \in [Servers -> Pass]
         /\ timer \subseteq Servers /\ submit \in [Servers -> SUBSET {"launch", "tool"}]
         /\ inflight \subseteq Sessions /\ runs \subseteq Sessions /\ crashes \in 0..MaxCrashes
  BY DEF LaunchInv, TypeOK

\* A server that visits an assignment visits one of the sessions.
LEMMA Visiting ==
  ASSUME LaunchInv, NEW v \in Servers, pass[v].pc \notin Between
  PROVE  pass[v].current \in Sessions
<1>1. pass[v] \in Pass /\ pass[v].current # NoSession
  BY Types DEF LaunchInv, PassSound
<1> QED  BY <1>1 DEF Pass

\* The places of a pass.
Places == Between \cup Early \cup Late

\* Go moves the pass of v, and nothing else of it.
LEMMA GoMoves ==
  ASSUME pass \in [Servers -> Pass], NEW v \in Servers, NEW pc \in Places, Go(v, pc)
  PROVE  /\ pass' \in [Servers -> Pass] /\ \A u \in Servers \ {v} : pass'[u] = pass[u]
         /\ pass'[v].pc = pc /\ pass'[v].current = pass[v].current
         /\ pass'[v].recovering = pass[v].recovering /\ pass'[v].retry = pass[v].retry
<1> DEFINE p == [pass[v] EXCEPT !.pc = pc]
<1>1. p \in Pass /\ p.pc = pc /\ p.current = pass[v].current /\ p.recovering = pass[v].recovering
      /\ p.retry = pass[v].retry
  BY DEF Pass, Places, Between, Early, Late
<1>2. pass' = [pass EXCEPT ![v] = p]
  BY DEF Go
<1> HIDE DEF p
<1> QED  BY <1>1, <1>2

\* An error of the adapter leads to a lookup.
LEMMA ThrewMoves ==
  ASSUME pass \in [Servers -> Pass], NEW v \in Servers, NEW error \in Errors, Threw(v, error)
  PROVE  /\ pass' \in [Servers -> Pass] /\ \A u \in Servers \ {v} : pass'[u] = pass[u]
         /\ pass'[v].pc = "lookup" /\ pass'[v].current = pass[v].current
         /\ pass'[v].recovering = pass[v].recovering /\ pass'[v].retry = pass[v].retry
<1> DEFINE p == [pass[v] EXCEPT !.pc = "lookup", !.error = error]
<1>1. p \in Pass /\ p.pc = "lookup" /\ p.current = pass[v].current /\ p.recovering = pass[v].recovering
      /\ p.retry = pass[v].retry
  BY DEF Pass
<1>2. pass' = [pass EXCEPT ![v] = p]
  BY DEF Threw
<1> HIDE DEF p
<1> QED  BY <1>1, <1>2

\* The end of a dispatch leaves the assignment, and its lock.
LEMMA LeaveMoves ==
  ASSUME pass \in [Servers -> Pass], NEW v \in Servers, NEW threw \in BOOLEAN, Leave(v, threw)
  PROVE  /\ pass' \in [Servers -> Pass] /\ \A u \in Servers \ {v} : pass'[u] = pass[u]
         /\ pass'[v].pc = "next" /\ pass'[v].current = NoSession /\ pass'[v].retry = pass[v].retry
<1> DEFINE failed == pass[v].failed \/ threw
           p == [pass[v] EXCEPT !.pc = "next", !.current = NoSession, !.recovering = FALSE,
                                !.error = None, !.failed = failed]
<1>1. failed \in BOOLEAN
  BY Zenon
<1>2. pass' = [pass EXCEPT ![v] = p]
  BY Zenon DEF Leave
<1> HIDE DEF failed
<1>3. p \in Pass /\ p.pc = "next" /\ p.current = NoSession /\ p.retry = pass[v].retry
  BY <1>1 DEF Pass
<1> HIDE DEF p
<1> QED  BY <1>2, <1>3

\* A server that visits no assignment stays sound whatever the others do.
LEMMA BetweenSound ==
  ASSUME NEW v, pass'[v].pc \in Between, pass'[v].current = NoSession
  PROVE  PassSound(v)'
  BY DEF PassSound, Between, Early, Late

\* Server v moves on; the assignments its pass does not visit keep their status
\* unless they are new; it visits none that another server visits.
LEMMA PassesKeep ==
  ASSUME LaunchInv, NEW v \in Servers, pass' \in [Servers -> Pass],
         \A u \in Servers \ {v} : /\ pass'[u] = pass[u] /\ up'[u] = up[u] /\ submit'[u] = submit[u]
                                  /\ u \in timer' <=> u \in timer,
         PassSound(v)', ServerSound(v)',
         \/ pass'[v].current \in {NoSession, pass[v].current}
         \/ \A u \in Servers \ {v} : pass[u].current # pass'[v].current,
         \A s \in Sessions : s = pass[v].current \/ launch[s] = None \/ launch'[s] = launch[s]
  PROVE  PassesSound'
<1>1. LockSound'
  BY DEF LaunchInv, LockSound
<1>2. ASSUME NEW u \in Servers \ {v} PROVE PassSound(u)'
  <2>1. pass'[u] = pass[u] /\ PassSound(u) /\ pass[u] \in Pass
    BY Types DEF LaunchInv
  <2>2. CASE pass[u].pc \in Between
    BY <2>1, <2>2, BetweenSound DEF PassSound
  <2>3. CASE pass[u].pc \notin Between
    <3>1. pass[u].current \in Sessions /\ pass[u].current # pass[v].current
      BY <2>3, Visiting, LaunchAssumption DEF LaunchInv, LockSound
    <3>2. launch[pass[u].current] # None => launch'[pass[u].current] = launch[pass[u].current]
      BY <3>1
    <3>3. pass[u].pc \in Early \cup Late
      BY <2>1, <2>3 DEF Pass, Between, Early, Late
    <3>4. launch[pass[u].current] \in {"accepted", "launching"}
      BY <2>1, <3>3 DEF PassSound
    <3>5. launch'[pass[u].current] = launch[pass[u].current]
      BY <3>2, <3>4 DEF None
    <3> QED  BY <2>1, <3>5 DEF PassSound
  <2> QED  BY <2>2, <2>3
<1>3. ASSUME NEW u \in Servers \ {v} PROVE ServerSound(u)'
  BY DEF LaunchInv, ServerSound
<1> QED  BY <1>1, <1>2, <1>3 DEF PassesSound

\* A session whose record and assignment do not change, and for which no new request
\* or run appears, stays sound.
LEMMA SessionKeeps ==
  ASSUME NEW s \in Sessions, SessionSound(s), worker'[s] = worker[s], launch'[s] = launch[s],
         batch'[s] = batch[s], s \in inflight' \cup runs' => s \in inflight \cup runs
  PROVE  SessionSound(s)'
<1>1. RecordSound(s)'
  BY DEF SessionSound, RecordSound, isTerminal, StopReasonsByStatus
<1> QED  BY <1>1 DEF SessionSound, isTerminal, isBound

-----------------------------------------------------------------------------
(* Steps that leave the state file and the provider alone.                 *)

\* A step of v that moves at most its pass.
LEMMA QuietKeeps ==
  ASSUME LaunchInv, NEW v \in Servers, UNCHANGED <<durable, provider>>,
         up' \in [Servers -> {"down", "starting", "up", "stopping"}], timer' \subseteq Servers,
         submit' \in [Servers -> SUBSET {"launch", "tool"}], crashes' \in 0..MaxCrashes,
         pass' \in [Servers -> Pass],
         \A u \in Servers \ {v} : /\ pass'[u] = pass[u] /\ up'[u] = up[u] /\ submit'[u] = submit[u]
                                  /\ u \in timer' <=> u \in timer,
         PassSound(v)', ServerSound(v)',
         \/ pass'[v].current \in {NoSession, pass[v].current}
         \/ \A u \in Servers \ {v} : pass[u].current # pass'[v].current
  PROVE  LaunchInv'
<1>1. UNCHANGED <<worker, launch, order, batch, inflight, runs>>
  BY DEF durable, accepted, provider
<1>2. TypeOK'
  BY <1>1, Types DEF TypeOK
<1>3. PassesSound'
  BY <1>1, PassesKeep
<1>4. SessionsSound'
  <2>1. ASSUME NEW s \in Sessions PROVE SessionSound(s)'
    BY <1>1, InvInParts, SessionKeeps DEF SessionsSound
  <2> QED  BY <2>1 DEF SessionsSound
<1> QED  BY <1>2, <1>3, <1>4, InvInPartsNext

\* The timers, submissions and the life of the servers, between two passes or beside one.
LEMMA ServerKeeps ==
  ASSUME LaunchInv, NEW v \in Servers, ScheduleDispatch(v) \/ Stop(v) \/ Exit(v)
  PROVE  LaunchInv'
<1>1. UNCHANGED <<durable, provider>> /\ pass' = pass
  BY DEF ScheduleDispatch, Stop, Exit
<1>2. /\ up' \in [Servers -> {"down", "starting", "up", "stopping"}] /\ timer' \subseteq Servers
      /\ submit' \in [Servers -> SUBSET {"launch", "tool"}]
      /\ \A u \in Servers \ {v} : up'[u] = up[u] /\ submit'[u] = submit[u] /\ (u \in timer' <=> u \in timer)
  BY Types DEF ScheduleDispatch, Stop, Exit
<1>3. crashes' \in 0..MaxCrashes
  BY Types, LaunchAssumption DEF ScheduleDispatch, Stop, Exit
<1>4. PassSound(v)'
  BY <1>1 DEF LaunchInv, PassSound, durable
<1>5. ServerSound(v)'
  <2>1. pass[v] \in Pass /\ ServerSound(v) /\ pass' = pass
    BY <1>1, Types DEF LaunchInv
  <2>2. CASE ScheduleDispatch(v)
    BY <2>1, <2>2, Types DEF ScheduleDispatch, ServerSound
  <2>3. CASE Stop(v)
    BY <2>1, <2>3, Types DEF Stop, ServerSound
  <2>4. CASE Exit(v)
    BY <2>1, <2>4, Types DEF Exit, At, ServerSound
  <2> QED  BY <2>2, <2>3, <2>4
<1> QED  BY <1>1, <1>2, <1>3, <1>4, <1>5, Types, QuietKeeps

\* A pass is off, or between two assignments, and moves on there.
LEMMA BetweenKeeps ==
  ASSUME LaunchInv, NEW v \in Servers,
         ToolDispatches(v) \/ TimerFires(v) \/ List(v) \/ PassEnds(v) \/ LockFails(v) \/ Crash(v) \/ Start(v)
  PROVE  LaunchInv'
<1>1. UNCHANGED <<durable, provider>> /\ launch' = launch
  BY DEF ToolDispatches, TimerFires, List, PassEnds, LockFails, Crash, Start, durable
<1>2. /\ up' \in [Servers -> {"down", "starting", "up", "stopping"}] /\ timer' \subseteq Servers
      /\ submit' \in [Servers -> SUBSET {"launch", "tool"}]
      /\ \A u \in Servers \ {v} : up'[u] = up[u] /\ submit'[u] = submit[u] /\ (u \in timer' <=> u \in timer)
  <2>1. CASE ToolDispatches(v) \/ TimerFires(v)
    BY <2>1, Types DEF ToolDispatches, TimerFires
  <2>2. CASE List(v) \/ LockFails(v)
    BY <2>2, Types DEF List, LockFails
  <2>3. CASE PassEnds(v)
    BY <2>3, Types DEF PassEnds
  <2>4. CASE Crash(v) \/ Start(v)
    BY <2>4, Types DEF Crash, Start
  <2> QED  BY <2>1, <2>2, <2>3, <2>4
<1>3. crashes' \in 0..MaxCrashes
  <2>1. CASE Crash(v)
    BY <2>1, Types, LaunchAssumption DEF Crash
  <2>2. CASE ~Crash(v)
    BY <2>2, Types DEF ToolDispatches, TimerFires, List, PassEnds, LockFails, Start
  <2> QED  BY <2>1, <2>2
<1>4. pass[v] \in Pass /\ PassSound(v) /\ ServerSound(v) /\ up[v] \in {"down", "starting", "up", "stopping"}
  BY Types DEF LaunchInv
<1>5. ASSUME pass' = pass, ServerSound(v)' PROVE LaunchInv'
  BY <1>1, <1>2, <1>3, <1>4, <1>5, Types, QuietKeeps DEF PassSound
<1>6. ASSUME NEW p \in Pass, pass' = [pass EXCEPT ![v] = p], p.current = pass[v].current, p.pc = pass[v].pc,
             p.recovering = pass[v].recovering, ServerSound(v)'
      PROVE  LaunchInv'
  <2>1. /\ pass' \in [Servers -> Pass] /\ pass'[v] = p /\ \A u \in Servers \ {v} : pass'[u] = pass[u]
    BY <1>6, Types
  <2>2. PassSound(v)'
    BY <1>1, <1>4, <1>6, <2>1 DEF PassSound
  <2> QED  BY <1>1, <1>2, <1>3, <1>6, <2>1, <2>2, QuietKeeps
<1>7. ASSUME NEW p \in Pass, pass' = [pass EXCEPT ![v] = p], p.pc \in Between, p.current = NoSession,
             ServerSound(v)'
      PROVE  LaunchInv'
  <2>1. /\ pass' \in [Servers -> Pass] /\ pass'[v] = p /\ \A u \in Servers \ {v} : pass'[u] = pass[u]
    BY <1>7, Types
  <2> QED  BY <1>1, <1>2, <1>3, <1>7, <2>1, BetweenSound, QuietKeeps
<1>8. CASE ToolDispatches(v)
  <2> DEFINE p == [pass[v] EXCEPT !.pc = "list"]
  <2>1. CASE ~At(v, "off")
    <3>1. pass' = pass
      BY <1>8, <2>1 DEF ToolDispatches
    <3>2. ServerSound(v)'
      BY <1>4, <1>8, <3>1, Types DEF ToolDispatches, ServerSound
    <3> QED  BY <1>5, <3>1, <3>2
  <2>2. CASE At(v, "off")
    <3>1. pass' = [pass EXCEPT ![v] = p]
      BY <1>8, <2>2 DEF ToolDispatches
    <3>2. p \in Pass /\ p.pc = "list" /\ p.current = NoSession /\ p.retry = pass[v].retry
      BY <1>4, <2>2 DEF Pass, Between, PassSound, At
    <3> HIDE DEF p
    <3>3. ServerSound(v)'
      BY <1>4, <1>8, <3>1, <3>2, Types DEF ToolDispatches, ServerSound
    <3> QED  BY <1>7, <3>1, <3>2, <3>3 DEF Between
  <2> QED  BY <2>1, <2>2
<1>9. CASE Start(v)
  <2> DEFINE p == [pass[v] EXCEPT !.pc = "list"]
  <2>1. pass' = [pass EXCEPT ![v] = p] /\ pass[v].pc = "off"
    BY <1>4, <1>9 DEF Start, Go, ServerSound
  <2>2. p \in Pass /\ p.pc = "list" /\ p.current = NoSession /\ p.retry = pass[v].retry
    BY <1>4, <2>1 DEF Pass, Between, PassSound
  <2> HIDE DEF p
  <2>3. ServerSound(v)'
    BY <1>4, <1>9, <2>1, <2>2, Types DEF Start, ServerSound
  <2> QED  BY <1>7, <2>1, <2>2, <2>3 DEF Between
<1>10. CASE TimerFires(v)
  <2> DEFINE pc == IF At(v, "off") THEN "list" ELSE pass[v].pc
             p == [pass[v] EXCEPT !.pc = pc, !.retry = TRUE]
  <2>1. pass' = [pass EXCEPT ![v] = p]
    BY <1>10 DEF TimerFires
  <2>2. pc \in Places
    BY <1>4 DEF Pass, Places, Between, Early, Late
  <2>3. pc # "off" /\ (pc = pass[v].pc \/ (pc = "list" /\ pass[v].pc = "off"))
    BY DEF At
  <2> HIDE DEF pc
  <2>4. /\ p \in Pass /\ p.pc = pc /\ p.current = pass[v].current /\ p.recovering = pass[v].recovering
    BY <1>4, <2>2 DEF Pass, Places, Between, Early, Late
  <2> HIDE DEF p
  <2>5. ServerSound(v)'
    BY <1>4, <1>10, <2>1, <2>3, <2>4, Types DEF TimerFires, ServerSound
  <2> QED  BY <1>4, <1>6, <1>7, <2>1, <2>3, <2>4, <2>5 DEF Between, PassSound
<1>11. CASE List(v)
  <2> DEFINE todo == {s \in Sessions : pendingAssignment(s)}
             p == [pass[v] EXCEPT !.pc = "next", !.todo = todo]
  <2>1. pass' = [pass EXCEPT ![v] = p] /\ pass[v].pc = "list"
    BY <1>11 DEF List, At
  <2>2. todo \in SUBSET Sessions
    OBVIOUS
  <2> HIDE DEF todo
  <2>3. p \in Pass /\ p.pc = "next" /\ p.current = NoSession /\ p.retry = pass[v].retry
    BY <1>4, <2>1, <2>2 DEF Pass, Between, PassSound
  <2> HIDE DEF p
  <2>4. ServerSound(v)'
    BY <1>4, <1>11, <2>1, <2>3, Types DEF List, ServerSound
  <2> QED  BY <1>7, <2>1, <2>3, <2>4 DEF Between
<1>12. CASE LockFails(v)
  <2>1. PICK s \in pass[v].todo : pass' = [pass EXCEPT ![v].todo = @ \ {s}, ![v].failed = TRUE]
    BY <1>12 DEF LockFails
  <2> DEFINE p == [pass[v] EXCEPT !.todo = pass[v].todo \ {s}, !.failed = TRUE]
  <2>2. pass' = [pass EXCEPT ![v] = p]
    BY <2>1
  <2>3. /\ p \in Pass /\ p.pc = pass[v].pc /\ p.current = pass[v].current
        /\ p.recovering = pass[v].recovering /\ p.retry = pass[v].retry
    BY <1>4 DEF Pass
  <2> HIDE DEF p
  <2>4. ServerSound(v)'
    BY <1>4, <1>12, <2>2, <2>3, Types DEF LockFails, ServerSound
  <2> QED  BY <1>6, <2>2, <2>3, <2>4
<1>13. CASE PassEnds(v) \/ Crash(v)
  <2>1. pass' = [pass EXCEPT ![v] = Off]
    BY <1>13 DEF PassEnds, Crash
  <2>2. Off \in Pass /\ Off.pc = "off" /\ Off.current = NoSession /\ Off.retry = FALSE
    BY DEF Off, Pass
  <2>3. CASE PassEnds(v)
    <3>1. pass[v].pc = "next" /\ up[v] # "down"
      BY <1>4, <2>3 DEF PassEnds, At, ServerSound
    <3>2. ServerSound(v)'
      BY <1>4, <2>1, <2>2, <2>3, <3>1, Types DEF PassEnds, ServerSound
    <3> QED  BY <1>7, <2>1, <2>2, <3>2 DEF Between
  <2>4. CASE Crash(v)
    <3>1. ServerSound(v)'
      BY <1>4, <2>1, <2>2, <2>4, Types DEF Crash, ServerSound
    <3> QED  BY <1>7, <2>1, <2>2, <3>1 DEF Between
  <2> QED  BY <1>13, <2>3, <2>4
<1> QED  BY <1>8, <1>9, <1>10, <1>11, <1>12, <1>13

-----------------------------------------------------------------------------
(* dispatch: the steps of a server that visits an assignment.              *)

\* The pass of v moves on; what is left to show concerns its assignment.
LEMMA VisitKeeps ==
  ASSUME LaunchInv, NEW v \in Servers, UNCHANGED <<up, timer, submit, crashes>>,
         pass[v].pc # "off", pass'[v].pc # "off", pass'[v].retry = pass[v].retry,
         pass' \in [Servers -> Pass], \A u \in Servers \ {v} : pass'[u] = pass[u],
         PassSound(v)',
         \/ pass'[v].current \in {NoSession, pass[v].current}
         \/ \A u \in Servers \ {v} : pass[u].current # pass'[v].current,
         \A s \in Sessions : s = pass[v].current \/ launch[s] = None \/ launch'[s] = launch[s],
         worker' \in [Sessions -> Worker], launch' \in [Sessions -> AssignmentStatuses],
         inflight' \subseteq Sessions, UNCHANGED <<accepted, runs>>,
         \A s \in Sessions : SessionSound(s)'
  PROVE  LaunchInv'
<1>1. ServerSound(v)'
  BY DEF LaunchInv, ServerSound
<1>2. PassesSound'
  BY <1>1, PassesKeep
<1>3. TypeOK'
  BY Types DEF TypeOK, accepted
<1> QED  BY <1>2, <1>3, InvInPartsNext DEF SessionsSound

\* A visiting step that leaves the state file and the runs alone, and makes no
\* request but for an assignment whose intent is written.
LEMMA AwaitKeeps ==
  ASSUME LaunchInv, NEW v \in Servers, UNCHANGED <<durable, up, timer, submit, runs, crashes>>,
         pass[v].pc # "off", pass'[v].pc # "off", pass'[v].retry = pass[v].retry,
         pass' \in [Servers -> Pass], \A u \in Servers \ {v} : pass'[u] = pass[u],
         PassSound(v)',
         \/ pass'[v].current \in {NoSession, pass[v].current}
         \/ \A u \in Servers \ {v} : pass[u].current # pass'[v].current,
         \/ inflight' \subseteq inflight
         \/ pass[v].pc = "launch" /\ inflight' = inflight \cup {pass[v].current}
  PROVE  LaunchInv'
<1>1. UNCHANGED <<worker, launch, order, batch, accepted>>
  BY DEF durable, accepted
<1>2. ASSUME NEW s \in Sessions PROVE SessionSound(s)'
  <2>1. SessionSound(s)
    BY InvInParts DEF SessionsSound
  <2>2. CASE s \in inflight' => s \in inflight
    BY <1>1, <2>1, <2>2, SessionKeeps
  <2>3. CASE pass[v].pc = "launch" /\ s = pass[v].current
    <3>1. launch[s] = "launching"
      BY <2>3 DEF LaunchInv, PassSound, Late
    <3>2. RecordSound(s) /\ RecordSound(s)'
      BY <1>1, <2>1 DEF SessionSound, RecordSound, isTerminal, StopReasonsByStatus
    <3> QED  BY <1>1, <2>1, <3>1, <3>2 DEF SessionSound, RecordSound, isTerminal, isBound
  <2> QED  BY <2>2, <2>3
<1>3. inflight' \subseteq Sessions
  <2>1. pass[v].pc = "launch" => pass[v].current \in Sessions
    BY Visiting DEF Between
  <2> QED  BY <2>1, Types
<1>4. \A s \in Sessions : launch'[s] = launch[s]
  BY <1>1
<1> QED  BY <1>1, <1>2, <1>3, <1>4, Types, VisitKeeps

\* The assignment is visited if it is pending and nobody else visits it.
LEMMA DispatchKeeps ==
  ASSUME LaunchInv, NEW v \in Servers, Dispatch(v)
  PROVE  LaunchInv'
<1>1. PICK s \in pass[v].todo :
        LET pending == launch[s] \in {"accepted", "launching"}
        IN  /\ At(v, "next") /\ ~LockedByOther(v, s)
            /\ pass' = [pass EXCEPT ![v].todo = @ \ {s},
                                    ![v].pc = IF pending THEN "authorize" ELSE @,
                                    ![v].current = IF pending THEN s ELSE @,
                                    ![v].recovering = launch[s] = "launching"]
            /\ UNCHANGED <<durable, up, timer, submit, provider, crashes>>
  BY Zenon DEF Dispatch
<1>2. pass[v] \in Pass /\ PassSound(v) /\ pass[v].pc = "next" /\ pass[v].current = NoSession
  BY <1>1, Types DEF LaunchInv, At, PassSound, Between
<1>3. s \in Sessions
  BY <1>2 DEF Pass
<1> DEFINE pending == launch[s] \in {"accepted", "launching"}
           pc == IF pending THEN "authorize" ELSE "next"
           current == IF pending THEN s ELSE NoSession
           recovering == launch[s] = "launching"
           p == [pass[v] EXCEPT !.todo = pass[v].todo \ {s}, !.pc = pc, !.current = current,
                                !.recovering = recovering]
<1>4. pass' = [pass EXCEPT ![v] = p]
  BY <1>1, <1>2
<1>5. recovering \in BOOLEAN /\ (recovering <=> launch[s] = "launching")
  BY Zenon
<1>6. \/ pending /\ pc = "authorize" /\ current = s
      \/ ~pending /\ pc = "next" /\ current = NoSession
  OBVIOUS
<1> HIDE DEF recovering, pc, current
<1>7. /\ p \in Pass /\ p.pc = pc /\ p.current = current /\ p.recovering = recovering
      /\ p.retry = pass[v].retry
  BY <1>2, <1>3, <1>5, <1>6 DEF Pass
<1> HIDE DEF p
<1>8. /\ pass' \in [Servers -> Pass] /\ pass'[v] = p /\ \A u \in Servers \ {v} : pass'[u] = pass[u]
  BY <1>4, <1>7, Types
<1>9. PassSound(v)'
  <2>1. CASE pending
    <3>1. launch' = launch
      BY <1>1 DEF durable
    <3> QED  BY <1>3, <1>5, <1>6, <1>7, <1>8, <2>1, <3>1, LaunchAssumption DEF PassSound, Between, Early, Late
  <2>2. CASE ~pending
    BY <1>6, <1>7, <1>8, <2>2, BetweenSound DEF Between
  <2> QED  BY <2>1, <2>2
<1>10. \/ p.current \in {NoSession, pass[v].current}
       \/ \A u \in Servers \ {v} : pass[u].current # p.current
  BY <1>1, <1>6, <1>7 DEF LockedByOther
<1>11. p.pc # "off" /\ UNCHANGED <<durable, up, timer, submit, runs, crashes>> /\ inflight' = inflight
  BY <1>1, <1>6, <1>7 DEF provider
<1> QED  BY <1>2, <1>7, <1>8, <1>9, <1>10, <1>11, AwaitKeeps

\* The pass stays with its assignment, at a place that its status allows, or leaves it.
LEMMA StaySound ==
  ASSUME LaunchInv, NEW v \in Servers, launch' = launch, pass' \in [Servers -> Pass],
         pass[v].pc \in Early \cup Late,
         \/ pass'[v].pc \in Between /\ pass'[v].current = NoSession
         \/ /\ pass'[v].current = pass[v].current /\ pass'[v].recovering = pass[v].recovering
            /\ \/ pass'[v].pc \in Late /\ (pass[v].pc \in Late \/ pass[v].recovering)
               \/ pass'[v].pc \in {"reserve", "refuse"} /\ pass[v].pc = "authorize" /\ ~pass[v].recovering
  PROVE  PassSound(v)'
<1>1. PassSound(v) /\ pass[v].current # NoSession
  BY DEF LaunchInv, PassSound, Between, Early, Late
<1>2. CASE pass'[v].pc \in Between /\ pass'[v].current = NoSession
  BY <1>2, BetweenSound
<1>3. CASE /\ pass'[v].current = pass[v].current /\ pass'[v].recovering = pass[v].recovering
           /\ pass'[v].pc \in Late /\ (pass[v].pc \in Late \/ pass[v].recovering)
  <2>1. launch[pass[v].current] = "launching"
    BY <1>1, <1>3 DEF PassSound
  <2> QED  BY <1>1, <1>3, <2>1 DEF PassSound, Between, Early, Late
<1>4. CASE /\ pass'[v].current = pass[v].current /\ pass'[v].recovering = pass[v].recovering
           /\ pass'[v].pc \in {"reserve", "refuse"} /\ pass[v].pc = "authorize" /\ ~pass[v].recovering
  BY <1>1, <1>4 DEF PassSound, Between, Early, Late
<1> QED  BY <1>2, <1>3, <1>4

\* The pass of v moves in one of the ways dispatch has, with the state file unchanged.
LEMMA TalkKeeps ==
  ASSUME LaunchInv, NEW v \in Servers, UNCHANGED <<durable, up, timer, submit, runs, crashes>>,
         pass[v].pc \in Early \cup Late,
         \/ inflight' \subseteq inflight
         \/ pass[v].pc = "launch" /\ inflight' = inflight \cup {pass[v].current},
         \/ \E threw \in BOOLEAN : Leave(v, threw)
         \/ \E error \in Errors : Threw(v, error) /\ pass[v].pc \in Late
         \/ \E pc \in Late : Go(v, pc) /\ (pass[v].pc \in Late \/ pass[v].recovering)
         \/ \E pc \in {"reserve", "refuse"} : Go(v, pc) /\ pass[v].pc = "authorize" /\ ~pass[v].recovering
  PROVE  LaunchInv'
<1>1. launch' = launch /\ pass \in [Servers -> Pass] /\ pass[v].pc # "off"
  BY Types DEF durable, Early, Late
<1>2. ASSUME NEW threw \in BOOLEAN, Leave(v, threw) PROVE LaunchInv'
  <2>1. /\ pass' \in [Servers -> Pass] /\ \A u \in Servers \ {v} : pass'[u] = pass[u]
        /\ pass'[v].pc = "next" /\ pass'[v].current = NoSession /\ pass'[v].retry = pass[v].retry
    BY <1>1, <1>2, LeaveMoves
  <2>2. PassSound(v)'
    BY <2>1, BetweenSound DEF Between
  <2> QED  BY <1>1, <2>1, <2>2, AwaitKeeps
<1>3. ASSUME NEW error \in Errors, Threw(v, error), pass[v].pc \in Late PROVE LaunchInv'
  <2>1. /\ pass' \in [Servers -> Pass] /\ \A u \in Servers \ {v} : pass'[u] = pass[u]
        /\ pass'[v].pc = "lookup" /\ pass'[v].current = pass[v].current
        /\ pass'[v].recovering = pass[v].recovering /\ pass'[v].retry = pass[v].retry
    BY <1>1, <1>3, ThrewMoves
  <2>2. PassSound(v)' /\ pass'[v].pc # "off"
    BY <1>1, <1>3, <2>1, StaySound DEF Late
  <2> QED  BY <1>1, <2>1, <2>2, AwaitKeeps
<1>4. ASSUME NEW pc \in Late, Go(v, pc), pass[v].pc \in Late \/ pass[v].recovering PROVE LaunchInv'
  <2>1. /\ pass' \in [Servers -> Pass] /\ \A u \in Servers \ {v} : pass'[u] = pass[u]
        /\ pass'[v].pc = pc /\ pass'[v].current = pass[v].current
        /\ pass'[v].recovering = pass[v].recovering /\ pass'[v].retry = pass[v].retry
    BY <1>1, <1>4, GoMoves DEF Places
  <2>2. PassSound(v)' /\ pass'[v].pc # "off"
    BY <1>1, <1>4, <2>1, StaySound DEF Late
  <2> QED  BY <1>1, <2>1, <2>2, AwaitKeeps
<1>5. ASSUME NEW pc \in {"reserve", "refuse"}, Go(v, pc), pass[v].pc = "authorize", ~pass[v].recovering
      PROVE  LaunchInv'
  <2>0. pc \in Places
    BY DEF Places, Early
  <2>1. /\ pass' \in [Servers -> Pass] /\ \A u \in Servers \ {v} : pass'[u] = pass[u]
        /\ pass'[v].pc = pc /\ pass'[v].current = pass[v].current
        /\ pass'[v].recovering = pass[v].recovering /\ pass'[v].retry = pass[v].retry
    BY <1>1, <1>5, <2>0, GoMoves
  <2>2. PassSound(v)' /\ pass'[v].pc # "off"
    BY <1>1, <1>5, <2>1, StaySound
  <2> QED  BY <1>1, <2>1, <2>2, AwaitKeeps
<1> QED  BY <1>2, <1>3, <1>4, <1>5

\* The workspace's verdict, the provider's answers, and the request itself.
LEMMA AnswersKeep ==
  ASSUME LaunchInv, NEW v \in Servers,
         \/ \E verdict \in {"granted", "retryable", "refused"} : Authorize(v, verdict)
         \/ \E answer \in {"found", "absent"} \cup Errors : Find(v, answer)
         \/ Send(v)
         \/ \E answer \in {"handle", "empty"} \cup Errors : Answer(v, answer)
         \/ \E answer \in {"found", "absent", "malformed", "unavailable"} : Lookup(v, answer)
  PROVE  LaunchInv'
<1>1. /\ "bind" \in Late /\ "launch" \in Late /\ "fail" \in Late /\ "wait" \in Late /\ "find" \in Late
      /\ "lookup" \in Late /\ "authorize" \in Early
  BY DEF Late, Early
<1>2. "unavailable" \in Errors /\ "rejected" \in Errors /\ "malformed" \in Errors
  BY DEF Errors
<1>3. ASSUME NEW verdict \in {"granted", "retryable", "refused"}, Authorize(v, verdict) PROVE LaunchInv'
  <2>1. pass[v].pc = "authorize" /\ UNCHANGED <<durable, up, timer, submit, runs, crashes>> /\ inflight' = inflight
    BY <1>3 DEF Authorize, At, provider
  <2>2. pass[v].recovering \in BOOLEAN
    BY Types DEF Pass
  <2>3. \/ Leave(v, TRUE)
        \/ Go(v, "find") /\ pass[v].recovering
        \/ Go(v, "fail") /\ pass[v].recovering
        \/ Go(v, "reserve") /\ ~pass[v].recovering
        \/ Go(v, "refuse") /\ ~pass[v].recovering
    BY <1>3, <2>2 DEF Authorize
  <2> QED  BY <1>1, <2>1, <2>3, TalkKeeps
<1>4. ASSUME NEW answer \in {"found", "absent"} \cup Errors, Find(v, answer) PROVE LaunchInv'
  <2>1. pass[v].pc = "find" /\ UNCHANGED <<durable, up, timer, submit, runs, crashes>> /\ inflight' = inflight
    BY <1>4 DEF Find, At, provider
  <2>2. Go(v, "bind") \/ Go(v, "launch") \/ \E error \in Errors : Threw(v, error)
    BY <1>4 DEF Find
  <2> QED  BY <1>1, <2>1, <2>2, TalkKeeps
<1>5. CASE Send(v)
  <2>1. pass[v].pc = "launch" /\ UNCHANGED <<durable, up, timer, submit, runs, crashes>>
    BY <1>5 DEF Send, At
  <2>2. \/ Go(v, "wait") /\ inflight' = inflight \cup {pass[v].current}
        \/ Threw(v, "rejected") /\ inflight' = inflight
    BY <1>5 DEF Send
  <2> QED  BY <1>1, <1>2, <2>1, <2>2, TalkKeeps
<1>6. ASSUME NEW answer \in {"handle", "empty"} \cup Errors, Answer(v, answer) PROVE LaunchInv'
  <2>1. pass[v].pc = "wait" /\ UNCHANGED <<durable, up, timer, submit, runs, crashes>>
    BY <1>6 DEF Answer, At
  <2>2. /\ inflight' \subseteq inflight
        /\ Go(v, "bind") \/ Go(v, "fail") \/ \E error \in Errors : Threw(v, error)
    BY <1>2, <1>6 DEF Answer
  <2> QED  BY <1>1, <2>1, <2>2, TalkKeeps
<1>7. ASSUME NEW answer \in {"found", "absent", "malformed", "unavailable"}, Lookup(v, answer) PROVE LaunchInv'
  <2>1. pass[v].pc = "lookup" /\ UNCHANGED <<durable, up, timer, submit, runs, crashes>> /\ inflight' = inflight
    BY <1>7 DEF Lookup, At, provider
  <2>2. Go(v, "bind") \/ Go(v, "fail") \/ Leave(v, TRUE)
    BY <1>7 DEF Lookup
  <2> QED  BY <1>1, <2>1, <2>2, TalkKeeps
<1> QED  BY <1>3, <1>4, <1>5, <1>6, <1>7

-----------------------------------------------------------------------------
(* Steps that write one record or one assignment.                          *)

\* What the record's definitions have in common.
USE DEF Worker, Statuses, TerminalStatuses, Flags, Results, None, isTerminal, isBound

\* Only session s changes, and stays sound.
LEMMA OneSession ==
  ASSUME LaunchInv, NEW s \in Sessions, SessionSound(s)', UNCHANGED <<batch, inflight, runs>>,
         \A x \in Sessions \ {s} : worker'[x] = worker[x] /\ launch'[x] = launch[x]
  PROVE  \A x \in Sessions : SessionSound(x)'
<1> SUFFICES ASSUME NEW x \in Sessions \ {s} PROVE SessionSound(x)'
  OBVIOUS
<1>1. SessionSound(x)
  BY InvInParts DEF SessionsSound
<1> QED  BY <1>1, SessionKeeps

\* The failure reasons of this module are admitted with the status.
LEMMA FailureFits ==
  /\ "launch_error" \in StopReasonsByStatus("failed") /\ "deadline_exceeded" \in StopReasonsByStatus("failed")
  /\ "user_requested" \in StopReasonsByStatus("canceled")
  /\ "launch_error" \in AllReasons /\ "deadline_exceeded" \in AllReasons /\ "user_requested" \in AllReasons
  BY ReasonsAssumption DEF StopReasonsByStatus, FailureReasons, AllReasons

\* A run is bound to an ended record together with the intent to stop it.
LEMMA LaunchedRecord ==
  ASSUME NEW w \in Worker, NEW run \in Runs
  PROVE  LET u == recordLaunched(w, run)
         IN  /\ u \in Worker /\ u.runId = run /\ u.status = w.status /\ u.stopReason = w.stopReason
             /\ u.flags = w.flags \cup (IF isTerminal(w) THEN {"reconcilePending", "stopPending"} ELSE {})
  BY DEF recordLaunched

\* A failed launch ends an open session, and clears what an ended one owes.
LEMMA FailedRecord ==
  ASSUME NEW w \in Worker
  PROVE  LET u == recordLaunchFailed(w)
         IN  /\ u \in Worker /\ u.runId = w.runId /\ u.flags \subseteq w.flags
             /\ isTerminal(w) => u.status = w.status /\ u.stopReason = w.stopReason
             /\ ~isTerminal(w) => u.status = "failed" /\ u.stopReason = "launch_error"
<1>1. CASE isTerminal(w)
  BY <1>1 DEF recordLaunchFailed
<1>2. CASE ~isTerminal(w)
  BY <1>2, FailureFits DEF recordLaunchFailed, finish
<1> QED  BY <1>1, <1>2

\* A request to cancel ends the session at once, or leaves a delivery pending.
LEMMA CancelRecord ==
  ASSUME NEW w \in Worker, NEW status, ~isTerminal(w), w.status # "canceling"
  PROVE  LET u == requestWorkerCancellation(w, "user_requested", status)
         IN  /\ u \in Worker /\ u.runId = w.runId /\ u.stopReason = "user_requested"
             /\ ~isBound(w) /\ status # "launching" => u.status = "canceled" /\ u.flags = w.flags
             /\ isBound(w) \/ status = "launching" =>
                  u.status = "canceling" /\ u.flags = w.flags \cup {"cancelPending"}
<1>1. CASE ~isBound(w) /\ status # "launching"
  BY <1>1, FailureFits DEF requestWorkerCancellation
<1>2. CASE isBound(w) \/ status = "launching"
  BY <1>2, FailureFits DEF requestWorkerCancellation
<1> QED  BY <1>1, <1>2

\* An overdue session fails, and its run, if it has or may get one, is to be stopped.
LEMMA ExpiredRecord ==
  ASSUME NEW w \in Worker, NEW status, isOverdue(w, 1), w.flags \cap {"cancelClaimed", "cancelDelivered"} = {}
  PROVE  LET u == expireWorker(w, 1, status)
         IN  /\ u \in Worker /\ u.runId = w.runId /\ u.status = "failed" /\ u.stopReason = "deadline_exceeded"
             /\ isBound(w) => {"reconcilePending", "stopPending"} \subseteq u.flags
             /\ u.flags \subseteq w.flags \cup {"reconcilePending", "stopPending"}
<1> DEFINE owed == IF isBound(w) \/ status = "launching" THEN {"reconcilePending", "stopPending"} ELSE {}
           flags == (w.flags \ {"cancelPending"}) \cup owed
<1>1. expireWorker(w, 1, status) = finish(w, "failed", "deadline_exceeded", w.result, flags)
  <2>1. {"cancelClaimed", "cancelDelivered"} \cap w.flags = {}
    OBVIOUS
  <2>2. {"reconcilePending"} \cup {"stopPending"} = {"reconcilePending", "stopPending"}
    OBVIOUS
  <2> QED  BY <2>1, <2>2 DEF expireWorker
<1>2. flags \in SUBSET Flags /\ flags \subseteq w.flags \cup {"reconcilePending", "stopPending"}
  OBVIOUS
<1>3. isBound(w) => {"reconcilePending", "stopPending"} \subseteq flags
  OBVIOUS
<1> HIDE DEF flags
<1> QED  BY <1>1, <1>2, <1>3, FailureFits DEF finish

\* The intent is written ahead, or the assignment of an ended session fails.
LEMMA ReserveKeeps ==
  ASSUME LaunchInv, NEW v \in Servers, Reserve(v)
  PROVE  LaunchInv'
<1>1. pass[v].pc \in {"reserve", "refuse"} /\ UNCHANGED <<worker, accepted, up, timer, submit, inflight, runs, crashes>>
  BY DEF Reserve, provider
<1>0. PICK s \in Sessions : s = pass[v].current
  BY <1>1, Visiting DEF Between
<1>2. launch[s] = "accepted" /\ pass \in [Servers -> Pass] /\ pass[v].pc # "off" /\ s # NoSession
  BY <1>0, <1>1, Types, LaunchAssumption DEF LaunchInv, PassSound, Between, Early
<1>3. SessionSound(s)
  BY <1>2, InvInParts DEF SessionsSound
<1>4. ASSUME NEW status \in {"failed", "launching"}, Mark(s, status), SessionSound(s)', PassSound(v)',
             pass' \in [Servers -> Pass], \A u \in Servers \ {v} : pass'[u] = pass[u],
             pass'[v].pc # "off", pass'[v].retry = pass[v].retry, pass'[v].current \in {NoSession, s}
      PROVE  LaunchInv'
  <2>1. launch' \in [Sessions -> AssignmentStatuses] /\ \A x \in Sessions \ {s} : launch'[x] = launch[x]
    BY <1>2, <1>4, Types DEF Mark, AssignmentStatuses
  <2>2. batch' = batch /\ worker' = worker
    BY <1>1 DEF accepted
  <2>3. \A x \in Sessions : SessionSound(x)'
    BY <1>1, <1>2, <1>4, <2>1, <2>2, OneSession
  <2>4. \A x \in Sessions : x = pass[v].current \/ launch[x] = None \/ launch'[x] = launch[x]
    BY <1>0, <2>1
  <2>5. pass'[v].current \in {NoSession, pass[v].current}
    BY <1>0, <1>4
  <2> QED  BY <1>1, <1>2, <1>4, <2>1, <2>2, <2>3, <2>4, <2>5, Types, VisitKeeps
<1>5. CASE isTerminal(worker[s])
  <2>1. Mark(s, "failed") /\ Leave(v, FALSE)
    BY <1>0, <1>5 DEF Reserve
  <2>2. PICK threw \in BOOLEAN : Leave(v, threw)
    BY <2>1
  <2>3. /\ pass' \in [Servers -> Pass] /\ \A u \in Servers \ {v} : pass'[u] = pass[u]
        /\ pass'[v].pc = "next" /\ pass'[v].current = NoSession /\ pass'[v].retry = pass[v].retry
    BY <1>2, <2>2, LeaveMoves
  <2>4. PassSound(v)'
    BY <2>3, BetweenSound DEF Between
  <2>5. launch'[s] = "failed" /\ worker' = worker /\ batch' = batch /\ inflight' = inflight /\ runs' = runs
    BY <1>1, <1>2, <2>1, Types DEF Mark, accepted
  <2>6. SessionSound(s)'
    BY <1>2, <1>3, <1>5, <2>5 DEF SessionSound, RecordSound, StopReasonsByStatus
  <2> QED  BY <1>4, <2>1, <2>3, <2>4, <2>6
<1>6. CASE ~isTerminal(worker[s])
  <2>1. Mark(s, "launching") /\ (Go(v, "launch") \/ Go(v, "fail"))
    BY <1>0, <1>6 DEF Reserve
  <2>2. PICK pc \in {"launch", "fail"} : Go(v, pc)
    BY <2>1
  <2>3. pc \in Places
    BY DEF Places, Late
  <2>4. /\ pass' \in [Servers -> Pass] /\ \A u \in Servers \ {v} : pass'[u] = pass[u]
        /\ pass'[v].pc = pc /\ pass'[v].current = pass[v].current /\ pass'[v].retry = pass[v].retry
    BY <1>2, <2>2, <2>3, GoMoves
  <2>5. launch'[s] = "launching" /\ worker' = worker /\ batch' = batch /\ inflight' = inflight /\ runs' = runs
    BY <1>1, <1>2, <2>1, Types DEF Mark, accepted
  <2>6. PassSound(v)'
    BY <1>0, <1>2, <2>4, <2>5 DEF PassSound, Between, Early, Late
  <2>7. SessionSound(s)'
    BY <1>2, <1>3, <1>6, <2>5 DEF SessionSound, RecordSound, StopReasonsByStatus
  <2>8. pass'[v].current = s
    BY <1>0, <2>4
  <2> QED  BY <1>4, <2>1, <2>4, <2>6, <2>7, <2>8
<1> QED  BY <1>5, <1>6

\* The outcome of a launch is recorded: the run is bound, or the session fails.
LEMMA OutcomeKeeps ==
  ASSUME LaunchInv, NEW v \in Servers, Bind(v) \/ Fail(v)
  PROVE  LaunchInv'
<1>1. pass[v].pc \in {"bind", "fail"} /\ UNCHANGED <<accepted, up, timer, submit, inflight, runs, crashes>>
  BY DEF Bind, Fail, At, provider
<1>2. PICK s \in Sessions : s = pass[v].current
  BY <1>1, Visiting DEF Between
<1>3. launch[s] = "launching" /\ pass \in [Servers -> Pass] /\ worker[s] \in Worker /\ batch' = batch
  BY <1>1, <1>2, Types DEF LaunchInv, PassSound, Late, accepted
<1>4. SessionSound(s)
  BY InvInParts DEF SessionsSound
<1>5. PICK threw \in BOOLEAN : Leave(v, threw)
  BY DEF Bind, Fail
<1>6. /\ pass' \in [Servers -> Pass] /\ \A u \in Servers \ {v} : pass'[u] = pass[u]
      /\ pass'[v].pc = "next" /\ pass'[v].current = NoSession /\ pass'[v].retry = pass[v].retry
  BY <1>3, <1>5, LeaveMoves
<1>7. PassSound(v)'
  BY <1>6, BetweenSound DEF Between
<1>8. ASSUME NEW status \in {"launched", "failed"}, NEW w \in Worker, Mark(s, status), Store(s, w), SessionSound(s)'
      PROVE  LaunchInv'
  <2>1. /\ launch' \in [Sessions -> AssignmentStatuses] /\ worker' \in [Sessions -> Worker]
        /\ \A x \in Sessions \ {s} : worker'[x] = worker[x] /\ launch'[x] = launch[x]
    BY <1>8, Types DEF Mark, Store, AssignmentStatuses
  <2>2. \A x \in Sessions : SessionSound(x)'
    BY <1>1, <1>3, <1>8, <2>1, OneSession
  <2> QED  BY <1>1, <1>2, <1>6, <1>7, <2>1, <2>2, Types, VisitKeeps
<1>9. CASE Bind(v)
  <2> DEFINE w == recordLaunched(worker[s], s)
  <2>1. Mark(s, "launched") /\ Store(s, w)
    BY <1>2, <1>9 DEF Bind
  <2>2. /\ w \in Worker /\ w.runId = s /\ w.status = worker[s].status /\ w.stopReason = worker[s].stopReason
        /\ w.flags = worker[s].flags \cup (IF isTerminal(worker[s]) THEN {"reconcilePending", "stopPending"} ELSE {})
    BY <1>3, LaunchedRecord, LaunchAssumption
  <2> HIDE DEF w
  <2>3. launch'[s] = "launched" /\ worker'[s] = w
    BY <2>1, Types DEF Mark, Store
  <2>4. s \in Runs /\ s # NoRun
    BY LaunchAssumption, RunsAssumption
  <2>5. SessionSound(s)'
    <3>1. RecordSound(s)'
      BY <1>3, <1>4, <2>2, <2>3 DEF SessionSound, RecordSound, StopReasonsByStatus
    <3> QED  BY <1>1, <1>3, <1>4, <2>2, <2>3, <2>4, <3>1 DEF SessionSound, RecordSound
  <2> QED  BY <1>8, <2>1, <2>2, <2>5
<1>10. CASE Fail(v)
  <2> DEFINE w == recordLaunchFailed(worker[s])
  <2>1. Mark(s, "failed") /\ Store(s, w)
    BY <1>2, <1>10 DEF Fail
  <2>2. /\ w \in Worker /\ w.runId = worker[s].runId /\ w.flags \subseteq worker[s].flags
        /\ isTerminal(worker[s]) => w.status = worker[s].status /\ w.stopReason = worker[s].stopReason
        /\ ~isTerminal(worker[s]) => w.status = "failed" /\ w.stopReason = "launch_error"
    BY <1>3, FailedRecord
  <2> HIDE DEF w
  <2>3. launch'[s] = "failed" /\ worker'[s] = w
    BY <2>1, Types DEF Mark, Store
  <2>4. /\ RecordSound(s) /\ worker[s].runId = NoRun /\ w.status = "failed"
        /\ w.stopReason \in StopReasonsByStatus("failed")
    BY <1>3, <1>4, <2>2, FailureFits DEF SessionSound, RecordSound
  <2>5. RecordSound(s)'
    BY <1>3, <2>2, <2>3, <2>4 DEF RecordSound, StopReasonsByStatus
  <2>6. SessionSound(s)'
    BY <1>1, <1>4, <2>2, <2>3, <2>4, <2>5 DEF SessionSound
  <2> QED  BY <1>8, <2>1, <2>2, <2>6
<1> QED  BY <1>9, <1>10

\* The servers rest, apart from calls that begin at a server that is up; assignments
\* may become accepted.
LEMMA ServersRest ==
  ASSUME LaunchInv, UNCHANGED <<up, pass, timer>>,
         \A v \in Servers : submit'[v] = submit[v] \/ up[v] \in {"up", "stopping"},
         \A s \in Sessions : launch[s] = None \/ launch'[s] = launch[s]
  PROVE  PassesSound'
<1>1. LockSound'
  BY DEF LaunchInv, LockSound
<1>2. ASSUME NEW v \in Servers PROVE ServerSound(v)'
  BY DEF LaunchInv, ServerSound
<1>3. ASSUME NEW v \in Servers PROVE PassSound(v)'
  <2>1. PassSound(v) /\ pass[v] \in Pass
    BY Types DEF LaunchInv
  <2>2. CASE pass[v].pc \in Between
    BY <2>1, <2>2, BetweenSound DEF PassSound
  <2>3. CASE pass[v].pc \notin Between
    <3>1. pass[v].current \in Sessions /\ pass[v].pc \in Early \cup Late
      BY <2>1, <2>3, Visiting DEF Pass, Between, Early, Late
    <3>2. launch[pass[v].current] \in {"accepted", "launching"}
      BY <2>1, <3>1 DEF PassSound
    <3>3. launch'[pass[v].current] = launch[pass[v].current]
      BY <3>1, <3>2
    <3> QED  BY <2>1, <3>3 DEF PassSound
  <2> QED  BY <2>2, <2>3
<1> QED  BY <1>1, <1>2, <1>3 DEF PassesSound

\* A step on one record, while the servers rest.
LEMMA RecordStepKeeps ==
  ASSUME LaunchInv, NEW s \in Sessions, NEW w \in Worker, Store(s, w),
         UNCHANGED <<launch, accepted, up, pass, timer, submit, provider, crashes>>, SessionSound(s)'
  PROVE  LaunchInv'
<1>1. UNCHANGED <<launch, order, batch, up, pass, timer, submit, inflight, runs, crashes>>
  BY DEF accepted, provider
<1>2. worker' \in [Sessions -> Worker] /\ \A x \in Sessions \ {s} : worker'[x] = worker[x]
  BY Types DEF Store
<1>3. \A x \in Sessions : SessionSound(x)'
  BY <1>1, <1>2, OneSession
<1>4. TypeOK'
  BY <1>1, <1>2, Types DEF TypeOK
<1>5. PassesSound'
  BY <1>1, ServersRest
<1> QED  BY <1>3, <1>4, <1>5, InvInPartsNext DEF SessionsSound

\* Callers end the session, or give it a deadline.
LEMMA CallersKeep ==
  ASSUME LaunchInv, NEW s \in Sessions, Cancel(s) \/ SetDeadline(s) \/ Expire(s)
  PROVE  LaunchInv'
<1>1. UNCHANGED <<launch, accepted, up, pass, timer, submit, provider, crashes>>
  BY DEF Cancel, SetDeadline, Expire
<1>2. launch' = launch /\ batch' = batch /\ inflight' = inflight /\ runs' = runs
  BY <1>1 DEF accepted, provider
<1>3. SessionSound(s) /\ RecordSound(s) /\ worker[s] \in Worker /\ launch[s] \in AssignmentStatuses
  BY InvInParts, Types DEF SessionsSound, SessionSound
<1>4. CASE Cancel(s)
  <2> DEFINE w == requestWorkerCancellation(worker[s], "user_requested", launch[s])
  <2>1. Store(s, w) /\ ~isTerminal(worker[s]) /\ worker[s].status # "canceling" /\ launch[s] # None
    BY <1>4 DEF Cancel
  <2>2. /\ w \in Worker /\ w.runId = worker[s].runId /\ w.stopReason = "user_requested"
        /\ ~isBound(worker[s]) /\ launch[s] # "launching" => w.status = "canceled" /\ w.flags = worker[s].flags
        /\ isBound(worker[s]) \/ launch[s] = "launching" =>
             w.status = "canceling" /\ w.flags = worker[s].flags \cup {"cancelPending"}
    BY <1>3, <2>1, CancelRecord
  <2> HIDE DEF w
  <2>3. worker'[s] = w
    BY <2>1, Types DEF Store
  <2>4. launch[s] = "launched" => isBound(worker[s])
    BY <1>3, LaunchAssumption, RunsAssumption DEF RecordSound
  <2>5. ~isBound(worker[s]) /\ launch[s] # "launching" => launch[s] = "accepted"
    BY <1>3, <2>1, <2>4 DEF RecordSound, AssignmentStatuses
  <2>6. RecordSound(s)'
    BY <1>2, <1>3, <2>1, <2>2, <2>3, <2>5, FailureFits DEF RecordSound, StopReasonsByStatus
  <2>7. SessionSound(s)'
    BY <1>2, <1>3, <2>2, <2>3, <2>5, <2>6 DEF SessionSound
  <2> QED  BY <1>1, <2>1, <2>2, <2>7, RecordStepKeeps
<1>5. CASE SetDeadline(s)
  <2> DEFINE w == setWorkerDeadline(worker[s], 1)
  <2>1. Store(s, w)
    BY <1>5 DEF SetDeadline
  <2>2. /\ w \in Worker /\ w.runId = worker[s].runId /\ w.stopReason = worker[s].stopReason
        /\ w.status = worker[s].status /\ w.flags = worker[s].flags
    BY <1>3 DEF setWorkerDeadline
  <2> HIDE DEF w
  <2>3. worker'[s] = w
    BY <2>1, Types DEF Store
  <2>4. RecordSound(s)'
    BY <1>2, <1>3, <2>2, <2>3 DEF RecordSound, StopReasonsByStatus
  <2>5. SessionSound(s)'
    BY <1>2, <1>3, <2>2, <2>3, <2>4 DEF SessionSound
  <2> QED  BY <1>1, <2>1, <2>2, <2>5, RecordStepKeeps
<1>6. CASE Expire(s)
  <2> DEFINE w == expireWorker(worker[s], 1, launch[s])
  <2>1. Store(s, w) /\ isOverdue(worker[s], 1)
    BY <1>6 DEF Expire
  <2>2. /\ w \in Worker /\ w.runId = worker[s].runId /\ w.status = "failed" /\ w.stopReason = "deadline_exceeded"
        /\ isBound(worker[s]) => {"reconcilePending", "stopPending"} \subseteq w.flags
        /\ w.flags \subseteq worker[s].flags \cup {"reconcilePending", "stopPending"}
    BY <1>3, <2>1, ExpiredRecord DEF RecordSound
  <2> HIDE DEF w
  <2>3. worker'[s] = w
    BY <2>1, Types DEF Store
  <2>4. RecordSound(s)'
    BY <1>2, <1>3, <2>2, <2>3, FailureFits DEF RecordSound
  <2>5. SessionSound(s)'
    BY <1>2, <1>3, <2>2, <2>3, <2>4 DEF SessionSound
  <2> QED  BY <1>1, <2>1, <2>2, <2>5, RecordStepKeeps
<1> QED  BY <1>4, <1>5, <1>6

\* The provider processes a request, at any time.
LEMMA ProviderKeeps ==
  ASSUME LaunchInv, NEW s \in Sessions, ProviderLaunches(s)
  PROVE  LaunchInv'
<1>1. UNCHANGED <<worker, launch, order, batch, up, pass, timer, submit, crashes>>
  BY DEF ProviderLaunches, durable, accepted
<1>2. inflight' \cup runs' = inflight \cup runs /\ inflight' \subseteq Sessions /\ runs' \subseteq Sessions
  BY Types DEF ProviderLaunches
<1>3. TypeOK'
  BY <1>1, <1>2, Types DEF TypeOK
<1>4. PassesSound'
  BY <1>1, ServersRest
<1>5. ASSUME NEW x \in Sessions PROVE SessionSound(x)'
  BY <1>1, <1>2, InvInParts, SessionKeeps DEF SessionsSound
<1> QED  BY <1>3, <1>4, <1>5, InvInPartsNext DEF SessionsSound

\* A batch request lists sessions.
LEMMA RequestsListSessions ==
  ASSUME NEW q \in BatchRequests
  PROVE  q \in Seq(Sessions)
<1>1. PICK b \in SUBSET Sessions : q \in SetToSeqs(b)
  BY DEF BatchRequests
<1>2. IsFiniteSet(b) /\ Cardinality(b) \in Nat
  BY LaunchAssumption, FS_Subset, FS_CardinalityType
<1>3. q \in [1..Cardinality(b) -> b]
  BY <1>1 DEF SetToSeqs
<1>4. q \in [1..Cardinality(b) -> Sessions]
  BY <1>3
<1> QED  BY <1>2, <1>4

\* Assignments become accepted, only new ones, and all with a batch.
LEMMA AcceptedKeep ==
  ASSUME LaunchInv, NEW v \in Servers, NEW caller \in {"launch", "tool"}, Submit(v, caller),
         NEW k \in Sessions \cup BatchKeys, NEW q \in Seq(Sessions),
         \A s \in ToSet(q) : launch[s] = None, WriteAccepted(k, q)
  PROVE  LaunchInv'
<1>1. /\ UNCHANGED <<worker, up, pass, timer, inflight, runs, crashes>> /\ up[v] \in {"up", "stopping"}
      /\ submit' = [submit EXCEPT ![v] = @ \cup {caller}]
  BY DEF Submit, provider
<1>2. /\ launch' \in [Sessions -> AssignmentStatuses] /\ batch' \in [Sessions -> Sessions \cup BatchKeys \cup {None}]
      /\ \A s \in Sessions :
            \/ launch'[s] = launch[s] /\ batch'[s] = batch[s]
            \/ launch[s] = None /\ launch'[s] = "accepted" /\ batch'[s] = k
  BY Types DEF WriteAccepted, AssignmentStatuses
<1>3. order' \in Seq(Sessions)
  BY Types, ConcatProperties DEF WriteAccepted
<1>4. /\ submit' \in [Servers -> SUBSET {"launch", "tool"}]
      /\ \A u \in Servers \ {v} : submit'[u] = submit[u]
  BY <1>1, Types
<1>5. TypeOK'
  BY <1>1, <1>2, <1>3, <1>4, Types DEF TypeOK
<1>6. PassesSound'
  BY <1>1, <1>2, <1>4, ServersRest
<1>7. ASSUME NEW s \in Sessions PROVE SessionSound(s)'
  <2>1. SessionSound(s)
    BY InvInParts DEF SessionsSound
  <2>2. CASE launch'[s] = launch[s] /\ batch'[s] = batch[s]
    BY <1>1, <2>1, <2>2, SessionKeeps
  <2>3. CASE launch[s] = None /\ launch'[s] = "accepted" /\ batch'[s] = k
    <3>1. k # None
      BY LaunchAssumption
    <3>2. RecordSound(s)'
      BY <1>1, <2>1, <2>3, <3>1 DEF SessionSound, RecordSound, StopReasonsByStatus
    <3> QED  BY <1>1, <2>1, <2>3, <3>2 DEF SessionSound
  <2> QED  BY <1>2, <2>2, <2>3
<1> QED  BY <1>5, <1>6, <1>7, InvInPartsNext DEF SessionsSound

\* A replayed submission changes only who is answered.
LEMMA ReplayKeeps ==
  ASSUME LaunchInv, NEW v \in Servers, NEW caller \in {"launch", "tool"}, Submit(v, caller),
         UNCHANGED <<launch, accepted>>
  PROVE  LaunchInv'
<1>1. /\ UNCHANGED <<worker, launch, order, batch, up, pass, timer, inflight, runs, crashes>>
      /\ up[v] \in {"up", "stopping"} /\ submit' = [submit EXCEPT ![v] = @ \cup {caller}]
  BY DEF Submit, provider, accepted
<1>2. /\ submit' \in [Servers -> SUBSET {"launch", "tool"}]
      /\ \A u \in Servers \ {v} : submit'[u] = submit[u]
  BY <1>1, Types
<1>3. TypeOK'
  BY <1>1, <1>2, Types DEF TypeOK
<1>4. PassesSound'
  BY <1>1, <1>2, ServersRest
<1>5. ASSUME NEW s \in Sessions PROVE SessionSound(s)'
  BY <1>1, InvInParts, SessionKeeps DEF SessionsSound
<1> QED  BY <1>3, <1>4, <1>5, InvInPartsNext DEF SessionsSound

\* Submissions, single and batched.
LEMMA AcceptKeeps ==
  ASSUME LaunchInv, NEW v \in Servers,
         \/ \E s \in Sessions : Accept(v, s)
         \/ \E caller \in Callers, k \in BatchKeys, q \in BatchRequests : AcceptBatch(v, caller, k, q)
  PROVE  LaunchInv'
<1>1. ASSUME NEW s \in Sessions, Accept(v, s) PROVE LaunchInv'
  <2>1. PICK caller \in {"launch", "tool"} : Submit(v, caller)
    BY <1>1 DEF Accept
  <2>0. <<s>> \in Seq(Sessions)
    OBVIOUS
  <2>2. PICK q \in Seq(Sessions) : q = <<s>>
    BY <2>0
  <2>3. CASE UNCHANGED <<launch, accepted>>
    BY <2>1, <2>3, ReplayKeeps
  <2>4. CASE launch[s] = None /\ WriteAccepted(s, <<s>>)
    <3>1. \A x \in ToSet(q) : x = s
      BY <2>2 DEF ToSet
    <3>2. WriteAccepted(s, q)
      BY <2>2, <2>4
    <3> QED  BY <2>1, <2>4, <3>1, <3>2, AcceptedKeep
  <2> QED  BY <1>1, <2>3, <2>4 DEF Accept, acceptLaunch
<1>2. ASSUME NEW caller \in Callers, NEW k \in BatchKeys, NEW q \in BatchRequests, AcceptBatch(v, caller, k, q)
      PROVE  LaunchInv'
  <2>1. caller \in {"launch", "tool"} /\ Submit(v, caller) /\ q \in Seq(Sessions)
    BY <1>2, LaunchAssumption, RequestsListSessions DEF AcceptBatch
  <2>2. CASE UNCHANGED <<launch, accepted>>
    BY <2>1, <2>2, ReplayKeeps
  <2>3. CASE (\A s \in ToSet(q) : launch[s] = None) /\ WriteAccepted(k, q)
    BY <2>1, <2>3, AcceptedKeep
  <2> QED  BY <1>2, <2>2, <2>3 DEF AcceptBatch, acceptLaunchBatch
<1> QED  BY <1>1, <1>2

-----------------------------------------------------------------------------
(* The invariant holds of every behaviour.                                 *)

\* It holds at first.
LEMMA InitIsSound == Init => LaunchInv
<1> SUFFICES ASSUME Init PROVE LaunchInv
  OBVIOUS
<1> USE DEF Init
<1>1. NewWorker \in Worker /\ NewWorker.status = "requested" /\ NewWorker.runId = NoRun /\ NewWorker.flags = {}
  BY DEF NewWorker, NoDeadline
<1>2. Off \in Pass /\ Off.pc = "off" /\ Off.current = NoSession /\ ~Off.retry
  BY DEF Off, Pass
<1>3. TypeOK
  <2>1. worker \in [Sessions -> Worker]
    BY <1>1
  <2>2. pass \in [Servers -> Pass]
    BY <1>2
  <2>3. crashes \in 0..MaxCrashes
    BY LaunchAssumption
  <2>4. order \in Seq(Sessions)
    OBVIOUS
  <2> QED  BY <2>1, <2>2, <2>3, <2>4 DEF TypeOK, AssignmentStatuses
<1>4. LockSound
  BY <1>2 DEF LockSound
<1>5. ASSUME NEW v \in Servers PROVE PassSound(v) /\ ServerSound(v)
  BY <1>2, <1>5 DEF PassSound, ServerSound, Between, Early, Late
<1>6. ASSUME NEW s \in Sessions PROVE SessionSound(s)
  <2>1. worker[s] = NewWorker /\ launch[s] = None /\ batch[s] = None
    BY <1>6
  <2>2. RecordSound(s)
    BY <1>1, <2>1 DEF RecordSound
  <2> QED  BY <1>1, <2>1, <2>2 DEF SessionSound
<1> QED  BY <1>3, <1>4, <1>5, <1>6, InvInParts DEF PassesSound, SessionsSound

\* Every step keeps it.
LEMMA StepIsSound == LaunchInv /\ [Next]_vars => LaunchInv'
<1> SUFFICES ASSUME LaunchInv, [Next]_vars PROVE LaunchInv'
  OBVIOUS
<1>1. CASE UNCHANGED vars
  <2>1. UNCHANGED <<worker, launch, order, batch, up, pass, timer, submit, inflight, runs, crashes>>
    BY <1>1 DEF vars, durable, accepted, provider
  <2>2. TypeOK'
    BY <2>1, Types DEF TypeOK
  <2>3. PassesSound'
    BY <2>1, ServersRest
  <2>4. ASSUME NEW s \in Sessions PROVE SessionSound(s)'
    BY <2>1, InvInParts, SessionKeeps DEF SessionsSound
  <2> QED  BY <2>2, <2>3, <2>4, InvInPartsNext DEF SessionsSound
<1>2. ASSUME NEW v \in Servers, PassStep(v) PROVE LaunchInv'
  <2>1. CASE List(v) \/ PassEnds(v) \/ LockFails(v)
    BY <2>1, BetweenKeeps
  <2>2. CASE Dispatch(v)
    BY <2>2, DispatchKeeps
  <2>3. CASE \/ \E verdict \in {"granted", "retryable", "refused"} : Authorize(v, verdict)
             \/ \E answer \in {"found", "absent"} \cup Errors : Find(v, answer)
             \/ Send(v)
             \/ \E answer \in {"handle", "empty"} \cup Errors : Answer(v, answer)
             \/ \E answer \in {"found", "absent", "malformed", "unavailable"} : Lookup(v, answer)
    BY <2>3, AnswersKeep
  <2>4. CASE Reserve(v)
    BY <2>4, ReserveKeeps
  <2>5. CASE Bind(v) \/ Fail(v)
    BY <2>5, OutcomeKeeps
  <2> QED  BY <1>2, <2>1, <2>2, <2>3, <2>4, <2>5 DEF PassStep
<1>3. ASSUME NEW v \in Servers, ServerStep(v) PROVE LaunchInv'
  <2>1. CASE \/ \E s \in Sessions : Accept(v, s)
             \/ \E caller \in Callers, k \in BatchKeys, q \in BatchRequests : AcceptBatch(v, caller, k, q)
    BY <2>1, AcceptKeeps
  <2>2. CASE ScheduleDispatch(v) \/ Stop(v) \/ Exit(v)
    BY <2>2, ServerKeeps
  <2>3. CASE ToolDispatches(v) \/ TimerFires(v) \/ Crash(v) \/ Start(v)
    BY <2>3, BetweenKeeps
  <2> QED  BY <1>2, <1>3, <2>1, <2>2, <2>3 DEF ServerStep
<1>4. ASSUME NEW s \in Sessions, Cancel(s) \/ SetDeadline(s) \/ Expire(s) \/ ProviderLaunches(s)
      PROVE  LaunchInv'
  BY <1>4, CallersKeep, ProviderKeeps
<1> QED  BY <1>1, <1>3, <1>4 DEF Next

\* The invariant holds always.
THEOREM LaunchInvariant == Spec => []LaunchInv
  BY InitIsSound, StepIsSound, PTL DEF Spec

\* Launch intent is written ahead of every request, through crashes and restarts of
\* any number of servers that share the state file.
THEOREM IntentIsWrittenAhead == Spec => [](TypeOK /\ WriteAhead)
<1>1. LaunchInv => TypeOK /\ WriteAhead
  BY DEF LaunchInv
<1> QED  BY <1>1, LaunchInvariant, PTL

\* A session cancelled before it had a run never gets one, however the cancellation
\* and the dispatch passes of the servers interleave.
THEOREM CanceledNeverEverRuns == Spec => []CanceledNeverRuns
<1>1. LaunchInv => CanceledNeverRuns
  BY DEF LaunchInv
<1> QED  BY <1>1, LaunchInvariant, PTL

\* A run bound to a session that is being cancelled, or has ended, is bound with the
\* intent to stop it.
THEOREM BoundRunIsAlwaysStopped == Spec => []BoundRunIsStopped
<1>1. LaunchInv => BoundRunIsStopped
  BY DEF LaunchInv
<1> QED  BY <1>1, LaunchInvariant, PTL

-----------------------------------------------------------------------------
(* What a step may do to the assignments.                                  *)

\* An assignment moves only from unaccepted to accepted, with a batch that had no
\* members, or while it is accepted or launching, and then keeps its batch.
LEMMA AssignmentsMove ==
  ASSUME LaunchInv, [Next]_vars
  PROVE  \/ UNCHANGED <<launch, batch>>
         \/ UNCHANGED batch /\ \E s \in Sessions, status \in {"launching", "launched", "failed"} :
               launch[s] \in {"accepted", "launching"} /\ Mark(s, status)
         \/ \E k \in Sessions \cup BatchKeys : \E q \in Seq(Sessions) :
               (\A s \in ToSet(q) : launch[s] = None) /\ WriteAccepted(k, q)
<1>1. CASE UNCHANGED <<launch, accepted>>
  BY <1>1 DEF accepted
<1>2. ASSUME NEW v \in Servers, Reserve(v) \/ Bind(v) \/ Fail(v)
      PROVE  UNCHANGED batch /\ \E s \in Sessions, status \in {"launching", "launched", "failed"} :
               launch[s] \in {"accepted", "launching"} /\ Mark(s, status)
  <2>1. pass[v].pc \in {"reserve", "refuse", "bind", "fail"} /\ UNCHANGED batch
    BY <1>2 DEF Reserve, Bind, Fail, At, accepted
  <2>2. PICK s \in Sessions : s = pass[v].current
    BY <2>1, Visiting DEF Between
  <2>3. launch[s] \in {"accepted", "launching"}
    BY <2>1, <2>2 DEF LaunchInv, PassSound, Early, Late
  <2>4. \E status \in {"launching", "launched", "failed"} : Mark(s, status)
    BY <1>2, <2>2 DEF Reserve, Bind, Fail
  <2> QED  BY <2>1, <2>3, <2>4
<1>3. ASSUME NEW v \in Servers, NEW s \in Sessions, Accept(v, s), ~UNCHANGED <<launch, accepted>>
      PROVE  \E k \in Sessions \cup BatchKeys : \E q \in Seq(Sessions) :
               (\A x \in ToSet(q) : launch[x] = None) /\ WriteAccepted(k, q)
  <2>1. launch[s] = None /\ WriteAccepted(s, <<s>>) /\ <<s>> \in Seq(Sessions)
    BY <1>3 DEF Accept, acceptLaunch
  <2>2. \A x \in ToSet(<<s>>) : x = s
    BY DEF ToSet
  <2> QED  BY <2>1, <2>2
<1>4. ASSUME NEW v \in Servers, NEW caller \in Callers, NEW k \in BatchKeys, NEW q \in BatchRequests,
             AcceptBatch(v, caller, k, q), ~UNCHANGED <<launch, accepted>>
      PROVE  q \in Seq(Sessions) /\ (\A s \in ToSet(q) : launch[s] = None) /\ WriteAccepted(k, q)
  BY <1>4, RequestsListSessions DEF AcceptBatch, acceptLaunchBatch
<1>5. ASSUME NEW v \in Servers, PassStep(v) PROVE UNCHANGED <<launch, accepted>> \/ Reserve(v) \/ Bind(v) \/ Fail(v)
  BY <1>5 DEF PassStep, List, PassEnds, Dispatch, LockFails, Authorize, Find, Send, Answer, Lookup, durable
<1>6. ASSUME NEW v \in Servers, ServerStep(v)
      PROVE  \/ UNCHANGED <<launch, accepted>>
             \/ \E s \in Sessions : Accept(v, s)
             \/ \E caller \in Callers, k \in BatchKeys, q \in BatchRequests : AcceptBatch(v, caller, k, q)
             \/ Reserve(v) \/ Bind(v) \/ Fail(v)
  BY <1>5, <1>6 DEF ServerStep, ScheduleDispatch, ToolDispatches, TimerFires, Crash, Stop, Exit, Start, durable
<1>7. ASSUME NEW s \in Sessions, Cancel(s) \/ SetDeadline(s) \/ Expire(s) \/ ProviderLaunches(s)
      PROVE  UNCHANGED <<launch, accepted>>
  BY <1>7 DEF Cancel, SetDeadline, Expire, ProviderLaunches, durable
<1>8. UNCHANGED vars => UNCHANGED <<launch, accepted>>
  BY DEF vars, durable
<1> QED  BY <1>1, <1>2, <1>3, <1>4, <1>6, <1>7, <1>8 DEF Next

\* An assignment is settled once, whatever old snapshot a pass works from.
THEOREM LaunchesSettleOnce == Spec => LaunchSettlesOnce
<1>1. LaunchInv /\ [Next]_vars =>
        [\A s \in Sessions : launch[s] \in {"launched", "failed"} => launch'[s] = launch[s]]_launch
  <2> SUFFICES ASSUME LaunchInv, [Next]_vars, NEW s \in Sessions, launch[s] \in {"launched", "failed"}
               PROVE  launch'[s] = launch[s]
    OBVIOUS
  <2>1. ASSUME NEW x \in Sessions, NEW status \in {"launching", "launched", "failed"},
               launch[x] \in {"accepted", "launching"}, Mark(x, status)
        PROVE  launch'[s] = launch[s]
    BY <2>1, Types DEF Mark
  <2>2. ASSUME NEW k, NEW q, \A x \in ToSet(q) : launch[x] = None, WriteAccepted(k, q)
        PROVE  launch'[s] = launch[s]
    BY <2>2 DEF WriteAccepted
  <2> QED  BY <2>1, <2>2, AssignmentsMove
<1> QED  BY <1>1, LaunchInvariant, PTL DEF Spec, LaunchSettlesOnce

\* A batch is accepted at once and for good.
THEOREM BatchesAreWhole == Spec => BatchIsWhole
<1>1. LaunchInv /\ [Next]_vars =>
        [\A k \in Sessions \cup BatchKeys : members(k) # {} => members(k)' = members(k)]_batch
  <2> SUFFICES ASSUME LaunchInv, [Next]_vars, NEW k \in Sessions \cup BatchKeys, members(k) # {}
               PROVE  members(k)' = members(k)
    OBVIOUS
  <2>1. CASE UNCHANGED batch
    BY <2>1 DEF members
  <2>2. ASSUME NEW h, NEW q, \A s \in ToSet(q) : launch[s] = None, WriteAccepted(h, q)
        PROVE  members(k)' = members(k)
    <3>1. h # k
      BY <2>2 DEF WriteAccepted
    <3>2. ASSUME NEW s \in Sessions PROVE batch'[s] = k <=> batch[s] = k
      <4>1. s \in ToSet(q) => batch[s] # k
        BY <2>2, LaunchAssumption DEF LaunchInv, RecordSound
      <4> QED  BY <2>2, <3>1, <4>1 DEF WriteAccepted
    <3> QED  BY <3>2 DEF members
  <2> QED  BY <2>1, <2>2, AssignmentsMove
<1> QED  BY <1>1, LaunchInvariant, PTL DEF Spec, BatchIsWhole

-----------------------------------------------------------------------------
(* Records change only through the store's methods.                        *)

\* The store that the module is mapped to has the record operators used here.
LEMMA SameOperators ==
  /\ StoreAPI!None = None /\ StoreAPI!NewWorker = NewWorker
  /\ \A w : StoreAPI!isTerminal(w) <=> isTerminal(w)
  /\ \A w, run : StoreAPI!recordLaunched(w, run) = recordLaunched(w, run)
  /\ \A w : StoreAPI!recordLaunchFailed(w) = recordLaunchFailed(w)
  /\ \A w, instant : StoreAPI!setWorkerDeadline(w, instant) = setWorkerDeadline(w, instant)
<1>1. StoreAPI!None = None /\ StoreAPI!NewWorker = NewWorker
  BY DEF StoreAPI!None, StoreAPI!NewWorker, NewWorker, NoDeadline, StoreAPI!NoDeadline
<1>2. ASSUME NEW w PROVE StoreAPI!isTerminal(w) <=> isTerminal(w)
  BY DEF StoreAPI!isTerminal, StoreAPI!TerminalStatuses
<1>3. ASSUME NEW w, NEW run PROVE StoreAPI!recordLaunched(w, run) = recordLaunched(w, run)
  BY DEF StoreAPI!isTerminal, StoreAPI!TerminalStatuses, StoreAPI!recordLaunched, recordLaunched
<1>4. ASSUME NEW w PROVE StoreAPI!recordLaunchFailed(w) = recordLaunchFailed(w)
  BY DEF StoreAPI!isTerminal, StoreAPI!TerminalStatuses, StoreAPI!recordLaunchFailed, recordLaunchFailed,
     StoreAPI!finish, finish, StoreAPI!None
<1>5. ASSUME NEW w, NEW instant PROVE StoreAPI!setWorkerDeadline(w, instant) = setWorkerDeadline(w, instant)
  BY DEF StoreAPI!setWorkerDeadline, setWorkerDeadline
<1> QED  BY <1>1, <1>2, <1>3, <1>4, <1>5

\* A cancellation and an expiry depend on the assignment only through whether it is
\* being launched, so an assignment not yet accepted may stand for an accepted one.
LEMMA SameDecisions ==
  ASSUME NEW w \in Worker, NEW status, NEW other, status = "launching" <=> other = "launching"
  PROVE  /\ \A reason : StoreAPI!requestWorkerCancellation(w, reason, other) = requestWorkerCancellation(w, reason, status)
         /\ \A at : StoreAPI!expireWorker(w, at, other) = expireWorker(w, at, status)
<1>1. ASSUME NEW reason
      PROVE  StoreAPI!requestWorkerCancellation(w, reason, other) = requestWorkerCancellation(w, reason, status)
  BY DEF StoreAPI!isTerminal, StoreAPI!TerminalStatuses, StoreAPI!isBound, StoreAPI!requestWorkerCancellation,
     requestWorkerCancellation
<1>2. ASSUME NEW at PROVE StoreAPI!expireWorker(w, at, other) = expireWorker(w, at, status)
  BY DEF StoreAPI!isTerminal, StoreAPI!TerminalStatuses, StoreAPI!isBound, StoreAPI!expireWorker, expireWorker,
     StoreAPI!finish, finish, StoreAPI!None, StoreAPI!isOverdue, isOverdue, StoreAPI!NoDeadline, NoDeadline
<1> QED  BY <1>1, <1>2

\* The assignments as the store sees them: one that is not accepted yet is about to be.
Shown == [s \in Sessions |-> IF launch[s] = None THEN "accepted" ELSE launch[s]]

\* A record that this module writes passes the schema check of persist.
LEMMA RecordPersists ==
  ASSUME LaunchInv', NEW s \in Sessions, NEW w \in Worker, Store(s, w), worker \in [Sessions -> Worker]
  PROVE  StoreAPI!Persist(s, w)
<1>1. worker' = [worker EXCEPT ![s] = w] /\ worker'[s] = w
  BY DEF Store
<1>2. RecordSound(s)'
  BY DEF LaunchInv
<1>3. StoreAPI!Storable(w)
  BY <1>1, <1>2 DEF RecordSound, StoreAPI!Storable, StoreAPI!isTerminal, StoreAPI!TerminalStatuses,
     StoreAPI!StopReasonsByStatus, StopReasonsByStatus, StoreAPI!SuccessReasons, SuccessReasons,
     StoreAPI!FailureReasons, FailureReasons
<1> QED  BY <1>1, <1>3 DEF StoreAPI!Persist

\* A step that leaves the records alone and accepts at most new assignments is none of
\* the store.
LEMMA StoreRests ==
  ASSUME UNCHANGED worker,
         \A s \in Sessions : launch'[s] = launch[s] \/ (launch[s] = None /\ launch'[s] = "accepted")
  PROVE  UNCHANGED StoreAPI!vars
<1>1. Shown' = Shown
  BY DEF Shown
<1> QED  BY <1>1 DEF Shown, StoreAPI!vars

\* Marking an assignment, as the store sees it.
LEMMA ShownMoves ==
  ASSUME launch \in [Sessions -> AssignmentStatuses], NEW s \in Sessions, NEW status, status # None, Mark(s, status)
  PROVE  Shown' = [Shown EXCEPT ![s] = status]
<1>1. launch' = [launch EXCEPT ![s] = status]
  BY DEF Mark
<1> QED  BY <1>1 DEF Shown

\* Reserving an assignment is recordLaunchEvent("launching").
LEMMA ReserveIsStored ==
  ASSUME LaunchInv, NEW v \in Servers, Reserve(v)
  PROVE  StoreAPI!Next
<1>1. pass[v].pc \in {"reserve", "refuse"} /\ UNCHANGED worker
  BY DEF Reserve
<1>2. PICK s \in Sessions : s = pass[v].current
  BY <1>1, Visiting DEF Between
<1>3. launch[s] = "accepted" /\ Shown[s] = "accepted" /\ launch \in [Sessions -> AssignmentStatuses]
  BY <1>1, <1>2, Types DEF LaunchInv, PassSound, Early, Shown
<1>4. \/ isTerminal(worker[s]) /\ Mark(s, "failed")
      \/ ~isTerminal(worker[s]) /\ Mark(s, "launching")
  BY <1>2 DEF Reserve
<1>5. \/ isTerminal(worker[s]) /\ Shown' = [Shown EXCEPT ![s] = "failed"]
      \/ ~isTerminal(worker[s]) /\ Shown' = [Shown EXCEPT ![s] = "launching"]
  BY <1>3, <1>4, ShownMoves
<1>6. StoreAPI!RecordLaunching(s)
  BY <1>1, <1>3, <1>5, SameOperators DEF StoreAPI!RecordLaunching, Shown
<1> QED  BY <1>6 DEF StoreAPI!Next, StoreAPI!SessionNext

\* The outcome of a launch is recordLaunchEvent("launched") or ("failed").
LEMMA OutcomeIsStored ==
  ASSUME LaunchInv, LaunchInv', NEW v \in Servers, Bind(v) \/ Fail(v)
  PROVE  StoreAPI!Next
<1>1. pass[v].pc \in {"bind", "fail"}
  BY DEF Bind, Fail, At
<1>2. PICK s \in Sessions : s = pass[v].current
  BY <1>1, Visiting DEF Between
<1>3. /\ launch[s] = "launching" /\ Shown[s] = "launching" /\ launch \in [Sessions -> AssignmentStatuses]
      /\ worker \in [Sessions -> Worker] /\ worker[s] \in Worker
  BY <1>1, <1>2, Types DEF LaunchInv, PassSound, Late, Shown
<1>4. worker[s].runId = NoRun
  BY <1>3 DEF LaunchInv, RecordSound
<1>5. CASE Bind(v)
  <2>1. Mark(s, "launched") /\ Store(s, recordLaunched(worker[s], s)) /\ s \in Runs
    BY <1>2, <1>5, LaunchAssumption DEF Bind
  <2>2. recordLaunched(worker[s], s) \in Worker
    BY <1>3, <2>1, LaunchedRecord
  <2>3. StoreAPI!Persist(s, StoreAPI!recordLaunched(worker[s], s))
    BY <1>3, <2>1, <2>2, RecordPersists, SameOperators
  <2>4. Shown' = [Shown EXCEPT ![s] = "launched"]
    BY <1>3, <2>1, ShownMoves
  <2>5. StoreAPI!RecordLaunched(s, s)
    BY <1>3, <1>4, <2>3, <2>4 DEF StoreAPI!RecordLaunched, Shown
  <2> QED  BY <2>1, <2>5 DEF StoreAPI!Next, StoreAPI!SessionNext
<1>6. CASE Fail(v)
  <2>1. Mark(s, "failed") /\ Store(s, recordLaunchFailed(worker[s]))
    BY <1>2, <1>6 DEF Fail
  <2>2. recordLaunchFailed(worker[s]) \in Worker
    BY <1>3, FailedRecord
  <2>3. StoreAPI!Persist(s, StoreAPI!recordLaunchFailed(worker[s]))
    BY <1>3, <2>1, <2>2, RecordPersists, SameOperators
  <2>4. Shown' = [Shown EXCEPT ![s] = "failed"]
    BY <1>3, <2>1, ShownMoves
  <2>5. StoreAPI!RecordLaunchFailed(s)
    BY <1>3, <2>3, <2>4 DEF StoreAPI!RecordLaunchFailed, Shown
  <2> QED  BY <2>5 DEF StoreAPI!Next, StoreAPI!SessionNext
<1> QED  BY <1>5, <1>6

\* The callers use requestWorkerCancellation, setWorkerDeadline and expireWorker.
LEMMA CallersAreStored ==
  ASSUME LaunchInv, LaunchInv', NEW s \in Sessions, Cancel(s) \/ SetDeadline(s) \/ Expire(s)
  PROVE  StoreAPI!Next
<1>1. Shown' = Shown
  BY DEF Cancel, SetDeadline, Expire, Shown
<1>2. /\ worker \in [Sessions -> Worker] /\ worker[s] \in Worker /\ launch[s] \in AssignmentStatuses /\ RecordSound(s)
      /\ launch[s] = "launching" <=> Shown[s] = "launching"
  BY Types DEF Shown, LaunchInv
<1>3. CASE Cancel(s)
  <2> DEFINE w == requestWorkerCancellation(worker[s], "user_requested", launch[s])
  <2>1. Store(s, w) /\ ~isTerminal(worker[s]) /\ worker[s].status # "canceling"
    BY <1>3 DEF Cancel
  <2>2. w \in Worker
    BY <1>2, <2>1, CancelRecord
  <2>3. StoreAPI!requestWorkerCancellation(worker[s], "user_requested", Shown[s]) = w
    BY <1>2, SameDecisions
  <2>4. StoreAPI!Persist(s, w)
    BY <1>2, <2>1, <2>2, RecordPersists
  <2> HIDE DEF w
  <2>5. StoreAPI!RequestCancellation(s, "user_requested")
    BY <1>1, <2>3, <2>4 DEF StoreAPI!RequestCancellation, Shown
  <2> QED  BY <2>5, ReasonsAssumption DEF StoreAPI!Next, StoreAPI!SessionNext
<1>4. CASE SetDeadline(s)
  <2>1. Store(s, setWorkerDeadline(worker[s], 1)) /\ ~isTerminal(worker[s])
    BY <1>4 DEF SetDeadline
  <2>2. setWorkerDeadline(worker[s], 1) \in Worker
    BY <1>2 DEF setWorkerDeadline
  <2>3. StoreAPI!Persist(s, StoreAPI!setWorkerDeadline(worker[s], 1))
    BY <1>2, <2>1, <2>2, RecordPersists, SameOperators
  <2>4. StoreAPI!SetDeadline(s, 1)
    BY <1>1, <2>1, <2>3, SameOperators DEF StoreAPI!SetDeadline, Shown
  <2> QED  BY <2>4 DEF StoreAPI!Next, StoreAPI!SessionNext
<1>5. CASE Expire(s)
  <2> DEFINE w == expireWorker(worker[s], 1, launch[s])
  <2>1. Store(s, w) /\ isOverdue(worker[s], 1)
    BY <1>5 DEF Expire
  <2>2. w \in Worker
    BY <1>2, <2>1, ExpiredRecord DEF RecordSound
  <2>3. StoreAPI!setWorkerDeadline(worker[s], worker[s].deadline) = worker[s]
    BY <1>2 DEF StoreAPI!setWorkerDeadline
  <2>4. StoreAPI!expireWorker(worker[s], 1, Shown[s]) = w
    BY <1>2, SameDecisions
  <2>5. StoreAPI!Persist(s, w)
    BY <1>2, <2>1, <2>2, RecordPersists
  <2> HIDE DEF w
  <2>6. StoreAPI!Expire(s)
    BY <1>1, <2>3, <2>4, <2>5 DEF StoreAPI!Expire, Shown
  <2> QED  BY <2>6 DEF StoreAPI!Next, StoreAPI!SessionNext
<1> QED  BY <1>3, <1>4, <1>5

\* The launch service, the callers and the restarts change session records only through
\* the methods of the store: the specification implements that of the store's API.
THEOREM LaunchUsesStoreAPI == Spec => UsesStoreAPI
<1>1. Init => StoreAPI!Init
  <2> SUFFICES ASSUME Init PROVE StoreAPI!Init
    OBVIOUS
  <2>1. worker = [s \in Sessions |-> StoreAPI!NewWorker]
    BY SameOperators DEF Init
  <2>2. Shown \in [Sessions -> {None, "accepted"}]
    BY DEF Init, Shown
  <2>3. 1 \in 0..1
    OBVIOUS
  <2> QED  BY <2>1, <2>2, <2>3, SameOperators DEF StoreAPI!Init, Shown
<1>2. LaunchInv /\ LaunchInv' /\ [Next]_vars => [StoreAPI!Next]_(StoreAPI!vars)
  <2> SUFFICES ASSUME LaunchInv, LaunchInv', [Next]_vars PROVE [StoreAPI!Next]_(StoreAPI!vars)
    OBVIOUS
  <2>1. ASSUME NEW v \in Servers, NEW s \in Sessions, Accept(v, s) PROVE UNCHANGED StoreAPI!vars
    <3>1. worker' = worker
      BY <2>1 DEF Accept, Submit
    <3>2. acceptLaunch(s)
      BY <2>1 DEF Accept
    <3>3. CASE UNCHANGED <<launch, accepted>>
      BY <3>1, <3>3, StoreRests
    <3>4. CASE launch[s] = None /\ WriteAccepted(s, <<s>>)
      <4>1. \A x \in ToSet(<<s>>) : x = s
        BY DEF ToSet
      <4>2. \A x \in Sessions : launch'[x] = launch[x] \/ (launch[x] = None /\ launch'[x] = "accepted")
        BY <3>4, <4>1 DEF WriteAccepted
      <4> QED  BY <3>1, <4>2, StoreRests
    <3> QED  BY <3>2, <3>3, <3>4 DEF acceptLaunch
  <2>2. ASSUME NEW v \in Servers, NEW caller \in Callers, NEW k \in BatchKeys, NEW q \in BatchRequests,
               AcceptBatch(v, caller, k, q)
        PROVE  UNCHANGED StoreAPI!vars
    <3>1. worker' = worker
      BY <2>2 DEF AcceptBatch, Submit
    <3>2. acceptLaunchBatch(k, q)
      BY <2>2 DEF AcceptBatch
    <3>3. CASE UNCHANGED <<launch, accepted>>
      BY <3>1, <3>3, StoreRests
    <3>4. CASE (\A s \in ToSet(q) : launch[s] = None) /\ WriteAccepted(k, q)
      <4>1. \A x \in Sessions : launch'[x] = launch[x] \/ (launch[x] = None /\ launch'[x] = "accepted")
        BY <3>4 DEF WriteAccepted
      <4> QED  BY <3>1, <4>1, StoreRests
    <3> QED  BY <3>2, <3>3, <3>4 DEF acceptLaunchBatch
  <2>3. ASSUME UNCHANGED <<worker, launch>> PROVE UNCHANGED StoreAPI!vars
    <3>1. worker' = worker /\ launch' = launch
      BY <2>3
    <3>2. \A s \in Sessions : launch'[s] = launch[s] \/ (launch[s] = None /\ launch'[s] = "accepted")
      BY <3>1
    <3> QED  BY <3>1, <3>2, StoreRests
  <2>4. ASSUME NEW v \in Servers, PassStep(v) PROVE [StoreAPI!Next]_(StoreAPI!vars)
    <3>1. UNCHANGED durable \/ Reserve(v) \/ Bind(v) \/ Fail(v)
      BY <2>4 DEF PassStep, List, PassEnds, Dispatch, LockFails, Authorize, Find, Send, Answer, Lookup
    <3> QED  BY <2>3, <3>1, ReserveIsStored, OutcomeIsStored DEF durable
  <2>5. ASSUME NEW v \in Servers, ServerStep(v) PROVE [StoreAPI!Next]_(StoreAPI!vars)
    <3>1. \/ UNCHANGED durable \/ PassStep(v)
          \/ \E s \in Sessions : Accept(v, s)
          \/ \E caller \in Callers, k \in BatchKeys, q \in BatchRequests : AcceptBatch(v, caller, k, q)
      BY <2>5 DEF ServerStep, ScheduleDispatch, ToolDispatches, TimerFires, Crash, Stop, Exit, Start
    <3> QED  BY <2>1, <2>2, <2>3, <2>4, <3>1 DEF durable
  <2>6. ASSUME NEW s \in Sessions, Cancel(s) \/ SetDeadline(s) \/ Expire(s) \/ ProviderLaunches(s)
        PROVE  [StoreAPI!Next]_(StoreAPI!vars)
    <3>1. UNCHANGED durable \/ Cancel(s) \/ SetDeadline(s) \/ Expire(s)
      BY <2>6 DEF ProviderLaunches
    <3> QED  BY <2>3, <3>1, CallersAreStored DEF durable
  <2>7. CASE UNCHANGED vars
    BY <2>3, <2>7 DEF vars, durable
  <2> QED  BY <2>5, <2>6, <2>7 DEF Next
<1> QED  BY <1>1, <1>2, LaunchInvariant, PTL DEF Spec, UsesStoreAPI, StoreAPI!Spec

-----------------------------------------------------------------------------
(* What is proved of the store holds of the sessions of Launch.            *)

\* The proofs about the store that the module is mapped to.
P == INSTANCE WorkerStoreProofs WITH
    launch <- [s \in Sessions |-> IF launch[s] = None THEN "accepted" ELSE launch[s]],
    captured <- [s \in Sessions |-> None],
    clock <- 1, MaxTime <- 1

\* The constants are as the store assumes them to be.
LEMMA StoreConstants ==
  /\ NoRun \notin Runs /\ "user_requested" \in CancelReasons
  /\ CancelReasons \subseteq {"user_requested", "orchestrator_shutdown", "superseded", "policy_revoked"}
  /\ 1 \in Nat
  BY RunsAssumption, ReasonsAssumption

\* The methods of the store in its proofs are those of the store, with their definitions.
LEMMA SameDeliveries ==
  ASSUME NEW w
  PROVE  /\ P!releaseCancellationDelivery(w) = StoreAPI!releaseCancellationDelivery(w)
         /\ P!markCancellationDelivered(w) = StoreAPI!markCancellationDelivered(w)
         /\ P!handleUnsupportedCancellation(w) = StoreAPI!handleUnsupportedCancellation(w)
         /\ P!clearWorkerCancellation(w) = StoreAPI!clearWorkerCancellation(w)
         /\ P!releaseProviderStop(w) = StoreAPI!releaseProviderStop(w)
         /\ P!markProviderStopDelivered(w) = StoreAPI!markProviderStopDelivered(w)
         /\ P!markProviderStopUnsupported(w) = StoreAPI!markProviderStopUnsupported(w)
         /\ P!claimCancellationDelivery(w) = StoreAPI!claimCancellationDelivery(w)
         /\ P!canClaimCancellationDelivery(w) <=> StoreAPI!canClaimCancellationDelivery(w)
         /\ P!claimProviderStop(w) = StoreAPI!claimProviderStop(w)
         /\ P!canClaimProviderStop(w) <=> StoreAPI!canClaimProviderStop(w)
         /\ P!recoverLifecycleDeliveryClaims(w) = StoreAPI!recoverLifecycleDeliveryClaims(w)
<1> USE DEF P!isTerminal, StoreAPI!isTerminal, P!TerminalStatuses, StoreAPI!TerminalStatuses, P!None, StoreAPI!None,
            P!isBound, StoreAPI!isBound, P!isExpired, StoreAPI!isExpired
<1>1. P!releaseCancellationDelivery(w) = StoreAPI!releaseCancellationDelivery(w)
  BY DEF P!releaseCancellationDelivery, StoreAPI!releaseCancellationDelivery
<1>2. P!markCancellationDelivered(w) = StoreAPI!markCancellationDelivered(w)
  BY DEF P!markCancellationDelivered, StoreAPI!markCancellationDelivered
<1>3. P!handleUnsupportedCancellation(w) = StoreAPI!handleUnsupportedCancellation(w)
  BY DEF P!handleUnsupportedCancellation, StoreAPI!handleUnsupportedCancellation, P!withdrawCancellation,
     StoreAPI!withdrawCancellation
<1>4. P!clearWorkerCancellation(w) = StoreAPI!clearWorkerCancellation(w)
  BY DEF P!clearWorkerCancellation, StoreAPI!clearWorkerCancellation, P!withdrawCancellation,
     StoreAPI!withdrawCancellation
<1>5. P!releaseProviderStop(w) = StoreAPI!releaseProviderStop(w)
  BY DEF P!releaseProviderStop, StoreAPI!releaseProviderStop
<1>6. P!markProviderStopDelivered(w) = StoreAPI!markProviderStopDelivered(w)
  BY DEF P!markProviderStopDelivered, StoreAPI!markProviderStopDelivered
<1>7. P!markProviderStopUnsupported(w) = StoreAPI!markProviderStopUnsupported(w)
  BY DEF P!markProviderStopUnsupported, StoreAPI!markProviderStopUnsupported
<1>8. P!claimCancellationDelivery(w) = StoreAPI!claimCancellationDelivery(w)
  BY DEF P!claimCancellationDelivery, StoreAPI!claimCancellationDelivery
<1>9. P!canClaimCancellationDelivery(w) <=> StoreAPI!canClaimCancellationDelivery(w)
  BY DEF P!canClaimCancellationDelivery, StoreAPI!canClaimCancellationDelivery
<1>10. P!claimProviderStop(w) = StoreAPI!claimProviderStop(w)
  BY DEF P!claimProviderStop, StoreAPI!claimProviderStop
<1>11. P!canClaimProviderStop(w) <=> StoreAPI!canClaimProviderStop(w)
  BY DEF P!canClaimProviderStop, StoreAPI!canClaimProviderStop
<1>12. P!recoverLifecycleDeliveryClaims(w) = StoreAPI!recoverLifecycleDeliveryClaims(w)
  BY <1>5 DEF P!recoverLifecycleDeliveryClaims, StoreAPI!recoverLifecycleDeliveryClaims, P!recoverStopClaim,
     StoreAPI!recoverStopClaim, P!recoverCancellationClaim, StoreAPI!recoverCancellationClaim,
     P!releaseProviderStop, StoreAPI!releaseProviderStop
<1> QED  BY <1>1, <1>2, <1>3, <1>4, <1>5, <1>6, <1>7, <1>8, <1>9, <1>10, <1>11, <1>12

\* So are the methods that start, end and recover a session, and the schema check.
LEMMA SameEndings ==
  ASSUME NEW w
  PROVE  /\ \A reason, l : P!requestWorkerCancellation(w, reason, l) = StoreAPI!requestWorkerCancellation(w, reason, l)
         /\ \A at, l : P!expireWorker(w, at, l) = StoreAPI!expireWorker(w, at, l)
         /\ \A status, given, result, keep : P!settleWorkerCancellation(w, status, given, result, keep)
                                               = StoreAPI!settleWorkerCancellation(w, status, given, result, keep)
         /\ \A status, given, result : P!recordWorkerTerminal(w, status, given, result)
                                         = StoreAPI!recordWorkerTerminal(w, status, given, result)
         /\ \A status : P!recordWorkerResult(w, status) = StoreAPI!recordWorkerResult(w, status)
         /\ \A i : P!recordLaunched(w, i) = StoreAPI!recordLaunched(w, i)
         /\ P!recordLaunchFailed(w) = StoreAPI!recordLaunchFailed(w)
         /\ \A i, evidence : P!bindWorkerRun(w, i, evidence) = StoreAPI!bindWorkerRun(w, i, evidence)
         /\ \A i : P!canBindWorkerRun(w, i) <=> StoreAPI!canBindWorkerRun(w, i)
         /\ \A i : P!setWorkerDeadline(w, i) = StoreAPI!setWorkerDeadline(w, i)
         /\ \A alive : P!reconcile(w, alive) = StoreAPI!reconcile(w, alive)
         /\ \A claim : P!captureResult(w, claim) = StoreAPI!captureResult(w, claim)
         /\ P!Storable(w) <=> StoreAPI!Storable(w)
<1> USE DEF P!isTerminal, StoreAPI!isTerminal, P!TerminalStatuses, StoreAPI!TerminalStatuses, P!None, StoreAPI!None,
            P!isBound, StoreAPI!isBound, P!finish, StoreAPI!finish
<1>1. \A reason, l : P!requestWorkerCancellation(w, reason, l) = StoreAPI!requestWorkerCancellation(w, reason, l)
  BY DEF P!requestWorkerCancellation, StoreAPI!requestWorkerCancellation
<1>2. \A at, l : P!expireWorker(w, at, l) = StoreAPI!expireWorker(w, at, l)
  BY DEF P!expireWorker, StoreAPI!expireWorker, P!isOverdue, StoreAPI!isOverdue, P!NoDeadline, StoreAPI!NoDeadline
<1>3. \A status, given, result, keep : P!settleWorkerCancellation(w, status, given, result, keep)
                                          = StoreAPI!settleWorkerCancellation(w, status, given, result, keep)
  BY DEF P!settleWorkerCancellation, StoreAPI!settleWorkerCancellation, P!defaultStopReason, StoreAPI!defaultStopReason
<1>4. \A status, given, result :
          P!recordWorkerTerminal(w, status, given, result) = StoreAPI!recordWorkerTerminal(w, status, given, result)
  BY DEF P!recordWorkerTerminal, StoreAPI!recordWorkerTerminal, P!defaultStopReason, StoreAPI!defaultStopReason
<1>5. \A status : P!recordWorkerResult(w, status) = StoreAPI!recordWorkerResult(w, status)
  BY DEF P!recordWorkerResult, StoreAPI!recordWorkerResult
<1>6. \A i : P!recordLaunched(w, i) = StoreAPI!recordLaunched(w, i)
  BY DEF P!recordLaunched, StoreAPI!recordLaunched
<1>7. P!recordLaunchFailed(w) = StoreAPI!recordLaunchFailed(w)
  BY DEF P!recordLaunchFailed, StoreAPI!recordLaunchFailed
<1>8. \A i, evidence : P!bindWorkerRun(w, i, evidence) = StoreAPI!bindWorkerRun(w, i, evidence)
  BY DEF P!bindWorkerRun, StoreAPI!bindWorkerRun
<1>9. \A i : P!canBindWorkerRun(w, i) <=> StoreAPI!canBindWorkerRun(w, i)
  BY DEF P!canBindWorkerRun, StoreAPI!canBindWorkerRun
<1>10. \A i : P!setWorkerDeadline(w, i) = StoreAPI!setWorkerDeadline(w, i)
  BY DEF P!setWorkerDeadline, StoreAPI!setWorkerDeadline
<1>11. \A alive : P!reconcile(w, alive) = StoreAPI!reconcile(w, alive)
  BY DEF P!reconcile, StoreAPI!reconcile
<1>12. \A claim : P!captureResult(w, claim) = StoreAPI!captureResult(w, claim)
  BY DEF P!captureResult, StoreAPI!captureResult, P!captureStatus, StoreAPI!captureStatus, P!captureStopReason,
     StoreAPI!captureStopReason
<1>13. P!Storable(w) <=> StoreAPI!Storable(w)
  BY DEF P!Storable, StoreAPI!Storable, P!StopReasonsByStatus, P!SuccessReasons, P!FailureReasons,
     StoreAPI!StopReasonsByStatus, StoreAPI!SuccessReasons, StoreAPI!FailureReasons
<1> QED  BY <1>1, <1>2, <1>3, <1>4, <1>5, <1>6, <1>7, <1>8, <1>9, <1>10, <1>11, <1>12, <1>13

\* A call of a method of the store is one in its proofs.
LEMMA SameCalls ==
  ASSUME NEW s \in Sessions, StoreAPI!SessionNext(s)
  PROVE  P!SessionNext(s)
<1>0. ASSUME NEW w PROVE P!Persist(s, w) <=> StoreAPI!Persist(s, w)
  BY SameEndings DEF P!Persist, StoreAPI!Persist
<1> DEFINE shown == [x \in Sessions |-> IF launch[x] = None THEN "accepted" ELSE launch[x]]
<1>1. ASSUME NEW run \in Runs, NEW evidence \in BOOLEAN, StoreAPI!BindRun(s, run, evidence)
      PROVE  P!BindRun(s, run, evidence)
  BY <1>0, <1>1, SameEndings DEF P!BindRun, StoreAPI!BindRun
<1>2. ASSUME NEW instant \in 1..1, StoreAPI!SetDeadline(s, instant) PROVE P!SetDeadline(s, instant)
  BY <1>0, <1>2, SameEndings DEF P!SetDeadline, StoreAPI!SetDeadline, P!isTerminal, StoreAPI!isTerminal,
     P!TerminalStatuses, StoreAPI!TerminalStatuses
<1>3. ASSUME NEW reason \in CancelReasons, StoreAPI!RequestCancellation(s, reason)
      PROVE  P!RequestCancellation(s, reason)
  BY <1>0, <1>3, SameEndings DEF P!RequestCancellation, StoreAPI!RequestCancellation
<1>4. StoreAPI!ClaimCancellation(s) => P!ClaimCancellation(s)
  BY <1>0, SameDeliveries DEF P!ClaimCancellation, StoreAPI!ClaimCancellation
<1>5. StoreAPI!ClaimStop(s) => P!ClaimStop(s)
  BY <1>0, SameDeliveries DEF P!ClaimStop, StoreAPI!ClaimStop
<1>6. StoreAPI!Deliver(s) => P!Deliver(s)
  BY <1>0, SameDeliveries DEF P!Deliver, StoreAPI!Deliver
<1>r. \A status : P!StopReasonsByStatus(status) = StoreAPI!StopReasonsByStatus(status) /\ P!None = StoreAPI!None
  BY DEF P!StopReasonsByStatus, P!SuccessReasons, P!FailureReasons, StoreAPI!StopReasonsByStatus,
     StoreAPI!SuccessReasons, StoreAPI!FailureReasons, P!None, StoreAPI!None
<1>7. ASSUME NEW status, StoreAPI!Settle(s, status) PROVE P!Settle(s, status)
  <2>1. PICK reason \in StoreAPI!StopReasonsByStatus(status) \cup {StoreAPI!None},
             result \in {StoreAPI!None, "full", "partial"}, keep \in BOOLEAN :
            StoreAPI!Persist(s, StoreAPI!settleWorkerCancellation(worker[s], status, reason, result, keep))
    BY <1>7 DEF StoreAPI!Settle
  <2>2. P!Persist(s, P!settleWorkerCancellation(worker[s], status, reason, result, keep))
    BY <1>0, <2>1, SameEndings
  <2> QED  BY <1>7, <1>r, <2>1, <2>2 DEF P!Settle, StoreAPI!Settle
<1>8. ASSUME NEW status, StoreAPI!RecordTerminal(s, status) PROVE P!RecordTerminal(s, status)
  BY <1>0, <1>8, <1>r, SameEndings DEF P!RecordTerminal, StoreAPI!RecordTerminal
<1>9. ASSUME StoreAPI!Expire(s) PROVE P!Expire(s)
  <2>1. PICK instant \in {worker[s].deadline} \cup 1..1 :
            StoreAPI!Persist(s, StoreAPI!expireWorker(StoreAPI!setWorkerDeadline(worker[s], instant), 1, shown[s]))
    BY <1>9 DEF StoreAPI!Expire
  <2>2. P!setWorkerDeadline(worker[s], instant) = StoreAPI!setWorkerDeadline(worker[s], instant)
    BY SameEndings
  <2>3. P!expireWorker(P!setWorkerDeadline(worker[s], instant), 1, shown[s])
            = StoreAPI!expireWorker(StoreAPI!setWorkerDeadline(worker[s], instant), 1, shown[s])
    BY <2>2, SameEndings
  <2>4. P!Persist(s, P!expireWorker(P!setWorkerDeadline(worker[s], instant), 1, shown[s]))
    BY <1>0, <2>1, <2>3
  <2> QED  BY <1>9, <2>4 DEF P!Expire, StoreAPI!Expire
<1>10. ASSUME NEW claim, StoreAPI!Capture(s, claim) PROVE P!Capture(s, claim)
  BY <1>0, <1>10, SameEndings DEF P!Capture, StoreAPI!Capture, P!None, StoreAPI!None
<1>11. StoreAPI!RecordLaunching(s) => P!RecordLaunching(s)
  BY DEF P!RecordLaunching, StoreAPI!RecordLaunching, P!isTerminal, StoreAPI!isTerminal, P!TerminalStatuses,
     StoreAPI!TerminalStatuses, P!None, StoreAPI!None
<1>12. ASSUME NEW run, StoreAPI!RecordLaunched(s, run) PROVE P!RecordLaunched(s, run)
  BY <1>0, <1>12, SameEndings DEF P!RecordLaunched, StoreAPI!RecordLaunched
<1>13. StoreAPI!RecordLaunchFailed(s) => P!RecordLaunchFailed(s)
  BY <1>0, SameEndings DEF P!RecordLaunchFailed, StoreAPI!RecordLaunchFailed
<1>14. P!TerminalWorkerStatuses = StoreAPI!TerminalWorkerStatuses /\ P!Claims = StoreAPI!Claims
  BY DEF P!TerminalStatuses, StoreAPI!TerminalStatuses, P!TerminalWorkerStatuses, StoreAPI!TerminalWorkerStatuses,
     P!Claims, StoreAPI!Claims
<1> QED
  BY <1>1, <1>2, <1>3, <1>4, <1>5, <1>6, <1>7, <1>8, <1>9, <1>10, <1>11, <1>12, <1>13, <1>14
  DEF P!SessionNext, StoreAPI!SessionNext

\* While any number of servers dispatch, cancel, expire, crash and restart, a session
\* ends once, keeps its outcome, is bound to at most one run, and its cancellation is
\* whole: the launch service uses nothing but the store's API.
THEOREM LaunchedSessionsKeepContract == Spec => P!ImplementsContract /\ []P!CancellationIsWhole
<1>1. StoreAPI!Init => P!Init
  BY DEF StoreAPI!Init, P!Init, StoreAPI!NewWorker, P!NewWorker, StoreAPI!None, P!None, StoreAPI!NoDeadline, P!NoDeadline
<1>2. [StoreAPI!Next]_(StoreAPI!vars) => [P!Next]_(P!vars)
  <2>1. StoreAPI!Tick => P!Tick
    BY DEF StoreAPI!Tick, P!Tick
  <2>2. StoreAPI!RecoverClaims => P!RecoverClaims
    BY SameDeliveries, SameEndings DEF StoreAPI!RecoverClaims, P!RecoverClaims
  <2>3. ASSUME NEW alive, StoreAPI!Reconcile(alive) PROVE P!Reconcile(alive)
    BY <2>3, SameEndings DEF StoreAPI!Reconcile, P!Reconcile
  <2> QED  BY <2>1, <2>2, <2>3, SameCalls DEF StoreAPI!Next, P!Next, StoreAPI!vars, P!vars
<1>3. P!Spec => P!ImplementsContract
  BY P!StoreImplementsContract, StoreConstants
<1>4. P!Spec => [](P!CancellationIsWhole /\ P!RestorableStatus /\ P!ClaimIsRequested)
  BY P!CancellationsAreWhole, StoreConstants
<1> QED  BY <1>1, <1>2, <1>3, <1>4, LaunchUsesStoreAPI, PTL DEF UsesStoreAPI, StoreAPI!Spec, P!Spec
=============================================================================
