----------------------------- MODULE WriterLease -----------------------------
(***************************************************************************)
(* The writer lease of one workspace: the rows of workspace_leases and the *)
(* generation ledger (src/src/storage.ts), and the WorkspaceSafetyTool of  *)
(* each server instance over them (src/src/workspace-safety.ts).           *)
(*                                                                         *)
(* The tool's methods are synchronous, so an instance runs one at a time,  *)
(* but the lock file, the process table and the database are read and      *)
(* written one after the other, and other instances and crashes come in    *)
(* between: each of these accesses is a step.                              *)
(*                                                                         *)
(* Time is left open: every comparison with expires_at may go either way,  *)
(* as for a caller whose clock is wrong.  A process identity is the lease  *)
(* whose child it is; the probe of a live process may fail, and so may the *)
(* probe of a dead one whose PID is used again.  The events table is only  *)
(* appended to and never read by these operations; it is left out.         *)
(***************************************************************************)
EXTENDS Naturals, FiniteSets

CONSTANTS Instances, Free, Leases, NoLease,
          Targets,     \* schema versions an operator rolls back to
          Steals,      \* whether the lock of a paused instance may go stale
          MaxVersion   \* bound on the row version a heartbeat renews

ASSUME LeaseConstants ==
    /\ Free \notin Instances /\ NoLease \notin Leases
    /\ Targets \subseteq 0..2 /\ Steals \in BOOLEAN /\ MaxVersion \in Nat

VARIABLES version,  \* schema version of the registry
          ledger,   \* workspace_fencing.last_generation
          rows,     \* workspace_leases
          auth,     \* the LeaseAuthority its holder was last given
          child,    \* the writer process spawned under a lease
          lock,     \* the holder of the lock file
          held,     \* heldLocks of each instance
          up,       \* instances that have the registry open
          op,       \* the method an instance is in
          forgotten \* history: leases dropped with their table by a rollback

registryVars == <<version, ledger, rows, forgotten>>
vars == <<version, ledger, rows, auth, child, lock, held, up, op, forgotten>>

States == {"none", "active", "releasing", "released", "quarantined", "legacy"}
\* bound: process_id and process_start_token are set; token: the row has the
\* digest of the holder's fencing token.
Row == [state: States, gen: Nat, ver: Nat, bound: BOOLEAN, token: BOOLEAN]
NoRow == [state |-> "none", gen |-> 0, ver |-> 0, bound |-> FALSE, token |-> FALSE]
\* The table as migration 2 creates and drops it.
NoRows == [l \in Leases |-> NoRow]
Authority == [gen: Nat, ver: Nat, bound: BOOLEAN, held: BOOLEAN]
NoAuthority == [gen |-> 0, ver |-> 0, bound |-> FALSE, held |-> FALSE]
Ops == {"idle", "acquire", "release", "drop", "recover", "probe", "quarantine",
        "retire", "repair", "examine", "mend", "unlock", "rollback"}
Op == [at: Ops, lease: Leases \cup {NoLease}, seen: Row, own: BOOLEAN, target: 0..2]
Idle == [at |-> "idle", lease |-> NoLease, seen |-> NoRow, own |-> FALSE, target |-> 0]

TypeOK ==
    /\ version \in 0..3 /\ ledger \in Nat
    /\ rows \in [Leases -> Row] /\ auth \in [Leases -> Authority]
    /\ child \in [Leases -> {"none", "alive", "gone"}]
    /\ lock \in Instances \cup {Free}
    /\ held \in [Instances -> SUBSET Leases]
    /\ up \subseteq Instances
    /\ op \in [Instances -> Op]
    /\ forgotten \subseteq Leases

Init ==
    /\ version = 0 /\ ledger = 0
    /\ rows = NoRows /\ auth = [l \in Leases |-> NoAuthority]
    /\ child = [l \in Leases |-> "none"]
    /\ lock = Free /\ held = [i \in Instances |-> {}]
    /\ up = {} /\ op = [i \in Instances |-> Idle] /\ forgotten = {}

-----------------------------------------------------------------------------
(* The registry.                                                           *)

\* mode = 'writer' AND state != 'released'
Blocking(l) == rows[l].state \notin {"none", "released"}

\* ownershipPredicate: the authority names the row as it is now.
Owns(l) ==
    /\ rows[l].token
    /\ rows[l].gen = auth[l].gen /\ rows[l].ver = auth[l].ver
    /\ rows[l].bound = auth[l].bound

\* Update of one row; the version is counted up by n.
Write(l, state, n) == rows' = [rows EXCEPT ![l].state = state, ![l].ver = @ + n]

\* Mutant: the row version is not compared.
UnchangedIgnoresVersion(l, seen) == rows[l].gen = seen.gen

\* The observed row is still the one in the table.
Unchanged(l, seen) ==
    rows[l].gen = seen.gen /\ rows[l].ver = seen.ver /\ rows[l].state = seen.state

-----------------------------------------------------------------------------
(* The lock file and the process table, both external.                     *)

CanLock(i) == lock = Free \/ (Steals /\ lock # i)

\* releaseLock removes the lock; an instance whose lock was taken over may
\* remove the new holder's.
Unlock(i) == lock' \in {Free} \cup ({lock} \ {i})

\* ownerProcessState: a process that is not bound, is on another host or whose
\* start token cannot be read is unverifiable.
Probe(l, bound) ==
    IF ~bound THEN {"unverifiable"}
    ELSE {"unverifiable", IF child[l] = "alive" THEN "alive" ELSE "absent"}

Ready(i) == i \in up /\ op[i].at = "idle"
At(i, o) == op[i].at = o
Goto(i, o) == op' = [op EXCEPT ![i].at = o]
Return(i) == op' = [op EXCEPT ![i] = Idle]

-----------------------------------------------------------------------------
(* acquireWriter.                                                          *)

AcquireLock(i) ==
    /\ Ready(i) /\ CanLock(i)
    /\ lock' = i /\ Goto(i, "acquire")
    /\ UNCHANGED <<registryVars, auth, child, held, up>>

\* acquireWriterLease inserts the next generation unless some lease blocks.
AcquireLease(i) ==
    /\ At(i, "acquire") /\ version = 3
    /\ \A m \in Leases : ~Blocking(m)
    /\ \E l \in Leases :
        /\ auth[l].gen = 0
        /\ ledger' = ledger + 1
        /\ rows' = [rows EXCEPT ![l] = [state |-> "active", gen |-> ledger + 1,
                                        ver |-> 1, bound |-> FALSE, token |-> TRUE]]
        /\ auth' = [auth EXCEPT ![l] = [gen |-> ledger + 1, ver |-> 1, bound |-> FALSE, held |-> TRUE]]
        /\ held' = [held EXCEPT ![i] = @ \cup {l}]
    /\ Return(i)
    /\ UNCHANGED <<version, child, lock, up, forgotten>>

\* Denied, or the transaction failed: the lock is given back.
AcquireDenied(i) ==
    /\ At(i, "acquire")
    /\ Unlock(i) /\ Return(i)
    /\ UNCHANGED <<registryVars, auth, child, held, up>>

-----------------------------------------------------------------------------
(* The holder of an authority (external): it starts one child, binds it,   *)
(* renews the lease, and gives it back when it knows of no live child.     *)

Spawn(i, l) ==
    /\ Ready(i) /\ l \in held[i] /\ auth[l].held /\ child[l] = "none"
    /\ child' = [child EXCEPT ![l] = "alive"]
    /\ UNCHANGED <<registryVars, auth, lock, held, up, op>>

Exit(l) ==
    /\ child[l] = "alive"
    /\ child' = [child EXCEPT ![l] = "gone"]
    /\ UNCHANGED <<registryVars, auth, lock, held, up, op>>

\* bindWriterProcess; a stale authority is fenced and nothing changes.
BindProcess(i, l) ==
    /\ Ready(i) /\ l \in held[i] /\ auth[l].held /\ child[l] = "alive"
    /\ version = 3 /\ Owns(l) /\ rows[l].state = "active" /\ ~auth[l].bound
    /\ rows' = [rows EXCEPT ![l].bound = TRUE, ![l].ver = @ + 1]
    /\ auth' = [auth EXCEPT ![l].bound = TRUE, ![l].ver = @ + 1]
    /\ UNCHANGED <<version, ledger, child, lock, held, up, op, forgotten>>

\* Mutant: the renewal revives the row whatever its state.
HeartbeatRevives(i, l) ==
    /\ Ready(i) /\ l \in held[i] /\ auth[l].held /\ rows[l].ver < MaxVersion
    /\ version = 3 /\ rows[l].token /\ rows[l].gen = auth[l].gen
    /\ Write(l, "active", 1)
    /\ auth' = [auth EXCEPT ![l].ver = rows[l].ver + 1]
    /\ UNCHANGED <<version, ledger, child, lock, held, up, op, forgotten>>

\* heartbeatWriterLease of a lease that has not expired.
Heartbeat(i, l) ==
    /\ Ready(i) /\ l \in held[i] /\ auth[l].held /\ rows[l].ver < MaxVersion
    /\ version = 3 /\ Owns(l) /\ rows[l].state = "active"
    /\ Write(l, "active", 1)
    /\ auth' = [auth EXCEPT ![l].ver = @ + 1]
    /\ UNCHANGED <<version, ledger, child, lock, held, up, op, forgotten>>

-----------------------------------------------------------------------------
(* releaseWriter.                                                          *)

\* A bound process must be absent; the row itself only has to be there.  Without a
\* bound process the code checks nothing: that a holder does not release while the
\* process it spawned runs is assumed of the holder.
Release(i, l) ==
    /\ Ready(i) /\ l \in held[i] /\ auth[l].held
    /\ IF auth[l].bound
       THEN version >= 2 /\ rows[l].state # "none" /\ "absent" \in Probe(l, TRUE)
       ELSE child[l] # "alive"
    /\ op' = [op EXCEPT ![i].at = "release", ![i].lease = l]
    /\ UNCHANGED <<registryVars, auth, child, lock, held, up>>

\* releaseWriterLease: both phases in one transaction, then the lock; a stale
\* authority is fenced, a transaction may fail, and the lock is kept.
ReleaseLease(i) ==
    /\ At(i, "release")
    /\ LET l == op[i].lease IN
        \/ /\ version = 3 /\ Owns(l) /\ rows[l].state = "active"
           /\ Write(l, "released", 2) /\ Goto(i, "drop")
           /\ auth' = [auth EXCEPT ![l].held = FALSE]
        \/ Return(i) /\ UNCHANGED <<rows, auth>>
    /\ UNCHANGED <<version, ledger, child, lock, held, up, forgotten>>

dropLock(i) ==
    /\ At(i, "drop")
    /\ held' = [held EXCEPT ![i] = @ \ {op[i].lease}]
    /\ Unlock(i) /\ Return(i)
    /\ UNCHANGED <<registryVars, auth, child, up>>

-----------------------------------------------------------------------------
(* recoverWorkspace and repairQuarantine.                                  *)

\* blockingWriterLease, read before the lock is taken; a quarantined lease
\* and a lease of the instance itself are left alone.
Recover(i) ==
    /\ Ready(i) /\ version = 3
    /\ \E l \in Leases \ held[i] :
        /\ Blocking(l) /\ rows[l].state # "quarantined"
        /\ op' = [op EXCEPT ![i] = [Idle EXCEPT !.at = "recover", !.lease = l, !.seen = rows[l]]]
    /\ UNCHANGED <<registryVars, auth, child, lock, held, up>>

Repair(i, l) ==
    /\ Ready(i) /\ version = 3 /\ rows[l].state = "quarantined"
    /\ op' = [op EXCEPT ![i] = [Idle EXCEPT !.at = IF l \in held[i] THEN "examine" ELSE "repair",
                                            !.lease = l, !.seen = rows[l], !.own = l \in held[i]]]
    /\ UNCHANGED <<registryVars, auth, child, lock, held, up>>

TakeLock(i) ==
    /\ op[i].at \in {"recover", "repair"}
    /\ \/ CanLock(i) /\ lock' = i /\ Goto(i, IF At(i, "recover") THEN "probe" ELSE "examine")
       \/ lock # Free /\ Return(i) /\ UNCHANGED lock
    /\ UNCHANGED <<registryVars, auth, child, held, up>>

\* The failure of a repair that found its lock in heldLocks keeps it there.
GiveUp(i) == IF op[i].own THEN Return(i) ELSE Goto(i, "unlock")

\* ownerProcessState of the lease as it was read.
Examine(i) ==
    /\ op[i].at \in {"probe", "examine"}
    /\ \E p \in Probe(op[i].lease, op[i].seen.bound) :
        CASE At(i, "probe") -> Goto(i, IF p = "absent" THEN "retire" ELSE "quarantine")
          [] p = "absent" -> Goto(i, "mend")
          [] OTHER -> GiveUp(i)
    /\ UNCHANGED <<registryVars, auth, child, lock, held, up>>

\* quarantineWriterLease; the instance keeps the lock with the lease.
Quarantine(i) ==
    /\ At(i, "quarantine")
    /\ LET l == op[i].lease IN
        \/ /\ version = 3 /\ Unchanged(l, op[i].seen)
           /\ Write(l, "quarantined", 1)
           /\ held' = [held EXCEPT ![i] = @ \cup {l}] /\ Return(i)
        \/ Goto(i, "unlock") /\ UNCHANGED <<rows, held>>
    /\ UNCHANGED <<version, ledger, auth, child, lock, up, forgotten>>

\* recoverExpiredWriterLease: refused unless the observed lease has expired.
Retire(i) ==
    /\ At(i, "retire")
    /\ \/ /\ version = 3 /\ op[i].seen.state = "active" /\ Unchanged(op[i].lease, op[i].seen)
          /\ Write(op[i].lease, "released", 1)
       \/ UNCHANGED rows
    /\ Goto(i, "unlock")
    /\ UNCHANGED <<version, ledger, auth, child, lock, held, up, forgotten>>

\* repairQuarantinedWriterLease.
Mend(i) ==
    /\ At(i, "mend")
    /\ \/ /\ version = 3 /\ rows[op[i].lease].state = "quarantined"
          /\ Unchanged(op[i].lease, op[i].seen)
          /\ Write(op[i].lease, "released", 1)
          /\ Goto(i, IF op[i].own THEN "drop" ELSE "unlock")
       \/ GiveUp(i) /\ UNCHANGED rows
    /\ UNCHANGED <<version, ledger, auth, child, lock, held, up, forgotten>>

releaseLock(i) ==
    /\ At(i, "unlock")
    /\ Unlock(i) /\ Return(i)
    /\ UNCHANGED <<registryVars, auth, child, held, up>>

-----------------------------------------------------------------------------
(* Schema, retention and the life of an instance.                          *)

\* Version 3 gives the rows it finds generation 1, no token and no process,
\* quarantines those that were not released and raises the ledger to them.
Upgraded(r) ==
    IF r.state = "none" THEN r
    ELSE [state |-> IF r.state = "released" THEN "released" ELSE "quarantined",
          gen |-> 1, ver |-> 1, bound |-> FALSE, token |-> FALSE]
\* Version 2 keeps of a row whether it was released.
Downgraded(r) ==
    [NoRow EXCEPT !.state = IF r.state \in {"none", "released"} THEN r.state ELSE "legacy"]

\* One migration per transaction, on opening a registry or on request.  An
\* operator stops the other writers before a rollback.
Migrate ==
    /\ version < 3 /\ \A i \in Instances : ~At(i, "rollback")
    /\ version' = version + 1
    /\ IF version = 2
       THEN /\ rows' = [l \in Leases |-> Upgraded(rows[l])]
            /\ ledger' = IF ledger = 0 /\ rows' # rows THEN 1 ELSE ledger
       ELSE UNCHANGED <<rows, ledger>>
    /\ UNCHANGED <<auth, child, lock, held, up, op, forgotten>>

Rollback(i, target) ==
    /\ Ready(i) /\ up = {i} /\ target < version
    /\ op' = [op EXCEPT ![i].at = "rollback", ![i].target = target]
    /\ UNCHANGED <<registryVars, auth, child, lock, held, up>>

\* One down migration: version 3 loses the fencing columns and keeps the
\* ledger, version 2 loses the leases.
MigrateDown(i) ==
    /\ At(i, "rollback") /\ version > op[i].target
    /\ version' = version - 1
    /\ rows' = IF version = 3 THEN [l \in Leases |-> Downgraded(rows[l])]
               ELSE NoRows
    /\ forgotten' = IF version = 2 THEN {l \in Leases : auth[l].gen > 0} ELSE forgotten
    /\ UNCHANGED <<ledger, auth, child, lock, held, up, op>>

RolledBack(i) ==
    /\ At(i, "rollback") /\ version <= op[i].target
    /\ Return(i)
    /\ UNCHANGED <<registryVars, auth, child, lock, held, up>>

\* cleanup deletes leases released before the retention period.
Cleanup(i) ==
    /\ Ready(i) /\ version = 3
    /\ \E old \in SUBSET {l \in Leases : rows[l].state = "released"} :
        rows' = [l \in Leases |-> IF l \in old THEN NoRow ELSE rows[l]]
    /\ UNCHANGED <<version, ledger, auth, child, lock, held, up, op, forgotten>>

\* The constructor: the registry is at the current version.
Open(i) ==
    /\ i \notin up /\ version = 3 /\ \A j \in Instances : ~At(j, "rollback")
    /\ up' = up \cup {i}
    /\ UNCHANGED <<registryVars, auth, child, lock, held, op>>

\* close drops the locks and leaves the leases as they are.
Close(i) ==
    /\ Ready(i)
    /\ up' = up \ {i} /\ held' = [held EXCEPT ![i] = {}]
    /\ IF held[i] = {} THEN UNCHANGED lock ELSE Unlock(i)
    /\ auth' = [l \in Leases |-> IF l \in held[i] THEN [auth[l] EXCEPT !.held = FALSE] ELSE auth[l]]
    /\ UNCHANGED <<registryVars, child, op>>

\* A crash takes the authorities with it; the lock goes stale.
Crash(i) ==
    /\ i \in up
    /\ up' = up \ {i} /\ held' = [held EXCEPT ![i] = {}] /\ Return(i)
    /\ lock' = IF lock = i THEN Free ELSE lock
    /\ auth' = [l \in Leases |-> IF l \in held[i] THEN [auth[l] EXCEPT !.held = FALSE] ELSE auth[l]]
    /\ UNCHANGED <<registryVars, child>>

Step(i) ==
    \/ AcquireLock(i) \/ AcquireLease(i) \/ AcquireDenied(i)
    \/ ReleaseLease(i) \/ dropLock(i)
    \/ Recover(i) \/ TakeLock(i) \/ Examine(i) \/ Quarantine(i) \/ Retire(i) \/ Mend(i)
    \/ releaseLock(i)
    \/ MigrateDown(i) \/ RolledBack(i) \/ Cleanup(i)
    \/ Open(i) \/ Close(i) \/ Crash(i)
    \/ \E t \in Targets : Rollback(i, t)
    \/ \E l \in Leases : Spawn(i, l) \/ BindProcess(i, l) \/ Heartbeat(i, l)
                         \/ Release(i, l) \/ Repair(i, l)

Next == Migrate \/ (\E l \in Leases : Exit(l)) \/ \E i \in Instances : Step(i)

Spec == Init /\ [][Next]_vars

-----------------------------------------------------------------------------
(* Properties.                                                             *)

Live(l) == rows[l].state = "active" /\ rows[l].token /\ rows[l].gen = auth[l].gen

\* An authority that was fenced, by release, recovery, quarantine or a schema
\* change, never counts again: no later step makes assertWriterLease or a
\* heartbeat accept it.
FencedForGood ==
    [][\A l \in Leases : auth[l].gen > 0 /\ ~Live(l) => ~Live(l)']_vars

\* The lease that blocks the workspace, and the writers that a row stands for.
Writer == IF \E l \in Leases : Blocking(l) THEN CHOOSE l \in Leases : Blocking(l) ELSE NoLease
Running == {l \in Leases \ forgotten : child[l] = "alive"}

Abstract == INSTANCE SingleWriter WITH
    writer <- Writer, generation <- ledger, running <- Running

\* The registry and the safety tools of any number of instances implement the
\* single writer, with lost locks, crashes and clocks that are wrong: a writer
\* process that is alive keeps its lease from being released by its owner, by
\* recovery, repair or cleanup, so that no second writer is admitted beside it,
\* and no generation is given out twice, not even after a rollback.
ImplementsSingleWriter == Abstract!Spec
=============================================================================
