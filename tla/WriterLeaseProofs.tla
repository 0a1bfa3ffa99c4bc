------------------------- MODULE WriterLeaseProofs -------------------------
(***************************************************************************)
(* Proofs about WriterLease, for every set of instances and leases, every  *)
(* rollback target and bound, with or without locks that are taken over.   *)
(*                                                                         *)
(* Nothing rests on the lock file.  A row is retired only by a step whose  *)
(* instance has seen the child of the lease gone, or knows of none: a      *)
(* child that is gone stays gone, and an instance that is about to release *)
(* a lease spawns nothing under it, while no other instance can as long as *)
(* the row is active.                                                      *)
(***************************************************************************)
EXTENDS WriterLease, TLAPS

\* What holds of one lease.
LeaseSound(l) ==
    /\ rows[l].state # "none" \/ child[l] # "none" \/ auth[l].held \/ l \in forgotten => auth[l].gen > 0
    /\ auth[l].gen <= ledger
    /\ rows[l].bound \/ auth[l].bound => child[l] # "none"
    /\ (child[l] = "alive" \/ (auth[l].held /\ child[l] = "none")) /\ l \notin forgotten => Blocking(l)
    /\ \A i \in Instances : l \in held[i] => auth[l].gen > 0
    /\ rows[l].state = "active" =>
        \A i, j \in Instances : l \in held[i] /\ l \in held[j] => i = j

\* Operations that have observed a row.
Observed == {"recover", "probe", "quarantine", "retire", "repair", "examine", "mend"}

\* What holds of the operation an instance is in.
OpSound(i) ==
    /\ op[i].at \in {"release", "drop"} \cup Observed => op[i].lease \in Leases
    /\ op[i].at = "release" =>
        /\ op[i].lease \in held[i]
        /\ rows[op[i].lease].state = "active" => child[op[i].lease] # "alive"
    /\ op[i].at \in Observed =>
        /\ op[i].seen.state \notin {"none", "released"}
        /\ op[i].seen.bound => child[op[i].lease] # "none"
    /\ op[i].at \in {"retire", "mend"} => child[op[i].lease] = "gone"

\* One lease at most blocks the workspace.
OneBlocks == \A l, m \in Leases : Blocking(l) /\ Blocking(m) => l = m

\* The inductive invariant.
LeaseInv ==
    /\ TypeOK /\ OneBlocks
    /\ version < 2 => \A l \in Leases : rows[l].state = "none"
    /\ \A l \in Leases : LeaseSound(l)
    /\ \A i \in Instances : OpSound(i)

USE LeaseConstants DEF At

-----------------------------------------------------------------------------
(* What a step leaves alone stays sound.                                   *)

\* A child that is gone stays gone, and none comes alive.
ChildrenAge ==
    \A l \in Leases : /\ child[l] # "none" => child'[l] # "none"
                      /\ child[l] = "gone" => child'[l] = "gone"
                      /\ child'[l] = "alive" => child[l] = "alive"

\* No row of a lease that was given out becomes active.
NoneRevived == \A l \in Leases : rows'[l].state = "active" /\ auth[l].gen > 0 => rows[l].state = "active"

\* The operation of an instance stays sound while the others take a step.
LEMMA OthersSound ==
  ASSUME LeaseInv, NEW j \in Instances, op'[j] = op[j], held'[j] = held[j], ChildrenAge, NoneRevived
  PROVE  OpSound(j)'
<1>1. OpSound(j)
  BY DEF LeaseInv
<1>2. op[j].at = "release" => auth[op[j].lease].gen > 0 /\ op[j].lease \in Leases
  BY <1>1 DEF LeaseInv, OpSound, LeaseSound
<1>3. op[j].at \in Observed => op[j].lease \in Leases
  BY <1>1 DEF OpSound
<1> QED  BY <1>1, <1>2, <1>3 DEF OpSound, ChildrenAge, NoneRevived, Observed

\* The leases stay sound when locks and authorities are only given up.
LEMMA LeasesSound ==
  ASSUME LeaseInv, UNCHANGED <<ledger, rows, child, forgotten>>,
         \A l \in Leases : /\ auth'[l].gen = auth[l].gen /\ auth'[l].bound = auth[l].bound
                           /\ auth'[l].held => auth[l].held,
         \A i \in Instances : held'[i] \subseteq held[i]
  PROVE  \A l \in Leases : LeaseSound(l)'
<1> SUFFICES ASSUME NEW l \in Leases PROVE LeaseSound(l)'
  OBVIOUS
<1>1. LeaseSound(l)
  BY DEF LeaseInv
<1> QED  BY <1>1 DEF LeaseSound, Blocking

\* A step of one instance that changes only its operation and the lock.
LEMMA OpKeeps ==
  ASSUME LeaseInv, NEW i \in Instances, UNCHANGED <<version, ledger, rows, child, forgotten, auth, up>>,
         held' \in [Instances -> SUBSET Leases], held'[i] \subseteq held[i],
         \A j \in Instances \ {i} : held'[j] = held[j] /\ op'[j] = op[j],
         op' \in [Instances -> Op], lock' \in Instances \cup {Free}, OpSound(i)'
  PROVE  LeaseInv'
<1>1. TypeOK' /\ OneBlocks' /\ (version < 2 => \A l \in Leases : rows[l].state = "none")'
  BY DEF LeaseInv, TypeOK, OneBlocks, Blocking
<1>2. \A l \in Leases : LeaseSound(l)'
  BY LeasesSound
<1>3. ChildrenAge /\ NoneRevived
  BY DEF ChildrenAge, NoneRevived
<1>4. \A j \in Instances : OpSound(j)'
  BY <1>3, OthersSound
<1> QED  BY <1>1, <1>2, <1>4 DEF LeaseInv

\* What Goto and Return do to an operation.
LEMMA GotoMoves ==
  ASSUME op \in [Instances -> Op], NEW i \in Instances, NEW a \in Ops, Goto(i, a)
  PROVE  /\ op' \in [Instances -> Op] /\ \A j \in Instances \ {i} : op'[j] = op[j]
         /\ op'[i].at = a /\ op'[i].lease = op[i].lease /\ op'[i].seen = op[i].seen
         /\ op'[i].own = op[i].own
<1>1. op[i] \in Op
  OBVIOUS
<1> QED  BY <1>1 DEF Goto, Op

\* An idle instance is in an operation, too.
LEMMA IdleTyped == Idle \in Op /\ Idle.at = "idle"
  BY DEF Idle, Op, Ops, Row, NoRow, States

\* An idle operation is sound.
LEMMA ReturnMoves ==
  ASSUME op \in [Instances -> Op], NEW i \in Instances, Return(i)
  PROVE  /\ op' \in [Instances -> Op] /\ \A j \in Instances \ {i} : op'[j] = op[j]
         /\ op'[i].at = "idle" /\ OpSound(i)'
<1>1. op' \in [Instances -> Op] /\ op'[i] = Idle /\ \A j \in Instances \ {i} : op'[j] = op[j]
  BY IdleTyped DEF Return
<1> QED  BY <1>1, IdleTyped DEF OpSound, Observed

\* The lock goes to an instance or to nobody.
LEMMA LockTyped ==
  ASSUME TypeOK, NEW i \in Instances, Unlock(i)
  PROVE  lock' \in Instances \cup {Free}
  BY DEF TypeOK, Unlock

-----------------------------------------------------------------------------
(* Actions that only change the operation of an instance and the lock.     *)

\* The lock is taken to acquire a lease, given back, or a method returns.
LEMMA LockStepsKeep ==
  ASSUME LeaseInv, NEW i \in Instances, AcquireLock(i) \/ AcquireDenied(i) \/ releaseLock(i) \/ RolledBack(i)
  PROVE  LeaseInv'
<1>1. /\ TypeOK /\ op \in [Instances -> Op] /\ held \in [Instances -> SUBSET Leases]
      /\ UNCHANGED <<version, ledger, rows, child, forgotten, auth, up, held>>
  BY DEF LeaseInv, TypeOK, AcquireLock, AcquireDenied, releaseLock, RolledBack, registryVars
<1>2. lock' \in Instances \cup {Free}
  BY <1>1, LockTyped DEF AcquireLock, AcquireDenied, releaseLock, RolledBack, TypeOK
<1>3. CASE Goto(i, "acquire")
  <2>1. op' \in [Instances -> Op] /\ op'[i].at = "acquire" /\ \A j \in Instances \ {i} : op'[j] = op[j]
    BY <1>1, <1>3, GotoMoves DEF Ops
  <2>2. OpSound(i)'
    BY <2>1 DEF OpSound, Observed
  <2> QED  BY <1>1, <1>2, <2>1, <2>2, OpKeeps
<1>4. CASE Return(i)
  BY <1>1, <1>2, <1>4, ReturnMoves, OpKeeps
<1> QED  BY <1>3, <1>4 DEF AcquireLock, AcquireDenied, releaseLock, RolledBack

\* An operator begins a rollback.
LEMMA RollbackKeeps ==
  ASSUME LeaseInv, NEW i \in Instances, NEW t \in Targets, Rollback(i, t)
  PROVE  LeaseInv'
<1>1. /\ TypeOK /\ op \in [Instances -> Op] /\ held \in [Instances -> SUBSET Leases] /\ op[i] \in Op
      /\ UNCHANGED <<version, ledger, rows, child, forgotten, auth, up, held, lock>>
      /\ op' = [op EXCEPT ![i].at = "rollback", ![i].target = t] /\ t \in 0..2
  BY DEF LeaseInv, TypeOK, Rollback, registryVars
<1>2. op' \in [Instances -> Op] /\ op'[i].at = "rollback" /\ \A j \in Instances \ {i} : op'[j] = op[j]
  BY <1>1 DEF Op, Ops
<1>3. OpSound(i)'
  BY <1>2 DEF OpSound, Observed
<1> QED  BY <1>1, <1>2, <1>3, OpKeeps DEF TypeOK

\* A release begins: the child of the lease is not alive.
LEMMA ReleaseKeeps ==
  ASSUME LeaseInv, NEW i \in Instances, NEW l \in Leases, Release(i, l)
  PROVE  LeaseInv'
<1>1. /\ TypeOK /\ op \in [Instances -> Op] /\ held \in [Instances -> SUBSET Leases] /\ op[i] \in Op
      /\ UNCHANGED <<version, ledger, rows, child, forgotten, auth, up, held, lock>>
      /\ op' = [op EXCEPT ![i].at = "release", ![i].lease = l] /\ l \in held[i]
  BY DEF LeaseInv, TypeOK, Release, registryVars
<1>2. child[l] # "alive"
  BY DEF Release, Probe
<1>3. /\ op' \in [Instances -> Op] /\ op'[i].at = "release" /\ op'[i].lease = l
      /\ \A j \in Instances \ {i} : op'[j] = op[j]
  BY <1>1 DEF Op, Ops
<1>4. OpSound(i)'
  BY <1>1, <1>2, <1>3 DEF OpSound, Observed
<1> QED  BY <1>1, <1>3, <1>4, OpKeeps DEF TypeOK

\* The lock that went with a released lease is dropped.
LEMMA DropKeeps ==
  ASSUME LeaseInv, NEW i \in Instances, dropLock(i)
  PROVE  LeaseInv'
<1>1. /\ TypeOK /\ op \in [Instances -> Op] /\ held \in [Instances -> SUBSET Leases]
      /\ UNCHANGED <<version, ledger, rows, child, forgotten, auth, up>> /\ Unlock(i) /\ Return(i)
      /\ held' = [held EXCEPT ![i] = @ \ {op[i].lease}]
  BY DEF LeaseInv, TypeOK, dropLock, registryVars
<1>2. /\ held' \in [Instances -> SUBSET Leases] /\ held'[i] \subseteq held[i]
      /\ \A j \in Instances \ {i} : held'[j] = held[j]
  BY <1>1
<1> QED  BY <1>1, <1>2, LockTyped, ReturnMoves, OpKeeps

\* A recovery or a repair observes a row.
LEMMA ObserveKeeps ==
  ASSUME LeaseInv, NEW i \in Instances, NEW l \in Leases, NEW new \in Op, Blocking(l),
         new.at \in {"recover", "repair", "examine"}, new.lease = l, new.seen = rows[l],
         UNCHANGED <<registryVars, auth, child, lock, held, up>>, op' = [op EXCEPT ![i] = new]
  PROVE  LeaseInv'
<1>1. /\ TypeOK /\ op \in [Instances -> Op] /\ held \in [Instances -> SUBSET Leases]
      /\ lock' \in Instances \cup {Free}
      /\ UNCHANGED <<version, ledger, rows, child, forgotten, auth, up, held>>
  BY DEF LeaseInv, TypeOK, registryVars
<1>2. op' \in [Instances -> Op] /\ op'[i] = new /\ \A j \in Instances \ {i} : op'[j] = op[j]
  BY <1>1
<1>3. LeaseSound(l)
  BY DEF LeaseInv
<1>4. OpSound(i)'
  BY <1>1, <1>2, <1>3 DEF OpSound, Observed, Blocking, LeaseSound
<1> QED  BY <1>1, <1>2, <1>4, OpKeeps

\* recoverWorkspace reads the lease that blocks.
LEMMA RecoverKeeps ==
  ASSUME LeaseInv, NEW i \in Instances, Recover(i)
  PROVE  LeaseInv'
<1>1. PICK l \in Leases : /\ Blocking(l)
        /\ op' = [op EXCEPT ![i] = [Idle EXCEPT !.at = "recover", !.lease = l, !.seen = rows[l]]]
  BY DEF Recover
<1> DEFINE new == [Idle EXCEPT !.at = "recover", !.lease = l, !.seen = rows[l]]
<1>2. rows[l] \in Row /\ UNCHANGED <<registryVars, auth, child, lock, held, up>>
  BY DEF Recover, LeaseInv, TypeOK
<1>3. new \in Op /\ new.at = "recover" /\ new.lease = l /\ new.seen = rows[l]
  BY <1>2, IdleTyped DEF Op, Ops
<1>4. op' = [op EXCEPT ![i] = new]
  BY <1>1
<1> HIDE DEF new
<1> QED  BY <1>1, <1>2, <1>3, <1>4, ObserveKeeps

\* repairQuarantine reads the quarantined lease.
LEMMA RepairKeeps ==
  ASSUME LeaseInv, NEW i \in Instances, NEW l \in Leases, Repair(i, l)
  PROVE  LeaseInv'
<1> DEFINE new == [Idle EXCEPT !.at = IF l \in held[i] THEN "examine" ELSE "repair",
                               !.lease = l, !.seen = rows[l], !.own = l \in held[i]]
<1>1. Blocking(l) /\ rows[l] \in Row /\ UNCHANGED <<registryVars, auth, child, lock, held, up>>
  BY DEF Repair, Blocking, LeaseInv, TypeOK
<1>2. new \in Op /\ new.at \in {"repair", "examine"} /\ new.lease = l /\ new.seen = rows[l]
  <2>1. ASSUME NEW a \in {"repair", "examine"}, NEW own \in BOOLEAN,
               new = [Idle EXCEPT !.at = a, !.lease = l, !.seen = rows[l], !.own = own]
        PROVE  <1>2
    <3> HIDE DEF new
    <3> QED  BY <1>1, <2>1, IdleTyped DEF Op, Ops
  <2> DEFINE a == IF l \in held[i] THEN "examine" ELSE "repair"
             own == l \in held[i]
  <2>2. a \in {"repair", "examine"} /\ own \in BOOLEAN
    OBVIOUS
  <2>3. new = [Idle EXCEPT !.at = a, !.lease = l, !.seen = rows[l], !.own = own]
    BY Zenon
  <2> HIDE DEF a, own, new
  <2> QED  BY <2>1, <2>2, <2>3, Zenon
<1>3. op' = [op EXCEPT ![i] = new]
  BY Zenon DEF Repair
<1> HIDE DEF new
<1> QED  BY <1>1, <1>2, <1>3, ObserveKeeps

\* The lock is taken before the lease is examined.
LEMMA TakeLockKeeps ==
  ASSUME LeaseInv, NEW i \in Instances, TakeLock(i)
  PROVE  LeaseInv'
<1>1. /\ TypeOK /\ op \in [Instances -> Op] /\ held \in [Instances -> SUBSET Leases]
      /\ UNCHANGED <<version, ledger, rows, child, forgotten, auth, up, held>>
      /\ OpSound(i) /\ op[i].at \in {"recover", "repair"}
  BY DEF LeaseInv, TypeOK, TakeLock, registryVars
<1>2. lock' \in Instances \cup {Free}
  BY <1>1 DEF TakeLock, TypeOK
<1>3. ASSUME NEW a \in {"probe", "examine"}, Goto(i, a)
      PROVE  LeaseInv'
  <2>1. /\ op' \in [Instances -> Op] /\ \A j \in Instances \ {i} : op'[j] = op[j]
        /\ op'[i].at = a /\ op'[i].lease = op[i].lease /\ op'[i].seen = op[i].seen
    BY <1>1, <1>3, GotoMoves DEF Ops
  <2>2. OpSound(i)'
    BY <1>1, <2>1 DEF OpSound, Observed
  <2> QED  BY <1>1, <1>2, <2>1, <2>2, OpKeeps
<1>4. CASE Return(i)
  BY <1>1, <1>2, <1>4, ReturnMoves, OpKeeps
<1> QED  BY <1>3, <1>4 DEF TakeLock

\* The owner of the observed lease is probed: absent means that it is gone.
LEMMA ExamineKeeps ==
  ASSUME LeaseInv, NEW i \in Instances, Examine(i)
  PROVE  LeaseInv'
<1>1. /\ TypeOK /\ op \in [Instances -> Op] /\ held \in [Instances -> SUBSET Leases]
      /\ UNCHANGED <<version, ledger, rows, child, forgotten, auth, up, held, lock>>
      /\ OpSound(i) /\ op[i].at \in {"probe", "examine"} /\ lock \in Instances \cup {Free}
  BY DEF LeaseInv, TypeOK, Examine, registryVars
<1>2. PICK p \in Probe(op[i].lease, op[i].seen.bound) :
        CASE At(i, "probe") -> Goto(i, IF p = "absent" THEN "retire" ELSE "quarantine")
          [] p = "absent" -> Goto(i, "mend")
          [] OTHER -> GiveUp(i)
  BY DEF Examine
<1>3. op[i].lease \in Leases /\ (p = "absent" => child[op[i].lease] = "gone")
  BY <1>1, <1>2 DEF OpSound, Observed, Probe, TypeOK
<1>4. ASSUME NEW a \in {"retire", "quarantine", "mend", "unlock"}, Goto(i, a), a \in {"retire", "mend"} => p = "absent"
      PROVE  LeaseInv'
  <2>1. /\ op' \in [Instances -> Op] /\ \A j \in Instances \ {i} : op'[j] = op[j]
        /\ op'[i].at = a /\ op'[i].lease = op[i].lease /\ op'[i].seen = op[i].seen
    BY <1>1, <1>4, GotoMoves DEF Ops
  <2>2. OpSound(i)'
    BY <1>1, <1>3, <1>4, <2>1 DEF OpSound, Observed
  <2> QED  BY <1>1, <2>1, <2>2, OpKeeps
<1>5. CASE Return(i)
  BY <1>1, <1>5, ReturnMoves, OpKeeps
<1> QED  BY <1>2, <1>4, <1>5 DEF GiveUp

-----------------------------------------------------------------------------
(* The life of an instance.                                                *)

\* An instance opens the registry.
LEMMA OpenKeeps ==
  ASSUME LeaseInv, NEW i \in Instances, Open(i)
  PROVE  LeaseInv'
<1>1. /\ TypeOK /\ up' = up \cup {i}
      /\ UNCHANGED <<version, ledger, rows, child, forgotten, auth, held, lock, op>>
  BY DEF LeaseInv, Open, registryVars
<1>2. TypeOK' /\ OneBlocks' /\ (version < 2 => \A l \in Leases : rows[l].state = "none")'
  BY <1>1 DEF LeaseInv, TypeOK, OneBlocks, Blocking
<1>3. \A l \in Leases : LeaseSound(l)'
  BY <1>1, LeasesSound
<1>4. \A j \in Instances : OpSound(j)'
  BY <1>1, OthersSound DEF ChildrenAge, NoneRevived
<1> QED  BY <1>2, <1>3, <1>4 DEF LeaseInv

\* An instance closes the registry or crashes: its authorities go, the rows stay.
LEMMA EndKeeps ==
  ASSUME LeaseInv, NEW i \in Instances, Close(i) \/ Crash(i)
  PROVE  LeaseInv'
<1>1. /\ TypeOK /\ op \in [Instances -> Op] /\ held \in [Instances -> SUBSET Leases]
      /\ auth \in [Leases -> Authority]
      /\ UNCHANGED <<version, ledger, rows, child, forgotten>> /\ up' = up \ {i}
      /\ held' = [held EXCEPT ![i] = {}] /\ (op' = op \/ Return(i))
      /\ auth' = [l \in Leases |-> IF l \in held[i] THEN [auth[l] EXCEPT !.held = FALSE] ELSE auth[l]]
  BY DEF LeaseInv, TypeOK, Close, Crash, registryVars
<1>2. /\ held' \in [Instances -> SUBSET Leases] /\ \A j \in Instances : held'[j] \subseteq held[j]
      /\ \A j \in Instances \ {i} : held'[j] = held[j]
  BY <1>1
<1>3. /\ auth' \in [Leases -> Authority]
      /\ \A l \in Leases : /\ auth'[l].gen = auth[l].gen /\ auth'[l].bound = auth[l].bound
                           /\ auth'[l].held => auth[l].held
  BY <1>1 DEF Authority
<1>4. lock' \in Instances \cup {Free}
  <2>1. CASE Close(i)
    BY <1>1, <2>1, LockTyped DEF Close, TypeOK
  <2>2. CASE Crash(i)
    BY <1>1, <2>2 DEF Crash, TypeOK
  <2> QED  BY <2>1, <2>2
<1>5. op' \in [Instances -> Op] /\ (\A j \in Instances \ {i} : op'[j] = op[j]) /\ OpSound(i)'
  <2>1. CASE Return(i)
    BY <1>1, <2>1, ReturnMoves
  <2>2. CASE Close(i)
    BY <1>1, <2>2 DEF Close, Ready, OpSound, Observed
  <2> QED  BY <2>1, <2>2 DEF Crash
<1>6. TypeOK' /\ OneBlocks' /\ (version < 2 => \A l \in Leases : rows[l].state = "none")'
  BY <1>1, <1>2, <1>3, <1>4, <1>5 DEF LeaseInv, TypeOK, OneBlocks, Blocking
<1>7. \A l \in Leases : LeaseSound(l)'
  BY <1>1, <1>2, <1>3, LeasesSound
<1>8. \A j \in Instances : OpSound(j)'
  BY <1>1, <1>2, <1>5, OthersSound DEF ChildrenAge, NoneRevived
<1> QED  BY <1>6, <1>7, <1>8 DEF LeaseInv

-----------------------------------------------------------------------------
(* The writes of one row.                                                  *)

\* A write of the row of one lease.
RowStep(l, new) ==
    /\ rows' = [rows EXCEPT ![l] = new] /\ version = 3
    /\ UNCHANGED <<version, ledger, child, up, forgotten>>

\* A write keeps the invariant if it revives nothing, and if it retires the row
\* only of a lease without a living or a coming child.
LEMMA RowKeeps ==
  ASSUME LeaseInv, NEW i \in Instances, NEW l \in Leases, NEW new \in Row, RowStep(l, new),
         Blocking(l), new.state = "active" => rows[l].state = "active", new.state # "none",
         new.state = "released" => child[l] # "alive" /\ (auth'[l].held => child[l] = "gone"),
         new.bound => child[l] # "none",
         auth' \in [Leases -> Authority], \A m \in Leases \ {l} : auth'[m] = auth[m],
         auth'[l].gen = auth[l].gen, auth'[l].bound => child[l] # "none", auth'[l].held => auth[l].held,
         held' \in [Instances -> SUBSET Leases], \A j \in Instances \ {i} : held'[j] = held[j],
         held'[i] = held[i] \/ (held'[i] = held[i] \cup {l} /\ new.state # "active"),
         op' \in [Instances -> Op], \A j \in Instances \ {i} : op'[j] = op[j],
         lock' \in Instances \cup {Free}, OpSound(i)'
  PROVE  LeaseInv'
<1>1. /\ TypeOK /\ rows \in [Leases -> Row] /\ rows' = [rows EXCEPT ![l] = new] /\ version' = 3
      /\ UNCHANGED <<ledger, child, up, forgotten>>
  BY DEF LeaseInv, TypeOK, RowStep
<1>2. rows' \in [Leases -> Row] /\ rows'[l] = new /\ \A m \in Leases \ {l} : rows'[m] = rows[m]
  BY <1>1
<1>3. TypeOK' /\ ~(version' < 2)
  BY <1>1, <1>2 DEF TypeOK
<1>4. OneBlocks'
  <2>1. \A m \in Leases : Blocking(m)' => Blocking(m)
    BY <1>2 DEF Blocking
  <2> QED  BY <2>1 DEF LeaseInv, OneBlocks
<1>5. \A m \in Leases \ {l} : LeaseSound(m)'
  <2> SUFFICES ASSUME NEW m \in Leases \ {l} PROVE LeaseSound(m)'
    OBVIOUS
  <2>1. LeaseSound(m) /\ \A j \in Instances : m \in held'[j] => m \in held[j]
    BY DEF LeaseInv
  <2> QED  BY <1>1, <1>2, <2>1 DEF LeaseSound, Blocking
<1>6. LeaseSound(l)'
  <2>1. LeaseSound(l) /\ auth[l].gen > 0 /\ auth'[l].gen = auth[l].gen
    BY DEF LeaseInv, LeaseSound, Blocking
  <2>2. \/ new.state # "active" \/ \A j \in Instances : held'[j] = held[j]
    OBVIOUS
  <2>3. Blocking(l)' \/ new.state = "released"
    BY <1>2 DEF Blocking
  <2>4. child[l] \in {"none", "alive", "gone"}
    BY <1>1 DEF TypeOK
  <2> QED  BY <1>1, <1>2, <2>1, <2>2, <2>3, <2>4 DEF LeaseSound
<1>7. \A j \in Instances : OpSound(j)'
  <2>1. ChildrenAge /\ NoneRevived
    BY <1>1, <1>2 DEF ChildrenAge, NoneRevived
  <2> QED  BY <2>1, OthersSound
<1> QED  BY <1>3, <1>4, <1>5, <1>6, <1>7 DEF LeaseInv

\* What Write makes of a row.
LEMMA WriteMoves ==
  ASSUME rows \in [Leases -> Row], NEW l \in Leases, NEW state \in States, NEW n \in Nat, Write(l, state, n)
  PROVE  \E new \in Row : /\ rows' = [rows EXCEPT ![l] = new] /\ new.state = state
                          /\ new.bound = rows[l].bound /\ new.gen = rows[l].gen /\ new.token = rows[l].token
<1>1. rows[l] \in Row /\ rows[l].ver + n \in Nat
  BY DEF Row
<1>2. /\ rows' \in [Leases -> Row] /\ \A m \in Leases \ {l} : rows'[m] = rows[m]
      /\ rows'[l].state = state /\ rows'[l].bound = rows[l].bound
      /\ rows'[l].gen = rows[l].gen /\ rows'[l].token = rows[l].token
  BY <1>1 DEF Write, Row
<1>3. rows'[l] \in Row /\ rows' = [rows EXCEPT ![l] = rows'[l]]
  BY <1>2
<1> QED  BY <1>2, <1>3

\* A heartbeat renews an active lease.
LEMMA HeartbeatKeeps ==
  ASSUME LeaseInv, NEW i \in Instances, NEW l \in Leases, Heartbeat(i, l)
  PROVE  LeaseInv'
<1>1. /\ TypeOK /\ rows \in [Leases -> Row] /\ auth \in [Leases -> Authority] /\ auth[l] \in Authority
      /\ version = 3 /\ UNCHANGED <<version, ledger, child, up, forgotten, held, op, lock>>
      /\ rows[l].state = "active" /\ Write(l, "active", 1) /\ auth' = [auth EXCEPT ![l].ver = @ + 1]
      /\ LeaseSound(l) /\ OpSound(i)
  BY DEF LeaseInv, TypeOK, Heartbeat
<1>2. PICK new \in Row : rows' = [rows EXCEPT ![l] = new] /\ new.state = "active" /\ new.bound = rows[l].bound
  BY <1>1, WriteMoves DEF States
<1>3. /\ auth' \in [Leases -> Authority] /\ \A m \in Leases \ {l} : auth'[m] = auth[m]
      /\ auth'[l].gen = auth[l].gen /\ auth'[l].bound = auth[l].bound /\ auth'[l].held = auth[l].held
  BY <1>1 DEF Authority
<1>4. OpSound(i)'
  <2>1. rows'[l].state = "active" /\ \A m \in Leases \ {l} : rows'[m] = rows[m]
    BY <1>1, <1>2
  <2> QED  BY <1>1, <2>1 DEF OpSound
<1>5. RowStep(l, new) /\ Blocking(l)
  BY <1>1, <1>2 DEF RowStep, Blocking
<1>6. new.bound \/ auth'[l].bound => child[l] # "none"
  BY <1>1, <1>2, <1>3 DEF LeaseSound
<1> QED  BY <1>1, <1>2, <1>3, <1>4, <1>5, <1>6, RowKeeps DEF TypeOK

\* bindWriterProcess records the child.
LEMMA BindProcessKeeps ==
  ASSUME LeaseInv, NEW i \in Instances, NEW l \in Leases, BindProcess(i, l)
  PROVE  LeaseInv'
<1>1. /\ TypeOK /\ rows \in [Leases -> Row] /\ auth \in [Leases -> Authority] /\ auth[l] \in Authority
      /\ rows[l] \in Row /\ child[l] = "alive"
      /\ version = 3 /\ UNCHANGED <<version, ledger, child, up, forgotten, held, op, lock>>
      /\ rows[l].state = "active" /\ rows' = [rows EXCEPT ![l].bound = TRUE, ![l].ver = @ + 1]
      /\ auth' = [auth EXCEPT ![l].bound = TRUE, ![l].ver = @ + 1]
      /\ LeaseSound(l) /\ OpSound(i)
  BY DEF LeaseInv, TypeOK, BindProcess
<1>2. /\ auth' \in [Leases -> Authority] /\ \A m \in Leases \ {l} : auth'[m] = auth[m]
      /\ auth'[l].gen = auth[l].gen /\ auth'[l].held = auth[l].held
  BY <1>1 DEF Authority
<1>3. /\ rows' \in [Leases -> Row] /\ \A m \in Leases \ {l} : rows'[m] = rows[m]
      /\ rows'[l].state = "active"
  BY <1>1 DEF Row
<1>4. PICK new \in Row : rows' = [rows EXCEPT ![l] = new] /\ new.state = "active"
  BY <1>1, <1>3
<1>5. OpSound(i)'
  BY <1>1, <1>3 DEF OpSound
<1>6. RowStep(l, new) /\ Blocking(l)
  BY <1>1, <1>4 DEF RowStep, Blocking
<1> QED  BY <1>1, <1>2, <1>4, <1>5, <1>6, RowKeeps DEF TypeOK

\* A write of a row under an operation, after which the instance goes on.
LEMMA OpWriteKeeps ==
  ASSUME LeaseInv, NEW i \in Instances, NEW l \in Leases, NEW state \in {"released", "quarantined"},
         NEW n \in Nat, Write(l, state, n), version = 3, Blocking(l),
         UNCHANGED <<version, ledger, child, up, forgotten, lock>>,
         state = "released" => child[l] # "alive" /\ (auth'[l].held => child[l] = "gone"),
         auth' \in [Leases -> Authority], \A m \in Leases \ {l} : auth'[m] = auth[m],
         auth'[l].gen = auth[l].gen, auth'[l].bound = auth[l].bound, auth'[l].held => auth[l].held,
         held' = held \/ (held' = [held EXCEPT ![i] = @ \cup {l}]),
         op' \in [Instances -> Op], \A j \in Instances \ {i} : op'[j] = op[j], OpSound(i)'
  PROVE  LeaseInv'
<1>1. /\ TypeOK /\ rows \in [Leases -> Row] /\ held \in [Instances -> SUBSET Leases] /\ LeaseSound(l)
      /\ lock' \in Instances \cup {Free}
  BY DEF LeaseInv, TypeOK
<1>2. PICK new \in Row : rows' = [rows EXCEPT ![l] = new] /\ new.state = state /\ new.bound = rows[l].bound
  BY <1>1, WriteMoves DEF States
<1>3. /\ held' \in [Instances -> SUBSET Leases] /\ \A j \in Instances \ {i} : held'[j] = held[j]
      /\ held'[i] = held[i] \/ held'[i] = held[i] \cup {l}
  BY <1>1
<1>4. RowStep(l, new) /\ (new.bound \/ auth'[l].bound => child[l] # "none")
  BY <1>1, <1>2 DEF RowStep, LeaseSound
<1> QED  BY <1>1, <1>2, <1>3, <1>4, RowKeeps

\* releaseWriterLease: the row is retired without a living child, and the holder
\* gives its authority up.
LEMMA ReleaseLeaseKeeps ==
  ASSUME LeaseInv, NEW i \in Instances, ReleaseLease(i)
  PROVE  LeaseInv'
<1> DEFINE l == op[i].lease
<1>1. /\ TypeOK /\ op \in [Instances -> Op] /\ op[i].at = "release" /\ OpSound(i) /\ l \in Leases
      /\ auth \in [Leases -> Authority] /\ held \in [Instances -> SUBSET Leases]
      /\ UNCHANGED <<version, ledger, child, up, forgotten, lock, held>>
  BY DEF LeaseInv, TypeOK, ReleaseLease, OpSound
<1>2. CASE Return(i) /\ UNCHANGED <<rows, auth>>
  BY <1>1, <1>2, ReturnMoves, OpKeeps DEF TypeOK
<1>3. CASE /\ version = 3 /\ rows[l].state = "active" /\ Write(l, "released", 2) /\ Goto(i, "drop")
           /\ auth' = [auth EXCEPT ![l].held = FALSE]
  <2>1. /\ auth' \in [Leases -> Authority] /\ \A m \in Leases \ {l} : auth'[m] = auth[m]
        /\ auth'[l].gen = auth[l].gen /\ auth'[l].bound = auth[l].bound /\ ~auth'[l].held
    <3>1. auth[l] \in Authority
      BY <1>1
    <3> QED  BY <1>1, <1>3, <3>1 DEF Authority
  <2>2. /\ op' \in [Instances -> Op] /\ \A j \in Instances \ {i} : op'[j] = op[j]
        /\ op'[i].at = "drop" /\ op'[i].lease = l
    BY <1>1, <1>3, GotoMoves DEF Ops
  <2>3. OpSound(i)'
    BY <1>1, <2>2 DEF OpSound, Observed
  <2>4. child[l] # "alive" /\ Blocking(l)
    BY <1>1, <1>3 DEF OpSound, Blocking
  <2> HIDE DEF l
  <2> QED  BY <1>1, <1>3, <2>1, <2>2, <2>3, <2>4, OpWriteKeeps
<1> QED  BY <1>2, <1>3, Zenon DEF ReleaseLease

\* quarantineWriterLease of the row as it was observed.
LEMMA QuarantineKeeps ==
  ASSUME LeaseInv, NEW i \in Instances, Quarantine(i)
  PROVE  LeaseInv'
<1> DEFINE l == op[i].lease
<1>1. /\ TypeOK /\ op \in [Instances -> Op] /\ op[i].at = "quarantine" /\ OpSound(i) /\ l \in Leases
      /\ auth \in [Leases -> Authority] /\ held \in [Instances -> SUBSET Leases]
      /\ UNCHANGED <<version, ledger, auth, child, up, forgotten, lock>>
  BY DEF LeaseInv, TypeOK, Quarantine, OpSound, Observed
<1>2. CASE Goto(i, "unlock") /\ UNCHANGED <<rows, held>>
  <2>1. /\ op' \in [Instances -> Op] /\ op'[i].at = "unlock" /\ \A j \in Instances \ {i} : op'[j] = op[j]
    BY <1>1, <1>2, GotoMoves DEF Ops
  <2>2. OpSound(i)'
    BY <2>1 DEF OpSound, Observed
  <2> QED  BY <1>1, <1>2, <2>1, <2>2, OpKeeps DEF TypeOK
<1>3. CASE /\ version = 3 /\ Unchanged(l, op[i].seen) /\ Write(l, "quarantined", 1)
           /\ held' = [held EXCEPT ![i] = @ \cup {l}] /\ Return(i)
  <2>1. /\ op' \in [Instances -> Op] /\ OpSound(i)' /\ \A j \in Instances \ {i} : op'[j] = op[j]
    BY <1>1, <1>3, ReturnMoves
  <2>2. Blocking(l)
    BY <1>1, <1>3 DEF OpSound, Observed, Unchanged, Blocking
  <2> HIDE DEF l
  <2> QED  BY <1>1, <1>3, <2>1, <2>2, OpWriteKeeps
<1> QED  BY <1>2, <1>3, Zenon DEF Quarantine

\* A recovery or a repair retires the row of a lease whose child is gone.
LEMMA RetireKeeps ==
  ASSUME LeaseInv, NEW i \in Instances, Retire(i) \/ Mend(i)
  PROVE  LeaseInv'
<1> DEFINE l == op[i].lease
<1>1. /\ TypeOK /\ op \in [Instances -> Op] /\ op[i].at \in {"retire", "mend"} /\ OpSound(i) /\ l \in Leases
      /\ auth \in [Leases -> Authority] /\ held \in [Instances -> SUBSET Leases] /\ child[l] = "gone"
      /\ UNCHANGED <<version, ledger, auth, child, up, forgotten, lock, held>>
  BY DEF LeaseInv, TypeOK, Retire, Mend, OpSound, Observed
<1>2. Return(i) \/ Goto(i, "unlock") \/ Goto(i, "drop")
  BY DEF Retire, Mend, GiveUp
<1>3. /\ op' \in [Instances -> Op] /\ OpSound(i)' /\ \A j \in Instances \ {i} : op'[j] = op[j]
  <2>1. CASE Return(i)
    BY <1>1, <2>1, ReturnMoves
  <2>2. ASSUME NEW a \in {"unlock", "drop"}, Goto(i, a)
        PROVE  <1>3
    <3>1. /\ op' \in [Instances -> Op] /\ op'[i].at = a /\ op'[i].lease = l
          /\ \A j \in Instances \ {i} : op'[j] = op[j]
      BY <1>1, <2>2, GotoMoves DEF Ops
    <3> QED  BY <1>1, <3>1 DEF OpSound, Observed
  <2> QED  BY <1>2, <2>1, <2>2
<1>4. CASE UNCHANGED rows
  BY <1>1, <1>3, <1>4, OpKeeps DEF TypeOK
<1>5. CASE version = 3 /\ Unchanged(l, op[i].seen) /\ Write(l, "released", 1)
  <2>1. Blocking(l)
    BY <1>1, <1>5 DEF OpSound, Observed, Unchanged, Blocking
  <2> HIDE DEF l
  <2> QED  BY <1>1, <1>3, <1>5, <2>1, OpWriteKeeps
<1> QED  BY <1>4, <1>5 DEF Retire, Mend

-----------------------------------------------------------------------------
(* A new lease, its child, migrations and retention.                       *)

\* acquireWriterLease inserts the row of a lease that nobody has seen yet.
LEMMA AcquireLeaseKeeps ==
  ASSUME LeaseInv, NEW i \in Instances, AcquireLease(i)
  PROVE  LeaseInv'
<1> DEFINE row == [state |-> "active", gen |-> ledger + 1, ver |-> 1, bound |-> FALSE, token |-> TRUE]
           authority == [gen |-> ledger + 1, ver |-> 1, bound |-> FALSE, held |-> TRUE]
<1>1. PICK l \in Leases :
        /\ auth[l].gen = 0 /\ ledger' = ledger + 1
        /\ rows' = [rows EXCEPT ![l] = row] /\ auth' = [auth EXCEPT ![l] = authority]
        /\ held' = [held EXCEPT ![i] = @ \cup {l}]
  BY DEF AcquireLease
<1>2. /\ TypeOK /\ op \in [Instances -> Op] /\ held \in [Instances -> SUBSET Leases] /\ ledger \in Nat
      /\ rows \in [Leases -> Row] /\ auth \in [Leases -> Authority]
      /\ version = 3 /\ UNCHANGED <<version, child, lock, up, forgotten>> /\ Return(i)
      /\ \A m \in Leases : ~Blocking(m)
  BY DEF LeaseInv, TypeOK, AcquireLease
<1>3. row \in Row /\ row.state = "active" /\ ~row.bound /\ authority \in Authority
      /\ authority.gen = ledger + 1 /\ ~authority.bound
  BY <1>2 DEF Row, Authority, States
<1> HIDE DEF row, authority
<1>4. /\ rows' \in [Leases -> Row] /\ rows'[l] = row /\ \A m \in Leases \ {l} : rows'[m] = rows[m]
      /\ auth' \in [Leases -> Authority] /\ auth'[l] = authority
      /\ \A m \in Leases \ {l} : auth'[m] = auth[m]
      /\ held' \in [Instances -> SUBSET Leases] /\ held'[i] = held[i] \cup {l}
      /\ \A j \in Instances \ {i} : held'[j] = held[j]
  BY <1>1, <1>2, <1>3
<1>5. op' \in [Instances -> Op] /\ OpSound(i)' /\ \A j \in Instances \ {i} : op'[j] = op[j]
  BY <1>2, ReturnMoves
<1>6. TypeOK' /\ ~(version' < 2)
  BY <1>1, <1>2, <1>4, <1>5 DEF TypeOK
<1>7. OneBlocks'
  <2>1. \A m \in Leases : Blocking(m)' => m = l
    BY <1>2, <1>4 DEF Blocking
  <2> QED  BY <2>1 DEF OneBlocks
<1>8. ASSUME NEW m \in Leases \ {l} PROVE LeaseSound(m)'
  <2>1. LeaseSound(m) /\ auth[m].gen \in Nat
    BY <1>2 DEF LeaseInv, Authority
  <2>2. auth[m].gen <= ledger'
    BY <1>1, <1>2, <2>1 DEF LeaseSound
  <2>3. \A j \in Instances : m \in held'[j] <=> m \in held[j]
    BY <1>4
  <2> QED  BY <1>2, <1>4, <2>1, <2>2, <2>3 DEF LeaseSound, Blocking
<1>9. LeaseSound(l)'
  <2>1. LeaseSound(l) /\ ~(auth[l].gen > 0)
    BY <1>1 DEF LeaseInv
  <2>2. child[l] = "none" /\ \A j \in Instances : l \notin held[j]
    BY <2>1 DEF LeaseSound
  <2>3. authority.gen > 0 /\ authority.gen <= ledger'
    BY <1>1, <1>2, <1>3
  <2>4. \A j \in Instances : l \in held'[j] => j = i
    BY <1>4, <2>2
  <2> QED  BY <1>2, <1>3, <1>4, <2>2, <2>3, <2>4 DEF LeaseSound, Blocking
<1>10. \A j \in Instances : OpSound(j)'
  <2>1. ChildrenAge /\ NoneRevived
    BY <1>1, <1>2, <1>4 DEF ChildrenAge, NoneRevived
  <2> QED  BY <1>4, <1>5, <2>1, OthersSound
<1> QED  BY <1>6, <1>7, <1>8, <1>9, <1>10 DEF LeaseInv

\* The holder of a lease starts its child: nobody is releasing the lease.
LEMMA SpawnKeeps ==
  ASSUME LeaseInv, NEW i \in Instances, NEW l \in Leases, Spawn(i, l)
  PROVE  LeaseInv' /\ (l \notin forgotten => Blocking(l))
<1>1. /\ TypeOK /\ child' = [child EXCEPT ![l] = "alive"] /\ child[l] = "none" /\ auth[l].held
      /\ child \in [Leases -> {"none", "alive", "gone"}]
      /\ l \in held[i] /\ op[i].at = "idle"
      /\ UNCHANGED <<version, ledger, rows, forgotten, auth, lock, held, up, op>>
  BY DEF LeaseInv, TypeOK, Spawn, Ready, registryVars
<1>2. LeaseSound(l)
  BY DEF LeaseInv
<1>3. child' \in [Leases -> {"none", "alive", "gone"}] /\ child'[l] = "alive"
      /\ \A m \in Leases \ {l} : child'[m] = child[m]
  BY <1>1
<1>4. TypeOK' /\ OneBlocks' /\ (version < 2 => \A m \in Leases : rows[m].state = "none")'
  BY <1>1, <1>3 DEF LeaseInv, TypeOK, OneBlocks, Blocking
<1>5. l \notin forgotten => Blocking(l)
  BY <1>1, <1>2 DEF LeaseSound
<1>6. \A m \in Leases : LeaseSound(m)'
  <2> SUFFICES ASSUME NEW m \in Leases PROVE LeaseSound(m)'
    OBVIOUS
  <2>1. LeaseSound(m)
    BY DEF LeaseInv
  <2> QED  BY <1>1, <1>3, <1>5, <2>1 DEF LeaseSound, Blocking
<1>7. ASSUME NEW j \in Instances PROVE OpSound(j)'
  <2>1. OpSound(j)
    BY DEF LeaseInv
  <2>2. op[j].at = "release" /\ op[j].lease = l => rows[l].state # "active"
    BY <1>1, <1>2, <2>1 DEF OpSound, LeaseSound
  <2>3. op[j].at \in {"retire", "mend"} => op[j].lease # l
    BY <1>1, <2>1 DEF OpSound
  <2> QED  BY <1>1, <1>3, <2>1, <2>2, <2>3 DEF OpSound, Observed
<1> QED  BY <1>4, <1>5, <1>6, <1>7 DEF LeaseInv

\* A child exits.
LEMMA ExitKeeps ==
  ASSUME LeaseInv, NEW l \in Leases, Exit(l)
  PROVE  LeaseInv'
<1>1. /\ TypeOK /\ child' = [child EXCEPT ![l] = "gone"] /\ child[l] = "alive"
      /\ child \in [Leases -> {"none", "alive", "gone"}]
      /\ UNCHANGED <<version, ledger, rows, forgotten, auth, lock, held, up, op>>
  BY DEF LeaseInv, TypeOK, Exit, registryVars
<1>2. child' \in [Leases -> {"none", "alive", "gone"}] /\ child'[l] = "gone"
      /\ \A m \in Leases \ {l} : child'[m] = child[m]
  BY <1>1
<1>3. TypeOK' /\ OneBlocks' /\ (version < 2 => \A m \in Leases : rows[m].state = "none")'
  BY <1>1, <1>2 DEF LeaseInv, TypeOK, OneBlocks, Blocking
<1>4. \A m \in Leases : LeaseSound(m)'
  <2> SUFFICES ASSUME NEW m \in Leases PROVE LeaseSound(m)'
    OBVIOUS
  <2>1. LeaseSound(m)
    BY DEF LeaseInv
  <2> QED  BY <1>1, <1>2, <2>1 DEF LeaseSound, Blocking
<1>5. \A j \in Instances : OpSound(j)'
  <2>1. ChildrenAge /\ NoneRevived
    BY <1>1, <1>2 DEF ChildrenAge, NoneRevived
  <2> QED  BY <1>1, <2>1, OthersSound
<1> QED  BY <1>3, <1>4, <1>5 DEF LeaseInv

\* A change of the table that neither blocks nor unblocks the workspace.
LEMMA TableKeeps ==
  ASSUME LeaseInv, UNCHANGED <<ledger, auth, child, lock, held, up, op, forgotten>>,
         version' \in 0..3, version' < 2 => \A l \in Leases : rows'[l].state = "none",
         rows' \in [Leases -> Row],
         \A l \in Leases : /\ Blocking(l)' <=> Blocking(l)
                           /\ rows'[l].state = "active" => rows[l].state = "active"
                           /\ rows'[l].state # "none" => rows[l].state # "none"
                           /\ rows'[l].bound => rows[l].bound
  PROVE  LeaseInv'
<1>1. TypeOK' /\ OneBlocks'
  BY DEF LeaseInv, TypeOK, OneBlocks
<1>2. \A m \in Leases : LeaseSound(m)'
  <2> SUFFICES ASSUME NEW m \in Leases PROVE LeaseSound(m)'
    OBVIOUS
  <2>1. LeaseSound(m)
    BY DEF LeaseInv
  <2> QED  BY <2>1 DEF LeaseSound
<1>3. \A j \in Instances : OpSound(j)'
  BY OthersSound DEF ChildrenAge, NoneRevived
<1> QED  BY <1>1, <1>2, <1>3 DEF LeaseInv

\* The rows that version 3 makes of those of version 2, and the other way round.
LEMMA MigratedRows ==
  ASSUME NEW r \in Row
  PROVE  /\ Upgraded(r) \in Row /\ Upgraded(r).state # "active"
         /\ Upgraded(r).state \in {"none", "released"} <=> r.state \in {"none", "released"}
         /\ Upgraded(r).state = "none" <=> r.state = "none"
         /\ Upgraded(r).bound => r.bound
         /\ Downgraded(r) \in Row /\ ~Downgraded(r).bound /\ Downgraded(r).state # "active"
         /\ Downgraded(r).state \in {"none", "released"} <=> r.state \in {"none", "released"}
         /\ Downgraded(r).state = "none" <=> r.state = "none"
<1>1. NoRow \in Row /\ NoRow.bound = FALSE
  BY DEF NoRow, Row, States
<1>2. CASE r.state = "none"
  BY <1>1, <1>2 DEF Upgraded, Downgraded, Row, States
<1>3. CASE r.state = "released"
  BY <1>1, <1>3 DEF Upgraded, Downgraded, Row, States
<1>4. CASE r.state \notin {"none", "released"}
  BY <1>1, <1>4 DEF Upgraded, Downgraded, Row, States
<1> QED  BY <1>2, <1>3, <1>4

\* A migration quarantines what it finds; with rows there is a generation.
LEMMA MigrateKeeps ==
  ASSUME LeaseInv, Migrate
  PROVE  LeaseInv' /\ ledger' = ledger /\ \A l \in Leases : Blocking(l)' <=> Blocking(l)
<1>1. /\ TypeOK /\ version \in 0..3 /\ ledger \in Nat /\ rows \in [Leases -> Row] /\ version < 3
      /\ version' = version + 1 /\ UNCHANGED <<auth, child, lock, held, up, op, forgotten>>
      /\ auth \in [Leases -> Authority]
  BY DEF LeaseInv, TypeOK, Migrate
<1>2. CASE version # 2
  <2>1. UNCHANGED <<rows, ledger>> /\ version' < 3
    BY <1>1, <1>2 DEF Migrate
  <2>2. \A l \in Leases : Blocking(l)' <=> Blocking(l)
    BY <2>1 DEF Blocking
  <2>3. version < 2 /\ \A l \in Leases : rows[l].state = "none"
    BY <1>1, <1>2 DEF LeaseInv
  <2> QED  BY <1>1, <2>1, <2>2, <2>3, TableKeeps
<1>3. CASE version = 2
  <2>1. rows' = [l \in Leases |-> Upgraded(rows[l])] /\ ledger' = IF ledger = 0 /\ rows' # rows THEN 1 ELSE ledger
    BY <1>3 DEF Migrate
  <2>2. ASSUME ledger = 0 PROVE rows' = rows
    <3>1. ASSUME NEW l \in Leases PROVE Upgraded(rows[l]) = rows[l]
      <4>1. LeaseSound(l) /\ auth[l].gen \in Nat
        BY <1>1 DEF LeaseInv, Authority
      <4>2. rows[l].state = "none"
        BY <2>2, <4>1 DEF LeaseSound
      <4> QED  BY <4>2 DEF Upgraded
    <3> QED  BY <1>1, <2>1, <3>1
  <2>3. ledger' = ledger
    BY <2>1, <2>2
  <2>4. /\ rows' \in [Leases -> Row]
        /\ \A l \in Leases : /\ Blocking(l)' <=> Blocking(l)
                             /\ rows'[l].state = "active" => rows[l].state = "active"
                             /\ rows'[l].state # "none" => rows[l].state # "none"
                             /\ rows'[l].bound => rows[l].bound
    <3>1. \A l \in Leases : rows'[l] = Upgraded(rows[l]) /\ rows[l] \in Row
      BY <1>1, <2>1
    <3> QED  BY <2>1, <3>1, MigratedRows DEF Blocking
  <2> QED  BY <1>1, <1>3, <2>3, <2>4, TableKeeps
<1> QED  BY <1>2, <1>3

\* A down migration keeps what blocks, or forgets every lease there was.
LEMMA MigrateDownKeeps ==
  ASSUME LeaseInv, NEW i \in Instances, MigrateDown(i)
  PROVE  /\ LeaseInv'
         /\ \/ forgotten' = forgotten /\ \A l \in Leases : Blocking(l)' <=> Blocking(l)
            \/ /\ \A l \in Leases : ~Blocking(l)'
               /\ \A l \in Leases \ forgotten' : child'[l] # "alive"
<1>1. /\ TypeOK /\ version \in 0..3 /\ op[i].target \in 0..2 /\ rows \in [Leases -> Row] /\ version > op[i].target
      /\ version' = version - 1 /\ UNCHANGED <<ledger, auth, child, lock, held, up, op>>
      /\ auth \in [Leases -> Authority] /\ version' \in 0..3
  <2>1. TypeOK /\ version \in 0..3 /\ op[i] \in Op
    BY DEF LeaseInv, TypeOK
  <2>2. op[i].target \in 0..2
    BY <2>1 DEF Op
  <2> QED  BY <2>1, <2>2 DEF TypeOK, MigrateDown
<1>2. NoRows \in [Leases -> Row] /\ \A l \in Leases : NoRows[l].state = "none" /\ NoRows[l].bound = FALSE
  BY DEF NoRows, NoRow, Row, States
<1>3. CASE version = 3
  <2>1. rows' = [l \in Leases |-> Downgraded(rows[l])] /\ forgotten' = forgotten
    BY <1>3 DEF MigrateDown
  <2>2. /\ rows' \in [Leases -> Row]
        /\ \A l \in Leases : /\ Blocking(l)' <=> Blocking(l)
                             /\ rows'[l].state = "active" => rows[l].state = "active"
                             /\ rows'[l].state # "none" => rows[l].state # "none"
                             /\ rows'[l].bound => rows[l].bound
    <3>1. \A l \in Leases : rows'[l] = Downgraded(rows[l]) /\ rows[l] \in Row
      BY <1>1, <2>1
    <3> QED  BY <2>1, <3>1, MigratedRows DEF Blocking
  <2> QED  BY <1>1, <1>3, <2>1, <2>2, TableKeeps
<1>4. CASE version < 2
  <2>1. rows' = NoRows /\ forgotten' = forgotten /\ \A l \in Leases : rows[l].state = "none"
    BY <1>4 DEF MigrateDown, LeaseInv
  <2>2. \A l \in Leases : Blocking(l)' <=> Blocking(l)
    BY <1>2, <2>1 DEF Blocking
  <2> QED  BY <1>1, <1>2, <2>1, <2>2, TableKeeps
<1>5. CASE version = 2
  <2>1. rows' = NoRows /\ forgotten' = {l \in Leases : auth[l].gen > 0}
    BY <1>5 DEF MigrateDown
  <2>2. /\ TypeOK' /\ OneBlocks' /\ (\A l \in Leases : rows[l].state = "none")'
        /\ \A l \in Leases : ~Blocking(l)'
    BY <1>1, <1>2, <2>1 DEF TypeOK, OneBlocks, Blocking
  <2>3. ASSUME NEW l \in Leases PROVE LeaseSound(l)' /\ (l \notin forgotten' => child[l] # "alive")
    <3>1. LeaseSound(l)
      BY DEF LeaseInv
    <3> QED  BY <1>1, <1>2, <2>1, <3>1 DEF LeaseSound
  <2>4. \A j \in Instances : OpSound(j)'
    <3>1. ChildrenAge /\ NoneRevived
      BY <1>1, <1>2, <2>1 DEF ChildrenAge, NoneRevived
    <3> QED  BY <1>1, <3>1, OthersSound
  <2> QED  BY <1>1, <2>2, <2>3, <2>4 DEF LeaseInv
<1> QED  BY <1>1, <1>3, <1>4, <1>5

\* Retention deletes released rows.
LEMMA CleanupKeeps ==
  ASSUME LeaseInv, NEW i \in Instances, Cleanup(i)
  PROVE  LeaseInv' /\ \A l \in Leases : Blocking(l)' <=> Blocking(l)
<1>1. PICK old \in SUBSET {l \in Leases : rows[l].state = "released"} :
        rows' = [l \in Leases |-> IF l \in old THEN NoRow ELSE rows[l]]
  BY DEF Cleanup
<1>2. /\ version = 3 /\ UNCHANGED <<version, ledger, auth, child, lock, held, up, op, forgotten>>
      /\ rows \in [Leases -> Row]
  BY DEF Cleanup, LeaseInv, TypeOK
<1>3. NoRow \in Row /\ NoRow.state = "none" /\ NoRow.bound = FALSE
  BY DEF NoRow, Row, States
<1>4. \A l \in Leases : rows'[l] = rows[l] \/ (rows'[l] = NoRow /\ rows[l].state = "released")
  BY <1>1
<1>5. rows' \in [Leases -> Row] /\ \A l \in Leases : Blocking(l)' <=> Blocking(l)
  BY <1>1, <1>2, <1>3, <1>4 DEF Blocking
<1> QED  BY <1>2, <1>3, <1>4, <1>5, TableKeeps

-----------------------------------------------------------------------------
(* The invariant.                                                          *)

\* At the start there is no table, no lease and no instance.
LEMMA InitIsSound == Init => LeaseInv
<1> SUFFICES ASSUME Init PROVE LeaseInv
  OBVIOUS
<1>1. NoRow \in Row /\ NoRow.state = "none" /\ NoRow.bound = FALSE
  BY DEF NoRow, Row, States
<1>2. NoAuthority \in Authority /\ NoAuthority.held = FALSE /\ NoAuthority.bound = FALSE /\ NoAuthority.gen = 0
  BY DEF NoAuthority, Authority
<1>3. TypeOK
  BY <1>1, <1>2, IdleTyped DEF Init, TypeOK, NoRows
<1>4. \A l \in Leases : rows[l].state = "none" /\ ~Blocking(l) /\ LeaseSound(l)
  BY <1>1, <1>2 DEF Init, NoRows, LeaseSound, Blocking
<1>5. \A i \in Instances : OpSound(i)
  BY IdleTyped DEF Init, OpSound, Observed
<1> QED  BY <1>3, <1>4, <1>5 DEF LeaseInv, OneBlocks

\* Every step keeps the invariant.
LEMMA StepIsSound == LeaseInv /\ [Next]_vars => LeaseInv'
<1> SUFFICES ASSUME LeaseInv, [Next]_vars PROVE LeaseInv'
  OBVIOUS
<1>1. CASE UNCHANGED vars
  BY <1>1 DEF vars, LeaseInv, TypeOK, OneBlocks, Blocking, LeaseSound, OpSound
<1>2. CASE Migrate
  BY <1>2, MigrateKeeps
<1>3. ASSUME NEW l \in Leases, Exit(l) PROVE LeaseInv'
  BY <1>3, ExitKeeps
<1>4. ASSUME NEW i \in Instances, Step(i) PROVE LeaseInv'
  BY <1>4, LockStepsKeep, AcquireLeaseKeeps, ReleaseLeaseKeeps, DropKeeps, RecoverKeeps, TakeLockKeeps,
     ExamineKeeps, QuarantineKeeps, RetireKeeps, MigrateDownKeeps, CleanupKeeps, OpenKeeps, EndKeeps,
     RollbackKeeps, SpawnKeeps, BindProcessKeeps, HeartbeatKeeps, ReleaseKeeps, RepairKeeps DEF Step
<1> QED  BY <1>1, <1>2, <1>3, <1>4 DEF Next

\* The invariant holds in every state the registry and the instances can reach.
LEMMA LeaseInvariant == Spec => []LeaseInv
  BY InitIsSound, StepIsSound, PTL DEF Spec

\* Every variable keeps its type, and one lease at most blocks the workspace,
\* whatever locks are lost or taken over and whichever instances crash.
THEOREM OneWriterBlocks == Spec => [](TypeOK /\ OneBlocks)
<1>1. LeaseInv => TypeOK /\ OneBlocks
  BY DEF LeaseInv
<1> QED  BY <1>1, LeaseInvariant, PTL

-----------------------------------------------------------------------------
(* A fenced authority stays fenced.                                        *)

\* A row is active after a step because it was before, with the generation and
\* the token it had, or because the lease is new.
LEMMA ActiveLasts ==
  ASSUME TypeOK, [Next]_vars, NEW l \in Leases, rows'[l].state = "active", auth[l].gen > 0
  PROVE  /\ rows[l].state = "active" /\ rows'[l].gen = rows[l].gen /\ rows'[l].token = rows[l].token
         /\ auth'[l].gen = auth[l].gen
<1> DEFINE Kept == /\ rows[l].state = "active" /\ rows'[l].gen = rows[l].gen /\ rows'[l].token = rows[l].token
                   /\ auth'[l].gen = auth[l].gen
<1>1. rows \in [Leases -> Row] /\ auth \in [Leases -> Authority] /\ rows[l] \in Row /\ auth[l] \in Authority
  BY DEF TypeOK
<1>2. CASE UNCHANGED <<rows, auth>>
  BY <1>2
<1>3. ASSUME NEW i \in Instances, Close(i) \/ Crash(i) PROVE Kept
  <2>1. /\ rows' = rows
        /\ auth' = [m \in Leases |-> IF m \in held[i] THEN [auth[m] EXCEPT !.held = FALSE] ELSE auth[m]]
    BY <1>3 DEF Close, Crash, registryVars
  <2> QED  BY <1>1, <2>1 DEF Authority
<1>4. ASSUME NEW i \in Instances, AcquireLease(i) PROVE Kept
  <2>1. PICK m \in Leases :
          /\ auth[m].gen = 0
          /\ rows' = [rows EXCEPT ![m] = [state |-> "active", gen |-> ledger + 1,
                                          ver |-> 1, bound |-> FALSE, token |-> TRUE]]
          /\ auth' = [auth EXCEPT ![m] = [gen |-> ledger + 1, ver |-> 1, bound |-> FALSE, held |-> TRUE]]
    BY <1>4 DEF AcquireLease
  <2>2. m # l
    BY <2>1
  <2> QED  BY <1>1, <2>1, <2>2
<1>5. ASSUME NEW m \in Leases, NEW state \in {"released", "quarantined"}, NEW n \in Nat, Write(m, state, n),
             auth' = auth \/ auth' = [auth EXCEPT ![m].held = FALSE]
      PROVE  Kept
  <2>1. PICK new \in Row : rows' = [rows EXCEPT ![m] = new] /\ new.state = state
    BY <1>1, <1>5, WriteMoves DEF States
  <2>2. m # l
    BY <1>1, <2>1
  <2> QED  BY <1>1, <1>5, <2>1, <2>2
<1>6. ASSUME NEW i \in Instances, ReleaseLease(i) \/ Quarantine(i) \/ Retire(i) \/ Mend(i) PROVE Kept
  <2>1. CASE op[i].lease \in Leases
    BY <1>2, <1>5, <1>6, <2>1 DEF ReleaseLease, Quarantine, Retire, Mend
  <2>2. CASE op[i].lease \notin Leases
    BY <1>1, <1>6, <2>2 DEF ReleaseLease, Quarantine, Retire, Mend, Write
  <2> QED  BY <2>1, <2>2
<1>7. ASSUME NEW i \in Instances, NEW m \in Leases, Heartbeat(i, m) PROVE Kept
  <2>1. rows[m].state = "active" /\ Write(m, "active", 1) /\ auth' = [auth EXCEPT ![m].ver = @ + 1]
    BY <1>7 DEF Heartbeat
  <2>2. PICK new \in Row : /\ rows' = [rows EXCEPT ![m] = new]
                           /\ new.gen = rows[m].gen /\ new.token = rows[m].token
    BY <1>1, <2>1, WriteMoves DEF States
  <2>3. auth'[l].gen = auth[l].gen
    BY <1>1, <2>1 DEF Authority
  <2> QED  BY <1>1, <2>1, <2>2, <2>3
<1>8. ASSUME NEW i \in Instances, NEW m \in Leases, BindProcess(i, m) PROVE Kept
  <2>1. /\ rows[m].state = "active" /\ rows' = [rows EXCEPT ![m].bound = TRUE, ![m].ver = @ + 1]
        /\ auth' = [auth EXCEPT ![m].bound = TRUE, ![m].ver = @ + 1]
    BY <1>8 DEF BindProcess
  <2> QED  BY <1>1, <2>1 DEF Row, Authority
<1>9. CASE Migrate
  <2>1. auth' = auth /\ (rows' = rows \/ rows' = [m \in Leases |-> Upgraded(rows[m])])
    BY <1>9 DEF Migrate
  <2> QED  BY <1>1, <2>1, MigratedRows
<1>10. ASSUME NEW i \in Instances, MigrateDown(i) PROVE Kept
  <2>1. auth' = auth /\ (rows' = NoRows \/ rows' = [m \in Leases |-> Downgraded(rows[m])])
    BY <1>10 DEF MigrateDown
  <2> QED  BY <1>1, <2>1, MigratedRows DEF NoRows, NoRow
<1>11. ASSUME NEW i \in Instances, Cleanup(i) PROVE Kept
  <2>1. auth' = auth /\ (rows'[l] = rows[l] \/ rows'[l] = NoRow)
    BY <1>11 DEF Cleanup
  <2> QED  BY <2>1 DEF NoRow
<1>12. ASSUME NEW i \in Instances, Step(i) PROVE Kept
  <2>1. \/ UNCHANGED <<rows, auth>>
        \/ Close(i) \/ Crash(i) \/ AcquireLease(i) \/ ReleaseLease(i) \/ Quarantine(i) \/ Retire(i) \/ Mend(i)
        \/ MigrateDown(i) \/ Cleanup(i) \/ \E m \in Leases : Heartbeat(i, m) \/ BindProcess(i, m)
    BY <1>12 DEF Step, registryVars, AcquireLock, AcquireDenied, dropLock, Recover, TakeLock, Examine,
       releaseLock, RolledBack, Open, Rollback, Spawn, Release, Repair
  <2> QED  BY <1>2, <1>3, <1>4, <1>6, <1>7, <1>8, <1>10, <1>11, <2>1
<1>13. ASSUME NEW m \in Leases, Exit(m) PROVE Kept
  BY <1>2, <1>13 DEF Exit, registryVars
<1> QED  BY <1>2, <1>9, <1>12, <1>13 DEF Next, vars

\* An authority that was fenced never counts again: FencedForGood holds of every
\* behaviour, for any number of instances and leases.
THEOREM FencedStaysFenced == Spec => FencedForGood
<1>1. TypeOK /\ [Next]_vars => [\A l \in Leases : auth[l].gen > 0 /\ ~Live(l) => ~Live(l)']_vars
  BY ActiveLasts DEF Live
<1>2. LeaseInv => TypeOK
  BY DEF LeaseInv
<1> QED  BY <1>1, <1>2, LeaseInvariant, PTL DEF Spec, FencedForGood

-----------------------------------------------------------------------------
(* The refinement of SingleWriter.                                         *)

\* The lease that blocks is the writer.
LEMMA WriterIs ==
  ASSUME OneBlocks, NEW l \in Leases, Blocking(l)
  PROVE  Writer = l
  BY DEF Writer, OneBlocks

\* The same after a step.
LEMMA WriterIsNext ==
  ASSUME OneBlocks', NEW l \in Leases, Blocking(l)'
  PROVE  Writer' = l
  BY DEF Writer, OneBlocks

\* Without a lease that blocks there is no writer.
LEMMA NoWriter ==
  /\ (\A l \in Leases : ~Blocking(l)) => Writer = NoLease
  /\ (\A l \in Leases : ~Blocking(l)') => Writer' = NoLease
  BY DEF Writer

\* The writer stays when what blocks does.
LEMMA WriterStays ==
  ASSUME LeaseInv, LeaseInv', \A l \in Leases : Blocking(l)' <=> Blocking(l)
  PROVE  Writer' = Writer
<1>1. OneBlocks /\ OneBlocks'
  BY DEF LeaseInv
<1>2. CASE \A l \in Leases : ~Blocking(l)
  BY <1>2, NoWriter
<1>3. ASSUME NEW l \in Leases, Blocking(l) PROVE Writer' = Writer
  BY <1>1, <1>3, WriterIs, WriterIsNext
<1> QED  BY <1>2, <1>3

\* What blocks, what runs and the ledger are as they were.
Quiet ==
    /\ \A l \in Leases : Blocking(l)' <=> Blocking(l)
    /\ UNCHANGED <<ledger, child, forgotten>>

\* The row of a lease without a living child is retired.
Retired(l) ==
    /\ Blocking(l) /\ child[l] # "alive"
    /\ \A m \in Leases : Blocking(m)' <=> Blocking(m) /\ m # l
    /\ UNCHANGED <<ledger, child, forgotten>>

\* The steps of an instance that do not start, retire or forget a writer.
LEMMA QuietSteps ==
  ASSUME LeaseInv, NEW i \in Instances, Step(i)
  PROVE  \/ Quiet \/ AcquireLease(i) \/ MigrateDown(i) \/ \E l \in Leases : Spawn(i, l)
         \/ \E l \in Leases : Retired(l)
<1>1. rows \in [Leases -> Row] /\ OpSound(i)
  BY DEF LeaseInv, TypeOK
<1>2. ASSUME NEW l \in Leases, NEW state \in {"active", "released", "quarantined"}, NEW n \in Nat,
             Write(l, state, n), Blocking(l), state = "released" => child[l] # "alive",
             UNCHANGED <<ledger, child, forgotten>>
      PROVE  Quiet \/ Retired(l)
  <2>1. PICK new \in Row : rows' = [rows EXCEPT ![l] = new] /\ new.state = state
    BY <1>1, <1>2, WriteMoves DEF States
  <2>2. Blocking(l)' <=> state # "released"
    BY <1>1, <2>1 DEF Blocking
  <2>3. \A m \in Leases \ {l} : Blocking(m)' <=> Blocking(m)
    BY <1>1, <2>1 DEF Blocking
  <2> QED  BY <1>2, <2>2, <2>3 DEF Quiet, Retired
<1>3. CASE UNCHANGED <<ledger, rows, child, forgotten>>
  BY <1>3 DEF Quiet, Blocking
<1>4. CASE ReleaseLease(i)
  <2> DEFINE l == op[i].lease
  <2>1. op[i].at = "release" /\ l \in Leases /\ UNCHANGED <<ledger, child, forgotten>>
    BY <1>1, <1>4 DEF ReleaseLease, OpSound
  <2>2. CASE UNCHANGED rows
    BY <1>3, <2>1, <2>2
  <2>3. CASE rows[l].state = "active" /\ Write(l, "released", 2)
    <3>1. Blocking(l) /\ child[l] # "alive"
      BY <1>1, <2>1, <2>3 DEF OpSound, Blocking
    <3> QED  BY <1>2, <2>1, <2>3, <3>1
  <2> QED  BY <1>4, <2>2, <2>3 DEF ReleaseLease
<1>5. CASE Quarantine(i) \/ Retire(i) \/ Mend(i)
  <2> DEFINE l == op[i].lease
  <2>1. /\ op[i].at \in {"quarantine", "retire", "mend"} /\ l \in Leases /\ UNCHANGED <<ledger, child, forgotten>>
        /\ op[i].at \in {"retire", "mend"} => child[l] = "gone"
    BY <1>1, <1>5 DEF Quarantine, Retire, Mend, OpSound, Observed
  <2>2. CASE UNCHANGED rows
    BY <1>3, <2>1, <2>2
  <2>3. ASSUME NEW state \in {"released", "quarantined"}, Unchanged(l, op[i].seen), Write(l, state, 1),
               state = "released" => op[i].at \in {"retire", "mend"}
        PROVE  Quiet \/ Retired(l)
    <3>1. Blocking(l) /\ (state = "released" => child[l] # "alive")
      BY <1>1, <2>1, <2>3 DEF OpSound, Observed, Unchanged, Blocking
    <3> QED  BY <1>2, <2>1, <2>3, <3>1
  <2> QED  BY <1>5, <2>1, <2>2, <2>3 DEF Quarantine, Retire, Mend
<1>6. ASSUME NEW l \in Leases, Heartbeat(i, l) PROVE Quiet
  <2>1. Blocking(l) /\ Write(l, "active", 1) /\ UNCHANGED <<ledger, child, forgotten>>
    BY <1>6 DEF Heartbeat, Blocking
  <2>2. PICK new \in Row : rows' = [rows EXCEPT ![l] = new] /\ new.state = "active"
    BY <1>1, <2>1, WriteMoves DEF States
  <2> QED  BY <1>1, <2>1, <2>2 DEF Quiet, Blocking
<1>7. ASSUME NEW l \in Leases, BindProcess(i, l) PROVE Quiet
  <2>1. /\ rows' = [rows EXCEPT ![l].bound = TRUE, ![l].ver = @ + 1] /\ UNCHANGED <<ledger, child, forgotten>>
        /\ rows[l] \in Row
    BY <1>1, <1>7 DEF BindProcess
  <2>2. \A m \in Leases : rows'[m].state = rows[m].state
    BY <1>1, <2>1 DEF Row
  <2> QED  BY <2>1, <2>2 DEF Quiet, Blocking
<1>8. CASE Cleanup(i)
  BY <1>8, CleanupKeeps DEF Quiet, Cleanup
<1> QED
  BY <1>3, <1>4, <1>5, <1>6, <1>7, <1>8 DEF Step, registryVars, AcquireLock, AcquireDenied, dropLock,
     Recover, TakeLock, Examine, releaseLock, RolledBack, Open, Close, Crash, Rollback, Release, Repair

\* The registry, the tools and their clients implement the single writer: a second
\* writer is admitted only when no lease blocks, a lease is retired only when its
\* process is gone, and the generation grows with every writer, for any number of
\* instances and leases, lost locks and crashes.
THEOREM LeasesImplementSingleWriter == Spec => ImplementsSingleWriter
<1>1. Init => Abstract!Init
  <2> SUFFICES ASSUME Init PROVE Abstract!Init
    OBVIOUS
  <2>1. \A l \in Leases : ~Blocking(l)
    BY DEF Init, NoRows, NoRow, Blocking
  <2> QED  BY <2>1, NoWriter DEF Init, Abstract!Init, Running
<1>2. ASSUME LeaseInv, LeaseInv', [Next]_vars
      PROVE  [Abstract!Next]_<<Writer, ledger, Running>>
  <2> SUFFICES Abstract!Next \/ UNCHANGED <<Writer, ledger, Running>>
    OBVIOUS
  <2>1. OneBlocks /\ OneBlocks' /\ child \in [Leases -> {"none", "alive", "gone"}]
    BY <1>2 DEF LeaseInv, TypeOK
  <2>2. CASE Quiet
    <3>1. Writer' = Writer
      BY <1>2, <2>2, WriterStays DEF Quiet
    <3> QED  BY <2>2, <3>1 DEF Quiet, Running
  <2>3. ASSUME NEW l \in Leases, Retired(l) PROVE Abstract!Retire
    <3>1. Writer = l /\ l \notin Running
      BY <2>1, <2>3, WriterIs DEF Retired, Running
    <3>2. Writer' = NoLease
      <4>1. \A m \in Leases : ~Blocking(m)'
        BY <2>1, <2>3 DEF Retired, OneBlocks
      <4> QED  BY <4>1, NoWriter
    <3>3. ledger' = ledger /\ Running' = Running
      BY <2>3 DEF Retired, Running
    <3> QED  BY <3>1, <3>2, <3>3 DEF Abstract!Retire
  <2>4. ASSUME NEW i \in Instances, AcquireLease(i) PROVE \E l \in Leases : Abstract!Admit(l)
    <3>1. PICK l \in Leases :
            /\ ledger' = ledger + 1
            /\ rows' = [rows EXCEPT ![l] = [state |-> "active", gen |-> ledger + 1,
                                            ver |-> 1, bound |-> FALSE, token |-> TRUE]]
      BY <2>4 DEF AcquireLease
    <3>2. Writer = NoLease
      BY <2>4, NoWriter DEF AcquireLease
    <3>3. Blocking(l)' /\ Writer' = l
      <4>1. rows \in [Leases -> Row]
        BY <1>2 DEF LeaseInv, TypeOK
      <4>2. Blocking(l)'
        BY <3>1, <4>1 DEF Blocking
      <4> QED  BY <2>1, <4>2, WriterIsNext
    <3>4. Running' = Running
      BY <2>4 DEF AcquireLease, Running
    <3> QED  BY <3>1, <3>2, <3>3, <3>4 DEF Abstract!Admit
  <2>5. ASSUME NEW i \in Instances, NEW l \in Leases, Spawn(i, l)
        PROVE  Abstract!Start \/ UNCHANGED <<Writer, ledger, Running>>
    <3>1. child' = [child EXCEPT ![l] = "alive"] /\ UNCHANGED <<ledger, rows, forgotten>>
      BY <2>5 DEF Spawn, registryVars
    <3>2. Writer' = Writer
      BY <1>2, <3>1, WriterStays DEF Blocking
    <3>3. CASE l \in forgotten
      <4>1. Running' = Running
        BY <2>1, <3>1, <3>3 DEF Running
      <4> QED  BY <3>1, <3>2, <4>1
    <3>4. CASE l \notin forgotten
      <4>1. Writer = l
        BY <1>2, <2>1, <2>5, <3>4, SpawnKeeps, WriterIs
      <4>2. Running' = Running \cup {l}
        BY <2>1, <3>1, <3>4 DEF Running
      <4> QED  BY <3>1, <3>2, <4>1, <4>2 DEF Abstract!Start
    <3> QED  BY <3>3, <3>4
  <2>6. ASSUME NEW l \in Leases, Exit(l) PROVE Abstract!Exit(l)
    <3>1. child' = [child EXCEPT ![l] = "gone"] /\ UNCHANGED <<ledger, rows, forgotten>>
      BY <2>6 DEF Exit, registryVars
    <3>2. Writer' = Writer
      BY <1>2, <3>1, WriterStays DEF Blocking
    <3>3. Running' = Running \ {l}
      BY <2>1, <3>1 DEF Running
    <3> QED  BY <3>1, <3>2, <3>3 DEF Abstract!Exit
  <2>7. ASSUME NEW i \in Instances, MigrateDown(i)
        PROVE  Abstract!Forget \/ UNCHANGED <<Writer, ledger, Running>>
    <3>1. UNCHANGED <<ledger, child>>
      BY <2>7 DEF MigrateDown
    <3>2. CASE forgotten' = forgotten /\ \A l \in Leases : Blocking(l)' <=> Blocking(l)
      BY <1>2, <3>1, <3>2, WriterStays DEF Running
    <3>3. CASE (\A l \in Leases : ~Blocking(l)') /\ \A l \in Leases \ forgotten' : child'[l] # "alive"
      <4>1. Writer' = NoLease /\ Running' = {}
        BY <3>3, NoWriter DEF Running
      <4> QED  BY <3>1, <4>1 DEF Abstract!Forget
    <3> QED  BY <1>2, <2>7, <3>2, <3>3, MigrateDownKeeps
  <2>8. CASE Migrate
    BY <1>2, <2>2, <2>8, MigrateKeeps DEF Quiet, Migrate
  <2>9. CASE UNCHANGED vars
    BY <2>9 DEF vars, Writer, Running, Blocking
  <2>10. ASSUME NEW i \in Instances, Step(i)
         PROVE  Abstract!Next \/ UNCHANGED <<Writer, ledger, Running>>
    BY <1>2, <2>2, <2>3, <2>4, <2>5, <2>7, <2>10, QuietSteps DEF Abstract!Next
  <2> QED  BY <1>2, <2>6, <2>8, <2>9, <2>10 DEF Next, Abstract!Next
<1>3. LeaseInv /\ LeaseInv' /\ [Next]_vars => [Abstract!Next]_<<Writer, ledger, Running>>
  BY <1>2
<1> QED  BY <1>1, <1>3, LeaseInvariant, PTL DEF Spec, ImplementsSingleWriter, Abstract!Spec, Abstract!vars
=============================================================================
