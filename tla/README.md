# Verification of the Superset agent orchestrator

TLA+ models of the orchestrator's core, the TLC configurations that check them
on small instances, and TLAPS proofs. Source paths are relative to the
repository (`src/store.ts` is the TypeScript file); `PROJECT.json` maps every
modelling definition to the lines it stands for.

## 1. The system

An MCP server launches agent runs through a provider adapter, keeps one durable
record per session, cancels sessions, enforces deadlines and collects results.
All durable state is one JSON file; several servers may share it.

| Component | State | Operations | What makes it correct |
| --- | --- | --- | --- |
| `DurableStore`, session records (`store.ts`) | status, run, stop reason, pre-cancel status, deadline, result, eight optional flags | bind, request/claim/release/withdraw a cancellation, claim/release a stop, settle, expire, capture, reconcile, recover claims | one outcome, one run, cancellations recorded and withdrawn as a whole |
| `DurableStore`, assignments | `accepted`, `launching`, `launched`, `failed` | accept, recordLaunchEvent, pendingAssignments | settled once; intent written before dispatch |
| `LifecycleService` (`lifecycle-service.ts`) | calls in progress, provider slots | cancelSession, enforceDeadlines, reconcileCancellations, reconcileTimedOutResults, waitForBatches | one stop in flight, no stop lost, no invented outcome, everything settles |
| `ResultCaptureService` (`result-capture.ts`) | none of its own | collect, ingest | the first result of an attempt is kept |
| `LaunchService` (`launch-service.ts`) | pass in flight, retry timer | launch, launchBatch, acceptBatch, dispatchPending, dispatch, stop | batches accepted as a whole, no run without intent, no run for a cancelled session, everything reserved is resolved |
| Server (`server.ts`) | timers, sweep in flight | startup, sweep, tools | recovery before service; sweeps do not overlap |
| `LaunchCoordinator` (`launch-coordinator.ts`), launch intents | `reserved`, `dispatching`, `unknown_outcome`, `bound` | launch, reconcile | intent before dispatch, no retry of an open outcome, every accepted run can be bound, once |
| `ConcurrencyScheduler`, limited adapter | queue, active permits | acquire, release, abort, drain, recover | limits hold, FIFO, no lost wake-up, no lost permit |
| Local MCP adapter (`superset-local-mcp-adapter.ts`) | pending intents and runs in a file | launch, find, status, result | a key is never launched twice, a run is never forgotten |
| `OrchestratorStorage` (`storage.ts`), `WorkspaceSafetyTool` (`workspace-safety.ts`) | leases, generations, fencing tokens, schema version, lock files | acquire, bind, heartbeat, release, recover, quarantine, repair, migrate, rollback, cleanup | one writer; stale authority is fenced; generations are fresh |
| Call validator and executor (`call-validator.ts`, `call-executor.ts`) | outputs, audit trail, replay records | validate, execute, record, replay | order follows the dependencies, all or nothing is allowed, everything is audited, only recorded outputs are replayed |
| Security audit chain | hash-chained events | append, verify | append-only, detectable truncation |
| Experiment registry, discovery, security policy, tool contract, adapters' parsers, benchmarks, scripts | see `PROJECT.json` | | |

Interaction: the services call the store (each method is one transaction under
a process queue and a lock file) and the provider adapter (calls that may fail,
time out, or settle after their timeout). Between two awaits a call may be
overtaken by any other call, another server, the provider, or a crash. This is
where the behaviour is hard, and what the hazards of `PROJECT.json` list.

## 2. Modules

| Module | Models |
| --- | --- |
| `WorkerRecord` | the session record and one operator per store method, from the old record to the new one |
| `SessionContract` | what a session promises: open, stopping, ended once, at most one run (abstract specification) |
| `WorkerStore` | the store's session API: every method, called by anyone in any order; implements `SessionContract` |
| `Lifecycle` | lifecycle service, result capture, sweeps, restarts and provider over the records; implements `WorkerStore` |
| `Launch` | launch service with batches and stop, startup passes, dispatch lock, retry timer and provider; implements `WorkerStore` |
| `Scheduler` | `ConcurrencyScheduler`: queue, limits, pressure checks, aborts, wake timer |
| `LimitedAdapter` | `ConcurrencyLimitedAgentAdapter` over an instance of `Scheduler` |
| `SingleWriter` | what the lease registry promises for a workspace (abstract specification) |
| `WriterLease` | lease rows, generation ledger, migrations and the safety tools of several instances; implements `SingleWriter` |
| `AgentCalls` | the launch calls and idempotency keys that `LocalAdapter` and `LaunchCoordinator` share (constants only) |
| `AgentContract` | what `AgentAdapter.launch` promises: one run per key (abstract specification) |
| `LocalAdapter` | `SupersetLocalMcpAdapter.launch` in several processes; implements `AgentContract` |
| `LaunchCoordinator` | `LaunchCoordinator` over the store's launch intents, composed with an instance of `AgentContract` |
| `CallValidator`, `CallExecutor` | validation of call graphs; the walks over them, their execution, recording and replay |
| `MC*` | instances for TLC |
| `WorkerStoreProofs`, `LifecycleProofs`, `LaunchProofs`, `SchedulerProofs`, `LimitedAdapterProofs`, `WriterLeaseProofs`, `CallExecutorProofs` | TLAPS proofs about the module they are named after |
| `AgentContractProofs` | TLAPS proofs about both sides of `AgentContract`: `LocalAdapter`, and `LaunchCoordinator` |

**WorkerRecord.** `flags` is the set of optional fields that are present. A
deadline is an instant counted from 1 (0: none). A result is abstracted to how
it was obtained. Left out: time stamps, details, attribution, and the capped
list of late observations, none of which is read by control flow. `Storable`
is the schema's `superRefine`.

**WorkerStore.** An action that `persist` would refuse is disabled: the call
throws and the file keeps the old record (every method loads the file anew, so
nothing of the failed mutation survives in memory). `launch` is the status of
the session's assignment, `None` for sessions created by `createBatch`.
`recordWorkerTerminal` and `settleWorkerCancellation` take every
`TerminalWorkerStatus`, `unknown_outcome` too, which leaves the session open, and
every combination of stop reason, result and kept reconciliation.

**Lifecycle.** A call is one method invocation for one session, cut at its
awaits (`pc`); what it read before an await (the snapshot's pending flag, the
sweep's `now`, the observed status) is used after it. `Timeout` is
`ProviderOperationTimeoutError` of an operation that has not settled: its claim
stays, in `late`, until `LateRelease`. A stop request outlives its server too:
provider processes are spawned detached (`superset-process-adapter.ts:117`), so
`Crash` leaves the requests in flight to themselves (`Orphans`) and they may reach
the provider until `OrphanEnds`. `usurped` is a history variable: the sessions
whose claim a starting server took back while a request was in flight. A timeout of a settled or queued
operation, an error and a malformed answer are the answer "failed". Sessions
of one sweep are independent calls; `SweepFree` keeps the two reconciliations
of one server from overlapping. The record's schema check is no guard here:
`StoreAccepts` shows that it never fires. `BindRun` and `SetDeadline` are the
API for embedding programs. Startup is `RecoverClaims` then `Reconcile`. The
launch is reduced to what the record sees; `Launch` has the rest.

**Launch.** A pass takes a snapshot of the pending assignments and visits them
one by one, in the order of the state file (`isNext`), under their dispatch
locks. `retry` says that a timer callback
awaits the pass: only then is a failure retried. A failed startup pass ends the
server. A replayed key returns the assignment it has and schedules a pass like
a new one; a conflicting fingerprint throws without a state change. A batch is
named by its key and a single assignment is a batch of its own, named by the
same function, so a single launch whose key already names a batch is refused
when the state is validated, for ever; `BatchKeys` may hold assignment keys for
that reason. `Stop` stands for `stop` and `close`, which embedding programs
call (`server.ts` does not); calls that began before the stop may still write
their acceptance, and the tool's `dispatchPending` starts a pass all the same.
`Exit` is the end of the program after the awaited pass. A request
in flight survives the crash of its server (the provider's process is not the
server's). A lock is free when its holder has crashed (it becomes stale); a
holder that is merely paused past the stale period is not modelled.

**Scheduler.** The object's methods run to their end or to the one await, the
pressure check of the head of the queue, so an action is a method with the drain
loop it ends in. A request is one acquisition (the code compares pending objects,
not IDs); requests with one ID model a request that is aborted and made again.
The policy is chosen in the initial state. A rejected acquisition changes
nothing. `acquireExisting` ignores the limits, as the code intends.

**LimitedAdapter.** A key stands for its request and its run. `calling`,
`unresolved`, `retained` and `releases` are the four places where the adapter
keeps a permit; `lookup` holds what `recover` read before its await. Runs may
exist in the initial state, as after a restart, which loses all permits. The
provider answers absence only when no request can be accepted any more, as the
`AgentAdapter` contract demands, and gives each key its own run; with a shared
run, recovery of an unresolved launch would drop its permit
(`concurrency-limited-agent-adapter.ts:132`).

**WriterLease.** One workspace. The safety tool's methods are synchronous, but
each access to the lock file, the process table and the registry is a step of
its own, since other instances and crashes come in between. Comparisons with
`expires_at` may go either way, so nothing rests on clocks: expiry alone never
grants anything in the code. The lock file of a paused instance may be taken
over, and the old owner may then remove the new owner's lock. `child` is the
writer process; the probe of one that is not bound is always unverifiable, that
of a bound one may be. Rows from before schema 3 become quarantined
leases without a token. `forgotten` are leases that a rollback below schema 2
dropped. Assumed of the holder of an authority, from how the methods are
documented: it starts one child, binds it at most once and releases an unbound
lease only when no child of it is alive; of the operator: other instances are
stopped during a rollback (`docs/durable-storage.md`). The events table is
appended to and never read here.

**LocalAdapter.** A call works on the copy of the state file it read under the
lock and writes that copy back whole; a write may report an error before or
after the file was replaced. The lock is `proper-lockfile`'s: it can be taken
from its holder at any moment (`Lock`), and the holder learns of that in a step of
its own (`Compromised`), at its next refresh. `assertLockHeld` reads what the
holder was told, so a holder that was not told goes past it; the release of such
a holder removes the lock of another. `overrun` is a history variable: the calls
that went past a check, or stood between a check and its write, without the
lock. A crash leaves the pending intent, and a request that was
dispatched may still create its session. `findByIdempotencyKey`, `status` and
`result` only read.

**LaunchCoordinator.** Every store operation is one step that may report an
error whether or not the file was replaced. A call keeps what it saw when it
reserved (`created`, `seen`). `reconcile` reads the intents from the server's
memory, which may be stale, and is one loop: `Reconcile` starts it over some of
the intents, `Found` and `NotFound` look the next one up in any order,
`SweepBinds`, `SweepDenied` and `SweepThrows` end its turn, and an exception ends
the sweep for all that are left. `late` is a history variable: the calls whose
reservation found the launch of their key dispatched. Its adapter is the
instance `Adapter` of `AgentContract`, so that what is checked of it holds for
every adapter that implements the contract; `Launch`, `Fail` and `Answer` are
the process adapter's. `LocalAdapter` implements the contract too, but rejects
requests without a preset, which the coordinator does not pass. The coordinator is used by the
benchmark, not by the server.

**CallValidator, CallExecutor.** Arguments are objects of absent, literal and
referring fields; the input schema of a tool is one of type `object` that
describes some of the fields. `Json` gives each value its type, its formats and
what is in it; a schema has a type, an enum, a format, items, properties,
required properties and may be closed. Values and schemas are two levels deep,
which takes the recursion of `validateValue` and `compatible` through each of
its branches once; `validateLiteral` and `compatible` are the outer level,
`validateShallow` and `compatibleShallow` the inner one. A tool without an output
schema cannot be referred to and is left out. A tool answers with any value, in the sandbox or after its failure; the
audit sink may refuse any entry of a node. Versions stand for the hash of a
tool's source, `authentic` for the keyed hash of a record. The two recursive
functions, `walk` of `detectCycles` and `visit` of `topologicalOrder`, are
steps that enter a call and return from it: `exec.stack` holds the nodes whose
call is running, `exec.done` those whose call has returned. A call that returns
at once is left out, and a set is iterated in any order. A node that calls
itself ends the execution, as the overflow of the stack does.

The provider is external: its actions (launching a key at most once, ending a
run, receiving a stop) follow from how the adapters are used.

## 3. Runs

Passing:

| Run | Instance | Shows |
| --- | --- | --- |
| `worker_store` | 1 session, 2 runs, 2 reasons, 1 instant, every outcome and option | types; `CancellationIsWhole`; refinement of `SessionContract` |
| `lifecycle` | 1 server, 2 concurrent calls of all kinds, 2 instants, 1 crash | `StoreAccepts`, `CancellationIsOwed`, `ExpiredRunIsStopped`, `OutcomeIsObserved`, `ResultIsKept`; refinement of `WorkerStore` |
| `cancel_live` | 2 servers with 1 call each, cancels and sweeps, 1 crash | `OneClaimant`, `CancellationSettles` |
| `expiry_live` | cancels, expiries and sweeps, 1 crash | `DeadlineIsEnforced`, `LateResultIsCollected` |
| `launch` | 2 servers, 1 assignment, API and tool, 1 crash or stop | `WriteAhead`, `CanceledNeverRuns`, `BoundRunIsStopped`, `LaunchSettlesOnce`; refinement of `WorkerStore` |
| `launch_live` | 1 server, 2 assignments, the tool, `launch()` and `launchBatch()` with a batch key that also names an assignment, 1 crash or stop | `ReservedIsResolved`, over passes with several assignments and across a restart; `BatchIsWhole` |
| `scheduler` | 2 permits, 6 requests (2 with one ID, 3 abortable, 1 recovered), 12 policies | `LimitsHold`, `NobodyIsOvertaken`, `QueuedIsServed` |
| `limited_adapter` | 2 keys in one workspace, with and without hooks | `PermitHasOneHolder`, `PermitOutlivesRun`, `PermitComesBack` |
| `writer_lease` | 2 instances, 2 leases one after the other, lock take-over, rollback to schema 1, row versions to 3 | `FencedForGood`; refinement of `SingleWriter`: one writer while its process lives, fresh generations |
| `local_adapter` | 3 calls, 2 keys, 2 processes, crashes, a lock that is lost anywhere and noticed later | `NothingIsForgotten`; refinement of `AgentContract` |
| `launch_coordinator` | 4 calls, 2 keys, 2 requests for one of them, 2 servers, one of which sweeps, crashes, failing writes, aborted sweeps | `IntentComesFirst`, `BindingIsTheRun`, `BindingLasts`, `UnresolvedIsNotRetried`, `AcceptedCanBeBound` |
| `call_executor` | 4612 graphs of up to 4 nodes, one without any, 15 tools, 12 values, 2 capabilities; every literal for every tool, and every tool fed by every other; two graphs executed up to 3 times | `OrderIsTopological`, `AllAllowedBeforeAny`, `TrailMatchesOutputs`, `InputsMatchSchemas`, `ReplayIsAuthentic` |

Every property of these runs has a mutant of the code that breaks it
(`PROJECT.json`); the mutated forms stand in the modules before the definitions
they change. Every state machine has a `TypeOK`; the one of `WorkerStore` is
checked and proved, those of the others are part of their inductive invariants
and proved (an `INVARIANT TypeOK` line in a cfg checks them, the one of
`CallExecutor` with a finite set for `Nat`).
`RestorableStatus` and `ClaimIsRequested` of `WorkerStore` are proved with
`CancellationIsWhole` (section 4).

### Disagreements seen while modelling

These are behaviours of the code, contained in the models, that a document or a
comment of the repository describes otherwise. Where a property meets one, the
property names it as its only exception, and is violated without it.

* Cancellation intent. `docs/session-state-machine.md:102` says of `canceling`:
  "Preserve cancellation intent, issue idempotent stop commands, and reconcile
  races". A status answer that `collect` could not parse
  (`result-capture.ts:36`) is captured as an outcome and ends the session;
  `captureResult` (`store.ts:1553`) deletes the pending stop of the live run.
* One claimant. `docs/mcp-tool-contract.md:52` says "One active claimant
  performs each delivery attempt", and that an unknown delivery may be retried
  after a restart. A server that starts on a shared state file (`server.ts:90`)
  turns every claim back into a pending delivery, also one that a live server has
  in flight, or whose provider process outlived its server. `OneClaimant` excepts
  the sessions of `usurped`; `OneStop` of every session is false in `cancel_live`.
* Concurrency limits. `docs/security/local-control-plane-threat-model.md:290`
  (C-LIMIT-01) says "Reject rather than silently exceed a limit", and `:451`
  (T-LIMIT-01) that "counters remain atomic and no excess child starts". `drain`
  compares the limits before it awaits the pressure check
  (`concurrency-scheduler.ts:196`) and not again after it, so that a run recovered
  meanwhile is not counted: with a limit of 1 there are two permits. `LimitsHold`
  counts all active requests but the runs recovered during the check (`Unseen`),
  and is violated in `scheduler` without that exception. Recovered runs alone may
  exceed a limit as well, as the code intends.
* Stranded assignments. `docs/mcp-tool-contract.md:17` says the launch tool
  "then launches each session independently". `dispatchPending` joins the pass
  in flight (`launch-service.ts:271`), whose snapshot may be older than the
  acceptance, and nothing starts another pass; nor is a pass that the tool
  started retried: while the provider is unavailable its assignment stays
  `launching` until the next pass. `ReservedIsResolved` promises for the tool
  and for startup that the pass is rejected, no more; `launch()` and
  `launchBatch()`, which retry, are called by embedding programs only.
* Late runs. `docs/mcp-tool-contract.md:57` says that if expiry wins, the
  "late-bound run identity and stop/reconciliation intent are persisted and
  resumed after restart". `pendingAssignments` (`store.ts:1344`) skips
  assignments whose session has ended, so an interrupted dispatch is not resumed.
* Lost run-state lock. The comment at `superset-local-mcp-adapter.ts:360` says a
  lost lock "fails the operation before its next write", and the one at `:216`
  keeps the intent "instead". The holder is told by the timer that
  refreshes the lock, after another process may have taken it; until then it goes
  past `assertLockHeld`, or is between the check and its write, and the
  withdrawal in the catch clause (`:180`) has no check at all. It then
  writes a copy that lacks what the other process wrote, and a retry of a lost
  intent starts a second session for its key. `NothingIsForgotten` and
  `ImplementsContract` hold up to the first such step (`overrun`) and are violated
  in `local_adapter` without that exception.
* Absence. `agent-adapter.ts` has `findByIdempotencyKey` return `undefined` "when
  absence is authoritative"; the local adapter also returns it while an intent
  of the key is pending.
* Hidden references. `docs/call-validator.md` promises hard errors for missing
  nodes and cycles. A `$ref` in a field that no schema describes is invisible to
  the validator and seen by the executor, whose ordering then throws or
  recurses without end, unaudited; `OrderIsTopological` makes this the only
  exception.
* Loose schemas. Resolved inputs are not validated again (`call-executor.ts:164`),
  so a tool gets what `compatible` lets through: anything from a source without a
  type, anything for a target that has an enum or a format and no type, integers
  for a number whose enum lacks them (`call-validator.ts:327`), and a wrong optional
  property of an object, since only required ones are compared (`:343`).
  `InputsMatchSchemas` excepts exactly these (`Unchecked`) and is violated without
  any one of them.
* Reserved intents. `docs/idempotency-and-reconciliation.md` step 7 has a
  reserved intent dispatched once by reconciliation; `reconcile` only looks runs
  up. It is one loop that the first failing lookup, audit or write ends for all
  later intents (`launch-coordinator.ts:150`), so that an intent that keeps
  failing starves them, and nothing in the repository calls it again:
  `AcceptedCanBeBound` says that a run can be bound, not that it will be. Two coordinators may both call the adapter's `launch` for one reservation
  and rely on it to deduplicate.
* Unbound leases. A crash between `acquireWriter` and `bindProcess` ends in a
  quarantine that `repairQuarantine` always refuses, since the owner is
  unverifiable: the workspace stays blocked. The same holds for rows from before
  schema 3.

Smaller ones: `recordWorkerResult` ends a session without a stop reason; a
completion captured while canceling is stored as `succeeded`, not
`succeeded_before_cancellation`; without provider cancellation an expired
session stays listed for reconciliation after its result was observed; while the
stop of an expired run keeps failing its result is not queried (`expiry_live`
under `FairSpec` instead of `FairStopSpec`); an assignment found `launching`
whose workspace lost its authorization is failed without a lookup of its run;
`spawnBounded` ends at "exit", before all output need have arrived; a replay
may mix records of two recordings, each of them authentic.

**Bounds.** Sessions do not interact: every store method touches one record,
and the two that visit all of them treat each alone, so one session suffices in
all session runs but `launch_live`, where two share a pass. Two calls give every pair of
concurrent methods; a third would only repeat an interleaving, since a claim
excludes every other claimant. `cancel_live` has them on two servers, so that one
starts while the other works; `lifecycle` and `expiry_live`, with all kinds of
calls, on one. Two instants let a deadline be set, pass, and be
set anew. One crash puts a restart between any two steps.
Two run identities are needed only where a second run could be bound
(`worker_store`). Symmetry: the two runs of `worker_store` (its refinement is a
safety property), the two calls of `lifecycle`, the two servers of
`launch`, the instances and leases of `writer_lease`; no run with a liveness
property uses symmetry. A batch of two is the smallest that can be accepted in
part; one stop, like one crash, falls between any two steps. In `writer_lease` a
second lease is what must not be admitted, a row version of 3 lets a heartbeat
fall between an observation and its use, and one rollback target below schema 2
makes both down migrations happen. In `local_adapter` two calls share a process
(the queue), two share a key across processes (the file lock), and the second key
is what a stale copy of the file would overwrite; four calls pass as well, in a
little more than five minutes. In `launch_coordinator` a third call of the first
key, with another request, meets the conflict, and the second key is what a sweep
that aborts has left. In `call_executor` three nodes give every
cycle through declared and referring edges; the tools take and answer with
integers, numbers, listed ones, strings with and without a format, arrays and
objects with optional, required and closed properties; two nodes and three executions give
two recordings, an edit and a replay that mixes them.

**Fairness.** A call of a live server proceeds because every provider call is
answered or times out; timers fire again and again, so the sweep's methods
start with strong fairness; a crashed server is restarted. Of the provider: a
repeated stop or query gets through eventually (strong fairness), a run that
was asked to stop ends, a request settles. `expiry_live` needs in addition that a stop asked for again and again
is eventually accepted or refused (`StopsAreAnswered`). In `Launch` live servers run their passes, timers and
handlers; of workspaces and provider nothing is assumed, they may answer badly
every time. In `Scheduler` permits are released, timers fire, a pressure check ends
(it has a timeout), and hooks asked again and again are ready some time; with
one recovered run at a time no head can be starved by recoveries, with
unboundedly many it could. In `LimitedAdapter` the callers look an unresolved
key up again and poll the status of a run; some lookup gets an answer. The
server does not construct this adapter, so this is an assumption about whoever
does. In `Launch` a program that stopped the service ends and is restarted. Of
`LaunchCoordinator` no liveness is claimed: nothing in the repository schedules
`reconcile`.

## 4. Proofs

TLAPS checks 41 theorems in eight modules. They hold for every value of the
constants that satisfies the named assumptions: any number of sessions, servers,
calls, keys, processes, crashes and instants, and graphs of any size, where a run has two or three.

| Module | Theorem | Statement |
| --- | --- | --- |
| `WorkerStoreProofs` | `TypeCorrect` | `Spec => []TypeOK` |
| | `CancellationsAreWhole` | `Spec => [](CancellationIsWhole /\ RestorableStatus /\ ClaimIsRequested)` |
| | `StoreImplementsContract` | `Spec => ImplementsContract` (`SessionContract`) |
| `LifecycleProofs` | `LifecycleInvariant` | `Spec => []LifecycleInv` |
| | `StoreAlwaysAccepts` | `Spec => [](TypeOK /\ StoreAccepts)` |
| | `CancellationIsAlwaysOwed`, `ExpiredRunIsAlwaysStopped`, `OutcomeIsAlwaysObserved` | `Spec => []` of `CancellationIsOwed`, `ExpiredRunIsStopped`, `OutcomeIsObserved` |
| | `ResultIsAlwaysKept` | `Spec => ResultIsKept` |
| | `LifecycleUsesStoreAPI` | `Spec => UsesStoreAPI` (`WorkerStore`) |
| | `SessionsKeepContract` | `Spec => P!ImplementsContract /\ []P!CancellationIsWhole`, the store's properties of the records of `Lifecycle` |
| | `OneClaimantAtATime` | `Spec => []OneClaimant` |
| `LaunchProofs` | `LaunchInvariant` | `Spec => []LaunchInv` |
| | `IntentIsWrittenAhead` | `Spec => [](TypeOK /\ WriteAhead)` |
| | `CanceledNeverEverRuns`, `BoundRunIsAlwaysStopped` | `Spec => []` of `CanceledNeverRuns`, `BoundRunIsStopped` |
| | `LaunchesSettleOnce`, `BatchesAreWhole` | `Spec => LaunchSettlesOnce`, `Spec => BatchIsWhole` |
| | `LaunchUsesStoreAPI` | `Spec => UsesStoreAPI` (`WorkerStore`) |
| | `LaunchedSessionsKeepContract` | as `SessionsKeepContract`, of `Launch` |
| `SchedulerProofs` | `LimitsAlwaysHold`, `NobodyIsEverOvertaken` | `Spec => []TypeOK /\ LimitsHold`, `Spec => NobodyIsOvertaken` |
| | `NoWakeUpIsLost` | `Spec => []HeadIsWatched`, the safety part of `QueuedIsServed` |
| `LimitedAdapterProofs` | `PermitsAreAccountedFor`, `PermitAlwaysOutlivesRun` | `Spec => [](TypeOK /\ PermitHasOneHolder)`, `Spec => PermitOutlivesRun` |
| `WriterLeaseProofs` | `OneWriterBlocks` | `Spec => [](TypeOK /\ OneBlocks)` |
| | `FencedStaysFenced`, `LeasesImplementSingleWriter` | `Spec => FencedForGood`, `Spec => ImplementsSingleWriter` |
| `AgentContractProofs` | `NothingIsEverForgotten` | `Spec => []NothingIsForgotten` |
| | `AdapterImplementsContract` | `Spec => ImplementsContract` (`AgentContract`) |
| | `IntentIsFirst`, `BindingIsRight` | `CoordinatorSpec => [](CoordinatorTypes /\ IntentComesFirst)`, `CoordinatorSpec => []BindingIsTheRun` |
| | `BindingIsKept`, `UnresolvedIsNotRetriedEver` | `CoordinatorSpec => BindingLasts`, `CoordinatorSpec => []UnresolvedIsNotRetried` |
| | `AcceptedIsNeverRefused` | `CoordinatorSpec => []AcceptedCanBeBound` |
| `CallExecutorProofs` | `ExecutorInvariant` | `Spec => []ExecutorInv`, which contains `TypeOK` |
| | `OrderIsRight`, `CapabilitiesComeFirst`, `TrailIsRight`, `InputsAlwaysFit`, `ReplayIsRight` | `Spec => []` of `OrderIsTopological`, `AllAllowedBeforeAny`, `TrailMatchesOutputs`, `InputsMatchSchemas`, `ReplayIsAuthentic` |

### Assumptions

* `RunsAssumption`, `ReasonsAssumption`, `TimeAssumption`: `NoRun` is no run,
  `"user_requested"` is a cancellation reason and all reasons are the schema's,
  the clock's bound is a natural number.
* `SessionsAssumption`, `ServersAssumption`, `BoundsAssumption` of `Lifecycle`,
  `LaunchAssumption` of `Launch`: the run of a session is named after it (the
  provider gives each key its own run), `No...` values are no members,
  every call has a server. The sessions of `Launch` are finitely many, as in
  any state file, and an empty name is no key.
* `RequestsAssumption`, `PolicyAssumption` of `Scheduler` and `AdapterConstants`
  of `LimitedAdapter`: finitely many requests, one global scope, and a policy
  that the constructor accepts.
* `LeaseConstants`, `CoordinatorConstants`, `AdapterConstants` of `LocalAdapter`:
  the types of the constants.
* `ValuesAssumption`, `ToolsAssumption` of `CallValidator`, `GraphsAssumption`,
  `AnswersAssumption` of `CallExecutor`: null is a value and what is in a value is
  one, an input schema describes fields, a graph is a sequence of
  nodes with an argument for every field, tools answer with values. Nothing is
  assumed of what the validator is there to find: a node may lack its shape, its
  tool or an id of its own, and its edges may lead anywhere.

### Arguments

Nearly every property is false as an induction hypothesis: a step uses what its
call read before an await. Each inductive invariant says what is still true of
what was read, and each proof has one lemma per action.

**Store.** `good(w)` is the invariant of one record: its type, the schema check
and the three properties together. None is inductive alone: `Storable` is needed
because a withdrawn cancellation may restore `running`, which needs a pid;
`RestorableStatus` because of what the withdrawal restores; `ClaimIsRequested`
because startup recovery promotes a claimed `unknown_outcome` to `canceling`,
with no pre-cancel status (the invariant shows that this branch is dead). One
lemma per method shows `keeps(w, method(w))`, for every outcome and option the
method accepts: the new record is good, and its session took a step of the contract or none. Only `recordWorkerResult` needs the
schema check: it would store `failed` with the reason of a pending cancellation.

**Lifecycle.** `sound` relates a record to its assignment, to the state of its
run and to whether the provider has received a stop; it contains `good`, and
the lemmas of `WorkerStoreProofs` give what each method makes of a record.
`CallSound` is the rest: bound stays bound, ended stays ended, an ended run
keeps its outcome, a received stop stays received, so that what a call saw
before an await is still so after it (`Forward`). Every step is shown to
preserve the invariant and to be `Forward`. `ResultIsKept` needs that a kept
result is not up for reconciliation. `UsesStoreAPI` needs the invariant because
`Lifecycle` writes records without the schema check and the store does not.
`OneClaimant` needs that the record of every stop in flight keeps its claim,
orphaned ones included, unless the session is usurped (`ClaimsAreHeld`); a new
stop takes a claim that is free, and so meets no other.

**Launch.** The dispatch lock (`LockSound`) gives an assignment at most one
server, which knows its durable status: `accepted` before the intent is written,
`launching` until the outcome is (`PassSound`). So a local cancellation, which
needs `accepted`, and a request, which needs `launching`, exclude each other, and
a pass with an old snapshot settles nothing twice.

**Scheduler, LimitedAdapter.** A request whose pressure check is awaited still
fits, beside all but the runs recovered meanwhile, when the check ends
(`CheckSound`), because permits are only returned in between; a request that is
admitted without a check fits beside all. The order of the queue
is kept because without hooks its head is blocked (`HeadBlocked`). Whatever the
limits and hooks, the queue is never forgotten (`HeadIsWatched`): its head is
being checked, the timer is set, or an active request fills one of its scopes
and drains the queue when it is released. The adapter's
proof takes `SchedulerInv` and its preservation from `SchedulerProofs` and adds
what a lookup may rely on after its await (`LookupSound`).

**WriterLease.** Nothing rests on the lock file. A row is retired only by an
instance that has seen the child gone, or knows of none while the row is active;
the child of a live authority, or one that it may yet start, keeps its row
blocking (`LeaseSound`). `OneBlocks` makes the refinement mapping's `CHOOSE`
unique; generations are fresh because no authority's exceeds the ledger.

**LocalAdapter.** Until a call overruns the lock, a call that is about to write
holds it, so the copy it writes back differs from the file in its own key only
(`Agrees`, kept for the holder alone); a call past the check of the file found
nothing of its key, so no other call of that key has or gets a session (`Apart`).

**LaunchCoordinator.** Statuses of an intent move forward and its request is
written once, so what a call is `Backed` by cannot be undone. A call that was too
late (`UnresolvedIsNotRetried`) neither made the reservation nor finds it still
reserved, and one of the two is needed to dispatch (`Barred`). An accepted run
was sent, so its intent is dispatched and `updateLaunch` binds it; if it is bound
already, then to this run, for a key has one (`OneRun`).

**CallExecutor.** What a walk has finished has all its successors before it
(`Walked`), so that the order in which `detectCycles` finishes is a rank that
falls along every edge the validator knows (`WalkRanks`). Without hidden
references `topologicalOrder` follows the same edges, the rank falls along its
stack, and so it meets neither a missing nor an active node (`VisitMeetsNone`);
what it finishes is every node once (`AllDone`, `OrderIsAsLong`). The outputs of
an execution are therefore those of the nodes before the current one, which
include all that it refers to (`NeedsAreThere`): a resolved input fits its
schema (`InputFits`), because a value of a schema is one of every schema that
`compatible` accepts for it and compares in full (`CompatibleFits`), and an input that was resolved once never changes
(`ResolvedDependsOn`), without which `ReplayIsAuthentic` would not be inductive.
Records that carry the authentication come from runs (`Genuine`), also while
they wait to be returned. `TrailSound` has the only failure in the last entry,
of the node that was reached, and hence of none with an output.

**Refinements.** The store's contract carries over to `Lifecycle` and `Launch`
by composition: both implement `WorkerStore`, `WorkerStore` implements
`SessionContract`. `LaunchCoordinator` contains `AgentContract` as a component
and `LocalAdapter` implements it.

### Only model-checked

* Liveness: `CancellationSettles`, `DeadlineIsEnforced`, `LateResultIsCollected`,
  `ReservedIsResolved`, `QueuedIsServed`, `PermitComesBack`; the prover has no rules for fairness and `ENABLED`.
* That every execution of a call graph ends is not stated: the walks are
  bounded by the graph, and the sandbox by its timeout.

## 5. Not modelled, and the plan

Not modelled in the components above: the provider slots and `waitForBatches`,
the cap of 250 sessions per deadline sweep, disk errors of the session store
other than the schema check, `createBatch` and the list cursors, the request
replay cache, reads (status, result and lookup) of the local adapter, exports,
backups, integrity checks and the idempotency table of `storage.ts`, deeper
schemas and `assertPolicy` of the executor, and everything marked
`not_modelled` in `PROJECT.json`: the audit chain (appended inside the store's
transactions, read by no control flow), the experiment registry (a command-line
tool), parsing, redaction and schemas, benchmarks and fakes.

Next modules: `ProviderSlots` (limit, hand-over and aborts of the slots of
`LifecycleService`, with `waitForBatches`), `AuditChain`, `ExperimentRegistry`.

All safety properties of the runs are proved; what could follow are the safety
parts of the other liveness properties, as `HeadIsWatched` is that of
`QueuedIsServed`.
