# A verification development of bsl-jupyter-runtime

`onec_runtime` runs BSL statements of a notebook inside a paused 1C:Enterprise debug target.
It drives the target through one RDBG debugger session, evaluates expressions in a stopped
frame, lets the target continue, writes captured local variables back, and answers a Jupyter or
MCP front end. Statements have no deadline, a debugger request may be sent without its answer
ever arriving, and a target may die at any moment. The hard part of the program is therefore not
BSL but *ownership*: which operation may use the session, what may still be running on the target
on whose account, and what a caller may be told about it.

This directory holds TLA+ modules translated from the Python sources, TLC configurations that
model-check them on small instances, and theorems about them that TLAPS proves for every value
of the constants. Source paths are relative to `src/src/onec_runtime/` unless they start with
`src/`.

Contents: [system](#the-system) · [modules](#modules) · [the arbiter](#the-arbiter) ·
[the abstract specification](#the-abstract-specification) ·
[foreground admission](#foreground-admission) ·
[the continuation of a capture](#the-continuation-of-a-capture) ·
[the evaluations of a capture](#the-evaluations-of-a-capture) · [MAIN commands](#main-commands) ·
[worker generations](#worker-generations) · [the agent runtime](#the-agent-runtime) ·
[the extension](#the-extension) · [runs](#runs-and-bounds) · [fairness](#fairness) · [findings](#findings) ·
[other divergences](#other-divergences) · [proofs](#proofs) ·
[only model-checked](#only-model-checked) · [not modelled](#not-modelled) · [plan](#plan)

## The system

| component | state it keeps | operations | hard behaviours | what makes it correct |
|---|---|---|---|---|
| **RDBG arbiter** `execution/arbiter.py`, `execution/termination.py` | a mailbox under one `Condition`: queue, active ticket, idle heartbeat, cleanup debt, route epoch, scheduled termination, closing and closed flags; per ticket its phase, result and evidence of remote work | `submit`, `dispatch`, `cancel_queued`, `request_stop`, `reconcile`, `try_heartbeat`, `retry_post_settlement_cleanup`, `close`; the worker thread; `SessionPort` for plans | Stop between two transport entries; outcomes that stay unknown; cleanup that must precede everything else; termination of the target | one owner of remote work; nothing orphaned; nothing after Stop; cleanup never lost or overtaken; waiters answered once |
| **Foreground admission** `execution/controller/controller.py` | the locals of a thread that prepares a statement | waits for the heartbeat, waits for a dependent cleanup, reads the context | two separate holds of the mailbox; a heartbeat thread beside it | the preparation ends: a wait for maintenance is not for ever |
| **RDBG session** `rdbg/session.py`, `rdbg/xml_codec.py` | transport, command sequence, buffered events | breakpoints, evaluation, continue, modify, poll, terminate | an answer lost after dispatch | each dispatch has one typed outcome |
| **Stop coordinator** `execution/controller/stop_coordinator.py`, `stop_routing.py` | one observer for each stopped ticket, with a snapshot of operation and scope | request a stop, withdraw a cancelled command, publish the loss of the target; classify a target stop | a snapshot that is older than the request; a stop nobody expected | a proven exit is published, the command ends, no frame of it is offered |
| **MAIN routes** `execution/controller/controller.py`, `execution/main/` | the current operation and its phase, the capture scope, the stop count, the resume ticket, the planned correlation ticket | admit, withdraw or unwind a command, write its two fields, Continue, route its stops, open a scope, resume | outcome unknown after a write or a Continue; command fields in 1C that outlive a failed submission | the kernel runs what was admitted, under its own number, and nothing the evidence denies |
| **CAPTURE scope and continuation** `execution/capture/scope.py`, `writeback.py`, `continuation_models.py` | the dirty roots of the stop, a ledger phase per root, one admitted continuation attempt | register a root, resume (rearm, export, modify, Continue), begin, commit, roll back, quarantine an attempt | `modify` raises before or after its dispatch; a lost Continue; a rollback that releases its lock | no variable written twice; Continue once, and only with every change in the frame; evidence never better than the truth |
| **CAPTURE cell executor** `execution/capture/operation_executor.py`, `cell_evaluator.py` | temporaries, publication, current cell | evaluate, publish, clean up | cleanup fails after the result is published | temporaries retired or owed |
| **CAPTURE evaluation ledger** `execution/capture/evaluation_ledger.py` | bounded history, active record, last records, waiters | begin, discard, complete, fail, mark unknown, wait | trimming under waiters; an interrupted submission; a late observer | selections are retained; never paused beside a live ticket; outcomes final; waiters return |
| **Inspection and materialization** `execution/capture/data_plane.py`, `inspection.py`, `materialization.py` | handles of inspected values | page, expand, release | handles that outlive their frame | handles valid only in their stop |
| **Route settlement** `execution/settlement.py`, `reply_publication.py`, `namespace.py` | registrations with their stop baseline, last published stop and correlation ticket | register, rebind, settle, discard | publication between two locked sections | replies in order, each correlation ticket answered by its own stop, no confirmed stop refused |
| **Worker generations** `worker_universe.py`, `execution/worker_activation.py`, `worker_mutation.py`, `worker_module_lifecycle.py` | the host's generations, pins and registration counts; the published snapshot; the confirmed units | load, define a method, release, pin, clean up | loads of two clients; a new generation while a paused command pins an old one; a lost reply to a stage, a swap or a discard | what the host believes active is what runs; counts exact; nothing pinned forgotten; no acknowledged load lost |
| **Worker breakpoints** `worker_breakpoints.py`, `execution/breakpoint_routes.py` | logical breakpoints, slots of the live generations, the confirmed workspace | add, remove, follow a promotion | a swap that fails after its slots were installed; an unknown workspace | the debugger holds exactly the slots of the live generations, before their root is active |
| **Supervisor and lease** `supervisor.py`, `supervised_runtime.py`, `lease.py` | runtime generation, owned processes, lease file | start, heartbeat, terminate, recover | watchdog against a late heartbeat; partial termination | no process of an old generation survives unnoticed |
| **Extension lifecycle** `extension_lifecycle.py`, `extension_state.py`, the attempts of `session.py` | the infobase's extension, a backup, the marker, a lock | inspect, install, update, roll back, launch, repair, commit | kernels of several releases on one infobase; death between load, apply and marker | what the marker certifies, and what a kernel was admitted on, is installed; a start ends |
| **MCP operation registry** `src/packages/mcp/src/onec_runtime_mcp/agent/operations.py` | the journal, the operations in memory, one execution lane | submit, execute, settle, abort a generation, rehydrate, abandon a startup | a crash or a refused append between two records | an answer outlives the process; what is dispatched is journalled; what is accepted ends |
| **MCP agent service** `.../agent/service.py`, `runtime_backend.py` | the one runtime, its ownership file, the startup request, the cleanup a failed start left | ensure, start, restart, close, run, recover | startups in the lane against calls under the service lock; crashes | one runtime at a time, and none that nobody remembers |
| **Process launchers, session facade, front ends, BSL lowering, value transfer, BSL kernel** | wiring, conversions, user interface, operating-system calls | | | see [not modelled](#not-modelled) |

How they interact. A front end calls the session facade on its own thread. The controller turns
the call into a *plan*, a closure that receives a `SessionPort`, and submits it to the arbiter; the
arbiter's one worker thread runs the plan and is the only thread that touches the debugger
session. The waiting caller, Stop (another front-end thread), the heartbeat thread, the close of
the session and the retry of a cleanup all meet the worker in the mailbox. A plan may register a
*post-settlement cleanup*, which the worker queues itself, at the head, in the step that settles
the plan. When Stop leaves an operation of unknown outcome behind, the arbiter schedules a
termination of the target (a server session or a file-mode process) and retires the operation
only on proof that the target is gone. The supervisor can run the whole runtime in a child process
and ends it when its lease or its heartbeat lapses; the MCP registry journals operations across
such restarts.

`PROJECT.json` lists the hazards of this code, each at its line and with the properties that
would catch it going wrong, or the module of the plan that will.

## Modules

| module | what it is |
|---|---|
| `RdbgArbiter` | the arbiter: mailbox, worker, `SessionPort`, `close()`, Stop, reconciliation, cleanup debt, termination |
| `RemoteOwnership` | the abstract promise: remote work is done under one owner at a time |
| `RdbgForeground` | the arbiter composed with a foreground thread that prepares a statement |
| `CaptureContinuation` | one CAPTURE stop: cells register dirty roots, a resume writes them back and continues MAIN, attempts are committed, rolled back or quarantined |
| `CaptureEvaluations` | the evaluation ledger of one CAPTURE stop with the submissions, plans, observers and waiters around it |
| `MainRoute` | MAIN commands from admission to reply or loss: controller, arbiter, kernel loop, settlement and Stop coordinator together |
| `WorkerGenerations` | generations of loaded modules and notebook methods: ledger, root protocol in the target, breakpoint slots, snapshot, clients and commands |
| `OperationRegistry` | the operation registry of the agent: journal, memory, lane, and what each method makes of them |
| `AgentRuntime` | the registry composed with the agent service and the 1C processes it owns; crashes and recovery |
| `ExtensionLifecycle` | kernels of several releases that start on one infobase: marker, lock, mutation and rollback, handshake, repair, death |
| `MCRdbgArbiter`, `MCRdbgForeground`, `MCCaptureContinuation`, `MCCaptureEvaluations`, `MCMainRoute`, `MCWorkerGenerations`, `MCAgentRuntime`, `MCExtensionLifecycle` | instances for TLC: identities, contents, symmetry, policy sets |
| `QueueLemmas` | lemmas about sequences without repetition (the mailbox and the execution queue), about what the queue operators return, and about functions defined by recursion on a number |
| `RdbgArbiterProofs` | theorems of the arbiter: types, one owner, the teardown fence, remote work, Stop, settlement, cleanups, and the refinement of `RemoteOwnership` |
| `AgentRuntimeProofs` | theorems of the registry and the agent runtime: types, lasting answers, journalled dispatches, one owned runtime, aborts |
| `ExtensionLifecycleProofs` | theorems of the extension lifecycle: types, the retry loop, what the marker certifies |
| `CaptureEvaluationsProofs` | theorems of the evaluation ledger: types, the public phase, final outcomes |
| `WorkerGenerationsProofs` | theorems of the worker generations: counts, pins, roots, loads, breakpoint slots |
| `MainRouteProofs` | theorems of the MAIN route: types, admitted runs, accepted yields, replies in order |
| `CaptureContinuationProofs` | theorems of one CAPTURE stop: types, effects once, Continue with every change, evidence, clean rollback |

Definitions whose names begin with `Mutant` are plausible slips in the definition that follows
them (a dropped guard, a missing update). No specification uses them; they record, for each
property, a change of the code that the property would catch.

## The arbiter

### State

Each `ExecutionTicket` is an element of `Tickets`; its fields are functions on that set. A ticket
in phase `new` is not created yet.

| model | code |
|---|---|
| `kind` | who created the ticket: `submit` (`user`), `try_heartbeat`, `_queue_post_settlement_cleanup` (`cleanup`), `retry_post_settlement_cleanup` (`retry`) |
| `parent`, `child`, `registered` | `_post_settlement_parent` and the parent's cleanup registration and its current ticket |
| `phase`, `ready`, `result` | `_phase`, `_ready`, and the class of `_result` or `_error` |
| `entered`, `everEntered`, `pending`, `pendingStop`, `stopTarget`, `effectTarget` | the evidence fields: a transport entry without an answer, any entry at all, a started evaluation, its stop at a breakpoint, an outstanding Continue, the target of the last effect |
| `stopRequested`, `stopBlocked`, `terminationAttempted` | the Stop fields of the same names |
| `queue`, `active`, `idleHeartbeat`, `cleanupDebt`, `route` | fields of `RdbgArbiter` |
| `reconciliation`, `teardown`, `requestTermination`, `closing`, `closed`, `terminated` | fields of `RdbgArbiter`: a plan to reconcile with, a scheduled termination, the gates |
| `worker`, `op`, `reconciling`, `verdict`, `nextRoute`, `previouslyEntered` | where the worker thread is and the locals it holds there |
| `closer`, `closeOn` | a thread inside `close()` and the ticket it waits for |
| `remote`, `alive`, `kills` | ground truth no line of the program reads: whose work the target may still execute, whether the target exists, how often its termination was requested for a ticket |

The ground truth is what the properties are about. `RemoteAccounted`, for example, does not
compare two fields of the program: it says that what the target really does is what the fields
claim.

### Actions

Everything the code does under one hold of the mailbox is one step, including the parts done by
the helpers it calls. `Submit` covers the adoption of the receipt and its failure; `SettleActive`
is the settlement, the queueing of the cleanup and the release of the worker, as they are one
critical section; `RequestStop` cancels the queue and may schedule the termination.

A plan is arbitrary code. The model lets it perform any sequence of `SessionPort` operations, and
splits each into the admission callback (`_transport_entered`), the send, and the outcome:
`EnterCommand` → `Send` → `RequestAnswered` / `ReadTimesOut` / `EvaluationStarted` /
`ContinueSent` / `TransportFails`; `BeginWait` → `Poll` → `EvaluationResult` /
`EvaluationStopped` / `TargetStopped` / `IntervalElapses` / `PollRefused`. Between any two of
these a caller can run `Submit`, `RequestStop`, `Reconcile`, `CancelQueued`, `TryHeartbeat`,
`Close`. When the plan ends, `ReturnAccepted`, `ReturnRefused` and `PlanRaises` are the three ways
through `_run`, followed by the policy finalizer (`FinalizerEnds`), which runs outside the mailbox,
and by `Settle`, `Fail` or `BecomeUnknown`.

`close()` is a loop: the body runs under the mailbox until it raises, waits or completes, so it is
one action (`Close` when it starts, `CloseWakes` when a wait ends) with four outcomes. A
termination attempt is `TeardownBegins` (the request, sent or not), then `TeardownConfirms` or
`TeardownUnproven`; `TargetExits` lets the target die at any time after a request.

Taken from the callers of the arbiter, not from the arbiter itself:

* only the tickets of `submit` and of `retry_post_settlement_cleanup` are held by anyone who could
  stop or cancel them; only the controller's own operations are reconciled;
* a plan may wrap an error it catches, but does not raise something weaker in place of
  `OutcomeUnknown`;
* a heartbeat plan performs one request; cleanup plans neither hand the route off nor return a
  confirmed failure, since the controller registers none that do.

### Properties

Safety: `TypeOK`; `SingleOwner`, `TeardownFence` (proved); `RemoteAccounted`,
`CleanupKept` (no ticket overtakes an owed cleanup and none is lost; a closed session owes no cleanup
but that of a target that is gone). Steps: `SettledIsFinal`, `StopFencesTransport`. Liveness:
`StopReachesTarget` (a stopped plan gives the worker up, and a ticket that stays unknown after remote
work gets its target terminated), `CloseReleasesWorker`, `CleanupServed` (a queued cleanup, or a retry of
one, is started whatever waits beside it: requests that came first, heartbeats, Stops, an unfinished
submission, a close; only the caller of a retry can withdraw it). Refinement:
`ImplementsOwnership`. Each is stated in words above its definition.

## The abstract specification

`RemoteOwnership` has four variables: the stage of each operation, its owner, whether the target
may be busy, whether it exists. Ownership is granted only when the target executes nothing,
released only then, or taken back when the target is gone; the target becomes busy only for its
owner. `RdbgArbiter!ImplementsOwnership` maps the phase to a stage, `active` to the owner, and the
ground truth `remote # NoTicket` to `busy`, so the refinement says something about what happens at
the target: every step of the arbiter, with its termination attempts, reconciliations and closes,
is a step of this exchange or changes nothing it shows.

## Foreground admission

`RdbgForeground` adds a thread in `await_preparation_context`. The two waits
(`wait_for_idle_heartbeat`, `wait_for_dependent_cleanup`) take the mailbox separately, so arbiter
steps can come between them, and after each successful wait the caller looks again from the start.
`HeartbeatWaitEnds` says that the first of the two waits ends; it does not: see
[findings](#findings). In this composition nobody stops, cancels, reconciles or closes; those paths
only make a wait end, and the runs of the arbiter cover them.

## The continuation of a capture

`CaptureContinuation` follows one stop of MAIN at a capture point, from the moment it is ready to
the Continue that releases it. Three parties meet: cells that evaluate BSL in the stopped frame and
register the variables they may change; a resume, which is one plan on the arbiter's worker; and
an agent that wraps a resume in a *continuation attempt* and may later commit it, roll it back or
quarantine it.

| model | code |
|---|---|
| `main`, `context`, `frame` | `MainOperation.phase`; `context_state` and `frame_identity` of the `CaptureScope` |
| `dirty`, `ledger` | `_dirty_roots`; `_writeback_ledger`, a phase for each root. `export_failed` and `modify_failed` are the one `FAILED` with its `failed_stage` |
| `resuming`, `evaluating` | the two flags of `CaptureEvaluationLedger` from which the public phase is derived |
| `registry` | the capture points of `_registry`; a point set is one value |
| `admission`, `attempts`, `rollback` | `_continuation_admission`, `_continuation_attempts` with the fields of each `_ContinuationAdmission`, and a thread inside `rollback()` with the state of its restore ticket |
| `queue`, `active`, `worker`, `job`, `cell` | the arbiter as this code meets it: waiting tickets, the active one, where its plan is, whether it entered transport, whether Stop fenced it, and its arguments |
| `version`, `exported`, `written`, `sent`, `continues` | ground truth that no line reads: the value of a variable in the running BSL, in temporary storage and in the frame; how often a write was sent; which attempts sent Continue |

A root is a *spelling* of a variable: `Casefold` maps it to the variable it names. The code
deduplicates registrations by casefold and keys the ledger by spelling, so the two are kept apart.

Everything under one hold of the controller's lock is one action (`BeginAdmission`, `Commit`,
`Quarantine`, `RollbackUnused`, `Resume…`). A rollback is two of them, `RollbackBegins` and
`RollbackEnds` or `RollbackRaises`, with the restore of the breakpoints on the worker in between
(`RestoreInstalled`, `RestoreDropped`, `RestoreLost`). The resume plan is a sequence of steps cut
at each transport command: `ResumeAdmitsRoots`, `Rearmed`, `LedgerBegins`; then for every root
`ExportEnters` → `ExportReturns` / `ExportFails` / `ExportRaises` and `ModifyEnters` →
`ModifyReturns` / `ModifyFails` / `ModifyLost`; then `ScopeEnds`, `ContinueEnters`,
`ContinueAcknowledged` / `ContinueLost`, `ScopeCloses` and `ResumeReturns` at the next stop.
Before every command the plan can be refused because of Stop (`…Refused`, `…Fails`): it settles with
an error if it never entered transport, and becomes unknown otherwise, as `RdbgArbiter` has it.
`StopQueued`, `StopActive` and `TargetLost` are the arbiter's Stop and the proof that the target is
gone.

Abstractions: one root list of a call names at most two variables; one rollback runs at a time, as
its only caller, the session, holds its own lock; the observer thread of a cell and the waiter on
its ticket are one action (`ObserveCellSettled`); route tokens are left out, since every guard that
compares them also compares scope and operation, and the route changes only after `ScopeCloses`;
temporary cleanup debt, which blocks a resume, never arises here.

Properties. `EffectsOnce`: nothing — a retried resume, a ledger reopened by a rollback, a second
attempt, another spelling — sends a variable to the frame twice. `ContinueCarriesEveryChange`
relates the cells' changes to the frame at the moment of Continue. The second part of `EffectsOnce`:
after Continue was sent, acknowledged or not, the stop is never offered again. `RollbackIsClean`: a
rollback undoes a resume only if nothing was written, on evidence that still holds when it ends,
although it releases the lock in the middle. `EvidenceNotOptimistic`: what an agent reads about an
attempt is never better than the truth. It does not say whose write the evidence shows: unless a commit or a rollback froze it, an attempt reads the
live ledger (`controller.py:1988`), so one that closed unused also shows the writes of a later resume.

## The evaluations of a capture

`CaptureEvaluations` follows the public record of what runs in one stop. `CaptureEvaluationLedger`
is a monitor, and each of its methods is one step. Around it move four kinds of thread: a
*submission*, which begins a record and then creates its ticket under the controller's lock; the
arbiter's *worker*, whose plan or finalizer retires the record; an *observer* for each ticket, which
mirrors an unknown or failed ticket into the ledger; and the *waiters* in `wait()`, which take the
ledger's condition only and so come between any two steps of a submission.

| model | code |
|---|---|
| `scope` | what `_capture_view_scope_is_current` says of the stop: `ended` is no longer current |
| `records`, `kind` | `_records`, oldest first, and the kind of each: a cell, or a helper (metadata, completion, materialization) |
| `outcome` | `_Record.outcome`, which a waiter keeps after the ledger dropped the record |
| `activeId`, `lastId`, `lastUserId` | the fields of the same names |
| `ticket` | the phase or result of the evaluation's arbiter ticket; `finishing` lies between the retirement of the record and the settlement of the ticket |
| `observer` | the thread in `_observe_capture_ticket`: watching, holding what it saw, or done |
| `submission` | the one under way and how far it is: `begun`, `submitted`, `dispatched`, `observed` |
| `waiter` | each thread in `wait()`: asleep or notified, and the record it holds |

| action | code |
|---|---|
| `BeginCell`, `BeginHelper`, `SubmitRefused`, `Submitted`, `Dispatched`, `ObserverStarts`, `Returns` | `submit_capture_cell` and the three helper submissions, cut where another thread can see a difference |
| `InterruptedCell`, `InterruptedHelper` | the `except BaseException` of `submit_capture_cell` and of `_submit_direct_ticket`; for a helper also a failure after the latter returned |
| `TakeTicket`, `RetireCell`, `RetireHelper`, `Finish`, `Drops`, `BecomesUnknown` | the worker: a plan that settles its record, or that is dropped without a word to the ledger |
| `Reconcile`, `StopQueued`, `TargetLost` | repair and reconciliation, Stop of a queued ticket, the proof that the target is gone |
| `Observes`, `Mirrors` | the observer reads the ticket under the mailbox and writes the ledger later |
| `ResumeBegins`, `ResumeFails`, `ResumeEnds`, `ResumeLost` | the resume as the ledger meets it; `CaptureContinuation` has the whole of it |
| `WaitBegins`, `WaiterWakes`, `WaitTimesOut` | `wait()` |

Abstractions: results, messages and diagnostics are left out, and so are the timing marks
(`note_dispatch` and the others), which no product code sets; `_resuming` is in
`CaptureContinuation`; the three helpers differ in what they send, not in what they do to the
ledger. A reconciliation is open to every cell of unknown outcome: which evidence it needs is the
arbiter's and the executor's matter, and here it only adds behaviours.

Properties. `TypeOK` also says that trimming keeps the active record. `PausedMeansQuiet`: while the stop is
current, a ticket that may still reach the target is the active record, so that the stop never looks
paused, and no resume begins, beside it. `OutcomeIsFinal`: an observer that is late never replaces
what a reconciliation published. `CellRetires`: however the ticket of a cell ends, its record does
not stay active. It is stated of cells only. A cell whose submission is interrupted after the
dispatch gets a substitute observer (`controller.py:1690`); the helper submissions have none
(`controller.py:2371`), so a helper that is interrupted there and then stopped before any effect
leaves its record active, and the stop `evaluating`. `AnsweredWaiterReturns`: no notification is
lost.

## MAIN commands

`MainRoute` follows MAIN commands through everything that touches them: the controller's methods, the
plan on the arbiter's worker, the loop in 1C that runs the command, the settlement service that turns
an outcome into a reply, and the coordinator of Stop. It is a composition: each part is simple, and
what can go wrong lies between them.

| variable | code |
|---|---|
| `ops`, `main`, `scope`, `stops` | the `MainOperation`s, `main_operation`, `capture_scope` with its two states, `_stop_sequence` |
| `resume`, `planned`, `intents` | `_resume_ticket`, `_planned_capture_ticket`, the correlation tickets issued (with a ghost: how many replies there were) |
| `regs` | `RouteSettlementService._main`: baseline, last published stop, correlation ticket |
| `tickets`, `queue`, `active`, `epoch` | the arbiter as this code meets it; `ever` is `_ever_entered`, `stop` the requested Stop, `context` what its observer holds |
| `worker` | the plan's next step, what it yields, and the registration that `settle_main` has read |
| `stopper`, `proof` | a `request_stop` between its snapshot and its effect; `_confirmed_target_termination` |
| `kernel` | the loop of `RuntimeKernelServer.Запустить`: its three fields and where it is; `ran` remembers what it ran |
| `replies` | ghost: the replies published |

`SubmitMain`, `MainWithdrawn` and `MainUnwound` are the ways through `submit_main`: a command is
submitted; its caller is interrupted and it stays visible as failed; or it leaves no trace and its
number is given back. `PrepareNextStop` and `PrepareNextCommand` are the two halves of
`prepare_capture_ticket`, `SubmitResume` and `SubmitDebug` the resumes. A plan goes through `Prepare`,
`WriteCode`, `WriteId` (or `Writeback`), `ContinueEnters`, `ContinueAcknowledged` or
`ContinueUnanswered`, and waits. `_route_stop` is `ServiceStop` with `ReadCompleted` and `ReadValues`,
`CaptureStop` with `OpenScope`, or `DebugStop`. `PolicyReads` and `PolicyRecords` are the two locked
sections of `settle_main`. `AskStop`, `RequestStop`, `StopCancelled`, `TargetTerminated` and
`ConfirmedExit` are Stop, from the snapshot to the observer that publishes the loss.

Abstracted: a command of the plan is entered and answered in one step, so a Stop meets it before or
after, and an error answered while a Stop is under way is one answered before it; `RdbgArbiter` has
these cases. The parts of a writeback and the cells are in the modules of CAPTURE; here a writeback
succeeds, fails or goes unanswered. Worker activation, reconciliation (which nobody asks of a MAIN
ticket) and `close()` are left out. An attempt that proves nothing about the target changes nothing.

Properties. `RepliesInOrder`: the stops of a command are numbered without a gap, nothing follows its
completion or overtakes an older command, and a correlation ticket is answered by the first CAPTURE
reply after it was issued, although tickets are bound in three places and withdrawn submissions hand
them back. `OnlyAdmittedRuns`: command fields outlive a failed submission and numbers are given back,
and still the kernel runs only the current command, with its own code, and never one whose dispatch
`main_dispatch_evidence` denies. `PolicyAccepts`: the conditions of the policy and of both sections of
`settle_main` never refuse a stop that was recognised; a refusal would leave its ticket unknown.
`LossIsPublished`: once the proven exit has settled a ticket, the observer publishes it, the command
ends, and no frame is offered, whatever the snapshot of Stop held.

## Worker generations

`WorkerGenerations` models the loading of common modules and notebook methods into a live 1C
target. Each load or method definition makes a new *generation*: a set of registrations under one
root object.

| variable | code |
|---|---|
| `host` | `WorkerUniverseRegistry` (`worker_universe.py`): state, next, pending and active generation, records, retained handles, registrations and their reference counts, the leases of MAIN and of a CAPTURE cell |
| `target` | `ServerWorkerUniverseRegistry` (`worker_universe.py`): registrations staged, instantiated, and known not to compile |
| `spots` | `worker_breakpoints.py`, `breakpoint_routes.py`: slots, "unknown" flag, debug views, logical breakpoints and the removed ones |
| `pub`, `svc` | the activation adapter's snapshot (`execution/worker_activation.py`) and the module service (`worker_module_lifecycle.py`) |
| `plan`, `calls` | the promotion under way on the arbiter's worker; what each client thread has prepared |
| `main`, `cleanup` | the MAIN command that pins a generation; the lease releases the arbiter still owes |
| `remote` | 1C: active root, prepared root, breakpoint slots of the debugger. The root instructions are BSL text that the host builds (`worker_universe.py`: prepare, swap, discard), and `Effect` is what they do |

A promotion is a sequence of remote commands, one action each: `Stage`, `PrepareRoot`,
`InstallSlots`, `Swap`, then `PublishFirst` or `PublishNext`, with the failures that are known
(`StageFails`, `RootFails`, `Conflict`, `SwapFails` and the compensation `RestoreSlots`,
`DiscardRoot`) and `LoseReply`, after which nobody knows whether the command took effect. Client
threads prepare their loads, cells and releases outside the plan (`CallLoad`, `CallCell`,
`CallRelease`) and are rejected when the inventory they prepared from has moved (`Current`).

The fences of the universe are fixed numbers here, and the ledger's teardown and
`abandon_target` are left out: no product code calls them. The adapter always has a breakpoint
workspace, cells are always prebuilt, and disabled breakpoints and CAPTURE points are left out: they
take part in no decision of a promotion. A plan begins with one compare of everything it was prepared
from, so preparing during a plan reads what it would have read before it, and `Idle` guards the calls.

Properties. `RefcountsExact`: the counts of registrations agree with the records and leases that
hold them after every order of prepare, confirm, pin and the two releases. `PinnedStaysLive`: what a
paused command pins is never collected. `TargetAgrees`: the root in the target is the one the host
believes active, no known failure leaves a prepared root behind, and what a root instantiated is not
hidden from type probes by an earlier compilation failure. `LoadsCompose`: no acknowledged load or
method is lost when two clients overlap. `SlotsMatch`: the debugger has
the slots of exactly the live generations, and has them before a root runs. `BrokenOnlyByLoss` does not
hold: see [findings](#findings).

## The agent runtime

`OperationRegistry` models `operations.py` of the MCP package: a journal to which every submission
and transition is appended before it is shown, the operations in memory, and the one lane that
executes them. `AgentRuntime` extends it with `service.py` and `runtime_backend.py`: the one runtime
and its ownership file, the startup request, the cleanup a failed start left behind, and the 1C
processes, which survive a crash of the service.

| variable | code |
|---|---|
| `journal`, `reg`, `order`, `queue`, `lane` | `operations.jsonl`, `_operations` and its order, the executor's queue and its one thread |
| `svc` | `_runtime`, its closing flag, `_startup_request`, `_orphaned_ownership`, the factory's pending cleanup, `_closed` |
| `api` | the backend a `runtime.start` or `runtime.restart` has started under the service lock and not yet published |
| `owner` | `runtime-owner.json` |
| `process`, `alive`, `starter` | the life of the service process; the 1C processes and who started them |

`LaneStep` is the executor's thread: it takes a job, journals the identity of an execution, starts a
backend or dispatches a run, and settles. `EnsureStarts`, `RuntimeStart`, `Restart`, `SubmitRun`,
`Close` and `ServiceCloses` are the calls of clients. A call reads `_closed` before it takes the service
lock (`service.py:222`), so one that was let in may still run after `close()`; the model lets any number of
them run. An operation such a call submits gets an executor of its own, but `_execution_lane` still admits
one job at a time, which is the one `lane`. `Crash` may come between any two steps;
`Boot`, `Recover` and `Open` are the next process, which replays the journal, settles what it
finds unfinished as unknown, and reads the ownership file. `TransitionRefused` and
`SubmissionRefused` are appends that the file system refuses, `ExecutorRefuses` a submission whose executor takes
no work: it is journalled as failed at once.

A run stands for `code.run`, `capture.run_until` and a hypothesis. The latter two may end
with a runtime whose state they do not know: then they are unknown and the lane marks the runtime as closing,
without the service lock (`Quarantined`), after which only a close or a restart is accepted.

Abstracted: an append succeeds whole or is refused whole; an operation equal to a live one joins
it, so identities are distinct requests; messages, view facts, diagnostics and waiters are left out;
"captured" is merged with "completed"; one profile and mode, and every caller has selected the
runtime. The ownership file is replaced atomically (`os.replace`), so a torn one is not modelled. A
reconciliation that fails changes nothing.

Properties. `AnswersLast`: what was shown as completed or failed is shown so ever after, also by
the next process. `DispatchIsJournalled`: no run is dispatched twice, and none whose dispatch the
next process could not see. `RuntimeOwned`: there is at most one runtime, and the
next process finds it. `AbortCoversGeneration`: closing a runtime leaves no run that looks live.
`AcceptedEnds`: every accepted operation ends, through crashes, unless the file system refused one
of its records. `RestartUnwedges` does not hold: see [findings](#findings).

`RuntimeOwned` excepts `stray` backends: `runtime.start` and `runtime.restart`
start a backend and write the ownership file only when it is up (`service.py:2769`). A crash in
between leaves 1C processes that no file names. The gap is visible in the model; no document or
test of the repository speaks of it, so it is recorded as a hazard.

## The extension

`ExtensionLifecycle` models what a kernel does before it has a session: `RuntimeSession.start`
(`session.py`) with `ExtensionLifecycle.prepare` and `commit_handshake`. A 1C client only answers when
the runtime extension of the kernel's own release is in the infobase, so each start inspects the
extension, installs or updates it, launches its clients, and repairs it once if they do not answer.

| variable | code |
|---|---|
| `loaded`, `applied`, `safe` | the infobase: the extension's edited configuration, the one clients run, its safe mode |
| `marker` | the file of `ExtensionStateStore`: the release last verified by a handshake |
| `holder` | `InfobaseExtensionLock` |
| `start` | the call of `start()` in each kernel: position, attempt, decision, retries left, the backup of an update, the artifact its client runs |

`Start` reads the marker without the lock and `Enter` reads it again under it. `Inspect` compares a
dump with the bundle and decides: nothing to do, install, update, or refuse. `DumpBackup`, `Load`,
`Apply`, `Verify` and `DisableSafeMode` are the commands of the mutation session, and `RollbackLoad`,
`RollbackApply` those of `_rollback`; each may fail, with or without its effect. `Launch`,
`HandshakeHolds`, `HandshakeMismatch` (also of a sound extension whose handshake cannot be read or
times out), `RegistrationLost` and `AttemptFails` are the attempts of
`start()`, `Repair` the forced second decision, and `Commit` writes the marker under the lock, which was
free since `prepare()` returned. `Crash` ends a kernel at any point.

Assumed of 1C (external): a dump shows the edited configuration; a client runs the one that was last
applied; loading an absent extension creates it in safe mode; a command in flight when its kernel dies
took effect or did not, and is over before anybody else gets in, since its Agent keeps the infobase.
Abstracted: an artifact is a release with its origin, and `"edited"` stands for any other fingerprint
under the product's identity; the protocol version goes with the release; operation directories and
logs are left out. The kernels use one runtime directory, so they see one marker and one lock; the
notebook in the infobase is closed with its kernel. `ExtensionMode.MANUAL` skips the decision and
removes the marker.

Properties. `CertifiedHolds`: while a marker certifies a release, or a kernel that was admitted on it
runs, that release or a later one is loaded, applied and out of safe mode. The lock is released between
`prepare()` and `commit_handshake()`, so the property rests on no kernel downgrading a newer extension
(`Inspect`), and on `Enter` removing the marker before anything is changed. `StartEnds`: every start
ends in a session or in an error of its own; the attempts never run into the assertion behind the loop.
`TypeOK` also says that the lock is held exactly while a kernel inspects or mutates. `RepairRepairs` does
not hold: see [findings](#findings).

## Runs and bounds

| run | instance | shows |
|---|---|---|
| `arbiter_ownership` | 3 tickets, server target, one route, no finalizer | the ownership, cleanup and close invariants, Stop fence, finality of answers |
| `arbiter_policy` | 3 tickets, file target, routes 0..1, every submission with a finalizer, `FairSpec`, steps within `Bound` | through finalizers that fail, blocked Stops, stale routes and route handoff with a cleanup, the arbiter implements `RemoteOwnership`, Stop and close make progress, and a cleanup, or its retry after a failure, is started beside what else is queued and on the route that was handed off |
| `foreground_heartbeat` | 3 tickets, `ForegroundFairSpec` | a finding, see below |
| `continuation` | 2 variables in 3 spellings, 2 point sets, 1 cell, 1 attempt, 2 resumes | writes, Continue and the freeze of the roots; registration by variable, not by spelling; rollback, quarantine, commit and the evidence |
| `evaluations` | 2 receipts, history of 1, 2 waiters, `FairSpec` | selection, quiet while paused, finality of outcomes; records of cells retire, answered waiters return |
| `main_route` | 2 commands, 2 stops, 4 tickets, 2 correlation tickets | replies, what the kernel runs, what the policy accepts, the publication of a loss |
| `worker_generations` | 1 unit, 2 methods, 2 clients, breakpoints in the notebook module, 3 generations | counts, pins, target, slots and loads through every interleaving of two clients, a command and its cleanup |
| `worker_release` | 1 unit, 1 method, 1 client | a finding |
| `agent_runtime` | 2 startups, 1 run, 2 backends, 2 crashes, 1 refused append, `FairSpec` | journal, runtime and ownership through crashes and restarts; accepted operations end |
| `startup_recovery` | 1 startup, `RestartingSpec` | a finding |
| `extension_start` | 3 kernels of 2 releases, one of which may start manually, `FairSpec` | what is certified stays installed beside starts of other releases, failures, rollbacks and deaths; starts end |
| `extension_repair` | 2 kernels of 2 releases | a finding |

* `Tickets` is a finite supply of identities, as no ticket is ever reused. Three give an owner with
  its cleanup and a third ticket that queues, overtakes, is cancelled or retries that cleanup;
  a user, a cleanup that fails and its retry; or a heartbeat and two users.
* `Bound` limits the steps of `arbiter_policy` (as an action constraint). Two tickets (an owner and its successor, or its cleanup) take every
  path; beside a third, counting the cleanup the active plan has registered, plans end locally, with each
  of their outcomes. So an owner, its cleanup and a request that waits beside it, or a retry of a
  cleanup that failed, are all there, with Stops, closes and stale routes; three tickets that
  reach the target are in `arbiter_ownership`. Identities are interchangeable and never reused, so taking
  them in order (`InOrder`) loses nothing. The bound leaves out only submissions, registrations and the start of remote
  work, never a step of the mailbox, the end of a call or the end of a plan, so every step that `Fairness` speaks
  of is still there. Also run by hand: four tickets on one route, without finalizers, where a retry is queued beside
  requests that wait already (212 thousand states).
* `SpareTicket`: a submission never takes the last identity while the active plan still needs one
  for its registered cleanup. Without it the settlement would be blocked by the bound, not by the
  code.
* `MaxRoute` bounds the route epochs. One change suffices for a ticket to become stale, since the
  code compares routes for equality only when it takes a ticket.
* `Policies` says whether submissions carry a finalizer (a finalizer that succeeds leaves what a
  submission without one leaves); `Backend` is the target kind of the
  session, `unmatched` standing for a selected target the backend cannot terminate.
* Tickets are interchangeable and no formula names one, so `arbiter_ownership` uses symmetry;
  `arbiter_policy`, with its liveness and refinement, does not, and orders them instead.
* `MaxCells`, `MaxAttempts`, `MaxResumes` count what clients submit in one stop. A cell changes a
  variable before, between or, if the code let it, during two resumes, of which one fails or is
  rolled back and one completes, with or without the attempt. Larger instances were run by hand, with
  the inductive invariant of the proofs: two cells with two variables (12.6 million states); and two cells,
  two attempts, the second after a rollback of the first, and three resumes, with one variable in two
  spellings (9.7 million).
  `Roots` are three spellings of two variables: `r1` and `s1`, which are interchangeable, name the
  same one. `PointSets` needs two values to tell a restored registry from one that was not changed.
* `Receipts` are the evaluations of one stop, each begun once; `HistoryLimit` is 32 in the code. Two
  receipts in a history of one trim with every begin, and two waiters hold different records.
* `MaxCommands`, `MaxStops`, `MaxTickets`, `MaxIntents`: two commands are one and its successor, which
  meets the fields, the count and the registration of the first. Two stops let a stop follow a resume,
  or one stop fall on each command; four tickets are a command, two resumes and another command, and
  two correlation tickets one that is replaced by another. Three stops were run by hand (4.2 million
  states).
* `MaxGen` counts prepared generations: with three, one can be pinned by a paused command while the
  next was released and a third is promoted. Two methods and one unit are a load that overlaps a
  definition and two definitions that overlap. Larger instances were run by hand: two units of
  different modules, one method and three generations (3.9 million states), and three units, two of
  one module, with two methods and two generations (1.5 million).
* `MaxBackend`, `MaxCrashes`, `MaxRefusals`: a second backend is a second runtime; two crashes are one
  while an operation is under way and one during its recovery; one refused append is enough, as the
  refusals are independent of each other. Also run by hand: three backends (1.6 million states), and
  one startup with two runs (1.8 million states, safety only).
* Two releases are an older and a newer one; each kernel knows only its own, so a third adds no new
  comparison. Two kernels of the newer one let one certify while the other waits for the lock, and the
  older one meets an extension it must not touch. The infobase starts with any artifact, also an absent,
  foreign or edited one. Nothing else in this module is bounded.
* `CHECK_DEADLOCK FALSE`: the system really stops. A capture stop that has ended takes no more
  evaluations. A released or lost capture stop has no next
  step, nor has one whose bounds are used up. A closed arbiter whose worker has exited has no
  next step, nor has one whose ticket supply is used up and whose callers are all answered. A closed
  service whose calls have ended and whose crashes are used up does nothing, nor does a broken universe that nobody calls.
  Blocked progress is a matter of the liveness properties instead.

## Fairness

`Fairness` assumes that the worker thread is scheduled (`MailboxNext`), that a port call ends
(`CallEnds`: RDBG requests and polls carry timeouts), that a plan which can do nothing more
returns or raises (`PlanEnds`), and that a thread waiting in `close()` runs when its condition
holds. All are weak: each names steps of one thread that stays enabled until it is scheduled, and
the Python lock is held for short sections. Not assumed: that a caller submits, dispatches, stops
or retries; that the target ever answers; that a polling plan ends. A BSL evaluation has no
deadline, so a plan may poll for ever, and `StopReachesTarget` holds although nothing forces the
evaluation itself to finish: the checkpoint at the end of each poll interval does it. `PlanEnds` is
weakly fair and always enabled between two calls of a plan, but disabled within a call, so a plan
that keeps calling is never forced to return.

`CaptureEvaluations` has a `Fairness` of its own, all weak: a submission under way proceeds, is
refused or returns (`SubmissionProceeds`: local code under one lock, around calls that do not wait
for the target), an observer that found its ticket unknown or settled goes on, and a notified
waiter runs. Not assumed: that a ticket is taken or settles, that anything is reconciled, that the
stop resumes or ends, that a wait has a timeout.

`MainRoute` assumes only that the observer of a stopped ticket runs when the ticket is settled. No
plan, kernel or caller need go on.

`AgentRuntime` assumes the executor's thread (`LaneStep`), the API call that holds the service lock
(`StartPublishes`), and that a process that went down is started again and recovers (`Boot`,
`Recover`, `Open`), all weakly. Clients need not call, crashes need not happen (their number is
bounded). `LaneStep` includes `RunFails`, since a dispatch to a backend that is gone ends with an
error. `RestartingSpec`, used only by the finding, adds a client that keeps asking for `Restart` and
`Close`: the strongest help a user can give.

`ExtensionLifecycle` assumes weakly that each kernel's thread goes on (`Step`): every command of the
Configurator and every launch has a time limit, and the wait for the lock has one too. Starts, closes
and deaths are not assumed, nor that any command succeeds.

## Findings

`foreground_heartbeat` violates `HeartbeatWaitEnds`. `try_heartbeat` (`execution/arbiter.py:732`)
admits a heartbeat when nothing is active, queued, reconciled or scheduled for termination; it does
not look at `_cleanup_debt`. While a failed cleanup is owed, the worker takes no ticket but the
retry of that cleanup (`execution/arbiter.py:1107`), so the heartbeat stays in the queue. A
foreground caller in `await_preparation_context` first waits for the idle heartbeat, without a
timeout, and would report the debt only in the wait that follows. The counterexample: a statement
settles and its cleanup fails; the keepalive thread queues a heartbeat; the next statement waits
for it for ever, unless some other thread retries the cleanup. The comment at `session.py:758`
expects the opposite: "The request itself has a bounded transport wait."

`worker_release` violates `BrokenOnlyByLoss`: load, release, load. After its swap a promotion
releases the generation published before (`execution/worker_activation.py:354`). If
`release_worker_generation(handle)` has released that one already, the ledger refuses, the refusal
becomes `WorkerActivationUnknown`, and the new lease is retained as unknown: the universe is BROKEN
for the rest of the session, although every command was answered. The documentation
(`src/docs/python-api.md:63`, `:74`) says that a further load creates a new generation and offers
the release without calling it the last.

`startup_recovery` violates `RestartUnwedges`. A startup that a crash interrupts is recovered as
unknown and becomes the service's startup request. `reconcile_unknown_startup`
(`runtime_backend.py:1176`) answers that nothing is reconciled when the factory has no pending
cleanup, which in a new process is always so; so `abandon_unknown_startup` is never reached, whatever
the client asks, and every later process recovers the same startup. The method's docstring
(`operations.py:609`) says "Durably abandon recovered startup ownership after explicit restart."

`extension_repair` violates `RepairRepairs`. Load and apply are two commands
(`configurator_agent.py:402`, `:412`), a dump shows what is loaded, and a client runs what is applied.
After a kernel dies between the two, or an apply and its rollback fail, the next start finds the
extension current, its handshake fails, and the one repair, `prepare(force_slow=True)`, turns safe mode
off but neither loads nor applies (`extension_lifecycle.py:151`): the start fails, and so does every
later one. The comment at `extension_lifecycle.py:136` says "repair through the Agent if either check
fails."

## Other divergences

Seen in the code and its documents while modelling, and visible in the models; no run is kept for
them.

* `submit_resume` calls `mark_resuming()` before its ticket is queued (`controller.py:2136`). Only a
  submission that was never adopted and the rollback of an attempt clear the flag. When Stop cancels
  a queued resume that belongs to no attempt, or such a resume fails before Continue, the public
  phase stays `resuming` although nothing is in progress.
* A cell registers `Total`; an attempt names the same variable `total`. Both are the same by
  casefold, so the attempt is admitted, `Total` is written and Continue acknowledged; but `commit()`
  looks `total` up in a ledger keyed by spelling and fails with a `KeyError`
  (`controller.py:1993`, `capture/writeback.py:109`). A rollback of such an attempt fails in the same
  place.
* A submission begins its record before the arbiter has its ticket, and a client may wait for it at
  once. If the submission is then refused or cancelled, `discard_unstarted()` deletes the record
  without an outcome (`capture/evaluation_ledger.py:147`); the client is woken, finds no outcome, and
  sleeps again. The design
  (`src/docs/superpowers/specs/2026-09-15-capture-inspection-api-design.md:776`) has such a record
  marked failed and its outcome retained.
* A helper interrupted after its dispatch has no observer (`controller.py:2371`): if it is then
  stopped before any effect, its record stays active and the stop `evaluating`.
* Stop takes its snapshot before it asks the arbiter (`stop_coordinator.py:50`). When the command stops
  at a CAPTURE point in between, the proven exit marks the operation lost, but not the new scope
  (`controller.py:1271`), which stays `opening`. The design
  (`src/docs/superpowers/specs/2026-09-17-main-capture-execution-design.md:241`) has both lost.
* A setup of a CAPTURE scope that ends with an error settles the ticket and leaves the command
  suspended in a scope that is not ready. The design (lines 196 and 234 of the same document) then
  offers the repair of the failed step; no product code does, and no resume, command or Stop is
  possible any more.
* A confirmed failure to read the completed command's number (`execution/main/completion.py:89`), or a
  different number, settles the ticket and leaves the operation `running`: no ticket waits for its
  stop, and no other command is admitted.
* Registrations leave `RouteSettlementService` on completion and when a submission is unwound, not
  when a command is withdrawn, fails before its dispatch or is lost, though `settlement.py:110` names
  confirmed settlement or explicit discard as their end.
* `submit_resume_debug_stop` asks for the phase, not for a resume in flight. Two calls in a row queue two
  Continues: the second runs past the next breakpoint, if the command stops there before the second is
  taken, or ends as an error; `controller.py:2639` says "Continue the current user breakpoint".
* A submission whose journal append is refused leaves an operation that looks queued and that no
  executor has (`operations.py:453`); it ends with the process, or with the close of its runtime.

## Proofs

TLAPS checks the theorems below for every value of the constants that satisfies the named
assumptions; sets of tickets, receipts, kernels, units and callers need not be finite. TLC evaluates every
assumption on the runs. Each inductive invariant was checked by TLC as an invariant before it was
proved; that of the agent runtime with three backends, two crashes and two refused appends (2.1 million states).
Where the steps of a module have many actions, the proof first reduces them to a few
*moves* (what a step may do to one part of the state) and then shows that each move
preserves the invariant.

### The arbiter

Assumptions: `NoTicket` is not a ticket, `Backend` is one of its three values, `MaxRoute` is a
natural number, `Policies` is a set of Booleans.

| theorem | states |
|---|---|
| `TypeCorrect`, `OneOwner`, `TeardownFenced` | `[]TypeOK`, `[]SingleOwner`, `[]TeardownFence` |
| `RemoteWorkAccounted` | `[]RemoteAccounted`: what the live target may execute is work of the active ticket, which holds evidence of it |
| `CleanupsKept` | `[]CleanupKept` |
| `StopFenced`, `SettlementFinal` | the step properties `StopFencesTransport` and `SettledIsFinal` |
| `ArbiterImplementsOwnership` | the refinement: `Spec => ImplementsOwnership` |

`SingleOwner` is not inductive. `TakeReconciliation` sets the phase of `active` to `running`: that
keeps the invariant only if there *is* an active ticket, so a pending reconciliation must imply an
owner in phase `reconciling`. `TeardownConfirms` retires `teardown` and clears `active`: the two
must be the same ticket. The worker's steps name the ticket they started with, so a busy worker
must hold the active ticket in phase `running`. Hence

    OwnerInv == SingleOwner /\ TeardownFence /\ WorkerAgrees /\ MailboxAgrees

where `WorkerAgrees` ties the worker's position to the phase of the owner and `MailboxAgrees` ties
a requested reconciliation, a scheduled termination and the close gate to the owner.

`RemoteAccounted` needs more: between a transport entry and its answer, work is at the target before
the evidence of its kind is written, and at settlement the verdict was read before the evidence
is dropped. On top of `OwnerInv`,

    EvidenceInv == RemoteHasOwner /\ CallHasEvidence /\ VerdictHasNone /\ TerminatedIsGone

says that inside a port call the evidence is on the ticket before the target can know of it and is
still there when the answer comes, that what is about to settle as an answer has nothing
outstanding, and that only a proven absence of the target terminates the arbiter.

`CleanupKept` speaks of parents and children, and its hard cases are the retry, the
close and a termination that arrive while a cleanup is queued or owed:

    CleanupInv == Families /\ OneLiveCleanup /\ MailboxRules /\ NothingOvertakesCleanup /\ CleanupNotLost

`Families` makes kinds, parents and children agree, `OneLiveCleanup` says that at most one cleanup is
on its way, that it is at the head of the mailbox and that no other debt is owed meanwhile, and
`MailboxRules` that nothing waits in a closed arbiter.

The refinement maps `active` to the abstract owner, `remote` to `busy` and the phase of each ticket to its
stage. Initial states map to initial states, and each step, under `OwnerInv` and `EvidenceInv`, to a
step of `RemoteOwnership` or to a stutter: taking a ticket is `Grant`, the entry of the target into
work and its end are `Act`, a settlement is `Release`, and leaves at most the cleanup behind, a proved
termination is `Retire`, and what ends in the mailbox is `Withdraw`.

### The extension lifecycle

Assumptions: releases are positive numbers; each kernel carries one; `NoKernel` is not a kernel.
`TypesHold` states `[]TypeOK`, `CertifiedStays` states `[]CertifiedHolds`, and `LoopNeverExhausted` that
the loop of `start()` never reaches the assertion behind it (`session.py`): not a property of a
run but a lemma about the code's own claim. The types need `RetriesCounted`, which counts a kernel's attempts against
the two reasons to retry.

`CertifiedHolds` is about kernels that take the lock apart: one certifies what another may have
begun to replace. `InstallInv` says that a mutator has removed the marker before it touches what is
loaded (`MutatorRemovedMarker`), what a kernel knows at each step of a mutation and of a start
(`MutationKnows`, `StartKnows`), that nothing older than an edited artifact that clients run is ever loaded
over it (`EditedIsReplaced`), and that every certified release is installed.

### The evaluation ledger

Assumptions: `NoReceipt` is not a receipt; `HistoryLimit` is positive. `LedgerTyped` and
`PausedIsQuiet` state `[]TypeOK` and `[]PausedMeansQuiet`; `OutcomesFinal` states the step property `OutcomeIsFinal`.
`PausedMeansQuiet` compares the public phase with the tickets; what ties
them is the submission that is between the two, or the observer that has seen an outcome and not yet
applied it:

    LedgerInv == FreshIsUnused /\ SubmissionOwns /\ ActiveIsOpen /\ ObserverSaw /\ PausedMeansQuiet

`OutcomesFinal` follows from `ActiveIsOpen`: only the active record is answered, and it has no
final outcome.

### The worker generations

Assumptions: no unit is the Worker module, units and methods are disjoint, `Marks` are registrations, `MaxGen`
is positive. `MethodAssumption` is there for the proofs: the history of acknowledged loads
and cells holds units and methods in one set, and in the code they are objects of different classes.

| theorem | states | needs, on top of the previous |
|---|---|---|
| `CountsExact` | `[]RefcountsExact` | `Ledger`: `Shape` (retained, pinned, pending and active generations are records below `next`) and `Exact` (each count is the number of records and leases that hold the registration) |
| `PinnedLives` | `[]PinnedStaysLive` | `Control` and `Live`: every record has its debug view and its registrations in the target, and nothing failed is instantiated |
| `RootsAgree` | `[]TargetAgrees` | `Agree`: host and target agree about the root until the universe breaks |
| `LoadsAreKept` | `[]LoadsCompose` | `Composes`: service, adapter and history agree (`Inventory`), a call holds the inventory of its revision with its own unit added (`Prepared`), and a promotion's call is still of the current revision (`PromotesCall`) |
| `SlotsAreKept` | `[]SlotsMatch` | `SlotsInv`: which slots are installed at each step of a promotion |

`Exact` is a statement about cardinalities of sets that the ledger's operations change by
one generation at a time; each operation has a lemma for its counts and one for its shape, and every action is shown to
apply a sequence of them. `Control` contains the types of the rest, `PlanStands` (what each step of the
worker's plan has behind it) and `LeasesOwed` (a pin of a call or of a paused command is in the ledger
until it is released).

### The MAIN route

Assumptions: the four bounds are natural numbers. The inductive invariant has four parts:

    Inv == Typed /\ Owned /\ Fenced /\ Control

* `Typed`: every variable, and that a stop of the kernel is counted at most once.
* `Owned`: exactly the active ticket runs or is unknown, the queue has distinct queued tickets of the
  current command, the worker is at a step exactly while the active ticket runs, and a command
  has one MAIN ticket.
* `Fenced`: after the exit of the target the arbiter is empty; what was cancelled before it ran is settled.
* `Control`: what the route of a ticket stands for while it may still act (`Routed`), whose scope it is
  (`Scopes`), what each step of the plan has behind it (`Steps`), what the loop in 1C has of the
  fields of the command (`Kernel`) and what it ran (`Ran`).

`CommandsTypeCorrect` (`[]TypeOK`) and `RunsAreAdmitted` (`[]OnlyAdmittedRuns`) follow from `Inv`. The hard case of
the second is a submission that fails after the command's fields are written and before
Continue: the fields outlive it, and only the numbering of commands and the order of the
writes (`id` after `code`) keep the next Continue from running them.

`RecognisedStopsAnswered` (`[]PolicyAccepts`) adds `Numbered`: the registration of a command counts the
command's stops exactly, less one that is on its way to its reply, unless the scope never
becomes ready or the target is gone. `RepliesAreInOrder` (`[]RepliesInOrder`) adds
`Told == InOrder /\ Counted /\ Expected`: the property restated reply by reply, that a live registration
counts the replies that exist, and that no CAPTURE reply since a correlation ticket was issued
is of an older command or stop. Both rest on `NextIsSteady`: a phase that ends a command is its
last.

### Shared lemmas

`QueueLemmas` states, for sequences without repetition, that appending, prepending, removing an
element, taking a tail or a suffix leaves one, with the expected elements, and what
`RemoveAt` returns. The library's theorems that take an operator as a parameter cannot be instantiated
by the installed provers, so the module has induction of its own over a *set* of numbers
(`InductionUpTo`, from the well-foundedness of the natural numbers, like `LeastMember`), and, for functions
defined by recursion on a number, that one exists (`Iterated`) and that two of them agree (`IteratedOnce`).

### One CAPTURE stop

Assumptions: `Casefold` names a variable for each root, the initial points are a point set, the three
bounds are natural numbers. One invariant carries the five theorems, `TypesHold` (`[]TypeOK`),
`EffectsHappenOnce` (`[]EffectsOnce`), `EveryChangeIsCarried` (`[]ContinueCarriesEveryChange`),
`EvidenceIsNotOptimistic` (`[]EvidenceNotOptimistic`) and `RollbackRestoresTheStop` (`RollbackIsClean`):

    Inv == Typed /\ Mailbox /\ Jobs /\ Rolling /\ Ledgers /\ Writes /\ Continues /\ ContinueTold

* `Mailbox`, `Jobs`: one ticket of a kind, no resume beside a cell, the job is that of the resume in
  flight. The types need them: a plan that rearms has points, and a restore has its rollback.
* `Rolling`: from the first locked section of a rollback to the second, if the admission is still its own,
  no resume is made and what it restored stays. The rollback releases the lock in between and checks
  neither again.
* `Ledgers`, `Writes`: a ledger that began is that of the registered roots, and no cell runs beside it; an
  unwritten phase means that nothing was sent for the variable, `exported` and `modify_sent` that
  the exported value is the latest, `succeeded` that the frame has it; and a variable that differs from
  the frame is registered. `EffectsOnce` fails without the first, at a rollback that discards the ledger, or without the
  list naming each variable once (`OneSpelling`), since the ledger has a phase per spelling.
* `Continues`: from the end of the flush on, every registered root is written, and stays so. A flushed
  ledger is `ready` (`FlushedIsReady`), so no rollback discards it.
* `ContinueTold`: an attempt's record of its Continue is behind the truth only while the acknowledgement
  is awaited.

That a flush always works on a root of the ledger (`NextRootFacts`) needs the least element of a set of
positions (`LeastMember`, from the well-foundedness of the natural numbers).

### The agent runtime

Assumptions: startups and runs are disjoint, `NoOp` is neither, `MaxBackend` is positive, the other bounds are natural
numbers. One invariant carries the five theorems, `AgentRuntimeTypeOK`, `AgentRuntimeAnswersLast`,
`AgentRuntimeDispatchIsJournalled`, `AgentRuntimeRuntimeOwned` and `AgentRuntimeAbortCoversGeneration`, each of which states
`[]` of the property it is named after:

    Inv == Registered /\ Serving
    Registered == RegistryTyped /\ Remembered /\ InLane /\ Answered /\ Dispatching
    Serving == RuntimeTyped /\ OneStartup /\ Exclusive /\ Held /\ Handed /\ AbortCoversGeneration

* `Remembered`: memory is the replay of the journal, but for an operation whose submission was refused; that one
  is queued, or was marked with its generation. While a process recovers, memory is the replay exactly.
* `Answered`: what was told is what the replay gives. The exception is a startup told as unknown and then
  abandoned, which the journal has as failed (`abandon_unknown_startup`). No property of a final state
  survives a crash without it, as memory does not.
* `InLane`, `Dispatching`: what is queued was submitted, what is in the lane was started, and a run before
  its dispatch was not dispatched. Without the second nothing keeps an operation from entering the
  lane again.
* `OneStartup`: a startup that may still start a backend is the one `_startup_request` names, and while it may, there is
  no runtime, no orphan and no API call that starts one. A lane and a service lock keep two backends apart
  only through this.
* `Exclusive`, `Held`: at most one of runtime, pending cleanup, orphan, API call and lane holds a backend, which is alive
  and the only one that is not stray; the ownership file names that one
  or none.
* `Handed`: who answers for a backend that the file does not name. One that no startup started is in the hands of the
  running service; of another the startup's outcome is open, so that the next process recovers it.

Two facts carry most of the steps. The first is what one more record does to the replay (`ReplayAppend`), and a
whole series of records (the abort of a generation); `Replay` and `Among` are
recursive functions, so this is an induction over the journal. The second is that every step of a running process moves the
record of an operation in one of five ways (`Stays`, `Taken`, `Ends`, `Enters`, `Aborts`; an operation may enter and
end in one step, when its executor takes no work) and that each preserves `Registered`. Each action is shown to move each record so, and then to keep each part of `Serving`.

## Only model-checked

* Liveness, for which fairness and `ENABLED` are outside the prover's reach: `StopReachesTarget`,
  `CloseReleasesWorker`, `CleanupServed` (arbiter), `AnsweredWaiterReturns`, `AcceptedEnds`,
  `StartEnds`, `CellRetires`, `LossIsPublished`.
* `RdbgForeground`: its run is a finding, and what it adds to the arbiter is liveness.

All were checked exhaustively on the instances above.

## Not modelled

* XML encoding and event parsing of the RDBG session: the arbiter sees typed outcomes, and those are
  modelled. Buffered events are a poll that finds its answer at once.
* Read-only views of the arbiter (`status`, `has_pending_operations`, `wait_settled`).
* The content of a plan: the arbiter must be correct for any sequence of port operations.
* Timeouts as numbers: a timeout is an action that may happen.
* Generated or vendored code (the BSL parser), text lowering, source maps, table and value
  encodings: sequential conversions without shared state.
* Jupyter and VS Code, and the requests of the MCP agent that neither start, run nor close anything:
  glue over the public API.
* The BSL kernel (`src/onec/`) beyond its command loop: runs in the target.
* `capture.continue` as an operation of the MCP agent: it journals no identity of an execution before its
  dispatch. What it does to the stop is in `CaptureContinuation`.
* The supervisor: no product code constructs a `SupervisedRuntime`, only tests do.
* Components the plan names for later are listed as `not_modelled` in `PROJECT.json`.

## Plan

Order: most important behaviour first.

1. `RdbgArbiter`, `RemoteOwnership`, `RdbgForeground` and the first theorems (done).
2. `CaptureContinuation` (done for one stop). To come: an abstract ledger, in which each variable is
   written at most once before one Continue, as a refinement; temporary cleanup debts.
3. `CaptureEvaluations` (done for one stop).
4. `WorkerGenerations` (done; disabled breakpoints and CAPTURE points left).
5. `OperationRegistry` and `AgentRuntime` (done).
6. `MainRoute` (done for MAIN). To come: the settlement of CAPTURE cells and the published names, and the
   release of Worker leases, which would join this module with `WorkerGenerations`.
7. `ExtensionLifecycle` (done).
8. The executor of CAPTURE cells and its cleanup debts.
9. `Supervisor`, last: generations, watchdog, lease, partial termination.

Every invariant and every step property of a passing run is now stated by a theorem. Theorems worth stating
next are about what is not modelled yet: the abstract ledger of item 2, and the composition of `MainRoute` and
`WorkerGenerations` of item 6, whose leases relate a command's pins to its end.
